------------------------ MODULE DirectOverlayProofs ------------------------
(***************************************************************************)
(* Proofs about the direct-overlay back-end, for every set of connection   *)
(* ids and every bound on the session's calls.                             *)
(***************************************************************************)
EXTENDS DirectOverlay, SequenceTheorems, TLAPS

USE ConstantsAssumption


-----------------------------------------------------------------------------
(* Type correctness.                                                       *)

\* The queues a freshly spawned overlay thread starts with are queues.
LEMMA SpawnQueues == << >> \in Seq(Msgs) /\ << "SHOW" >> \in Seq(Msgs)
BY DEF Msgs

\* The window of a freshly spawned overlay thread, and no window, are
\* windows.
LEMMA SpawnWindows ==
  /\ [state |-> "hidden", cloaked |-> TRUE, excluded |-> FALSE] \in WindowType
  /\ NoWindow \in WindowType
BY DEF WindowType, NoWindow

\* The window calls of show_overlay and hide_overlay keep a window a window.
LEMMA WindowTyped ==
  ASSUME NEW w \in WindowType, NEW s \in {"hidden", "shown"},
         NEW k \in BOOLEAN, NEW e \in BOOLEAN
  PROVE  OnWindow(w, WithExclusion(Placed(w, s, k), e)) \in WindowType
BY DEF OnWindow, WithExclusion, Placed, WindowType

\* Every step keeps the Boolean flags Boolean and the hooks two at most.
LEMMA FlagsStep == TypeOK /\ [Next]_vars => FlagsTypeOK'
<1> SUFFICES ASSUME FlagsTypeOK, [Next]_vars PROVE FlagsTypeOK'
  BY DEF TypeOK
<1>1. CASE InitOverlay
  BY <1>1 DEF InitOverlay, SpawnOverlayThread, FlagsTypeOK, flagVars,
              threadVars, selfVars
<1>2. ASSUME NEW c \in ConnIds, TurnOn(c) PROVE FlagsTypeOK'
  BY <1>2 DEF TurnOn, SpawnOverlayThread, FlagsTypeOK, flagVars, threadVars,
              selfVars
<1>3. ASSUME NEW c \in ConnIds \cup {INVALID}, TurnOff(c) PROVE FlagsTypeOK'
  BY <1>3 DEF TurnOff, FlagsTypeOK, flagVars, selfVars
<1>4. CASE DropBegin
  BY <1>4 DEF DropBegin, FlagsTypeOK, flagVars, selfVars
<1>5. CASE DropJoin
  BY <1>5 DEF DropJoin, RemoveInputHooks, FlagsTypeOK
<1>6. CASE WorkerShow
  BY <1>6 DEF WorkerShow, ShowOverlay, InstallInputHooks, FlagsTypeOK,
              flagVars, selfVars
<1>7. CASE WorkerHide
  BY <1>7 DEF WorkerHide, HideOverlay, RemoveInputHooks, FlagsTypeOK,
              flagVars, selfVars
<1>8. CASE WorkerShutdown
  BY <1>8 DEF WorkerShutdown, HideOverlay, RemoveInputHooks, FlagsTypeOK,
              flagVars, selfVars
<1>9. CASE WorkerExit
  BY <1>9 DEF WorkerExit, RemoveInputHooks, FlagsTypeOK, selfVars
<1>10. CASE WindowClose
  BY <1>10 DEF WindowClose, HideOverlay, RemoveInputHooks, FlagsTypeOK,
               flagVars, selfVars
<1>11. CASE Enforcers
  BY <1>11 DEF Enforcers, EnforcerTest, EnforcerExit, FlagsTypeOK, flagVars,
               threadVars, selfVars
<1>12. CASE Terminating \/ UNCHANGED vars
  BY <1>12 DEF Terminating, vars, FlagsTypeOK
<1>13. QED
  BY <1>1, <1>2, <1>3, <1>4, <1>5, <1>6, <1>7, <1>8, <1>9, <1>10, <1>11,
     <1>12 DEF Next, Session, OverlayThread

\* Every step keeps the window a window.
LEMMA WindowStep == TypeOK /\ [Next]_vars => window' \in WindowType
<1> SUFFICES ASSUME FlagsTypeOK, window \in WindowType, [Next]_vars
             PROVE window' \in WindowType
  BY DEF TypeOK
<1>1. CASE InitOverlay
  <2>1. window' = window
        \/ window' = [state |-> "hidden", cloaked |-> TRUE, excluded |-> FALSE]
    BY <1>1 DEF InitOverlay, SpawnOverlayThread, flagVars, threadVars
  <2>2. QED
    BY <2>1, SpawnWindows
<1>2. ASSUME NEW c \in ConnIds, TurnOn(c) PROVE window' \in WindowType
  <2>1. window' = window
        \/ window' = [state |-> "hidden", cloaked |-> TRUE, excluded |-> FALSE]
    BY <1>2 DEF TurnOn, SpawnOverlayThread, threadVars, selfVars
  <2>2. QED
    BY <2>1, SpawnWindows
<1>3. CASE WorkerShow
  <2>1. PICK r \in HookResults : ShowOverlay(r)
    BY <1>3 DEF WorkerShow
  <2>2. QED
    BY <2>1, WindowTyped DEF ShowOverlay, FlagsTypeOK, flagVars
<1>4. CASE WorkerHide
  BY <1>4, WindowTyped DEF WorkerHide, HiddenWindow, FlagsTypeOK
<1>5. CASE WorkerShutdown \/ WindowClose
  <2>1. window' = NoWindow
    BY <1>5 DEF WorkerShutdown, WindowClose
  <2>2. QED
    BY <2>1, SpawnWindows
<1>6. CASE \/ \E c \in ConnIds \cup {INVALID} : TurnOff(c)
           \/ DropBegin \/ DropJoin \/ WorkerExit \/ Enforcers
           \/ Terminating \/ UNCHANGED vars
  BY <1>6 DEF TurnOff, DropBegin, DropJoin, WorkerExit, Enforcers,
              EnforcerTest, EnforcerExit, Terminating, vars
<1>7. QED
  BY <1>1, <1>2, <1>3, <1>4, <1>5, <1>6 DEF Next, Session, OverlayThread

\* Every step keeps the other variables in their types.
LEMMA DataStep == TypeOK /\ [Next]_vars => DataTypeOK'
<1> SUFFICES ASSUME DataTypeOK, [Next]_vars PROVE DataTypeOK'
  BY DEF TypeOK
<1>1. CASE InitOverlay
  <2>1. queue' = queue \/ queue' = << >>
    BY <1>1 DEF InitOverlay, SpawnOverlayThread, flagVars, threadVars
  <2>2. queue' \in Seq(Msgs)
    BY <2>1, SpawnQueues DEF DataTypeOK
  <2>3. QED
    BY <1>1, <2>2 DEF InitOverlay, CallerStep, SpawnOverlayThread,
                     DataTypeOK, flagVars, threadVars, selfVars
<1>2. ASSUME NEW c \in ConnIds, TurnOn(c) PROVE DataTypeOK'
  <2>1. \/ queue' = queue
        \/ queue' = Append(queue, "SHOW")
        \/ queue' = << "SHOW" >>
    BY <1>2 DEF TurnOn, SpawnOverlayThread, threadVars, selfVars
  <2>2. queue' \in Seq(Msgs)
    <3>1. Append(queue, "SHOW") \in Seq(Msgs)
      BY DEF DataTypeOK, Msgs
    <3>2. QED
      BY <2>1, <3>1, SpawnQueues DEF DataTypeOK
  <2>3. QED
    BY <1>2, <2>2 DEF TurnOn, CallerStep, SpawnOverlayThread, DataTypeOK,
                     threadVars, selfVars
<1>3. ASSUME NEW c \in ConnIds \cup {INVALID}, TurnOff(c) PROVE DataTypeOK'
  BY <1>3 DEF TurnOff, CallerStep, DataTypeOK, Msgs, selfVars
<1>4. CASE DropBegin
  BY <1>4 DEF DropBegin, CallerStep, DataTypeOK, Msgs, selfVars
<1>5. CASE DropJoin
  BY <1>5 DEF DropJoin, DataTypeOK
<1>6. CASE WorkerShow
  <2>1. PICK r \in HookResults : ShowOverlay(r)
    BY <1>6 DEF WorkerShow
  <2>2. enforcers' \in [EnforcerPc -> Nat]
    <3>1. CASE privacyActive
      BY <2>1, <3>1 DEF ShowOverlay, DataTypeOK, flagVars
    <3>2. CASE ~privacyActive /\ cursorEnforcerRunning
      BY <2>1, <3>2 DEF ShowOverlay, DataTypeOK
    <3>3. CASE ~privacyActive /\ ~cursorEnforcerRunning
      BY <2>1, <3>3 DEF ShowOverlay, DataTypeOK, EnforcerPc
    <3>4. QED
      BY <3>1, <3>2, <3>3
  <2>3. queue' \in Seq(Msgs)
    BY <1>6 DEF WorkerShow, Receive, DataTypeOK
  <2>4. QED
    BY <1>6, <2>2, <2>3 DEF WorkerShow, DataTypeOK, selfVars
<1>7. CASE WorkerHide
  BY <1>7 DEF WorkerHide, Receive, DataTypeOK, selfVars
<1>8. CASE WorkerShutdown
  BY <1>8 DEF WorkerShutdown, Receive, DataTypeOK, selfVars
<1>9. CASE WorkerExit
  BY <1>9 DEF WorkerExit, DataTypeOK, selfVars
<1>10. CASE WindowClose
  BY <1>10 DEF WindowClose, DataTypeOK, selfVars
<1>11. CASE EnforcerTest
  BY <1>11 DEF EnforcerTest, DataTypeOK, EnforcerPc, threadVars, selfVars
<1>12. CASE EnforcerExit
  BY <1>12 DEF EnforcerExit, DataTypeOK, EnforcerPc, threadVars, selfVars
<1>13. CASE Terminating \/ UNCHANGED vars
  BY <1>13 DEF Terminating, vars, DataTypeOK
<1>14. QED
  BY <1>1, <1>2, <1>3, <1>4, <1>5, <1>6, <1>7, <1>8, <1>9, <1>10, <1>11,
     <1>12, <1>13 DEF Next, Session, OverlayThread, Enforcers

\* The initial state is well typed.
LEMMA InitTyped == Init => TypeOK
<1>1. Init => FlagsTypeOK
  BY DEF Init, FlagsTypeOK
<1>2. Init => window \in WindowType
  BY DEF Init, NoWindow, WindowType
<1>3. Init => DataTypeOK
  BY DEF Init, DataTypeOK, EnforcerPc
<1>4. QED
  BY <1>1, <1>2, <1>3 DEF TypeOK

\* Every step keeps every variable in its type.
LEMMA TypeStep == TypeOK /\ [Next]_vars => TypeOK'
BY FlagsStep, WindowStep, DataStep DEF TypeOK

\* Every variable keeps the type TypeOK gives it, in every reachable state.
THEOREM TypeCorrect == Spec => []TypeOK
BY InitTyped, TypeStep, PTL DEF Spec

-----------------------------------------------------------------------------
(* The low-level hooks never outlive privacy mode.                         *)

\* The inductive invariant: InputBlockedOnlyWhilePrivate alone is not
\* inductive, because hide_overlay removes the hooks only when
\* HOOKS_INSTALLED is set; HookHandlesConsistent says that flag is set
\* whenever a hook is in the OS.
HooksInv == TypeOK /\ HookHandlesConsistent /\ InputBlockedOnlyWhilePrivate

\* remove_input_hooks removes every hook the consistent handles record.
LEMMA RemoveClears ==
  ASSUME HookHandlesConsistent, RemoveInputHooks
  PROVE  osHooks' = {} /\ hooksInstalled' = FALSE
BY DEF HookHandlesConsistent, RemoveInputHooks

\* hide_overlay leaves privacy mode off, no hook installed, and the
\* handles consistent.
LEMMA HideClears ==
  ASSUME HookHandlesConsistent, InputBlockedOnlyWhilePrivate, HideOverlay
  PROVE  ~privacyActive' /\ osHooks' = {} /\ hooksInstalled' = FALSE
<1>1. CASE privacyActive
  BY <1>1, RemoveClears DEF HideOverlay
<1>2. CASE ~privacyActive
  BY <1>2 DEF HideOverlay, HookHandlesConsistent,
              InputBlockedOnlyWhilePrivate, flagVars
<1>3. QED
  BY <1>1, <1>2

\* install_input_hooks keeps the handles consistent: both hooks or none.
LEMMA InstallConsistent ==
  ASSUME NEW r \in HookResults, HookHandlesConsistent, InstallInputHooks(r)
  PROVE  HookHandlesConsistent'
BY DEF HookHandlesConsistent, InstallInputHooks

\* Every step keeps the hook invariant.
LEMMA HooksStep == HooksInv /\ [Next]_vars => HooksInv'
<1> SUFFICES ASSUME HooksInv, [Next]_vars PROVE HooksInv'
  OBVIOUS
<1>1. TypeOK'
  BY TypeStep DEF HooksInv
<1>2. CASE UNCHANGED << privacyActive, hooksInstalled, osHooks >>
  BY <1>1, <1>2 DEF HookHandlesConsistent, InputBlockedOnlyWhilePrivate, HooksInv
<1>3. CASE WorkerShow
  <2>1. PICK r \in HookResults : ShowOverlay(r)
    BY <1>3 DEF WorkerShow
  <2>2. CASE privacyActive
    BY <1>1, <2>1, <2>2 DEF ShowOverlay, flagVars, HooksInv,
                     HookHandlesConsistent, InputBlockedOnlyWhilePrivate
  <2>3. CASE ~privacyActive
    <3>1. privacyActive' /\ InstallInputHooks(r)
      BY <2>1, <2>3 DEF ShowOverlay
    <3>2. HookHandlesConsistent'
      BY <3>1, InstallConsistent DEF HooksInv
    <3>3. QED
      BY <1>1, <3>1, <3>2 DEF HooksInv, InputBlockedOnlyWhilePrivate
  <2>4. QED
    BY <2>2, <2>3, <1>1 DEF HooksInv
<1>4. CASE WorkerHide \/ WorkerShutdown \/ WindowClose
  <2>1. ~privacyActive' /\ osHooks' = {} /\ hooksInstalled' = FALSE
    BY <1>4, HideClears DEF WorkerHide, WorkerShutdown, WindowClose, HooksInv
  <2>2. QED
    BY <1>1, <2>1 DEF HooksInv, HookHandlesConsistent,
                     InputBlockedOnlyWhilePrivate
<1>5. CASE WorkerExit \/ DropJoin
  <2>1. ~privacyActive' /\ osHooks' = {} /\ hooksInstalled' = FALSE
    BY <1>5, RemoveClears DEF WorkerExit, DropJoin, HooksInv
  <2>2. QED
    BY <1>1, <2>1 DEF HooksInv, HookHandlesConsistent,
                     InputBlockedOnlyWhilePrivate
<1>6. QED
  <2>1. \/ UNCHANGED << privacyActive, hooksInstalled, osHooks >>
        \/ WorkerShow \/ WorkerHide \/ WorkerShutdown \/ WindowClose
        \/ WorkerExit \/ DropJoin
    BY DEF Next, Session, InitOverlay, TurnOn, TurnOff, DropBegin,
           OverlayThread, Enforcers, EnforcerTest, EnforcerExit,
           Terminating, vars, flagVars
  <2>2. QED
    BY <1>2, <1>3, <1>4, <1>5, <2>1

\* Whatever interleaving of turn_on_privacy, turn_off_privacy, Drop, the
\* overlay thread, the enforcers and an outside WM_CLOSE, the console
\* user's input is blocked only while PRIVACY_ACTIVE is set, and the hook
\* handles the code keeps match the hooks installed in the OS.
THEOREM HooksSafety ==
  Spec => [](InputBlockedOnlyWhilePrivate /\ HookHandlesConsistent)
<1>1. Init => HooksInv
  BY InitTyped DEF Init, HooksInv, HookHandlesConsistent,
                     InputBlockedOnlyWhilePrivate
<1>2. QED
  BY <1>1, HooksStep, PTL DEF Spec, HooksInv

\* The half of HooksSafety about the handles alone: HOOKS_INSTALLED is set
\* exactly when both the keyboard and the mouse hook are in the system, so
\* remove_input_hooks never leaves a hook behind and never unhooks twice.
THEOREM HookHandlesSafety == Spec => []HookHandlesConsistent
BY HooksSafety, PTL

-----------------------------------------------------------------------------
(* The direct overlay implements the PrivacyMode contract.                 *)

\* What the refinement needs beyond the types: with no overlay controller
\* (and no cleanup under way) nothing is queued, so a new overlay thread
\* starting with SHOW extends the pending requests; and an instance with a
\* controller has OVERLAY_CONTROLLER set, so turn_off never posts HIDE to
\* a queue the mapping takes to be empty.
RefInv ==
    /\ TypeOK
    /\ (~overlayController /\ caller = "idle") => queue = << >>
    /\ (controller /\ caller = "idle") => overlayController

\* The intents of an empty queue, of a queue with a message posted, and of
\* a queue with its oldest message taken.
LEMMA IntentsEmpty == RequestedIntents(<< >>) = << >>
BY DEF RequestedIntents

LEMMA IntentsAppend ==
  ASSUME NEW q \in Seq(Msgs), NEW m \in Msgs
  PROVE  RequestedIntents(Append(q, m)) = Append(RequestedIntents(q), Intent(m))
BY DEF RequestedIntents

LEMMA IntentsTail ==
  ASSUME NEW q \in Seq(Msgs), q # << >>
  PROVE  /\ RequestedIntents(q) # << >>
         /\ RequestedIntents(Tail(q)) = Tail(RequestedIntents(q))
         /\ Head(RequestedIntents(q)) = Intent(Head(q))
BY DEF RequestedIntents

\* Every step keeps the refinement invariant.
LEMMA RefInvStep == RefInv /\ [Next]_vars => RefInv'
<1> SUFFICES ASSUME RefInv, [Next]_vars PROVE RefInv'
  OBVIOUS
<1>1. TypeOK'
  BY TypeStep DEF RefInv
<1>2. CASE InitOverlay
  BY <1>1, <1>2 DEF InitOverlay, SpawnOverlayThread, RefInv, CallerStep,
                    flagVars, threadVars, selfVars
<1>3. ASSUME NEW c \in ConnIds, TurnOn(c) PROVE RefInv'
  BY <1>1, <1>3 DEF TurnOn, SpawnOverlayThread, RefInv, CallerStep,
                    flagVars, threadVars, selfVars
<1>4. ASSUME NEW c \in ConnIds \cup {INVALID}, TurnOff(c) PROVE RefInv'
  BY <1>1, <1>4 DEF TurnOff, RefInv, CallerStep, selfVars
<1>5. CASE DropBegin
  BY <1>1, <1>5 DEF DropBegin, RefInv
<1>6. CASE DropJoin
  BY <1>1, <1>6 DEF DropJoin, RefInv
<1>7. CASE OverlayThread
  <2>1. /\ UNCHANGED << overlayController, controller, caller >>
        /\ queue' = queue \/ (queue # << >> /\ queue' = Tail(queue))
    BY <1>7 DEF OverlayThread, WorkerShow, WorkerHide, WorkerShutdown,
                WorkerExit, Receive, selfVars
  <2>2. QED
    BY <1>1, <2>1 DEF RefInv
<1>8. CASE WindowClose \/ Enforcers \/ Terminating \/ UNCHANGED vars
  BY <1>1, <1>8 DEF WindowClose, Enforcers, EnforcerTest, EnforcerExit,
                    Terminating, vars, threadVars, selfVars, RefInv
<1>9. QED
  BY <1>2, <1>3, <1>4, <1>5, <1>6, <1>7, <1>8 DEF Next, Session

\* The refinement invariant holds in every reachable state.
LEMMA RefInvariant == Spec => []RefInv
<1>1. Init => RefInv
  BY InitTyped DEF Init, RefInv
<1>2. QED
  BY <1>1, RefInvStep, PTL DEF Spec


\* Every step of the direct overlay is a step of the contract or leaves
\* the holder, the pending requests and PRIVACY_ACTIVE as they were.
LEMMA RefStep == RefInv /\ [Next]_vars => [PM!Next]_(PM!vars)
<1> SUFFICES ASSUME RefInv, [Next]_vars PROVE [PM!Next]_(PM!vars)
  OBVIOUS
<1>0. queue \in Seq(Msgs)
  BY DEF RefInv, TypeOK, DataTypeOK
<1>1. CASE InitOverlay
  <2>1. queue' = queue
    BY <1>1 DEF InitOverlay, SpawnOverlayThread, CallerStep, threadVars,
                RefInv
  <2>2. QED
    BY <1>1, <2>1 DEF InitOverlay, selfVars, flagVars, PM!vars
<1>2. ASSUME NEW c \in ConnIds, TurnOn(c) PROVE [PM!Next]_(PM!vars)
  <2>1. CASE UNCHANGED << queue, connId, privacyActive >>
    BY <2>1 DEF PM!vars
  <2>2. CASE /\ connId = INVALID /\ connId' = c
             /\ queue' = Append(queue, "SHOW")
             /\ privacyActive' = privacyActive
    <3>1. PM!On(c)
      BY <2>2, <1>0, IntentsAppend DEF PM!On, Intent, Msgs
    <3>2. QED
      BY <3>1 DEF PM!Next
  <2>3. \/ UNCHANGED << queue, connId, privacyActive >>
        \/ /\ connId = INVALID /\ connId' = c
           /\ queue' = Append(queue, "SHOW")
           /\ privacyActive' = privacyActive
    <3>1. (~overlayController /\ caller = "idle") => queue = << >>
      BY DEF RefInv
    <3>2. caller = "idle"
      BY <1>2 DEF TurnOn, CallerStep
    <3>3. Append(<< >>, "SHOW") = << "SHOW" >>
      OBVIOUS
    <3>4. QED
      BY <1>2, <3>1, <3>2, <3>3 DEF TurnOn, SpawnOverlayThread, selfVars,
                                   flagVars, threadVars
  <2>4. QED
    BY <2>1, <2>2, <2>3
<1>3. ASSUME NEW c \in ConnIds \cup {INVALID}, TurnOff(c)
      PROVE  [PM!Next]_(PM!vars)
  <2>1. CASE ~OffAllowed(c)
    BY <1>3, <2>1 DEF TurnOff, selfVars, flagVars, PM!vars
  <2>2. CASE OffAllowed(c)
    <3>1. /\ connId' = INVALID /\ privacyActive' = privacyActive
          /\ queue' \in {queue, Append(queue, "HIDE")}
      BY <1>3, <2>2 DEF TurnOff, flagVars
    <3>2. PM!Off(c)
      BY <2>2, <3>1, <1>0, IntentsAppend DEF PM!Off, PM!OffAllowed,
                                            OffAllowed, Intent, Msgs
    <3>3. QED
      BY <3>2 DEF PM!Next
  <2>3. QED
    BY <2>1, <2>2
<1>4. CASE DropBegin
  <2>1. /\ UNCHANGED << connId, privacyActive >>
        /\ queue' \in {queue, Append(queue, "SHUTDOWN")}
    BY <1>4 DEF DropBegin, selfVars, flagVars
  <2>2. CASE queue' = queue
    BY <2>1, <2>2 DEF PM!vars
  <2>3. CASE queue' = Append(queue, "SHUTDOWN")
    BY <2>1, <2>3, <1>0, IntentsAppend DEF PM!Next, PM!Shutdown, Intent, Msgs
  <2>4. QED
    BY <2>1, <2>2, <2>3
<1>5. CASE DropJoin
  <2>1. PM!Teardown
    BY <1>5, IntentsEmpty DEF DropJoin, PM!Teardown
  <2>2. QED
    BY <2>1 DEF PM!Next
<1>6. CASE WorkerShow
  <2>1. /\ queue # << >> /\ Head(queue) = "SHOW" /\ queue' = Tail(queue)
        /\ privacyActive' = TRUE /\ UNCHANGED connId
    BY <1>6 DEF WorkerShow, Receive, ShowOverlay, flagVars, selfVars
  <2>2. PM!Apply
    BY <2>1, <1>0, IntentsTail DEF PM!Apply, Intent
  <2>3. QED
    BY <2>2 DEF PM!Next
<1>7. CASE WorkerHide \/ WorkerShutdown
  <2>1. /\ queue # << >> /\ Head(queue) \in {"HIDE", "SHUTDOWN"}
        /\ queue' = Tail(queue) /\ HideOverlay /\ UNCHANGED connId
    BY <1>7 DEF WorkerHide, WorkerShutdown, Receive, selfVars
  <2>2. privacyActive' = FALSE
    BY <2>1 DEF HideOverlay, flagVars
  <2>3. PM!Apply
    BY <2>1, <2>2, <1>0, IntentsTail DEF PM!Apply, Intent
  <2>4. QED
    BY <2>3 DEF PM!Next
<1>8. CASE WindowClose \/ WorkerExit
  <2>1. /\ UNCHANGED << queue, connId >>
        /\ (HideOverlay \/ privacyActive' = FALSE)
    BY <1>8 DEF WindowClose, WorkerExit, selfVars
  <2>2. privacyActive' = FALSE
    BY <2>1 DEF HideOverlay, flagVars
  <2>3. PM!Abort
    BY <2>1, <2>2 DEF PM!Abort
  <2>4. QED
    BY <2>3 DEF PM!Next
<1>9. CASE Enforcers \/ Terminating \/ UNCHANGED vars
  BY <1>9 DEF Enforcers, EnforcerTest, EnforcerExit, Terminating, vars,
              flagVars, threadVars, selfVars, PM!vars
<1>10. QED
  BY <1>1, <1>2, <1>3, <1>4, <1>5, <1>6, <1>7, <1>8, <1>9
     DEF Next, Session, OverlayThread

\* The direct overlay keeps the back-end contract: whatever interleaving of
\* turn_on_privacy, turn_off_privacy, Drop, the overlay thread, the
\* enforcers and WM_CLOSE, the connection that holds privacy mode and
\* PRIVACY_ACTIVE change only as PrivacyMode allows, with SHOW, HIDE and
\* SHUTDOWN taking effect in the order they were posted.
THEOREM Refinement == Spec => PrivacyModeSpec
<1>1. Init => PM!Init
  BY IntentsEmpty DEF Init, PM!Init
<1>2. QED
  BY <1>1, RefInvariant, RefStep, PTL DEF Spec, PrivacyModeSpec, PM!Spec

-----------------------------------------------------------------------------
(* Cleanup completeness.  OffMeansClean is far from inductive: it speaks   *)
(* only of quiescent states, and what makes it true is the order of the    *)
(* posts.  With no connection and the session idle, the last request       *)
(* posted to the overlay thread is never SHOW (turn_off posted HIDE after  *)
(* it, or there was no thread to post to), so once the queue is drained    *)
(* privacy mode is off.  The rest says why "off" is enough: the cursors   *)
(* and the shown window go with PRIVACY_ACTIVE, the thread's exit and the  *)
(* cleanup after the join leave a window that is already gone, and an      *)
(* instance with a connection has a controller to post HIDE with.          *)

\* The last queued request, SHOW or not.
LastIsShow(q) == q # << >> /\ q[Len(q)] = "SHOW"

CursorsOnlyWhilePrivate == cursorSystemReplaced => privacyActive

ShownOnlyWhilePrivate == window.state = "shown" => privacyActive

QuitMeansNoWindow == quitPosted => window.state = "none"

StoppedMeansOff == worker # "running" => ~privacyActive /\ queue = << >>

NoControllerNoThread ==
    (~overlayController /\ caller = "idle") => worker # "running"

ConnHasController == connId # INVALID => controller

LastRequestOff ==
    (caller = "idle" /\ connId = INVALID) =>
        /\ ~LastIsShow(queue)
        /\ queue = << >> => ~privacyActive

Clean ==
    /\ CursorsOnlyWhilePrivate
    /\ ShownOnlyWhilePrivate
    /\ QuitMeansNoWindow
    /\ StoppedMeansOff
    /\ NoControllerNoThread
    /\ ConnHasController
    /\ LastRequestOff

\* A request appended is the last one.
LEMMA LastOfAppend ==
    ASSUME NEW q \in Seq(Msgs), NEW m \in Msgs
    PROVE  Append(q, m) # << >> /\ Append(q, m)[Len(Append(q, m))] = m
OBVIOUS

\* Taking the oldest request leaves the last one last, unless it was the
\* only one.
LEMMA LastOfTail ==
    ASSUME NEW q \in Seq(Msgs), q # << >>
    PROVE  \/ Tail(q) = << >> /\ q[Len(q)] = Head(q)
           \/ Tail(q) # << >> /\ Tail(q)[Len(Tail(q))] = q[Len(q)]
<1>1. /\ Len(q) \in Nat \ {0}
      /\ Len(Tail(q)) = Len(q) - 1
      /\ \A i \in 1..Len(Tail(q)) : Tail(q)[i] = q[i + 1]
      /\ Tail(q) \in Seq(Msgs)
  OBVIOUS
<1>2. CASE Len(q) = 1
  <2>1. Tail(q) = << >>
    <3>1. Tail(q) # << >> => Len(Tail(q)) \in Nat \ {0}
      BY <1>1, EmptySeq
    <3>. QED BY <1>1, <1>2, <3>1
  <2>. QED BY <1>2, <2>1
<1>3. CASE Len(q) > 1
  BY <1>1, <1>3
<1>. QED BY <1>1, <1>2, <1>3

\* An overlay thread that takes a request: if the queue was the last one,
\* the request it takes was the last one, which is not SHOW.
LEMMA ReceiveKeepsLast ==
    ASSUME TypeOK, LastRequestOff, NEW m, Receive(m),
           caller = "idle", connId = INVALID
    PROVE  /\ ~LastIsShow(queue')
           /\ queue' = << >> => m # "SHOW"
<1>1. queue \in Seq(Msgs) /\ queue # << >> /\ Head(queue) = m
      /\ queue' = Tail(queue)
  BY DEF Receive, TypeOK, DataTypeOK
<1>2. queue[Len(queue)] # "SHOW"
  BY <1>1 DEF LastRequestOff, LastIsShow
<1>. QED BY <1>1, <1>2, LastOfTail DEF LastIsShow

\* The main step lemma of this section, one case per action.
LEMMA CleanStep ==
    ASSUME RefInv, HooksInv, Clean, [Next]_vars
    PROVE  Clean'
<1>. USE DEF RefInv, HooksInv
<1>1. CASE InitOverlay
  <2>1. CASE UNCHANGED << window, threadVars >>
    BY <1>1, <2>1 DEF InitOverlay, threadVars, selfVars, flagVars, Clean,
                      CursorsOnlyWhilePrivate, ShownOnlyWhilePrivate,
                      QuitMeansNoWindow, StoppedMeansOff,
                      NoControllerNoThread, ConnHasController, LastRequestOff
  <2>2. CASE ~overlayController /\ SpawnOverlayThread(<< >>)
    <3>1. ~privacyActive
      BY <1>1, <2>2 DEF InitOverlay, CallerStep, Clean,
                        NoControllerNoThread, StoppedMeansOff
    <3>. QED
      BY <1>1, <2>2, <3>1 DEF InitOverlay, SpawnOverlayThread, flagVars,
                             selfVars, Clean, CursorsOnlyWhilePrivate,
                             ShownOnlyWhilePrivate, QuitMeansNoWindow,
                             StoppedMeansOff, NoControllerNoThread,
                             ConnHasController, LastRequestOff
  <2>. QED BY <1>1, <2>1, <2>2 DEF InitOverlay
<1>2. ASSUME NEW c \in ConnIds, TurnOn(c) PROVE Clean'
  <2>0. UNCHANGED << flagVars, enforcers, caller >> /\ c # INVALID
    BY <1>2 DEF TurnOn
  <2>1. CASE UNCHANGED << window, threadVars, selfVars >>
    BY <2>0, <2>1 DEF threadVars, selfVars, flagVars, Clean,
                      CursorsOnlyWhilePrivate, ShownOnlyWhilePrivate,
                      QuitMeansNoWindow, StoppedMeansOff,
                      NoControllerNoThread, ConnHasController, LastRequestOff
  <2>2. CASE /\ worker = "running"
             /\ connId' = c /\ controller' = TRUE
             /\ UNCHANGED << window, worker, quitPosted, overlayController >>
    BY <2>0, <2>2 DEF flagVars, Clean, CursorsOnlyWhilePrivate,
                      ShownOnlyWhilePrivate, QuitMeansNoWindow,
                      StoppedMeansOff, NoControllerNoThread,
                      ConnHasController, LastRequestOff
  <2>3. CASE /\ ~overlayController /\ SpawnOverlayThread(<< "SHOW" >>)
             /\ connId' = c /\ controller' = TRUE
    <3>1. ~privacyActive
      BY <1>2, <2>3 DEF TurnOn, CallerStep, Clean, NoControllerNoThread,
                        StoppedMeansOff
    <3>. QED
      BY <2>0, <2>3, <3>1 DEF SpawnOverlayThread, flagVars, Clean,
                             CursorsOnlyWhilePrivate, ShownOnlyWhilePrivate,
                             QuitMeansNoWindow, StoppedMeansOff,
                             NoControllerNoThread, ConnHasController,
                             LastRequestOff
  <2>. QED BY <1>2, <2>1, <2>2, <2>3 DEF TurnOn
<1>3. ASSUME NEW c \in ConnIds \cup {INVALID}, TurnOff(c) PROVE Clean'
  <2>1. UNCHANGED << flagVars, window, worker, quitPosted, overlayController,
                     caller >>
    BY <1>3 DEF TurnOff
  <2>2. CASE ~OffAllowed(c)
    BY <1>3, <2>1, <2>2 DEF TurnOff, selfVars, flagVars, Clean,
                           CursorsOnlyWhilePrivate, ShownOnlyWhilePrivate,
                           QuitMeansNoWindow, StoppedMeansOff,
                           NoControllerNoThread, ConnHasController,
                           LastRequestOff
  <2>3. CASE OffAllowed(c) /\ controller /\ worker = "running"
    <3>1. queue' = Append(queue, "HIDE") /\ connId' = INVALID
      BY <1>3, <2>3 DEF TurnOff
    <3>2. ~LastIsShow(queue') /\ queue' # << >>
      BY <3>1, LastOfAppend DEF LastIsShow, TypeOK, DataTypeOK, Msgs
    <3>. QED
      BY <2>1, <2>3, <3>1, <3>2 DEF flagVars, Clean,
                                   CursorsOnlyWhilePrivate,
                                   ShownOnlyWhilePrivate, QuitMeansNoWindow,
                                   StoppedMeansOff, NoControllerNoThread,
                                   ConnHasController, LastRequestOff
  <2>4. CASE OffAllowed(c) /\ ~(controller /\ worker = "running")
    <3>1. queue' = queue /\ connId' = INVALID
      BY <1>3, <2>4 DEF TurnOff
    <3>2. connId # INVALID => ~privacyActive /\ queue = << >>
      BY <2>4 DEF Clean, ConnHasController, StoppedMeansOff
    <3>3. ~LastIsShow(queue') /\ (queue' = << >> => ~privacyActive')
      BY <2>1, <3>1, <3>2, <1>3 DEF TurnOff, CallerStep, flagVars, Clean,
                                   LastRequestOff, LastIsShow
    <3>. QED
      BY <2>1, <3>1, <3>3, <1>3 DEF TurnOff, CallerStep, flagVars, Clean,
                                   CursorsOnlyWhilePrivate,
                                   ShownOnlyWhilePrivate, QuitMeansNoWindow,
                                   StoppedMeansOff, NoControllerNoThread,
                                   ConnHasController, LastRequestOff
  <2>. QED BY <2>2, <2>3, <2>4

<1>4. CASE DropBegin
  <2>1. /\ caller' = "joining"
        /\ UNCHANGED << flagVars, window, worker, quitPosted, selfVars >>
        /\ worker # "running" => queue' = queue
    BY <1>4 DEF DropBegin
  <2>. QED
    BY <2>1 DEF flagVars, selfVars, Clean, CursorsOnlyWhilePrivate,
                ShownOnlyWhilePrivate, QuitMeansNoWindow, StoppedMeansOff,
                NoControllerNoThread, ConnHasController, LastRequestOff
<1>5. CASE DropJoin
  <2>1. window.state # "shown"
    BY <1>5 DEF DropJoin, Clean, StoppedMeansOff, ShownOnlyWhilePrivate
  <2>. QED
    BY <1>5, <2>1 DEF DropJoin, Clean, CursorsOnlyWhilePrivate,
                     ShownOnlyWhilePrivate, QuitMeansNoWindow,
                     StoppedMeansOff, NoControllerNoThread,
                     ConnHasController, LastRequestOff, LastIsShow
<1>6. CASE WorkerShow
  <2>1. PICK r \in HookResults : ShowOverlay(r)
    BY <1>6 DEF WorkerShow
  <2>2. (caller = "idle" /\ connId = INVALID) => ~LastIsShow(queue')
        /\ queue' # << >>
    BY <1>6, ReceiveKeepsLast DEF WorkerShow, Clean
  <2>3. QuitMeansNoWindow' /\ privacyActive'
    <3>1. CASE privacyActive
      BY <1>6, <2>1, <3>1 DEF WorkerShow, ShowOverlay, Clean,
                             QuitMeansNoWindow, flagVars
    <3>2. CASE ~privacyActive
      BY <1>6, <2>1, <3>2 DEF WorkerShow, ShowOverlay, OnWindow, Clean,
                             QuitMeansNoWindow
    <3>. QED BY <3>1, <3>2
  <2>4. /\ UNCHANGED << worker, caller, connId, controller,
                        overlayController >>
        /\ worker = "running"
    BY <1>6 DEF WorkerShow, selfVars, Receive
  <2>. QED
    BY <2>2, <2>3, <2>4 DEF Clean, CursorsOnlyWhilePrivate,
                           ShownOnlyWhilePrivate, StoppedMeansOff,
                           NoControllerNoThread, ConnHasController,
                           LastRequestOff
<1>7. CASE WorkerHide
  <2>1. ~privacyActive' /\ ~cursorSystemReplaced'
    <3>1. CASE privacyActive
      BY <1>7, <3>1 DEF WorkerHide, HideOverlay
    <3>2. CASE ~privacyActive
      BY <1>7, <3>2 DEF WorkerHide, HideOverlay, flagVars, Clean,
                        CursorsOnlyWhilePrivate
    <3>. QED BY <3>1, <3>2
  <2>2. window'.state # "shown" /\ (quitPosted => window'.state = "none")
    <3>1. CASE privacyActive
      BY <1>7, <3>1 DEF WorkerHide, HiddenWindow, OnWindow, WithExclusion,
                        Placed, Clean, QuitMeansNoWindow
    <3>2. CASE ~privacyActive
      BY <1>7, <3>2 DEF WorkerHide, HiddenWindow, Clean,
                        ShownOnlyWhilePrivate, QuitMeansNoWindow
    <3>. QED BY <3>1, <3>2
  <2>3. (caller = "idle" /\ connId = INVALID) => ~LastIsShow(queue')
    BY <1>7, ReceiveKeepsLast DEF WorkerHide, Clean
  <2>4. UNCHANGED << worker, quitPosted, overlayController, connId,
                     controller, caller >> /\ worker = "running"
    BY <1>7 DEF WorkerHide, selfVars, Receive
  <2>. QED
    BY <2>1, <2>2, <2>3, <2>4 DEF Clean, CursorsOnlyWhilePrivate,
                                 ShownOnlyWhilePrivate, QuitMeansNoWindow,
                                 StoppedMeansOff, NoControllerNoThread,
                                 ConnHasController, LastRequestOff
<1>8. CASE WorkerShutdown \/ WindowClose
  <2>1. ~privacyActive' /\ ~cursorSystemReplaced'
    <3>1. HideOverlay
      BY <1>8 DEF WorkerShutdown, WindowClose
    <3>2. CASE privacyActive
      BY <3>1, <3>2 DEF HideOverlay
    <3>3. CASE ~privacyActive
      BY <3>1, <3>3 DEF HideOverlay, flagVars, Clean,
                        CursorsOnlyWhilePrivate
    <3>. QED BY <3>2, <3>3
  <2>2. window' = NoWindow
    BY <1>8 DEF WorkerShutdown, WindowClose
  <2>3. (caller = "idle" /\ connId = INVALID) => ~LastIsShow(queue')
    <3>1. CASE WorkerShutdown
      BY <3>1, ReceiveKeepsLast DEF WorkerShutdown, Clean
    <3>2. CASE WindowClose
      BY <3>2 DEF WindowClose, Clean, LastRequestOff
    <3>. QED BY <1>8, <3>1, <3>2
  <2>4. UNCHANGED << worker, overlayController, connId, controller,
                     caller >> /\ worker = "running"
    BY <1>8 DEF WorkerShutdown, WindowClose, selfVars, Receive
  <2>. QED
    BY <2>1, <2>2, <2>3, <2>4 DEF NoWindow, Clean, CursorsOnlyWhilePrivate,
                                 ShownOnlyWhilePrivate, QuitMeansNoWindow,
                                 StoppedMeansOff, NoControllerNoThread,
                                 ConnHasController, LastRequestOff
<1>9. CASE WorkerExit
  <2>1. ~cursorSystemReplaced'
    <3>1. CASE privacyActive
      BY <1>9, <3>1 DEF WorkerExit
    <3>2. CASE ~privacyActive
      BY <1>9, <3>2 DEF WorkerExit, Clean, CursorsOnlyWhilePrivate
    <3>. QED BY <3>1, <3>2 DEF TypeOK, FlagsTypeOK
  <2>. QED
    BY <1>9, <2>1 DEF WorkerExit, selfVars, Clean, CursorsOnlyWhilePrivate,
                     ShownOnlyWhilePrivate, QuitMeansNoWindow,
                     StoppedMeansOff, NoControllerNoThread,
                     ConnHasController, LastRequestOff, LastIsShow
<1>10. CASE Enforcers \/ Terminating \/ UNCHANGED vars
  BY <1>10 DEF Enforcers, EnforcerTest, EnforcerExit, Terminating, vars,
               flagVars, threadVars, selfVars, Clean,
               CursorsOnlyWhilePrivate, ShownOnlyWhilePrivate,
               QuitMeansNoWindow, StoppedMeansOff, NoControllerNoThread,
               ConnHasController, LastRequestOff
<1>. QED
  BY <1>1, <1>2, <1>3, <1>4, <1>5, <1>6, <1>7, <1>8, <1>9, <1>10
  DEF Next, Session, OverlayThread


\* Every state is well typed, has consistent hook handles and keeps the
\* cleanup invariant.
LEMMA CleanInvariant == Spec => [](RefInv /\ HooksInv /\ Clean)
<1>1. Init => RefInv /\ HooksInv /\ Clean
  BY InitTyped DEF Init, RefInv, HooksInv, HookHandlesConsistent,
                   InputBlockedOnlyWhilePrivate, NoWindow, Clean,
                   CursorsOnlyWhilePrivate, ShownOnlyWhilePrivate,
                   QuitMeansNoWindow, StoppedMeansOff, NoControllerNoThread,
                   ConnHasController, LastRequestOff, LastIsShow
<1>2. RefInv /\ HooksInv /\ Clean /\ [Next]_vars
        => (RefInv /\ HooksInv /\ Clean)'
  BY RefInvStep, HooksStep, CleanStep
<1>. QED BY <1>1, <1>2, PTL DEF Spec

\* Cleanup completeness: whatever interleaving of turn_on_privacy,
\* turn_off_privacy, Drop, the overlay thread, the enforcers and WM_CLOSE,
\* once no connection holds privacy mode, the session is idle and the
\* overlay thread has handled every posted message, privacy mode is off,
\* no low-level hook is installed, the system cursors are restored and the
\* overlay is not shown.
THEOREM CleanupComplete == Spec => []OffMeansClean
<1>1. HooksInv /\ Clean => OffMeansClean
  BY DEF HooksInv, InputBlockedOnlyWhilePrivate, Clean, LastRequestOff,
         CursorsOnlyWhilePrivate, ShownOnlyWhilePrivate, OffMeansClean,
         Quiescent
<1>. QED BY CleanInvariant, <1>1, PTL

=============================================================================
