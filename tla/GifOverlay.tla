----------------------------- MODULE GifOverlay -----------------------------
(***************************************************************************)
(* The animated (GIF) overlay privacy-mode back-end of                     *)
(* src/src/privacy_mode/win_gif_overlay.rs.                                 *)
(*                                                                         *)
(* Its controller, message loop and hooks follow the direct overlay (see   *)
(* DirectOverlay), with four differences this module is about:             *)
(*   - SHOW also starts a z-order watchdog thread (start_zorder_enforcer), *)
(*     gated by ZORDER_ENFORCER_RUNNING, which HIDE clears at once         *)
(*     (stop_zorder_enforcer); the watchdog calls SetWindowPos with        *)
(*     SWP_SHOWWINDOW on every iteration;                                  *)
(*   - SHOW also starts an animation-timer thread, with no gate, that     *)
(*     posts WM_PRIVACY_ANIMATE to the window while PRIVACY_ACTIVE;        *)
(*   - the frames are a lazy static: the first ANIMATE or WM_PAINT that    *)
(*     touches GIF_FRAMES downloads the image on the overlay thread;       *)
(*   - the thread's message queue is bounded (the OS refuses a post to a   *)
(*     full queue); QueueLimit is far below the OS's 10,000 messages, so   *)
(*     the model reaches refusals the code does not.                       *)
(* The frame index and its timing are modelled in FramePump.               *)
(* The operator may also call emergency_cleanup at any time.               *)
(***************************************************************************)
EXTENDS Integers, Sequences

CONSTANTS
    ConnIds,                   \* connection ids the session layer assigns
    MaxOps,                    \* bound on the session thread's calls
    QueueLimit,                \* posted messages a thread queue holds
    SupportsCaptureExclusion,  \* Windows 10 build 19041 or later
    WindowCanBeClosed,         \* something outside may send WM_CLOSE
    EmergencyCleanupCalled     \* the operator may call emergency_cleanup

\* INVALID_PRIVACY_MODE_CONN_ID
INVALID == -1

ASSUME ConstantsAssumption ==
    /\ ConnIds \subseteq Int
    /\ INVALID \notin ConnIds
    /\ MaxOps \in Nat
    /\ QueueLimit \in Nat \ {0}
    /\ SupportsCaptureExclusion \in BOOLEAN
    /\ WindowCanBeClosed \in BOOLEAN
    /\ EmergencyCleanupCalled \in BOOLEAN

\* Messages posted to the overlay thread (WM_PRIVACY_*).
Msgs == {"SHOW", "HIDE", "SHUTDOWN", "ANIMATE"}

\* Cursor enforcer: at the loop test, or past a failed test.
EnforcerPc == {"loop", "exit"}
\* Z-order watchdog: at the loop test, in the loop body, or past the test.
WatchdogPc == {"loop", "body", "exit"}
\* Animation timer: at the loop test, or sleeping before its post.
TimerPc == {"test", "post"}

HookResults == {"ok", "keyboardFails", "mouseFails"}

\* The overlay thread: in its message loop, blocked in the download of the
\* GIF frames, or ended; "none" before the first start.
Alive == {"running", "loading"}

VARIABLES
    privacyActive,          \* PRIVACY_ACTIVE
    cursorHidden,           \* CURSOR_HIDDEN
    cursorEnforcerRunning,  \* CURSOR_ENFORCER_RUNNING
    hooksInstalled,         \* HOOKS_INSTALLED
    cursorSystemReplaced,   \* CURSOR_SYSTEM_REPLACED
    zorderRunning,          \* ZORDER_ENFORCER_RUNNING
    osHooks,                \* low-level hooks installed in the OS
    enforcers,              \* cursor-enforcer threads, counted per pc
    watchdogs,              \* z-order watchdog threads, counted per pc
    timers,                 \* animation-timer threads, counted per pc
    window,                 \* the overlay window
    worker,                 \* the overlay thread
    queue,                  \* its posted-message queue
    quitPosted,             \* WM_QUIT pending
    framesLoaded,           \* the GIF_FRAMES lazy static is initialised
    overlayController,      \* OVERLAY_CONTROLLER is Some
    connId,                 \* self.conn_id
    controller,             \* self.controller is Some
    caller,                 \* session thread: "idle" | "joining" | "cleaning"
    ops                     \* calls made by the session thread

vars == << privacyActive, cursorHidden, cursorEnforcerRunning, hooksInstalled,
           cursorSystemReplaced, zorderRunning, osHooks, enforcers, watchdogs,
           timers, window, worker, queue, quitPosted, framesLoaded,
           overlayController, connId, controller, caller, ops >>

flagVars == << privacyActive, cursorHidden, cursorEnforcerRunning,
               hooksInstalled, cursorSystemReplaced, zorderRunning, osHooks >>
spawnVars == << enforcers, watchdogs, timers >>
threadVars == << worker, queue, quitPosted, framesLoaded, overlayController >>
selfVars == << connId, controller >>

NoWindow == [state |-> "none", cloaked |-> FALSE, excluded |-> FALSE]

\* The window w after ShowWindow / SetWindowPos / DWMWA_CLOAK.
Placed(w, state, cloaked) ==
    [state |-> state, cloaked |-> cloaked, excluded |-> w.excluded]

\* A window call on a destroyed window has no effect.
OnWindow(w, new) == IF w.state = "none" THEN w ELSE new

\* set_capture_exclusion: skipped on builds without WDA_EXCLUDEFROMCAPTURE.
WithExclusion(w, on) ==
    IF SupportsCaptureExclusion
    THEN [state |-> w.state, cloaked |-> w.cloaked, excluded |-> on]
    ELSE w

\* PostThreadMessageW / PostMessageW: the message is queued unless the
\* queue is full, in which case the post fails.
Post(q, m) == IF Len(q) < QueueLimit THEN Append(q, m) ELSE q

Init ==
    /\ privacyActive = FALSE
    /\ cursorHidden = FALSE
    /\ cursorEnforcerRunning = FALSE
    /\ hooksInstalled = FALSE
    /\ cursorSystemReplaced = FALSE
    /\ zorderRunning = FALSE
    /\ osHooks = {}
    /\ enforcers = [p \in EnforcerPc |-> 0]
    /\ watchdogs = [p \in WatchdogPc |-> 0]
    /\ timers = [p \in TimerPc |-> 0]
    /\ window = NoWindow
    /\ worker = "none"
    /\ queue = << >>
    /\ quitPosted = FALSE
    /\ framesLoaded = FALSE
    /\ overlayController = FALSE
    /\ connId = INVALID
    /\ controller = FALSE
    /\ caller = "idle"
    /\ ops = 0

-----------------------------------------------------------------------------
(* Helpers of the overlay thread: each is the net effect of one function.  *)

\* install_input_hooks: keyboard hook, then mouse hook; a failed mouse hook
\* unhooks the keyboard hook before returning the error.
InstallInputHooks(r) ==
    IF hooksInstalled \/ r # "ok"
    THEN UNCHANGED << hooksInstalled, osHooks >>
    ELSE /\ hooksInstalled' = TRUE
         /\ osHooks' = {"keyboard", "mouse"}

\* Mutant: remove_input_hooks unhooks only the keyboard hook.
RemoveInputHooksKeepsMouse ==
    IF hooksInstalled
    THEN /\ hooksInstalled' = FALSE
         /\ osHooks' = osHooks \ {"keyboard"}
    ELSE UNCHANGED << hooksInstalled, osHooks >>

\* remove_input_hooks: only when HOOKS_INSTALLED was set (swap to false).
RemoveInputHooks ==
    IF hooksInstalled
    THEN /\ hooksInstalled' = FALSE
         /\ osHooks' = {}
    ELSE UNCHANGED << hooksInstalled, osHooks >>

\* One more thread at pc p when the compare_exchange of the gate succeeds.
Spawned(threads, gate, p) ==
    IF gate THEN threads ELSE [threads EXCEPT ![p] = @ + 1]

\* show_overlay: a no-op when PRIVACY_ACTIVE was already set; otherwise
\* uncloak, exclude from capture, hide the cursor, blank the system
\* cursors, start the cursor enforcer, the z-order watchdog and a new
\* animation timer, install the hooks (a failure is only logged) and
\* show the window.
ShowOverlay(r) ==
    IF privacyActive
    THEN UNCHANGED << flagVars, spawnVars, window >>
    ELSE /\ privacyActive' = TRUE
         /\ window' = OnWindow(window,
                         WithExclusion(Placed(window, "shown", FALSE), TRUE))
         /\ cursorHidden' = TRUE
         /\ cursorSystemReplaced' = TRUE
         /\ cursorEnforcerRunning' = TRUE
         /\ enforcers' = Spawned(enforcers, cursorEnforcerRunning, "loop")
         /\ zorderRunning' = TRUE
         /\ watchdogs' = Spawned(watchdogs, zorderRunning, "loop")
         /\ timers' = [timers EXCEPT !["test"] = @ + 1]
         /\ InstallInputHooks(r)

\* Mutant: hide_overlay forgets to cloak the window.
HiddenWindowUncloaked(w) ==
    IF privacyActive
    THEN OnWindow(w, WithExclusion(Placed(w, "hidden", w.cloaked), FALSE))
    ELSE w

\* The window calls of hide_overlay: SW_HIDE, cloak, no capture exclusion.
HiddenWindow(w) ==
    IF privacyActive
    THEN OnWindow(w, WithExclusion(Placed(w, "hidden", TRUE), FALSE))
    ELSE w

\* Mutant: stop_zorder_enforcer does not clear the gate.
StopZorderEnforcerNoop == zorderRunning

\* stop_zorder_enforcer: clears the gate whether or not the watchdog ended.
StopZorderEnforcer == FALSE

\* hide_overlay without its window calls: a no-op unless PRIVACY_ACTIVE
\* was set; otherwise remove the hooks, restore the system cursors and the
\* cursor, and stop the z-order watchdog.
HideOverlay ==
    IF ~privacyActive
    THEN UNCHANGED flagVars
    ELSE /\ privacyActive' = FALSE
         /\ RemoveInputHooks
         /\ cursorSystemReplaced' = FALSE
         /\ cursorHidden' = FALSE
         /\ zorderRunning' = StopZorderEnforcer
         /\ UNCHANGED cursorEnforcerRunning

\* start_overlay_thread: the new thread has created and cloaked its window
\* and sent its thread id; the controller is stored and `msgs` posted.
SpawnOverlayThread(msgs) ==
    /\ worker' = "running"
    /\ overlayController' = TRUE
    /\ window' = [state |-> "hidden", cloaked |-> TRUE, excluded |-> FALSE]
    /\ queue' = msgs
    /\ quitPosted' = FALSE
    /\ UNCHANGED framesLoaded

-----------------------------------------------------------------------------
(* The session thread.                                                     *)

CallerStep ==
    /\ caller = "idle"
    /\ ops < MaxOps
    /\ ops' = ops + 1

\* init: start_overlay_thread returns the existing controller or starts one.
InitOverlay ==
    /\ CallerStep
    /\ \/ UNCHANGED << window, threadVars >>
       \/ /\ ~overlayController
          /\ SpawnOverlayThread(<< >>)
    /\ UNCHANGED << flagVars, spawnVars, selfVars, caller >>

\* Mutant: turn_on_privacy without check_on_conn_id.
TurnOnNoConnCheck(c) ==
    /\ CallerStep
    /\ \/ /\ ~overlayController \/ worker \notin Alive
             \/ Len(queue) = QueueLimit
          /\ UNCHANGED << window, threadVars, selfVars >>
       \/ /\ overlayController
          /\ worker \in Alive
          /\ Len(queue) < QueueLimit
          /\ queue' = Append(queue, "SHOW")
          /\ connId' = c
          /\ controller' = TRUE
          /\ UNCHANGED << window, worker, quitPosted, framesLoaded,
                          overlayController >>
    /\ UNCHANGED << flagVars, spawnVars, caller >>

\* turn_on_privacy: check_on_conn_id returns early when the instance is
\* already on; otherwise start the thread and post SHOW.  A failed post
\* (thread gone, or queue full) returns the error with nothing changed.
TurnOn(c) ==
    /\ CallerStep
    /\ \/ /\ \/ connId # INVALID
             \/ ~overlayController
             \/ worker \notin Alive
             \/ Len(queue) = QueueLimit
          /\ UNCHANGED << window, threadVars, selfVars >>
       \/ /\ connId = INVALID
          /\ overlayController
          /\ worker \in Alive
          /\ Len(queue) < QueueLimit
          /\ queue' = Append(queue, "SHOW")
          /\ connId' = c
          /\ controller' = TRUE
          /\ UNCHANGED << window, worker, quitPosted, framesLoaded,
                          overlayController >>
       \/ /\ connId = INVALID
          /\ ~overlayController
          /\ SpawnOverlayThread(<< "SHOW" >>)
          /\ connId' = c
          /\ controller' = TRUE
    /\ UNCHANGED << flagVars, spawnVars, caller >>

\* check_off_conn_id: another connection's privacy mode cannot be turned
\* off, unless the caller passes INVALID.
OffAllowed(c) == connId = INVALID \/ c = INVALID \/ connId = c

\* turn_off_privacy: post HIDE when the instance has a controller, ignoring
\* a failed post, and forget the connection.
TurnOff(c) ==
    /\ CallerStep
    /\ \/ /\ ~OffAllowed(c)
          /\ UNCHANGED << queue, selfVars >>
       \/ /\ OffAllowed(c)
          /\ queue' = IF controller /\ worker \in Alive
                      THEN Post(queue, "HIDE") ELSE queue
          /\ connId' = INVALID
          /\ controller' = FALSE
    /\ UNCHANGED << flagVars, spawnVars, window, worker, quitPosted,
                    framesLoaded, overlayController, caller >>

\* cleanup_on_session_close, run by Drop or by emergency_cleanup: take the
\* controller out of OVERLAY_CONTROLLER, post SHUTDOWN (a failed post is
\* ignored), then join the thread.
CleanupBegin(by) ==
    /\ CallerStep
    /\ by = "emergency" => EmergencyCleanupCalled
    /\ overlayController' = FALSE
    /\ queue' = IF overlayController /\ worker \in Alive
                THEN Post(queue, "SHUTDOWN") ELSE queue
    /\ caller' = IF by = "drop" THEN "joining" ELSE "cleaning"
    /\ UNCHANGED << flagVars, spawnVars, window, worker, quitPosted,
                    framesLoaded, selfVars >>

\* The join returns once the thread has ended; cleanup then removes the
\* hooks, restores the cursors and clears four of the flags.  After Drop
\* the registry's next instance has no connection; emergency_cleanup
\* leaves the instance's conn_id and controller as they were.
CleanupJoin ==
    /\ caller \in {"joining", "cleaning"}
    /\ worker \notin Alive
    /\ worker' = "none"
    /\ queue' = << >>
    /\ quitPosted' = FALSE
    /\ RemoveInputHooks
    /\ cursorSystemReplaced' = FALSE
    /\ cursorHidden' = FALSE
    /\ privacyActive' = FALSE
    /\ cursorEnforcerRunning' = FALSE
    /\ IF caller = "joining"
       THEN connId' = INVALID /\ controller' = FALSE
       ELSE UNCHANGED selfVars
    /\ caller' = "idle"
    /\ UNCHANGED << zorderRunning, spawnVars, window, framesLoaded,
                    overlayController, ops >>

-----------------------------------------------------------------------------
(* The overlay thread's message loop.                                      *)

Receive(m) ==
    /\ worker = "running"
    /\ queue # << >>
    /\ Head(queue) = m
    /\ queue' = Tail(queue)

WorkerShow ==
    /\ Receive("SHOW")
    /\ \E r \in HookResults : ShowOverlay(r)
    /\ UNCHANGED << worker, quitPosted, framesLoaded, overlayController,
                    selfVars, caller, ops >>

WorkerHide ==
    /\ Receive("HIDE")
    /\ HideOverlay
    /\ window' = HiddenWindow(window)
    /\ UNCHANGED << spawnVars, worker, quitPosted, framesLoaded,
                    overlayController, selfVars, caller, ops >>

\* SHUTDOWN: hide_overlay, uncloak, clear the exclusion and DestroyWindow,
\* whose WM_DESTROY calls PostQuitMessage.
WorkerShutdown ==
    /\ Receive("SHUTDOWN")
    /\ HideOverlay
    /\ window' = NoWindow
    /\ quitPosted' = TRUE
    /\ UNCHANGED << spawnVars, worker, framesLoaded, overlayController,
                    selfVars, caller, ops >>

\* ANIMATE: the handler reads GIF_FRAMES; the first read runs the lazy
\* initialiser, which downloads and decodes the image on this thread.  The
\* frame advance itself is modelled in FramePump.
WorkerAnimate ==
    /\ Receive("ANIMATE")
    /\ worker' = IF framesLoaded THEN "running" ELSE "loading"
    /\ UNCHANGED << flagVars, spawnVars, window, quitPosted, framesLoaded,
                    overlayController, selfVars, caller, ops >>

\* WM_PAINT is dispatched only when no posted message is waiting; painting
\* the shown window runs render_gif_frame, which also reads GIF_FRAMES.
WorkerPaint ==
    /\ worker = "running"
    /\ queue = << >>
    /\ window.state = "shown"
    /\ ~framesLoaded
    /\ worker' = "loading"
    /\ UNCHANGED << flagVars, spawnVars, window, queue, quitPosted,
                    framesLoaded, overlayController, selfVars, caller, ops >>

\* The download returns (the frames, or the fallback frames on an error)
\* and the thread goes back to its loop.
FramesLoaded ==
    /\ worker = "loading"
    /\ worker' = "running"
    /\ framesLoaded' = TRUE
    /\ UNCHANGED << flagVars, spawnVars, window, queue, quitPosted,
                    overlayController, selfVars, caller, ops >>

\* WM_CLOSE from outside: window_proc runs hide_overlay and DestroyWindow.
WindowClose ==
    /\ WindowCanBeClosed
    /\ worker = "running"
    /\ window.state # "none"
    /\ HideOverlay
    /\ window' = NoWindow
    /\ quitPosted' = TRUE
    /\ UNCHANGED << spawnVars, worker, queue, framesLoaded, overlayController,
                    selfVars, caller, ops >>

\* WM_QUIT once the queue is empty; after the loop the thread hides the
\* overlay (stopping the watchdog if still active), clears its thread id,
\* removes the hooks, restores the cursor and clears four flags.
WorkerExit ==
    /\ worker = "running"
    /\ queue = << >>
    /\ quitPosted
    /\ worker' = "exited"
    /\ quitPosted' = FALSE
    /\ privacyActive' = FALSE
    /\ RemoveInputHooks
    /\ cursorSystemReplaced' = IF privacyActive THEN FALSE
                               ELSE cursorSystemReplaced
    /\ zorderRunning' = IF privacyActive THEN StopZorderEnforcer
                        ELSE zorderRunning
    /\ cursorHidden' = FALSE
    /\ cursorEnforcerRunning' = FALSE
    /\ UNCHANGED << spawnVars, window, queue, framesLoaded, overlayController,
                    selfVars, caller, ops >>

-----------------------------------------------------------------------------
(* The auxiliary threads.  Their sleeps are not modelled: any interleaving *)
(* of their steps with the others' is allowed.                             *)

\* Cursor enforcer: once PRIVACY_ACTIVE is false it leaves its loop ...
EnforcerTest ==
    /\ enforcers["loop"] > 0
    /\ ~privacyActive
    /\ enforcers' = [enforcers EXCEPT !["loop"] = @ - 1, !["exit"] = @ + 1]
    /\ UNCHANGED << flagVars, watchdogs, timers, window, threadVars,
                    selfVars, caller, ops >>

\* ... and clears CURSOR_ENFORCER_RUNNING.
EnforcerExit ==
    /\ enforcers["exit"] > 0
    /\ enforcers' = [enforcers EXCEPT !["exit"] = @ - 1]
    /\ cursorEnforcerRunning' = FALSE
    /\ UNCHANGED << privacyActive, cursorHidden, hooksInstalled,
                    cursorSystemReplaced, zorderRunning, osHooks, watchdogs,
                    timers, window, threadVars, selfVars, caller, ops >>

\* Z-order watchdog: the loop test of start_zorder_enforcer's thread.
WatchdogTest ==
    /\ watchdogs["loop"] > 0
    /\ watchdogs' = [watchdogs EXCEPT !["loop"] = @ - 1,
                        ![IF privacyActive THEN "body" ELSE "exit"] = @ + 1]
    /\ UNCHANGED << flagVars, enforcers, timers, window, threadVars,
                    selfVars, caller, ops >>

\* The loop body: SetWindowPos(HWND_TOPMOST, SWP_SHOWWINDOW) and
\* BringWindowToTop; they fail on a destroyed window.
WatchdogBody ==
    /\ watchdogs["body"] > 0
    /\ watchdogs' = [watchdogs EXCEPT !["body"] = @ - 1, !["loop"] = @ + 1]
    /\ window' = OnWindow(window, Placed(window, "shown", window.cloaked))
    /\ UNCHANGED << flagVars, enforcers, timers, threadVars, selfVars,
                    caller, ops >>

\* After the loop the watchdog clears ZORDER_ENFORCER_RUNNING.
WatchdogExit ==
    /\ watchdogs["exit"] > 0
    /\ watchdogs' = [watchdogs EXCEPT !["exit"] = @ - 1]
    /\ zorderRunning' = FALSE
    /\ UNCHANGED << privacyActive, cursorHidden, cursorEnforcerRunning,
                    hooksInstalled, cursorSystemReplaced, osHooks, enforcers,
                    timers, window, threadVars, selfVars, caller, ops >>

\* Animation timer: while PRIVACY_ACTIVE sleep 16 ms, then post ANIMATE;
\* once the test fails the thread ends.
TimerTest ==
    /\ timers["test"] > 0
    /\ timers' = IF privacyActive
                 THEN [timers EXCEPT !["test"] = @ - 1, !["post"] = @ + 1]
                 ELSE [timers EXCEPT !["test"] = @ - 1]
    /\ UNCHANGED << flagVars, enforcers, watchdogs, window, threadVars,
                    selfVars, caller, ops >>

\* PostMessageW to the window: fails when the window is destroyed or the
\* queue is full; the result is ignored.
TimerPost ==
    /\ timers["post"] > 0
    /\ timers' = [timers EXCEPT !["post"] = @ - 1, !["test"] = @ + 1]
    /\ queue' = IF window.state # "none" /\ worker \in Alive
                THEN Post(queue, "ANIMATE") ELSE queue
    /\ UNCHANGED << flagVars, enforcers, watchdogs, window, worker,
                    quitPosted, framesLoaded, overlayController, selfVars,
                    caller, ops >>

-----------------------------------------------------------------------------

\* The session layer has made its last call and the system rests.
Terminating ==
    /\ caller = "idle"
    /\ ops = MaxOps
    /\ UNCHANGED vars

Session ==
    \/ InitOverlay
    \/ \E c \in ConnIds : TurnOn(c)
    \/ \E c \in ConnIds \cup {INVALID} : TurnOff(c)
    \/ \E by \in {"drop", "emergency"} : CleanupBegin(by)

OverlayThread ==
    \/ WorkerShow \/ WorkerHide \/ WorkerShutdown \/ WorkerAnimate
    \/ WorkerPaint \/ FramesLoaded \/ WorkerExit

Auxiliary ==
    \/ EnforcerTest \/ EnforcerExit
    \/ WatchdogTest \/ WatchdogBody \/ WatchdogExit
    \/ TimerTest \/ TimerPost

Next ==
    \/ Session
    \/ CleanupJoin
    \/ OverlayThread
    \/ WindowClose
    \/ Auxiliary
    \/ Terminating

\* The overlay thread and the auxiliary threads are OS threads that run
\* while they have work; the download returns (reqwest's blocking client
\* has a timeout); a join returns once the joined thread has ended.
Fairness ==
    /\ WF_vars(OverlayThread)
    /\ WF_vars(EnforcerTest) /\ WF_vars(EnforcerExit)
    /\ WF_vars(WatchdogTest) /\ WF_vars(WatchdogBody) /\ WF_vars(WatchdogExit)
    /\ WF_vars(TimerTest) /\ WF_vars(TimerPost)
    /\ WF_vars(CleanupJoin)

Spec == Init /\ [][Next]_vars /\ Fairness

-----------------------------------------------------------------------------
(* Properties.                                                             *)

WindowType == [state : {"none", "hidden", "shown"},
               cloaked : BOOLEAN, excluded : BOOLEAN]

\* Every variable holds a value of its type.
TypeOK ==
    /\ \A f \in {privacyActive, cursorHidden, cursorEnforcerRunning,
                  hooksInstalled, cursorSystemReplaced, zorderRunning,
                  quitPosted, framesLoaded, overlayController, controller} :
          f \in BOOLEAN
    /\ osHooks \subseteq {"keyboard", "mouse"}
    /\ enforcers \in [EnforcerPc -> Nat]
    /\ watchdogs \in [WatchdogPc -> Nat]
    /\ timers \in [TimerPc -> Nat]
    /\ window \in WindowType
    /\ worker \in {"none", "running", "loading", "exited"}
    /\ queue \in Seq(Msgs) /\ Len(queue) <= QueueLimit
    /\ connId \in ConnIds \cup {INVALID}
    /\ caller \in {"idle", "joining", "cleaning"}
    /\ ops \in 0..MaxOps

\* No low-level hook outlives PRIVACY_ACTIVE, whichever of HIDE, SHUTDOWN,
\* WM_CLOSE, the thread's exit or a cleanup turned it off.
InputBlockedOnlyWhilePrivate ==
    osHooks # {} => privacyActive

\* The overlay is visible on the console only while privacy mode is on,
\* although a watchdog that passed its loop test before HIDE still calls
\* SetWindowPos(SWP_SHOWWINDOW) afterwards: hide_overlay's cloak keeps
\* the re-shown window invisible.
OverlayVisibleOnlyWhilePrivate ==
    (window.state = "shown" /\ ~window.cloaked) => privacyActive

\* Spec 4.7: while privacy mode is active a z-order watchdog runs, even
\* when HIDE then SHOW came while the previous watchdog was still between
\* its loop test and its exit.
ZOrderEnforcedWhileActive ==
    privacyActive => watchdogs["loop"] + watchdogs["body"] > 0

\* ZORDER_ENFORCER_RUNNING's compare_exchange admits one watchdog: at most
\* one watchdog thread is in its loop at any time.
SingleZOrderWatchdog ==
    watchdogs["loop"] + watchdogs["body"] <= 1

-----------------------------------------------------------------------------
(* Refinement: the GIF overlay implements the back-end contract of         *)
(* PrivacyMode.  The pending requests are the queued SHOW / HIDE /         *)
(* SHUTDOWN messages read as intents; ANIMATE asks for nothing.            *)

Intent(m) == IF m = "SHOW" THEN "on" ELSE "off"

RequestedIntents(q) ==
    LET r == SelectSeq(q, LAMBDA m : m # "ANIMATE")
    IN  [i \in 1..Len(r) |-> Intent(r[i])]

PM == INSTANCE PrivacyMode
        WITH NoConn <- INVALID, owner <- connId,
             intents <- RequestedIntents(queue), active <- privacyActive

\* The back-end contract (as for the direct overlay): privacy mode is taken
\* only when nobody holds it and released only by its holder or a forced
\* INVALID call, requests take effect in the order they were posted
\* whatever ANIMATE messages the timers interleave, and PRIVACY_ACTIVE
\* otherwise only falls; emergency_cleanup may keep the holder.
PrivacyModeSpec == PM!Spec

=============================================================================
