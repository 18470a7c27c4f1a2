--------------------------- MODULE DirectOverlay ---------------------------
(***************************************************************************)
(* The direct-overlay privacy-mode back-end of                             *)
(* src/src/privacy_mode/win_direct_overlay.rs.                              *)
(*                                                                         *)
(* Three kinds of thread share the process-wide state of that file:        *)
(*   - the session thread, which calls init, turn_on_privacy,              *)
(*     turn_off_privacy and (through Drop) cleanup_on_session_close on the *)
(*     DirectOverlayPrivacyMode instance; the registry lock serialises     *)
(*     these calls, so there is one caller;                                *)
(*   - the overlay worker thread (overlay_thread_main), which owns the     *)
(*     window and handles the posted SHOW / HIDE / SHUTDOWN messages;      *)
(*   - the cursor-enforcer threads spawned by start_cursor_enforcer.       *)
(* The operating system may also deliver WM_CLOSE to the overlay window.   *)
(*                                                                         *)
(* Data is abstracted to what the properties tell apart: the window is its *)
(* shown/hidden/destroyed state with the cloak and capture-exclusion       *)
(* attributes, a low-level hook is "installed in the OS or not", and       *)
(* cursor shapes and the ShowCursor display count are left out.            *)
(***************************************************************************)
EXTENDS Integers, Sequences

CONSTANTS
    ConnIds,                   \* connection ids the session layer assigns
    MaxOps,                    \* bound on the session thread's calls
    SupportsCaptureExclusion,  \* Windows 10 build 19041 or later
    WindowCanBeClosed          \* something outside may send WM_CLOSE

\* INVALID_PRIVACY_MODE_CONN_ID
INVALID == -1

ASSUME ConstantsAssumption ==
    /\ ConnIds \subseteq Int
    /\ INVALID \notin ConnIds
    /\ MaxOps \in Nat
    /\ SupportsCaptureExclusion \in BOOLEAN
    /\ WindowCanBeClosed \in BOOLEAN

\* Messages posted to the overlay thread (WM_PRIVACY_*).
Msgs == {"SHOW", "HIDE", "SHUTDOWN"}

\* Program counters of a cursor-enforcer thread: at the loop test, or
\* past a failed test and about to clear CURSOR_ENFORCER_RUNNING.
EnforcerPc == {"loop", "exit"}

\* Outcomes of install_input_hooks' two SetWindowsHookExW calls.
HookResults == {"ok", "keyboardFails", "mouseFails"}

VARIABLES
    privacyActive,          \* PRIVACY_ACTIVE
    cursorHidden,           \* CURSOR_HIDDEN
    cursorEnforcerRunning,  \* CURSOR_ENFORCER_RUNNING
    hooksInstalled,         \* HOOKS_INSTALLED
    cursorSystemReplaced,   \* CURSOR_SYSTEM_REPLACED
    osHooks,                \* low-level hooks installed in the OS
    enforcers,              \* enforcer threads alive, counted per pc
    window,                 \* the overlay window
    worker,                 \* the overlay thread: "none" | "running" | "exited"
    queue,                  \* its posted-message queue
    quitPosted,             \* WM_QUIT pending (PostQuitMessage was called)
    overlayController,      \* OVERLAY_CONTROLLER is Some
    connId,                 \* self.conn_id
    controller,             \* self.controller is Some
    caller,                 \* session thread: "idle" | "joining"
    ops                     \* calls made by the session thread

vars == << privacyActive, cursorHidden, cursorEnforcerRunning, hooksInstalled,
           cursorSystemReplaced, osHooks, enforcers, window, worker, queue,
           quitPosted, overlayController, connId, controller, caller, ops >>

flagVars == << privacyActive, cursorHidden, cursorEnforcerRunning,
               hooksInstalled, cursorSystemReplaced, osHooks >>
threadVars == << worker, queue, quitPosted, overlayController >>
selfVars == << connId, controller >>

NoWindow == [state |-> "none", cloaked |-> FALSE, excluded |-> FALSE]

\* The window w after ShowWindow / DwmSetWindowAttribute(DWMWA_CLOAK).
Placed(w, state, cloaked) ==
    [state |-> state, cloaked |-> cloaked, excluded |-> w.excluded]

\* A window call on a destroyed window has no effect.
OnWindow(w, new) == IF w.state = "none" THEN w ELSE new

\* set_capture_exclusion: skipped on builds without WDA_EXCLUDEFROMCAPTURE.
WithExclusion(w, on) ==
    IF SupportsCaptureExclusion
    THEN [state |-> w.state, cloaked |-> w.cloaked, excluded |-> on]
    ELSE w

Init ==
    /\ privacyActive = FALSE
    /\ cursorHidden = FALSE
    /\ cursorEnforcerRunning = FALSE
    /\ hooksInstalled = FALSE
    /\ cursorSystemReplaced = FALSE
    /\ osHooks = {}
    /\ enforcers = [p \in EnforcerPc |-> 0]
    /\ window = NoWindow
    /\ worker = "none"
    /\ queue = << >>
    /\ quitPosted = FALSE
    /\ overlayController = FALSE
    /\ connId = INVALID
    /\ controller = FALSE
    /\ caller = "idle"
    /\ ops = 0

-----------------------------------------------------------------------------
(* Helpers of the overlay thread: each is the net effect of one function.  *)

\* Mutant: a failed mouse hook leaves the keyboard hook installed.
InstallInputHooksNoRollback(r) ==
    CASE hooksInstalled \/ r = "keyboardFails" ->
            UNCHANGED << hooksInstalled, osHooks >>
      [] r = "ok" ->
            /\ hooksInstalled' = TRUE
            /\ osHooks' = {"keyboard", "mouse"}
      [] r = "mouseFails" ->
            /\ osHooks' = osHooks \cup {"keyboard"}
            /\ UNCHANGED hooksInstalled

\* install_input_hooks: the keyboard hook, then the mouse hook; a failed
\* mouse hook unhooks the keyboard hook before returning the error.
InstallInputHooks(r) ==
    IF hooksInstalled \/ r # "ok"
    THEN UNCHANGED << hooksInstalled, osHooks >>
    ELSE /\ hooksInstalled' = TRUE
         /\ osHooks' = {"keyboard", "mouse"}

\* remove_input_hooks: only when HOOKS_INSTALLED was set (swap to false).
RemoveInputHooks ==
    IF hooksInstalled
    THEN /\ hooksInstalled' = FALSE
         /\ osHooks' = {}
    ELSE UNCHANGED << hooksInstalled, osHooks >>

\* show_overlay: a no-op when PRIVACY_ACTIVE was already set; otherwise
\* uncloak, exclude from capture, hide the cursor, blank the system
\* cursors, start the enforcer, install the hooks (a failure is only
\* logged) and show the window.
ShowOverlay(r) ==
    IF privacyActive
    THEN UNCHANGED << flagVars, enforcers, window >>
    ELSE /\ privacyActive' = TRUE
         /\ window' = OnWindow(window,
                         WithExclusion(Placed(window, "shown", FALSE), TRUE))
         /\ cursorHidden' = TRUE
         /\ cursorSystemReplaced' = TRUE
         /\ cursorEnforcerRunning' = TRUE
         /\ enforcers' = IF cursorEnforcerRunning THEN enforcers
                         ELSE [enforcers EXCEPT !["loop"] = @ + 1]
         /\ InstallInputHooks(r)

\* Mutant: hide_overlay forgets remove_input_hooks.
HideOverlayKeepsHooks ==
    IF ~privacyActive
    THEN UNCHANGED flagVars
    ELSE /\ privacyActive' = FALSE
         /\ UNCHANGED << hooksInstalled, osHooks >>
         /\ cursorSystemReplaced' = FALSE
         /\ cursorHidden' = FALSE
         /\ UNCHANGED cursorEnforcerRunning

\* hide_overlay without its window calls: a no-op unless PRIVACY_ACTIVE
\* was set; otherwise remove the hooks and restore the cursors.
HideOverlay ==
    IF ~privacyActive
    THEN UNCHANGED flagVars
    ELSE /\ privacyActive' = FALSE
         /\ RemoveInputHooks
         /\ cursorSystemReplaced' = FALSE
         /\ cursorHidden' = FALSE
         /\ UNCHANGED cursorEnforcerRunning

\* The window calls of hide_overlay: SW_HIDE, cloak, no capture exclusion.
HiddenWindow(w) ==
    IF privacyActive
    THEN OnWindow(w, WithExclusion(Placed(w, "hidden", TRUE), FALSE))
    ELSE w

\* The new overlay thread has registered the class, created, configured
\* and cloaked its window and sent its thread id: start_overlay_thread
\* stores the controller and the caller posts `msgs`.
SpawnOverlayThread(msgs) ==
    /\ worker' = "running"
    /\ overlayController' = TRUE
    /\ window' = [state |-> "hidden", cloaked |-> TRUE, excluded |-> FALSE]
    /\ queue' = msgs
    /\ quitPosted' = FALSE

-----------------------------------------------------------------------------
(* The session thread.                                                     *)

CallerStep ==
    /\ caller = "idle"
    /\ ops < MaxOps
    /\ ops' = ops + 1

\* init: start_overlay_thread, which returns the existing controller, or
\* fails when the class cannot be registered or the window created.
InitOverlay ==
    /\ CallerStep
    /\ \/ UNCHANGED << flagVars, enforcers, window, threadVars >>
       \/ /\ ~overlayController
          /\ SpawnOverlayThread(<< >>)
          /\ UNCHANGED << flagVars, enforcers >>
    /\ UNCHANGED << selfVars, caller >>

\* Mutant: turn_on_privacy without check_on_conn_id.
TurnOnNoConnCheck(c) ==
    /\ CallerStep
    /\ \/ /\ ~overlayController \/ worker # "running"
          /\ UNCHANGED << window, threadVars, selfVars >>
       \/ /\ overlayController
          /\ worker = "running"
          /\ queue' = Append(queue, "SHOW")
          /\ connId' = c
          /\ controller' = TRUE
          /\ UNCHANGED << window, worker, quitPosted, overlayController >>
    /\ UNCHANGED << flagVars, enforcers, caller >>

\* turn_on_privacy: check_on_conn_id returns early when the instance is
\* already on (for this or another connection); otherwise start the thread
\* and post SHOW, either of which may fail with nothing changed.
TurnOn(c) ==
    /\ CallerStep
    /\ \/ /\ connId # INVALID \/ ~overlayController \/ worker # "running"
          /\ UNCHANGED << window, threadVars, selfVars >>
       \/ /\ connId = INVALID
          /\ overlayController
          /\ worker = "running"
          /\ queue' = Append(queue, "SHOW")
          /\ connId' = c
          /\ controller' = TRUE
          /\ UNCHANGED << window, worker, quitPosted, overlayController >>
       \/ /\ connId = INVALID
          /\ ~overlayController
          /\ SpawnOverlayThread(<< "SHOW" >>)
          /\ connId' = c
          /\ controller' = TRUE
    /\ UNCHANGED << flagVars, enforcers, caller >>

\* check_off_conn_id: another connection's privacy mode cannot be turned
\* off, unless the caller passes INVALID (a forced override).
OffAllowed(c) == connId = INVALID \/ c = INVALID \/ connId = c

\* Mutant: self.controller is cleared before the HIDE is posted.
TurnOffNoHide(c) ==
    /\ CallerStep
    /\ \/ /\ ~OffAllowed(c)
          /\ UNCHANGED selfVars
       \/ /\ OffAllowed(c)
          /\ connId' = INVALID
          /\ controller' = FALSE
    /\ UNCHANGED << flagVars, enforcers, window, threadVars, caller >>

\* turn_off_privacy: post HIDE when the instance has a controller (a
\* failed post is ignored), publish the state, and forget the connection.
TurnOff(c) ==
    /\ CallerStep
    /\ \/ /\ ~OffAllowed(c)
          /\ UNCHANGED << queue, selfVars >>
       \/ /\ OffAllowed(c)
          /\ queue' = IF controller /\ worker = "running"
                      THEN Append(queue, "HIDE") ELSE queue
          /\ connId' = INVALID
          /\ controller' = FALSE
    /\ UNCHANGED << flagVars, enforcers, window, worker, quitPosted,
                    overlayController, caller >>

\* Mutant: Drop joins without posting SHUTDOWN.
DropBeginNoShutdown ==
    /\ CallerStep
    /\ overlayController' = FALSE
    /\ caller' = "joining"
    /\ UNCHANGED << flagVars, enforcers, window, worker, queue, quitPosted,
                    selfVars >>

\* Drop of the instance runs cleanup_on_session_close: take the controller
\* out of OVERLAY_CONTROLLER, post SHUTDOWN (result ignored), then join.
DropBegin ==
    /\ CallerStep
    /\ overlayController' = FALSE
    /\ queue' = IF overlayController /\ worker = "running"
                THEN Append(queue, "SHUTDOWN") ELSE queue
    /\ caller' = "joining"
    /\ UNCHANGED << flagVars, enforcers, window, worker, quitPosted, selfVars >>

\* The join returns once the thread has ended; cleanup then removes the
\* hooks, restores the cursors and clears the flags, and the registry's
\* next instance (DirectOverlayPrivacyMode::new) starts with no connection.
DropJoin ==
    /\ caller = "joining"
    /\ worker # "running"
    /\ worker' = "none"
    /\ queue' = << >>
    /\ quitPosted' = FALSE
    /\ RemoveInputHooks
    /\ cursorSystemReplaced' = FALSE
    /\ cursorHidden' = FALSE
    /\ privacyActive' = FALSE
    /\ cursorEnforcerRunning' = FALSE
    /\ connId' = INVALID
    /\ controller' = FALSE
    /\ caller' = "idle"
    /\ UNCHANGED << enforcers, window, overlayController, ops >>

-----------------------------------------------------------------------------
(* The overlay thread's message loop.                                      *)

\* GetMessageW returns the oldest posted message of the thread.
Receive(m) ==
    /\ worker = "running"
    /\ queue # << >>
    /\ Head(queue) = m
    /\ queue' = Tail(queue)

WorkerShow ==
    /\ Receive("SHOW")
    /\ \E r \in HookResults : ShowOverlay(r)
    /\ UNCHANGED << worker, quitPosted, overlayController, selfVars,
                    caller, ops >>

WorkerHide ==
    /\ Receive("HIDE")
    /\ HideOverlay
    /\ window' = HiddenWindow(window)
    /\ UNCHANGED << enforcers, worker, quitPosted, overlayController,
                    selfVars, caller, ops >>

\* SHUTDOWN: hide_overlay, uncloak, clear the exclusion and DestroyWindow,
\* whose WM_DESTROY calls PostQuitMessage.
WorkerShutdown ==
    /\ Receive("SHUTDOWN")
    /\ HideOverlay
    /\ window' = NoWindow
    /\ quitPosted' = TRUE
    /\ UNCHANGED << enforcers, worker, overlayController, selfVars,
                    caller, ops >>

\* WM_CLOSE sent to the window from outside the process: window_proc runs
\* hide_overlay and DestroyWindow inside GetMessageW, whatever is queued.
WindowClose ==
    /\ WindowCanBeClosed
    /\ worker = "running"
    /\ window.state # "none"
    /\ HideOverlay
    /\ window' = NoWindow
    /\ quitPosted' = TRUE
    /\ UNCHANGED << enforcers, worker, queue, overlayController, selfVars,
                    caller, ops >>

\* WM_QUIT is returned once the queue is empty; after the loop the thread
\* hides the (destroyed) overlay, clears its thread id, removes the hooks,
\* restores the cursor and clears the flags, then ends.
WorkerExit ==
    /\ worker = "running"
    /\ queue = << >>
    /\ quitPosted
    /\ worker' = "exited"
    /\ quitPosted' = FALSE
    /\ privacyActive' = FALSE
    /\ RemoveInputHooks
    /\ cursorSystemReplaced' = IF privacyActive THEN FALSE
                               ELSE cursorSystemReplaced
    /\ cursorHidden' = FALSE
    /\ cursorEnforcerRunning' = FALSE
    /\ UNCHANGED << enforcers, window, queue, overlayController, selfVars,
                    caller, ops >>

-----------------------------------------------------------------------------
(* The cursor-enforcer threads: while PRIVACY_ACTIVE they re-hide the      *)
(* cursor every 50 ms (the cursor is not modelled, so that iteration       *)
(* changes nothing here); once the test fails they clear                   *)
(* CURSOR_ENFORCER_RUNNING and end.                                        *)

EnforcerTest ==
    /\ enforcers["loop"] > 0
    /\ ~privacyActive
    /\ enforcers' = [enforcers EXCEPT !["loop"] = @ - 1, !["exit"] = @ + 1]
    /\ UNCHANGED << flagVars, window, threadVars, selfVars, caller, ops >>

EnforcerExit ==
    /\ enforcers["exit"] > 0
    /\ enforcers' = [enforcers EXCEPT !["exit"] = @ - 1]
    /\ cursorEnforcerRunning' = FALSE
    /\ UNCHANGED << privacyActive, cursorHidden, hooksInstalled,
                    cursorSystemReplaced, osHooks, window, threadVars,
                    selfVars, caller, ops >>

-----------------------------------------------------------------------------

\* The session layer has made its last call and the system rests.
Terminating ==
    /\ caller = "idle"
    /\ ops = MaxOps
    /\ UNCHANGED vars

Session ==
    \/ InitOverlay
    \/ \E c \in ConnIds : TurnOn(c)
    \/ \E c \in ConnIds \cup {INVALID} : TurnOff(c)
    \/ DropBegin

OverlayThread == WorkerShow \/ WorkerHide \/ WorkerShutdown \/ WorkerExit

Enforcers == EnforcerTest \/ EnforcerExit

Next ==
    \/ Session
    \/ DropJoin
    \/ OverlayThread
    \/ WindowClose
    \/ Enforcers
    \/ Terminating

\* The overlay thread and the enforcers are OS threads that keep running
\* while they have work; a join returns once the joined thread has ended.
\* The session layer and the sender of WM_CLOSE need not act at all.
Fairness ==
    /\ WF_vars(OverlayThread)
    /\ WF_vars(Enforcers)
    /\ WF_vars(DropJoin)

Spec == Init /\ [][Next]_vars /\ Fairness

-----------------------------------------------------------------------------
(* Properties.                                                             *)

\* The type invariant, in three parts: the flags and the hooks, the window
\* record, and the rest.
FlagsTypeOK ==
    /\ privacyActive \in BOOLEAN
    /\ cursorHidden \in BOOLEAN
    /\ cursorEnforcerRunning \in BOOLEAN
    /\ hooksInstalled \in BOOLEAN
    /\ cursorSystemReplaced \in BOOLEAN
    /\ quitPosted \in BOOLEAN
    /\ overlayController \in BOOLEAN
    /\ controller \in BOOLEAN
    /\ osHooks \subseteq {"keyboard", "mouse"}

WindowType == [state : {"none", "hidden", "shown"},
               cloaked : BOOLEAN, excluded : BOOLEAN]

DataTypeOK ==
    /\ enforcers \in [EnforcerPc -> Nat]
    /\ worker \in {"none", "running", "exited"}
    /\ queue \in Seq(Msgs)
    /\ connId \in ConnIds \cup {INVALID}
    /\ caller \in {"idle", "joining"}
    /\ ops \in 0..MaxOps

\* Every variable holds a value of its type.
TypeOK == FlagsTypeOK /\ window \in WindowType /\ DataTypeOK

\* The console user's keyboard and mouse are swallowed only while privacy
\* mode is on: no low-level hook outlives PRIVACY_ACTIVE, whichever of
\* HIDE, SHUTDOWN, WM_CLOSE, the thread's exit or cleanup_on_session_close
\* turned it off.
InputBlockedOnlyWhilePrivate ==
    osHooks # {} => privacyActive

\* The hook handles the code keeps are exactly the hooks installed in the
\* OS: HOOKS_INSTALLED is set iff both hooks are, so remove_input_hooks can
\* always undo install_input_hooks, including its rollback of the keyboard
\* hook when the mouse hook fails.
HookHandlesConsistent ==
    osHooks = IF hooksInstalled THEN {"keyboard", "mouse"} ELSE {}

\* Cleanup completeness: once turn_off_privacy (or Drop) has returned and
\* the overlay thread has handled every posted message, nothing of privacy
\* mode is left: not active, no hook, system cursors restored, overlay not
\* shown.
Quiescent == caller = "idle" /\ queue = << >>

OffMeansClean ==
    (Quiescent /\ connId = INVALID) =>
        /\ ~privacyActive
        /\ osHooks = {}
        /\ ~cursorSystemReplaced
        /\ window.state # "shown"

\* Cleanup completeness, second half (spec 8: after turn_off "a subsequent
\* turn_on succeeds"): a turn_off_privacy that releases the connection
\* leaves no OVERLAY_CONTROLLER behind for an overlay thread that has
\* ended, since start_overlay_thread would return that controller and the
\* SHOW post of every later turn_on would fail ("not ready").
TurnOnPossibleAfterOff ==
    [][(connId # INVALID /\ connId' = INVALID) =>
           (~overlayController' \/ worker' = "running")]_vars

\* Drop returns: cleanup_on_session_close's join on the overlay thread
\* ends, because the SHUTDOWN it posts (or an earlier WM_CLOSE) ends the
\* thread's message loop.
DropReturns ==
    (caller = "joining") ~> (caller = "idle")

\* The cursor enforcer, "the only defence against some drivers' automatic
\* cursor restoration" (spec 4.5), runs whenever privacy mode is active.
CursorEnforcedWhileActive ==
    privacyActive => enforcers["loop"] > 0

\* Hook installation failure is fatal to turn_on (spec 4.9): privacy mode
\* is never active without both input hooks.
InputBlockedWhileActive ==
    (privacyActive /\ caller = "idle") => osHooks = {"keyboard", "mouse"}


-----------------------------------------------------------------------------
(* Refinement: the direct overlay implements the back-end contract of      *)
(* PrivacyMode.  The holder is self.conn_id, the pending requests are the  *)
(* queued messages read as intents (SHOW asks for privacy mode, HIDE and   *)
(* SHUTDOWN ask to end it), and privacy mode is in force while             *)
(* PRIVACY_ACTIVE is set.                                                  *)

Intent(m) == IF m = "SHOW" THEN "on" ELSE "off"

RequestedIntents(q) == [i \in 1..Len(q) |-> Intent(q[i])]

PM == INSTANCE PrivacyMode
        WITH NoConn <- INVALID, owner <- connId,
             intents <- RequestedIntents(queue), active <- privacyActive

\* The back-end contract: a connection takes privacy mode only when nobody
\* holds it (check_on_conn_id), only the holder or a forced INVALID call
\* releases it (check_off_conn_id), SHOW / HIDE / SHUTDOWN take effect one
\* at a time in the order turn_on, turn_off and Drop posted them, and
\* PRIVACY_ACTIVE otherwise only falls (WM_CLOSE, the thread's exit,
\* cleanup).
PrivacyModeSpec == PM!Spec

=============================================================================
