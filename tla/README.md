# Verification of the Windows privacy-mode back-ends

This directory holds TLA+ models of the privacy-mode subsystem in
`src/src/privacy_mode/`, the TLC configurations that model-check them, and
TLAPS proofs. Every definition is translated from the Rust source. The one
exception is the registry, `privacy_mode/mod.rs`, which is not in this
repository; its contracts (`check_on_conn_id`, `check_off_conn_id`, the
registry lock) are modelled from `spec.md` and marked `spec_modelled` in
`PROJECT.json`.

## The system

Privacy mode hides the console of a remotely controlled Windows machine while
the remote operator keeps working. Three back-ends implement it; a registry
keeps at most one of them active and serialises calls under one lock.

| Part | Source | State | Threads |
|---|---|---|---|
| Direct overlay | `win_direct_overlay.rs` | `PRIVACY_ACTIVE`, `CURSOR_HIDDEN`, `CURSOR_ENFORCER_RUNNING`, `HOOKS_INSTALLED`, `CURSOR_SYSTEM_REPLACED`, the hook handles, `OVERLAY_CONTROLLER`, the instance's `conn_id` and `controller` | session caller; the overlay thread (window and message loop); cursor-enforcer threads |
| Animated (GIF) overlay | `win_gif_overlay.rs` | the same, plus `ZORDER_ENFORCER_RUNNING`, `GIF_FRAMES`, `GIF_FRAME_INDEX`, `GIF_LAST_FRAME_TIME` | the same, plus z-order watchdogs and animation timers |
| Separate desktop | `win_separate_desktop.rs` | `AGENT_DESKTOP_INFO` (desktop name and Explorer pid), the instance's `conn_id` | session caller; any thread calling `emergency_cleanup` |
| Registry | `privacy_mode/mod.rs` (not in the repository) | the active back-end and connection | |
| License check, CLI, test drivers | `license.rs`, `core_main.rs`, test binaries | none shared with privacy mode | |

**How the parts interact.** In the overlay back-ends the session thread never
touches the window. It posts SHOW, HIDE and SHUTDOWN to the overlay thread
(`PostThreadMessageW`), returns without waiting, and on `Drop` or
`emergency_cleanup` posts SHUTDOWN (ignoring a failed post) and joins the thread with no timeout. The
overlay thread installs the low-level input hooks (which Windows then calls
on that same thread), swaps the system cursors and starts detached helper
threads. Each helper loops while `PRIVACY_ACTIVE` is set and then clears its
own "running" flag. In the GIF back-end an animation timer posts ANIMATE
every 16 ms into the same bounded thread queue, and the first paint or
ANIMATE runs the lazy download of the GIF on the overlay thread. The window
can also receive WM_CLOSE from outside the process. The separate-desktop
back-end does everything on the session thread: it creates a desktop with an
Explorer shell, moves the thread onto it, and on turn-off moves it back and
kills the shell by its recorded pid.

## Modules

| Module | Models | Runs |
|---|---|---|
| `PrivacyMode` | the contract every overlay back-end promises the session layer | used as the abstract spec |
| `DirectOverlay`, `MCDirectOverlay` | the direct-overlay back-end | `direct_overlay`, `enforcer_race`, `hook_failure`, `stale_controller` |
| `GifOverlay`, `MCGifOverlay` | the GIF back-end's threads and queue | `gif_overlay`, `gif_zorder_duplicate` |
| `FramePump`, `MCFramePump` | the GIF frames and their pump, in milliseconds | `frame_pump`, `frame_delay_scale` |
| `HookFilter` | both overlays' keyboard and mouse hook procedures | `hook_passthrough` |
| `SeparateDesktop`, `MCSeparateDesktop` | the separate-desktop back-end | `separate_desktop`, `separate_stale_pid` |
| `DirectOverlayProofs`, `GifOverlayProofs`, `FramePumpProofs`, `SeparateDesktopProofs` | TLAPS proofs | |

### `PrivacyMode`: the abstract contract

Three variables: `owner` (the connection holding privacy mode, or `NoConn`),
`intents` (the on/off requests handed to the back-end and not yet carried
out, oldest first) and `active` (privacy mode in force). Actions:

- `On(c)`: only when nobody holds it; appends "on".
- `Off(c)`: only by the holder, or with `NoConn` (the registry's forced
  turn-off), or when nobody holds it; the "off" request may or may not be
  made (a failed HIDE post is ignored by the code).
- `Shutdown`: appends "off" (the SHUTDOWN of a cleanup).
- `Apply`: the oldest request takes effect, which is spec section 5's "SHOW,
  HIDE and SHUTDOWN are processed in message-queue order".
- `Abort`: privacy mode is dropped outside the requests (WM_CLOSE, the end
  of the overlay thread).
- `Teardown`: a cleanup clears requests and effect; the holder may stay.

The last two say what the contract does *not* promise: it does not rule out
the stale holder that the `stale_controller` run shows.

### `DirectOverlay`

**Variables.** Each process-wide static is a variable, and so are the two
fields of the instance (`connId`, `controller`). The model adds `osHooks`
(the hooks actually installed in the OS), `enforcers` (enforcer threads
counted by program counter), `window` (a record of its state and its
`cloaked` and `excluded` attributes), `worker` (the overlay thread), `queue`
(its posted messages), `quitPosted`, `caller` (idle, or joining in `Drop`)
and `ops` (a bound on the session's calls).

**Actions.** One per handler: `InitOverlay` (`init`); `TurnOn(c)`
(`turn_on_privacy` with `check_on_conn_id`, `start_overlay_thread` and the
SHOW post); `TurnOff(c)` (`turn_off_privacy`, the HIDE post's failure
ignored); `DropBegin` / `DropJoin` (`cleanup_on_session_close`, split at the
join, which waits for another thread); `WorkerShow`, `WorkerHide`,
`WorkerShutdown` (one message of the loop each; atomic, because only the
overlay thread runs `show_overlay` and `hide_overlay`); `WindowClose`
(outside WM_CLOSE); `WorkerExit` (WM_QUIT and the tail of
`overlay_thread_main`); `EnforcerTest` / `EnforcerExit` (the loop test and
final store of an enforcer). Hook installation has three outcomes (`ok`,
`keyboardFails`, `mouseFails`); `mouseFails` runs the code's rollback.

**Refinement.** The module ends with
`PM == INSTANCE PrivacyMode WITH NoConn <- INVALID, owner <- connId, intents <- RequestedIntents(queue), active <- privacyActive`:
each queued SHOW reads as "on" and each HIDE or SHUTDOWN as "off".
`PrivacyModeSpec == PM!Spec` is checked as a property.

### `GifOverlay`

The same structure as `DirectOverlay`, with what the GIF file adds:

- the queue is bounded by `QueueLimit`. `Post` drops a message on a full
  queue, as `PostThreadMessageW` fails. Windows' quota is 10,000 messages,
  far above the small bound here, so the model also reaches refusals of
  the session's own posts that the code never meets. The safety runs are
  unaffected: a refused post only means that less happens;
- `WorkerAnimate` (ANIMATE) and `WorkerPaint` (WM_PAINT of the shown
  window) enter the state `loading` on the first read of `GIF_FRAMES`, and
  `FramesLoaded` ends the download;
- z-order watchdogs (`watchdogs`, by pc `loop`, `body`, `exit`) and
  animation timers (`timers`, by pc `test`, `post`), each with one action
  per step of its thread; `stop_zorder_enforcer` clears the gate without
  stopping the thread;
- `CleanupBegin(by)` covers `Drop` and `emergency_cleanup` (another thread;
  the instance keeps its `conn_id`), `CleanupJoin` the join.

The refinement mapping is the same, with ANIMATE filtered out of the queue
(`SelectSeq`): ANIMATE asks for nothing, as spec section 5 calls it
best-effort.

### `FramePump`

Time in milliseconds. `DecodedDelay` is the code's conversion:
`numer_denom_ms()` gives a ratio already in milliseconds, the code
multiplies by 1000 and clamps to at least 50 ms. `FallbackDelays` is the
four 250 ms frames of `create_fallback_frames`; `FramesOf(outcome)` the lazy
initialiser's choice. `Animate` is one 16 ms timer period plus up to
`Jitter` ms of scheduling delay, followed by the ANIMATE handler (`Advance`).
The reference the properties compare with is the delay the image declares
(`DeclaredOf`).

### `HookFilter`

The per-event decision of the four hook procedures, with the flag constants
the code defines (`0x01 | 0x02` for both keyboard and mouse), against the
spec's rule `SpecVerdict`, using the real `WinUser.h` bits
(`LLKHF_INJECTED = 0x10`, `LLKHF_EXTENDED = 0x01`). The events are every
flags word built from the defined bits, both hook codes, and the sentinel
or not.

### `SeparateDesktop`

The OS is abstracted to what the code depends on: `shells` (Explorer
processes started and still running), `pidHolder` (whether the recorded pid
is the shell's, free, or reused by `other`), `handles` (open handles to the
agent desktop) and `threadDesk`. `turn_on_privacy` is split in two at the
point where another thread can act (`TurnOnCreate`, then `TurnOnSwitch`),
with `pending` holding the connection between them. `CreateAgentDesktop(r)`
has the outcomes `ok`, `desktopFails` and `shellFails`;
`SwitchToAgentDesktop(ok)` fails when the desktop was destroyed meanwhile or
`SetThreadDesktop` fails, and on success keeps its handle open ("Don't close
desktop"). `ShellExits` and `PidReused` are the OS. The `AgentDesktop`
struct in the same file (lines 70-239) is never used and is not modelled.

## Runs

| Run | Config | Bounds | Checks | Result |
|---|---|---|---|---|
| `direct_overlay` | `MCDirectOverlay.cfg` | 2 connections, 8 calls, WM_CLOSE allowed | `InputBlockedOnlyWhilePrivate`, `HookHandlesConsistent`, `OffMeansClean`, `DropReturns`, `PrivacyModeSpec` | pass (5370 states) |
| `enforcer_race` | `MCDirectOverlayEnforcer.cfg` | 6 calls | `CursorEnforcedWhileActive` | violation |
| `hook_failure` | `MCDirectOverlayHooks.cfg` | 4 calls | `InputBlockedWhileActive` | violation |
| `stale_controller` | `MCDirectOverlayStale.cfg` | 6 calls, WM_CLOSE allowed | `TurnOnPossibleAfterOff` | violation |
| `gif_overlay` | `MCGifOverlay.cfg` | 2 connections, 5 calls, queue of 3, WM_CLOSE and emergency cleanup allowed | `InputBlockedOnlyWhilePrivate`, `OverlayVisibleOnlyWhilePrivate`, `ZOrderEnforcedWhileActive`, `PrivacyModeSpec` | pass (1129005 states) |
| `gif_zorder_duplicate` | `MCGifOverlayZorder.cfg` | 4 calls, queue of 3 | `SingleZOrderWatchdog` | violation |
| `frame_pump` | `MCFramePump.cfg` | delays 100, 200, 150 ms; 1000 ms; jitter 4 ms | `TypeOK`, `AdvanceRespectsDelay` | pass (24622 states) |
| `frame_delay_scale` | `MCFramePumpOneSecond.cfg` | the same | `OneSecondAdvances` | violation |
| `hook_passthrough` | `HookFilter.cfg` | all 144 events | `PassthroughAsSpecified` | violation |
| `separate_desktop` | `MCSeparateDesktop.cfg` | 2 connections, 6 calls, emergency cleanup allowed | `NoOrphanShell`, `OnMeansAgentDesktop` | pass (549 states) |
| `separate_stale_pid` | `MCSeparateDesktopPid.cfg` | 4 calls | `NoForeignProcessKilled` | violation |

**Why the bounds are enough.** Two connection ids are enough for a second
connection to be refused and for a forced turn-off with INVALID. Eight
direct calls (five GIF calls) cover on, off, on again for the same or the
other connection with the worker lagging several messages behind, and a
cleanup in between; every action of each model fires in its passing run.
A queue of three holds a SHOW, a HIDE and an ANIMATE, so a refused post
is reached too. The frame pump runs one second, the span of
spec section 8's scenario 3; 4 ms of jitter per period makes the handler's
timing vary without changing the 16 ms tick. Six separate-desktop calls
reach create, failed and successful switch, turn-off, Drop and a cleanup
from another thread, with the shell exiting and its pid reused in between.

**Deadlock.** Every passing run checks deadlock. `Terminating` lets a run
rest once the call budget is spent.

**Mutants.** Each property of a passing run is broken by a plausible bug in
the code it is about (`PROJECT.json`, `mutants`): `hide_overlay` forgetting
`remove_input_hooks`; the failed mouse hook not unhooking the keyboard hook;
`turn_off` not posting HIDE; Drop joining without posting SHUTDOWN;
`turn_on` without `check_on_conn_id` (breaks `PrivacyModeSpec` in both
overlays); `remove_input_hooks` unhooking only the keyboard;
`hide_overlay` not cloaking; `stop_zorder_enforcer` not clearing the gate;
the frame advance not wrapping or not restarting its clock;
`create_agent_desktop` without its `is_some` guard; `turn_on` recording the
connection after a failed switch.

## What the violations show

These are the `findings` of `PROJECT.json`:

- **`enforcer_race`.** An enforcer has tested `PRIVACY_ACTIVE` false and not
  yet cleared `CURSOR_ENFORCER_RUNNING`; a SHOW in that window starts no
  enforcer, and privacy mode stays active with none (spec 4.5 calls it the
  only defence against drivers restoring the cursor).
- **`hook_failure`.** `show_overlay` only logs a failed
  `install_input_hooks` after `turn_on_privacy` has returned `Ok(true)`;
  spec 4.9 makes hook failure fatal to `turn_on`.
- **`stale_controller`.** An outside WM_CLOSE ends the overlay thread, but
  `OVERLAY_CONTROLLER` keeps the dead thread's controller. `turn_off`
  releases the connection and returns. From then on `start_overlay_thread`
  hands that controller to every `turn_on`, and its SHOW post fails with
  "Overlay thread is not ready" until the instance is dropped. Spec 8 says
  that after `turn_off` "a subsequent turn_on succeeds".
- **`gif_zorder_duplicate`.** HIDE clears `ZORDER_ENFORCER_RUNNING` while
  the watchdog still runs; the next SHOW starts a second watchdog.
- **`frame_delay_scale`.** The delay is multiplied by 1000 a second time: a
  100 ms frame lasts 100 s, and scenario 3's animation never advances in
  its first second.
- **`hook_passthrough`.** The keyboard hooks of both overlays use 0x01,
  which is `LLKHF_EXTENDED`, as "injected": physical arrow, Insert or
  right-Ctrl keys pass the block, and an injected key without the lower-IL
  flag is blocked. TLC's first counterexample is a physical extended key.
- **`separate_stale_pid`.** Explorer exits, the OS reuses its pid, and
  `destroy_agent_desktop` terminates the unrelated process.

Three more disagreements are modelled but have no run of their own. They
are hazards in `PROJECT.json`, each with a note:
- the GIF download blocks the hook thread (`win_gif_overlay.rs:265`);
- the instance keeps a stale `conn_id` after `emergency_cleanup` (`:1146`);
- a failed switch leaves the agent desktop and its shell behind
  (`win_separate_desktop.rs:511`).

`cleanup_on_session_close` ignores a failed SHUTDOWN post and then joins
forever (`win_gif_overlay.rs:1107`); this is a hazard too, but not a
finding. The queue can be full only if the animation timer outruns the
overlay thread. That happens only during the one blocking download of
`GIF_FRAMES`, where a single timer runs and reqwest times out after 30 s.
The timer then posts at most about 1,900 messages, well under the 10,000
quota. The model's small `QueueLimit` would reach the refusal through the
session's own posts, which is not a faithful trace, so no run claims it.

## Fairness

Weak fairness on the overlay thread's steps (an OS thread with a message, or
a pending WM_QUIT, eventually runs), on each step of the helper threads (a
thread whose sleep has ended eventually runs), and on the join
(`JoinHandle::join` returns once the thread has ended). There is no fairness
on the session's calls, on WM_CLOSE, on `emergency_cleanup` or on the OS
events of the separate-desktop model: none of them need happen. The frame
pump and the hook filter are checked for safety only.

## What is proved

All proofs hold for every value of the constants that the module's
assumption allows:
- every set of connection ids (integers, not containing INVALID = -1);
- every bound `MaxOps`;
- for the GIF overlay, every queue capacity of at least 1 and either
  choice of WM_CLOSE and emergency_cleanup;
- for the frame pump, every list of declared delays, horizon and jitter.

The only assumptions are each module's `ConstantsAssumption` or
`PumpAssumption`. Each proof module gives the safety theorem and its
inductive invariant. TLC first checked each inductive invariant as an
invariant of the module's passing run.

`DirectOverlayProofs`:

- **`TypeCorrect`: `Spec => []TypeOK`.** This lemma-level theorem is used
  by the others. `TypeOK` is split into three parts, each with a step
  lemma: the flags and hooks, the window record, and the rest. No run
  checks `TypeOK` on its own, because it holds by the shape of the
  actions.
- **`HooksSafety`: `Spec => [](InputBlockedOnlyWhilePrivate /\ HookHandlesConsistent)`,
  and its half `HookHandlesSafety`.** The invariant is not inductive alone.
  `hide_overlay`'s `remove_input_hooks` unhooks only when `HOOKS_INSTALLED`
  is set, so the invariant needs `HookHandlesConsistent`: the flag is set
  exactly when both hooks are in the OS. That fact rests on the rollback in
  `install_input_hooks`.
- **`CleanupComplete`: `Spec => []OffMeansClean`.** The property speaks only
  of quiescent states. What makes it true is the order of the posts. The
  inductive invariant `Clean` has one main conjunct, `LastRequestOff`: with
  no connection and an idle session, the last queued request is never SHOW,
  and an empty queue means privacy mode is off. `turn_off` either appends
  HIDE, or finds no running thread, in which case nothing is queued and
  nothing is active (`StoppedMeansOff`, `ConnHasController`). The other
  conjuncts say why "off" is enough:
  - the cursors and a shown window go with `PRIVACY_ACTIVE`;
  - WM_QUIT is posted only after the window is destroyed, so the thread's
    exit and the cleanup after the join, which leave the window as it is,
    cannot leave it shown;
  - without a registered controller no thread runs.

  The sequence lemmas `LastOfAppend` and `LastOfTail` say how the last
  request follows `Append` and `Tail`.
- **`Refinement`: `Spec => PrivacyModeSpec`.** The direct overlay implements
  the contract. The inductive invariant `RefInv` adds two facts to `TypeOK`:
  - with no registered controller and an idle caller the queue is empty;
  - an instance that holds a controller while idle has a registered one.

  Without them, a `TurnOn` that starts a new thread would replace a
  non-empty queue, which no contract step does. The lemmas `IntentsEmpty`,
  `IntentsAppend` and `IntentsTail` say how the mapping `RequestedIntents`
  follows `Append` and `Tail`. `RefStep` maps each action to `On`, `Off`,
  `Shutdown`, `Apply`, `Abort`, `Teardown` or a stutter.

`GifOverlayProofs`:

- **`TypeCorrect`.** A lemma-level theorem the safety proof rests on; no
  run checks it on its own.
- **`OverlaySafety`**, with its three halves `InputBlockedSafety`,
  `OverlayVisibleSafety` and `ZOrderSafety`. None of the three invariants
  is inductive alone. The invariant `Safe` adds these facts:
  - `HooksConsistent`, as for the direct overlay;
  - `CloakedUnlessPrivate`: a window that exists and is not cloaked means
    privacy mode is on. "Shown" is not enough, because the watchdog's
    `SWP_SHOWWINDOW` can turn a hidden window into a shown one after HIDE,
    and only the cloak keeps it invisible;
  - `QuitMeansNoWindow` and `EndedMeansOff`: the thread's exit and the
    cleanup after the join leave the window as it is;
  - `GateMeansActive`: `ZORDER_ENFORCER_RUNNING` is set only while privacy
    mode is on. This is what makes `show_overlay` always find the gate
    clear and start a watchdog. A watchdog leaves its loop only once
    privacy mode is off, so the watchdog count cannot drop to zero while it
    is on.

  There is one step lemma per group of actions: `ShowSafe`, `HideSafe`,
  `DestroySafe`, `ExitSafe`, `JoinSafe`, `SpawnSafe`, `WatchdogSafe` and
  `QuietSafe`.

`FramePumpProofs`:

- **`TypeCorrect`** and **`DelayRespected`:
  `Spec => AdvanceRespectsDelay`**, an action property. The handler compares
  the time with `GIF_LAST_FRAME_TIME`, while the property speaks of when the
  frame was first shown. The invariant `Inv` adds `shownAt <= last`: the
  frame clock is restarted on every advance, also when a single frame wraps
  onto itself. Two lemmas complete the argument:
  - `DecodedAtLeastDeclared`: the decoder never shortens a whole-millisecond
    delay;
  - `FramesCoverDeclared`: the loaded frames, decoded or fallback, are a
    non-empty list, each at least as long as it declares.

`SeparateDesktopProofs`:

- **`TypeCorrect`** and **`DesktopSafety`:
  `Spec => [](NoOrphanShell /\ OnMeansAgentDesktop)`**, with its half
  `AgentDesktopWhileOn`. The inductive invariant adds two facts:
  - `ShellInv`: the shell runs exactly while the recorded pid is its pid,
    and a pid is recorded only with `AGENT_DESKTOP_INFO`;
  - `HandleBound`: the leaked handles, plus one for a turn-on between its
    halves, never outnumber the calls.

  Without `ShellInv`, neither `ShellExits` nor `destroy_agent_desktop` could
  be shown to keep the count.

## What is only model-checked

- **Liveness** (`DropReturns` in `direct_overlay`). TLAPS does not reason
  about fairness or `ENABLED`.
- **The violated properties** (`TurnOnPossibleAfterOff`,
  `CursorEnforcedWhileActive` and the others). What TLC shows about them
  is a counterexample, not a theorem.
- **The GIF refinement** (`PrivacyModeSpec` in `gif_overlay`). The mapping
  filters ANIMATE out of the queue with `SelectSeq`. Relating the filtered
  `Tail` of a queue to the filtered queue needs induction over the queue's
  length. The library's induction theorems take an operator parameter that
  the installed provers cannot instantiate, so this stays with TLC.
- **`OneSecondAdvances` and `HookFilter`.** These are finite arithmetic
  checked exhaustively, and both runs are violations.

## Not modelled, and why

- **`core_main.rs`**: argument dispatch for the whole application. Its
  only privacy-mode call is `restore_reg_connectivity` at service
  start-up. That function belongs to the registry module, which is not in
  this repository, and it touches no back-end state.
- **`license.rs`**: a blocking HTTP request and JSON parsing, with no
  shared state or concurrency.
- **The panic hook of `init_cleanup`**: where a panic can happen is a
  question of the code's `unwrap` calls, not of its protocol.
- **Switching between back-ends**: done by the registry, which is not in
  this repository.
- **Cursor shapes, the ShowCursor count, window geometry, pixel decoding
  and painting**: no property tells them apart.
