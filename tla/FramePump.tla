----------------------------- MODULE FramePump ------------------------------
(***************************************************************************)
(* The frames of the GIF overlay and their pump, in real time              *)
(* (src/src/privacy_mode/win_gif_overlay.rs): the frame delays the GIF     *)
(* decoder yields and the fallback frames (GIF_FRAMES), the reset of       *)
(* GIF_FRAME_INDEX / GIF_LAST_FRAME_TIME when the overlay thread starts,   *)
(* the animation timer that posts ANIMATE after each 16 ms sleep, and the  *)
(* ANIMATE handler that advances the frame index.                          *)
(*                                                                         *)
(* Time is a count of milliseconds.  A timer period is the 16 ms sleep     *)
(* plus a scheduling delay of at most Jitter ms before the overlay thread  *)
(* handles the message.  A frame is its delay only: its pixels are left    *)
(* out.                                                                    *)
(***************************************************************************)
EXTENDS Integers, Sequences

CONSTANTS
    Declared,   \* the delays the GIF file declares, in ms, one per frame
    Horizon,    \* how long the pump is observed, in ms
    Jitter      \* bound on the scheduling delay of one timer period, in ms

ASSUME PumpAssumption ==
    /\ Declared \in Seq(Nat)
    /\ Horizon \in Nat
    /\ Jitter \in Nat

\* The animation timer's sleep (thread::sleep(16)).
TickMs == 16

\* The image crate's Delay::numer_denom_ms: the frame delay as a ratio of
\* milliseconds; a GIF delay is whole, so the ratio is d / 1.
NumerDenomMs(d) == << d, 1 >>

\* load_gif_from_url: delay_ms = numer * 1000 / denom, clamped to 50 ms.
DecodedDelay(d) ==
    LET nd == NumerDenomMs(d)
        ms == (nd[1] * 1000) \div nd[2]
    IN  IF ms < 50 THEN 50 ELSE ms

\* create_fallback_frames: four frames of 250 ms.
FallbackDelays == << 250, 250, 250, 250 >>
FallbackDeclared == FallbackDelays

\* The lazy initialiser of GIF_FRAMES: the decoded frames when the
\* download and decode succeed with at least one frame, the fallback
\* frames when the download fails or yields none.
FramesOf(outcome) ==
    IF outcome = "ok" /\ Declared # << >>
    THEN [i \in 1..Len(Declared) |-> DecodedDelay(Declared[i])]
    ELSE FallbackDelays

DeclaredOf(outcome) ==
    IF outcome = "ok" /\ Declared # << >> THEN Declared ELSE FallbackDeclared

Outcomes == {"ok", "error"}

VARIABLES
    outcome,    \* how the download went
    index,      \* GIF_FRAME_INDEX
    last,       \* GIF_LAST_FRAME_TIME, in ms since the thread started
    now,        \* the time the current ANIMATE is handled
    advances,   \* how many times the index has advanced
    shownAt     \* observer: when the current frame was first displayed

vars == << outcome, index, last, now, advances, shownAt >>

\* overlay_thread_main, after the ready handshake: GIF_FRAME_INDEX = 0 and
\* GIF_LAST_FRAME_TIME = now.
Init ==
    /\ outcome \in Outcomes
    /\ index = 0
    /\ last = 0
    /\ now = 0
    /\ advances = 0
    /\ shownAt = 0

\* Mutant: the handler forgets to wrap the index at the frame count.
AdvanceNoWrap(t) ==
    LET delays == FramesOf(outcome) IN
    IF t - last >= delays[index + 1]
    THEN /\ index' = index + 1
         /\ last' = t
         /\ advances' = advances + 1
    ELSE UNCHANGED << index, last, advances >>

\* Mutant: the handler advances without restarting the frame's clock.
AdvanceNoReset(t) ==
    LET delays == FramesOf(outcome) IN
    IF t - last >= delays[index + 1]
    THEN /\ index' = (index + 1) % Len(delays)
         /\ advances' = advances + 1
         /\ UNCHANGED last
    ELSE UNCHANGED << index, last, advances >>

\* The ANIMATE handler at time t: when the elapsed time reaches the current
\* frame's delay, take the next frame (mod the frame count), restart the
\* frame's clock and invalidate the window.
Advance(t) ==
    LET delays == FramesOf(outcome) IN
    IF t - last >= delays[index + 1]
    THEN /\ index' = (index + 1) % Len(delays)
         /\ last' = t
         /\ advances' = advances + 1
    ELSE UNCHANGED << index, last, advances >>

\* start_animation_timer: sleep 16 ms, post ANIMATE; the overlay thread
\* handles it at most Jitter ms later.
Animate ==
    \E j \in 0..Jitter :
        /\ now + TickMs + j <= Horizon
        /\ now' = now + TickMs + j
        /\ Advance(now')
        /\ shownAt' = IF index' # index THEN now' ELSE shownAt
        /\ UNCHANGED outcome

\* The observation window has ended.
Done ==
    /\ now + TickMs > Horizon
    /\ UNCHANGED vars

Next == Animate \/ Done

Spec == Init /\ [][Next]_vars

-----------------------------------------------------------------------------

\* The index is a frame of the loaded frames and the clocks are ordered.
TypeOK ==
    /\ outcome \in Outcomes
    /\ index \in 0..(Len(FramesOf(outcome)) - 1)
    /\ last \in 0..now
    /\ now \in 0..Horizon
    /\ advances \in Nat
    /\ shownAt \in 0..now

\* Spec section 8 (animated): the frame index only ever moves by one
\* (mod the frame count), and only once the current frame has been shown
\* for at least the delay the image declares for it.
AdvanceRespectsDelay ==
    [][index' # index =>
        /\ index' = (index + 1) % Len(FramesOf(outcome))
        /\ now' - shownAt >= DeclaredOf(outcome)[index + 1]]_vars

\* Spec section 8, scenario 3: with a valid animation of delays
\* {100, 200, 150}, after one second the index has advanced at least twice
\* and at most eleven times.
OneSecondAdvances ==
    (outcome = "ok" /\ now + TickMs > Horizon) => advances \in 2..11

=============================================================================
