--------------------------- MODULE FramePumpProofs --------------------------
(***************************************************************************)
(* Proofs about the frame pump of the GIF overlay, for every list of       *)
(* declared delays, every horizon and every scheduling jitter: the index   *)
(* always names a loaded frame, and it only ever moves to the next frame   *)
(* once the current one has been on screen for its declared delay.         *)
(*                                                                         *)
(* TypeOK alone is not inductive for the delay property: the ANIMATE       *)
(* handler compares the time with GIF_LAST_FRAME_TIME, while the property  *)
(* speaks of when the frame was first shown.  The handler restarts         *)
(* GIF_LAST_FRAME_TIME every time it advances, also when a single frame    *)
(* wraps onto itself, so the frame's clock never starts before the frame   *)
(* was shown: shownAt <= last.                                             *)
(***************************************************************************)
EXTENDS FramePump, TLAPS

\* The strengthening of TypeOK that the delay property rests on.
Inv ==
    /\ TypeOK
    /\ shownAt <= last

-----------------------------------------------------------------------------
(* Lemmas about the loaded frames.                                         *)

\* The decoder never shortens a whole-millisecond delay: it multiplies by
\* 1000 and divides by 1, and only ever raises the result to 50 ms.
LEMMA DecodedAtLeastDeclared ==
    ASSUME NEW d \in Nat
    PROVE  DecodedDelay(d) \in Nat /\ DecodedDelay(d) >= d
BY DEF DecodedDelay, NumerDenomMs

\* Whatever the download did, the loaded frames are a non-empty list, one
\* per declared delay, and each lasts at least as long as it declares.
LEMMA FramesCoverDeclared ==
    ASSUME NEW o
    PROVE  /\ Len(FramesOf(o)) = Len(DeclaredOf(o))
           /\ Len(FramesOf(o)) >= 1
           /\ \A i \in 1..Len(FramesOf(o)) :
                 /\ FramesOf(o)[i] \in Nat
                 /\ DeclaredOf(o)[i] \in Nat
                 /\ FramesOf(o)[i] >= DeclaredOf(o)[i]
<1>1. CASE o = "ok" /\ Declared # << >>
  <2>1. Len(Declared) \in Nat /\ Len(Declared) >= 1
    BY <1>1, PumpAssumption
  <2>2. FramesOf(o) = [i \in 1..Len(Declared) |-> DecodedDelay(Declared[i])]
        /\ DeclaredOf(o) = Declared
    BY <1>1 DEF FramesOf, DeclaredOf
  <2>3. \A i \in 1..Len(Declared) :
           /\ Declared[i] \in Nat
           /\ DecodedDelay(Declared[i]) \in Nat
           /\ DecodedDelay(Declared[i]) >= Declared[i]
    <3>1. TAKE i \in 1..Len(Declared)
    <3>2. Declared[i] \in Nat
      BY PumpAssumption
    <3>. QED BY <3>2, DecodedAtLeastDeclared
  <2>4. Len([i \in 1..Len(Declared) |-> DecodedDelay(Declared[i])])
          = Len(Declared)
    BY <2>1
  <2>. QED BY <2>1, <2>2, <2>3, <2>4
<1>2. CASE ~(o = "ok" /\ Declared # << >>)
  <2>1. FramesOf(o) = << 250, 250, 250, 250 >>
        /\ DeclaredOf(o) = << 250, 250, 250, 250 >>
    BY <1>2 DEF FramesOf, DeclaredOf, FallbackDelays, FallbackDeclared
  <2>. QED BY <2>1
<1>. QED BY <1>1, <1>2

-----------------------------------------------------------------------------
(* The invariant.                                                          *)

LEMMA InitInv == Init => Inv
<1>. SUFFICES ASSUME Init PROVE Inv
  OBVIOUS
<1>1. Len(FramesOf(outcome)) >= 1
  BY FramesCoverDeclared
<1>. QED BY <1>1, PumpAssumption DEF Init, Inv, TypeOK, Outcomes

\* One ANIMATE at time now + 16 + j, split on whether the handler takes the
\* next frame.
LEMMA AnimateInv ==
    ASSUME Inv, Animate
    PROVE  Inv'
<1>. PICK j \in 0..Jitter :
        /\ now + TickMs + j <= Horizon
        /\ now' = now + TickMs + j
        /\ Advance(now')
        /\ shownAt' = IF index' # index THEN now' ELSE shownAt
        /\ UNCHANGED outcome
  BY DEF Animate
<1>. DEFINE delays == FramesOf(outcome)
<1>1. /\ Len(delays) \in Nat /\ Len(delays) >= 1
      /\ index \in 0..(Len(delays) - 1)
      /\ now \in Nat /\ last \in 0..now /\ shownAt \in 0..now
      /\ shownAt <= last /\ advances \in Nat
      /\ now' \in 0..Horizon /\ now' > now
  BY FramesCoverDeclared, PumpAssumption DEF Inv, TypeOK, TickMs
<1>2. CASE now' - last >= delays[index + 1]
  <2>1. /\ index' = (index + 1) % Len(delays)
        /\ last' = now'
        /\ advances' = advances + 1
    BY <1>2 DEF Advance
  <2>2. index' \in 0..(Len(delays) - 1)
    BY <1>1, <2>1
  <2>3. shownAt' \in 0..now' /\ shownAt' <= last'
    BY <1>1, <2>1
  <2>. QED BY <1>1, <2>1, <2>2, <2>3 DEF Inv, TypeOK
<1>3. CASE ~(now' - last >= delays[index + 1])
  <2>1. UNCHANGED << index, last, advances >> /\ shownAt' = shownAt
    BY <1>3 DEF Advance
  <2>. QED BY <1>1, <2>1 DEF Inv, TypeOK
<1>. QED BY <1>2, <1>3

LEMMA StepInv == Inv /\ [Next]_vars => Inv'
<1>. SUFFICES ASSUME Inv, [Next]_vars PROVE Inv'
  OBVIOUS
<1>1. CASE Animate
  BY <1>1, AnimateInv
<1>2. CASE Done \/ UNCHANGED vars
  BY <1>2 DEF Done, vars, Inv, TypeOK
<1>. QED BY <1>1, <1>2 DEF Next

\* The GIF frame index always names one of the loaded frames (so the
\* paint handler's frames[index] is in bounds), and the frame clock
\* GIF_LAST_FRAME_TIME never runs ahead of the time.
THEOREM TypeCorrect == Spec => []TypeOK
<1>1. Inv => TypeOK
  BY DEF Inv
<1>. QED BY InitInv, StepInv, <1>1, PTL DEF Spec

-----------------------------------------------------------------------------
(* The action property.                                                    *)

\* One step of the pump takes at most the next frame, and only after the
\* current frame was shown for its declared delay.
LEMMA StepRespectsDelay ==
    ASSUME Inv, [Next]_vars
    PROVE  index' # index =>
              /\ index' = (index + 1) % Len(FramesOf(outcome))
              /\ now' - shownAt >= DeclaredOf(outcome)[index + 1]
<1>. SUFFICES ASSUME index' # index
              PROVE  /\ index' = (index + 1) % Len(FramesOf(outcome))
                     /\ now' - shownAt >= DeclaredOf(outcome)[index + 1]
  OBVIOUS
<1>1. Animate
  BY DEF Next, Done, vars
<1>. PICK j \in 0..Jitter :
        /\ now' = now + TickMs + j
        /\ Advance(now')
  BY <1>1 DEF Animate
<1>. DEFINE delays == FramesOf(outcome)
<1>2. now' - last >= delays[index + 1]
  BY DEF Advance
<1>3. index' = (index + 1) % Len(delays)
  BY <1>2 DEF Advance
<1>4. /\ index + 1 \in 1..Len(delays)
      /\ delays[index + 1] >= DeclaredOf(outcome)[index + 1]
      /\ delays[index + 1] \in Nat
      /\ DeclaredOf(outcome)[index + 1] \in Nat
  BY FramesCoverDeclared DEF Inv, TypeOK
<1>5. now' \in Int /\ last \in Int /\ shownAt \in Int /\ shownAt <= last
  BY PumpAssumption DEF Inv, TypeOK, TickMs
<1>. QED BY <1>2, <1>3, <1>4, <1>5

\* The ANIMATE handler never skips a frame and never cuts one short: every
\* change of GIF_FRAME_INDEX is to the next frame, once the current frame
\* has been displayed for at least the delay the GIF declares for it.
THEOREM DelayRespected == Spec => AdvanceRespectsDelay
<1>1. Inv /\ [Next]_vars =>
        [index' # index =>
           /\ index' = (index + 1) % Len(FramesOf(outcome))
           /\ now' - shownAt >= DeclaredOf(outcome)[index + 1]]_vars
  BY StepRespectsDelay
<1>. QED BY InitInv, StepInv, <1>1, PTL DEF Spec, AdvanceRespectsDelay

=============================================================================
