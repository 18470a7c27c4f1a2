----------------------------- MODULE HookFilter -----------------------------
(***************************************************************************)
(* The per-event decision of the low-level keyboard and mouse hook         *)
(* procedures of the two overlay back-ends (keyboard_hook_proc and         *)
(* mouse_hook_proc in win_direct_overlay.rs and in win_gif_overlay.rs).    *)
(*                                                                         *)
(* A hook procedure either passes the event on (CallNextHookEx) or         *)
(* swallows it (returns 1).  An event is its hook code, the flags word of  *)
(* KBDLLHOOKSTRUCT / MSLLHOOKSTRUCT, and whether dwExtraInfo carries the   *)
(* agent's ENIGO_INPUT_EXTRA_VALUE sentinel.  The flag bits are those the  *)
(* Windows headers define; the decision is compared with the spec's        *)
(* "synthetic passthrough" rule.  The flags are a u32, of which only the   *)
(* low eight bits carry defined flags; the model enumerates those.         *)
(***************************************************************************)
EXTENDS Integers

\* HC_ACTION; a negative code must be passed on without processing.
HC_ACTION == 0
Codes == {-1, HC_ACTION}

\* dwExtraInfo: the agent's sentinel or anything else.
Extras == {"sentinel", "other"}

\* KBDLLHOOKSTRUCT.flags bits (WinUser.h).
LLKHF_EXTENDED == 1
LLKHF_LOWER_IL_INJECTED == 2
LLKHF_INJECTED == 16
LLKHF_ALTDOWN == 32
LLKHF_UP == 128

\* MSLLHOOKSTRUCT.flags bits (WinUser.h).
LLMHF_INJECTED == 1
LLMHF_LOWER_IL_INJECTED == 2

\* (x & mask) != 0 on the low eight bits, without the Bitwise module.
Bit(x, b) == (x \div 2^b) % 2 = 1
AnyBit(x, mask) == \E b \in 0..7 : Bit(x, b) /\ Bit(mask, b)

\* Every flags word a keyboard or a mouse event can carry.
KeyboardFlags ==
    { e + l + i + a + u : e \in {0, LLKHF_EXTENDED},
                          l \in {0, LLKHF_LOWER_IL_INJECTED},
                          i \in {0, LLKHF_INJECTED},
                          a \in {0, LLKHF_ALTDOWN},
                          u \in {0, LLKHF_UP} }
MouseFlags ==
    { i + l : i \in {0, LLMHF_INJECTED}, l \in {0, LLMHF_LOWER_IL_INJECTED} }

Events ==
    [device : {"keyboard"}, code : Codes, flags : KeyboardFlags, extra : Extras]
    \cup
    [device : {"mouse"}, code : Codes, flags : MouseFlags, extra : Extras]

-----------------------------------------------------------------------------
(* The hook procedures, as the code writes them: its own constants         *)
(* LLKHF_INJECTED = 0x01, LLKHF_LOWER_IL_INJECTED = 0x02 and               *)
(* LLMHF_INJECTED = 0x01, LLMHF_LOWER_IL_INJECTED = 0x02.                  *)

\* The mask both files test the keyboard flags against.
CodeKeyboardMask == 1 + 2
\* The mask both files test the mouse flags against.
CodeMouseMask == 1 + 2

\* keyboard_hook_proc (direct overlay): at HC_ACTION pass the sentinel,
\* then pass what the mask calls injected, and block the rest; any other
\* code is passed on.
KeyboardHookProc(e) ==
    IF /\ e.code = HC_ACTION
       /\ e.extra # "sentinel"
       /\ ~AnyBit(e.flags, CodeKeyboardMask)
    THEN "block" ELSE "pass"

\* mouse_hook_proc (direct overlay): a negative code is passed on first;
\* at HC_ACTION the same two pass-through tests, then block.
MouseHookProc(e) ==
    IF e.code < 0 THEN "pass"
    ELSE IF /\ e.code = HC_ACTION
            /\ e.extra # "sentinel"
            /\ ~AnyBit(e.flags, CodeMouseMask)
         THEN "block" ELSE "pass"

\* keyboard_hook_proc of the GIF overlay: the same tests.
GifKeyboardHookProc(e) ==
    IF /\ e.code = HC_ACTION
       /\ e.extra # "sentinel"
       /\ ~AnyBit(e.flags, CodeKeyboardMask)
    THEN "block" ELSE "pass"

\* mouse_hook_proc of the GIF overlay: the same tests.
GifMouseHookProc(e) ==
    IF e.code < 0 THEN "pass"
    ELSE IF /\ e.code = HC_ACTION
            /\ e.extra # "sentinel"
            /\ ~AnyBit(e.flags, CodeMouseMask)
         THEN "block" ELSE "pass"

-----------------------------------------------------------------------------
(* The reference rule (spec section 8, "synthetic passthrough"): an event  *)
(* passes iff it carries the sentinel or its flags mark it injected, at    *)
(* any integrity level; an event whose code is not HC_ACTION is passed on. *)

InjectedMask(d) ==
    IF d = "keyboard" THEN LLKHF_INJECTED + LLKHF_LOWER_IL_INJECTED
    ELSE LLMHF_INJECTED + LLMHF_LOWER_IL_INJECTED

SpecVerdict(e) ==
    IF /\ e.code = HC_ACTION
       /\ e.extra # "sentinel"
       /\ ~AnyBit(e.flags, InjectedMask(e.device))
    THEN "block" ELSE "pass"

\* The hook procedure of a back-end for the event's device.
Verdict(backend, e) ==
    CASE backend = "direct" /\ e.device = "keyboard" -> KeyboardHookProc(e)
      [] backend = "direct" /\ e.device = "mouse"    -> MouseHookProc(e)
      [] backend = "gif" /\ e.device = "keyboard"    -> GifKeyboardHookProc(e)
      [] backend = "gif" /\ e.device = "mouse"       -> GifMouseHookProc(e)

-----------------------------------------------------------------------------
(* The OS delivers one input event after another to the installed hooks.   *)

VARIABLE event

Init == event \in Events

Deliver == \E e \in Events : event' = e

Spec == Init /\ [][Deliver]_event

\* The event is a keyboard or mouse event the OS can produce.
TypeOK == event \in Events

\* Spec 4.4 and section 8, synthetic passthrough: both overlays' keyboard
\* and mouse hooks pass exactly the sentinel-tagged events and the events
\* whose flags mark them injected (at any integrity level), and swallow
\* every physical one whatever its other flags (extended, alt, key-up).
PassthroughAsSpecified ==
    \A b \in {"direct", "gif"} : Verdict(b, event) = SpecVerdict(event)

=============================================================================
