----------------------------- MODULE PrivacyMode ----------------------------
(***************************************************************************)
(* What an overlay privacy-mode back-end promises its session layer (spec  *)
(* sections 4, 5 and 8), stated without threads, windows or hooks.        *)
(*                                                                         *)
(*   owner    the connection that holds privacy mode, or NoConn;           *)
(*   intents  the on/off requests handed to the back-end and not yet       *)
(*            carried out, oldest first;                                   *)
(*   active   whether privacy mode is in force on the console.             *)
(*                                                                         *)
(* A connection takes privacy mode only when no one holds it, and only the *)
(* holder (or a forced NoConn call) releases it.  Requests take effect one *)
(* at a time in the order they were made (SHOW, HIDE and SHUTDOWN are      *)
(* processed in message-queue order); a release need not reach the         *)
(* back-end.  Outside the requests, privacy mode can only be dropped       *)
(* (WM_CLOSE, the end of the back-end's thread), and a teardown clears     *)
(* everything.                                                             *)
(***************************************************************************)
EXTENDS Sequences

CONSTANTS ConnIds, NoConn

VARIABLES owner, intents, active

vars == << owner, intents, active >>

Intents == {"on", "off"}

Init ==
    /\ owner = NoConn
    /\ intents = << >>
    /\ active = FALSE

\* A connection takes privacy mode and asks for it.
On(c) ==
    /\ owner = NoConn
    /\ owner' = c
    /\ intents' = Append(intents, "on")
    /\ UNCHANGED active

\* Conn binding: the holder, or anyone with NoConn, releases privacy mode;
\* the request to turn it off may or may not be made.
OffAllowed(c) == owner = NoConn \/ c = NoConn \/ owner = c

Off(c) ==
    /\ OffAllowed(c)
    /\ owner' = NoConn
    /\ \/ intents' = Append(intents, "off")
       \/ UNCHANGED intents
    /\ UNCHANGED active

\* The back-end is asked to shut down.
Shutdown ==
    /\ intents' = Append(intents, "off")
    /\ UNCHANGED << owner, active >>

\* The oldest request takes effect.
Apply ==
    /\ intents # << >>
    /\ intents' = Tail(intents)
    /\ active' = (Head(intents) = "on")
    /\ UNCHANGED owner

\* Privacy mode is dropped from outside the requests.
Abort ==
    /\ active' = FALSE
    /\ UNCHANGED << owner, intents >>

\* Cleanup: nothing is active or pending; the holder may be kept.
Teardown ==
    /\ intents' = << >>
    /\ active' = FALSE
    /\ owner' \in {owner, NoConn}

Next ==
    \/ \E c \in ConnIds : On(c)
    \/ \E c \in ConnIds \cup {NoConn} : Off(c)
    \/ Shutdown
    \/ Apply
    \/ Abort
    \/ Teardown

Spec == Init /\ [][Next]_vars

=============================================================================
