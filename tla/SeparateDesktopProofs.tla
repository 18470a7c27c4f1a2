------------------------ MODULE SeparateDesktopProofs ------------------------
(***************************************************************************)
(* Proofs about the separate-desktop back-end, for every set of connection *)
(* ids and every bound on the session's calls.                             *)
(***************************************************************************)
EXTENDS SeparateDesktop, TLAPS

USE ConstantsAssumption

\* The shell this back-end started runs exactly while the recorded pid is
\* its pid, and a pid is recorded only with AGENT_DESKTOP_INFO.  NoOrphanShell
\* alone is not inductive: a ShellExits or a destroy_agent_desktop step
\* needs to know that the counted shell is the recorded one.
ShellInv ==
    /\ shells = IF pidHolder = "shell" THEN 1 ELSE 0
    /\ info = "none" => pidHolder = "free"

\* Every handle switch_to_agent_desktop left open was opened by a call of
\* the session thread, and a turn_on between its two halves has made its
\* call without opening one yet.
HandleBound ==
    handles + (IF caller = "switching" THEN 1 ELSE 0) <= ops

Inv == TypeOK /\ ShellInv /\ HandleBound /\ OnMeansAgentDesktop

LEMMA InitInv == Init => Inv
BY DEF Init, Inv, TypeOK, ShellInv, HandleBound, OnMeansAgentDesktop

\* destroy_agent_desktop keeps the shell count and the recorded pid in step.
LEMMA DestroyKeepsShellInv ==
  ASSUME TypeOK, ShellInv, DestroyAgentDesktop
  PROVE  /\ ShellInv'
         /\ shells' \in Nat
         /\ pidHolder' \in {"shell", "free", "other"}
         /\ other' \in {"none", "alive", "killed"}
         /\ info' = "none"
BY DEF DestroyAgentDesktop, ShellInv, TypeOK

\* create_agent_desktop keeps the shell count and the recorded pid in step.
LEMMA CreateKeepsShellInv ==
  ASSUME TypeOK, ShellInv, NEW r \in CreateResults, CreateAgentDesktop(r)
  PROVE  /\ ShellInv'
         /\ shells' \in Nat
         /\ pidHolder' \in {"shell", "free", "other"}
         /\ other' \in {"none", "alive", "killed"}
         /\ info' \in {"none", "some"}
BY DEF CreateAgentDesktop, ShellInv, TypeOK, desktopVars

LEMMA StepInv == Inv /\ [Next]_vars => Inv'
<1> SUFFICES ASSUME Inv, [Next]_vars PROVE Inv'
  OBVIOUS
<1>1. ASSUME NEW c \in ConnIds, TurnOnCreate(c) PROVE Inv'
  <2>1. CASE connId # INVALID
    BY <1>1, <2>1 DEF TurnOnCreate, CallerStep, desktopVars, Inv, TypeOK,
                      ShellInv, HandleBound, OnMeansAgentDesktop
  <2>2. CASE connId = INVALID
    <3>1. PICK r \in CreateResults :
            /\ CreateAgentDesktop(r)
            /\ pending' = IF Created(r) THEN c ELSE INVALID
            /\ caller' = IF Created(r) THEN "switching" ELSE "idle"
      BY <1>1, <2>2 DEF TurnOnCreate
    <3>2. ShellInv' /\ shells' \in Nat /\ info' \in {"none", "some"}
          /\ pidHolder' \in {"shell", "free", "other"}
          /\ other' \in {"none", "alive", "killed"}
      BY <3>1, CreateKeepsShellInv DEF Inv
    <3>3. caller = "idle" /\ ops' = ops + 1 /\ ops < MaxOps
      BY <1>1 DEF TurnOnCreate, CallerStep
    <3>4. QED
      BY <1>1, <2>2, <3>1, <3>2, <3>3 DEF TurnOnCreate, Inv, TypeOK,
         HandleBound, OnMeansAgentDesktop
  <2>3. QED
    BY <2>1, <2>2
<1>2. CASE TurnOnSwitch
  BY <1>2 DEF TurnOnSwitch, SwitchToAgentDesktop, SwitchedToAgent, desktopVars, Inv, TypeOK, ShellInv, HandleBound,
              OnMeansAgentDesktop
<1>3. ASSUME NEW c \in ConnIds \cup {INVALID}, TurnOff(c) PROVE Inv'
  <2>1. CASE ~OffAllowed(c)
    BY <1>3, <2>1 DEF TurnOff, CallerStep, desktopVars, Inv, TypeOK,
                      ShellInv, HandleBound, OnMeansAgentDesktop
  <2>2. CASE OffAllowed(c)
    <3>1. DestroyAgentDesktop /\ connId' = INVALID
          /\ threadDesk' \in {"default", threadDesk}
      BY <1>3, <2>2 DEF TurnOff, SwitchToOriginalDesktop
    <3>2. ShellInv' /\ shells' \in Nat /\ info' = "none"
          /\ pidHolder' \in {"shell", "free", "other"}
          /\ other' \in {"none", "alive", "killed"}
      BY <3>1, DestroyKeepsShellInv DEF Inv
    <3>3. QED
      BY <1>3, <3>1, <3>2 DEF TurnOff, CallerStep, Inv, TypeOK, HandleBound,
                             OnMeansAgentDesktop
  <2>3. QED
    BY <2>1, <2>2
<1>4. CASE Drop \/ EmergencyCleanup
  <2>1. DestroyAgentDesktop
    BY <1>4 DEF Drop, EmergencyCleanup
  <2>2. ShellInv' /\ shells' \in Nat /\ info' = "none"
        /\ pidHolder' \in {"shell", "free", "other"}
        /\ other' \in {"none", "alive", "killed"}
    BY <2>1, DestroyKeepsShellInv DEF Inv
  <2>3. QED
    BY <1>4, <2>2 DEF Drop, EmergencyCleanup, CallerStep, Inv, TypeOK,
                      HandleBound, OnMeansAgentDesktop
<1>5. CASE ShellExits \/ PidReused
  BY <1>5 DEF ShellExits, PidReused, Inv, TypeOK, ShellInv, HandleBound,
              OnMeansAgentDesktop
<1>6. CASE Terminating \/ UNCHANGED vars
  BY <1>6 DEF Terminating, vars, Inv, TypeOK, ShellInv, HandleBound,
              OnMeansAgentDesktop
<1>7. QED
  BY <1>1, <1>2, <1>3, <1>4, <1>5, <1>6 DEF Next

\* Every variable of the separate-desktop model keeps its type; in
\* particular the count of leaked desktop handles stays within the number
\* of session calls.
THEOREM TypeCorrect == Spec => []TypeOK
<1>1. Inv => TypeOK
  BY DEF Inv
<1>2. QED
  BY InitInv, StepInv, <1>1, PTL DEF Spec

\* Whatever interleaving of turn_on_privacy, turn_off_privacy, Drop,
\* emergency_cleanup, the shell's own exit and the reuse of its pid, at
\* most one Explorer started by create_agent_desktop runs, and only while
\* AGENT_DESKTOP_INFO records it; and a connection holds privacy mode only
\* while the session thread is on the agent desktop.
THEOREM DesktopSafety == Spec => [](NoOrphanShell /\ OnMeansAgentDesktop)
<1>1. Inv => NoOrphanShell /\ OnMeansAgentDesktop
  BY DEF Inv, TypeOK, ShellInv, NoOrphanShell
<1>2. QED
  BY InitInv, StepInv, <1>1, PTL DEF Spec

\* The half of DesktopSafety about the desktop switch on its own: while a
\* connection holds privacy mode, the session thread is on the agent
\* desktop that turn_on_privacy switched it to.
THEOREM AgentDesktopWhileOn == Spec => []OnMeansAgentDesktop
BY DesktopSafety, PTL

=============================================================================
