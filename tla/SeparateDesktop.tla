--------------------------- MODULE SeparateDesktop ---------------------------
(***************************************************************************)
(* The separate-desktop privacy-mode back-end of                           *)
(* src/src/privacy_mode/win_separate_desktop.rs.                            *)
(*                                                                         *)
(* turn_on_privacy creates the "CloudyDeskAgent" desktop with an Explorer  *)
(* shell on it (create_agent_desktop) and moves the calling thread onto it *)
(* (switch_to_agent_desktop); turn_off_privacy moves the thread back to    *)
(* "Default" and destroys the desktop (destroy_agent_desktop), which kills *)
(* the shell by the process id recorded in AGENT_DESKTOP_INFO.  Drop,      *)
(* init_cleanup and emergency_cleanup (on any thread) also destroy it.     *)
(*                                                                         *)
(* The OS side is abstracted to what the code depends on: the number of    *)
(* shells this process started that still run, the owner of the recorded  *)
(* pid (the shell; nobody, once it has exited; another process, once the   *)
(* OS has reused the id), the handles to the agent desktop this process    *)
(* still holds, and the desktop the session thread is attached to.  A      *)
(* desktop object lives while a process or thread uses it or a handle to   *)
(* it is open.                                                             *)
(***************************************************************************)
EXTENDS Integers

CONSTANTS
    ConnIds,                  \* connection ids the session layer assigns
    MaxOps,                   \* bound on the session thread's calls
    EmergencyCleanupCalled    \* some thread may call emergency_cleanup

INVALID == -1

ASSUME ConstantsAssumption ==
    /\ ConnIds \subseteq Int
    /\ INVALID \notin ConnIds
    /\ MaxOps \in Nat
    /\ EmergencyCleanupCalled \in BOOLEAN

\* Outcomes of create_agent_desktop's CreateDesktopW and CreateProcessW.
CreateResults == {"ok", "desktopFails", "shellFails"}

VARIABLES
    info,         \* AGENT_DESKTOP_INFO: "none" | "some"
    shells,       \* Explorer processes this process started, still running
    pidHolder,    \* the recorded pid belongs to "shell" | "free" | "other"
    other,        \* an unrelated process: "none" | "alive" | "killed"
    handles,      \* open handles to the agent desktop held by this process
    threadDesk,   \* the session thread's desktop: "default" | "agent"
    connId,       \* self.conn_id
    pending,      \* conn_id of a turn_on between create and switch
    caller,       \* session thread: "idle" | "switching"
    ops           \* calls made by the session thread

vars == << info, shells, pidHolder, other, handles, threadDesk, connId,
           pending, caller, ops >>

desktopVars == << info, shells, pidHolder, other >>

\* The agent desktop object exists.
AgentDesktopExists == shells > 0 \/ threadDesk = "agent" \/ handles > 0

Init ==
    /\ info = "none"
    /\ shells = 0
    /\ pidHolder = "free"
    /\ other = "none"
    /\ handles = 0
    /\ threadDesk = "default"
    /\ connId = INVALID
    /\ pending = INVALID
    /\ caller = "idle"
    /\ ops = 0

-----------------------------------------------------------------------------
(* The module's functions.                                                 *)

\* Mutant: create_agent_desktop without its is_some early return.
CreateAgentDesktopUnguarded(r) ==
    IF r # "ok"
    THEN UNCHANGED desktopVars
    ELSE /\ info' = "some"
         /\ shells' = shells + 1
         /\ pidHolder' = "shell"
         /\ UNCHANGED other

\* create_agent_desktop: nothing to do when a desktop is recorded; else
\* CreateDesktopW, then CreateProcessW(explorer.exe) on it; a failure of
\* either closes the new desktop and returns the error; on success the pid
\* is recorded and the process and desktop handles are closed.
CreateAgentDesktop(r) ==
    IF info = "some" \/ r # "ok"
    THEN UNCHANGED desktopVars
    ELSE /\ info' = "some"
         /\ shells' = shells + 1
         /\ pidHolder' = "shell"
         /\ UNCHANGED other

\* The process create_agent_desktop's CreateDesktopW call reported.
Created(r) == info = "some" \/ r = "ok"

\* destroy_agent_desktop: take the recorded info; OpenProcess(pid) and
\* TerminateProcess whatever process now has that id; open and close the
\* desktop by name.
DestroyAgentDesktop ==
    /\ info' = "none"
    /\ IF info = "some" /\ pidHolder = "shell"
       THEN shells' = shells - 1 ELSE UNCHANGED shells
    /\ IF info = "some" /\ pidHolder = "other"
       THEN other' = "killed" ELSE UNCHANGED other
    /\ pidHolder' = IF info = "some" THEN "free" ELSE pidHolder

-----------------------------------------------------------------------------
(* The session thread.                                                     *)

CallerStep ==
    /\ caller = "idle"
    /\ ops < MaxOps
    /\ ops' = ops + 1

\* turn_on_privacy, first part: check_on_conn_id returns early when the
\* instance is on; otherwise create_agent_desktop()?.
TurnOnCreate(c) ==
    /\ CallerStep
    /\ \/ /\ connId # INVALID
          /\ UNCHANGED << desktopVars, pending, caller >>
       \/ /\ connId = INVALID
          /\ \E r \in CreateResults :
                /\ CreateAgentDesktop(r)
                /\ pending' = IF Created(r) THEN c ELSE INVALID
                /\ caller' = IF Created(r) THEN "switching" ELSE "idle"
    /\ UNCHANGED << handles, threadDesk, connId >>

\* Whether switch_to_agent_desktop succeeds, SetThreadDesktop's result
\* being ok: it fails when no desktop is recorded (another thread destroyed
\* it) or OpenDesktopW finds none.
SwitchedToAgent(ok) == info = "some" /\ AgentDesktopExists /\ ok

\* switch_to_agent_desktop: a failed SetThreadDesktop closes the handle; on
\* success the handle stays open ("Don't close desktop").
SwitchToAgentDesktop(ok) ==
    IF SwitchedToAgent(ok)
    THEN /\ handles' = handles + 1
         /\ threadDesk' = "agent"
    ELSE UNCHANGED << handles, threadDesk >>

\* Mutant: turn_on records the connection although SetThreadDesktop failed.
TurnOnSwitchIgnoresFailure ==
    /\ caller = "switching"
    /\ \E ok \in BOOLEAN : SwitchToAgentDesktop(ok)
    /\ connId' = pending
    /\ pending' = INVALID
    /\ caller' = "idle"
    /\ UNCHANGED << desktopVars, ops >>

\* turn_on_privacy, second part: switch_to_agent_desktop()? returns the
\* error with nothing recorded; on success the connection is recorded.
TurnOnSwitch ==
    /\ caller = "switching"
    /\ \E ok \in BOOLEAN :
         /\ SwitchToAgentDesktop(ok)
         /\ connId' = IF SwitchedToAgent(ok) THEN pending ELSE connId
    /\ pending' = INVALID
    /\ caller' = "idle"
    /\ UNCHANGED << desktopVars, ops >>

OffAllowed(c) == connId = INVALID \/ c = INVALID \/ connId = c

\* switch_to_original_desktop: OpenDesktopW("Default") and SetThreadDesktop,
\* either of which may fail; the agent desktop's handle is not closed.
SwitchToOriginalDesktop ==
    \E ok \in BOOLEAN : threadDesk' = IF ok THEN "default" ELSE threadDesk

\* turn_off_privacy: switch_to_original_desktop (an error is only logged),
\* destroy_agent_desktop, forget the connection.
TurnOff(c) ==
    /\ CallerStep
    /\ \/ /\ ~OffAllowed(c)
          /\ UNCHANGED << desktopVars, threadDesk, connId >>
       \/ /\ OffAllowed(c)
          /\ SwitchToOriginalDesktop
          /\ DestroyAgentDesktop
          /\ connId' = INVALID
    /\ UNCHANGED << handles, pending, caller >>

\* Drop: destroy_agent_desktop; the registry's next instance has no
\* connection.  The thread is not moved back.
Drop ==
    /\ CallerStep
    /\ DestroyAgentDesktop
    /\ connId' = INVALID
    /\ UNCHANGED << handles, threadDesk, pending, caller >>

-----------------------------------------------------------------------------
(* Other threads and the OS.                                               *)

\* emergency_cleanup (or init_cleanup, or the panic hook) on another thread.
EmergencyCleanup ==
    /\ EmergencyCleanupCalled
    /\ info = "some"
    /\ DestroyAgentDesktop
    /\ UNCHANGED << handles, threadDesk, connId, pending, caller, ops >>

\* The recorded Explorer process exits by itself.
ShellExits ==
    /\ pidHolder = "shell"
    /\ shells' = shells - 1
    /\ pidHolder' = "free"
    /\ UNCHANGED << info, other, handles, threadDesk, connId, pending,
                    caller, ops >>

\* The OS gives the freed pid to an unrelated new process.
PidReused ==
    /\ info = "some"
    /\ pidHolder = "free"
    /\ other = "none"
    /\ pidHolder' = "other"
    /\ other' = "alive"
    /\ UNCHANGED << info, shells, handles, threadDesk, connId, pending,
                    caller, ops >>

Terminating ==
    /\ caller = "idle"
    /\ ops = MaxOps
    /\ UNCHANGED vars

Next ==
    \/ \E c \in ConnIds : TurnOnCreate(c)
    \/ TurnOnSwitch
    \/ \E c \in ConnIds \cup {INVALID} : TurnOff(c)
    \/ Drop
    \/ EmergencyCleanup
    \/ ShellExits
    \/ PidReused
    \/ Terminating

Spec == Init /\ [][Next]_vars

-----------------------------------------------------------------------------
(* Properties.                                                             *)

\* Every variable holds a value of its type.
TypeOK ==
    /\ info \in {"none", "some"}
    /\ shells \in Nat
    /\ pidHolder \in {"shell", "free", "other"}
    /\ other \in {"none", "alive", "killed"}
    /\ handles \in 0..MaxOps
    /\ threadDesk \in {"default", "agent"}
    /\ connId \in ConnIds \cup {INVALID}
    /\ pending \in ConnIds \cup {INVALID}
    /\ caller \in {"idle", "switching"}
    /\ ops \in 0..MaxOps

\* No Explorer this back-end started is ever out of its reach: at most one
\* runs, and only while AGENT_DESKTOP_INFO records its pid, so the next
\* destroy_agent_desktop (turn_off, Drop or a cleanup) ends it.
NoOrphanShell ==
    shells <= IF info = "some" /\ pidHolder = "shell" THEN 1 ELSE 0

\* Spec section 8 (separate desktop): while a connection holds privacy
\* mode, the session thread is attached to the agent desktop.
OnMeansAgentDesktop ==
    connId # INVALID => threadDesk = "agent"

\* destroy_agent_desktop terminates only the shell it started, never an
\* unrelated process that happens to hold the recorded pid.
NoForeignProcessKilled ==
    other # "killed"

=============================================================================
