---------------------------- MODULE SessionTimeout ----------------------------
(***************************************************************************)
(* What the UDS session handling promises (spec sections 4.4 and 5), as    *)
(* one abstract state machine: the ECU's session and whether its timeout   *)
(* is running.  A request may move the ECU to any session; in Programming  *)
(* or Extended the timeout is (re)started together with the switch; DSC    *)
(* may start the timeout in any session; the timeout returns the ECU to    *)
(* Default.  UdsReceiver implements it under a refinement mapping.         *)
(***************************************************************************)
CONSTANTS
    Session,   \* the UDS sessions
    Default    \* the session the ECU starts in and falls back to

VARIABLES session, armed

Init ==
    /\ session = Default
    /\ armed = FALSE

\* A request handler switches the session; a non-default session has its
\* timeout running from that step on.
Switch(s) ==
    /\ session' = s
    /\ armed' = (armed \/ s # Default)

\* DiagnosticSessionControl starts the timeout.
Start ==
    /\ armed' = TRUE
    /\ UNCHANGED session

\* The timeout fires.
Expire ==
    /\ armed
    /\ session' = Default
    /\ armed' = FALSE

Next == (\E s \in Session : Switch(s)) \/ Start \/ Expire

Spec == Init /\ [][Next]_<<session, armed>>
=============================================================================
