----------------------------- MODULE UdsReceiver -----------------------------
(***************************************************************************)
(* The UDS receive thread of one ECU (uds_receiver.cpp, part_004) together *)
(* with the session-timeout controller it drives and the timer thread that *)
(* expires the session.                                                    *)
(*                                                                         *)
(* A request is abstracted to its service id and its first parameter byte *)
(* (the sub-function or the DID).  The Raw pattern tree is abstracted to   *)
(* the constant RawTable, giving for each request what getRawResponse      *)
(* returns (PatternTree models how).  A Raw or ReadDataByIdentifier value  *)
(* may be a Lua function; the only effect of one that this module keeps is *)
(* a call to switchToSession, which the function makes under the script    *)
(* lock before the handler goes on.                                        *)
(*                                                                         *)
(* The SessionController is not part of the sources; its operations are   *)
(* modelled from the specification (section 5, "Cancellation and          *)
(* timeouts"): start arms the timeout, reset re-arms it in a non-default   *)
(* session, and expiry, on the timer's own thread, returns to Default.     *)
(***************************************************************************)
EXTENDS Naturals, Sequences

CONSTANTS
    SIDs,          \* service ids the tester may send
    Params,        \* values of the second request byte
    RawTable,      \* [SIDs \X Params -> RawEntry]
    RdbiTable      \* [Sessions -> [Params -> RdbiEntry]]

\* UdsSession values as the code numbers them (switchToSession(0x01) = DEFAULT).
DEFAULT == 1
PROGRAMMING == 2
EXTENDED == 3
Sessions == {DEFAULT, PROGRAMMING, EXTENDED}

\* service_identifier.h
READ_DATA_BY_IDENTIFIER_REQ == 34     \* 0x22
DIAGNOSTIC_SESSION_CONTROL_REQ == 16  \* 0x10
SECURITY_ACCESS_REQ == 39             \* 0x27

\* What a lookup in a Lua table yields: nothing or a value; a value may be
\* a function that calls switchToSession before returning its result.
NoSwitch == 0
LuaEntry == [result : {"none", "value"}, switchTo : Sessions \cup {NoSwitch}]
RawEntry == LuaEntry
RdbiEntry == LuaEntry

ASSUME UdsAssumption ==
    /\ SIDs \subseteq 0..255 /\ Params \subseteq 0..255
    /\ RawTable \in [SIDs \X Params -> RawEntry]
    /\ RdbiTable \in [Sessions -> [Params -> RdbiEntry]]

Request == [sid : SIDs, param : Params]
NoRequest == [sid |-> 0, param |-> 0]

\* The messages the receive thread hands to the IsoTpSender.
Reply == [kind : {"raw"}]
           \cup [kind : {"rdbi"}, did : Params, table : Sessions]
           \cup [kind : {"dsc"}, sub : Params]
           \cup [kind : {"nrc"}, sid : 0..255]

VARIABLES
    session,   \* SessionController current UDS session
    armed,     \* the session timeout is running
    pc,        \* where the receive thread is in proceedReceivedData
    req,       \* the request being handled
    table,     \* the session table readDataByIdentifier chose
    out        \* replies sent for req

vars == <<session, armed, pc, req, table, out>>

Init ==
    /\ session = DEFAULT
    /\ armed = FALSE
    /\ pc = "idle"
    /\ req = NoRequest
    /\ table = DEFAULT
    /\ out = <<>>

\* The session a Lua function leaves behind (EcuLuaScript::switchToSession).
AfterLua(entry) ==
    IF entry.switchTo = NoSwitch THEN session ELSE entry.switchTo

\* SessionController::reset, as the specification describes it.
reset == armed' = (armed \/ session' # DEFAULT)

\* IsoTpReceiver hands a complete request to proceedReceivedData.
Receive(r) ==
    /\ pc = "idle"
    /\ req' = r
    /\ out' = <<>>
    /\ pc' = "lookup"
    /\ UNCHANGED <<session, armed, table>>

\* getRawResponse under the script lock; on a miss, the switch on the SID.
\* The 0x27 case is commented out in the code and sends nothing.
proceedReceivedData ==
    /\ pc = "lookup"
    /\ LET entry == RawTable[<<req.sid, req.param>>] IN
       IF entry.result = "value"
       THEN /\ session' = AfterLua(entry)
            /\ pc' = "raw_send"
            /\ UNCHANGED out
       ELSE /\ session' = session
            /\ CASE req.sid = READ_DATA_BY_IDENTIFIER_REQ ->
                      pc' = "rdbi_read1" /\ UNCHANGED out
                 [] req.sid = DIAGNOSTIC_SESSION_CONTROL_REQ ->
                      pc' = "dsc_set" /\ UNCHANGED out
                 [] req.sid = SECURITY_ACCESS_REQ ->
                      pc' = "idle" /\ UNCHANGED out
                 [] OTHER ->
                      /\ out' = Append(out, [kind |-> "nrc", sid |-> req.sid])
                      /\ pc' = "idle"
    /\ UNCHANGED <<armed, req, table>>

\* Send the literal Raw response, then pSessionCtrl_->reset().
RawReply ==
    /\ pc = "raw_send"
    /\ out' = Append(out, [kind |-> "raw"])
    /\ session' = session
    /\ reset
    /\ pc' = "idle"
    /\ UNCHANGED <<req, table>>

\* readDataByIdentifier reads the session twice: first for PROGRAMMING ...
RdbiReadFirst ==
    /\ pc = "rdbi_read1"
    /\ IF session = PROGRAMMING
       THEN table' = PROGRAMMING /\ pc' = "rdbi_lookup"
       ELSE pc' = "rdbi_read2" /\ UNCHANGED table
    /\ UNCHANGED <<session, armed, req, out>>

\* ... then again for EXTENDED, defaulting otherwise.
RdbiReadSecond ==
    /\ pc = "rdbi_read2"
    /\ table' = IF session = EXTENDED THEN EXTENDED ELSE DEFAULT
    /\ pc' = "rdbi_lookup"
    /\ UNCHANGED <<session, armed, req, out>>

RdbiReplyNoElse ==
    /\ pc = "rdbi_lookup"
    /\ LET entry == RdbiTable[table][req.param] IN
       /\ session' = AfterLua(entry)
       /\ out' = IF entry.result = "none"
                 THEN Append(out, [kind |-> "nrc", sid |-> READ_DATA_BY_IDENTIFIER_REQ])
                 ELSE out \o << [kind |-> "rdbi", did |-> req.param, table |-> table],
                                [kind |-> "nrc", sid |-> READ_DATA_BY_IDENTIFIER_REQ] >>
    /\ pc' = "rdbi_reset"
    /\ UNCHANGED <<armed, req, table>>

\* getDataByIdentifier on the chosen table, the reply, then (back in
\* proceedReceivedData) pSessionCtrl_->reset().
readDataByIdentifier ==
    /\ pc = "rdbi_lookup"
    /\ LET entry == RdbiTable[table][req.param] IN
       /\ session' = AfterLua(entry)
       /\ out' = Append(out,
                   IF entry.result = "none"
                   THEN [kind |-> "nrc", sid |-> READ_DATA_BY_IDENTIFIER_REQ]
                   ELSE [kind |-> "rdbi", did |-> req.param, table |-> table])
    /\ pc' = "rdbi_reset"
    /\ UNCHANGED <<armed, req, table>>

RdbiResetDropped ==
    /\ pc = "rdbi_reset"
    /\ pc' = "idle"
    /\ UNCHANGED <<session, armed, req, table, out>>

RdbiReset ==
    /\ pc = "rdbi_reset"
    /\ session' = session
    /\ reset
    /\ pc' = "idle"
    /\ UNCHANGED <<req, table, out>>

\* diagnosticSessionControl: set the session; PROGRAMMING and EXTENDED
\* then start the timeout; an unknown id changes nothing.
diagnosticSessionControl ==
    /\ pc = "dsc_set"
    /\ IF req.param \in Sessions
       THEN session' = req.param
       ELSE session' = session
    /\ pc' = IF req.param \in {PROGRAMMING, EXTENDED} THEN "dsc_start"
                                                     ELSE "dsc_reply"
    /\ UNCHANGED <<armed, req, table, out>>

DscStart ==
    /\ pc = "dsc_start"
    /\ armed' = TRUE
    /\ pc' = "dsc_reply"
    /\ UNCHANGED <<session, req, table, out>>

\* The positive response [0x50, sessionId], whatever the id was.
DscReply ==
    /\ pc = "dsc_reply"
    /\ out' = Append(out, [kind |-> "dsc", sub |-> req.param])
    /\ pc' = "idle"
    /\ UNCHANGED <<session, armed, req, table>>

\* The SessionController's timer thread: the timeout fires.
Expire ==
    /\ armed
    /\ session' = DEFAULT
    /\ armed' = FALSE
    /\ UNCHANGED <<pc, req, table, out>>

Next ==
    \/ \E r \in Request : Receive(r)
    \/ proceedReceivedData
    \/ RawReply
    \/ RdbiReadFirst
    \/ RdbiReadSecond
    \/ readDataByIdentifier
    \/ RdbiReset
    \/ diagnosticSessionControl
    \/ DscStart
    \/ DscReply
    \/ Expire

Spec == Init /\ [][Next]_vars

\* The steps of the receive thread between two requests.  The thread runs
\* them without waiting on anything, and the SessionController's timer
\* thread fires once armed, so both are weakly fair.  The tester (Receive)
\* owes nothing.
ReceiveThread ==
    \/ proceedReceivedData \/ RawReply \/ RdbiReadFirst \/ RdbiReadSecond
    \/ readDataByIdentifier \/ RdbiReset \/ diagnosticSessionControl
    \/ DscStart \/ DscReply

FairSpec == Spec /\ WF_vars(ReceiveThread) /\ WF_vars(Expire)

-----------------------------------------------------------------------------
(* The refinement of SessionTimeout.  At the points where a reset or a     *)
(* start is still due (after a Lua switch, and between DSC's set and its   *)
(* start), the abstract timeout counts as armed in a non-default session:   *)
(* the abstract spec switches and re-arms in one step.                     *)

PendingReset == {"raw_send", "rdbi_reset", "dsc_start"}

armedBar == armed \/ (pc \in PendingReset /\ session # DEFAULT)

Timeout == INSTANCE SessionTimeout WITH Session <- Sessions, Default <- DEFAULT,
                                        armed <- armedBar

-----------------------------------------------------------------------------
TypeOK ==
    /\ session \in Sessions
    /\ armed \in BOOLEAN
    /\ pc \in {"idle", "lookup", "raw_send", "rdbi_read1", "rdbi_read2",
               "rdbi_lookup", "rdbi_reset", "dsc_set", "dsc_start", "dsc_reply"}
    /\ req \in Request \cup {NoRequest}
    /\ table \in Sessions
    /\ out \in Seq(Reply) /\ Len(out) <= 1

\* Between two requests, a Programming or Extended session always has its
\* timeout running, so it cannot outlive the tester: every path of
\* proceedReceivedData that may run a Lua function (which can call
\* switchToSession) ends in pSessionCtrl_->reset(), and DSC starts the timer.
SessionTimeoutArmed ==
    pc = "idle" /\ session # DEFAULT => armed

\* UdsReceiver implements SessionTimeout: every step of the receive thread or
\* the timer is a switch, a start, an expiry of the abstract controller, or
\* leaves it unchanged.  In particular no step disarms a non-default
\* session other than the timeout itself.
SessionTimeoutRefined == Timeout!Spec

\* Every session other than Default ends: a session a Lua function or DSC
\* switched to is handed to the timer, which returns the ECU to Default.
SessionEventuallyExpires == session # DEFAULT ~> session = DEFAULT

\* Every request the receive thread finishes has been answered exactly once
\* (spec 4.4: SecurityAccess gets the 4.7 handshake, other SIDs an NRC).
OneReplyPerRequest ==
    pc = "idle" /\ req # NoRequest => Len(out) = 1

\* The positive DSC response [0x50, s] for a known session s is sent while
\* the ECU is in session s.
DscReplyMatchesSession ==
    pc = "dsc_reply" /\ req.param \in Sessions => session = req.param
=============================================================================
