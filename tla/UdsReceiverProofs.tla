-------------------------- MODULE UdsReceiverProofs --------------------------
(***************************************************************************)
(* Proofs about the UDS receive thread and its session controller          *)
(* (UdsReceiver), for every SID set, parameter set and Lua table: the type *)
(* invariant, with at most one reply per request, and that a non-default   *)
(* session has its timeout armed whenever the thread is between requests.  *)
(***************************************************************************)
EXTENDS UdsReceiver, TLAPS

\* The points of the receive thread at which no session switch is waiting
\* for its pSessionCtrl_->reset(): before the Lua lookup, and on the RDBI
\* and DSC paths that did not run a Lua function or start the timer yet.
SettledPcs == {"idle", "lookup", "rdbi_read1", "rdbi_read2", "rdbi_lookup",
               "dsc_set", "dsc_reply"}

\* The strengthening of SessionTimeoutArmed: it holds at every settled point.
ArmedInv == pc \in SettledPcs /\ session # DEFAULT => armed

\* Nothing is sent for a request before its single reply, and a request is
\* in hand whenever the thread is not idle.
ReplyInv ==
    /\ pc \notin {"idle", "rdbi_reset"} => out = <<>>
    /\ pc # "idle" => req \in Request

TypeInv == TypeOK /\ ReplyInv

-----------------------------------------------------------------------------
(* Type correctness.                                                       *)

\* What a Lua function leaves behind is a session.
LEMMA AfterLuaType ==
    ASSUME NEW entry \in LuaEntry, session \in Sessions
    PROVE  AfterLua(entry) \in Sessions
BY DEF AfterLua, LuaEntry, NoSwitch, Sessions

\* The table entries a request reaches are Lua entries.
LEMMA EntryTypes ==
    ASSUME UdsAssumption, NEW r \in Request, NEW s \in Sessions
    PROVE  /\ RawTable[<<r.sid, r.param>>] \in LuaEntry
           /\ RdbiTable[s][r.param] \in LuaEntry
BY DEF Request, RawEntry, RdbiEntry

LEMMA InitType == Init => TypeInv
<1>. SUFFICES ASSUME Init PROVE TypeInv
    OBVIOUS
<1>1. session \in Sessions /\ table \in Sessions
    BY DEF Init, Sessions
<1>2. out \in Seq(Reply) /\ Len(out) <= 1
    BY DEF Init
<1>3. req \in Request \cup {NoRequest}
    BY DEF Init
<1>. QED  BY <1>1, <1>2, <1>3 DEF Init, TypeInv, TypeOK, ReplyInv

LEMMA TypeStep ==
    ASSUME UdsAssumption, TypeInv, [Next]_vars
    PROVE  TypeInv'
<1>. USE DEF TypeInv, TypeOK, ReplyInv
<1>1. CASE \E r \in Request : Receive(r)
    BY <1>1 DEF Receive
<1>2. CASE proceedReceivedData
    <2>1. RawTable[<<req.sid, req.param>>] \in LuaEntry
        BY <1>2, EntryTypes DEF proceedReceivedData
    <2>2. req.sid \in 0..255
        BY <1>2, UdsAssumption DEF proceedReceivedData, Request
    <2>3. [kind |-> "nrc", sid |-> req.sid] \in Reply
        BY <2>2 DEF Reply
    <2>4. out = <<>> /\ pc = "lookup"
        BY <1>2 DEF proceedReceivedData
    <2>5. CASE RawTable[<<req.sid, req.param>>].result = "value"
        BY <1>2, <2>1, <2>4, <2>5, AfterLuaType DEF proceedReceivedData
    <2>6. CASE RawTable[<<req.sid, req.param>>].result # "value"
        <3>1. session' = session /\ UNCHANGED <<armed, req, table>>
            BY <1>2, <2>6 DEF proceedReceivedData
        <3>2. \/ pc' \in {"rdbi_read1", "dsc_set", "idle"} /\ out' = out
              \/ pc' = "idle" /\ out' = <<[kind |-> "nrc", sid |-> req.sid]>>
            BY <1>2, <2>4, <2>6 DEF proceedReceivedData
        <3>3. <<[kind |-> "nrc", sid |-> req.sid]>> \in Seq(Reply)
            BY <2>3
        <3>4. req \in Request /\ session \in Sessions /\ table \in Sessions
              /\ armed \in BOOLEAN
            BY <2>4
        <3>5. out' \in Seq(Reply) /\ Len(out') <= 1
            <4>1. CASE out' = out
                BY <4>1, <2>4
            <4>2. CASE out' = <<[kind |-> "nrc", sid |-> req.sid]>>
                BY <4>2, <3>3
            <4>. QED  BY <3>2, <4>1, <4>2
        <3>6. pc' \in {"idle", "rdbi_read1", "dsc_set"}
              /\ (pc' # "idle" => out' = <<>>)
            BY <3>2, <2>4
        <3>. QED  BY <3>1, <3>4, <3>5, <3>6
    <2>. QED  BY <2>5, <2>6
<1>3. CASE RawReply
    BY <1>3 DEF RawReply, reset, Reply
<1>4. CASE RdbiReadFirst
    BY <1>4 DEF RdbiReadFirst, Sessions, PROGRAMMING
<1>5. CASE RdbiReadSecond
    BY <1>5 DEF RdbiReadSecond, Sessions, EXTENDED, DEFAULT
<1>6. CASE readDataByIdentifier
    <2>1. RdbiTable[table][req.param] \in LuaEntry
        BY <1>6, EntryTypes DEF readDataByIdentifier
    <2>2. [kind |-> "nrc", sid |-> READ_DATA_BY_IDENTIFIER_REQ] \in Reply
          /\ [kind |-> "rdbi", did |-> req.param, table |-> table] \in Reply
        BY <1>6 DEF readDataByIdentifier, Reply, Request,
                    READ_DATA_BY_IDENTIFIER_REQ
    <2>. QED  BY <1>6, <2>1, <2>2, AfterLuaType DEF readDataByIdentifier
<1>7. CASE RdbiReset
    BY <1>7 DEF RdbiReset, reset
<1>8. CASE diagnosticSessionControl
    BY <1>8 DEF diagnosticSessionControl
<1>9. CASE DscStart
    BY <1>9 DEF DscStart
<1>10. CASE DscReply
    BY <1>10 DEF DscReply, Reply, Request
<1>11. CASE Expire
    BY <1>11 DEF Expire, Sessions, DEFAULT
<1>12. CASE UNCHANGED vars
    BY <1>12 DEF vars
<1>. QED  BY <1>1, <1>2, <1>3, <1>4, <1>5, <1>6, <1>7, <1>8, <1>9, <1>10,
             <1>11, <1>12 DEF Next

\* The receive thread keeps every variable in its type, and a request gets
\* at most one reply, whatever the Lua tables hold.
THEOREM TypeCorrect == Spec => []TypeOK
<1>1. Spec => []TypeInv
    BY InitType, TypeStep, UdsAssumption, PTL DEF Spec
<1>. QED  BY <1>1, PTL DEF TypeInv
-----------------------------------------------------------------------------
(* The session timeout is armed between requests.                          *)

LEMMA ArmedInit == Init => ArmedInv
BY DEF Init, ArmedInv

\* Every step keeps ArmedInv.  The steps that may leave a non-default
\* session unarmed (a Lua switch in proceedReceivedData or
\* readDataByIdentifier, DSC's set) lead to an unsettled point, and the
\* step out of each (RawReply, RdbiReset, DscStart) arms the timer.
LEMMA ArmedStep ==
    ASSUME ArmedInv, [Next]_vars
    PROVE  ArmedInv'
<1>. USE DEF ArmedInv, SettledPcs
<1>1. CASE \E r \in Request : Receive(r)
    BY <1>1 DEF Receive
<1>2. CASE proceedReceivedData
    <2>1. CASE RawTable[<<req.sid, req.param>>].result = "value"
        BY <1>2, <2>1 DEF proceedReceivedData
    <2>2. CASE RawTable[<<req.sid, req.param>>].result # "value"
        BY <1>2, <2>2 DEF proceedReceivedData
    <2>. QED  BY <2>1, <2>2
<1>3. CASE RawReply
    BY <1>3 DEF RawReply, reset
<1>4. CASE RdbiReadFirst
    BY <1>4 DEF RdbiReadFirst
<1>5. CASE RdbiReadSecond
    BY <1>5 DEF RdbiReadSecond
<1>6. CASE readDataByIdentifier
    BY <1>6 DEF readDataByIdentifier
<1>7. CASE RdbiReset
    BY <1>7 DEF RdbiReset, reset
<1>8. CASE diagnosticSessionControl
    <2>1. CASE req.param \in {PROGRAMMING, EXTENDED}
        BY <1>8, <2>1 DEF diagnosticSessionControl
    <2>2. CASE req.param \in Sessions \ {PROGRAMMING, EXTENDED}
        <3>1. req.param = DEFAULT
            BY <2>2 DEF Sessions
        <3>. QED  BY <1>8, <2>2, <3>1 DEF diagnosticSessionControl
    <2>3. CASE req.param \notin Sessions
        BY <1>8, <2>3 DEF diagnosticSessionControl, Sessions
    <2>. QED  BY <2>1, <2>2, <2>3 DEF Sessions
<1>9. CASE DscStart
    BY <1>9 DEF DscStart
<1>10. CASE DscReply
    BY <1>10 DEF DscReply
<1>11. CASE Expire
    BY <1>11 DEF Expire
<1>12. CASE UNCHANGED vars
    BY <1>12 DEF vars
<1>. QED  BY <1>1, <1>2, <1>3, <1>4, <1>5, <1>6, <1>7, <1>8, <1>9, <1>10,
             <1>11, <1>12 DEF Next

\* Between two requests a Programming or Extended session always has its
\* timeout running, for every Lua table: every path of proceedReceivedData
\* that may run a switchToSession ends in pSessionCtrl_->reset(), and
\* diagnosticSessionControl starts the timer.
THEOREM SessionTimeoutArmedHolds == Spec => []SessionTimeoutArmed
<1>1. Spec => []ArmedInv
    BY ArmedInit, ArmedStep, PTL DEF Spec
<1>2. ArmedInv => SessionTimeoutArmed
    BY DEF ArmedInv, SettledPcs, SessionTimeoutArmed
<1>. QED  BY <1>1, <1>2, PTL
-----------------------------------------------------------------------------
(* The receive thread implements SessionTimeout under armedBar.            *)

\* The initial state is the abstract one: Default with no timer.
LEMMA RefineInit == Init => Timeout!Init
BY DEF Init, Timeout!Init, armedBar, PendingReset

\* One case per action.  A step that moves to a pending point with a new
\* session is the abstract switch; the reset or start that follows it is a
\* stutter, or a Start when the timer expired meanwhile; a Lua function that
\* switches nothing is a stutter because ArmedInv holds at the lookup.
LEMMA RefineStep ==
    ASSUME UdsAssumption, TypeInv, ArmedInv, [Next]_vars
    PROVE  [Timeout!Next]_<<session, armedBar>>
<1>. USE DEF Timeout!Next, Timeout!Switch, Timeout!Start, Timeout!Expire,
             armedBar, PendingReset
<1>1. CASE \E r \in Request : Receive(r)
    BY <1>1 DEF Receive
<1>2. CASE proceedReceivedData
    <2>. DEFINE entry == RawTable[<<req.sid, req.param>>]
    <2>0. pc = "lookup" /\ req \in Request
        BY <1>2 DEF proceedReceivedData, TypeInv, ReplyInv
    <2>1. entry \in LuaEntry /\ pc = "lookup"
        BY <2>0, UdsAssumption DEF Request, RawEntry
    <2>2. CASE entry.result = "value" /\ entry.switchTo = NoSwitch
        <3>1. session' = session /\ pc' = "raw_send" /\ armed' = armed
            BY <1>2, <2>2 DEF proceedReceivedData, AfterLua
        <3>2. session # DEFAULT => armed
            BY <2>1 DEF ArmedInv, SettledPcs
        <3>. QED  BY <2>1, <3>1, <3>2
    <2>3. CASE entry.result = "value" /\ entry.switchTo # NoSwitch
        <3>1. session' = entry.switchTo /\ entry.switchTo \in Sessions
            BY <1>2, <2>1, <2>3 DEF proceedReceivedData, AfterLua, LuaEntry
        <3>2. pc' = "raw_send" /\ armed' = armed
            BY <1>2, <2>3 DEF proceedReceivedData
        <3>. QED  BY <2>1, <3>1, <3>2
    <2>4. CASE entry.result # "value"
        <3>1. session' = session /\ armed' = armed
              /\ pc' \in {"rdbi_read1", "dsc_set", "idle"}
            BY <1>2, <2>4 DEF proceedReceivedData
        <3>. QED  BY <2>1, <3>1
    <2>. QED  BY <2>2, <2>3, <2>4
<1>3. CASE RawReply
    BY <1>3 DEF RawReply, reset
<1>4. CASE RdbiReadFirst
    BY <1>4 DEF RdbiReadFirst
<1>5. CASE RdbiReadSecond
    BY <1>5 DEF RdbiReadSecond
<1>6. CASE readDataByIdentifier
    <2>1. RdbiTable[table][req.param] \in LuaEntry /\ pc = "rdbi_lookup"
        BY <1>6, EntryTypes DEF readDataByIdentifier, TypeInv, TypeOK, ReplyInv
    <2>2. session' \in Sessions /\ pc' = "rdbi_reset" /\ armed' = armed
        BY <1>6, <2>1, AfterLuaType DEF readDataByIdentifier, TypeInv, TypeOK
    <2>. QED  BY <2>1, <2>2 DEF ArmedInv, SettledPcs
<1>7. CASE RdbiReset
    BY <1>7 DEF RdbiReset, reset
<1>8. CASE diagnosticSessionControl
    <2>1. pc = "dsc_set" /\ armed' = armed
        BY <1>8 DEF diagnosticSessionControl
    <2>2. CASE req.param \in {PROGRAMMING, EXTENDED}
        <3>1. session' = req.param /\ pc' = "dsc_start"
            BY <1>8, <2>2 DEF diagnosticSessionControl, Sessions
        <3>. QED  BY <2>1, <2>2, <3>1 DEF Sessions
    <2>3. CASE req.param = DEFAULT
        <3>1. session' = DEFAULT /\ pc' = "dsc_reply"
            BY <1>8, <2>3 DEF diagnosticSessionControl, Sessions, DEFAULT,
                              PROGRAMMING, EXTENDED
        <3>. QED  BY <2>1, <3>1 DEF Sessions
    <2>4. CASE req.param \notin Sessions
        <3>1. session' = session /\ pc' = "dsc_reply"
            BY <1>8, <2>4 DEF diagnosticSessionControl, Sessions
        <3>. QED  BY <2>1, <3>1
    <2>. QED  BY <2>2, <2>3, <2>4 DEF Sessions
<1>9. CASE DscStart
    BY <1>9 DEF DscStart
<1>10. CASE DscReply
    BY <1>10 DEF DscReply
<1>11. CASE Expire
    BY <1>11 DEF Expire
<1>12. CASE UNCHANGED vars
    BY <1>12 DEF vars
<1>. QED  BY <1>1, <1>2, <1>3, <1>4, <1>5, <1>6, <1>7, <1>8, <1>9, <1>10,
             <1>11, <1>12 DEF Next

\* The receive thread and the timer implement the abstract session
\* controller for every SID set and Lua table: no step of
\* proceedReceivedData, of its handlers or of the timer changes the session
\* or disarms the timeout except as a switch, a start or an expiry does.
THEOREM SessionTimeoutRefinedHolds == Spec => SessionTimeoutRefined
<1>1. Spec => [](TypeInv /\ ArmedInv)
    BY InitType, TypeStep, ArmedInit, ArmedStep, UdsAssumption, PTL DEF Spec
<1>2. TypeInv /\ ArmedInv /\ [Next]_vars => [Timeout!Next]_<<session, armedBar>>
    BY RefineStep, UdsAssumption
<1>. QED  BY <1>1, <1>2, RefineInit, PTL
              DEF Spec, SessionTimeoutRefined, Timeout!Spec
=============================================================================
