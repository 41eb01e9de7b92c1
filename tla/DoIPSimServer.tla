---------------------------- MODULE DoIPSimServer ----------------------------
(***************************************************************************)
(* The DoIP front of the simulator: main() starting one start_server       *)
(* thread per configuration file and the DoIP server when it meets        *)
(* doipserver.lua (main.cpp), DoIPSimServer with its UDP and TCP listener  *)
(* threads and the diagnostic callbacks (doip_sim_server.cpp),             *)
(* DoIPSimulator::proceedDoIPData (part_003), and the SIGINT handler's     *)
(* DoIP teardown.                                                          *)
(*                                                                         *)
(* The DoIP library (DoIPServer, DoIPConnection) is not part of the        *)
(* sources.  From the specification (4.5) it is taken that a diagnostic    *)
(* message on the connection first calls the notification callback, and   *)
(* calls the data callback only when that returned true; a connection ends *)
(* when the tester closes it, when it times out, or when it is triggered   *)
(* to disconnect.  The Raw pattern tree of an ECU is abstracted to the     *)
(* constant RawResponse (PatternTree models how it is searched).           *)
(***************************************************************************)
EXTENDS Naturals, Sequences

CONSTANTS
    Configs,      \* the configuration files in the order main() meets them
    Addrs,        \* DoIP logical addresses a tester may target
    NoEcu,        \* the address field of a file without DoIPLogicalEcuAddress
    Requests,     \* diagnostic requests, abstracted
    RawResponse,  \* [EcuIds -> [Requests -> RawResult]]
    MaxConns,     \* bound on the TCP connections accepted
    MaxMsgs,      \* bound on the diagnostic messages received
    DoipFiles     \* the contents doipserver.lua may have

ConfigIds == DOMAIN Configs

\* The files that give a DoIPSimulator (DoIPSimulator::hasSimulation).
EcuIds == {i \in ConfigIds : Configs[i].addr \in Addrs}

\* What getRawResponse and literalHexStrToBytes give for a request: no
\* match, a non-empty byte string, or the empty string.
RawResult == {"none", "bytes", "empty"}

\* The keys of the Main table that DoipConfigurationFile reads besides EID
\* and GID (doip_configuration_file.h); a file gives each or leaves it out.
MainKeys == {"VIN", "LOGICAL_ADDRESS", "FURTHER_ACTION", "ANNOUNCE_NUM",
             "ANNOUNCE_INTERVAL", "T_TCP_General_Inactivity"}

\* What the EID and GID strings may hold: nothing, decimal digits, a hex
\* number written with 0x, or text that starts with no digit.
NumText == {"", "digits", "0x-hex", "junk"}

\* doipserver.lua as the constructor sees it: whether the file exists,
\* whether it has a Main table, the keys it gives, its EID and GID strings.
DoipFile == [exists : BOOLEAN, main : BOOLEAN, keys : SUBSET MainKeys,
             eid : NumText, gid : NumText]

ASSUME DoIPAssumption ==
    /\ Configs \in Seq([server : BOOLEAN, addr : Addrs \cup {NoEcu}])
    /\ NoEcu \notin Addrs
    /\ Addrs # {} /\ Requests # {}
    /\ \A i, j \in ConfigIds : Configs[i].server /\ Configs[j].server => i = j
    /\ RawResponse \in [EcuIds -> [Requests -> RawResult]]
    /\ MaxConns \in Nat /\ MaxMsgs \in Nat
    /\ DoipFiles \subseteq DoipFile /\ DoipFiles # {}

\* std::stoull: the number the leading decimal digits spell, so "0x.." reads
\* as 0; a string with no leading digit throws invalid_argument.
StoullThrows(t) == t = "junk"
stoull(t) == IF t = "digits" THEN "file" ELSE "zero"

\* A Main value read from the file, or the constructor's default.
FromFile(f, key) == IF key \in f.keys THEN "file" ELSE "default"

\* DoipConfigurationFile(luaScript) throws without the file or its Main
\* table, and when stoull throws on EID or GID.
ConfigThrows(f) ==
    ~f.exists \/ ~f.main \/ StoullThrows(f.eid) \/ StoullThrows(f.gid)

\* The object the constructor builds when it does not throw.  eid stays
\* unset when EID is empty (EIDflag); T_TCP_General_Inactivity is assigned
\* to a local Selector, so the member generalInactivity is never set.
DoipConfigurationFile(f) ==
    [vin |-> FromFile(f, "VIN"), la |-> FromFile(f, "LOGICAL_ADDRESS"),
     eid |-> IF f.eid = "" THEN "unset" ELSE stoull(f.eid),
     EIDflag |-> f.eid = "",
     gid |-> IF f.gid = "" THEN "zero" ELSE stoull(f.gid),
     far |-> FromFile(f, "FURTHER_ACTION"),
     num |-> FromFile(f, "ANNOUNCE_NUM"),
     interval |-> FromFile(f, "ANNOUNCE_INTERVAL"),
     generalInactivity |-> "unset"]

\* configureDoipServer: what the DoIP server is given to announce; with
\* EIDflag the library's default EID (setEIDdefault) instead of eid.
configureDoipServer(c) ==
    [vin |-> c.vin, la |-> c.la,
     eid |-> IF c.EIDflag THEN "default" ELSE c.eid,
     gid |-> c.gid, far |-> c.far, num |-> c.num, interval |-> c.interval]

Identity ==
    [vin : {"file", "default"}, la : {"file", "default"},
     eid : {"file", "zero", "default"}, gid : {"file", "zero"},
     far : {"file", "default"}, num : {"file", "default"},
     interval : {"file", "default"}]
NoIdentity == [vin |-> "none", la |-> "none", eid |-> "none", gid |-> "none",
              far |-> "none", num |-> "none", interval |-> "none"]

\* What the server puts on a DoIP connection: a positive (0x00) or negative
\* (0x03) diagnostic message ACK, or a diagnostic payload from an ECU.
Event == [kind : {"ack", "nack", "raw", "nrc"}, addr : Addrs,
          ecu : EcuIds \cup {0}, req : Requests]

VARIABLES
    mpc,           \* main(): spawning, joining, waiting on isServerActive
    nextCfg,       \* the next configuration file main() handles
    spc,           \* the start_server thread of each file
    ecus,          \* DoIPSimServer::ecus, as indices of their files
    serverActive,  \* DoIPSimServer::serverActive
    listening,     \* the server's TCP socket is open
    udpPc,         \* the listenUdp thread
    tcpPc,         \* the listenTcp thread
    conn,          \* doipConnection: none, active or closed
    msg,           \* the diagnostic message the TCP thread handles
    conns,         \* connections accepted so far
    msgs,          \* diagnostic messages received so far
    wire,          \* every ACK and payload the server sent
    hpc,           \* the SIGINT handler
    deleted,       \* the handler deleted the DoIPSimulators
    usedDeleted,   \* a deleted DoIPSimulator was called
    exitStatus,    \* how the process ended
    identity       \* what configureDoipServer gave the DoIP server

vars == <<mpc, nextCfg, spc, ecus, serverActive, listening, udpPc, tcpPc,
          conn, msg, conns, msgs, wire, hpc, deleted, usedDeleted, exitStatus,
          identity>>

Init ==
    /\ mpc = IF Configs = <<>> THEN "join" ELSE "spawn"
    /\ nextCfg = 1
    /\ spc = [i \in ConfigIds |-> "none"]
    /\ ecus = <<>>
    /\ serverActive = FALSE
    /\ listening = FALSE
    /\ udpPc = "none"
    /\ tcpPc = "none"
    /\ conn = "none"
    /\ msg = [addr |-> CHOOSE a \in Addrs : TRUE,
              req |-> CHOOSE r \in Requests : TRUE]
    /\ conns = 0
    /\ msgs = 0
    /\ wire = <<>>
    /\ hpc = "none"
    /\ deleted = FALSE
    /\ usedDeleted = FALSE
    /\ exitStatus = "running"
    /\ identity = NoIdentity

findECUNoBreak(a) ==
    IF \E j \in 1..Len(ecus) : Configs[ecus[j]].addr = a
    THEN CHOOSE j \in 1..Len(ecus) :
            /\ Configs[ecus[j]].addr = a
            /\ \A k \in (j + 1)..Len(ecus) : Configs[ecus[k]].addr # a
    ELSE 0

\* findECU: the position of the first ECU with the address, 0 for -1.
findECU(a) ==
    IF \E j \in 1..Len(ecus) : Configs[ecus[j]].addr = a
    THEN CHOOSE j \in 1..Len(ecus) :
            /\ Configs[ecus[j]].addr = a
            /\ \A k \in 1..(j - 1) : Configs[ecus[k]].addr # a
    ELSE 0

\* proceedDoIPData of ECU e for request r: the Raw response, or the
\* negative response [0x7F, sid, 0x11]; the empty string gives no bytes.
proceedDoIPData(e, r) ==
    CASE RawResponse[e][r] = "bytes" -> <<[kind |-> "raw", addr |-> Configs[e].addr,
                                           ecu |-> e, req |-> r]>>
      [] RawResponse[e][r] = "none"  -> <<[kind |-> "nrc", addr |-> Configs[e].addr,
                                           ecu |-> e, req |-> r]>>
      [] OTHER                       -> <<>>

\* sendDiagnosticResponse: the payload goes out on doipConnection.
sendDiagnosticResponse(resp) == wire' = wire \o resp

\* startWithConfig: parse doipserver.lua, configureDoipServer, then
\* serverActive and the UDP and TCP listener threads; the closing vehicle
\* announcement only sends UDP datagrams.
startWithConfig(f) ==
    /\ identity' = configureDoipServer(DoipConfigurationFile(f))
    /\ serverActive' = TRUE
    /\ udpPc' = "loop"
    /\ tcpPc' = "setup"

\* addECU: push_back on the ECU list.
addECU(i) == ecus' = Append(ecus, i)

\* The whole process stops at exit(); its threads take no further step.
Running == exitStatus = "running"

\* main() starts the start_server thread of file i and moves on.
SpawnThread(i) ==
    /\ spc' = [spc EXCEPT ![i] = "run"]
    /\ nextCfg' = i + 1
    /\ mpc' = IF i = Len(Configs) THEN "join" ELSE "spawn"

\* main(): a file other than doipserver.lua gets its thread.
StartThread ==
    /\ mpc = "spawn"
    /\ ~Configs[nextCfg].server
    /\ SpawnThread(nextCfg)
    /\ UNCHANGED <<ecus, serverActive, listening, udpPc, tcpPc, conn, msg,
                   conns, msgs, wire, hpc, deleted, usedDeleted, exitStatus,
                   identity>>

\* doipserver.lua: startWithConfig, then its start_server thread.
StartDoipServer(f) ==
    /\ mpc = "spawn"
    /\ Configs[nextCfg].server
    /\ ~ConfigThrows(f)
    /\ startWithConfig(f)
    /\ SpawnThread(nextCfg)
    /\ UNCHANGED <<ecus, listening, conn, msg, conns, msgs, wire, hpc,
                   deleted, usedDeleted, exitStatus>>

\* The constructor's invalid_argument leaves main() uncaught: std::terminate
\* ends the process with the start_server threads already running.
ConfigAbort(f) ==
    /\ mpc = "spawn"
    /\ Configs[nextCfg].server
    /\ ConfigThrows(f)
    /\ exitStatus' = "abort"
    /\ UNCHANGED <<mpc, nextCfg, spc, ecus, serverActive, listening, udpPc,
                   tcpPc, conn, msg, conns, msgs, wire, hpc, deleted,
                   usedDeleted, identity>>

StartServerAddsAll(i) ==
    /\ spc[i] = "run"
    /\ addECU(i)
    /\ spc' = [spc EXCEPT ![i] = "done"]
    /\ UNCHANGED <<mpc, nextCfg, serverActive, listening, udpPc, tcpPc, conn,
                   msg, conns, msgs, wire, hpc, deleted, usedDeleted, exitStatus, identity>>

\* start_server, DoIP part: a file with a DoIP logical address gives a
\* DoIPSimulator that addECU appends to the server's list.
start_server(i) ==
    /\ spc[i] = "run"
    /\ IF i \in EcuIds THEN addECU(i) ELSE UNCHANGED ecus
    /\ spc' = [spc EXCEPT ![i] = "done"]
    /\ UNCHANGED <<mpc, nextCfg, serverActive, listening, udpPc, tcpPc, conn,
                   msg, conns, msgs, wire, hpc, deleted, usedDeleted, exitStatus, identity>>

\* main() joins the start_server threads ...
JoinThreads ==
    /\ mpc = "join"
    /\ \A i \in ConfigIds : spc[i] = "done"
    /\ mpc' = "wait"
    /\ UNCHANGED <<nextCfg, spc, ecus, serverActive, listening, udpPc, tcpPc,
                   conn, msg, conns, msgs, wire, hpc, deleted, usedDeleted,
                   exitStatus, identity>>

\* ... then polls isServerActive and returns 0.  Returning runs the static
\* destructors: ~DoIPSimServer leaves the listener threads in doipReceiver
\* joinable, and destroying a joinable std::thread calls std::terminate.
MainReturn ==
    /\ mpc = "wait"
    /\ ~serverActive
    /\ mpc' = "returned"
    /\ exitStatus' = IF udpPc # "none" THEN "abort" ELSE "exit 0"
    /\ UNCHANGED <<nextCfg, spc, ecus, serverActive, listening, udpPc, tcpPc,
                   conn, msg, conns, msgs, wire, hpc, deleted, usedDeleted, identity>>

\* listenUdp: receiveUdpMessage until serverActive is false.
listenUdp ==
    /\ udpPc = "loop"
    /\ ~serverActive
    /\ udpPc' = "done"
    /\ UNCHANGED <<mpc, nextCfg, spc, ecus, serverActive, listening, tcpPc,
                   conn, msg, conns, msgs, wire, hpc, deleted, usedDeleted,
                   exitStatus, identity>>

\* listenTcp: setupTcpSocket, then the accept loop.
SetupTcpSocket ==
    /\ tcpPc = "setup"
    /\ listening' = TRUE
    /\ tcpPc' = "loop"
    /\ UNCHANGED <<mpc, nextCfg, spc, ecus, serverActive, udpPc, conn, msg,
                   conns, msgs, wire, hpc, deleted, usedDeleted, exitStatus, identity>>

\* The head of the outer loop: while(serverActive).
TcpLoop ==
    /\ tcpPc = "loop"
    /\ tcpPc' = IF serverActive THEN "accept" ELSE "done"
    /\ UNCHANGED <<mpc, nextCfg, spc, ecus, serverActive, listening, udpPc,
                   conn, msg, conns, msgs, wire, hpc, deleted, usedDeleted,
                   exitStatus, identity>>

\* waitForTcpConnection returns the tester's connection, which replaces
\* doipConnection, ...
waitForTcpConnection ==
    /\ tcpPc = "accept"
    /\ listening
    /\ conns < MaxConns
    /\ conn' = "active"
    /\ conns' = conns + 1
    /\ tcpPc' = "recv"
    /\ UNCHANGED <<mpc, nextCfg, spc, ecus, serverActive, listening, udpPc,
                   msg, msgs, wire, hpc, deleted, usedDeleted, exitStatus, identity>>

\* ... or, once shutdown closed the socket, a connection that is not active.
AcceptFails ==
    /\ tcpPc = "accept"
    /\ ~listening
    /\ conn' = "closed"
    /\ tcpPc' = "recv"
    /\ UNCHANGED <<mpc, nextCfg, spc, ecus, serverActive, listening, udpPc,
                   msg, conns, msgs, wire, hpc, deleted, usedDeleted, exitStatus, identity>>

\* receiveTcpMessage gets a diagnostic message for target a and the library
\* calls diagnosticMessageReceived: findECU, then a positive ACK (0x00) or
\* a negative one (0x03, unknown target address).  findECU calls
\* getLogicalEcuAddress on every DoIPSimulator it passes.
diagnosticMessageReceived(a, r) ==
    /\ tcpPc = "recv"
    /\ conn = "active"
    /\ msgs < MaxMsgs
    /\ msgs' = msgs + 1
    /\ msg' = [addr |-> a, req |-> r]
    /\ usedDeleted' = (usedDeleted \/ (deleted /\ ecus # <<>>))
    /\ IF findECU(a) = 0
       THEN /\ wire' = Append(wire, [kind |-> "nack", addr |-> a, ecu |-> 0, req |-> r])
            /\ tcpPc' = "recv"
       ELSE /\ wire' = Append(wire, [kind |-> "ack", addr |-> a, ecu |-> 0, req |-> r])
            /\ tcpPc' = "data"
    /\ UNCHANGED <<mpc, nextCfg, spc, ecus, serverActive, listening, udpPc,
                   conn, conns, hpc, deleted, exitStatus, identity>>

receiveFromLibraryIndexOffByOne ==
    /\ tcpPc = "data"
    /\ LET index == findECU(msg.addr) IN
       IF index > 1
       THEN /\ sendDiagnosticResponse(proceedDoIPData(ecus[index], msg.req))
            /\ usedDeleted' = (usedDeleted \/ deleted)
       ELSE UNCHANGED <<wire, usedDeleted, identity>>
    /\ tcpPc' = "recv"
    /\ UNCHANGED <<mpc, nextCfg, spc, ecus, serverActive, listening, udpPc,
                   conn, msg, conns, msgs, hpc, deleted, exitStatus, identity>>

\* After a positive ACK the library hands the payload to receiveFromLibrary:
\* findECU again, proceedDoIPData on that ECU, and sendDiagnosticResponse
\* with the ECU's logical address when the response is not empty.
receiveFromLibrary ==
    /\ tcpPc = "data"
    /\ LET index == findECU(msg.addr) IN
       IF index # 0
       THEN /\ sendDiagnosticResponse(proceedDoIPData(ecus[index], msg.req))
            /\ usedDeleted' = (usedDeleted \/ deleted)
       ELSE UNCHANGED <<wire, usedDeleted, identity>>
    /\ tcpPc' = "recv"
    /\ UNCHANGED <<mpc, nextCfg, spc, ecus, serverActive, listening, udpPc,
                   conn, msg, conns, msgs, hpc, deleted, exitStatus, identity>>

\* The tester closes the connection, or the library's inactivity timer does.
CloseConnection ==
    /\ conn = "active"
    /\ conn' = "closed"
    /\ UNCHANGED <<mpc, nextCfg, spc, ecus, serverActive, listening, udpPc,
                   tcpPc, msg, conns, msgs, wire, hpc, deleted, usedDeleted,
                   exitStatus, identity>>

\* isSocketActive is false: back to the head of the outer loop.
ConnectionEnds ==
    /\ tcpPc = "recv"
    /\ conn = "closed"
    /\ tcpPc' = "loop"
    /\ UNCHANGED <<mpc, nextCfg, spc, ecus, serverActive, listening, udpPc,
                   conn, msg, conns, msgs, wire, hpc, deleted, usedDeleted,
                   exitStatus, identity>>

\* SIGINT: signalHandler stops the UDS and J1939 simulators (modelled in
\* J1939Simulator), then doipSimServer.shutdown(): serverActive false,
\* triggerDisconnection on a connection if there is one, close both sockets.
shutdown ==
    /\ hpc = "none"
    /\ serverActive' = FALSE
    /\ conn' = IF conn = "active" THEN "closed" ELSE conn
    /\ listening' = FALSE
    /\ hpc' = "delete"
    /\ UNCHANGED <<mpc, nextCfg, spc, ecus, udpPc, tcpPc, msg, conns, msgs,
                   wire, deleted, usedDeleted, exitStatus, identity>>

\* The handler deletes every DoIPSimulator; the server keeps the pointers.
DeleteSimulators ==
    /\ hpc = "delete"
    /\ deleted' = TRUE
    /\ hpc' = "exit"
    /\ UNCHANGED <<mpc, nextCfg, spc, ecus, serverActive, listening, udpPc,
                   tcpPc, conn, msg, conns, msgs, wire, usedDeleted, exitStatus, identity>>

\* exit(1) runs the static destructors, as returning from main() does.
ExitOne ==
    /\ hpc = "exit"
    /\ exitStatus' = IF udpPc # "none" THEN "abort" ELSE "exit 1"
    /\ hpc' = "done"
    /\ UNCHANGED <<mpc, nextCfg, spc, ecus, serverActive, listening, udpPc,
                   tcpPc, conn, msg, conns, msgs, wire, deleted, usedDeleted, identity>>

\* The process has ended.
Exited ==
    /\ ~Running
    /\ UNCHANGED vars

Next ==
    \/ /\ Running
       /\ \/ StartThread
          \/ \E f \in DoipFiles : StartDoipServer(f) \/ ConfigAbort(f)
          \/ \E i \in ConfigIds : start_server(i)
          \/ JoinThreads
          \/ MainReturn
          \/ listenUdp
          \/ SetupTcpSocket
          \/ TcpLoop
          \/ waitForTcpConnection
          \/ AcceptFails
          \/ \E a \in Addrs, r \in Requests : diagnosticMessageReceived(a, r)
          \/ receiveFromLibrary
          \/ CloseConnection
          \/ ConnectionEnds
          \/ shutdown
          \/ DeleteSimulators
          \/ ExitOne
    \/ Exited

Spec == Init /\ [][Next]_vars

-----------------------------------------------------------------------------
(* The refinement mapping to DoIPExchange: while the TCP thread is in      *)
(* receiveFromLibrary, the payload it is about to send already counts as   *)
(* sent, so the ACK step of diagnosticMessageReceived is the whole abstract *)
(* exchange and receiveFromLibrary a stutter.                              *)
wireBar ==
    IF tcpPc = "data"
    THEN wire \o proceedDoIPData(ecus[findECU(msg.addr)], msg.req)
    ELSE wire

Exchange == INSTANCE DoIPExchange WITH wire <- wireBar

-----------------------------------------------------------------------------
TypeOK ==
    /\ mpc \in {"spawn", "join", "wait", "returned"}
    /\ nextCfg \in 1..(Len(Configs) + 1)
    /\ spc \in [ConfigIds -> {"none", "run", "done"}]
    /\ ecus \in Seq(EcuIds)
    /\ serverActive \in BOOLEAN /\ listening \in BOOLEAN
    /\ udpPc \in {"none", "loop", "done"}
    /\ tcpPc \in {"none", "setup", "loop", "accept", "recv", "data", "done"}
    /\ conn \in {"none", "active", "closed"}
    /\ msg \in [addr : Addrs, req : Requests]
    /\ conns \in 0..MaxConns /\ msgs \in 0..MaxMsgs
    /\ wire \in Seq(Event)
    /\ hpc \in {"none", "delete", "exit", "done"}
    /\ deleted \in BOOLEAN /\ usedDeleted \in BOOLEAN
    /\ exitStatus \in {"running", "exit 0", "exit 1", "abort"}
    /\ identity \in Identity \cup {NoIdentity}

IsPayload(e) == e.kind \in {"raw", "nrc"}

\* Every diagnostic payload the server sends answers the message whose
\* positive ACK it follows, and comes from the DoIPSimulator that was
\* registered first (by the racing start_server threads) with the target
\* address: findECU's first-match loop in receiveFromLibrary, against
\* addECU appending later ECUs, possibly with the same address.
ResponseFromFirstEcu ==
    \A k \in 1..Len(wire) : IsPayload(wire[k]) =>
        /\ k > 1
        /\ wire[k - 1].kind = "ack"
        /\ wire[k - 1].addr = wire[k].addr /\ wire[k - 1].req = wire[k].req
        /\ findECU(wire[k].addr) # 0
        /\ wire[k].ecu = ecus[findECU(wire[k].addr)]

\* Once a DoIPSimulator answers a logical address, that same simulator
\* answers it in every later state: the start_server threads that are
\* still registering ECUs (addECU) never take an address over from the
\* ECU findECU already finds for it.
EcuOfAddressKept ==
    \A a \in Addrs : findECU(a) # 0 =>
        /\ findECU(a)' = findECU(a)
        /\ ecus'[findECU(a)'] = ecus[findECU(a)]
RoutingStable == [][EcuOfAddressKept]_vars

\* The two callbacks implement the atomic exchange of DoIPExchange: what
\* diagnosticMessageReceived acknowledges and what receiveFromLibrary then
\* sends is one abstract answer from the first ECU with the address, though
\* start_server threads register ECUs between the two findECU calls.  This
\* is Exchange!Spec, with the stuttering disjunct of its box written first,
\* which TLC then tries before the abstract actions.
ExchangeRefined ==
    /\ Exchange!Init
    /\ [][UNCHANGED <<wireBar, ecus>> \/ Exchange!Next]_<<wireBar, ecus>>

\* A positively acknowledged message is answered by the next thing sent,
\* unless the ECU's Raw response is the empty string or the TCP thread is
\* still in receiveFromLibrary: diagnosticMessageReceived and
\* receiveFromLibrary must agree on whether the target ECU exists.
AckedMessageAnswered ==
    \A k \in 1..Len(wire) :
        /\ wire[k].kind = "ack"
        /\ ~(k = Len(wire) /\ tcpPc = "data")
        => \/ /\ k < Len(wire)
              /\ IsPayload(wire[k + 1])
              /\ wire[k + 1].addr = wire[k].addr
              /\ wire[k + 1].req = wire[k].req
           \/ /\ findECU(wire[k].addr) # 0
              /\ RawResponse[ecus[findECU(wire[k].addr)]][wire[k].req] = "empty"

=============================================================================
