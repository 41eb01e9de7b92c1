------------------------- MODULE DoIPSimServerProofs -------------------------
(***************************************************************************)
(* Proofs about the DoIP front (DoIPSimServer) for every list of           *)
(* configuration files, every address and request set, every Raw table     *)
(* and every set of doipserver.lua contents: type correctness, which rests *)
(* on findECU returning the first ECU with the address; the wire          *)
(* invariants and the routing action property; and the refinement of the  *)
(* abstract exchange DoIPExchange.                                         *)
(***************************************************************************)
EXTENDS DoIPSimServer, WellFoundedInduction, SequenceTheorems, TLAPS

\* main() handles a file only while one is left.
SpawnInv == mpc = "spawn" => nextCfg \in ConfigIds

\* TypeOK in four parts, the threads' program counters, the counters of
\* connections and messages, what the connection carries, and the server's
\* identity, so that each part of a step is proved on its own.
TypeControl ==
    /\ mpc \in {"spawn", "join", "wait", "returned"}
    /\ nextCfg \in 1..(Len(Configs) + 1)
    /\ spc \in [ConfigIds -> {"none", "run", "done"}]
    /\ ecus \in Seq(EcuIds)
    /\ serverActive \in BOOLEAN /\ listening \in BOOLEAN
    /\ udpPc \in {"none", "loop", "done"}
    /\ tcpPc \in {"none", "setup", "loop", "accept", "recv", "data", "done"}
    /\ conn \in {"none", "active", "closed"}
    /\ SpawnInv

TypeCount == conns \in 0..MaxConns /\ msgs \in 0..MaxMsgs

TypeWire ==
    /\ msg \in [addr : Addrs, req : Requests]
    /\ wire \in Seq(Event)
    /\ hpc \in {"none", "delete", "exit", "done"}
    /\ deleted \in BOOLEAN /\ usedDeleted \in BOOLEAN
    /\ exitStatus \in {"running", "exit 0", "exit 1", "abort"}

TypeIdentity == identity \in Identity \cup {NoIdentity}

TypeInv == TypeControl /\ TypeCount /\ TypeWire /\ TypeIdentity

\* Every positive ACK on the wire was sent for an address some ECU has.
AcksFound ==
    \A k \in 1..Len(wire) : wire[k].kind = "ack" => findECU(wire[k].addr) # 0

\* While the TCP thread is in receiveFromLibrary, the last thing sent is
\* the positive ACK of the message in hand.
DataAfterAck ==
    tcpPc = "data" =>
        /\ wire # <<>>
        /\ wire[Len(wire)].kind = "ack"
        /\ wire[Len(wire)].addr = msg.addr
        /\ wire[Len(wire)].req = msg.req

\* The inductive invariant behind ResponseFromFirstEcu.
WireInv == AcksFound /\ DataAfterAck /\ ResponseFromFirstEcu

\* The listener threads run only once main() has passed doipserver.lua, so
\* startWithConfig runs at most once.
ServerOnce == tcpPc # "none" => \E j \in 1..(nextCfg - 1) : Configs[j].server

\* The inductive invariant behind AckedMessageAnswered.
AckInv == TypeInv /\ WireInv /\ ServerOnce /\ AckedMessageAnswered

-----------------------------------------------------------------------------
(* Lemmas about the operators.                                             *)

\* A non-empty set of naturals has a least element, since < is
\* well-founded on Nat.
LEMMA NatLeast ==
    ASSUME NEW S, S \subseteq Nat, S # {}
    PROVE  \E x \in S : \A y \in S : ~(y < x)
<1>1. PICK x \in S : \A y \in S : ~(<<y, x>> \in OpToRel(<, Nat))
    BY NatLessThanWellFounded, WFMin, Zenon
<1>2. \A y \in S : y < x => <<y, x>> \in OpToRel(<, Nat)
    BY Zenon DEF OpToRel
<1>. QED  BY <1>1, <1>2, Zenon

\* findECU's loop with break: the first position whose ECU has the address,
\* and 0 when no ECU has it.
LEMMA FindECUFirst ==
    ASSUME DoIPAssumption, ecus \in Seq(EcuIds), NEW a
    PROVE  /\ findECU(a) \in 0..Len(ecus)
           /\ findECU(a) # 0 => Configs[ecus[findECU(a)]].addr = a
           /\ findECU(a) # 0 =>
                \A k \in 1..(findECU(a) - 1) : Configs[ecus[k]].addr # a
           /\ findECU(a) = 0 <=>
                ~\E j \in 1..Len(ecus) : Configs[ecus[j]].addr = a
<1>1. CASE \E j \in 1..Len(ecus) : Configs[ecus[j]].addr = a
    <2>1. PICK x \in {j \in 1..Len(ecus) : Configs[ecus[j]].addr = a} :
            \A y \in {j \in 1..Len(ecus) : Configs[ecus[j]].addr = a} : ~(y < x)
        <3>1. {j \in 1..Len(ecus) : Configs[ecus[j]].addr = a} \subseteq Nat
            OBVIOUS
        <3>2. {j \in 1..Len(ecus) : Configs[ecus[j]].addr = a} # {}
            BY <1>1
        <3>. QED  BY <3>1, <3>2, NatLeast, ZenonT(60)
    <2>2. \E j \in 1..Len(ecus) :
            /\ Configs[ecus[j]].addr = a
            /\ \A k \in 1..(j - 1) : Configs[ecus[k]].addr # a
        BY <2>1
    <2>3. /\ findECU(a) \in 1..Len(ecus)
          /\ Configs[ecus[findECU(a)]].addr = a
          /\ \A k \in 1..(findECU(a) - 1) : Configs[ecus[k]].addr # a
        BY <1>1, <2>2, Zenon DEF findECU
    <2>. QED  BY <1>1, <2>3
<1>2. CASE ~\E j \in 1..Len(ecus) : Configs[ecus[j]].addr = a
    BY <1>2 DEF findECU
<1>. QED  BY <1>1, <1>2

\* addECU appends behind the ECUs findECU already passes: an address that
\* had a first ECU keeps it, so a start_server thread that registers a
\* later ECU with the same address never changes whom a message goes to.
LEMMA FindECUAppend ==
    ASSUME DoIPAssumption, ecus \in Seq(EcuIds), NEW i \in EcuIds,
           ecus' = Append(ecus, i), NEW a, findECU(a) # 0
    PROVE  findECU(a)' = findECU(a)
<1>0. /\ findECU(a) \in 0..Len(ecus)
      /\ findECU(a) # 0 => Configs[ecus[findECU(a)]].addr = a
      /\ findECU(a) # 0 =>
            \A k \in 1..(findECU(a) - 1) : Configs[ecus[k]].addr # a
    BY FindECUFirst
<1>1. PICK j \in 1..Len(ecus) :
        /\ j = findECU(a)
        /\ Configs[ecus[j]].addr = a
        /\ \A k \in 1..(j - 1) : Configs[ecus[k]].addr # a
    BY <1>0
<1>2. /\ Len(ecus') = Len(ecus) + 1
      /\ \A k \in 1..Len(ecus) : ecus'[k] = ecus[k]
    BY AppendProperties
<1>3. \A jj \in 1..Len(ecus') :
        (/\ Configs[ecus'[jj]].addr = a
         /\ \A k \in 1..(jj - 1) : Configs[ecus'[k]].addr # a) <=> jj = j
    BY <1>1, <1>2
<1>4. \E jj \in 1..Len(ecus') : Configs[ecus'[jj]].addr = a
    BY <1>1, <1>2
<1>5. findECU(a)' =
        CHOOSE jj \in 1..Len(ecus') :
            /\ Configs[ecus'[jj]].addr = a
            /\ \A k \in 1..(jj - 1) : Configs[ecus'[k]].addr # a
    BY <1>4, Zenon DEF findECU
<1>6. (CHOOSE jj \in 1..Len(ecus') :
            /\ Configs[ecus'[jj]].addr = a
            /\ \A k \in 1..(jj - 1) : Configs[ecus'[k]].addr # a) = j
    <2>1. j \in 1..Len(ecus')
        BY <1>2
    <2>. QED  BY <1>3, <2>1, Zenon
<1>. QED  BY <1>1, <1>5, <1>6

\* What proceedDoIPData sends is at most one event from the ECU itself.
LEMMA ProceedType ==
    ASSUME DoIPAssumption, NEW e \in EcuIds, NEW r \in Requests
    PROVE  proceedDoIPData(e, r) \in Seq(Event)
<1>1. Configs[e].addr \in Addrs
    BY DEF EcuIds
<1>2. RawResponse[e][r] \in RawResult
    OBVIOUS
<1>3. /\ [kind |-> "raw", addr |-> Configs[e].addr, ecu |-> e, req |-> r] \in Event
      /\ [kind |-> "nrc", addr |-> Configs[e].addr, ecu |-> e, req |-> r] \in Event
    BY <1>1 DEF Event
<1>. QED  BY <1>2, <1>3 DEF proceedDoIPData, RawResult

\* A configuration that did not throw gives the server a typed identity:
\* eid is read only when EIDflag is false, that is when EID was given.
LEMMA IdentityType ==
    ASSUME NEW f \in DoipFile
    PROVE  configureDoipServer(DoipConfigurationFile(f)) \in Identity
BY DEF configureDoipServer, DoipConfigurationFile, FromFile, stoull,
       Identity, DoipFile

-----------------------------------------------------------------------------
(* Type correctness.                                                       *)

\* TypeOK is exactly the four parts.
LEMMA TypeSplit == TypeInv => TypeOK
BY Zenon DEF TypeInv, TypeControl, TypeCount, TypeWire, TypeIdentity, TypeOK

LEMMA InitType == DoIPAssumption /\ Init => TypeInv
<1>. SUFFICES ASSUME DoIPAssumption, Init PROVE TypeInv
    OBVIOUS
<1>1. /\ Configs \in Seq([server : BOOLEAN, addr : Addrs \cup {NoEcu}])
      /\ ConfigIds = 1..Len(Configs)
    BY DEF ConfigIds
<1>2. TypeControl
    <2>1. Len(Configs) \in Nat
        BY <1>1
    <2>2. nextCfg \in 1..(Len(Configs) + 1)
        BY <2>1 DEF Init
    <2>3. spc \in [ConfigIds -> {"none", "run", "done"}] /\ ecus \in Seq(EcuIds)
        BY DEF Init
    <2>4. SpawnInv
        <3>1. CASE Configs = <<>>
            BY <3>1 DEF Init, SpawnInv
        <3>2. CASE Configs # <<>>
            BY <1>1, <3>2 DEF Init, SpawnInv
        <3>. QED  BY <3>1, <3>2
    <2>5. mpc \in {"spawn", "join", "wait", "returned"}
        BY DEF Init
    <2>. QED  BY <2>2, <2>3, <2>4, <2>5, Zenon DEF Init, TypeControl
<1>3. TypeCount
    BY DEF Init, TypeCount
<1>4. TypeWire
    <2>1. msg \in [addr : Addrs, req : Requests]
        BY DEF Init
    <2>2. wire \in Seq(Event)
        BY DEF Init
    <2>. QED  BY <2>1, <2>2, Zenon DEF Init, TypeWire
<1>5. TypeIdentity
    BY Zenon DEF Init, TypeIdentity
<1>. QED  BY <1>2, <1>3, <1>4, <1>5 DEF TypeInv

\* The control part: one case per action; the actions of main() keep
\* SpawnInv because the last file moves main() to the join.
LEMMA StepControl ==
    ASSUME DoIPAssumption, TypeInv, [Next]_vars
    PROVE  TypeControl'
<1>. TypeControl
    BY DEF TypeInv
<1>. USE DEF TypeControl, SpawnInv
<1>0. ConfigIds = 1..Len(Configs)
    BY DEF ConfigIds
<1>1. CASE StartThread
    BY <1>0, <1>1 DEF StartThread, SpawnThread
<1>2. CASE \E f \in DoipFiles : StartDoipServer(f)
    BY <1>0, <1>2 DEF StartDoipServer, startWithConfig, SpawnThread
<1>3. CASE \E f \in DoipFiles : ConfigAbort(f)
    BY <1>3 DEF ConfigAbort
<1>4. CASE \E i \in ConfigIds : start_server(i)
    <2>1. PICK i \in ConfigIds : start_server(i)
        BY <1>4
    <2>2. spc' \in [ConfigIds -> {"none", "run", "done"}]
        BY <2>1 DEF start_server
    <2>3. ecus' \in Seq(EcuIds)
        <3>1. CASE i \in EcuIds
            <4>1. Append(ecus, i) \in Seq(EcuIds)
                BY <3>1
            <4>. QED  BY <2>1, <3>1, <4>1 DEF start_server, addECU
        <3>2. CASE i \notin EcuIds
            BY <2>1, <3>2 DEF start_server
        <3>. QED  BY <3>1, <3>2
    <2>. QED  BY <2>1, <2>2, <2>3 DEF start_server
<1>5. CASE JoinThreads
    BY <1>5 DEF JoinThreads
<1>6. CASE MainReturn
    BY <1>6 DEF MainReturn
<1>7. CASE listenUdp
    BY <1>7 DEF listenUdp
<1>8. CASE SetupTcpSocket
    BY <1>8 DEF SetupTcpSocket
<1>9. CASE TcpLoop
    BY <1>9 DEF TcpLoop
<1>10. CASE waitForTcpConnection
    BY <1>10 DEF waitForTcpConnection
<1>11. CASE AcceptFails
    BY <1>11 DEF AcceptFails
<1>12. CASE \E a \in Addrs, r \in Requests : diagnosticMessageReceived(a, r)
    BY <1>12 DEF diagnosticMessageReceived
<1>13. CASE receiveFromLibrary
    BY <1>13 DEF receiveFromLibrary
<1>14. CASE CloseConnection
    BY <1>14 DEF CloseConnection
<1>15. CASE ConnectionEnds
    BY <1>15 DEF ConnectionEnds
<1>16. CASE shutdown
    BY <1>16 DEF shutdown
<1>17. CASE DeleteSimulators
    BY <1>17 DEF DeleteSimulators
<1>18. CASE ExitOne
    BY <1>18 DEF ExitOne
<1>19. CASE Exited \/ UNCHANGED vars
    BY <1>19 DEF Exited, vars
<1>. QED  BY <1>1, <1>2, <1>3, <1>4, <1>5, <1>6, <1>7, <1>8, <1>9, <1>10,
             <1>11, <1>12, <1>13, <1>14, <1>15, <1>16, <1>17, <1>18, <1>19
          DEF Next

\* The counters: an accepted connection and a received message are counted
\* only below their bounds; every other step leaves both alone.
LEMMA StepCount ==
    ASSUME DoIPAssumption, TypeInv, [Next]_vars
    PROVE  TypeCount'
<1>. TypeCount
    BY DEF TypeInv
<1>. MaxConns \in Nat /\ MaxMsgs \in Nat
    OBVIOUS
<1>. USE DEF TypeCount
<1>1. CASE waitForTcpConnection
    BY <1>1 DEF waitForTcpConnection
<1>2. CASE \E a \in Addrs, r \in Requests : diagnosticMessageReceived(a, r)
    BY <1>2 DEF diagnosticMessageReceived
<1>3. CASE ~waitForTcpConnection /\
           ~\E a \in Addrs, r \in Requests : diagnosticMessageReceived(a, r)
    <2>1. conns' = conns /\ msgs' = msgs
        BY <1>3, Zenon DEF Next, vars, StartThread, SpawnThread,
           StartDoipServer, startWithConfig, ConfigAbort, start_server,
           addECU, JoinThreads, MainReturn, listenUdp, SetupTcpSocket, TcpLoop,
           AcceptFails, receiveFromLibrary, sendDiagnosticResponse,
           CloseConnection, ConnectionEnds, shutdown, DeleteSimulators,
           ExitOne, Exited
    <2>. QED  BY <2>1
<1>. QED  BY <1>1, <1>2, <1>3

\* What the connection carries: an ACK or a NACK for each diagnostic
\* message, and the payload of the first ECU with the address.
LEMMA StepWire ==
    ASSUME DoIPAssumption, TypeInv, [Next]_vars
    PROVE  TypeWire'
<1>0. TypeWire /\ TypeControl
    BY DEF TypeInv
<1>00. wire \in Seq(Event)
    BY <1>0, Zenon DEF TypeWire
<1>1. CASE \E f \in DoipFiles : ConfigAbort(f)
    BY <1>0, <1>1, Zenon DEF ConfigAbort, TypeWire
<1>2. CASE MainReturn
    BY <1>0, <1>2, Zenon DEF MainReturn, TypeWire
<1>3. CASE \E a \in Addrs, r \in Requests : diagnosticMessageReceived(a, r)
    <2>1. PICK a \in Addrs, r \in Requests : diagnosticMessageReceived(a, r)
        BY <1>3
    <2>2. /\ [kind |-> "nack", addr |-> a, ecu |-> 0, req |-> r] \in Event
          /\ [kind |-> "ack", addr |-> a, ecu |-> 0, req |-> r] \in Event
        BY DEF Event
    <2>3. msg' \in [addr : Addrs, req : Requests]
        BY <2>1 DEF diagnosticMessageReceived
    <2>4. \/ wire' = Append(wire, [kind |-> "nack", addr |-> a, ecu |-> 0, req |-> r])
          \/ wire' = Append(wire, [kind |-> "ack", addr |-> a, ecu |-> 0, req |-> r])
        BY <2>1, Zenon DEF diagnosticMessageReceived
    <2>5. wire' \in Seq(Event)
        <3>1. Append(wire, [kind |-> "nack", addr |-> a, ecu |-> 0, req |-> r])
                \in Seq(Event)
            BY <1>00, <2>2, AppendProperties
        <3>2. Append(wire, [kind |-> "ack", addr |-> a, ecu |-> 0, req |-> r])
                \in Seq(Event)
            BY <1>00, <2>2, AppendProperties
        <3>. QED  BY <2>4, <3>1, <3>2, Zenon
    <2>. QED  BY <1>0, <2>1, <2>3, <2>5, Zenon
              DEF diagnosticMessageReceived, TypeWire
<1>4. CASE receiveFromLibrary
    <2>1. ecus \in Seq(EcuIds)
        BY <1>0, Zenon DEF TypeControl
    <2>2. PICK k \in 0..Len(ecus) : k = findECU(msg.addr)
        BY <2>1, FindECUFirst
    <2>3. CASE k # 0
        <3>0. k \in 1..Len(ecus)
            BY <2>1, <2>2, <2>3
        <3>1. ecus[k] \in EcuIds
            BY <2>1, <3>0, ElementOfSeq, Zenon
        <3>2. proceedDoIPData(ecus[k], msg.req) \in Seq(Event)
            <4>1. msg.req \in Requests
                BY <1>0, Zenon DEF TypeWire
            <4>. QED  BY <3>1, <4>1, ProceedType, Zenon
        <3>3. /\ wire' = wire \o proceedDoIPData(ecus[k], msg.req)
              /\ usedDeleted' = (usedDeleted \/ deleted)
              /\ UNCHANGED <<msg, hpc, deleted, exitStatus>>
            BY <1>4, <2>2, <2>3, Zenon DEF receiveFromLibrary,
                                           sendDiagnosticResponse
        <3>4. wire' \in Seq(Event)
            BY <1>00, <3>2, <3>3, ConcatProperties, Zenon
        <3>. QED  BY <1>0, <3>3, <3>4, Zenon DEF TypeWire
    <2>4. CASE k = 0
        BY <1>0, <1>4, <2>2, <2>4, Zenon DEF receiveFromLibrary, TypeWire
    <2>. QED  BY <2>3, <2>4
<1>5. CASE shutdown
    BY <1>0, <1>5, Zenon DEF shutdown, TypeWire
<1>6. CASE DeleteSimulators
    BY <1>0, <1>6, Zenon DEF DeleteSimulators, TypeWire
<1>7. CASE ExitOne
    BY <1>0, <1>7, Zenon DEF ExitOne, TypeWire
<1>8. CASE /\ ~\E f \in DoipFiles : ConfigAbort(f)
           /\ ~MainReturn
           /\ ~\E a \in Addrs, r \in Requests : diagnosticMessageReceived(a, r)
           /\ ~receiveFromLibrary /\ ~shutdown /\ ~DeleteSimulators /\ ~ExitOne
    <2>1. UNCHANGED <<msg, wire, hpc, deleted, usedDeleted, exitStatus>>
        BY <1>8, Zenon DEF Next, vars, StartThread, SpawnThread,
           StartDoipServer, startWithConfig, start_server, addECU,
           JoinThreads, listenUdp, SetupTcpSocket, TcpLoop,
           waitForTcpConnection, AcceptFails, CloseConnection,
           ConnectionEnds, Exited
    <2>. QED  BY <1>0, <2>1, Zenon DEF TypeWire
<1>. QED  BY <1>1, <1>2, <1>3, <1>4, <1>5, <1>6, <1>7, <1>8

\* The identity part: main() alone sets the identity, from a file that did
\* not throw; every other step leaves it alone.
LEMMA StepIdentity ==
    ASSUME DoIPAssumption, TypeInv, [Next]_vars
    PROVE  TypeIdentity'
<1>. TypeIdentity
    BY DEF TypeInv
<1>. USE DEF TypeIdentity
<1>1. CASE \E f \in DoipFiles : StartDoipServer(f)
    <2>1. PICK f \in DoipFiles : StartDoipServer(f)
        BY <1>1
    <2>2. f \in DoipFile
        BY DoIPAssumption
    <2>. QED  BY <2>1, <2>2, IdentityType, Zenon
              DEF StartDoipServer, startWithConfig
<1>2. CASE ~\E f \in DoipFiles : StartDoipServer(f)
    <2>1. identity' = identity
        BY <1>2, Zenon DEF Next, vars, StartThread, SpawnThread, ConfigAbort,
           start_server, addECU, JoinThreads, MainReturn, listenUdp,
           SetupTcpSocket, TcpLoop, waitForTcpConnection, AcceptFails,
           diagnosticMessageReceived, receiveFromLibrary, CloseConnection,
           ConnectionEnds, shutdown, DeleteSimulators, ExitOne, Exited
    <2>. QED  BY <2>1
<1>. QED  BY <1>1, <1>2

LEMMA TypeStep ==
    ASSUME DoIPAssumption, TypeInv, [Next]_vars
    PROVE  TypeInv'
BY StepControl, StepCount, StepWire, StepIdentity DEF TypeInv

\* Every thread of the DoIP front, main() with its configuration file and
\* the SIGINT handler keep their variables typed, whatever the files hold:
\* in particular the server is never given the eid the constructor left
\* unset, and receiveFromLibrary only indexes the ECU list inside it.
THEOREM TypeCorrect == Spec => []TypeOK
<1>1. Spec => []TypeInv
    BY InitType, TypeStep, DoIPAssumption, PTL DEF Spec
<1>. QED  BY <1>1, TypeSplit, PTL
-----------------------------------------------------------------------------
(* Every payload answers the ACK before it, from the first ECU.            *)

\* findECU reads only the ECU list.
LEMMA FindECUFrame ==
    ASSUME ecus' = ecus, NEW a
    PROVE  findECU(a)' = findECU(a)
BY DEF findECU

LEMMA InitWire == Init => WireInv
<1>. SUFFICES ASSUME Init PROVE WireInv
    OBVIOUS
<1>1. wire = <<>> /\ tcpPc = "none"
    BY DEF Init
<1>2. Len(wire) = 0
    BY <1>1
<1>. QED  BY <1>1, <1>2 DEF WireInv, AcksFound, DataAfterAck,
                              ResponseFromFirstEcu

\* A step that leaves the wire, the ECU list and the message alone, and
\* does not enter receiveFromLibrary, keeps WireInv.
LEMMA WireFrame ==
    ASSUME WireInv, UNCHANGED <<wire, ecus, msg>>,
           tcpPc' = "data" => tcpPc = "data"
    PROVE  WireInv'
<1>1. \A a : findECU(a)' = findECU(a)
    BY FindECUFrame
<1>. QED  BY <1>1, Zenon
          DEF WireInv, AcksFound, DataAfterAck, ResponseFromFirstEcu

\* start_server: addECU appends an ECU, which changes no first match.
LEMMA WireStartServer ==
    ASSUME DoIPAssumption, TypeInv, WireInv, NEW i \in ConfigIds,
           start_server(i)
    PROVE  WireInv'
<1>0. /\ ecus \in Seq(EcuIds) /\ wire \in Seq(Event)
      /\ UNCHANGED <<wire, msg, tcpPc>>
    BY Zenon DEF TypeInv, TypeControl, TypeWire, start_server
<1>1. CASE i \notin EcuIds
    BY <1>0, <1>1, WireFrame, Zenon DEF start_server
<1>2. CASE i \in EcuIds
    <2>1. ecus' = Append(ecus, i)
        BY <1>2, Zenon DEF start_server, addECU
    <2>2. \A a : findECU(a) # 0 => findECU(a)' = findECU(a)
        BY <1>0, <1>2, <2>1, FindECUAppend
    <2>3. \A n \in 1..Len(ecus) : ecus'[n] = ecus[n]
        BY <1>0, <2>1, AppendProperties
    <2>4. AcksFound'
        BY <1>0, <2>2, Zenon DEF WireInv, AcksFound
    <2>5. DataAfterAck'
        BY <1>0, Zenon DEF WireInv, DataAfterAck
    <2>6. ResponseFromFirstEcu'
        <3> SUFFICES ASSUME NEW k \in 1..Len(wire), IsPayload(wire[k])
                     PROVE  /\ k > 1
                            /\ wire[k - 1].kind = "ack"
                            /\ wire[k - 1].addr = wire[k].addr
                            /\ wire[k - 1].req = wire[k].req
                            /\ findECU(wire[k].addr)' # 0
                            /\ wire[k].ecu = ecus'[findECU(wire[k].addr)']
            BY <1>0, Zenon DEF ResponseFromFirstEcu, IsPayload
        <3>1. /\ k > 1
              /\ wire[k - 1].kind = "ack"
              /\ wire[k - 1].addr = wire[k].addr
              /\ wire[k - 1].req = wire[k].req
              /\ findECU(wire[k].addr) # 0
              /\ wire[k].ecu = ecus[findECU(wire[k].addr)]
            BY Zenon DEF WireInv, ResponseFromFirstEcu
        <3>2. findECU(wire[k].addr) \in 1..Len(ecus)
            BY <1>0, <3>1, FindECUFirst
        <3>. QED  BY <1>0, <2>2, <2>3, <3>1, <3>2
    <2>. QED  BY <2>4, <2>5, <2>6 DEF WireInv
<1>. QED  BY <1>1, <1>2

\* diagnosticMessageReceived: the ACK goes out only when findECU found an
\* ECU, and then the thread holds that message for receiveFromLibrary.
LEMMA WireReceived ==
    ASSUME DoIPAssumption, TypeInv, WireInv, NEW a \in Addrs,
           NEW r \in Requests, diagnosticMessageReceived(a, r)
    PROVE  WireInv'
<1>0. /\ wire \in Seq(Event)
      /\ UNCHANGED ecus
      /\ msg' = [addr |-> a, req |-> r]
    BY Zenon DEF TypeInv, TypeWire, diagnosticMessageReceived
<1>1. \A x : findECU(x)' = findECU(x)
    BY <1>0, FindECUFrame
<1>2. PICK kd \in {"ack", "nack"} :
        /\ wire' = Append(wire, [kind |-> kd, addr |-> a, ecu |-> 0, req |-> r])
        /\ kd = "ack" <=> findECU(a) # 0
        /\ tcpPc' = "data" <=> kd = "ack"
    BY Zenon DEF diagnosticMessageReceived
<1>3. /\ Len(wire') = Len(wire) + 1
      /\ \A k \in 1..Len(wire) : wire'[k] = wire[k]
      /\ wire'[Len(wire) + 1] = [kind |-> kd, addr |-> a, ecu |-> 0, req |-> r]
    BY <1>0, <1>2, AppendProperties
<1>4. AcksFound'
    BY <1>1, <1>2, <1>3 DEF WireInv, AcksFound
<1>5. DataAfterAck'
    <2>1. tcpPc' = "data" => kd = "ack"
        BY <1>2, Zenon
    <2>2. /\ wire' # <<>>
          /\ wire'[Len(wire')] = [kind |-> kd, addr |-> a, ecu |-> 0, req |-> r]
        BY <1>0, <1>3
    <2>. QED  BY <1>0, <2>1, <2>2 DEF DataAfterAck
<1>6. ResponseFromFirstEcu'
    <2> SUFFICES ASSUME NEW k \in 1..Len(wire'), IsPayload(wire'[k])
                 PROVE  /\ k > 1
                        /\ wire'[k - 1].kind = "ack"
                        /\ wire'[k - 1].addr = wire'[k].addr
                        /\ wire'[k - 1].req = wire'[k].req
                        /\ findECU(wire'[k].addr) # 0
                        /\ wire'[k].ecu = ecus[findECU(wire'[k].addr)]
        BY <1>0, <1>1, Zenon DEF ResponseFromFirstEcu, IsPayload
    <2>1. k # Len(wire) + 1
        BY <1>2, <1>3 DEF IsPayload
    <2>2. k \in 1..Len(wire)
        BY <1>3, <2>1
    <2>3. wire'[k] = wire[k] /\ (k > 1 => wire'[k - 1] = wire[k - 1])
        BY <1>3, <2>2
    <2>4. IsPayload(wire[k])
        BY <2>3
    <2>. QED  BY <2>2, <2>3, <2>4 DEF WireInv, ResponseFromFirstEcu
<1>. QED  BY <1>4, <1>5, <1>6 DEF WireInv

\* receiveFromLibrary: the message in hand was acknowledged, so findECU
\* finds the same first ECU again, and its payload follows that ACK.
LEMMA WireRecvLib ==
    ASSUME DoIPAssumption, TypeInv, WireInv, receiveFromLibrary
    PROVE  WireInv'
<1>0. /\ ecus \in Seq(EcuIds) /\ wire \in Seq(Event)
      /\ msg \in [addr : Addrs, req : Requests]
      /\ UNCHANGED <<ecus, msg>>
      /\ tcpPc = "data" /\ tcpPc' = "recv"
    BY Zenon DEF TypeInv, TypeControl, TypeWire, receiveFromLibrary
<1>1. \A x : findECU(x)' = findECU(x)
    BY <1>0, FindECUFrame
<1>2. /\ Len(wire) \in 1..Len(wire)
      /\ wire[Len(wire)].kind = "ack"
      /\ wire[Len(wire)].addr = msg.addr
      /\ wire[Len(wire)].req = msg.req
    BY <1>0 DEF WireInv, DataAfterAck
<1>3. findECU(msg.addr) # 0
    BY <1>2, Zenon DEF WireInv, AcksFound
<1>4. PICK n \in 1..Len(ecus) : n = findECU(msg.addr)
    BY <1>0, <1>3, FindECUFirst
<1>5. Configs[ecus[n]].addr = msg.addr
    BY <1>0, <1>4, FindECUFirst
<1>6. wire' = wire \o proceedDoIPData(ecus[n], msg.req)
    <2>1. wire' = wire \o proceedDoIPData(ecus[findECU(msg.addr)], msg.req)
        BY <1>3, Zenon DEF receiveFromLibrary, sendDiagnosticResponse
    <2>. QED  BY <1>4, <2>1
<1>7. CASE proceedDoIPData(ecus[n], msg.req) = <<>>
    <2>1. wire' = wire
        BY <1>0, <1>6, <1>7
    <2>. QED  BY <1>0, <1>1, <2>1, Zenon
              DEF WireInv, AcksFound, DataAfterAck, ResponseFromFirstEcu
<1>8. CASE proceedDoIPData(ecus[n], msg.req) # <<>>
    <2>1. PICK kd \in {"raw", "nrc"} :
            proceedDoIPData(ecus[n], msg.req) =
                <<[kind |-> kd, addr |-> msg.addr, ecu |-> ecus[n], req |-> msg.req]>>
        BY <1>5, <1>8 DEF proceedDoIPData
    <2>2. /\ Len(wire') = Len(wire) + 1
          /\ \A k \in 1..Len(wire) : wire'[k] = wire[k]
          /\ wire'[Len(wire) + 1] =
                [kind |-> kd, addr |-> msg.addr, ecu |-> ecus[n], req |-> msg.req]
        BY <1>0, <1>6, <2>1
    <2>3. AcksFound'
        BY <1>1, <2>2 DEF WireInv, AcksFound
    <2>4. DataAfterAck'
        BY <1>0 DEF DataAfterAck
    <2>5. ResponseFromFirstEcu'
        <3> SUFFICES ASSUME NEW k \in 1..Len(wire'), IsPayload(wire'[k])
                     PROVE  /\ k > 1
                            /\ wire'[k - 1].kind = "ack"
                            /\ wire'[k - 1].addr = wire'[k].addr
                            /\ wire'[k - 1].req = wire'[k].req
                            /\ findECU(wire'[k].addr) # 0
                            /\ wire'[k].ecu = ecus[findECU(wire'[k].addr)]
            BY <1>0, <1>1, Zenon DEF ResponseFromFirstEcu, IsPayload
        <3>1. CASE k = Len(wire) + 1
            BY <1>2, <1>3, <1>4, <2>2, <3>1
        <3>2. CASE k # Len(wire) + 1
            <4>1. k \in 1..Len(wire)
                BY <2>2, <3>2
            <4>2. wire'[k] = wire[k] /\ (k > 1 => wire'[k - 1] = wire[k - 1])
                BY <2>2, <4>1
            <4>. QED  BY <4>1, <4>2 DEF WireInv, ResponseFromFirstEcu, IsPayload
        <3>. QED  BY <3>1, <3>2
    <2>. QED  BY <2>3, <2>4, <2>5 DEF WireInv
<1>. QED  BY <1>7, <1>8

\* Every other step leaves the wire, the ECU list and the message in hand
\* alone, and none of them enters receiveFromLibrary.
LEMMA WireStep ==
    ASSUME DoIPAssumption, TypeInv, WireInv, [Next]_vars
    PROVE  WireInv'
<1>1. CASE \E i \in ConfigIds : start_server(i)
    BY <1>1, WireStartServer
<1>2. CASE \E a \in Addrs, r \in Requests : diagnosticMessageReceived(a, r)
    BY <1>2, WireReceived
<1>3. CASE receiveFromLibrary
    BY <1>3, WireRecvLib
<1>4. CASE \/ StartThread
           \/ \E f \in DoipFiles : StartDoipServer(f) \/ ConfigAbort(f)
           \/ JoinThreads \/ MainReturn \/ listenUdp \/ SetupTcpSocket
    <2>. UNCHANGED <<wire, ecus, msg>> /\ (tcpPc' = "data" => tcpPc = "data")
        BY <1>4, Zenon DEF StartThread, StartDoipServer, startWithConfig,
                            ConfigAbort, JoinThreads, MainReturn, listenUdp,
                            SetupTcpSocket
    <2>. QED  BY WireFrame
<1>5. CASE \/ TcpLoop \/ waitForTcpConnection \/ AcceptFails
           \/ CloseConnection \/ ConnectionEnds
    <2>. UNCHANGED <<wire, ecus, msg>> /\ (tcpPc' = "data" => tcpPc = "data")
        BY <1>5, Zenon DEF TcpLoop, waitForTcpConnection, AcceptFails,
                            CloseConnection, ConnectionEnds
    <2>. QED  BY WireFrame
<1>6. CASE shutdown \/ DeleteSimulators \/ ExitOne \/ Exited \/ UNCHANGED vars
    <2>. UNCHANGED <<wire, ecus, msg>> /\ (tcpPc' = "data" => tcpPc = "data")
        BY <1>6, Zenon DEF shutdown, DeleteSimulators, ExitOne, Exited, vars
    <2>. QED  BY WireFrame
<1>. QED  BY <1>1, <1>2, <1>3, <1>4, <1>5, <1>6 DEF Next

(* The wire invariant ResponseFromFirstEcu holds in every reachable state, *)
(* for every list of configuration files: whatever order the start_server  *)
(* threads register their ECUs in, each payload receiveFromLibrary sends   *)
(* follows the positive ACK of its message and comes from the first        *)
(* registered DoIPSimulator with the target address.                       *)
THEOREM ResponseFromFirstEcuHolds == Spec => []ResponseFromFirstEcu
<1>1. Spec => [](TypeInv /\ WireInv)
    <2>1. Init => TypeInv /\ WireInv
        BY InitType, InitWire, DoIPAssumption
    <2>2. TypeInv /\ WireInv /\ [Next]_vars => (TypeInv /\ WireInv)'
        BY TypeStep, WireStep, DoIPAssumption
    <2>. QED  BY <2>1, <2>2, PTL DEF Spec
<1>. QED  BY <1>1, PTL DEF WireInv

-----------------------------------------------------------------------------
(* Every positive ACK is answered.                                         *)

LEMMA InitServerOnce == Init => ServerOnce
BY DEF Init, ServerOnce

\* Only main() moves past doipserver.lua, and only startWithConfig starts
\* the TCP listener.
LEMMA ServerOnceStep ==
    ASSUME DoIPAssumption, TypeInv, ServerOnce, [Next]_vars
    PROVE  ServerOnce'
<1>0. nextCfg \in Nat /\ nextCfg >= 1
    BY DoIPAssumption DEF TypeInv, TypeControl
<1>1. CASE StartThread
    BY <1>0, <1>1 DEF StartThread, SpawnThread, ServerOnce
<1>2. CASE \E f \in DoipFiles : StartDoipServer(f)
    <2>1. /\ nextCfg' = nextCfg + 1
          /\ Configs[nextCfg].server
        BY <1>2, Zenon DEF StartDoipServer, SpawnThread
    <2>. QED  BY <1>0, <2>1 DEF ServerOnce
<1>3. CASE \/ \E f \in DoipFiles : ConfigAbort(f)
           \/ \E i \in ConfigIds : start_server(i)
           \/ JoinThreads \/ MainReturn \/ listenUdp \/ SetupTcpSocket
           \/ TcpLoop \/ waitForTcpConnection \/ AcceptFails
    <2>. UNCHANGED nextCfg /\ (tcpPc' # "none" => tcpPc # "none")
        BY <1>3, Zenon DEF ConfigAbort, start_server, JoinThreads, MainReturn,
                            listenUdp, SetupTcpSocket, TcpLoop,
                            waitForTcpConnection, AcceptFails
    <2>. QED  BY Zenon DEF ServerOnce
<1>4. CASE \/ \E a \in Addrs, r \in Requests : diagnosticMessageReceived(a, r)
           \/ receiveFromLibrary \/ CloseConnection \/ ConnectionEnds
           \/ shutdown \/ DeleteSimulators \/ ExitOne \/ Exited
           \/ UNCHANGED vars
    <2>. UNCHANGED nextCfg /\ (tcpPc' # "none" => tcpPc # "none")
        BY <1>4, Zenon DEF diagnosticMessageReceived, receiveFromLibrary,
                            CloseConnection, ConnectionEnds, shutdown,
                            DeleteSimulators, ExitOne, Exited, vars
    <2>. QED  BY Zenon DEF ServerOnce
<1>. QED  BY <1>1, <1>2, <1>3, <1>4 DEF Next

\* doipserver.lua is the only file with server set, so when main() meets
\* it the TCP listener has not been started.
LEMMA StartDoipTcpNone ==
    ASSUME DoIPAssumption, TypeInv, ServerOnce, NEW f, StartDoipServer(f)
    PROVE  tcpPc = "none"
<1>1. /\ mpc = "spawn" /\ Configs[nextCfg].server
    BY Zenon DEF StartDoipServer
<1>2. nextCfg \in ConfigIds
    BY <1>1 DEF TypeInv, TypeControl, SpawnInv
<1>. QED  BY <1>1, <1>2 DEF ServerOnce, ConfigIds

\* A step that leaves the wire and the ECU list alone and neither enters
\* nor leaves receiveFromLibrary keeps AckedMessageAnswered.
LEMMA AckFrame ==
    ASSUME AckedMessageAnswered, UNCHANGED <<wire, ecus>>,
           (tcpPc' = "data") <=> (tcpPc = "data")
    PROVE  AckedMessageAnswered'
<1>1. \A a : findECU(a)' = findECU(a)
    BY FindECUFrame
<1>. QED  BY <1>1, Zenon DEF AckedMessageAnswered, IsPayload

LEMMA AckInit == Init => AckedMessageAnswered
<1>. SUFFICES ASSUME Init PROVE AckedMessageAnswered
    OBVIOUS
<1>1. Len(wire) = 0
    BY DEF Init
<1>. QED  BY <1>1 DEF AckedMessageAnswered


\* start_server: an appended ECU changes neither the first match of an
\* address that had one nor the ECU at that index.
LEMMA AckStartServer ==
    ASSUME DoIPAssumption, TypeInv, AckedMessageAnswered, NEW i \in ConfigIds,
           start_server(i)
    PROVE  AckedMessageAnswered'
<1>0. /\ ecus \in Seq(EcuIds) /\ wire \in Seq(Event)
      /\ UNCHANGED <<wire, tcpPc>>
    BY Zenon DEF TypeInv, TypeControl, TypeWire, start_server
<1>1. CASE i \notin EcuIds
    BY <1>0, <1>1, AckFrame, Zenon DEF start_server
<1>2. CASE i \in EcuIds
    <2>1. ecus' = Append(ecus, i)
        BY <1>2, Zenon DEF start_server, addECU
    <2>2. \A a : findECU(a) # 0 => findECU(a)' = findECU(a)
        BY <1>0, <1>2, <2>1, FindECUAppend
    <2>3. \A n \in 1..Len(ecus) : ecus'[n] = ecus[n]
        BY <1>0, <2>1, AppendProperties
    <2> SUFFICES ASSUME NEW k \in 1..Len(wire), wire[k].kind = "ack",
                        ~(k = Len(wire) /\ tcpPc = "data")
                 PROVE  \/ /\ k < Len(wire)
                           /\ IsPayload(wire[k + 1])
                           /\ wire[k + 1].addr = wire[k].addr
                           /\ wire[k + 1].req = wire[k].req
                        \/ /\ findECU(wire[k].addr)' # 0
                           /\ RawResponse[ecus'[findECU(wire[k].addr)']][wire[k].req]
                                = "empty"
        BY <1>0, Zenon DEF AckedMessageAnswered, IsPayload
    <2>4. CASE /\ k < Len(wire)
               /\ IsPayload(wire[k + 1])
               /\ wire[k + 1].addr = wire[k].addr
               /\ wire[k + 1].req = wire[k].req
        BY <2>4
    <2>5. CASE /\ findECU(wire[k].addr) # 0
               /\ RawResponse[ecus[findECU(wire[k].addr)]][wire[k].req] = "empty"
        <3>1. findECU(wire[k].addr) \in 1..Len(ecus)
            BY <1>0, <2>5, FindECUFirst
        <3>. QED  BY <1>0, <2>2, <2>3, <2>5, <3>1
    <2>. QED  BY <2>4, <2>5 DEF AckedMessageAnswered
<1>. QED  BY <1>1, <1>2

\* diagnosticMessageReceived: a new positive ACK leaves the TCP thread in
\* receiveFromLibrary, and the ACK before it was already answered.
LEMMA AckReceived ==
    ASSUME DoIPAssumption, TypeInv, AckedMessageAnswered, NEW a \in Addrs,
           NEW r \in Requests, diagnosticMessageReceived(a, r)
    PROVE  AckedMessageAnswered'
<1>0. /\ wire \in Seq(Event)
      /\ UNCHANGED ecus
      /\ tcpPc = "recv"
    BY Zenon DEF TypeInv, TypeWire, diagnosticMessageReceived
<1>1. \A x : findECU(x)' = findECU(x)
    BY <1>0, FindECUFrame
<1>2. PICK kd \in {"ack", "nack"} :
        /\ wire' = Append(wire, [kind |-> kd, addr |-> a, ecu |-> 0, req |-> r])
        /\ tcpPc' = "data" <=> kd = "ack"
    BY Zenon DEF diagnosticMessageReceived
<1>3. /\ Len(wire') = Len(wire) + 1
      /\ \A k \in 1..Len(wire) : wire'[k] = wire[k]
      /\ wire'[Len(wire) + 1] = [kind |-> kd, addr |-> a, ecu |-> 0, req |-> r]
    BY <1>0, <1>2, AppendProperties
<1> SUFFICES ASSUME NEW k \in 1..Len(wire'), wire'[k].kind = "ack",
                    ~(k = Len(wire') /\ tcpPc' = "data")
             PROVE  \/ /\ k < Len(wire')
                       /\ IsPayload(wire'[k + 1])
                       /\ wire'[k + 1].addr = wire'[k].addr
                       /\ wire'[k + 1].req = wire'[k].req
                    \/ /\ findECU(wire'[k].addr) # 0
                       /\ RawResponse[ecus[findECU(wire'[k].addr)]][wire'[k].req]
                            = "empty"
    BY <1>0, <1>1, Zenon DEF AckedMessageAnswered, IsPayload
<1>4. k \in 1..Len(wire)
    BY <1>2, <1>3
<1>5. wire'[k] = wire[k] /\ (k < Len(wire) => wire'[k + 1] = wire[k + 1])
    BY <1>3, <1>4
<1>. QED  BY <1>0, <1>3, <1>4, <1>5 DEF AckedMessageAnswered


\* receiveFromLibrary answers the ACK it holds: with the payload of the
\* first ECU with that address, or with nothing when its Raw response is
\* the empty string.
LEMMA AckRecvLib ==
    ASSUME DoIPAssumption, TypeInv, WireInv, AckedMessageAnswered,
           receiveFromLibrary
    PROVE  AckedMessageAnswered'
<1>0. /\ ecus \in Seq(EcuIds) /\ wire \in Seq(Event)
      /\ msg \in [addr : Addrs, req : Requests]
      /\ UNCHANGED <<ecus, msg>>
      /\ tcpPc = "data" /\ tcpPc' = "recv"
    BY Zenon DEF TypeInv, TypeControl, TypeWire, receiveFromLibrary
<1>1. \A x : findECU(x)' = findECU(x)
    BY <1>0, FindECUFrame
<1>2. /\ Len(wire) \in 1..Len(wire)
      /\ wire[Len(wire)].kind = "ack"
      /\ wire[Len(wire)].addr = msg.addr
      /\ wire[Len(wire)].req = msg.req
    BY <1>0 DEF WireInv, DataAfterAck
<1>3. findECU(msg.addr) # 0
    BY <1>2, Zenon DEF WireInv, AcksFound
<1>4. PICK n \in 1..Len(ecus) : n = findECU(msg.addr)
    BY <1>0, <1>3, FindECUFirst
<1>5. Configs[ecus[n]].addr = msg.addr
    BY <1>0, <1>4, FindECUFirst
<1>6. wire' = wire \o proceedDoIPData(ecus[n], msg.req)
    <2>1. wire' = wire \o proceedDoIPData(ecus[findECU(msg.addr)], msg.req)
        BY <1>3, Zenon DEF receiveFromLibrary, sendDiagnosticResponse
    <2>. QED  BY <1>4, <2>1
<1>7. RawResponse[ecus[n]][msg.req] \in RawResult
    BY <1>0, DoIPAssumption
<1> SUFFICES ASSUME NEW k \in 1..Len(wire'), wire'[k].kind = "ack"
             PROVE  \/ /\ k < Len(wire')
                       /\ IsPayload(wire'[k + 1])
                       /\ wire'[k + 1].addr = wire'[k].addr
                       /\ wire'[k + 1].req = wire'[k].req
                    \/ /\ findECU(wire'[k].addr) # 0
                       /\ RawResponse[ecus[findECU(wire'[k].addr)]][wire'[k].req]
                            = "empty"
    BY <1>0, <1>1, Zenon DEF AckedMessageAnswered, IsPayload
<1>8. CASE proceedDoIPData(ecus[n], msg.req) = <<>>
    <2>1. wire' = wire
        BY <1>0, <1>6, <1>8
    <2>2. RawResponse[ecus[n]][msg.req] = "empty"
        BY <1>7, <1>8 DEF proceedDoIPData, RawResult
    <2>3. CASE k = Len(wire)
        BY <1>2, <1>4, <2>1, <2>2, <2>3
    <2>4. CASE k # Len(wire)
        BY <2>1, <2>4 DEF AckedMessageAnswered
    <2>. QED  BY <2>3, <2>4
<1>9. CASE proceedDoIPData(ecus[n], msg.req) # <<>>
    <2>1. PICK kd \in {"raw", "nrc"} :
            proceedDoIPData(ecus[n], msg.req) =
                <<[kind |-> kd, addr |-> msg.addr, ecu |-> ecus[n], req |-> msg.req]>>
        BY <1>5, <1>9 DEF proceedDoIPData
    <2>2. /\ Len(wire') = Len(wire) + 1
          /\ \A j \in 1..Len(wire) : wire'[j] = wire[j]
          /\ wire'[Len(wire) + 1] =
                [kind |-> kd, addr |-> msg.addr, ecu |-> ecus[n], req |-> msg.req]
        BY <1>0, <1>6, <2>1
    <2>3. k \in 1..Len(wire)
        BY <2>2
    <2>4. CASE k = Len(wire)
        BY <1>2, <2>2, <2>4 DEF IsPayload
    <2>5. CASE k # Len(wire)
        <3>1. k < Len(wire) /\ wire'[k] = wire[k] /\ wire'[k + 1] = wire[k + 1]
            BY <2>2, <2>3, <2>5
        <3>. QED  BY <2>2, <3>1 DEF AckedMessageAnswered
    <2>. QED  BY <2>4, <2>5
<1>. QED  BY <1>8, <1>9


\* Only diagnosticMessageReceived and receiveFromLibrary move the TCP
\* thread into or out of receiveFromLibrary.
LEMMA AckStep ==
    ASSUME DoIPAssumption, TypeInv, WireInv, ServerOnce, AckedMessageAnswered,
           [Next]_vars
    PROVE  AckedMessageAnswered'
<1>1. CASE \E i \in ConfigIds : start_server(i)
    BY <1>1, AckStartServer
<1>2. CASE \E a \in Addrs, r \in Requests : diagnosticMessageReceived(a, r)
    BY <1>2, AckReceived
<1>3. CASE receiveFromLibrary
    BY <1>3, AckRecvLib
<1>4. CASE \E f \in DoipFiles : StartDoipServer(f)
    <2>1. PICK f \in DoipFiles : StartDoipServer(f)
        BY <1>4
    <2>2. tcpPc = "none"
        BY <2>1, StartDoipTcpNone
    <2>3. UNCHANGED <<wire, ecus>> /\ tcpPc' = "setup"
        BY <2>1, Zenon DEF StartDoipServer, startWithConfig
    <2>. QED  BY <2>2, <2>3, AckFrame
<1>5. CASE \/ StartThread \/ \E f \in DoipFiles : ConfigAbort(f)
           \/ JoinThreads \/ MainReturn \/ listenUdp \/ SetupTcpSocket
    <2>. UNCHANGED <<wire, ecus>> /\ ((tcpPc' = "data") <=> (tcpPc = "data"))
        BY <1>5, Zenon DEF StartThread, ConfigAbort, JoinThreads, MainReturn,
                            listenUdp, SetupTcpSocket
    <2>. QED  BY AckFrame
<1>6. CASE \/ TcpLoop \/ waitForTcpConnection \/ AcceptFails
           \/ CloseConnection \/ ConnectionEnds
    <2>. UNCHANGED <<wire, ecus>> /\ ((tcpPc' = "data") <=> (tcpPc = "data"))
        BY <1>6, Zenon DEF TcpLoop, waitForTcpConnection, AcceptFails,
                            CloseConnection, ConnectionEnds
    <2>. QED  BY AckFrame
<1>7. CASE shutdown \/ DeleteSimulators \/ ExitOne \/ Exited \/ UNCHANGED vars
    <2>. UNCHANGED <<wire, ecus>> /\ ((tcpPc' = "data") <=> (tcpPc = "data"))
        BY <1>7, Zenon DEF shutdown, DeleteSimulators, ExitOne, Exited, vars
    <2>. QED  BY AckFrame
<1>. QED  BY <1>1, <1>2, <1>3, <1>4, <1>5, <1>6, <1>7 DEF Next

(* AckedMessageAnswered holds in every reachable state, for every list of  *)
(* configuration files: diagnosticMessageReceived and receiveFromLibrary   *)
(* agree on the target ECU, so every positive ACK that receiveFromLibrary  *)
(* has handled is followed by that message's payload, unless the first     *)
(* ECU with the address has the empty string as its Raw response.          *)
THEOREM AckedMessageAnsweredHolds == Spec => []AckedMessageAnswered
<1>1. Spec => []AckInv
    <2>1. Init => AckInv
        BY InitType, InitWire, InitServerOnce, AckInit, DoIPAssumption
        DEF AckInv
    <2>2. AckInv /\ [Next]_vars => AckInv'
        BY TypeStep, WireStep, ServerOnceStep, AckStep, DoIPAssumption
        DEF AckInv
    <2>. QED  BY <2>1, <2>2, PTL DEF Spec
<1>. QED  BY <1>1, PTL DEF AckInv

-----------------------------------------------------------------------------
(* The ECU that answers an address never changes.                          *)

\* The ECU list only grows, by one simulator at the end (addECU).
LEMMA EcusGrow ==
    ASSUME [Next]_vars
    PROVE  \/ UNCHANGED ecus
           \/ \E i \in EcuIds : ecus' = Append(ecus, i)
<1>1. CASE \E i \in ConfigIds : start_server(i)
    BY <1>1, Zenon DEF start_server, addECU
<1>2. CASE \/ StartThread
           \/ \E f \in DoipFiles : StartDoipServer(f) \/ ConfigAbort(f)
           \/ JoinThreads \/ MainReturn \/ listenUdp \/ SetupTcpSocket
    BY <1>2, Zenon DEF StartThread, StartDoipServer, ConfigAbort,
                        JoinThreads, MainReturn, listenUdp, SetupTcpSocket
<1>3. CASE \/ TcpLoop \/ waitForTcpConnection \/ AcceptFails
           \/ \E a \in Addrs, r \in Requests : diagnosticMessageReceived(a, r)
           \/ receiveFromLibrary \/ CloseConnection \/ ConnectionEnds
    BY <1>3, Zenon DEF TcpLoop, waitForTcpConnection, AcceptFails,
                        diagnosticMessageReceived, receiveFromLibrary,
                        CloseConnection, ConnectionEnds
<1>4. CASE shutdown \/ DeleteSimulators \/ ExitOne \/ Exited \/ UNCHANGED vars
    BY <1>4, Zenon DEF shutdown, DeleteSimulators, ExitOne, Exited, vars
<1>. QED  BY <1>1, <1>2, <1>3, <1>4 DEF Next

LEMMA RoutingStep ==
    ASSUME DoIPAssumption, TypeInv, [Next]_vars
    PROVE  EcuOfAddressKept
<1>0. ecus \in Seq(EcuIds)
    BY DEF TypeInv, TypeControl
<1> SUFFICES ASSUME NEW a \in Addrs, findECU(a) # 0
             PROVE  /\ findECU(a)' = findECU(a)
                    /\ ecus'[findECU(a)'] = ecus[findECU(a)]
    BY DEF EcuOfAddressKept
<1>1. CASE UNCHANGED ecus
    BY <1>1, FindECUFrame
<1>2. CASE \E i \in EcuIds : ecus' = Append(ecus, i)
    <2>1. PICK i \in EcuIds : ecus' = Append(ecus, i)
        BY <1>2
    <2>2. findECU(a)' = findECU(a)
        BY <1>0, <2>1, FindECUAppend
    <2>3. findECU(a) \in 1..Len(ecus)
        BY <1>0, FindECUFirst
    <2>. QED  BY <1>0, <2>1, <2>2, <2>3, AppendProperties
<1>. QED  BY <1>1, <1>2, EcusGrow

(* RoutingStable holds for every list of configuration files: however the  *)
(* start_server threads interleave with tester traffic, the DoIPSimulator *)
(* findECU finds for an address is the one it finds from then on.         *)
THEOREM RoutingStableHolds == Spec => RoutingStable
<1>1. Spec => []TypeInv
    BY InitType, TypeStep, DoIPAssumption, PTL DEF Spec
<1>2. TypeInv /\ [Next]_vars => [EcuOfAddressKept]_vars
    BY RoutingStep, DoIPAssumption
<1>. QED  BY <1>1, <1>2, PTL DEF Spec, RoutingStable

-----------------------------------------------------------------------------
(* The two callbacks implement the atomic exchange of DoIPExchange.        *)

\* DoIPExchange's Route, the least of the positions serving an address, is
\* findECU's loop with break.
LEMMA RouteIsFindECU ==
    ASSUME DoIPAssumption, ecus \in Seq(EcuIds), NEW a
    PROVE  Exchange!Route(a) = findECU(a)
<1>0. /\ findECU(a) \in 0..Len(ecus)
      /\ findECU(a) # 0 => Configs[ecus[findECU(a)]].addr = a
      /\ findECU(a) # 0 =>
            \A k \in 1..(findECU(a) - 1) : Configs[ecus[k]].addr # a
      /\ findECU(a) = 0 <=>
            ~\E j \in 1..Len(ecus) : Configs[ecus[j]].addr = a
    BY FindECUFirst
<1>1. CASE findECU(a) = 0
    <2>1. Exchange!Serving(a) = {}
        BY <1>0, <1>1 DEF Exchange!Serving
    <2>. QED  BY <1>1, <2>1 DEF Exchange!Route
<1>2. CASE findECU(a) # 0
    <2>1. findECU(a) \in Exchange!Serving(a)
        BY <1>0, <1>2 DEF Exchange!Serving
    <2>2. \A k \in Exchange!Serving(a) : findECU(a) <= k
        BY <1>0, <1>2 DEF Exchange!Serving
    <2>3. \A j \in Exchange!Serving(a) :
            (\A k \in Exchange!Serving(a) : j <= k) <=> j = findECU(a)
        BY <2>1, <2>2 DEF Exchange!Serving
    <2>4. Exchange!Serving(a) # {}
        BY <2>1
    <2>. QED  BY <2>1, <2>3, <2>4, Zenon DEF Exchange!Route
<1>. QED  BY <1>1, <1>2

\* Before the TCP listener runs nothing is on the wire and no ECU is
\* registered.
LEMMA RefineInit == Init => Exchange!Init
BY DEF Init, Exchange!Init, wireBar

\* wireBar reads only the wire, the ECU list, the message in hand and
\* whether the TCP thread is in receiveFromLibrary.
LEMMA RefineFrame ==
    ASSUME UNCHANGED <<wire, ecus, msg>>, (tcpPc' = "data") <=> (tcpPc = "data")
    PROVE  UNCHANGED <<wireBar, ecus>>
<1>1. \A x : findECU(x)' = findECU(x)
    BY FindECUFrame
<1>. QED  BY <1>1, Zenon DEF wireBar


\* While the TCP thread is in receiveFromLibrary, findECU finds the
\* address of the message in hand: its positive ACK is the last thing sent.
LEMMA DataFound ==
    ASSUME WireInv, tcpPc = "data"
    PROVE  findECU(msg.addr) # 0
<1>1. /\ Len(wire) \in 1..Len(wire)
      /\ wire[Len(wire)].kind = "ack"
      /\ wire[Len(wire)].addr = msg.addr
    BY DEF WireInv, DataAfterAck
<1>. QED  BY <1>1, Zenon DEF WireInv, AcksFound

\* start_server: addECU is an abstract Register, and the payload pending in
\* receiveFromLibrary still comes from the same ECU.
LEMMA RefineStartServer ==
    ASSUME DoIPAssumption, TypeInv, WireInv, NEW i \in ConfigIds,
           start_server(i)
    PROVE  UNCHANGED <<wireBar, ecus>> \/ Exchange!Next
<1>0. /\ ecus \in Seq(EcuIds)
      /\ UNCHANGED <<wire, tcpPc, msg>>
    BY Zenon DEF TypeInv, TypeControl, start_server
<1>1. CASE i \notin EcuIds
    <2>1. UNCHANGED ecus
        BY <1>1, Zenon DEF start_server
    <2>. QED  BY <1>0, <2>1, RefineFrame
<1>2. CASE i \in EcuIds
    <2>1. ecus' = Append(ecus, i)
        BY <1>2, Zenon DEF start_server, addECU
    <2>2. wireBar' = wireBar
        <3>1. CASE tcpPc = "data"
            <4>1. findECU(msg.addr) # 0
                BY <3>1, DataFound
            <4>2. \A x : findECU(x) # 0 => findECU(x)' = findECU(x)
                BY <1>0, <1>2, <2>1, FindECUAppend
            <4>3. findECU(msg.addr) \in 1..Len(ecus)
                BY <1>0, <4>1, FindECUFirst
            <4>4. ecus'[findECU(msg.addr)] = ecus[findECU(msg.addr)]
                BY <1>0, <2>1, <4>3, AppendProperties
            <4>5. findECU(msg.addr)' = findECU(msg.addr)
                BY <1>0, <4>1, <4>2
            <4>. QED  BY <1>0, <3>1, <4>4, <4>5 DEF wireBar
        <3>2. CASE tcpPc # "data"
            BY <1>0, <3>2 DEF wireBar
        <3>. QED  BY <3>1, <3>2
    <2>3. Exchange!Register(i)
        BY <2>1, <2>2 DEF Exchange!Register
    <2>. QED  BY <1>2, <2>3 DEF Exchange!Next, Exchange!EcuIds, EcuIds,
                                  ConfigIds
<1>. QED  BY <1>1, <1>2


\* diagnosticMessageReceived is the whole abstract exchange: the negative
\* ACK alone, or the positive ACK with the payload receiveFromLibrary will
\* send, which wireBar counts from now on.
LEMMA RefineReceived ==
    ASSUME DoIPAssumption, TypeInv, NEW a \in Addrs, NEW r \in Requests,
           diagnosticMessageReceived(a, r)
    PROVE  Exchange!Next
<1>0. /\ ecus \in Seq(EcuIds) /\ wire \in Seq(Event)
      /\ UNCHANGED ecus
      /\ tcpPc = "recv"
      /\ msg' = [addr |-> a, req |-> r]
    BY Zenon DEF TypeInv, TypeControl, TypeWire, diagnosticMessageReceived
<1>1. \A x : findECU(x)' = findECU(x)
    BY <1>0, FindECUFrame
<1>2. wireBar = wire
    BY <1>0 DEF wireBar
<1>3. Exchange!Route(a) = findECU(a)
    BY <1>0, RouteIsFindECU
<1>. SUFFICES Exchange!Respond(a, r)
    BY DEF Exchange!Next
<1>4. CASE findECU(a) = 0
    <2>1. /\ wire' = Append(wire, [kind |-> "nack", addr |-> a, ecu |-> 0, req |-> r])
          /\ tcpPc' = "recv"
        BY <1>4, Zenon DEF diagnosticMessageReceived
    <2>2. [kind |-> "nack", addr |-> a, ecu |-> 0, req |-> r] \in Event
        BY DEF Event
    <2>3. wireBar' = wire \o <<[kind |-> "nack", addr |-> a, ecu |-> 0, req |-> r]>>
        BY <1>0, <2>1, <2>2, AppendIsConcat DEF wireBar
    <2>. QED  BY <1>0, <1>2, <1>3, <1>4, <2>3 DEF Exchange!Respond
<1>5. CASE findECU(a) # 0
    <2>1. /\ wire' = Append(wire, [kind |-> "ack", addr |-> a, ecu |-> 0, req |-> r])
          /\ tcpPc' = "data"
        BY <1>5, Zenon DEF diagnosticMessageReceived
    <2>2. [kind |-> "ack", addr |-> a, ecu |-> 0, req |-> r] \in Event
        BY DEF Event
    <2>3. findECU(a) \in 1..Len(ecus) /\ Configs[ecus[findECU(a)]].addr = a
        BY <1>0, <1>5, FindECUFirst
    <2>4. wireBar' = wire' \o proceedDoIPData(ecus[findECU(a)], r)
        BY <1>0, <1>1, <2>1 DEF wireBar
    <2>5. proceedDoIPData(ecus[findECU(a)], r) \in Seq(Event)
        BY <1>0, <2>3, ProceedType
    <2>6. wireBar' = wire \o (<<[kind |-> "ack", addr |-> a, ecu |-> 0, req |-> r]>>
                               \o proceedDoIPData(ecus[findECU(a)], r))
        BY <1>0, <2>1, <2>2, <2>4, <2>5, AppendIsConcat, ConcatAssociative
    <2>7. proceedDoIPData(ecus[findECU(a)], r)
            = Exchange!Payload(ecus[Exchange!Route(a)], a, r)
        BY <1>3, <2>3 DEF proceedDoIPData, Exchange!Payload
    <2>. QED  BY <1>0, <1>2, <1>3, <1>5, <2>6, <2>7 DEF Exchange!Respond
<1>. QED  BY <1>4, <1>5

\* receiveFromLibrary sends what wireBar already counted: a stutter.
LEMMA RefineRecvLib ==
    ASSUME DoIPAssumption, TypeInv, WireInv, receiveFromLibrary
    PROVE  UNCHANGED <<wireBar, ecus>>
<1>0. /\ UNCHANGED <<ecus, msg>>
      /\ tcpPc = "data" /\ tcpPc' = "recv"
    BY Zenon DEF receiveFromLibrary
<1>1. findECU(msg.addr) # 0
    BY <1>0, DataFound
<1>2. wire' = wire \o proceedDoIPData(ecus[findECU(msg.addr)], msg.req)
    BY <1>1, Zenon DEF receiveFromLibrary, sendDiagnosticResponse
<1>. QED  BY <1>0, <1>2 DEF wireBar


\* Every step of the DoIP front is an abstract Register or Respond, or
\* leaves the abstract wire and the ECU list alone.
LEMMA RefineStep ==
    ASSUME DoIPAssumption, TypeInv, WireInv, ServerOnce, [Next]_vars
    PROVE  [UNCHANGED <<wireBar, ecus>> \/ Exchange!Next]_<<wireBar, ecus>>
<1>1. CASE \E i \in ConfigIds : start_server(i)
    BY <1>1, RefineStartServer
<1>2. CASE \E a \in Addrs, r \in Requests : diagnosticMessageReceived(a, r)
    BY <1>2, RefineReceived
<1>3. CASE receiveFromLibrary
    BY <1>3, RefineRecvLib
<1>4. CASE \E f \in DoipFiles : StartDoipServer(f)
    <2>1. PICK f \in DoipFiles : StartDoipServer(f)
        BY <1>4
    <2>2. tcpPc = "none"
        BY <2>1, StartDoipTcpNone
    <2>3. UNCHANGED <<wire, ecus, msg>> /\ tcpPc' = "setup"
        BY <2>1, Zenon DEF StartDoipServer, startWithConfig
    <2>. QED  BY <2>2, <2>3, RefineFrame
<1>5. CASE \/ StartThread \/ \E f \in DoipFiles : ConfigAbort(f)
           \/ JoinThreads \/ MainReturn \/ listenUdp \/ SetupTcpSocket
    <2>. UNCHANGED <<wire, ecus, msg>> /\ ((tcpPc' = "data") <=> (tcpPc = "data"))
        BY <1>5, Zenon DEF StartThread, ConfigAbort, JoinThreads, MainReturn,
                            listenUdp, SetupTcpSocket
    <2>. QED  BY RefineFrame
<1>6. CASE \/ TcpLoop \/ waitForTcpConnection \/ AcceptFails
           \/ CloseConnection \/ ConnectionEnds
    <2>. UNCHANGED <<wire, ecus, msg>> /\ ((tcpPc' = "data") <=> (tcpPc = "data"))
        BY <1>6, Zenon DEF TcpLoop, waitForTcpConnection, AcceptFails,
                            CloseConnection, ConnectionEnds
    <2>. QED  BY RefineFrame
<1>7. CASE shutdown \/ DeleteSimulators \/ ExitOne \/ Exited \/ UNCHANGED vars
    <2>. UNCHANGED <<wire, ecus, msg>> /\ ((tcpPc' = "data") <=> (tcpPc = "data"))
        BY <1>7, Zenon DEF shutdown, DeleteSimulators, ExitOne, Exited, vars
    <2>. QED  BY RefineFrame
<1>. QED  BY <1>1, <1>2, <1>3, <1>4, <1>5, <1>6, <1>7 DEF Next

(* ExchangeRefined holds for every configuration: the DoIP front, with its *)
(* two callbacks and its two findECU calls between which start_server     *)
(* threads keep registering ECUs, implements DoIPExchange, where every     *)
(* message is answered at once by the first ECU registered with its        *)
(* address.  The mapping counts the payload pending in receiveFromLibrary  *)
(* as sent; WireInv is what makes that payload well defined and unchanged  *)
(* by a later registration.                                                *)
THEOREM ExchangeRefinedHolds == Spec => ExchangeRefined
<1>1. Spec => [](TypeInv /\ WireInv /\ ServerOnce)
    <2>1. Init => TypeInv /\ WireInv /\ ServerOnce
        BY InitType, InitWire, InitServerOnce, DoIPAssumption
    <2>2. TypeInv /\ WireInv /\ ServerOnce /\ [Next]_vars
            => (TypeInv /\ WireInv /\ ServerOnce)'
        BY TypeStep, WireStep, ServerOnceStep, DoIPAssumption
    <2>. QED  BY <2>1, <2>2, PTL DEF Spec
<1>2. Init => Exchange!Init
    BY RefineInit
<1>3. TypeInv /\ WireInv /\ ServerOnce /\ [Next]_vars
        => [UNCHANGED <<wireBar, ecus>> \/ Exchange!Next]_<<wireBar, ecus>>
    BY RefineStep, DoIPAssumption
<1>. QED  BY <1>1, <1>2, <1>3, PTL DEF Spec, ExchangeRefined


(* The same refinement stated with DoIPExchange's own Spec: a step of the  *)
(* DoIP front is a Register, a Respond or a stutter of the abstract wire   *)
(* and ECU list.                                                           *)
THEOREM ImplementsExchange == Spec => Exchange!Spec
<1>1. [UNCHANGED <<wireBar, ecus>> \/ Exchange!Next]_<<wireBar, ecus>>
        => [Exchange!Next]_<<wireBar, ecus>>
    OBVIOUS
<1>. QED  BY ExchangeRefinedHolds, <1>1, PTL DEF ExchangeRefined, Exchange!Spec

=============================================================================
