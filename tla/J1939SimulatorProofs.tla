------------------------- MODULE J1939SimulatorProofs -------------------------
(***************************************************************************)
(* Proofs about the J1939Simulator threads and the two callers that end    *)
(* it, for every set of cyclic PGN keys, sender order, message set and     *)
(* retry bound.                                                            *)
(***************************************************************************)
EXTENDS J1939Simulator, TLAPS

\* Each of the two delete paths of main.cpp, start_server after
\* waitForSimulationEnd and the SIGINT handler, deletes the simulator once.
DeleteCount ==
    deletes = (IF mpc = "done" THEN 1 ELSE 0) + (IF hpc = "exited" THEN 1 ELSE 0)

\* The inductive invariant behind TypeOK.
Inv == TypeOK /\ DeleteCount

\* What the proofs use of the constants.
LEMMA ConstFacts ==
    /\ MaxRetries \in Nat \ {0}
    /\ Len(SenderOrder) \in Nat
    /\ Messages \subseteq Message
BY J1939Assumption

LEMMA InitInv == Init => Inv
<1>. SUFFICES ASSUME Init PROVE Inv
    OBVIOUS
<1>1. NoMessage \in Message /\ NoReply \in Reply \cup {NoReply}
    BY ConstFacts DEF NoMessage, Message, NoReply
<1>2. /\ spc \in [CyclicPGNs -> {"eval", "send", "sleep", "done"}]
      /\ retries \in [CyclicPGNs -> 0..MaxRetries]
      /\ joined \in 0..Len(SenderOrder)
      /\ deletes \in 0..2
    BY ConstFacts DEF Init
<1>3. DeleteCount
    BY DEF Init, DeleteCount
<1>4. TypeOK
    BY <1>1, <1>2, Zenon DEF Init, TypeOK, FdState
<1>. QED  BY <1>3, <1>4 DEF Inv

\* The receive thread: msg comes from Messages, and reply is one of the
\* four shapes or stays as it was.
LEMMA ReceiveStep ==
    ASSUME Inv,
           \/ \E m \in Messages : Receive(m)
           \/ RecvFails
           \/ processReceivedData
    PROVE  Inv'
<1>1. CASE \E m \in Messages : Receive(m)
    BY ConstFacts, <1>1 DEF Receive, Inv, TypeOK, DeleteCount
<1>2. CASE RecvFails
    BY ConstFacts, <1>2 DEF RecvFails, Inv, TypeOK, DeleteCount
<1>3. CASE processReceivedData
    <2>1. reply' \in Reply \cup {NoReply}
        BY ConstFacts, <1>3 DEF processReceivedData, Inv, TypeOK, Reply
    <2>. QED  BY ConstFacts, <1>3, <2>1 DEF processReceivedData, Inv, TypeOK, DeleteCount
<1>. QED  BY ConstFacts, <1>1, <1>2, <1>3

\* A sender only moves its own program counter and retry count, within
\* 0..MaxRetries: SendAttempt decrements only a positive count.
LEMMA SenderStep ==
    ASSUME Inv, NEW p \in CyclicPGNs,
           Evaluate(p) \/ SendAttempt(p) \/ CloseSendSocket(p) \/ Sleep(p)
    PROVE  Inv'
<1>1. CASE Evaluate(p)
    <2>1. /\ spc' \in [CyclicPGNs -> {"eval", "send", "sleep", "done"}]
          /\ retries' \in [CyclicPGNs -> 0..MaxRetries]
        BY ConstFacts, <1>1 DEF Evaluate, Inv, TypeOK
    <2>. QED  BY <1>1, <2>1, Zenon DEF Evaluate, Unchanged4Sender, Inv, TypeOK,
                                     DeleteCount
<1>2. CASE SendAttempt(p)
    <2>1. retries' \in [CyclicPGNs -> 0..MaxRetries]
        BY ConstFacts, <1>2 DEF SendAttempt, Inv, TypeOK
    <2>. QED  BY <1>2, <2>1, Zenon DEF SendAttempt, Unchanged4Sender, Inv,
                                     TypeOK, DeleteCount
<1>3. CASE CloseSendSocket(p)
    BY ConstFacts, <1>3 DEF CloseSendSocket, Unchanged4Sender, Inv, TypeOK, DeleteCount
<1>4. CASE Sleep(p)
    BY ConstFacts, <1>4 DEF Sleep, Unchanged4Sender, Inv, TypeOK, DeleteCount
<1>. QED  BY ConstFacts, <1>1, <1>2, <1>3, <1>4

\* start_server joins at most Len(SenderOrder) senders and deletes once,
\* when it leaves "delete" for "done".
LEMMA MainStep ==
    ASSUME Inv, JoinSender \/ JoinReceiver \/ DeleteAfterWait
    PROVE  Inv'
<1>1. CASE JoinSender
    <2>1. joined' \in 0..Len(SenderOrder)
        BY ConstFacts, <1>1 DEF JoinSender, Inv, TypeOK
    <2>. QED  BY <1>1, <2>1, Zenon DEF JoinSender, Inv, TypeOK, DeleteCount
<1>2. CASE JoinReceiver
    BY ConstFacts, <1>2 DEF JoinReceiver, Inv, TypeOK, DeleteCount
<1>3. CASE DeleteAfterWait
    BY ConstFacts, <1>3 DEF DeleteAfterWait, Running, Inv, TypeOK, DeleteCount
<1>. QED  BY ConstFacts, <1>1, <1>2, <1>3

\* The SIGINT handler deletes once, when it leaves "stopped" for "exited".
LEMMA HandlerStep ==
    ASSUME Inv, closeReceiver \/ DeleteAndExit \/ Exited
    PROVE  Inv'
<1>1. CASE closeReceiver
    BY ConstFacts, <1>1 DEF closeReceiver, Inv, TypeOK, DeleteCount, FdState
<1>2. CASE DeleteAndExit
    BY ConstFacts, <1>2 DEF DeleteAndExit, Inv, TypeOK, DeleteCount, FdState
<1>3. CASE Exited
    BY ConstFacts, <1>3 DEF Exited, vars, Inv, TypeOK, DeleteCount
<1>. QED  BY ConstFacts, <1>1, <1>2, <1>3

LEMMA InvStep ==
    ASSUME Inv, [Next]_vars
    PROVE  Inv'
<1>1. CASE UNCHANGED vars
    BY <1>1 DEF vars, Inv, TypeOK, DeleteCount
<1>. QED  BY <1>1, ReceiveStep, SenderStep, MainStep, HandlerStep DEF Next

(* Every thread of the J1939Simulator and both callers that end it keep    *)
(* their variables typed, for every set of cyclic PGN keys and retry      *)
(* bound: in particular sendCyclicMessage never takes its retry count     *)
(* below 0, waitForSimulationEnd joins no more threads than               *)
(* cyclicMessageThreads holds, and the simulator is deleted at most twice, *)
(* once by start_server and once by the SIGINT handler.                   *)
THEOREM TypeCorrect == Spec => []TypeOK
<1>1. Spec => []Inv
    BY InitInv, InvStep, PTL DEF Spec
<1>. QED  BY <1>1, PTL DEF Inv


-----------------------------------------------------------------------------
(* waitForSimulationEnd returns only after every thread has finished.      *)

\* The senders waitForSimulationEnd has joined have finished.
JoinedDone == \A k \in 1..joined : spc[SenderOrder[k]] = "done"

\* Past the joins, every sender and the receive thread were joined.
WaitJoined == mpc # "join" => joined = Len(SenderOrder) /\ rpc = "done"

\* The inductive invariant behind WaitEndsAfterThreads.
WaitInv == JoinedDone /\ WaitJoined

\* cyclicMessageThreads holds one thread per cyclic PGN key.
LEMMA OrderFacts ==
    /\ SenderOrder \in Seq(CyclicPGNs)
    /\ \A p \in CyclicPGNs : \E i \in 1..Len(SenderOrder) : SenderOrder[i] = p
<1>1. {SenderOrder[i] : i \in 1..Len(SenderOrder)} = CyclicPGNs
    BY J1939Assumption
<1>2. SenderOrder \in Seq(CyclicPGNs)
    BY J1939Assumption
<1>. QED  BY <1>1, <1>2, Zenon

LEMMA WaitInit == Init => WaitInv
BY DEF Init, WaitInv, JoinedDone, WaitJoined

\* A thread that has finished stays finished: every sender step moves a
\* sender that has not.
LEMMA SenderKeepsDone ==
    ASSUME TypeOK, NEW p \in CyclicPGNs,
           Evaluate(p) \/ SendAttempt(p) \/ CloseSendSocket(p) \/ Sleep(p)
    PROVE  /\ \A q \in CyclicPGNs : spc[q] = "done" => spc'[q] = "done"
           /\ UNCHANGED <<rpc, mpc, joined>>
<1>1. spc[p] # "done"
    BY DEF Evaluate, SendAttempt, CloseSendSocket, Sleep
<1>2. \/ spc' = spc
      \/ \E v \in {"done", "sleep", "send", "eval"} : spc' = [spc EXCEPT ![p] = v]
    BY Zenon DEF Evaluate, SendAttempt, CloseSendSocket, Sleep
<1>3. UNCHANGED <<rpc, mpc, joined>>
    BY Zenon DEF Evaluate, SendAttempt, CloseSendSocket, Sleep, Unchanged4Sender
<1>. QED  BY <1>1, <1>2, <1>3 DEF TypeOK

LEMMA WaitStep ==
    ASSUME TypeOK, WaitInv, [Next]_vars
    PROVE  WaitInv'
<1>0. \A k \in 1..joined : SenderOrder[k] \in CyclicPGNs
    BY OrderFacts DEF TypeOK
<1>1. CASE (\E m \in Messages : Receive(m)) \/ RecvFails \/ processReceivedData
    <2>1. rpc # "done" /\ UNCHANGED <<spc, mpc, joined>>
        BY <1>1 DEF Receive, RecvFails, processReceivedData
    <2>. QED  BY <2>1 DEF WaitInv, JoinedDone, WaitJoined
<1>2. CASE \E p \in CyclicPGNs :
              Evaluate(p) \/ SendAttempt(p) \/ CloseSendSocket(p) \/ Sleep(p)
    <2>1. /\ \A q \in CyclicPGNs : spc[q] = "done" => spc'[q] = "done"
          /\ UNCHANGED <<rpc, mpc, joined>>
        BY <1>2, SenderKeepsDone
    <2>. QED  BY <1>0, <2>1 DEF WaitInv, JoinedDone, WaitJoined
<1>3. CASE JoinSender
    <2>1. /\ joined' = joined + 1 /\ joined + 1 <= Len(SenderOrder)
          /\ spc[SenderOrder[joined + 1]] = "done"
          /\ UNCHANGED <<spc, mpc, rpc>> /\ mpc = "join"
        BY <1>3, ConstFacts DEF JoinSender, TypeOK
    <2>2. JoinedDone'
        BY <2>1 DEF WaitInv, JoinedDone, TypeOK
    <2>. QED  BY <2>1, <2>2 DEF WaitInv, WaitJoined
<1>4. CASE JoinReceiver \/ DeleteAfterWait
    <2>1. /\ UNCHANGED <<spc, joined, rpc>>
          /\ mpc' # "join" => joined = Len(SenderOrder) /\ rpc = "done"
        BY <1>4 DEF JoinReceiver, DeleteAfterWait, WaitInv, WaitJoined
    <2>. QED  BY <2>1 DEF WaitInv, JoinedDone, WaitJoined
<1>5. CASE closeReceiver \/ DeleteAndExit \/ Exited \/ UNCHANGED vars
    <2>1. UNCHANGED <<spc, mpc, joined, rpc>>
        <3>1. CASE closeReceiver \/ DeleteAndExit
            BY <3>1 DEF closeReceiver, DeleteAndExit
        <3>2. CASE Exited \/ UNCHANGED vars
            BY <3>2 DEF Exited, vars
        <3>. QED  BY <1>5, <3>1, <3>2
    <2>. QED  BY <2>1 DEF WaitInv, JoinedDone, WaitJoined
<1>. QED  BY <1>1, <1>2, <1>3, <1>4, <1>5 DEF Next

\* With every sender of cyclicMessageThreads joined, every cyclic PGN's
\* sender has finished.
LEMMA WaitInvImplies ==
    ASSUME TypeOK, WaitInv
    PROVE  WaitEndsAfterThreads
<1>. SUFFICES ASSUME mpc # "join"
              PROVE  rpc = "done" /\ \A p \in CyclicPGNs : spc[p] = "done"
    BY DEF WaitEndsAfterThreads
<1>1. joined = Len(SenderOrder) /\ rpc = "done"
    BY DEF WaitInv, WaitJoined
<1>2. ASSUME NEW p \in CyclicPGNs PROVE spc[p] = "done"
    <2>1. PICK i \in 1..Len(SenderOrder) : SenderOrder[i] = p
        BY OrderFacts
    <2>. QED  BY <1>1, <2>1 DEF WaitInv, JoinedDone
<1>. QED  BY <1>1, <1>2

(* WaitEndsAfterThreads holds for every set of cyclic PGN keys and every   *)
(* order of cyclicMessageThreads: when waitForSimulationEnd returns to     *)
(* start_server, which then deletes the simulator, the receive thread and  *)
(* every periodic sender have left their loops.                           *)
THEOREM WaitEndsAfterThreadsHolds == Spec => []WaitEndsAfterThreads
<1>1. Spec => [](Inv /\ WaitInv)
    <2>1. Init => Inv /\ WaitInv
        BY InitInv, WaitInit
    <2>2. Inv /\ WaitInv /\ [Next]_vars => (Inv /\ WaitInv)'
        BY InvStep, WaitStep DEF Inv
    <2>. QED  BY <2>1, <2>2, PTL DEF Spec
<1>2. Inv /\ WaitInv => WaitEndsAfterThreads
    BY WaitInvImplies DEF Inv
<1>. QED  BY <1>1, <1>2, PTL

=============================================================================
