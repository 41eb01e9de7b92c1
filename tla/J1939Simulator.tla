---------------------------- MODULE J1939Simulator ----------------------------
(***************************************************************************)
(* One J1939Simulator (j1939_simulator.cpp) with the threads that run in   *)
(* it and the two callers that end it (main.cpp):                          *)
(*   - the receive thread (readDataThread / processReceivedData);          *)
(*   - one periodic sender per PGN key without '#' (sendCyclicMessage);    *)
(*   - the start_server thread, which waits in waitForSimulationEnd and    *)
(*     then deletes the simulator;                                         *)
(*   - the SIGINT handler, which calls stopSimulation, deletes the         *)
(*     simulator and exits the process.                                    *)
(* A received datagram is abstracted to what the PGN table lookup yields   *)
(* for it; payload bytes and formatting are left out.  The state of the   *)
(* receive socket is tracked because closeReceiver closes it while the     *)
(* receive thread may still be inside recvfrom or about to reply on it.    *)
(***************************************************************************)
EXTENDS Naturals, Sequences, FiniteSets

CONSTANTS
    CyclicPGNs,    \* PGN keys without '#': one sender thread each
    SenderOrder,   \* the order of cyclicMessageThreads (getLuaTableKeys order)
    Messages,      \* datagrams the bus may deliver to the receive thread
    MaxRetries     \* the 5 of sendCyclicMessage

\* What getJ1939PGNData yields for a datagram, as processReceivedData
\* classifies it: no entry, a "pgn#payload" redirect, an "ACK" string or
\* plain bytes; an unmatched request on PGN 0xEA00 is served from the
\* non-'#' PGN table.
Message == [response : {"", "redirect", "ack", "plain"}, requestPgn : BOOLEAN]

ASSUME J1939Assumption ==
    /\ IsFiniteSet(CyclicPGNs)
    /\ SenderOrder \in Seq(CyclicPGNs)
    /\ \A i, j \in 1..Len(SenderOrder) : SenderOrder[i] = SenderOrder[j] => i = j
    /\ {SenderOrder[i] : i \in 1..Len(SenderOrder)} = CyclicPGNs
    /\ Messages \subseteq Message
    /\ MaxRetries \in Nat \ {0}

\* What receive_skt_ denotes: the open socket, a closed descriptor not yet
\* reset, or -1.
FdState == {"open", "closed", "invalid"}

VARIABLES
    isOnExit,   \* isOnExit_ (a plain bool in the code)
    rxFd,       \* what the number in receive_skt_ denotes
    rpc,        \* receive thread: "recv", "process", "done"
    msg,        \* the datagram being processed
    spc,        \* spc[p]: sender p at "eval", "send", "sleep", "done"
    retries,    \* retries[p]
    mpc,        \* start_server thread: "join", "delete", "done"
    joined,     \* how many cyclic threads waitForSimulationEnd has joined
    hpc,        \* SIGINT handler: "idle", "stopped", "exited"
    deletes,    \* how often the simulator object has been deleted
    reply       \* the last datagram the receive thread sent


vars == <<isOnExit, rxFd, rpc, msg, spc, retries, mpc, joined, hpc, deletes,
          reply>>

NoMessage == [response |-> "", requestPgn |-> FALSE]

\* Where a reply goes: the PGN it is sent on (the request's own, the one
\* before '#' in the response, 0xE800, or the one an 0xEA00 request names)
\* and its destination address (the requester, or 0xFF).
Reply == [pgn : {"own", "fromResponse", "E800", "requested"},
          to : {"requester", "broadcast"}]
NoReply == [pgn |-> "none", to |-> "none"]

\* The constructor has opened the receive socket and started all threads.
Init ==
    /\ isOnExit = FALSE
    /\ rxFd = "open"
    /\ rpc = "recv"
    /\ msg = NoMessage
    /\ spc = [p \in CyclicPGNs |-> "eval"]
    /\ retries = [p \in CyclicPGNs |-> 0]
    /\ mpc = "join"
    /\ joined = 0
    /\ hpc = "idle"
    /\ deletes = 0
    /\ reply = NoReply

Running == hpc # "exited"

-----------------------------------------------------------------------------
(* The receive thread. *)

\* recvfrom returns a datagram; a call that blocked before closeReceiver
\* closed the socket may still return one.
Receive(m) ==
    /\ Running /\ rpc = "recv" /\ rxFd # "invalid"
    /\ msg' = m
    /\ rpc' = "process"
    /\ UNCHANGED <<isOnExit, rxFd, spc, retries, mpc, joined, hpc,
                   deletes, reply>>

\* recvfrom on the closed (or -1) descriptor fails (num_bytes is then
\* (size_t)-1 and not processed); the do-while loop re-checks isOnExit_.
\* A recvfrom already blocked when closeReceiver calls close() is not woken
\* by it on Linux, so this step is not bound to happen.
RecvFails ==
    /\ Running /\ rpc = "recv" /\ rxFd # "open"
    /\ rpc' = IF isOnExit THEN "done" ELSE "recv"
    /\ UNCHANGED <<isOnExit, rxFd, msg, spc, retries, mpc, joined,
                   hpc, deletes, reply>>

\* processReceivedData: a matched response is sent in any of its three
\* shapes, an unmatched 0xEA00 request is answered from the PGN map, and
\* anything else is dropped; all replies go out on receive_skt_.  Then the
\* loop condition.
processReceivedData ==
    /\ Running /\ rpc = "process"
    /\ reply' =
         CASE msg.response = "redirect" -> [pgn |-> "fromResponse", to |-> "requester"]
           [] msg.response = "ack"      -> [pgn |-> "E800", to |-> "broadcast"]
           [] msg.response = "plain"    -> [pgn |-> "own", to |-> "requester"]
           [] msg.requestPgn            -> [pgn |-> "requested", to |-> "requester"]
           [] OTHER                     -> reply
    /\ rpc' = IF isOnExit THEN "done" ELSE "recv"
    /\ UNCHANGED <<isOnExit, rxFd, msg, spc, retries, mpc, joined,
                   hpc, deletes>>

-----------------------------------------------------------------------------
(* The periodic senders. *)

Unchanged4Sender == UNCHANGED <<isOnExit, rxFd, rpc, msg, mpc, joined, hpc,
                                deletes, reply>>

\* getJ1939PGNData re-evaluates the script: a cycleTime of 0 ends the
\* thread; otherwise isBusActive decides whether this cycle opens the
\* ephemeral send socket.
Evaluate(p) ==
    /\ Running /\ spc[p] = "eval"
    /\ \/ /\ spc' = [spc EXCEPT ![p] = "done"]          \* cycleTime == 0
          /\ UNCHANGED retries
       \/ /\ spc' = [spc EXCEPT ![p] = "sleep"]         \* bus not active
          /\ UNCHANGED retries
       \/ /\ spc' = [spc EXCEPT ![p] = "send"]          \* openCyclicSendSocket
          /\ retries' = [retries EXCEPT ![p] = MaxRetries]
    /\ Unchanged4Sender

SendAttemptUnguarded(p) ==
    /\ Running /\ spc[p] = "send"
    /\ \/ retries' = [retries EXCEPT ![p] = 0]
       \/ retries' = [retries EXCEPT ![p] = @ - 1]
    /\ UNCHANGED spc
    /\ Unchanged4Sender

\* One non-blocking sendto: success or a hard error ends the loop, EAGAIN
\* costs one retry (and 50 ms).
SendAttempt(p) ==
    /\ Running /\ spc[p] = "send" /\ retries[p] > 0
    /\ \/ retries' = [retries EXCEPT ![p] = 0]
       \/ retries' = [retries EXCEPT ![p] = @ - 1]
    /\ UNCHANGED spc
    /\ Unchanged4Sender

\* close(sendSkt) once the retries are used up.
CloseSendSocket(p) ==
    /\ Running /\ spc[p] = "send" /\ retries[p] = 0
    /\ spc' = [spc EXCEPT ![p] = "sleep"]
    /\ UNCHANGED retries
    /\ Unchanged4Sender

SleepIgnoresExit(p) ==
    /\ Running /\ spc[p] = "sleep"
    /\ spc' = [spc EXCEPT ![p] = "eval"]
    /\ UNCHANGED retries
    /\ Unchanged4Sender

\* usleep(cycleTime), then while (!isOnExit_).
Sleep(p) ==
    /\ Running /\ spc[p] = "sleep"
    /\ spc' = [spc EXCEPT ![p] = IF isOnExit THEN "done" ELSE "eval"]
    /\ UNCHANGED retries
    /\ Unchanged4Sender

-----------------------------------------------------------------------------
(* start_server: waitForSimulationEnd, then delete j1939Simulator. *)

JoinSender ==
    /\ Running /\ mpc = "join" /\ joined < Len(SenderOrder)
    /\ spc[SenderOrder[joined + 1]] = "done"
    /\ joined' = joined + 1
    /\ UNCHANGED <<isOnExit, rxFd, rpc, msg, spc, retries, mpc, hpc,
                   deletes, reply>>

JoinReceiverEarly ==
    /\ Running /\ mpc = "join" /\ joined >= Len(SenderOrder) - 1
    /\ rpc = "done"
    /\ mpc' = "delete"
    /\ UNCHANGED <<isOnExit, rxFd, rpc, msg, spc, retries, joined,
                   hpc, deletes, reply>>

JoinReceiver ==
    /\ Running /\ mpc = "join" /\ joined = Len(SenderOrder)
    /\ rpc = "done"
    /\ mpc' = "delete"
    /\ UNCHANGED <<isOnExit, rxFd, rpc, msg, spc, retries, joined,
                   hpc, deletes, reply>>

DeleteAfterWait ==
    /\ Running /\ mpc = "delete"
    /\ deletes' = deletes + 1
    /\ mpc' = "done"
    /\ UNCHANGED <<isOnExit, rxFd, rpc, msg, spc, retries, joined,
                   hpc, reply>>

-----------------------------------------------------------------------------
(* signalHandler(SIGINT). *)

\* stopSimulation -> closeReceiver: isOnExit_ = true, close(receive_skt_),
\* receive_skt_ = -1.  The release of the number and the reset of the field
\* are two steps.
closeReceiver ==
    /\ hpc = "idle"
    /\ isOnExit' = TRUE
    /\ rxFd' = "closed"
    /\ hpc' = "stopped"
    /\ UNCHANGED <<rpc, msg, spc, retries, mpc, joined, deletes, reply>>

\* receive_skt_ = -1, delete simulator, exit(1).
DeleteAndExit ==
    /\ hpc = "stopped"
    /\ rxFd' = IF rxFd = "closed" THEN "invalid" ELSE rxFd
    /\ deletes' = deletes + 1
    /\ hpc' = "exited"
    /\ UNCHANGED <<isOnExit, rpc, msg, spc, retries, mpc, joined, reply>>

\* After exit(1) nothing runs any more.
Exited ==
    /\ hpc = "exited"
    /\ UNCHANGED vars

Next ==
    \/ \E m \in Messages : Receive(m)
    \/ RecvFails
    \/ processReceivedData
    \/ \E p \in CyclicPGNs :
          Evaluate(p) \/ SendAttempt(p) \/ CloseSendSocket(p) \/ Sleep(p)
    \/ JoinSender \/ JoinReceiver \/ DeleteAfterWait
    \/ closeReceiver \/ DeleteAndExit
    \/ Exited

Spec == Init /\ [][Next]_vars

\* Every thread is an OS thread, so each one that can go on without
\* waiting on the outside world eventually does. The bus (which datagrams
\* arrive, whether a send hits EAGAIN), the receive thread's recvfrom
\* (blocking, no timeout, not woken by close) and the SIGINT handler get
\* no fairness: a frame or a signal may never come.
Fairness ==
    /\ WF_vars(processReceivedData)
    /\ \A p \in CyclicPGNs :
          WF_vars(Evaluate(p) \/ SendAttempt(p) \/ CloseSendSocket(p) \/ Sleep(p))
    /\ WF_vars(JoinSender \/ JoinReceiver \/ DeleteAfterWait)

FairSpec == Spec /\ Fairness

-----------------------------------------------------------------------------
TypeOK ==
    /\ isOnExit \in BOOLEAN
    /\ rxFd \in FdState
    /\ rpc \in {"recv", "process", "done"}
    /\ msg \in Message
    /\ spc \in [CyclicPGNs -> {"eval", "send", "sleep", "done"}]
    /\ retries \in [CyclicPGNs -> 0..MaxRetries]
    /\ mpc \in {"join", "delete", "done"}
    /\ joined \in 0..Len(SenderOrder)
    /\ hpc \in {"idle", "stopped", "exited"}
    /\ deletes \in 0..2
    /\ reply \in Reply \cup {NoReply}

\* The periodic senders stop: once stopSimulation has set isOnExit_, every
\* sendCyclicMessage loop (non-blocking sendto with at most MaxRetries
\* retries, then usleep) observes the flag at its while (!isOnExit_) and
\* returns, unless the process exited first. The receive thread is not
\* included: its blocking recvfrom may never return.
SendersStopOnExit ==
    isOnExit ~> (~Running \/ \A p \in CyclicPGNs : spc[p] = "done")

\* waitForSimulationEnd returns only after it has joined every periodic
\* sender and the receive thread, so start_server's delete never frees the
\* simulator under a thread of its own (the SIGINT handler's delete is
\* another matter, see DeletedOnceAfterThreads).
WaitEndsAfterThreads ==
    mpc # "join" => rpc = "done" /\ \A p \in CyclicPGNs : spc[p] = "done"

\* The J1939Simulator object is deleted once, and only after every thread
\* running in it has finished (neither main.cpp path deletes it under a
\* running thread, and ~J1939Simulator never deletes a joinable thread).
DeletedOnceAfterThreads ==
    /\ deletes <= 1
    /\ deletes = 1 => rpc = "done" /\ \A p \in CyclicPGNs : spc[p] = "done"
=============================================================================
