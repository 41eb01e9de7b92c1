----------------------------- MODULE DoIPExchange -----------------------------
(***************************************************************************)
(* What the DoIP front promises a tester (spec 4.5): every diagnostic      *)
(* message is answered in one exchange, a negative ACK when no ECU has the *)
(* target address, and otherwise a positive ACK followed by the Raw        *)
(* response of the first ECU registered with that address.  ECUs are       *)
(* registered one at a time, at any moment.  DoIPSimServer implements it,  *)
(* although it answers in two callbacks between which ECUs keep arriving.  *)
(***************************************************************************)
EXTENDS Naturals, Sequences

CONSTANTS Configs, Addrs, Requests, RawResponse

EcuIds == {i \in DOMAIN Configs : Configs[i].addr \in Addrs}

VARIABLES
    wire,   \* everything sent to the tester
    ecus    \* the registered ECUs, in registration order

\* The positions of the ECUs registered with address a.
Serving(a) == {j \in 1..Len(ecus) : Configs[ecus[j]].addr = a}

\* The ECU that answers a: the first one registered with it, or 0.
Route(a) ==
    IF Serving(a) = {} THEN 0
    ELSE CHOOSE j \in Serving(a) : \A k \in Serving(a) : j <= k

\* The Raw response of ECU e to r on address a: its bytes, the negative
\* response when no pattern matches, nothing for an empty string.
Payload(e, a, r) ==
    CASE RawResponse[e][r] = "bytes" -> <<[kind |-> "raw", addr |-> a, ecu |-> e, req |-> r]>>
      [] RawResponse[e][r] = "none"  -> <<[kind |-> "nrc", addr |-> a, ecu |-> e, req |-> r]>>
      [] OTHER                       -> <<>>

Init ==
    /\ wire = <<>>
    /\ ecus = <<>>

Register(i) ==
    /\ ecus' = Append(ecus, i)
    /\ UNCHANGED wire

Respond(a, r) ==
    /\ wire' = wire \o
         IF Route(a) = 0
         THEN <<[kind |-> "nack", addr |-> a, ecu |-> 0, req |-> r]>>
         ELSE <<[kind |-> "ack", addr |-> a, ecu |-> 0, req |-> r]>>
                \o Payload(ecus[Route(a)], a, r)
    /\ UNCHANGED ecus

Next ==
    \/ \E i \in EcuIds : Register(i)
    \/ \E a \in Addrs, r \in Requests : Respond(a, r)

Spec == Init /\ [][Next]_<<wire, ecus>>
=============================================================================
