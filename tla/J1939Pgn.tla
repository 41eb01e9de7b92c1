------------------------------- MODULE J1939Pgn -------------------------------
(***************************************************************************)
(* The byte and string conversions the J1939 front makes between the Lua   *)
(* script and the bus: EcuLuaScript::intToHexString and                     *)
(* literalHexStrToBytes (part_002), J1939Simulator::parsePGN and           *)
(* assembleACK (j1939_simulator.cpp), and the two paths of                 *)
(* processReceivedData and sendCyclicMessage that compose them: the PGN    *)
(* requested on 0xEA00, the PGN of a cyclic PGNs key, and the ACK payload. *)
(*                                                                         *)
(* A C string is a sequence of one-character strings; strtol is modelled   *)
(* as it parses: leading blanks, then the longest run of digits.           *)
(***************************************************************************)
EXTENDS Naturals, Sequences, SequencesExt

CONSTANTS
    Bytes,      \* byte values a received payload is made of
    MaxReqLen,  \* bound on the length of a received payload
    Pgns,       \* PGNs a datagram may arrive on
    SrcAddrs,   \* source addresses of senders
    PGNTable,   \* the script's PGNs keys without '#': key -> [payload, cycleTime]
    Responses   \* what the payload-matched PGN tree may answer ("" = no match)

\* HEX_LUT of ecu_lua_script.h.
HEX_LUT == <<"0", "1", "2", "3", "4", "5", "6", "7",
             "8", "9", "A", "B", "C", "D", "E", "F">>

DecDigits == {"0", "1", "2", "3", "4", "5", "6", "7", "8", "9"}
HexDigits == {HEX_LUT[i] : i \in 1..16}

\* The script's strings are made of these characters.
Chars == HexDigits \cup {"_", ".", ",", ";", " ", "#", "A", "C", "K"}
String == Seq(Chars)

ASSUME J1939PgnAssumption ==
    /\ Bytes \subseteq 0..255 /\ SrcAddrs \subseteq 0..255
    /\ MaxReqLen \in Nat
    /\ Pgns \subseteq 0..(2^18 - 1)
    /\ PGNTable \in [DOMAIN PGNTable -> [payload : String, cycleTime : Nat]]
    /\ \A k \in DOMAIN PGNTable : k \in String /\ k # <<>> /\ \A i \in 1..Len(k) : k[i] # "#"
    /\ Responses \subseteq String

\* The value of a digit character in base 16 (and so in base 10).
DigitVal(c) == CHOOSE i \in 0..15 : HEX_LUT[i + 1] = c

\* intToHexString: two upper-case digits per byte, separated by blanks.
intToHexString(buf) ==
    IF buf = <<>> THEN <<>>
    ELSE FoldLeft(LAMBDA acc, b : acc \o << " ", HEX_LUT[b \div 16 + 1],
                                             HEX_LUT[(b % 16) + 1] >>,
                  << HEX_LUT[Head(buf) \div 16 + 1], HEX_LUT[(Head(buf) % 16) + 1] >>,
                  Tail(buf))

\* strtol(s, NULL, base): skip leading blanks, then read the longest run of
\* digits of the base; no digit gives 0.  Keys have at most a handful of
\* digits, so the long never overflows.
strtol(s, base) ==
    LET digits == IF base = 10 THEN DecDigits ELSE HexDigits
        start  == IF \E i \in 1..Len(s) : s[i] # " "
                  THEN CHOOSE i \in 1..Len(s) : s[i] # " " /\ \A j \in 1..(i - 1) : s[j] = " "
                  ELSE Len(s) + 1
        stop   == CHOOSE e \in (start - 1)..Len(s) :
                     /\ \A j \in start..e : s[j] \in digits
                     /\ e < Len(s) => s[e + 1] \notin digits
    IN  FoldLeft(LAMBDA acc, c : acc * base + DigitVal(c), 0, SubSeq(s, start, stop))

\* literalHexStrToBytes: drop the blanks (and only the blanks), then
\* strtol(.., 16) on every unit of two characters (the last may have one),
\* cast to uint8_t.
literalHexStrToBytes(s) ==
    LET t == Remove(s, " ")
        n == (Len(t) + 1) \div 2
    IN  [i \in 1..n |-> strtol(SubSeq(t, 2 * i - 1, IF 2 * i <= Len(t) THEN 2 * i ELSE Len(t)), 16) % 256]

\* cleanupString: drop every separator of "_.,; #\t".
Separators == {"_", ".", ",", ";", " ", "#", "\t"}
cleanupString(s) == SelectSeq(s, LAMBDA c : c \notin Separators)


\* The value of at most three bytes, least significant first: the loop of
\* parsePGN shifts the last byte in first.
LittleEndian(bytes) == FoldRight(LAMBDA b, acc : acc * 256 + b, bytes, 0)

BigEndian(bytes) == FoldLeft(LAMBDA acc, b : acc * 256 + b, 0, bytes)

\* The three low bytes of a PGN as processReceivedData and assembleACK lay
\* them out: (uint8_t)(pgn >> 0), (pgn >> 8), (pgn >> 16).
PgnBytes(pgn) == << pgn % 256, (pgn \div 256) % 256, (pgn \div 65536) % 256 >>

\* Mutants of parsePGN: the bytes put together big-endian, the decimal
\* attempt for strings shorter than 9 characters, no bound on the bytes.
parsePGNBigEndian(pgn) ==
    LET dec == IF Len(pgn) < 6 THEN strtol(pgn, 10) ELSE 0
        bytes == literalHexStrToBytes(pgn)
    IN  IF dec = 0 \/ dec > 99999
        THEN IF Len(bytes) <= 3 THEN BigEndian(bytes) ELSE 0
        ELSE dec

parsePGNLongDecimal(pgn) ==
    LET dec == IF Len(pgn) < 9 THEN strtol(pgn, 10) ELSE 0
        bytes == literalHexStrToBytes(pgn)
    IN  IF dec = 0 \/ dec > 99999
        THEN IF Len(bytes) <= 3 THEN LittleEndian(bytes) ELSE 0
        ELSE dec

parsePGNUnbounded(pgn) ==
    LET dec == IF Len(pgn) < 6 THEN strtol(pgn, 10) ELSE 0
        bytes == literalHexStrToBytes(pgn)
    IN  IF dec = 0 \/ dec > 99999
        THEN LittleEndian(bytes)
        ELSE dec

\* parsePGN: decimal when strnlen(pgn, 6) < 6 (every character counts,
\* blanks included) and strtol(.., 10) gives a number in 1..99999 (five
\* characters cannot exceed 99999, so the cast to uint32_t changes nothing);
\* otherwise the little-endian value of literalHexStrToBytes, and 0 when
\* that gives more than three bytes.
parsePGN(pgn) ==
    LET dec == IF Len(pgn) < 6 THEN strtol(pgn, 10) ELSE 0
        bytes == literalHexStrToBytes(pgn)
    IN  IF dec = 0 \/ dec > 99999
        THEN IF Len(bytes) <= 3 THEN LittleEndian(bytes) ELSE 0
        ELSE dec

assembleACKNoDefaults(ackInfoByteString, targetAddress, pgn) ==
    LET ackInfo == literalHexStrToBytes(ackInfoByteString)
    IN  SubSeq(ackInfo, 1, IF Len(ackInfo) < 2 THEN Len(ackInfo) ELSE 2)
          \o << 255, 255, targetAddress >> \o PgnBytes(pgn)

\* assembleACK: control byte and group function value from the script
\* (0x00 when missing), two reserved 0xFF, the address acknowledged and the
\* three low bytes of the PGN.
assembleACK(ackInfoByteString, targetAddress, pgn) ==
    LET ackInfo == literalHexStrToBytes(ackInfoByteString)
        Byte(i) == IF Len(ackInfo) >= i THEN ackInfo[i] ELSE 0
    IN  << Byte(1), Byte(2), 255, 255, targetAddress >> \o PgnBytes(pgn)

-----------------------------------------------------------------------------
(* The dispatcher.  Every step is one call: processReceivedData for one     *)
(* datagram, or one round of a cyclic sender; `last` is the datagram the    *)
(* call hands to sendJ1939Message, with the input that caused it.           *)

NoKey == <<>>
NoFrame == [via |-> "none", pgn |-> 0, addr |-> 0, data |-> <<>>, key |-> NoKey,
            inPgn |-> 0, src |-> 0, req |-> <<>>]

\* The payloads a datagram may carry.
Payloads == UNION {[1..n -> Bytes] : n \in 0..MaxReqLen}

VARIABLE last

Init == last = NoFrame

\* buildRequestPGNMap keeps the first key of each cleaned form; the order
\* of getLuaTableKeys is Lua's, so any key of the form may be kept.
RequestMapKeys(str) == {k \in DOMAIN PGNTable : cleanupString(k) = cleanupString(str)}

\* processReceivedData: the tree's answer first; '#' splits a responding
\* PGN from the payload, "ACK" asks for an acknowledgement on 0xE800 to the
\* global address, anything else is sent on the request's PGN.  Without an
\* answer, a request on 0xEA00 is looked up in the request PGN map and
\* answered (with an empty payload when the map has no such key) on the
\* PGN its payload encodes.
processReceivedData(pgn, src, buf) ==
    LET in == [inPgn |-> pgn, src |-> src, req |-> buf]
        pgnRequestPayload == intToHexString(buf)
    IN
    \E resp \in Responses :
      LET sep == SelectInSeq(resp, LAMBDA c : c = "#") IN
      \/ /\ resp # <<>> /\ sep # 0
         /\ last' = [via |-> "hash", pgn |-> parsePGN(SubSeq(resp, 1, sep - 1)), addr |-> src,
                     data |-> literalHexStrToBytes(SubSeq(resp, sep + 1, Len(resp))),
                     key |-> NoKey] @@ in
      \/ /\ resp # <<>> /\ sep = 0 /\ SubSeq(resp, 1, 3) = <<"A", "C", "K">>
         /\ last' = [via |-> "ack", pgn |-> 59392, addr |-> 255,
                     data |-> assembleACK(SubSeq(resp, 4, Len(resp)), src, pgn),
                     key |-> NoKey] @@ in
      \/ /\ resp # <<>> /\ sep = 0 /\ SubSeq(resp, 1, 3) # <<"A", "C", "K">>
         /\ last' = [via |-> "plain", pgn |-> pgn, addr |-> src,
                     data |-> literalHexStrToBytes(resp), key |-> NoKey] @@ in
      \/ /\ resp = <<>> /\ pgn = 59904
         /\ \/ /\ RequestMapKeys(pgnRequestPayload) = {}
               /\ last' = [via |-> "request", pgn |-> parsePGN(pgnRequestPayload), addr |-> src,
                           data |-> <<>>, key |-> NoKey] @@ in
            \/ \E k \in RequestMapKeys(pgnRequestPayload) :
                  last' = [via |-> "request", pgn |-> parsePGN(pgnRequestPayload), addr |-> src,
                           data |-> literalHexStrToBytes(PGNTable[k].payload), key |-> k] @@ in
      \/ /\ resp = <<>> /\ pgn # 59904
         /\ last' = NoFrame

\* sendCyclicMessage: the key's PGN, then one round of the loop: a cycle
\* time of 0 ends the thread, otherwise the payload goes to the global
\* address (the retries on a busy bus are J1939Simulator's).
sendCyclicMessage(k) ==
    \/ /\ PGNTable[k].cycleTime # 0
       /\ last' = [via |-> "cyclic", pgn |-> parsePGN(k), addr |-> 255,
                   data |-> literalHexStrToBytes(PGNTable[k].payload), key |-> k,
                   inPgn |-> 0, src |-> 0, req |-> <<>>]
    \/ /\ PGNTable[k].cycleTime = 0
       /\ last' = NoFrame

Next ==
    \/ \E pgn \in Pgns, src \in SrcAddrs, buf \in Payloads : processReceivedData(pgn, src, buf)
    \/ \E k \in DOMAIN PGNTable : sendCyclicMessage(k)

Spec == Init /\ [][Next]_last

-----------------------------------------------------------------------------
TypeOK ==
    last \in [via : {"none", "hash", "ack", "plain", "request", "cyclic"},
              pgn : 0..(2^24 - 1), addr : 0..255, data : Seq(0..255),
              key : DOMAIN PGNTable \cup {NoKey}, inPgn : Pgns \cup {0},
              src : SrcAddrs \cup {0}, req : Payloads]

\* A PGN request on 0xEA00 carrying three bytes (the J1939-21 request) is
\* answered on the PGN those bytes encode, least significant byte first,
\* after processReceivedData turned them into a hex string and parsePGN
\* parsed it back.
RequestedPgnDecoded ==
    last.via = "request" /\ Len(last.req) = 3 => last.pgn = LittleEndian(last.req)

\* The acknowledgement of spec scenario 6: eight bytes, the script's
\* control and group function bytes (0x00 when missing), 0xFF 0xFF, the
\* requester's address and the request's PGN, sent on 0xE800 to 0xFF.
AckLayout ==
    last.via = "ack" =>
        /\ last.pgn = 59392 /\ last.addr = 255 /\ Len(last.data) = 8
        /\ SubSeq(last.data, 3, 8) = << 255, 255, last.src >> \o PgnBytes(last.inPgn)

\* Spec 4.6: a PGN string is decimal when it has fewer than six
\* non-separator characters and is a decimal number in 1..99999, and
\* otherwise little-endian hex bytes (up to three).
SpecPGN(str) ==
    LET t == cleanupString(str)
        isDec == /\ Len(t) < 6
                 /\ \A i \in 1..Len(t) : t[i] \in DecDigits
                 /\ strtol(t, 10) \in 1..99999
    IN  IF isDec THEN strtol(t, 10) ELSE LittleEndian(literalHexStrToBytes(t))

\* Every cyclic PGN key is sent on the PGN spec 4.6 gives it.
ParsePGNAsSpecified ==
    last.via = "cyclic" /\ Len(cleanupString(last.key)) <= 6 => last.pgn = SpecPGN(last.key)
====
