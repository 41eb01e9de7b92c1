----------------------------- MODULE PatternTree -----------------------------
(***************************************************************************)
(* The request byte tree of one ECU script (RequestByteTreeNode, in        *)
(* src/src/doip_sim_server.cpp) and the two EcuLuaScript operations on it: *)
(* buildRequestByteTree, which inserts the keys of the Lua `Raw` (or       *)
(* `PGNs`) table one at a time, and getValueFromTree, which matches a      *)
(* request against the tree (src/unnamed/part_002).                        *)
(*                                                                         *)
(* A node is identified by its path from the root: the sequence of edge    *)
(* labels (a concrete byte, Placeholder for an "XX" edge, Wildcard for a   *)
(* trailing "*" edge).  placeholderCount and requestLength are functions   *)
(* of the path.  A parsed Lua key is its sequence of two-character units   *)
(* (each parsed to a byte or to Placeholder) and its tail: nothing, a      *)
(* trailing "*", or a trailing odd character that is not "*".  The         *)
(* response of the i-th inserted key is its index i (0 = no response).     *)
(***************************************************************************)
EXTENDS Naturals, SequencesExt

CONSTANTS
    Bytes,              \* request byte values used in keys and requests
    Placeholder,        \* the "XX" edge label
    Wildcard,           \* the trailing "*" edge label
    MaxKeyUnits,        \* longest key, in two-character units
    MaxKeys,            \* number of keys of the Lua table
    MaxRequest,         \* longest request matched
    UninitWildcardBit   \* TRUE: the never-initialized `wildcard` member of a
                        \* non-wildcard node may read as true

ASSUME ConstantsAssumption ==
    /\ Bytes \subseteq Nat
    /\ Placeholder \notin Bytes /\ Wildcard \notin Bytes
    /\ Placeholder # Wildcard
    /\ MaxKeyUnits \in Nat /\ MaxKeys \in Nat /\ MaxRequest \in Nat
    /\ UninitWildcardBit \in BOOLEAN

Unit == Bytes \cup {Placeholder}
Label == Unit \cup {Wildcard}
KeyTail == {"none", "wildcard", "odd"}
Key == [units : SeqOf(Unit, MaxKeyUnits), tail : KeyTail]
Request == {r \in SeqOf(Bytes, MaxRequest) : Len(r) > 0}

NoResponse == 0          \* an empty optional<luaResponse>
NoNode == <<Wildcard, Wildcard>>   \* a null shared_ptr; never a node path

\* The path of the leaf a key is bound to when its insertion succeeds.
KeyPath(k) == IF k.tail = "wildcard" THEN Append(k.units, Wildcard) ELSE k.units

\* The values the `wildcard` member of a freshly constructed node may hold.
FreshWildcardBit == IF UninitWildcardBit THEN BOOLEAN ELSE {FALSE}

VARIABLES
    nodes,        \* the node paths of the tree, root = <<>>
    luaResponse,  \* node -> index of the key bound to it, or NoResponse
    wildcard,     \* node -> value of its `wildcard` member
    luaKeys,      \* the keys of the Lua table, in getLuaTableKeys order
    keyIdx,       \* how many of luaKeys buildRequestByteTree has processed
    lookup        \* the last getValueFromTree call: request and result

vars == <<nodes, luaResponse, wildcard, luaKeys, keyIdx, lookup>>

-----------------------------------------------------------------------------
(* Node metadata.                                                          *)

getPlaceholderCount(n) == Cardinality({i \in 1..Len(n) : n[i] = Placeholder})
getRequestLength(n) == Len(n)
isWildcard(n) == wildcard[n]

\* Mutant: the byte is not compared, every child of n is added.
AnyByteChild(n, b) ==
    {c \in nodes : Len(c) = Len(n) + 1 /\ Front(c) = n}

\* The children of n that findAndAddMatchesForNextByte adds for byte b:
\* the concrete child, the placeholder child and the wildcard child.
findAndAddMatchesForNextByte(n, b) ==
    {c \in {Append(n, b), Append(n, Placeholder), Append(n, Wildcard)} : c \in nodes}

\* Mutant: a node marked wildcard is expanded like any other (the
\* `continue` is lost), so it drops out of the candidate set.
NextCandidatesNoAbsorb(S, b) ==
    UNION {findAndAddMatchesForNextByte(n, b) : n \in S}

\* One iteration of the loop of getValueFromTree: a node whose `wildcard`
\* member is set stays, every other node is replaced by its matching children.
NextCandidates(S, b) ==
    UNION {IF isWildcard(n) THEN {n} ELSE findAndAddMatchesForNextByte(n, b) : n \in S}

\* The candidate set after the whole request (the loop breaks early on an
\* empty set, which NextCandidates keeps empty).
Candidates(r) ==
    LET c[i \in 0..Len(r)] == IF i = 0 THEN {<<>>} ELSE NextCandidates(c[i-1], r[i])
    IN  c[Len(r)]

\* A node without a response stands for its wildcard child, if it has one
\* (a wildcard also matches zero bytes).
getThisOrNextWildcardWithResponse(n) ==
    IF luaResponse[n] = NoResponse /\ Append(n, Wildcard) \in nodes
    THEN Append(n, Wildcard) ELSE n

\* One iteration of findBestMatchingRequest: best is the node kept so far,
\* item the next element of the std::set.
BetterMatch(best, item) ==
    LET m == getThisOrNextWildcardWithResponse(item) IN
    CASE luaResponse[m] = NoResponse -> best
      [] best = NoNode -> m
      [] isWildcard(best) /\ ~isWildcard(m) -> m
      [] isWildcard(m) /\ getRequestLength(m) > getRequestLength(best) -> m
      [] getPlaceholderCount(m) < getPlaceholderCount(best) -> m
      [] OTHER -> best

\* findBestMatchingRequest over the candidates in the order `order`.  The
\* std::set of shared_ptr iterates in address order, which the allocator
\* decides: every order of the candidates is possible.
findBestMatchingRequest(order) ==
    LET b[i \in 0..Len(order)] == IF i = 0 THEN NoNode ELSE BetterMatch(b[i-1], order[i])
    IN  b[Len(order)]

\* getValueFromTree(r) can return the response of `best`.
getValueFromTree(r, best) ==
    \E order \in SetToSeqs(Candidates(r)) : findBestMatchingRequest(order) = best

ResponseOf(best) == IF best = NoNode THEN NoResponse ELSE luaResponse[best]

-----------------------------------------------------------------------------
(* Building the tree.                                                      *)

Init ==
    /\ luaKeys \in SeqOf(Key, MaxKeys)
    /\ nodes = {<<>>}
    /\ luaResponse = [n \in nodes |-> NoResponse]
    /\ wildcard \in [nodes -> FreshWildcardBit]
    /\ keyIdx = 0
    /\ lookup = [request |-> <<>>, result |-> NoResponse]

\* The tree after addRequestToTree appended the nodes of `path` (appendByte
\* and appendPlaceholder reuse an existing child, appendWildcard creates a
\* node whose `wildcard` member is true) and setLuaResponse bound `resp` to
\* the last one (resp = NoResponse: nothing bound, the insertion threw).
AppendPath(path, resp) ==
    LET new == Prefixes(path) \ nodes IN
    /\ nodes' = nodes \cup new
    /\ \E bits \in [new -> FreshWildcardBit] :
          wildcard' = [n \in nodes' |->
                         IF n \in nodes THEN wildcard[n]
                         ELSE IF Last(n) = Wildcard THEN TRUE ELSE bits[n]]
    /\ luaResponse' = [n \in nodes' |->
                         IF n = path /\ resp # NoResponse THEN resp
                         ELSE IF n \in nodes THEN luaResponse[n] ELSE NoResponse]

\* Mutant: appendWildcard without its duplicate check, so a second key
\* with the same wildcard path overwrites the first.
BuildNoDuplicateCheck ==
    /\ keyIdx < Len(luaKeys)
    /\ LET k == luaKeys[keyIdx + 1] IN
       IF k.tail = "odd" THEN AppendPath(k.units, NoResponse)
       ELSE AppendPath(KeyPath(k), keyIdx + 1)
    /\ keyIdx' = keyIdx + 1
    /\ UNCHANGED <<luaKeys, lookup>>

\* Mutant: the key loop advances by two, as the unit loop of
\* addRequestToTree does, and skips every other key.
BuildSkipsKeys ==
    /\ keyIdx < Len(luaKeys)
    /\ LET k == luaKeys[keyIdx + 1] IN
       IF k.tail = "odd" THEN AppendPath(k.units, NoResponse)
       ELSE AppendPath(KeyPath(k), keyIdx + 1)
    /\ keyIdx' = keyIdx + 2
    /\ UNCHANGED <<luaKeys, lookup>>

\* One iteration of buildRequestByteTree: addRequestToTree for the next
\* key, then setLuaResponse; an exception (odd number of digits, or a
\* second wildcard after the same prefix) is caught and the key skipped,
\* keeping the nodes already appended for it.
buildRequestByteTree ==
    /\ keyIdx < Len(luaKeys)
    /\ LET k == luaKeys[keyIdx + 1] IN
       CASE k.tail = "odd" ->
              AppendPath(k.units, NoResponse)
         [] k.tail = "wildcard" /\ KeyPath(k) \in nodes ->
              AppendPath(k.units, NoResponse)
         [] OTHER ->
              AppendPath(KeyPath(k), keyIdx + 1)
    /\ keyIdx' = keyIdx + 1
    /\ UNCHANGED <<luaKeys, lookup>>

\* A getValueFromTree call on the finished tree.
Lookup(r) ==
    /\ keyIdx = Len(luaKeys)
    /\ \E best \in nodes \cup {NoNode} :
          /\ getValueFromTree(r, best)
          /\ lookup' = [request |-> r, result |-> ResponseOf(best)]
    /\ UNCHANGED <<nodes, luaResponse, wildcard, luaKeys, keyIdx>>

Next ==
    \/ buildRequestByteTree
    \/ \E r \in Request : Lookup(r)

Spec == Init /\ [][Next]_vars

-----------------------------------------------------------------------------
(* Properties.                                                             *)

TypeOK ==
    /\ nodes \subseteq Seq(Label)
    /\ <<>> \in nodes
    /\ luaResponse \in [nodes -> 0..MaxKeys]
    /\ wildcard \in [nodes -> BOOLEAN]
    /\ luaKeys \in Seq(Key) /\ Len(luaKeys) <= MaxKeys
    /\ keyIdx \in 0..Len(luaKeys)
    /\ lookup \in [request : Seq(Bytes), result : 0..MaxKeys]

\* The reference meaning of a key pattern: a pattern without a trailing
\* wildcard matches a request of its length that agrees on every concrete
\* byte; one with a trailing wildcard matches every request that starts
\* with a match of its prefix.
IsWildcardPattern(p) == Len(p) > 0 /\ Last(p) = Wildcard
PatternMatches(p, r) ==
    LET prefix == IF IsWildcardPattern(p) THEN Front(p) ELSE p IN
    /\ IF IsWildcardPattern(p) THEN Len(prefix) <= Len(r) ELSE Len(p) = Len(r)
    /\ \A i \in 1..Len(prefix) : prefix[i] \in {Placeholder, r[i]}

LookupDone == lookup.request # <<>>   \* a lookup has been made
BoundPatterns == {n \in nodes : luaResponse[n] # NoResponse}
MatchingPatterns(r) == {p \in BoundPatterns : PatternMatches(p, r)}

\* getValueFromTree only returns a response bound to a pattern that matches
\* the whole request: the candidate walk, the wildcard absorption and the
\* zero-byte wildcard substitution never reach a node whose pattern does not
\* match.
LookupSound ==
    lookup.result # NoResponse =>
        \E p \in MatchingPatterns(lookup.request) : luaResponse[p] = lookup.result

\* getValueFromTree finds a response whenever some bound pattern matches the
\* request, whatever order the candidate set is iterated in.
LookupComplete ==
    LookupDone /\ MatchingPatterns(lookup.request) # {} => lookup.result # NoResponse

\* Spec sections 4.1 and 8, and the comments of findBestMatchingRequest: the
\* best match is a pattern without wildcard when one matches the request,
\* and otherwise the longest matching wildcard pattern.
BestMatchAsSpecified ==
    LET M == MatchingPatterns(lookup.request) IN
    LookupDone =>
        /\ (\E p \in M : ~IsWildcardPattern(p)) =>
               \E p \in M : ~IsWildcardPattern(p) /\ luaResponse[p] = lookup.result
        /\ M # {} /\ (\A p \in M : IsWildcardPattern(p)) =>
               \E p \in M : /\ luaResponse[p] = lookup.result
                            /\ \A q \in M : Len(q) <= Len(p)

\* The bindings of the tree follow the key list: every bound node holds the
\* index of a processed key whose path it is; a key without wildcard is
\* bound unless a later key with the same path overwrote it (last writer
\* wins); a wildcard key is bound unless an earlier key with the same path
\* was (first writer wins, the later one is rejected).
BindingsFollowKeys ==
    /\ \A n \in BoundPatterns :
          /\ luaResponse[n] \in 1..keyIdx
          /\ luaKeys[luaResponse[n]].tail # "odd"
          /\ KeyPath(luaKeys[luaResponse[n]]) = n
    /\ \A j \in 1..keyIdx :
          /\ luaKeys[j].tail = "none" =>
                /\ luaKeys[j].units \in nodes
                /\ luaResponse[luaKeys[j].units] >= j
          /\ luaKeys[j].tail = "wildcard" =>
                /\ KeyPath(luaKeys[j]) \in nodes
                /\ luaResponse[KeyPath(luaKeys[j])] \in 1..j

\* Every node reached by a wildcard edge carries a response: a wildcard
\* node is only created by a successful insertion, which binds it.
WildcardNodesBound ==
    \A n \in nodes : (Len(n) > 0 /\ n[Len(n)] = Wildcard) => luaResponse[n] # NoResponse

\* The inductive invariant behind BindingsFollowKeys.
BindingsInv == TypeOK /\ WildcardNodesBound /\ BindingsFollowKeys

=============================================================================
