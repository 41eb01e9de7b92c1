-------------------------- MODULE PatternTreeProofs --------------------------
(***************************************************************************)
(* Proofs about the request byte tree build (PatternTree): the type        *)
(* invariant, and that the bindings of the tree follow the key list of the *)
(* Lua table (last writer wins for plain keys, first writer wins for       *)
(* wildcard keys), for every value of the constants.                       *)
(***************************************************************************)
EXTENDS PatternTree, SequenceTheorems, TLAPS

\* A bounded sequence of SeqOf is a sequence within the bound.
LEMMA SeqOfIsSeq ==
    ASSUME NEW S, NEW n \in Nat, NEW x \in SeqOf(S, n)
    PROVE  x \in Seq(S) /\ Len(x) <= n
<1>1. PICK m \in 0..n : x \in [1..m -> S]
    BY DEF SeqOf
<1>2. x \in Seq(S) /\ Len(x) = m
    BY <1>1
<1>. QED  BY <1>2

\* The path of a key is a sequence of labels; only a wildcard key's path
\* contains the Wildcard label, and only as its last element.
LEMMA KeyPathFacts ==
    ASSUME ConstantsAssumption, NEW k \in Key
    PROVE  /\ k.units \in Seq(Unit)
           /\ KeyPath(k) \in Seq(Label)
           /\ \A i \in 1..Len(k.units) : k.units[i] # Wildcard
           /\ k.tail = "wildcard" =>
                 /\ Len(KeyPath(k)) = Len(k.units) + 1
                 /\ KeyPath(k)[Len(KeyPath(k))] = Wildcard
                 /\ \A i \in 1..Len(k.units) : KeyPath(k)[i] = k.units[i]
           /\ k.tail # "wildcard" => KeyPath(k) = k.units
<1>1. k.units \in Seq(Unit)
    BY SeqOfIsSeq, ConstantsAssumption DEF Key
<1>2. Unit \subseteq Label /\ Wildcard \in Label /\ Wildcard \notin Unit
    BY ConstantsAssumption DEF Unit, Label
<1>3. k.units \in Seq(Label)
    BY <1>1, <1>2, SeqMonotonic
<1>4. \A i \in 1..Len(k.units) : k.units[i] # Wildcard
    BY <1>1, <1>2, ElementOfSeq
<1>5. k.tail = "wildcard" =>
         /\ KeyPath(k) \in Seq(Label)
         /\ Len(KeyPath(k)) = Len(k.units) + 1
         /\ KeyPath(k)[Len(KeyPath(k))] = Wildcard
         /\ \A i \in 1..Len(k.units) : KeyPath(k)[i] = k.units[i]
    BY <1>2, <1>3, AppendProperties DEF KeyPath
<1>6. k.tail # "wildcard" => KeyPath(k) = k.units
    BY DEF KeyPath
<1>. QED  BY <1>1, <1>3, <1>4, <1>5, <1>6

\* Every prefix of a label sequence is a label sequence of which it is the
\* initial segment.
LEMMA PrefixFacts ==
    ASSUME NEW S, NEW p \in Seq(S), NEW q \in Prefixes(p)
    PROVE  /\ q \in Seq(S)
           /\ Len(q) \in 0..Len(p)
           /\ \A i \in 1..Len(q) : q[i] = p[i]
           /\ Len(q) = Len(p) => q = p
<1>1. PICK l \in 0..Len(p) : q = SubSeq(p, 1, l)
    BY DEF Prefixes
<1>2. /\ q \in Seq(S)
      /\ Len(q) = l
      /\ \A i \in 1..l : q[i] = p[i]
    BY <1>1, SubSeqProperties, ElementOfSeq
<1>3. Len(q) = Len(p) => q = p
    BY <1>1, <1>2, SeqEqual
<1>. QED  BY <1>2, <1>3

-----------------------------------------------------------------------------
(* Type correctness.                                                       *)

\* The tree after AppendPath still has the types of TypeOK.
LEMMA AppendPathType ==
    ASSUME ConstantsAssumption, TypeOK,
           NEW path \in Seq(Label), NEW resp \in 0..MaxKeys,
           AppendPath(path, resp)
    PROVE  /\ nodes' \subseteq Seq(Label)
           /\ <<>> \in nodes'
           /\ luaResponse' \in [nodes' -> 0..MaxKeys]
           /\ wildcard' \in [nodes' -> BOOLEAN]
<1>1. Prefixes(path) \subseteq Seq(Label)
    BY PrefixFacts
<1>2. nodes' = nodes \cup (Prefixes(path) \ nodes)
    BY DEF AppendPath
<1>3. wildcard' \in [nodes' -> BOOLEAN]
    BY <1>2 DEF AppendPath, TypeOK, FreshWildcardBit
<1>4. luaResponse' \in [nodes' -> 0..MaxKeys]
    BY <1>2 DEF AppendPath, TypeOK, NoResponse
<1>. QED  BY <1>1, <1>2, <1>3, <1>4 DEF TypeOK

LEMMA InitType == Init => TypeOK
<1> SUFFICES ASSUME Init PROVE TypeOK
    OBVIOUS
<1>1. luaKeys \in Seq(Key) /\ Len(luaKeys) <= MaxKeys
    BY SeqOfIsSeq, ConstantsAssumption DEF Init
<1>2. <<>> \in Seq(Label)
    BY EmptySeq
<1>3. lookup \in [request : Seq(Bytes), result : 0..MaxKeys]
    BY EmptySeq, ConstantsAssumption DEF Init, NoResponse
<1>4. wildcard \in [nodes -> BOOLEAN]
    <2>1. FreshWildcardBit \subseteq BOOLEAN
        BY DEF FreshWildcardBit
    <2>. QED  BY <2>1 DEF Init
<1>5. luaResponse \in [nodes -> 0..MaxKeys]
    BY ConstantsAssumption DEF Init, NoResponse
<1>. QED  BY <1>1, <1>2, <1>3, <1>4, <1>5 DEF Init, TypeOK

LEMMA TypeStep == TypeOK /\ [Next]_vars => TypeOK'
<1> SUFFICES ASSUME TypeOK, [Next]_vars PROVE TypeOK'
    OBVIOUS
<1>1. CASE buildRequestByteTree
    <2> DEFINE k == luaKeys[keyIdx + 1]
    <2>1. keyIdx + 1 \in 1..Len(luaKeys) /\ keyIdx + 1 \in 1..MaxKeys
        BY <1>1, ConstantsAssumption DEF buildRequestByteTree, TypeOK
    <2>2a. k \in Key
        BY <2>1, ElementOfSeq DEF TypeOK
    <2>2. KeyPath(k) \in Seq(Label) /\ k.units \in Seq(Label)
        BY <2>2a, KeyPathFacts, ConstantsAssumption, SeqMonotonic
           DEF Unit, Label
    <2>3. /\ nodes' \subseteq Seq(Label)
          /\ <<>> \in nodes'
          /\ luaResponse' \in [nodes' -> 0..MaxKeys]
          /\ wildcard' \in [nodes' -> BOOLEAN]
        BY <1>1, <2>1, <2>2, AppendPathType, ConstantsAssumption
           DEF buildRequestByteTree, NoResponse
    <2>. QED  BY <1>1, <2>3 DEF buildRequestByteTree, TypeOK
<1>2. ASSUME NEW r \in Request, Lookup(r)
      PROVE  TypeOK'
    <2>1. r \in Seq(Bytes)
        BY SeqOfIsSeq, ConstantsAssumption DEF Request
    <2>2. PICK best \in nodes \cup {NoNode} :
             lookup' = [request |-> r, result |-> ResponseOf(best)]
        BY <1>2 DEF Lookup
    <2>3. ResponseOf(best) \in 0..MaxKeys
        BY ConstantsAssumption DEF ResponseOf, TypeOK, NoResponse
    <2>. QED  BY <1>2, <2>1, <2>2, <2>3 DEF Lookup, TypeOK
<1>3. CASE UNCHANGED vars
    BY <1>3 DEF vars, TypeOK
<1>. QED  BY <1>1, <1>2, <1>3 DEF Next

THEOREM TypeCorrect == Spec => []TypeOK
BY InitType, TypeStep, PTL DEF Spec

-----------------------------------------------------------------------------
(* The bindings follow the key list.                                       *)

\* A non-empty prefix of a key's units never ends in the Wildcard label.
LEMMA UnitsPrefixNoWildcard ==
    ASSUME ConstantsAssumption, NEW k \in Key, NEW q \in Prefixes(k.units),
           Len(q) > 0
    PROVE  q[Len(q)] # Wildcard
<1>1. k.units \in Seq(Unit) /\ \A i \in 1..Len(k.units) : k.units[i] # Wildcard
    BY KeyPathFacts
<1>2. Len(q) \in 1..Len(k.units) /\ q[Len(q)] = k.units[Len(q)]
    BY <1>1, PrefixFacts
<1>. QED  BY <1>1, <1>2

\* The only non-empty prefix of a key path that ends in the Wildcard label
\* is the path of a wildcard key itself.
LEMMA PathPrefixWildcard ==
    ASSUME ConstantsAssumption, NEW k \in Key, NEW q \in Prefixes(KeyPath(k)),
           Len(q) > 0, q[Len(q)] = Wildcard
    PROVE  k.tail = "wildcard" /\ q = KeyPath(k)
<1>1. KeyPath(k) \in Seq(Label)
    BY KeyPathFacts
<1>2. /\ Len(q) \in 1..Len(KeyPath(k))
      /\ q[Len(q)] = KeyPath(k)[Len(q)]
      /\ Len(q) = Len(KeyPath(k)) => q = KeyPath(k)
    BY <1>1, PrefixFacts
<1>3. CASE k.tail # "wildcard"
    <2>1. q \in Prefixes(k.units)
        BY <1>3, KeyPathFacts
    <2>. QED  BY <2>1, UnitsPrefixNoWildcard
<1>4. CASE k.tail = "wildcard"
    <2>1. Len(q) = Len(KeyPath(k))
        <3>1. SUFFICES ASSUME Len(q) < Len(KeyPath(k)) PROVE FALSE
            BY <1>2
        <3>2. Len(q) \in 1..Len(k.units) /\ KeyPath(k)[Len(q)] = k.units[Len(q)]
            BY <1>2, <1>4, <3>1, KeyPathFacts
        <3>. QED  BY <1>2, <3>2, KeyPathFacts
    <2>. QED  BY <1>2, <1>4, <2>1
<1>. QED  BY <1>3, <1>4

\* What AppendPath does to the nodes and their responses.
LEMMA AppendPathEffect ==
    ASSUME TypeOK, NEW path \in Seq(Label), NEW resp, AppendPath(path, resp)
    PROVE  /\ nodes' = nodes \cup Prefixes(path)
           /\ path \in nodes'
           /\ \A n \in nodes' :
                 luaResponse'[n] = IF n = path /\ resp # NoResponse THEN resp
                                   ELSE IF n \in nodes THEN luaResponse[n]
                                   ELSE NoResponse
<1>1. path \in Prefixes(path)
    <2>1. SubSeq(path, 1, Len(path)) = path
        BY SubSeqFull
    <2>2. Len(path) \in 0..Len(path)
        BY LenProperties
    <2>3. \E l \in 0..Len(path) : path = SubSeq(path, 1, l)
        BY <2>1, <2>2
    <2>. QED  BY <2>3 DEF Prefixes
<1>. QED  BY <1>1 DEF AppendPath

LEMMA InitBindings == Init => BindingsInv
<1> SUFFICES ASSUME Init PROVE BindingsInv
    OBVIOUS
<1>1. TypeOK
    BY InitType
<1>2. WildcardNodesBound
    BY EmptySeq DEF Init, WildcardNodesBound
<1>3. BindingsFollowKeys
    BY DEF Init, BindingsFollowKeys, BoundPatterns, NoResponse
<1>. QED  BY <1>1, <1>2, <1>3 DEF BindingsInv

\* One insertion keeps the invariant.  The three cases are those of
\* buildRequestByteTree: an odd key, a rejected duplicate wildcard key,
\* and a key that is bound.
LEMMA BuildBindings ==
    ASSUME ConstantsAssumption, BindingsInv, buildRequestByteTree
    PROVE  BindingsInv'
<1> DEFINE i == keyIdx + 1
           k == luaKeys[i]
<1>1. TypeOK'
    BY TypeStep DEF BindingsInv, Next
<1>2. /\ i \in 1..Len(luaKeys) /\ k \in Key
      /\ keyIdx' = i /\ luaKeys' = luaKeys
    BY ElementOfSeq DEF buildRequestByteTree, BindingsInv, TypeOK
<1>3. KeyPath(k) \in Seq(Label) /\ k.units \in Seq(Label)
    BY <1>2, KeyPathFacts, SeqMonotonic DEF Unit, Label
\* The shape every case shares: the key's path (or its units) is appended,
\* and `resp` is bound to `path` unless resp = NoResponse.
<1>4. PICK path \in Seq(Label), resp \in {NoResponse, i} :
         /\ AppendPath(path, resp)
         /\ k.tail = "odd" => path = k.units /\ resp = NoResponse
         /\ k.tail = "wildcard" /\ KeyPath(k) \in nodes =>
               path = k.units /\ resp = NoResponse
         /\ ~(k.tail = "odd") /\ ~(k.tail = "wildcard" /\ KeyPath(k) \in nodes) =>
               path = KeyPath(k) /\ resp = i
    BY <1>3 DEF buildRequestByteTree
<1>5. /\ nodes' = nodes \cup Prefixes(path)
      /\ path \in nodes'
      /\ \A n \in nodes' :
            luaResponse'[n] = IF n = path /\ resp # NoResponse THEN resp
                              ELSE IF n \in nodes THEN luaResponse[n]
                              ELSE NoResponse
    BY <1>4, AppendPathEffect DEF BindingsInv
<1>6. resp # NoResponse => path = KeyPath(k) /\ k.tail # "odd"
                           /\ ~(k.tail = "wildcard" /\ KeyPath(k) \in nodes)
    BY <1>4 DEF NoResponse
\* The new nodes that end in a wildcard edge are the bound path.
<1>7. \A n \in nodes' \ nodes :
         Len(n) > 0 /\ n[Len(n)] = Wildcard => n = path /\ resp # NoResponse
    <2> SUFFICES ASSUME NEW n \in nodes' \ nodes, Len(n) > 0, n[Len(n)] = Wildcard
                 PROVE  n = path /\ resp # NoResponse
        OBVIOUS
    <2>1. n \in Prefixes(path)
        BY <1>5
    <2>2. CASE resp = NoResponse
        BY <2>1, <2>2, <1>2, <1>4, UnitsPrefixNoWildcard DEF NoResponse
    <2>3. CASE resp # NoResponse
        BY <2>1, <2>3, <1>2, <1>6, PathPrefixWildcard
    <2>. QED  BY <2>2, <2>3
<1>8. WildcardNodesBound'
    <2> SUFFICES ASSUME NEW n \in nodes', Len(n) > 0, n[Len(n)] = Wildcard
                 PROVE  luaResponse'[n] # NoResponse
        BY DEF WildcardNodesBound
    <2>1. CASE n \in nodes
        BY <2>1, <1>5, <1>4 DEF BindingsInv, WildcardNodesBound, NoResponse
    <2>2. CASE n \notin nodes
        BY <2>2, <1>5, <1>7
    <2>. QED  BY <2>1, <2>2
<1>9. ASSUME NEW n \in nodes', luaResponse'[n] # NoResponse
      PROVE  /\ luaResponse'[n] \in 1..i
             /\ luaKeys[luaResponse'[n]].tail # "odd"
             /\ KeyPath(luaKeys[luaResponse'[n]]) = n
    <2>1. CASE n = path /\ resp # NoResponse
        BY <2>1, <1>5, <1>6, <1>4, <1>2 DEF NoResponse
    <2>2. CASE ~(n = path /\ resp # NoResponse) /\ n \in nodes
        BY <2>2, <1>5, <1>9, <1>2 DEF BindingsInv, BindingsFollowKeys, BoundPatterns, TypeOK
    <2>3. CASE ~(n = path /\ resp # NoResponse) /\ n \notin nodes
        BY <2>3, <1>5, <1>9
    <2>. QED  BY <2>1, <2>2, <2>3
<1>10. ASSUME NEW j \in 1..i, luaKeys[j].tail = "none"
       PROVE  /\ luaKeys[j].units \in nodes'
              /\ luaResponse'[luaKeys[j].units] >= j
    <2>1. CASE j = i
        <3>1. path = k.units /\ resp = i
            BY <2>1, <1>10, <1>4, <1>2 DEF KeyPath
        <3>. QED  BY <2>1, <3>1, <1>5 DEF NoResponse
    <2>2. CASE j < i
        <3>1. luaKeys[j].units \in nodes /\ luaResponse[luaKeys[j].units] >= j
            BY <2>2, <1>10, <1>2 DEF BindingsInv, BindingsFollowKeys, TypeOK
        <3>2. luaKeys[j].units \in nodes'
            BY <3>1, <1>5
        <3>3. CASE luaKeys[j].units = path /\ resp # NoResponse
            <4>1. luaResponse'[luaKeys[j].units] = i
                BY <3>2, <3>3, <1>5
            <4>. QED  BY <2>2, <3>2, <4>1, <1>2
        <3>4. CASE ~(luaKeys[j].units = path /\ resp # NoResponse)
            <4>1. luaResponse'[luaKeys[j].units] = luaResponse[luaKeys[j].units]
                BY <3>1, <3>2, <3>4, <1>5
            <4>. QED  BY <3>1, <3>2, <4>1
        <3>. QED  BY <3>3, <3>4
    <2>. QED  BY <2>1, <2>2, <1>2
<1>11. ASSUME NEW j \in 1..i, luaKeys[j].tail = "wildcard"
       PROVE  /\ KeyPath(luaKeys[j]) \in nodes'
              /\ luaResponse'[KeyPath(luaKeys[j])] \in 1..j
    <2> DEFINE kp == KeyPath(luaKeys[j])
    <2>1. luaKeys[j] \in Key
        BY <1>2, ElementOfSeq DEF BindingsInv, TypeOK
    <2>2. Len(kp) > 0 /\ kp[Len(kp)] = Wildcard
        BY <2>1, <1>11, KeyPathFacts
    <2>3. CASE j = i /\ kp \in nodes
        <3>1. resp = NoResponse
            BY <2>3, <1>11, <1>4
        <3>2. luaResponse[kp] # NoResponse
            BY <2>2, <2>3 DEF BindingsInv, WildcardNodesBound
        <3>3. luaResponse[kp] \in 1..keyIdx
            BY <2>3, <3>2 DEF BindingsInv, BindingsFollowKeys, BoundPatterns
        <3>. QED  BY <2>3, <3>1, <3>3, <1>5, <1>2 DEF BindingsInv, TypeOK, NoResponse
    <2>4. CASE j = i /\ kp \notin nodes
        <3>1. path = kp /\ resp = i
            BY <2>4, <1>11, <1>4
        <3>. QED  BY <3>1, <1>5, <2>4 DEF NoResponse
    <2>5. CASE j < i
        <3>1. kp \in nodes /\ luaResponse[kp] \in 1..j
            <4>1. j \in 1..keyIdx
                BY <2>5, <1>2 DEF BindingsInv, TypeOK
            <4>2. \A jj \in 1..keyIdx : luaKeys[jj].tail = "wildcard" =>
                     /\ KeyPath(luaKeys[jj]) \in nodes
                     /\ luaResponse[KeyPath(luaKeys[jj])] \in 1..jj
                BY DEF BindingsInv, BindingsFollowKeys
            <4>. QED  BY <4>1, <4>2, <1>11
        \* kp is not rebound: a bound path is a key path not yet in the
        \* tree, or the units of a plain key, which never end in Wildcard.
        <3>2. ~(kp = path /\ resp # NoResponse)
            <4> SUFFICES ASSUME kp = path, resp # NoResponse PROVE FALSE
                OBVIOUS
            <4>1. path = KeyPath(k) /\ k.tail # "odd"
                  /\ ~(k.tail = "wildcard" /\ KeyPath(k) \in nodes)
                BY <1>6
            <4>2. k.tail = "none"
                BY <4>1, <3>1, <1>2 DEF Key, KeyTail
            <4>3. path = k.units
                BY <4>2, <4>1 DEF KeyPath
            <4>4. k.units \in Prefixes(k.units)
                BY <1>5, <1>3, <4>3, SubSeqFull, LenProperties DEF Prefixes
            <4>. QED  BY <4>3, <4>4, <2>2, <1>2, UnitsPrefixNoWildcard
        <3>. QED  BY <3>1, <3>2, <1>5
    <2>. QED  BY <2>3, <2>4, <2>5, <1>2
<1>12. BindingsFollowKeys'
    BY <1>2, <1>9, <1>10, <1>11 DEF BindingsFollowKeys, BoundPatterns
<1>. QED  BY <1>1, <1>8, <1>12 DEF BindingsInv

\* A lookup and a stuttering step leave the tree and the keys alone.
LEMMA BindingsStep ==
    ASSUME ConstantsAssumption, BindingsInv, [Next]_vars
    PROVE  BindingsInv'
<1>1. CASE buildRequestByteTree
    BY <1>1, BuildBindings
<1>2. CASE \E r \in Request : Lookup(r)
    <2>1. TypeOK'
        BY <1>2, TypeStep DEF BindingsInv, Next
    <2>2. UNCHANGED <<nodes, luaResponse, wildcard, luaKeys, keyIdx>>
        BY <1>2 DEF Lookup
    <2>. QED  BY <2>1, <2>2 DEF BindingsInv, WildcardNodesBound,
                                BindingsFollowKeys, BoundPatterns
<1>3. CASE UNCHANGED vars
    BY <1>3 DEF vars, BindingsInv, TypeOK, WildcardNodesBound,
                BindingsFollowKeys, BoundPatterns
<1>. QED  BY <1>1, <1>2, <1>3 DEF Next

\* Every response the tree holds was bound by the last key written to its
\* pattern (getLuaTableKeys order, last writer wins for plain keys, first
\* for wildcard keys): buildRequestByteTree never leaves a stale or
\* foreign response at a node, for every table and every key order.
THEOREM BindingsFollowKeysHolds == Spec => []BindingsFollowKeys
<1>1. Init => BindingsInv
    BY InitBindings, ConstantsAssumption
<1>2. BindingsInv /\ [Next]_vars => BindingsInv'
    BY BindingsStep, ConstantsAssumption
<1>3. BindingsInv => BindingsFollowKeys
    BY DEF BindingsInv
<1>. QED  BY <1>1, <1>2, <1>3, PTL DEF Spec

=============================================================================
