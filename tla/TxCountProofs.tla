--------------------------- MODULE TxCountProofs ----------------------------
(***************************************************************************)
(* What the calls of tx() leave on the wire and in the counters, for any   *)
(* number of threads and queues, any bursts, heap and depth of the pipe.   *)
(***************************************************************************)
EXTENDS TxPathProofs

-----------------------------------------------------------------------------
(* A call's part of the wire. *)

\* BurstPrefix, one call at a time.
Prefix(c) == /\ {pushed[j].i : j \in WireOf(c)} = 1 .. Cardinality(WireOf(c))
             /\ \A j, k \in WireOf(c) : j < k => pushed[j].i < pushed[k].i
             /\ results[c] # Pending =>
                   Cardinality(WireOf(c)) = IF results[c] = Failure THEN 0 ELSE results[c]

BurstInv == /\ \A c \in 1 .. calls : Prefix(c)
            /\ \A a \in Apps : call[a].at # "idle" => Cardinality(WireOf(call[a].number)) = Sent(call[a])

\* It says the same.
LEMMA BurstInvIs == BurstInv <=> BurstPrefix
  BY DEF BurstInv, BurstPrefix, Prefix, Sent

\* A call's part of the wire is finite.
LEMMA WireIsFinite ==
  ASSUME TypeInv, NEW c
  PROVE  IsFiniteSet(WireOf(c)) /\ Cardinality(WireOf(c)) \in Nat
  <1>1. pushed \in Seq(Range(pushed))
    BY DEF TypeInv
  <1>2. DOMAIN pushed = 1 .. Len(pushed) /\ Len(pushed) \in Nat
    BY <1>1, LenProperties
  <1>3. IsFiniteSet(DOMAIN pushed) /\ WireOf(c) \subseteq DOMAIN pushed
    BY <1>2, FS_Interval DEF WireOf
  <1> QED
    BY <1>3, FS_Subset, FS_CardinalityType

\* With nothing new on the wire, a call that has no result yet or keeps it ...
LEMMA PrefixRests ==
  ASSUME pushed' = pushed, NEW c, Prefix(c), results'[c] = results[c]
  PROVE  Prefix(c)'
  <1>1. WireOf(c)' = WireOf(c)
    BY DEF WireOf
  <1> QED
    BY <1>1 DEF Prefix

\* The wire grows by the frame of one call.
LEMMA WireOfGrows ==
  ASSUME TxInv, NEW a \in Apps, Sends(a), NEW c
  PROVE  WireOf(c)' = IF c = call[a].number THEN WireOf(c) \cup {Len(pushed) + 1} ELSE WireOf(c)
  <1>1. calls' = calls
    BY DEF Sends, Continues
  <1>2. /\ Len(pushed) \in Nat /\ DOMAIN pushed = 1 .. Len(pushed)
        /\ DOMAIN pushed' = 1 .. Len(pushed) + 1
        /\ \A j \in 1 .. Len(pushed) : pushed'[j] = pushed[j]
        /\ pushed'[Len(pushed) + 1].number = call[a].number
    BY <1>1, WireGrows DEF Sends, FrameOf
  <1>3. DOMAIN pushed' = DOMAIN pushed \cup {Len(pushed) + 1} /\ Len(pushed) + 1 \notin DOMAIN pushed
    BY <1>2
  <1>4. WireOf(c)' = {j \in DOMAIN pushed' : pushed'[j].number = c}
    BY DEF WireOf
  <1> QED
    BY <1>2, <1>3, <1>4 DEF WireOf

\* The next descriptor of the burst goes to the end of the wire.
LEMMA PrefixGrows ==
  ASSUME TxInv, BurstInv, NEW a \in Apps, Sends(a), results' = results, NEW c, c = call[a].number
  PROVE  Prefix(c)' /\ Cardinality(WireOf(c)') = call[a].i
  <1>1. c \in 1 .. calls /\ call[a].at = "push" /\ results[c] = Pending
    BY DEF Sends, TxInv, CallInv
  <1>2. PICK W, n, e, V, p : /\ W = WireOf(c) /\ n = Cardinality(W) /\ e = Len(pushed) + 1
                             /\ V = WireOf(c)' /\ p = pushed'
    OBVIOUS
  <1>3. n = call[a].i - 1 /\ call[a].i \in Nat \ {0}
    BY <1>1, <1>2, CallFields DEF BurstInv, Sent, TxInv
  <1>4. IsFiniteSet(W) /\ n \in Nat
    BY <1>2, WireIsFinite DEF TxInv, LInv
  <1>5. {pushed[j].i : j \in W} = 1 .. n /\ \A j, k \in W : j < k => pushed[j].i < pushed[k].i
    BY <1>1, <1>2 DEF BurstInv, Prefix
  <1>6. V = W \cup {e}
    BY <1>2, WireOfGrows
  <1>7. calls' = calls
    BY DEF Sends, Continues
  <1>8. /\ Len(pushed) \in Nat /\ DOMAIN pushed = 1 .. Len(pushed)
        /\ \A j \in 1 .. Len(pushed) : p[j] = pushed[j]
        /\ p[e].i = call[a].i
    BY <1>2, <1>7, WireGrows DEF Sends, FrameOf
  <1>9. W \subseteq 1 .. Len(pushed) /\ e \notin W
    BY <1>2, <1>8 DEF WireOf
  <1>10. /\ p[e].i = n + 1 /\ e \in Nat
         /\ \A j \in W : p[j] = pushed[j] /\ j < e /\ j \in Nat
    BY <1>2, <1>3, <1>8, <1>9
  <1>11. Cardinality(V) = n + 1
    BY <1>2, <1>4, <1>6, <1>9, FS_AddElement, ZenonT(30)
  <1>12. {p[j].i : j \in V} = 1 .. n + 1
    <2>1. \A x : x \in {p[j].i : j \in V} <=> x \in {pushed[j].i : j \in W} \/ x = n + 1
      BY <1>6, <1>10
    <2>2. \A x : x \in 1 .. n \/ x = n + 1 <=> x \in 1 .. n + 1
      BY <1>4
    <2> QED
      BY <1>5, <2>1, <2>2
  <1>13. ASSUME NEW j \in V, NEW k \in V, j < k PROVE p[j].i < p[k].i
    <2>1. CASE j \in W /\ k \in W
      BY <1>5, <1>10, <1>13, <2>1
    <2>2. CASE j \in W /\ k = e
      <3>1. pushed[j].i \in 1 .. n
        BY <1>5, <2>2
      <3> QED
        BY <1>4, <1>10, <2>2, <3>1
    <2>3. CASE j = e
      <3>1. k \in Nat /\ k <= e
        BY <1>6, <1>10
      <3> QED
        BY <1>10, <1>13, <2>3, <3>1
    <2> QED
      BY <1>6, <2>1, <2>2, <2>3
  <1>14. results'[c] = Pending
    BY <1>1
  <1>15. Prefix(c)'
    BY <1>2, <1>11, <1>12, <1>13, <1>14 DEF Prefix
  <1> QED
    BY <1>2, <1>3, <1>11, <1>15

\* What a call has on the wire stays in step with its place in the burst.
LEMMA BurstStep ==
  ASSUME TxInv, BurstInv, [Next]_vars
  PROVE  BurstInv'
  <1>0. calls \in Nat /\ \A a \in Apps : call[a] \in CallType
    BY Bounds DEF TxInv, TxTypeInv
  <1>1. CASE Others
    <2>1. UNCHANGED <<call, calls, results, pushed>>
      BY <1>1, OthersKeep
    <2>2. \A c : WireOf(c)' = WireOf(c)
      BY <2>1 DEF WireOf
    <2> QED
      BY <2>1, <2>2 DEF BurstInv, Prefix, Sent
  <1>2. ASSUME NEW a \in Apps, Begins(a) PROVE BurstInv'
    <2>1. PICK q \in Queues, n \in 0 .. MaxBurst : Tx(a, q, n)
      BY <1>2 DEF Begins
    <2>2. PICK r : r = [Idle EXCEPT !.at = "next", !.number = calls + 1, !.queue = q, !.size = n]
      OBVIOUS
    <2>3. /\ call' = [call EXCEPT ![a] = r] /\ calls' = calls + 1 /\ calls < MaxCalls
          /\ results' = results /\ pushed' = pushed
      BY <2>1, <2>2 DEF Tx, linkVars
    <2>4. r.number = calls + 1 /\ Sent(r) = 0
      BY <2>2 DEF Idle, Sent
    <2>5. \A c : WireOf(c)' = WireOf(c)
      BY <2>3 DEF WireOf
    <2>6. WireOf(calls + 1) = {} /\ Cardinality(WireOf(calls + 1)) = 0
      <3>1. \A j \in DOMAIN pushed : pushed[j].number \in 1 .. calls
        BY DEF TxInv, WireInv
      <3>2. \A j \in DOMAIN pushed : pushed[j].number # calls + 1
        BY <1>0, <3>1
      <3>3. WireOf(calls + 1) = {}
        BY <3>2 DEF WireOf
      <3> QED
        BY <3>3, FS_EmptySet
    <2>7. results[calls + 1] = Pending
      BY <1>0, <2>3, Bounds DEF TxInv, CallInv
    <2>8. ASSUME NEW c \in 1 .. calls' PROVE Prefix(c)'
      <3>1. CASE c \in 1 .. calls
        BY <2>3, <3>1, PrefixRests DEF BurstInv
      <3>2. CASE c = calls + 1
        <4>1. WireOf(c)' = {} /\ Cardinality({}) = 0 /\ results'[c] = Pending
          BY <2>3, <2>5, <2>6, <2>7, <3>2
        <4>2. 1 .. 0 = {}
          OBVIOUS
        <4> QED
          BY <4>1, <4>2 DEF Prefix
      <3> QED
        BY <1>0, <2>3, <3>1, <3>2
    <2>9. ASSUME NEW b \in Apps, call'[b].at # "idle"
          PROVE  Cardinality(WireOf(call'[b].number)) = Sent(call'[b])
      <3>1. CASE b = a
        BY <2>3, <2>4, <2>6, <3>1 DEF TxInv, TxTypeInv
      <3>2. CASE b # a
        BY <2>3, <2>9, <3>2 DEF BurstInv, TxInv, TxTypeInv
      <3> QED
        BY <3>1, <3>2
    <2>10. \A b \in Apps : WireOf(call[b].number)' = WireOf(call'[b].number) /\ Sent(call[b])' = Sent(call'[b])
      BY <2>3 DEF WireOf, Sent
    <2> QED
      BY <2>8, <2>9, <2>10 DEF BurstInv
  <1>3. ASSUME NEW a \in Apps, GoesOn(a) PROVE BurstInv'
    <2>1. PICK r : Continues(a, r) /\ Sent(r) = Sent(call[a])
      BY <1>3 DEF GoesOn
    <2>2. /\ call' = [call EXCEPT ![a] = r] /\ r.number = call[a].number /\ call[a].at # "idle"
          /\ calls' = calls /\ results' = results /\ pushed' = pushed
      BY <1>3, <2>1 DEF GoesOn, Continues
    <2>3. \A c \in 1 .. calls' : Prefix(c)'
      BY <2>2, PrefixRests DEF BurstInv
    <2>4. ASSUME NEW b \in Apps, call'[b].at # "idle"
          PROVE  Cardinality(WireOf(call'[b].number)) = Sent(call'[b])
      <3>1. CASE b = a
        BY <2>1, <2>2, <3>1 DEF BurstInv, TxInv, TxTypeInv
      <3>2. CASE b # a
        BY <2>2, <2>4, <3>2 DEF BurstInv, TxInv, TxTypeInv
      <3> QED
        BY <3>1, <3>2
    <2>5. \A b \in Apps : WireOf(call[b].number)' = WireOf(call'[b].number) /\ Sent(call[b])' = Sent(call'[b])
      BY <2>2 DEF WireOf, Sent
    <2> QED
      BY <2>3, <2>4, <2>5 DEF BurstInv
  <1>4. ASSUME NEW a \in Apps, Sends(a) PROVE BurstInv'
    <2>1. PICK r : Continues(a, r) /\ r.at = "pushed" /\ r.i = call[a].i
      BY <1>4 DEF Sends
    <2>2. /\ call' = [call EXCEPT ![a] = r] /\ r.number = call[a].number /\ call[a].at # "idle"
          /\ calls' = calls /\ results' = results
      BY <2>1 DEF Continues
    <2>3. PICK m : m = call[a].number
      OBVIOUS
    <2>4. Prefix(m)' /\ Cardinality(WireOf(m)') = Sent(r)
      BY <1>4, <2>1, <2>2, <2>3, PrefixGrows DEF Sent
    <2>5. \A c : c # m => WireOf(c)' = WireOf(c)
      BY <1>4, <2>3, WireOfGrows
    <2>6. ASSUME NEW c \in 1 .. calls' PROVE Prefix(c)'
      <3>1. CASE c = m
        BY <2>4, <3>1
      <3>2. CASE c # m
        <4>1. WireOf(c)' = WireOf(c) /\ Prefix(c)
          BY <2>2, <2>5, <3>2 DEF BurstInv
        <4>2. \A j \in WireOf(c) : pushed'[j] = pushed[j]
          BY <1>4, <2>2, WireGrows DEF Sends, WireOf
        <4>3. {pushed'[j].i : j \in WireOf(c)} = {pushed[j].i : j \in WireOf(c)}
          BY <4>2
        <4> QED
          BY <2>2, <4>1, <4>2, <4>3 DEF Prefix
      <3> QED
        BY <3>1, <3>2
    <2>7. ASSUME NEW b \in Apps, call'[b].at # "idle"
          PROVE  (Cardinality(WireOf(call[b].number)) = Sent(call[b]))'
      <3>1. PICK k : k = call'[b].number
        OBVIOUS
      <3>2. WireOf(call[b].number)' = WireOf(k)' /\ Sent(call[b])' = Sent(call'[b])
        BY <3>1 DEF WireOf, Sent
      <3>3. CASE b = a
        BY <2>2, <2>3, <2>4, <3>1, <3>2, <3>3 DEF TxInv, TxTypeInv
      <3>4. CASE b # a
        <4>1. call'[b] = call[b] /\ call[b].at # "idle"
          BY <2>2, <2>7, <3>4 DEF TxInv, TxTypeInv
        <4>2. k # m /\ Cardinality(WireOf(k)) = Sent(call[b])
          BY <2>2, <2>3, <3>1, <3>4, <4>1 DEF TxInv, CallInv, BurstInv
        <4> QED
          BY <2>5, <3>2, <4>1, <4>2
      <3> QED
        BY <3>3, <3>4
    <2> QED
      BY <2>6, <2>7 DEF BurstInv
  <1>5. ASSUME NEW a \in Apps, Drop(a) \/ Return(a) PROVE BurstInv'
    <2>1. Finishes(a)
      BY <1>5, FinishStep
    <2>2. PICK n \in Nat : /\ results' = [results EXCEPT ![call[a].number] = n]
                           /\ n # Pending
                           /\ call[a].i - 1 = IF n = Failure THEN 0 ELSE n
      BY <2>1 DEF Finishes
    <2>3. /\ call' = [call EXCEPT ![a] = Idle] /\ pushed' = pushed /\ calls' = calls
          /\ call[a].at \in {"next", "drop"}
      BY <2>1 DEF Finishes
    <2>4. /\ call[a].number \in 1 .. calls /\ call[a].number \in 1 .. MaxCalls
          /\ Cardinality(WireOf(call[a].number)) = call[a].i - 1
      <3>1. call[a].number \in 1 .. calls
        BY <2>3 DEF TxInv, CallInv
      <3>2. Cardinality(WireOf(call[a].number)) = call[a].i - 1
        BY <2>3 DEF BurstInv, Sent
      <3> QED
        BY <1>0, <3>1, <3>2, Bounds DEF TxInv, TxTypeInv
    <2>5. \A c : WireOf(c)' = WireOf(c)
      BY <2>3 DEF WireOf
    <2>6. ASSUME NEW c \in 1 .. calls' PROVE Prefix(c)'
      <3>0. c \in 1 .. MaxCalls
        BY <1>0, <2>3, Bounds DEF TxInv, TxTypeInv
      <3>1. CASE c = call[a].number
        <4>1. results'[c] = n /\ Prefix(c)
          BY <2>2, <2>3, <3>0, <3>1 DEF TxInv, TxTypeInv, BurstInv
        <4>2. Cardinality(WireOf(c)) = IF n = Failure THEN 0 ELSE n
          BY <2>2, <2>4, <3>1
        <4> QED
          BY <2>3, <2>5, <4>1, <4>2 DEF Prefix
      <3>2. CASE c # call[a].number
        <4>1. results'[c] = results[c] /\ Prefix(c)
          BY <2>2, <2>3, <3>0, <3>2 DEF TxInv, TxTypeInv, BurstInv
        <4> QED
          BY <2>3, <4>1, PrefixRests
      <3> QED
        BY <3>1, <3>2
    <2>7. ASSUME NEW b \in Apps, call'[b].at # "idle"
          PROVE  Cardinality(WireOf(call'[b].number)) = Sent(call'[b])
      <3>1. Idle.at = "idle"
        BY DEF Idle
      <3>2. b # a
        BY <2>3, <2>7, <3>1 DEF TxInv, TxTypeInv
      <3> QED
        BY <2>3, <2>7, <3>2 DEF BurstInv, TxInv, TxTypeInv
    <2>8. \A b \in Apps : WireOf(call[b].number)' = WireOf(call'[b].number) /\ Sent(call[b])' = Sent(call'[b])
      BY <2>3 DEF WireOf, Sent
    <2> QED
      BY <2>6, <2>7, <2>8 DEF BurstInv
  <1> QED
    BY <1>1, <1>2, <1>3, <1>4, <1>5, StepCases

-----------------------------------------------------------------------------
(* The counters. *)

One(b) == IF b THEN 1 ELSE 0
Bytes(c, steps) == IF c.at \in steps THEN c.desc.totalLength ELSE 0

\* The calls at some steps, after one call moved.
LEMMA InFlightMoves ==
  ASSUME TxTypeInv, NEW a \in Apps, NEW r, call' = [call EXCEPT ![a] = r], NEW steps
  PROVE  /\ Cardinality(InFlight(steps)) \in Nat /\ Cardinality(InFlight(steps)') \in Nat
         /\ Cardinality(InFlight(steps)') + One(call[a].at \in steps) =
            Cardinality(InFlight(steps)) + One(r.at \in steps)
  <1>1. PICK I, J : I = InFlight(steps) /\ J = InFlight(steps)'
    OBVIOUS
  <1>2. call'[a] = r /\ \A b \in Apps : b # a => call'[b] = call[b]
    BY DEF TxTypeInv
  <1>3. /\ \A b \in Apps : b \in I <=> call[b].at \in steps
        /\ \A b \in Apps : b \in J <=> call'[b].at \in steps
        /\ I \subseteq Apps /\ J \subseteq Apps
    BY <1>1 DEF InFlight
  <1>4. IsFiniteSet(Apps)
    BY TxPathAssumption DEF Apps
  <1>5. IsFiniteSet(I) /\ IsFiniteSet(J)
    BY <1>3, <1>4, FS_Subset
  <1>6. Cardinality(I) \in Nat /\ Cardinality(J) \in Nat
    BY <1>5, FS_CardinalityType
  <1>7. CASE call[a].at \in steps /\ r.at \in steps
    <2>1. I = J
      BY <1>2, <1>3, <1>7
    <2> QED
      BY <1>1, <1>6, <1>7, <2>1 DEF One
  <1>8. CASE call[a].at \notin steps /\ r.at \notin steps
    <2>1. I = J
      BY <1>2, <1>3, <1>8
    <2> QED
      BY <1>1, <1>6, <1>8, <2>1 DEF One
  <1>9. CASE call[a].at \notin steps /\ r.at \in steps
    <2>1. J = I \cup {a} /\ a \notin I
      BY <1>2, <1>3, <1>9
    <2>2. Cardinality(J) = Cardinality(I) + 1
      BY <1>5, <2>1, FS_AddElement
    <2> QED
      BY <1>1, <1>6, <1>9, <2>2 DEF One
  <1>10. CASE call[a].at \in steps /\ r.at \notin steps
    <2>1. I = J \cup {a} /\ a \notin J
      BY <1>2, <1>3, <1>10
    <2>2. Cardinality(I) = Cardinality(J) + 1
      BY <1>5, <2>1, FS_AddElement
    <2> QED
      BY <1>1, <1>6, <1>10, <2>2 DEF One
  <1> QED
    BY <1>7, <1>8, <1>9, <1>10

\* And their bytes.
LEMMA BytesMove ==
  ASSUME TxTypeInv, TxTypeInv', NEW a \in Apps, NEW r, call' = [call EXCEPT ![a] = r], NEW steps
  PROVE  /\ BytesInFlight(steps) \in Nat /\ BytesInFlight(steps)' \in Nat
         /\ BytesInFlight(steps)' + Bytes(call[a], steps) = BytesInFlight(steps) + Bytes(r, steps)
  <1>1. PICK f, g : /\ f = [b \in Apps |-> Bytes(call[b], steps)]
                    /\ g = [b \in Apps |-> Bytes(call'[b], steps)]
    OBVIOUS
  <1>2. BytesInFlight(steps) = SumFunction(f)
    BY <1>1 DEF BytesInFlight, Bytes
  <1>3. BytesInFlight(steps)' = SumFunction(g)
    BY <1>1 DEF BytesInFlight, Bytes
  <1>4. \A b \in Apps : call[b].desc.totalLength \in Nat
    BY CallFields
  <1>5. \A b \in Apps : call'[b].desc.totalLength \in Nat
    <2>1. NoDesc.totalLength = 0
      BY DEF NoDesc
    <2>2. \A d \in Descriptors : d.totalLength \in Nat
      BY TxPathAssumption
    <2> QED
      BY <2>1, <2>2 DEF TxTypeInv, CallType
  <1>6. f \in [Apps -> Nat] /\ g \in [Apps -> Nat]
    BY <1>1, <1>4, <1>5 DEF Bytes
  <1>7. call'[a] = r /\ \A b \in Apps : b # a => call'[b] = call[b]
    BY DEF TxTypeInv
  <1>8. /\ f[a] = Bytes(call[a], steps) /\ g[a] = Bytes(r, steps)
        /\ \A b \in Apps : b # a => g[b] = f[b]
    BY <1>1, <1>7
  <1>9. IsFiniteSet(Apps)
    BY TxPathAssumption DEF Apps
  <1>10. SumFunction(f) \in Nat /\ SumFunction(g) \in Nat /\ SumFunction(g) + f[a] = SumFunction(f) + g[a]
    BY <1>6, <1>8, <1>9, SumChange
  <1> QED
    BY <1>2, <1>3, <1>8, <1>10

\* What is on the wire, in bytes, after a push.
LEMMA BytesPushed ==
  ASSUME TxInv, NEW a \in Apps, Sends(a)
  PROVE  /\ BytesOnWire \in Nat /\ Len(pushed) \in Nat /\ Len(pushed') = Len(pushed) + 1
         /\ BytesOnWire' = BytesOnWire + call[a].desc.totalLength
  <1>1. calls' = calls
    BY DEF Sends, Continues
  <1>2. PICK n : n = Len(pushed)
    OBVIOUS
  <1>3. /\ n \in Nat /\ DOMAIN pushed = 1 .. n /\ Len(pushed') = n + 1 /\ DOMAIN pushed' = 1 .. n + 1
        /\ \A j \in 1 .. n : pushed'[j] = pushed[j]
        /\ pushed'[n + 1] = FrameOf(call[a])
    BY <1>1, <1>2, WireGrows DEF Sends
  <1>4. \A d \in Descriptors : d.totalLength \in Nat
    BY TxPathAssumption
  <1>5. \A j \in 1 .. n : Len(pushed[j].bytes) \in Nat
    BY <1>3, <1>4 DEF TxInv, WireInv, Gathered
  <1>6. /\ Len(pushed'[n + 1].bytes) = call[a].desc.totalLength
        /\ call[a].desc.totalLength \in Nat
    <2>1. Gathered(call[a].desc)
      BY Zenon DEF Sends
    <2>2. pushed'[n + 1].bytes = Gather(call[a].desc.buffer)
      BY <1>3 DEF FrameOf
    <2>3. /\ call[a].desc \in Descriptors
          /\ Len(Gather(call[a].desc.buffer)) = call[a].desc.totalLength
      BY <2>1, Zenon DEF Gathered
    <2> QED
      BY <1>4, <2>2, <2>3
  <1>7. PICK f, g : /\ f = [j \in 1 .. n |-> Len(pushed[j].bytes)]
                    /\ g = [j \in 1 .. n + 1 |-> Len(pushed'[j].bytes)]
    OBVIOUS
  <1>8. n + 1 \in 1 .. n + 1 /\ \A j \in 1 .. n : j \in 1 .. n + 1
    BY <1>3
  <1>9. \A j \in 1 .. n + 1 : j \in 1 .. n \/ j = n + 1
    BY <1>3
  <1>10. /\ \A j \in 1 .. n : g[j] = f[j]
         /\ g[n + 1] = call[a].desc.totalLength
    BY <1>3, <1>6, <1>7, <1>8
  <1>11. f \in [1 .. n -> Nat]
    BY <1>5, <1>7
  <1>12. g \in [1 .. n + 1 -> Nat]
    <2>1. \A j \in 1 .. n + 1 : Len(pushed'[j].bytes) \in Nat
      BY <1>3, <1>5, <1>6, <1>9
    <2> QED
      BY <1>7, <2>1
  <1>13. BytesOnWire = SumFunction(f)
    BY <1>3, <1>7 DEF BytesOnWire
  <1>14. BytesOnWire' = SumFunction(g)
    BY <1>3, <1>7 DEF BytesOnWire
  <1>15. SumFunction(f) \in Nat /\ SumFunction(g) = SumFunction(f) + g[n + 1]
    BY <1>3, <1>10, <1>11, <1>12, SumAppend
  <1> QED
    BY <1>2, <1>3, <1>10, <1>13, <1>14, <1>15

\* A queue counts once more.
LEMMA SumMoves ==
  ASSUME TxTypeInv, NEW q \in Queues, NEW x \in Counters, qstats' = [qstats EXCEPT ![q] = x]
  PROVE  /\ Sum("packets")' \in Nat /\ Sum("packets")' + qstats[q].packets = Sum("packets") + x.packets
         /\ Sum("bytes")' \in Nat /\ Sum("bytes")' + qstats[q].bytes = Sum("bytes") + x.bytes
         /\ Sum("dropped")' \in Nat /\ Sum("dropped")' + qstats[q].dropped = Sum("dropped") + x.dropped
  <1>1. IsFiniteSet(Queues)
    BY TxPathAssumption
  <1>2. qstats'[q] = x /\ \A p \in Queues : p # q => qstats'[p] = qstats[p]
    BY DEF TxTypeInv
  <1>3. ASSUME NEW f, \A y \in Counters : y[f] \in Nat
        PROVE  Sum(f)' \in Nat /\ Sum(f)' + qstats[q][f] = Sum(f) + x[f]
    <2>1. PICK g, h : g = [p \in Queues |-> qstats[p][f]] /\ h = [p \in Queues |-> qstats'[p][f]]
      OBVIOUS
    <2>2. Sum(f) = SumFunction(g) /\ Sum(f)' = SumFunction(h)
      BY <2>1 DEF Sum
    <2>3. g \in [Queues -> Nat]
      BY <1>3, <2>1 DEF TxTypeInv
    <2>4. h \in [Queues -> Nat]
      BY <1>2, <1>3, <2>1 DEF TxTypeInv
    <2>5. g[q] = qstats[q][f] /\ h[q] = x[f] /\ \A p \in Queues : p # q => h[p] = g[p]
      BY <1>2, <2>1
    <2>6. SumFunction(h) \in Nat /\ SumFunction(h) + g[q] = SumFunction(g) + h[q]
      BY <1>1, <2>3, <2>4, <2>5, SumChange
    <2> QED
      BY <2>2, <2>5, <2>6
  <1>4. \A y \in Counters : y["packets"] \in Nat /\ y["bytes"] \in Nat /\ y["dropped"] \in Nat
    BY DEF Counters
  <1> QED
    BY <1>3, <1>4

\* The numbers of calls in flight and their bytes, when a call moves to r.
Flight(a, r) ==
    /\ call' = [call EXCEPT ![a] = r]
    /\ \A steps \in {{"pushed", "count"}, {"pushed"}, {"drop"}} :
          /\ Cardinality(InFlight(steps)) \in Nat /\ Cardinality(InFlight(steps)') \in Nat
          /\ Cardinality(InFlight(steps)') + One(call[a].at \in steps) =
             Cardinality(InFlight(steps)) + One(r.at \in steps)
          /\ BytesInFlight(steps) \in Nat /\ BytesInFlight(steps)' \in Nat
          /\ BytesInFlight(steps)' + Bytes(call[a], steps) = BytesInFlight(steps) + Bytes(r, steps)

\* A sender that stays, enters or leaves some steps.
LEMMA FlightEffect ==
  ASSUME NEW a, NEW r, Flight(a, r), NEW steps \in {{"pushed", "count"}, {"pushed"}, {"drop"}}
  PROVE  /\ Cardinality(InFlight(steps)) \in Nat /\ Cardinality(InFlight(steps)') \in Nat
         /\ BytesInFlight(steps) \in Nat /\ BytesInFlight(steps)' \in Nat
         /\ (call[a].at \in steps <=> r.at \in steps) =>
               Cardinality(InFlight(steps)') = Cardinality(InFlight(steps))
         /\ call[a].at \notin steps /\ r.at \notin steps =>
               BytesInFlight(steps)' = BytesInFlight(steps)
         /\ call[a].at \in steps /\ r.at \in steps /\ r.desc.totalLength \in Nat
                /\ r.desc.totalLength = call[a].desc.totalLength =>
               BytesInFlight(steps)' = BytesInFlight(steps)
         /\ call[a].at \notin steps /\ r.at \in steps =>
               /\ Cardinality(InFlight(steps)') = Cardinality(InFlight(steps)) + 1
               /\ BytesInFlight(steps)' = BytesInFlight(steps) + r.desc.totalLength
         /\ call[a].at \in steps /\ r.at \notin steps =>
               /\ Cardinality(InFlight(steps)') + 1 = Cardinality(InFlight(steps))
               /\ BytesInFlight(steps)' + call[a].desc.totalLength = BytesInFlight(steps)
  <1>1. PICK i, j, k, l, p, q, m, n :
           /\ i = Cardinality(InFlight(steps)) /\ j = Cardinality(InFlight(steps)')
           /\ k = BytesInFlight(steps) /\ l = BytesInFlight(steps)'
           /\ p = One(call[a].at \in steps) /\ q = One(r.at \in steps)
           /\ m = Bytes(call[a], steps) /\ n = Bytes(r, steps)
    OBVIOUS
  <1>2. i \in Nat /\ j \in Nat /\ k \in Nat /\ l \in Nat /\ j + p = i + q /\ l + m = k + n
    BY <1>1, Zenon DEF Flight
  <1>3. /\ call[a].at \in steps => p = 1 /\ m = call[a].desc.totalLength
        /\ call[a].at \notin steps => p = 0 /\ m = 0
        /\ r.at \in steps => q = 1 /\ n = r.desc.totalLength
        /\ r.at \notin steps => q = 0 /\ n = 0
    BY <1>1 DEF One, Bytes
  <1>4. /\ p = 0 /\ q = 0 => j = i
        /\ p = 1 /\ q = 1 => j = i
        /\ p = 0 /\ q = 1 => j = i + 1
        /\ p = 1 /\ q = 0 => j + 1 = i
    BY <1>2
  <1>5. /\ m = 0 /\ n = 0 => l = k
        /\ m \in Nat /\ m = n => l = k
        /\ m = 0 => l = k + n
        /\ n = 0 => l + m = k
    BY <1>2
  <1> QED
    BY <1>1, <1>2, <1>3, <1>4, <1>5, Zenon

\* What a step of one sender does to the frames in flight.
LEMMA FlightMoves ==
  ASSUME TxInv, TxTypeInv', NEW a \in Apps, NEW r, call' = [call EXCEPT ![a] = r]
  PROVE  Flight(a, r)
  <1>1. TxTypeInv
    BY DEF TxInv
  <1>2. ASSUME NEW steps
        PROVE  /\ Cardinality(InFlight(steps)) \in Nat /\ Cardinality(InFlight(steps)') \in Nat
               /\ Cardinality(InFlight(steps)') + One(call[a].at \in steps) =
                  Cardinality(InFlight(steps)) + One(r.at \in steps)
    BY <1>1, InFlightMoves
  <1>3. ASSUME NEW steps
        PROVE  /\ BytesInFlight(steps) \in Nat /\ BytesInFlight(steps)' \in Nat
               /\ BytesInFlight(steps)' + Bytes(call[a], steps) = BytesInFlight(steps) + Bytes(r, steps)
    BY <1>1, BytesMove
  <1> QED
    BY <1>2, <1>3, Zenon DEF Flight

\* The numbers CountersMatchWire is about.
LEMMA CounterTypes ==
  ASSUME TxTypeInv
  PROVE  /\ stats.packets \in Nat /\ stats.bytes \in Nat /\ stats.dropped \in Nat
         /\ replaced.packets \in Nat /\ replaced.bytes \in Nat /\ replaced.dropped \in Nat
         /\ Sum("packets") \in Nat /\ Sum("bytes") \in Nat /\ Sum("dropped") \in Nat
  BY SumType DEF TxTypeInv, Counters

\* A step between places that count nothing.
LEMMA NothingCounted ==
  ASSUME TxInv, CountersMatchWire, NEW a \in Apps, NEW r, Flight(a, r),
         call[a].at \notin {"pushed", "count", "drop"}, r.at \notin {"pushed", "count", "drop"},
         UNCHANGED <<pushed, stats, qstats, replaced>>
  PROVE  CountersMatchWire'
  <1>1. /\ Sum("packets")' = Sum("packets") /\ Sum("bytes")' = Sum("bytes")
        /\ Sum("dropped")' = Sum("dropped") /\ BytesOnWire' = BytesOnWire
    BY DEF Sum, BytesOnWire
  <1>2. ASSUME NEW steps \in {{"pushed", "count"}, {"pushed"}, {"drop"}}
        PROVE  call[a].at \notin steps /\ r.at \notin steps
    OBVIOUS
  <1>3. \A steps \in {{"pushed", "count"}, {"pushed"}, {"drop"}} :
           /\ Cardinality(InFlight(steps)') = Cardinality(InFlight(steps))
           /\ BytesInFlight(steps)' = BytesInFlight(steps)
    BY <1>2, FlightEffect
  <1> QED
    BY <1>1, <1>3 DEF CountersMatchWire

\* What one more does to each counter.
LEMMA CountedFields ==
  ASSUME NEW c \in Counters, NEW n \in Nat
  PROVE  /\ Counted(c, n).packets = c.packets + 1 /\ Counted(c, n).bytes = c.bytes + n
         /\ Counted(c, n).dropped = c.dropped
         /\ Dropped(c).packets = c.packets /\ Dropped(c).bytes = c.bytes
         /\ Dropped(c).dropped = c.dropped + 1
  <1>1. PICK p \in Nat, b \in Nat, d \in Nat : p = c.packets + 1 /\ b = c.bytes + n /\ d = c.dropped + 1
    BY DEF Counters
  <1>2. Counted(c, n) = [c EXCEPT !.packets = p, !.bytes = b] /\ Dropped(c) = [c EXCEPT !.dropped = d]
    BY <1>1 DEF Counted, Dropped
  <1>3. /\ [c EXCEPT !.packets = p, !.bytes = b].packets = p
        /\ [c EXCEPT !.packets = p, !.bytes = b].bytes = b
        /\ [c EXCEPT !.packets = p, !.bytes = b].dropped = c.dropped
        /\ [c EXCEPT !.dropped = d].dropped = d
        /\ [c EXCEPT !.dropped = d].packets = c.packets
        /\ [c EXCEPT !.dropped = d].bytes = c.bytes
    BY DEF Counters
  <1> QED
    BY <1>1, <1>2, <1>3

\* A frame goes out.
LEMMA PushCounted ==
  ASSUME TxInv, CountersMatchWire, NEW a \in Apps, Sends(a), NEW r, Flight(a, r),
         r.at = "pushed", r.desc = call[a].desc, UNCHANGED <<stats, qstats, replaced>>
  PROVE  CountersMatchWire'
  <1>1. /\ Sum("packets")' = Sum("packets") /\ Sum("bytes")' = Sum("bytes")
        /\ Sum("dropped")' = Sum("dropped")
    BY DEF Sum
  <1>2. PICK n \in Nat : n = call[a].desc.totalLength
    BY CallFields DEF TxInv
  <1>3. PICK l, w, k, i, m, j :
           /\ l = Len(pushed) /\ w = BytesOnWire
           /\ k = Cardinality(InFlight({"pushed", "count"})) /\ i = Cardinality(InFlight({"pushed"}))
           /\ m = BytesInFlight({"pushed", "count"}) /\ j = BytesInFlight({"pushed"})
    OBVIOUS
  <1>4. k \in Nat /\ i \in Nat /\ m \in Nat /\ j \in Nat
    BY <1>3, FlightEffect
  <1>5. /\ Cardinality(InFlight({"pushed", "count"})') = k + 1
        /\ Cardinality(InFlight({"pushed"})') = i + 1
        /\ Cardinality(InFlight({"drop"})') = Cardinality(InFlight({"drop"}))
    <2>1. call[a].at = "push" /\ r.at = "pushed"
      BY DEF Sends
    <2> QED
      BY <1>3, <2>1, FlightEffect
  <1>6. /\ BytesInFlight({"pushed", "count"})' = m + n
        /\ BytesInFlight({"pushed"})' = j + n
    <2>1. call[a].at = "push" /\ r.at = "pushed"
      BY DEF Sends
    <2>2. ASSUME NEW steps \in {{"pushed", "count"}, {"pushed"}}
          PROVE  BytesInFlight(steps)' = BytesInFlight(steps) + r.desc.totalLength
      <3>1. /\ steps \in {{"pushed", "count"}, {"pushed"}, {"drop"}}
            /\ call[a].at \notin steps /\ r.at \in steps
        BY <2>1
      <3> QED
        BY <3>1, FlightEffect, Zenon
    <2>3. r.desc.totalLength = n
      BY <1>2
    <2> QED
      BY <1>3, <2>2, <2>3
  <1>7. Len(pushed') = l + 1 /\ BytesOnWire' = w + n
    BY <1>2, <1>3, BytesPushed
  <1>8. PICK x \in Nat, y \in Nat, t \in Nat, u \in Nat, v \in Nat, z \in Nat :
           /\ x = stats.packets /\ y = stats.bytes /\ t = replaced.packets /\ u = replaced.bytes
           /\ v = Sum("packets") /\ z = Sum("bytes")
    BY CounterTypes DEF TxInv
  <1>9. l = x + k /\ l = t + v + i /\ w = y + m /\ w = u + z + j
    BY <1>3, <1>8 DEF CountersMatchWire
  <1>10. l + 1 = x + (k + 1) /\ l + 1 = t + v + (i + 1) /\ w + n = y + (m + n) /\ w + n = u + z + (j + n)
    BY <1>4, <1>9
  <1>11. replaced.dropped + Sum("dropped") = stats.dropped + Cardinality(InFlight({"drop"}))
    BY DEF CountersMatchWire
  <1> QED
    BY <1>1, <1>5, <1>6, <1>7, <1>8, <1>10, <1>11, Zenon DEF CountersMatchWire

\* put() counts what it sent in its queue.
LEMMA SentCounted ==
  ASSUME TxInv, CountersMatchWire, NEW a \in Apps, NEW r, Flight(a, r), call[a].at = "pushed",
         r.at = "count", r.desc = call[a].desc, call[a].queue \in Queues,
         qstats' = [qstats EXCEPT ![call[a].queue] = Counted(@, call[a].desc.totalLength)],
         UNCHANGED <<pushed, stats, replaced>>
  PROVE  CountersMatchWire'
  <1>1. PICK n \in Nat : n = call[a].desc.totalLength
    BY CallFields DEF TxInv
  <1>2. PICK c, x : c = qstats[call[a].queue] /\ x = Counted(c, n)
    OBVIOUS
  <1>3. c \in Counters /\ x \in Counters
    BY <1>2, CountersGrow DEF TxInv, TxTypeInv
  <1>4. /\ x.packets = c.packets + 1 /\ x.bytes = c.bytes + n /\ x.dropped = c.dropped
        /\ c.packets \in Nat /\ c.bytes \in Nat /\ c.dropped \in Nat
    <2>1. x.packets = c.packets + 1 /\ x.bytes = c.bytes + n /\ x.dropped = c.dropped
      BY <1>2, <1>3, CountedFields
    <2>2. c.packets \in Nat /\ c.bytes \in Nat /\ c.dropped \in Nat
      BY <1>3 DEF Counters
    <2> QED
      BY <2>1, <2>2
  <1>5. qstats' = [qstats EXCEPT ![call[a].queue] = x]
    BY <1>1, <1>2
  <1>6. PICK t \in Nat, u \in Nat, v \in Nat, z \in Nat, d \in Nat :
           /\ t = replaced.packets /\ u = replaced.bytes
           /\ v = Sum("packets") /\ z = Sum("bytes") /\ d = Sum("dropped")
    BY CounterTypes DEF TxInv
  <1>7. PICK i, j, i1, j1, v1, z1, d1 :
           /\ i = Cardinality(InFlight({"pushed"})) /\ j = BytesInFlight({"pushed"})
           /\ i1 = Cardinality(InFlight({"pushed"})') /\ j1 = BytesInFlight({"pushed"})'
           /\ v1 = Sum("packets")' /\ z1 = Sum("bytes")' /\ d1 = Sum("dropped")'
    OBVIOUS
  <1>8. /\ v1 \in Nat /\ v1 + c.packets = v + x.packets
        /\ z1 \in Nat /\ z1 + c.bytes = z + x.bytes
        /\ d1 \in Nat /\ d1 + c.dropped = d + x.dropped
    BY <1>2, <1>3, <1>5, <1>6, <1>7, SumMoves DEF TxInv
  <1>9. v1 = v + 1 /\ z1 = z + n /\ d1 = d
    <2>1. PICK e \in Nat : v1 \in Nat /\ v1 + e = v + (e + 1)
      BY <1>4, <1>8, Zenon
    <2>2. v1 = v + 1
      BY <2>1
    <2>3. PICK f \in Nat : z1 \in Nat /\ z1 + f = z + (f + n)
      BY <1>4, <1>8, Zenon
    <2>4. z1 = z + n
      BY <2>3
    <2>5. PICK g \in Nat : d1 \in Nat /\ d1 + g = d + g
      BY <1>4, <1>8, Zenon
    <2>6. d1 = d
      BY <2>5
    <2> QED
      BY <2>2, <2>4, <2>6
  <1>10. i \in Nat /\ i1 \in Nat /\ i1 + 1 = i /\ j \in Nat /\ j1 \in Nat /\ j1 + n = j
    <2>1. call[a].at \in {"pushed"} /\ r.at \notin {"pushed"}
      OBVIOUS
    <2> QED
      BY <1>1, <1>7, <2>1, FlightEffect
  <1>11. /\ Cardinality(InFlight({"pushed", "count"})') = Cardinality(InFlight({"pushed", "count"}))
         /\ Cardinality(InFlight({"drop"})') = Cardinality(InFlight({"drop"}))
    BY FlightEffect
  <1>12. BytesInFlight({"pushed", "count"})' = BytesInFlight({"pushed", "count"})
    BY <1>1, FlightEffect
  <1>13. BytesOnWire' = BytesOnWire
    BY DEF BytesOnWire
  <1>14. t + v + i = t + v1 + i1 /\ u + z + j = u + z1 + j1
    BY <1>6, <1>9, <1>10
  <1>15. Len(pushed) = t + v + i /\ BytesOnWire = u + z + j
    BY <1>6, <1>7 DEF CountersMatchWire
  <1>16. Len(pushed) = t + v1 + i1 /\ BytesOnWire = u + z1 + j1
    BY <1>14, <1>15
  <1> QED
    BY <1>6, <1>7, <1>9, <1>11, <1>12, <1>13, <1>16, Zenon DEF CountersMatchWire

\* put() counts a refused descriptor in its queue.
LEMMA RefusalCounted ==
  ASSUME TxInv, CountersMatchWire, NEW a \in Apps, NEW r, Flight(a, r), call[a].at = "refused",
         r.at = "drop", call[a].queue \in Queues,
         qstats' = [qstats EXCEPT ![call[a].queue] = Dropped(@)],
         UNCHANGED <<pushed, stats, replaced>>
  PROVE  CountersMatchWire'
  <1>1. PICK c, x : c = qstats[call[a].queue] /\ x = Dropped(c)
    OBVIOUS
  <1>2. c \in Counters /\ x \in Counters
    BY <1>1, CountersGrow DEF TxInv, TxTypeInv
  <1>3. /\ x.packets = c.packets /\ x.bytes = c.bytes /\ x.dropped = c.dropped + 1
        /\ c.packets \in Nat /\ c.bytes \in Nat /\ c.dropped \in Nat
    BY <1>1, <1>2, CountedFields DEF Counters
  <1>4. qstats' = [qstats EXCEPT ![call[a].queue] = x]
    BY <1>1
  <1>5. PICK s \in Nat, t \in Nat, v \in Nat, z \in Nat, d \in Nat :
           /\ s = stats.dropped /\ t = replaced.dropped
           /\ v = Sum("packets") /\ z = Sum("bytes") /\ d = Sum("dropped")
    BY CounterTypes DEF TxInv
  <1>6. PICK i, i1, v1, z1, d1 :
           /\ i = Cardinality(InFlight({"drop"})) /\ i1 = Cardinality(InFlight({"drop"})')
           /\ v1 = Sum("packets")' /\ z1 = Sum("bytes")' /\ d1 = Sum("dropped")'
    OBVIOUS
  <1>7. /\ v1 \in Nat /\ v1 + c.packets = v + x.packets
        /\ z1 \in Nat /\ z1 + c.bytes = z + x.bytes
        /\ d1 \in Nat /\ d1 + c.dropped = d + x.dropped
    BY <1>1, <1>2, <1>4, <1>5, <1>6, SumMoves DEF TxInv
  <1>8. v1 = v /\ z1 = z /\ d1 = d + 1
    <2>1. PICK e \in Nat : v1 \in Nat /\ v1 + e = v + e
      BY <1>3, <1>7, Zenon
    <2>2. v1 = v
      BY <2>1
    <2>3. PICK f \in Nat : z1 \in Nat /\ z1 + f = z + f
      BY <1>3, <1>7, Zenon
    <2>4. z1 = z
      BY <2>3
    <2>5. PICK g \in Nat : d1 \in Nat /\ d1 + g = d + (g + 1)
      BY <1>3, <1>7, Zenon
    <2>6. d1 = d + 1
      BY <2>5
    <2> QED
      BY <2>2, <2>4, <2>6
  <1>9. i \in Nat /\ i1 \in Nat /\ i1 = i + 1
    BY <1>6, FlightEffect
  <1>10. /\ Cardinality(InFlight({"pushed", "count"})') = Cardinality(InFlight({"pushed", "count"}))
         /\ Cardinality(InFlight({"pushed"})') = Cardinality(InFlight({"pushed"}))
    BY FlightEffect
  <1>11. /\ BytesInFlight({"pushed", "count"})' = BytesInFlight({"pushed", "count"})
         /\ BytesInFlight({"pushed"})' = BytesInFlight({"pushed"})
    BY FlightEffect
  <1>12. BytesOnWire' = BytesOnWire
    BY DEF BytesOnWire
  <1>13. t + d = s + i
    BY <1>5, <1>6 DEF CountersMatchWire
  <1>14. t + d1 = s + i1
    <2>1. t + (d + 1) = s + (i + 1)
      BY <1>9, <1>13
    <2> QED
      BY <1>8, <1>9, <2>1, Zenon
  <1> QED
    BY <1>5, <1>6, <1>8, <1>10, <1>11, <1>12, <1>14, Zenon DEF CountersMatchWire

\* tx() counts what was sent in the port.
LEMMA PortCounted ==
  ASSUME TxInv, CountersMatchWire, NEW a \in Apps, NEW r, Flight(a, r), call[a].at = "count",
         r.at = "next", stats' = Counted(stats, call[a].desc.totalLength),
         UNCHANGED <<pushed, qstats, replaced>>
  PROVE  CountersMatchWire'
  <1>1. PICK n \in Nat : n = call[a].desc.totalLength
    BY CallFields DEF TxInv
  <1>2. stats \in Counters
    BY DEF TxInv, TxTypeInv
  <1>3. PICK x \in Nat, y \in Nat : x = stats.packets /\ y = stats.bytes
    BY CounterTypes DEF TxInv
  <1>4. stats'.packets = x + 1 /\ stats'.bytes = y + n /\ stats'.dropped = stats.dropped
    BY <1>1, <1>2, <1>3, CountedFields
  <1>5. PICK i, i1, j, j1 :
           /\ i = Cardinality(InFlight({"pushed", "count"})) /\ j = BytesInFlight({"pushed", "count"})
           /\ i1 = Cardinality(InFlight({"pushed", "count"})') /\ j1 = BytesInFlight({"pushed", "count"})'
    OBVIOUS
  <1>6. i \in Nat /\ i1 \in Nat /\ i1 + 1 = i /\ j \in Nat /\ j1 \in Nat /\ j1 + n = j
    <2>1. call[a].at \in {"pushed", "count"} /\ r.at \notin {"pushed", "count"}
      OBVIOUS
    <2> QED
      BY <1>1, <1>5, <2>1, FlightEffect
  <1>7. /\ Cardinality(InFlight({"drop"})') = Cardinality(InFlight({"drop"}))
        /\ Cardinality(InFlight({"pushed"})') = Cardinality(InFlight({"pushed"}))
    BY FlightEffect
  <1>8. BytesInFlight({"pushed"})' = BytesInFlight({"pushed"})
    BY FlightEffect
  <1>9. /\ Sum("packets")' = Sum("packets") /\ Sum("bytes")' = Sum("bytes")
        /\ Sum("dropped")' = Sum("dropped") /\ BytesOnWire' = BytesOnWire
    BY DEF Sum, BytesOnWire
  <1>10. x + i = (x + 1) + i1 /\ y + j = (y + n) + j1
    BY <1>3, <1>6
  <1>11. Len(pushed) = x + i /\ BytesOnWire = y + j
    BY <1>3, <1>5 DEF CountersMatchWire
  <1>12. Len(pushed) = (x + 1) + i1 /\ BytesOnWire = (y + n) + j1
    BY <1>10, <1>11
  <1> QED
    BY <1>4, <1>5, <1>7, <1>8, <1>9, <1>12, Zenon DEF CountersMatchWire

\* tx() counts a refused descriptor in the port.
LEMMA DropCounted ==
  ASSUME TxInv, CountersMatchWire, NEW a \in Apps, NEW r, Flight(a, r), call[a].at = "drop",
         r.at = "idle", stats' = Dropped(stats), UNCHANGED <<pushed, qstats, replaced>>
  PROVE  CountersMatchWire'
  <1>1. stats \in Counters
    BY DEF TxInv, TxTypeInv
  <1>2. PICK s \in Nat, t \in Nat, d \in Nat :
           s = stats.dropped /\ t = replaced.dropped /\ d = Sum("dropped")
    BY CounterTypes DEF TxInv
  <1>3. stats'.packets = stats.packets /\ stats'.bytes = stats.bytes /\ stats'.dropped = s + 1
    BY <1>1, <1>2, CountedFields
  <1>4. PICK i, i1 : i = Cardinality(InFlight({"drop"})) /\ i1 = Cardinality(InFlight({"drop"})')
    OBVIOUS
  <1>5. i \in Nat /\ i1 \in Nat /\ i1 + 1 = i
    BY <1>4, FlightEffect
  <1>6. /\ Cardinality(InFlight({"pushed", "count"})') = Cardinality(InFlight({"pushed", "count"}))
        /\ Cardinality(InFlight({"pushed"})') = Cardinality(InFlight({"pushed"}))
    BY FlightEffect
  <1>7. /\ BytesInFlight({"pushed", "count"})' = BytesInFlight({"pushed", "count"})
        /\ BytesInFlight({"pushed"})' = BytesInFlight({"pushed"})
    BY FlightEffect
  <1>8. /\ Sum("packets")' = Sum("packets") /\ Sum("bytes")' = Sum("bytes")
        /\ Sum("dropped")' = Sum("dropped") /\ BytesOnWire' = BytesOnWire
    BY DEF Sum, BytesOnWire
  <1>9. t + d = s + i
    BY <1>2, <1>4 DEF CountersMatchWire
  <1>10. t + d = (s + 1) + i1
    BY <1>2, <1>5, <1>9
  <1> QED
    BY <1>2, <1>3, <1>4, <1>6, <1>7, <1>8, <1>10, Zenon DEF CountersMatchWire

\* Nothing is in flight or counted at the start.
LEMMA CountersBegin == Init => CountersMatchWire
  <1> SUFFICES ASSUME Init PROVE CountersMatchWire
    OBVIOUS
  <1>1. \A a \in Apps : call[a].at = "idle"
    BY DEF Init, Idle
  <1>2. \A steps \in {{"pushed", "count"}, {"pushed"}, {"drop"}} : Cardinality(InFlight(steps)) = 0
    <2>1. \A steps \in {{"pushed", "count"}, {"pushed"}, {"drop"}} : InFlight(steps) = {}
      BY <1>1 DEF InFlight
    <2> QED
      BY <2>1, FS_EmptySet
  <1>3. ASSUME NEW steps \in {{"pushed", "count"}, {"pushed"}, {"drop"}} PROVE BytesInFlight(steps) = 0
    <2>1. PICK f : f = [a \in Apps |-> IF call[a].at \in steps THEN call[a].desc.totalLength ELSE 0]
      OBVIOUS
    <2>2. DOMAIN f = Apps /\ \A a \in Apps : f[a] = 0
      BY <1>1, <2>1
    <2>3. IsFiniteSet(Apps)
      BY TxPathAssumption DEF Apps
    <2>4. SumFunction(f) = 0
      BY <2>2, <2>3, SumOfZeroes
    <2> QED
      BY <2>1, <2>4 DEF BytesInFlight
  <1>4. BytesOnWire = 0
    <2>1. PICK f : f = [j \in DOMAIN pushed |-> Len(pushed[j].bytes)]
      OBVIOUS
    <2>2. DOMAIN f = {} /\ IsFiniteSet({})
      BY <2>1, FS_EmptySet DEF Init, LinkInit
    <2>3. SumFunction(f) = 0
      BY <2>2, SumOfZeroes
    <2> QED
      BY <2>1, <2>3 DEF BytesOnWire
  <1>5. ASSUME NEW f, Zero[f] = 0 PROVE Sum(f) = 0
    <2>1. PICK g : g = [q \in Queues |-> qstats[q][f]]
      OBVIOUS
    <2>2. DOMAIN g = Queues /\ \A q \in Queues : g[q] = 0
      BY <1>5, <2>1 DEF Init
    <2>3. SumFunction(g) = 0
      BY <2>2, TxPathAssumption, SumOfZeroes
    <2> QED
      BY <2>1, <2>3 DEF Sum
  <1>6. Zero["packets"] = 0 /\ Zero["bytes"] = 0 /\ Zero["dropped"] = 0
    BY DEF Zero
  <1>7. Sum("packets") = 0 /\ Sum("bytes") = 0 /\ Sum("dropped") = 0
    BY <1>5, <1>6
  <1>8. /\ stats.packets = 0 /\ stats.bytes = 0 /\ stats.dropped = 0
        /\ replaced.packets = 0 /\ replaced.bytes = 0 /\ replaced.dropped = 0
        /\ Len(pushed) = 0
    BY DEF Init, LinkInit, Zero
  <1> QED
    BY <1>2, <1>3, <1>4, <1>7, <1>8 DEF CountersMatchWire

\* configure() keeps the sums: the counts of the queues it replaces are added up.
LEMMA ConfigureCounted ==
  ASSUME TxInv, CountersMatchWire, NEW d, Configure(d)
  PROVE  CountersMatchWire'
  <1>1. UNCHANGED <<call, stats, pushed>> /\ qstats' = [q \in Queues |-> Zero]
    BY DEF Configure, ConfigureLink
  <1>2. ASSUME NEW f, Zero[f] = 0 PROVE Sum(f)' = 0
    <2>1. PICK g : g = [q \in Queues |-> qstats'[q][f]]
      OBVIOUS
    <2>2. DOMAIN g = Queues /\ \A q \in Queues : g[q] = 0
      BY <1>1, <1>2, <2>1
    <2>3. SumFunction(g) = 0
      BY <2>2, TxPathAssumption, SumOfZeroes
    <2> QED
      BY <2>1, <2>3 DEF Sum
  <1>3. Zero["packets"] = 0 /\ Zero["bytes"] = 0 /\ Zero["dropped"] = 0
    BY DEF Zero
  <1>4. Sum("packets")' = 0 /\ Sum("bytes")' = 0 /\ Sum("dropped")' = 0
    BY <1>2, <1>3
  <1>5. PICK t \in Nat, u \in Nat, w \in Nat, x \in Nat, y \in Nat, z \in Nat :
           /\ t = replaced.packets /\ u = replaced.bytes /\ w = replaced.dropped
           /\ x = Sum("packets") /\ y = Sum("bytes") /\ z = Sum("dropped")
    BY CounterTypes DEF TxInv
  <1>6. replaced'.packets = t + x /\ replaced'.bytes = u + y /\ replaced'.dropped = w + z
    BY <1>5, ConfigureCounters DEF TxInv
  <1>7. (t + x) + 0 = t + x /\ (u + y) + 0 = u + y /\ (w + z) + 0 = w + z
    BY <1>5
  <1>8. /\ replaced'.packets + Sum("packets")' = t + x /\ replaced'.bytes + Sum("bytes")' = u + y
        /\ replaced'.dropped + Sum("dropped")' = w + z
    BY <1>4, <1>6, <1>7
  <1>9. /\ BytesOnWire' = BytesOnWire
        /\ \A steps : InFlight(steps)' = InFlight(steps) /\ BytesInFlight(steps)' = BytesInFlight(steps)
    BY <1>1 DEF BytesOnWire, InFlight, BytesInFlight
  <1> QED
    BY <1>1, <1>5, <1>8, <1>9, Zenon DEF CountersMatchWire

\* Every step keeps the counters in step with the wire.
LEMMA CounterStep ==
  ASSUME TxInv, CountersMatchWire, [Next]_vars
  PROVE  CountersMatchWire'
  <1>1. TxTypeInv'
    BY TxStep
  <1>2. ASSUME NEW a \in Apps, Begins(a) PROVE CountersMatchWire'
    <2>1. PICK q \in Queues, n \in 0 .. MaxBurst : Tx(a, q, n)
      BY <1>2 DEF Begins
    <2>2. PICK r : r = [Idle EXCEPT !.at = "next", !.number = calls + 1, !.queue = q, !.size = n]
      OBVIOUS
    <2>3. /\ call' = [call EXCEPT ![a] = r] /\ call[a].at = "idle" /\ r.at = "next"
          /\ UNCHANGED <<pushed, stats, qstats, replaced>>
      BY <2>1, <2>2 DEF Tx, linkVars, Idle
    <2> QED
      BY <1>1, <2>3, FlightMoves, NothingCounted
  <1>3. ASSUME NEW a \in Apps,
               Refuse(a) \/ (\E d \in Descriptors, b \in Block : Put(a, d, b)) \/ (PutTx(a) /\ PushFails(a))
        PROVE  CountersMatchWire'
    <2>1. call[a].at \in {"next", "push"} /\ UNCHANGED <<pushed, stats, qstats, replaced>>
      BY <1>3 DEF Refuse, Put, PutTx, PushFails, Allocate, More, linkVars
    <2>2. PICK r : Continues(a, r) /\ r.at \in {"refused", "push"}
      <3>1. CASE Refuse(a)
        BY <3>1, RefuseStep
      <3>2. ASSUME NEW d \in Descriptors, NEW b \in Block, Put(a, d, b)
            PROVE  \E r : Continues(a, r) /\ r.at \in {"refused", "push"}
        BY <3>2, PutStep
      <3>3. CASE PutTx(a) /\ PushFails(a)
        <4>1. ~Push(a)
          BY <3>3 DEF Push, PushFails
        <4> QED
          BY <3>3, <4>1, PushFailsStep DEF PutTx
      <3> QED
        BY <1>3, <3>1, <3>2, <3>3
    <2>3. call' = [call EXCEPT ![a] = r]
      BY <2>2 DEF Continues
    <2> QED
      BY <1>1, <2>1, <2>2, <2>3, FlightMoves, NothingCounted
  <1>4. ASSUME NEW a \in Apps, PutTx(a), Push(a) PROVE CountersMatchWire'
    <2>1. call' = [call EXCEPT ![a].at = "pushed"]
      BY <1>4 DEF PutTx, Push, PushFails
    <2>2. Sends(a)
      BY <1>4, <2>1, PushStep DEF Sends
    <2>3. PICK r : Continues(a, r) /\ r.at = "pushed" /\ r.desc = call[a].desc
      BY <2>2 DEF Sends
    <2>4. call' = [call EXCEPT ![a] = r] /\ UNCHANGED <<stats, qstats, replaced>>
      BY <1>4, <2>3 DEF Continues, PutTx
    <2>5. Flight(a, r)
      BY <1>1, <2>4, FlightMoves
    <2> QED
      BY <2>2, <2>3, <2>4, <2>5, PushCounted
  <1>5. ASSUME NEW a \in Apps, CountInQueue(a) PROVE CountersMatchWire'
    <2>1. PICK r : /\ Continues(a, r) /\ r.desc = call[a].desc
                   /\ \/ call[a].at = "pushed" /\ r.at = "count"
                      \/ call[a].at = "refused" /\ r.at = "drop"
      BY <1>5, CountInQueueStep
    <2>2. call' = [call EXCEPT ![a] = r] /\ UNCHANGED <<pushed, stats, replaced>>
      BY <1>5, <2>1 DEF Continues, CountInQueue, linkVars
    <2>3. Flight(a, r) /\ call[a].queue \in Queues
      BY <1>1, <2>1, <2>2, FlightMoves DEF TxInv, CallInv
    <2>4. CASE call[a].at = "pushed" /\ r.at = "count"
      <3>1. qstats' = [qstats EXCEPT ![call[a].queue] = Counted(@, call[a].desc.totalLength)]
        BY <1>5, <2>4 DEF CountInQueue
      <3> QED
        BY <2>1, <2>2, <2>3, <2>4, <3>1, SentCounted
    <2>5. CASE call[a].at = "refused" /\ r.at = "drop"
      <3>1. qstats' = [qstats EXCEPT ![call[a].queue] = Dropped(@)]
        BY <1>5, <2>5 DEF CountInQueue
      <3> QED
        BY <2>2, <2>3, <2>5, <3>1, RefusalCounted
    <2> QED
      BY <2>1, <2>4, <2>5
  <1>6. ASSUME NEW a \in Apps, Count(a) PROVE CountersMatchWire'
    <2>1. PICK r : Continues(a, r) /\ r.at = "next"
      BY <1>6, CountStep
    <2>2. /\ call' = [call EXCEPT ![a] = r] /\ call[a].at = "count"
          /\ stats' = Counted(stats, call[a].desc.totalLength)
          /\ UNCHANGED <<pushed, qstats, replaced>>
      BY <1>6, <2>1 DEF Continues, Count, linkVars
    <2> QED
      BY <1>1, <2>1, <2>2, FlightMoves, PortCounted
  <1>7. ASSUME NEW a \in Apps, Drop(a) PROVE CountersMatchWire'
    <2>1. /\ call' = [call EXCEPT ![a] = Idle] /\ call[a].at = "drop" /\ Idle.at = "idle"
          /\ stats' = Dropped(stats) /\ UNCHANGED <<pushed, qstats, replaced>>
      BY <1>7 DEF Drop, AfterDrop, Dropped, linkVars, Idle
    <2> QED
      BY <1>1, <2>1, FlightMoves, DropCounted
  <1>8. ASSUME NEW a \in Apps, Return(a) PROVE CountersMatchWire'
    <2>1. /\ call' = [call EXCEPT ![a] = Idle] /\ call[a].at = "next" /\ Idle.at = "idle"
          /\ UNCHANGED <<pushed, stats, qstats, replaced>>
      BY <1>8 DEF Return, linkVars, Idle
    <2> QED
      BY <1>1, <2>1, FlightMoves, NothingCounted
  <1>9. ASSUME UNCHANGED <<call, stats, qstats, replaced, pushed>> PROVE CountersMatchWire'
    BY <1>9 DEF CountersMatchWire, BytesOnWire, BytesInFlight, InFlight, Sum
  <1>10. ASSUME NEW t \in Takers, TakeTx(t) PROVE CountersMatchWire'
    BY <1>9, <1>10 DEF TakeTx, txVars, Pop, Copied
  <1>11. ASSUME NEW q \in Queues, ConfigureQueue(q) PROVE CountersMatchWire'
    BY <1>9, <1>11 DEF ConfigureQueue, linkVars
  <1>12. CASE Destroy \/ Gone \/ UNCHANGED vars
    BY <1>9, <1>12 DEF Destroy, Drain, Gone, vars, txVars, linkVars
  <1>13. ASSUME NEW a \in Apps, PutTx(a) PROVE Push(a) \/ PushFails(a)
    BY <1>13 DEF PutTx
  <1> QED
    BY <1>2, <1>3, <1>4, <1>5, <1>6, <1>7, <1>8, <1>10, <1>11, <1>12, <1>13, ConfigureCounted DEF Next, Begins

-----------------------------------------------------------------------------
(* The theorems. *)

\* However the calls of the threads mix, what each puts on the wire is a prefix
\* of its burst, and tx() returns its length.
THEOREM BurstsArePrefixes == Spec => []BurstPrefix
  <1>1. Init => BurstInv
    <2> SUFFICES ASSUME Init PROVE BurstInv
      OBVIOUS
    <2>1. 1 .. calls = {} /\ \A a \in Apps : call[a].at = "idle"
      BY DEF Init, Idle
    <2> QED
      BY <2>1 DEF BurstInv
  <1>2. TxInv /\ BurstInv /\ [Next]_vars => BurstInv'
    BY BurstStep
  <1>3. Spec => []BurstInv
    BY <1>1, <1>2, TxInvHolds, PTL DEF Spec
  <1> QED
    BY <1>3, BurstInvIs, PTL

\* The counters of the port and of all queues, the replaced ones included,
\* agree with the wire in packets and bytes up to the calls in flight.
THEOREM CountersAgree == Spec => []CountersMatchWire
  <1>1. TxInv /\ CountersMatchWire /\ [Next]_vars => CountersMatchWire'
    BY CounterStep
  <1> QED
    BY <1>1, CountersBegin, TxInvHolds, PTL DEF Spec

=============================================================================
