---------------------------- MODULE RxQueueProofs ---------------------------
(***************************************************************************)
(* Theorems about RxQueue: buffer ownership, whole chains and order for    *)
(* any number of blocks, applications, queue sizes and packet lengths,     *)
(* whatever the applications do around stop(); and, when they return       *)
(* everything before it, that the queue is a channel: RxChannel.           *)
(***************************************************************************)
EXTENDS RxQueue, SequenceLemmas, FiniteSetTheorems, SequenceTheorems, TLAPS

-----------------------------------------------------------------------------
(* The pool under each kind of step. *)

\* Moving descriptors around leaves the pool as it is.
LEMMA PoolMove ==
  ASSUME PoolInv, UNCHANGED poolVars, Owned \subseteq Owned'
  PROVE  PoolInv'
  BY DEF PoolInv, poolVars, ChainsDisjoint

\* Releasing the chain of p returns exactly its blocks.
LEMMA PoolRelease ==
  ASSUME TypeOK, PoolInv, NEW p \in Packets, Release(p), Owned \ {p} \subseteq Owned'
  PROVE  /\ PoolInv'
         /\ allocated' \subseteq Block /\ live' \in Int /\ debt' = debt
         /\ chain' \in [Packets -> SUBSET Block]
  <1>1. /\ allocated' = allocated \ chain[p]
        /\ live' = live - Cardinality(chain[p])
        /\ chain' = [chain EXCEPT ![p] = {}]
        /\ debt' = debt
    BY DEF Release
  <1>2. /\ chain' \in [Packets -> SUBSET Block] /\ chain'[p] = {}
        /\ \A q \in Packets : q # p => chain'[q] = chain[q]
    BY <1>1 DEF TypeOK
  <1>3. chain[p] \subseteq allocated
    BY DEF PoolInv
  <1>4. IsFiniteSet(allocated)
    BY RxQueueAssumption, FS_Subset DEF TypeOK
  <1>5. Cardinality(allocated') = Cardinality(allocated) - Cardinality(chain[p])
    <2>1. allocated \cap chain[p] = chain[p]
      BY <1>3
    <2>2. Cardinality(allocated \ chain[p])
             = Cardinality(allocated) - Cardinality(allocated \cap chain[p])
      BY <1>4, FS_Difference
    <2> QED
      BY <1>1, <2>1, <2>2
  <1>6. live' = Cardinality(allocated') - debt' /\ live' \in Int
    <2>1. IsFiniteSet(chain[p])
      BY <1>3, <1>4, FS_Subset
    <2>2. Cardinality(chain[p]) \in Nat /\ Cardinality(allocated) \in Nat
      BY <1>4, <2>1, FS_CardinalityType
    <2> QED
      BY <1>1, <1>5, <2>2 DEF PoolInv, TypeOK
  <1>8. ChainsDisjoint'
    BY <1>2 DEF PoolInv, ChainsDisjoint
  <1>9. \A q \in Packets \ Owned' : chain'[q] = {}
    BY <1>2 DEF PoolInv
  <1>10. allocated' = UNION {chain'[q] : q \in Packets}
    <2>1. ASSUME NEW x \in allocated' PROVE \E q \in Packets : x \in chain'[q]
      BY <1>1, <1>2, <2>1 DEF PoolInv
    <2>2. ASSUME NEW q \in Packets, NEW x \in chain'[q] PROVE x \in allocated'
      <3>1. q # p /\ x \in chain[q]
        BY <1>2, <2>2
      <3>2. x \in allocated /\ x \notin chain[p]
        BY <3>1 DEF PoolInv, ChainsDisjoint
      <3> QED
        BY <1>1, <3>2
    <2> QED
      BY <2>1, <2>2
  <1>11. allocated' \subseteq Block
    BY <1>1 DEF TypeOK
  <1> QED
    BY <1>1, <1>2, <1>6, <1>8, <1>9, <1>10, <1>11 DEF PoolInv

\* Allocating a block for p, which put() owns.
LEMMA PoolAllocate ==
  ASSUME TypeOK, PoolInv, NEW p \in Packets, NEW b \in Block, Allocate(p, b),
         Owned \subseteq Owned', p \in Owned'
  PROVE  /\ PoolInv'
         /\ allocated' \subseteq Block /\ live' \in Int /\ debt' = debt
         /\ chain' \in [Packets -> SUBSET Block]
  <1>1. /\ b \notin allocated
        /\ allocated' = allocated \cup {b}
        /\ live' = live + 1
        /\ chain' = [chain EXCEPT ![p] = @ \cup {b}]
        /\ debt' = debt
    BY DEF Allocate
  <1>2. /\ chain' \in [Packets -> SUBSET Block] /\ chain'[p] = chain[p] \cup {b}
        /\ \A q \in Packets : q # p => chain'[q] = chain[q]
    BY <1>1 DEF TypeOK
  <1>3. IsFiniteSet(allocated)
    BY RxQueueAssumption, FS_Subset DEF TypeOK
  <1>4. live' = Cardinality(allocated') - debt' /\ live' \in Int
    <2>1. Cardinality(allocated \cup {b}) = Cardinality(allocated) + 1
      BY <1>1, <1>3, FS_AddElement
    <2>2. Cardinality(allocated) \in Nat
      BY <1>3, FS_CardinalityType
    <2> QED
      <3>1. live = Cardinality(allocated) - debt /\ debt \in Int
        BY DEF PoolInv, TypeOK
      <3>2. \A n \in Nat, d \in Int : (n - d) + 1 = (n + 1) - d /\ (n + 1) - d \in Int
        OBVIOUS
      <3> QED
        BY <1>1, <2>1, <2>2, <3>1, <3>2
  <1>5. \A q \in Packets : b \notin chain[q]
    BY <1>1 DEF PoolInv
  <1>6. ChainsDisjoint'
    BY <1>2, <1>5 DEF PoolInv, ChainsDisjoint
  <1>7. \A q \in Packets \ Owned' : chain'[q] = {}
    BY <1>2 DEF PoolInv
  <1>8. allocated' = UNION {chain'[q] : q \in Packets}
    <2>1. ASSUME NEW x \in allocated' PROVE \E q \in Packets : x \in chain'[q]
      BY <1>1, <1>2, <2>1 DEF PoolInv
    <2>2. ASSUME NEW q \in Packets, NEW x \in chain'[q] PROVE x \in allocated'
      BY <1>1, <1>2, <2>2 DEF PoolInv
    <2> QED
      BY <2>1, <2>2
  <1>9. allocated' \subseteq Block
    BY <1>1 DEF TypeOK
  <1> QED
    BY <1>1, <1>2, <1>4, <1>6, <1>7, <1>8, <1>9 DEF PoolInv

-----------------------------------------------------------------------------
\* Every step of the poll thread, which runs RxQueue::put, keeps the invariant.
LEMMA PollerStep == IInv /\ Poller => IInv'
  <1> SUFFICES ASSUME TypeOK, PoolInv, PlaceInv, Poller PROVE IInv'
    BY DEF IInv
  <1> USE RxQueueAssumption
  <1>1. ASSUME NEW bytes \in Lengths, PutBegin(bytes) PROVE IInv'
    <2>1. Segments(bytes) \in Nat
      BY <1>1 DEF Segments
    <2>2. InPut = {} /\ InPut' \subseteq {offered + 1} /\ offered' = offered + 1
      BY <1>1 DEF PutBegin, InPut
    <2>3. Owned' = Owned \cup InPut'
      BY <1>1, <2>2 DEF PutBegin, Owned, appVars
    <2>4. TypeOK'
      BY <1>1, <2>1 DEF PutBegin, TypeOK, ctlVars, poolVars, appVars, Packets
    <2>5. PoolInv'
      BY <1>1, <2>3, PoolMove DEF PutBegin, poolVars
    <2>6. offered + 1 \notin Owned
      BY DEF PlaceInv, TypeOK
    <2>7. OnePlace'
      <3>1. /\ offered + 1 \notin Range(used)
            /\ \A a \in Apps : offered + 1 \notin held[a] \cup returning[a]
        BY <2>6 DEF Owned
      <3>2. used' = used /\ held' = held /\ returning' = returning
        BY <1>1 DEF PutBegin, appVars
      <3> QED
        BY <2>2, <3>1, <3>2, ZenonT(30) DEF PlaceInv, OnePlace
    <2>8. PlaceInv'
      <3>0. Owned \subseteq Nat
        <4>1. Range(used) \subseteq Packets
          BY DEF TypeOK, Range
        <4>2. \A a \in Apps : held[a] \cup returning[a] \subseteq Packets
          BY DEF TypeOK
        <4> QED
          BY <2>2, <4>1, <4>2 DEF Owned, Packets
      <3>1. /\ \A p \in Owned : p <= offered + 1
            /\ offered + 1 > 0 /\ offered + 1 <= offered + 1
        BY <3>0 DEF PlaceInv, TypeOK
      <3>2. \A p \in Owned' : p <= offered'
        BY <2>2, <2>3, <3>1
      <3>3. returning' = returning /\ ret' = ret
        BY <1>1 DEF PutBegin, appVars
      <3> QED
        BY <2>2, <2>7, <3>1, <3>2, <3>3 DEF PlaceInv
    <2> QED
      BY <2>4, <2>5, <2>8 DEF IInv
  <1>2. CASE PutAlloc
    <2>1. PICK b \in Block : Allocate(offered, b)
      BY <1>2 DEF PutAlloc
    <2>2. offered \in Packets
      BY <1>2 DEF PutAlloc, PlaceInv, TypeOK, Packets
    <2>3. InPut = {offered} /\ InPut' = {offered} /\ offered' = offered
      BY <1>2 DEF PutAlloc, InPut, TypeOK
    <2>4. Owned' = Owned /\ offered \in Owned
      BY <1>2, <2>3 DEF PutAlloc, Owned, appVars
    <2>5. /\ PoolInv' /\ allocated' \subseteq Block /\ live' \in Int /\ debt' = debt
          /\ chain' \in [Packets -> SUBSET Block]
      BY <2>1, <2>2, <2>4, PoolAllocate
    <2>6. TypeOK'
      BY <1>2, <2>5 DEF PutAlloc, TypeOK, ctlVars, appVars
    <2>7. PlaceInv'
      BY <1>2, <2>3, <2>4 DEF PutAlloc, PlaceInv, OnePlace, appVars
    <2> QED
      BY <2>5, <2>6, <2>7 DEF IInv
  <1>3. ASSUME Release(offered), put.at \in {"alloc", "slot", "undo"},
               put' = Idle, free' \in Nat, overflows' \in Nat,
               UNCHANGED <<ctlVars, used, offered, processed, appVars>>
        PROVE  IInv'
    <2>1. offered \in Packets
      BY <1>3 DEF PlaceInv, TypeOK, Packets
    <2>2. InPut = {offered} /\ InPut' = {}
      BY <1>3 DEF InPut, Idle
    <2>3. Owned \ {offered} \subseteq Owned' /\ Owned' \subseteq Owned
      BY <1>3, <2>2 DEF Owned, appVars
    <2>4. /\ PoolInv' /\ allocated' \subseteq Block /\ live' \in Int /\ debt' = debt
          /\ chain' \in [Packets -> SUBSET Block]
      BY <1>3, <2>1, <2>3, PoolRelease
    <2>5. TypeOK'
      BY <1>3, <2>4 DEF TypeOK, ctlVars, appVars, Idle
    <2>6. PlaceInv'
      BY <1>3, <2>2, <2>3 DEF PlaceInv, OnePlace, appVars, Idle
    <2> QED
      BY <2>4, <2>5, <2>6 DEF IInv
  <1>4. CASE PutAllocFails
    BY <1>3, <1>4 DEF PutAllocFails, GiveUp, TypeOK
  <1>5. CASE PutSlot
    <2>1. CASE free = 0
      BY <1>3, <1>5, <2>1 DEF PutSlot, GiveUp, HasSlot, TypeOK
    <2>2. CASE free > 0
      <3>1. /\ put.at = "slot" /\ put' = [put EXCEPT !.at = "push"]
            /\ free' = free - 1
            /\ UNCHANGED <<ctlVars, used, poolVars, offered, processed, overflows, appVars>>
        BY <1>5, <2>2 DEF PutSlot, HasSlot, TypeOK
      <3>2. InPut' = InPut /\ put' \in [at : {"push"}, need : Nat]
        BY <3>1 DEF InPut, TypeOK
      <3>3. Owned' = Owned
        BY <3>1, <3>2 DEF Owned, appVars
      <3>4. PoolInv'
        BY <3>1, <3>3, PoolMove
      <3>5. TypeOK'
        <4>1. free' \in Nat
          <5>1. free \in Nat
            BY Zenon DEF TypeOK
          <5> QED
            BY <2>2, <3>1, <5>1
        <4> QED
          BY <3>1, <3>2, <4>1 DEF TypeOK, ctlVars, poolVars, appVars
      <3>6. PlaceInv'
        BY <3>1, <3>2, <3>3 DEF PlaceInv, OnePlace, appVars
      <3> QED
        BY <3>4, <3>5, <3>6 DEF IInv
    <2> QED
      BY <2>1, <2>2 DEF TypeOK
  <1>6. CASE PutPush
    <2>0. offered \in Packets /\ InPut = {offered}
      BY <1>6 DEF PutPush, PlaceInv, TypeOK, Packets, InPut
    <2>1. CASE ~Full(Len(used))
      <3>1. /\ used' = Append(used, offered)
            /\ put' = [put EXCEPT !.at = "count"]
            /\ UNCHANGED <<ctlVars, free, poolVars, offered, processed, overflows, appVars>>
        BY <1>6, <2>1 DEF PutPush, Enqueue
      <3>2. offered \notin Range(used) /\ IsInjective(used) /\ used \in Seq(Packets)
        BY <2>0 DEF PlaceInv, OnePlace, TypeOK
      <3>3. /\ used' \in Seq(Packets) /\ IsInjective(used')
            /\ Range(used') = Range(used) \cup {offered}
        BY <2>0, <3>1, <3>2, AppendFresh
      <3>4. InPut' = {} /\ put' \in [at : {"count"}, need : Nat]
        BY <3>1 DEF InPut, TypeOK
      <3>5. Owned' = Owned
        BY <2>0, <3>1, <3>3, <3>4 DEF Owned, appVars
      <3>6. PoolInv'
        BY <3>1, <3>5, PoolMove
      <3>7. TypeOK'
        BY <3>1, <3>3, <3>4 DEF TypeOK, ctlVars, poolVars, appVars
      <3>8. OnePlace'
        BY <2>0, <3>1, <3>3, <3>4 DEF PlaceInv, OnePlace, appVars
      <3>9. PlaceInv'
        BY <2>0, <3>1, <3>5, <3>8 DEF PlaceInv, appVars, Packets
      <3> QED
        BY <3>6, <3>7, <3>9 DEF IInv
    <2>2. CASE Full(Len(used))
      <3>1. /\ put' = [put EXCEPT !.at = "undo"]
            /\ UNCHANGED <<ctlVars, free, used, poolVars, offered, processed, overflows, appVars>>
        BY <1>6, <2>2 DEF PutPush
      <3>2. InPut' = InPut /\ put' \in [at : {"undo"}, need : Nat]
        BY <2>0, <3>1 DEF InPut, TypeOK
      <3>3. Owned' = Owned
        BY <3>1, <3>2 DEF Owned, appVars
      <3>4. PoolInv'
        BY <3>1, <3>3, PoolMove
      <3>5. TypeOK'
        BY <3>1, <3>2 DEF TypeOK, ctlVars, poolVars, appVars
      <3>6. PlaceInv'
        BY <2>0, <3>1, <3>2, <3>3 DEF PlaceInv, OnePlace, appVars, Packets
      <3> QED
        BY <3>4, <3>5, <3>6 DEF IInv
    <2> QED
      BY <2>1, <2>2
  <1>7. CASE PutUndo
    <2>1. free' \in Nat
      BY <1>7 DEF PutUndo, Push, Full, TypeOK, Smaller
    <2> QED
      BY <1>3, <1>7, <2>1 DEF PutUndo, GiveUp, TypeOK
  <1>8. CASE PutCount
    <2>1. InPut = {} /\ InPut' = {}
      BY <1>8 DEF PutCount, InPut, Idle
    <2>2. Owned' = Owned
      BY <1>8, <2>1 DEF PutCount, Owned, appVars
    <2>3. PoolInv'
      BY <1>8, <2>2, PoolMove DEF PutCount
    <2>4. TypeOK'
      BY <1>8 DEF PutCount, Idle, TypeOK, ctlVars, poolVars, appVars
    <2>5. PlaceInv'
      BY <1>8, <2>1, <2>2 DEF PutCount, Idle, PlaceInv, OnePlace, appVars
    <2> QED
      BY <2>3, <2>4, <2>5 DEF IInv
  <1> QED
    BY <1>1, <1>2, <1>4, <1>5, <1>6, <1>7, <1>8 DEF Poller

-----------------------------------------------------------------------------
\* Every step of an application thread in take() or free() keeps the invariant.
LEMMA AppStep == ASSUME IInv, NEW a \in Apps, App(a) PROVE IInv'
  <1> USE RxQueueAssumption
  <1>0. TypeOK /\ PoolInv /\ PlaceInv
    BY DEF IInv
  <1>1. CASE Take(a)
    <2> DEFINE n == Smaller(MaxSegments, Len(used))
               Got == {used[i] : i \in 1 .. n}
    <2>1. n \in 0 .. Len(used)
      BY <1>0, LenProperties DEF Smaller, TypeOK
    <2>2. /\ held' = [held EXCEPT ![a] = @ \cup Got]
          /\ used' = SubSeq(used, n + 1, Len(used))
          /\ UNCHANGED <<ctlVars, free, poolVars, putVars, returning, ret>>
      BY <1>1 DEF Take, Left
    <2> HIDE DEF n
    <2>3. /\ used' \in Seq(Packets) /\ IsInjective(used')
          /\ Range(used) = Range(used') \cup Got
          /\ Range(used') \cap Got = {}
      <3>1. used \in Seq(Packets) /\ IsInjective(used)
        BY <1>0 DEF TypeOK, PlaceInv, OnePlace
      <3>2. /\ SubSeq(used, n + 1, Len(used)) \in Seq(Packets)
            /\ IsInjective(SubSeq(used, n + 1, Len(used)))
            /\ Range(SubSeq(used, n + 1, Len(used))) = Range(used) \ Got
            /\ Got \subseteq Range(used)
        BY <2>1, <3>1, DropPrefix, Zenon
      <3> QED
        BY <2>2, <3>2
    <2> HIDE DEF Got
    <2>4. Range(used) \subseteq Packets
      BY <1>0 DEF TypeOK, Range
    <2>5. /\ held' \in [Apps -> SUBSET Packets] /\ held'[a] = held[a] \cup Got
          /\ \A b \in Apps \ {a} : held'[b] = held[b]
      BY <1>0, <2>2, <2>3, <2>4 DEF TypeOK
    <2>6. InPut' = InPut
      BY <2>2 DEF putVars, InPut
    <2>7. Owned' = Owned
      BY <2>2, <2>3, <2>5, <2>6 DEF Owned
    <2>8. PoolInv'
      BY <1>0, <2>2, <2>7, PoolMove
    <2>9. TypeOK'
      BY <1>0, <2>2, <2>3, <2>5 DEF TypeOK, ctlVars, poolVars, putVars
    <2>10. OnePlace'
      BY <1>0, <2>2, <2>3, <2>5, <2>6 DEF PlaceInv, OnePlace
    <2>11. PlaceInv'
      BY <1>0, <2>2, <2>7, <2>10 DEF PlaceInv, putVars
    <2> QED
      BY <2>8, <2>9, <2>11 DEF IInv
  <1>2. ASSUME NEW D \in SUBSET held[a], FreeBegin(a, D) PROVE IInv'
    <2>1. /\ held' = [held EXCEPT ![a] = @ \ D]
          /\ returning' = [returning EXCEPT ![a] = D]
          /\ ret' = [ret EXCEPT ![a] = D]
          /\ returning[a] = {}
          /\ UNCHANGED <<ctlVars, free, used, poolVars, putVars>>
      BY <1>0, <1>2 DEF FreeBegin, PlaceInv
    <2>2. D \subseteq Packets
      BY <1>0 DEF TypeOK
    <2>3. /\ held' \in [Apps -> SUBSET Packets] /\ held'[a] = held[a] \ D
          /\ returning' \in [Apps -> SUBSET Packets] /\ returning'[a] = D
          /\ ret' \in [Apps -> SUBSET Packets] /\ ret'[a] = D
          /\ \A b \in Apps \ {a} : /\ held'[b] = held[b]
                                    /\ returning'[b] = returning[b]
                                    /\ ret'[b] = ret[b]
      BY <1>0, <2>1, <2>2 DEF TypeOK
    <2>4. InPut' = InPut /\ used' = used /\ offered' = offered /\ put' = put
      BY <2>1 DEF putVars, InPut
    <2>5. \A b \in Apps : held'[b] \cup returning'[b] = held[b] \cup returning[b]
      BY <2>1, <2>3
    <2>6. Owned' = Owned
      BY <2>4, <2>5 DEF Owned
    <2>7. PoolInv'
      BY <1>0, <2>1, <2>6, PoolMove
    <2>8. TypeOK'
      BY <1>0, <2>1, <2>3 DEF TypeOK, ctlVars, poolVars, putVars
    <2>9. \A b \in Apps : held'[b] \cap returning'[b] = {}
      BY <1>0, <2>3 DEF PlaceInv, OnePlace
    <2>10. OnePlace'
      BY <1>0, <2>4, <2>5, <2>9 DEF PlaceInv, OnePlace
    <2>11. PlaceInv'
      BY <1>0, <2>3, <2>4, <2>6, <2>10 DEF PlaceInv
    <2> QED
      BY <2>7, <2>8, <2>11 DEF IInv
  <1>3. ASSUME NEW p \in returning[a], FreeRelease(a, p) PROVE IInv'
    <2>1. /\ Release(p)
          /\ returning' = [returning EXCEPT ![a] = @ \ {p}]
          /\ UNCHANGED <<ctlVars, free, used, putVars, held, ret>>
      BY <1>3 DEF FreeRelease
    <2>2. p \in Packets
      BY <1>0 DEF TypeOK
    <2>3. /\ returning' \in [Apps -> SUBSET Packets] /\ returning'[a] = returning[a] \ {p}
          /\ \A b \in Apps \ {a} : returning'[b] = returning[b]
      BY <1>0, <2>1 DEF TypeOK
    <2>4. InPut' = InPut /\ offered' = offered /\ put' = put
      BY <2>1 DEF putVars, InPut
    <2>5. Owned \ {p} \subseteq Owned' /\ Owned' \subseteq Owned
      BY <2>1, <2>3, <2>4 DEF Owned
    <2>6. /\ PoolInv' /\ allocated' \subseteq Block /\ live' \in Int /\ debt' = debt
          /\ chain' \in [Packets -> SUBSET Block]
      BY <1>0, <2>1, <2>2, <2>5, PoolRelease
    <2>7. TypeOK'
      BY <1>0, <2>1, <2>3, <2>6 DEF TypeOK, ctlVars, putVars
    <2>8. OnePlace'
      <3>1. OnePlace /\ used' = used /\ held' = held
        BY <1>0, <2>1 DEF PlaceInv
      <3>2. \A b \in Apps : returning'[b] \subseteq returning[b]
        BY <2>3
      <3>3. IsInjective(used') /\ Range(used') \cap InPut' = {}
        BY <2>4, <3>1 DEF OnePlace
      <3>4. ASSUME NEW b \in Apps
            PROVE  /\ held'[b] \cap returning'[b] = {}
                   /\ (held'[b] \cup returning'[b]) \cap (Range(used') \cup InPut') = {}
        BY <2>4, <3>1, <3>2 DEF OnePlace
      <3>5. ASSUME NEW b \in Apps, NEW c \in Apps, b # c
            PROVE  (held'[b] \cup returning'[b]) \cap (held'[c] \cup returning'[c]) = {}
        <4>1. (held[b] \cup returning[b]) \cap (held[c] \cup returning[c]) = {}
          BY <3>1, <3>5, Zenon DEF OnePlace
        <4> QED
          BY <3>1, <3>2, <4>1
      <3> QED
        BY <3>3, <3>4, <3>5, Zenon DEF OnePlace
    <2>9. PlaceInv'
      BY <1>0, <2>1, <2>3, <2>4, <2>5, <2>8 DEF PlaceInv
    <2> QED
      BY <2>6, <2>7, <2>9 DEF IInv
  <1>4. CASE FreePush(a)
    <2>1. /\ ret' = [ret EXCEPT ![a] = {}] /\ returning[a] = {}
          /\ Push(Cardinality(ret[a]))
          /\ UNCHANGED <<ctlVars, used, poolVars, putVars, held, returning>>
      BY <1>4 DEF FreePush, Returned
    <2>2. Cardinality(ret[a]) \in Nat
      <3>1. IsFiniteSet(Packets)
        BY FS_Interval DEF Packets
      <3>2. IsFiniteSet(ret[a])
        BY <1>0, <3>1, FS_Subset DEF TypeOK
      <3> QED
        BY <3>2, FS_CardinalityType
    <2>3. free' \in Nat
      BY <1>0, <2>1, <2>2 DEF Push, Full, TypeOK, Smaller
    <2>4. InPut' = InPut /\ Owned' = Owned
      BY <2>1 DEF putVars, InPut, Owned
    <2>5. PoolInv'
      BY <1>0, <2>1, <2>4, PoolMove
    <2>6. TypeOK'
      BY <1>0, <2>1, <2>3 DEF TypeOK, ctlVars, poolVars, putVars
    <2>7. PlaceInv'
      BY <1>0, <2>1, <2>4 DEF PlaceInv, OnePlace, putVars, TypeOK
    <2> QED
      BY <2>5, <2>6, <2>7 DEF IInv
  <1> QED
    BY <1>1, <1>2, <1>3, <1>4 DEF App

-----------------------------------------------------------------------------
\* Every step of the thread that configures, starts and stops the queue keeps
\* the invariant.
LEMMA ControlStep == IInv /\ Control => IInv'
  <1> SUFFICES ASSUME TypeOK, PoolInv, PlaceInv, Control PROVE IInv'
    BY DEF IInv
  <1> USE RxQueueAssumption
  <1>1. ASSUME UNCHANGED <<used, poolVars, putVars, appVars>>,
               state' \in {"Stopped", "Configured", "Started", "Stopping", "Error",
                           "Destroyed"},
               ctl' \in {"idle", "fill", "drainFree", "drainUsed", "drainPop"},
               filled' \in Nat, size' \in Nat \ {0}, cap' \in Nat, free' \in Nat
        PROVE  IInv'
    <2>1. InPut' = InPut /\ Owned' = Owned
      BY <1>1 DEF putVars, appVars, InPut, Owned
    <2>2. PoolInv'
      BY <1>1, <2>1, PoolMove
    <2>3. TypeOK'
      BY <1>1 DEF TypeOK, poolVars, putVars, appVars
    <2>4. PlaceInv'
      BY <1>1, <2>1 DEF PlaceInv, OnePlace, putVars, appVars
    <2> QED
      BY <2>2, <2>3, <2>4 DEF IInv
  <1>2. ASSUME NEW s \in Sizes, Configure(s) PROVE IInv'
    BY <1>1, <1>2 DEF Configure, isValid, TypeOK
  <1>3. CASE Start
    BY <1>1, <1>3 DEF Start, TypeOK
  <1>4. CASE StartFill
    BY <1>1, <1>4 DEF StartFill, TypeOK
  <1>5. CASE Stop
    BY <1>1, <1>5 DEF Stop, TypeOK
  <1>6. CASE DrainFree
    BY <1>1, <1>6 DEF DrainFree, TypeOK
  <1>7. CASE DrainTest
    BY <1>1, <1>7 DEF DrainTest, TypeOK
  <1>8. CASE DrainPop
    <2> DEFINE p == Head(used)
    <2>1. /\ Release(p) /\ used # <<>> /\ used' = Tail(used)
          /\ ctl' = "drainUsed"
          /\ UNCHANGED <<state, filled, size, cap, free, putVars, appVars>>
      BY <1>8 DEF DrainPop, Popped
    <2>2. used \in Seq(Packets) /\ IsInjective(used) /\ 1 \in 0 .. Len(used) /\ 1 \in DOMAIN used
      BY <2>1, EmptySeq, LenProperties DEF TypeOK, PlaceInv, OnePlace
    <2>3. p = used[1] /\ p \in Packets /\ p \in Range(used)
      BY <2>2, <2>1, HeadTailProperties DEF Range
    <2>4. Tail(used) = SubSeq(used, 1 + 1, Len(used))
      BY <2>1, <2>2, TailIsSubSeq
    <2>5. {used[i] : i \in 1 .. 1} = {p}
      BY <2>3
    <2>6. /\ Tail(used) \in Seq(Packets) /\ IsInjective(Tail(used))
          /\ Range(Tail(used)) = Range(used) \ {p}
      <3>1. /\ SubSeq(used, 1 + 1, Len(used)) \in Seq(Packets)
            /\ IsInjective(SubSeq(used, 1 + 1, Len(used)))
            /\ Range(SubSeq(used, 1 + 1, Len(used))) = Range(used) \ {used[i] : i \in 1 .. 1}
        BY <2>2, DropPrefix, Zenon
      <3> QED
        BY <2>4, <2>5, <3>1
    <2> HIDE DEF p
    <2>7. /\ used' \in Seq(Packets) /\ IsInjective(used')
          /\ Range(used') = Range(used) \ {p}
      BY <2>1, <2>6
    <2>8. InPut' = InPut
      BY <2>1 DEF putVars, InPut
    <2>9. Owned \ {p} \subseteq Owned' /\ Owned' \subseteq Owned
      BY <2>1, <2>7, <2>8 DEF Owned, appVars
    <2>10. /\ PoolInv' /\ allocated' \subseteq Block /\ live' \in Int /\ debt' = debt
           /\ chain' \in [Packets -> SUBSET Block]
      BY <2>1, <2>3, <2>9, PoolRelease
    <2>11. TypeOK'
      BY <2>1, <2>7, <2>10 DEF TypeOK, putVars, appVars
    <2>12. OnePlace'
      BY <2>1, <2>7, <2>8 DEF PlaceInv, OnePlace, appVars
    <2>13. PlaceInv'
      BY <2>1, <2>9, <2>12 DEF PlaceInv, putVars, appVars
    <2> QED
      BY <2>10, <2>11, <2>13 DEF IInv
  <1>9. CASE Destroy
    BY <1>1, <1>9 DEF Destroy, TypeOK
  <1>10. CASE Renew
    <2>1. IsFiniteSet(allocated)
      BY FS_Subset DEF TypeOK
    <2>2. Cardinality(allocated) \in Nat
      BY <2>1, FS_CardinalityType
    <2>3. /\ live' = 0 /\ debt' = Cardinality(allocated)
          /\ UNCHANGED <<free, used, chain, allocated, offered, put, appVars>>
      BY <1>10 DEF Renew
    <2>4. InPut' = InPut /\ Owned' = Owned
      BY <2>3 DEF appVars, InPut, Owned
    <2>5. PoolInv'
      BY <2>2, <2>3, <2>4 DEF PoolInv, ChainsDisjoint
    <2>6. TypeOK'
      BY <1>10, <2>2, <2>3 DEF Renew, TypeOK, appVars
    <2>7. PlaceInv'
      BY <2>3, <2>4 DEF PlaceInv, OnePlace, appVars
    <2> QED
      BY <2>5, <2>6, <2>7 DEF IInv
  <1> QED
    BY <1>2, <1>3, <1>4, <1>5, <1>6, <1>7, <1>8, <1>9, <1>10 DEF Control

-----------------------------------------------------------------------------

\* A fresh, unconfigured queue satisfies the invariant.
LEMMA InitIInv == Init => IInv
  <1> SUFFICES ASSUME Init PROVE IInv
    OBVIOUS
  <1> USE RxQueueAssumption DEF Init, Idle
  <1>1. TypeOK
    BY DEF TypeOK
  <1>2. Range(used) = {} /\ InPut = {} /\ Owned = {} /\ IsInjective(used)
    BY DEF Range, InPut, Owned, IsInjective
  <1>3. PlaceInv
    BY <1>2 DEF PlaceInv, OnePlace
  <1>4. allocated = UNION {chain[p] : p \in Packets} /\ live = Cardinality(allocated) - debt
    BY FS_EmptySet
  <1>5. PoolInv
    BY <1>4 DEF PoolInv, ChainsDisjoint
  <1> QED
    BY <1>1, <1>3, <1>5 DEF IInv

\* Every step of rx_queue.cpp keeps the invariant.
LEMMA NextIInv == IInv /\ [Next]_vars => IInv'
  <1> SUFFICES ASSUME IInv, [Next]_vars PROVE IInv'
    OBVIOUS
  <1>1. CASE UNCHANGED vars
    <2>1. InPut' = InPut /\ Owned' = Owned
      BY <1>1 DEF vars, putVars, appVars, InPut, Owned
    <2>2. TypeOK'
      BY <1>1 DEF IInv, TypeOK, vars, ctlVars, poolVars, putVars, appVars
    <2>3. PoolInv'
      BY <1>1, <2>1, PoolMove DEF IInv, vars
    <2>4. PlaceInv'
      BY <1>1, <2>1 DEF IInv, PlaceInv, OnePlace, vars, putVars, appVars
    <2> QED
      BY <2>2, <2>3, <2>4 DEF IInv
  <1> QED
    BY <1>1, PollerStep, AppStep, ControlStep DEF Next

\* The types of the queue's state hold whatever the constants: among them that
\* config_.size is never zero and that no counter of descriptors goes below zero.
THEOREM QueueTypes == Spec => []TypeOK
  <1>1. IInv => TypeOK
    BY DEF IInv
  <1> QED
    BY <1>1, InitIInv, NextIInv, PTL DEF Spec

\* Whatever the constants, and however put, take, free and stop interleave,
\* every chain of buffers has exactly one owner: no two parties can release the
\* same block.
THEOREM BuffersHaveOneOwner == Spec => []SoleOwner
  <1>1. IInv => SoleOwner
    BY DEF IInv, PoolInv, PlaceInv, SoleOwner
  <1> QED
    BY <1>1, InitIInv, NextIInv, PTL DEF Spec

\* The blocks out of the pool are exactly those some owner will release: no
\* path of rx_queue.cpp leaks a buffer, not even one that was taken from a
\* queue configure() has replaced since.  live_ counts them, less those that
\* were out at the replacement.
THEOREM NoBufferLeaks == Spec => []NoBlockLeaked
  <1>1. IInv => NoBlockLeaked
    <2> SUFFICES ASSUME TypeOK, PoolInv, PlaceInv PROVE NoBlockLeaked
      BY DEF IInv
    <2>1. Range(used) \subseteq Packets
      BY DEF TypeOK, Range
    <2>2. InPut \subseteq Packets
      BY DEF TypeOK, PlaceInv, InPut, Packets
    <2>3. Owned \subseteq Packets
      BY <2>1, <2>2 DEF TypeOK, Owned
    <2> QED
      BY <2>3 DEF PoolInv, NoBlockLeaked, LiveBlocks
  <1> QED
    BY <1>1, InitIInv, NextIInv, PTL DEF Spec

-----------------------------------------------------------------------------
(* Chains. *)

\* The packets with the applications or on their way to them.
Delivered == Range(used) \cup UNION {held[a] : a \in Apps}

\* ChainsComplete, with how far the allocation loop of put() is.
ChainInv == /\ put.at # "idle" => put.need \in 1 .. MaxSegments
            /\ put.at = "alloc" => Cardinality(chain[offered]) < put.need
            /\ put.at \in {"slot", "push", "undo"} => Cardinality(chain[offered]) = put.need
            /\ \A p \in Delivered : Cardinality(chain[p]) \in 1 .. MaxSegments

\* The packets are numbers, and put() works on one of them.
LEMMA OfferedPacket ==
  ASSUME TypeOK
  PROVE  /\ Packets \in SUBSET Nat /\ offered \in Nat
         /\ PlaceInv /\ put.at # "idle" => offered \in Packets
  <1>1. offered \in 0 .. MaxPackets
    BY Zenon DEF TypeOK
  <1>2. Packets \in SUBSET Nat
    BY DEF Packets
  <1>3. offered \in Nat /\ (offered > 0 => offered \in Packets)
    BY <1>1, RxQueueAssumption DEF Packets
  <1>4. PlaceInv /\ put.at # "idle" => offered > 0
    BY Zenon DEF PlaceInv
  <1> QED
    BY <1>2, <1>3, <1>4

\* A packet that is not empty needs at least one segment.
LEMMA SegmentsPositive == \A bytes \in Nat \ {0} : Segments(bytes) \in Nat \ {0}
  <1>1. \A b \in Nat \ {0}, m \in Nat : m >= b => m \div b \in Nat \ {0}
    OBVIOUS
  <1>2. \A b \in Nat \ {0}, n \in Nat \ {0} : n + b - 1 \in Nat /\ n + b - 1 >= b
    OBVIOUS
  <1> QED
    BY <1>1, <1>2, RxQueueAssumption DEF Segments

\* Chains are finite.
LEMMA ChainNumbers ==
  ASSUME TypeOK, NEW p \in Packets
  PROVE  IsFiniteSet(chain[p]) /\ Cardinality(chain[p]) \in Nat
  BY RxQueueAssumption, FS_Subset, FS_CardinalityType DEF TypeOK

\* A packet in put() or in a free() is not delivered, and delivered packets are packets.
LEMMA DeliveredApart ==
  ASSUME IInv
  PROVE  /\ Delivered \subseteq Packets
         /\ Delivered \cap InPut = {}
         /\ \A a \in Apps : Delivered \cap returning[a] = {}
  <1>1. Range(used) \subseteq Packets
    BY DEF IInv, TypeOK, Range
  <1>2. \A a \in Apps : held[a] \subseteq Packets
    BY DEF IInv, TypeOK
  <1>3. OnePlace
    BY DEF IInv, PlaceInv
  <1>4. Delivered \cap InPut = {}
    BY <1>3 DEF Delivered, OnePlace
  <1>5. ASSUME NEW a \in Apps, NEW b \in Apps PROVE held[b] \cap returning[a] = {}
    BY <1>3 DEF OnePlace
  <1>6. \A a \in Apps : Range(used) \cap returning[a] = {}
    BY <1>3 DEF OnePlace
  <1> QED
    BY <1>1, <1>2, <1>4, <1>5, <1>6 DEF Delivered

\* Popping used_ takes its first packet out of it.
LEMMA HeadLeaves ==
  ASSUME IInv, used # <<>>
  PROVE  Range(Tail(used)) = Range(used) \ {Head(used)} /\ Head(used) \in Range(used)
  <1>1. used \in Seq(Packets) /\ IsInjective(used) /\ 1 \in 0 .. Len(used) /\ 1 \in DOMAIN used
    BY EmptySeq, LenProperties DEF IInv, TypeOK, PlaceInv, OnePlace
  <1>2. Head(used) = used[1] /\ Head(used) \in Range(used)
    BY <1>1, HeadTailProperties DEF Range
  <1>3. Tail(used) = SubSeq(used, 1 + 1, Len(used))
    BY <1>1, TailIsSubSeq
  <1>4. Range(SubSeq(used, 1 + 1, Len(used))) = Range(used) \ {used[i] : i \in 1 .. 1}
    BY <1>1, DropPrefix, Zenon
  <1>5. {used[i] : i \in 1 .. 1} = {Head(used)}
    BY <1>2
  <1> QED
    BY <1>2, <1>3, <1>4, <1>5

\* A step that leaves put() and the chains of delivered packets alone.
LEMMA ChainKept ==
  ASSUME ChainInv, put' = put, offered' = offered, Delivered' \subseteq Delivered,
         \A p \in Delivered' \cup InPut : chain'[p] = chain[p]
  PROVE  ChainInv'
  <1>1. put.at \in {"alloc", "slot", "push", "undo"} => chain'[offered] = chain[offered]
    BY DEF InPut
  <1> QED
    BY <1>1 DEF ChainInv

\* put() gives its packet up.
LEMMA ChainGivenUp ==
  ASSUME IInv, ChainInv, GiveUp, InPut = {offered}, offered \in Packets, Delivered' = Delivered
  PROVE  ChainInv'
  <1>1. \A p \in Delivered : chain'[p] = chain[p]
    BY DeliveredApart DEF GiveUp, Release, IInv, TypeOK
  <1>2. put'.at = "idle"
    BY DEF GiveUp, Idle
  <1> QED
    BY <1>1, <1>2 DEF ChainInv

\* Every step keeps the chains.
LEMMA ChainStep == IInv /\ ChainInv /\ [Next]_vars => ChainInv'
  <1> SUFFICES ASSUME IInv, ChainInv, [Next]_vars PROVE ChainInv'
    OBVIOUS
  <1> USE RxQueueAssumption
  <1>0. TypeOK /\ PoolInv /\ PlaceInv
    BY DEF IInv
  <1>1. ASSUME NEW bytes \in Lengths, PutBegin(bytes) PROVE ChainInv'
    <2>1. Delivered' = Delivered /\ chain' = chain /\ put.at = "idle" /\ offered' = offered + 1
      BY <1>1 DEF PutBegin, Delivered, poolVars, appVars
    <2>2. CASE put' = put
      BY <2>1, <2>2 DEF ChainInv
    <2>3. CASE Segments(bytes) <= MaxSegments /\ put' = [at |-> "alloc", need |-> Segments(bytes)]
      <3>1. Segments(bytes) \in 1 .. MaxSegments
        BY <1>1, <2>3, SegmentsPositive DEF PutBegin
      <3>2. offered + 1 \in Packets \ Owned
        BY <1>0, <1>1 DEF PutBegin, TypeOK, PlaceInv, Packets
      <3>3. Cardinality(chain[offered + 1]) = 0
        BY <1>0, <3>2, FS_EmptySet DEF PoolInv
      <3> QED
        BY <2>1, <2>3, <3>1, <3>3 DEF ChainInv
    <2> QED
      BY <1>1, <2>2, <2>3 DEF PutBegin
  <1>2. CASE PutAlloc
    <2>1. PICK b \in Block : Allocate(offered, b)
      BY <1>2 DEF PutAlloc
    <2>2. /\ offered \in Packets /\ offered' = offered /\ Delivered' = Delivered
          /\ InPut = {offered} /\ put.at = "alloc"
      BY <1>0, <1>2 DEF PutAlloc, PlaceInv, TypeOK, Packets, Delivered, InPut, appVars
    <2>3. /\ chain'[offered] = chain[offered] \cup {b} /\ b \notin chain[offered]
          /\ \A p \in Packets : p # offered => chain'[p] = chain[p]
      BY <1>0, <2>1, <2>2 DEF Allocate, TypeOK, PoolInv
    <2>4. Cardinality(chain'[offered]) = Cardinality(chain[offered]) + 1
      <3>1. IsFiniteSet(chain[offered])
        BY <1>0, <2>2, ChainNumbers
      <3> QED
        BY <2>3, <3>1, FS_AddElement
    <2>5. \A p \in Delivered' : Cardinality(chain'[p]) \in 1 .. MaxSegments
      BY <2>2, <2>3, DeliveredApart DEF ChainInv
    <2>6. Cardinality(chain[offered]) \in Nat /\ put.need \in 1 .. MaxSegments
          /\ Cardinality(chain[offered]) < put.need
      BY <1>0, <2>2, ChainNumbers DEF ChainInv
    <2>7. CASE LastSegment
      <3>1. put'.at = "slot" /\ put'.need = put.need
        BY <1>0, <1>2, <2>7 DEF PutAlloc, TypeOK
      <3> QED
        BY <2>2, <2>4, <2>5, <2>6, <2>7, <3>1 DEF ChainInv, LastSegment
    <2>8. CASE ~LastSegment
      <3>1. put' = put
        BY <1>2, <2>8 DEF PutAlloc
      <3>2. Cardinality(chain[offered]) + 1 < put.need
        BY <2>6, <2>8 DEF LastSegment
      <3> QED
        BY <2>2, <2>4, <2>5, <2>6, <3>1, <3>2 DEF ChainInv
    <2> QED
      BY <2>7, <2>8
  <1>3. ASSUME put.at \in {"alloc", "slot", "undo"}, GiveUp, UNCHANGED <<used, offered, appVars>>
        PROVE  ChainInv'
    <2>1. InPut = {offered} /\ offered \in Packets /\ Delivered' = Delivered
      <3>1. put.at \in {"alloc", "slot", "push", "undo"} /\ put.at # "idle"
        BY <1>3
      <3>2. InPut = {offered}
        BY <3>1, Zenon DEF InPut
      <3>3. offered \in Packets
        BY <1>0, <3>1, OfferedPacket
      <3>4. Delivered' = Delivered
        BY <1>3 DEF Delivered, appVars
      <3> QED
        BY <3>2, <3>3, <3>4
    <2> QED
      BY <1>3, <2>1, ChainGivenUp
  <1>4. CASE PutAllocFails \/ PutUndo
    BY <1>3, <1>4 DEF PutAllocFails, PutUndo
  <1>5. CASE PutSlot
    <2>1. CASE HasSlot
      <3>1. /\ put.at = "slot" /\ put'.at = "push" /\ put'.need = put.need
            /\ chain' = chain /\ offered' = offered /\ Delivered' = Delivered
        BY <1>0, <1>5, <2>1 DEF PutSlot, TypeOK, Delivered, poolVars, appVars
      <3> QED
        BY <3>1 DEF ChainInv
    <2>2. CASE ~HasSlot
      BY <1>3, <1>5, <2>2 DEF PutSlot
    <2> QED
      BY <2>1, <2>2
  <1>6. CASE PutPush
    <2>1. put.at = "push" /\ chain' = chain /\ offered' = offered /\ held' = held
      BY <1>6 DEF PutPush, poolVars, appVars
    <2>2. CASE used' = Append(used, offered) /\ put' = [put EXCEPT !.at = "count"]
      <3>1. put'.at = "count" /\ put'.need = put.need
        BY <1>0, <2>2 DEF TypeOK
      <3>2. offered \in Packets /\ used \in Seq(Packets) /\ offered \notin Range(used) /\ IsInjective(used)
        <4>1. OnePlace /\ used \in Seq(Packets)
          BY <1>0, Zenon DEF PlaceInv, TypeOK
        <4>2. put.at # "idle" /\ put.at \in {"alloc", "slot", "push", "undo"}
          BY <2>1
        <4>3. InPut = {offered}
          BY <4>2, Zenon DEF InPut
        <4>4. Range(used) \cap {offered} = {} /\ IsInjective(used)
          BY <4>1, <4>3, Zenon DEF OnePlace
        <4>5. offered \in Packets
          BY <1>0, <4>2, OfferedPacket
        <4> QED
          BY <4>1, <4>4, <4>5
      <3>3. Range(used') = Range(used) \cup {offered}
        BY <2>2, <3>2, AppendFresh
      <3>4. Delivered' = Delivered \cup {offered}
        BY <2>1, <3>3 DEF Delivered
      <3> QED
        BY <2>1, <3>1, <3>4 DEF ChainInv
    <2>3. CASE used' = used /\ put' = [put EXCEPT !.at = "undo"]
      <3>1. put'.at = "undo" /\ put'.need = put.need /\ Delivered' = Delivered
        BY <1>0, <2>1, <2>3 DEF TypeOK, Delivered
      <3> QED
        BY <2>1, <3>1 DEF ChainInv
    <2> QED
      BY <1>6, <2>2, <2>3 DEF PutPush, Enqueue
  <1>7. CASE PutCount
    <2>1. chain' = chain /\ Delivered' = Delivered /\ put'.at = "idle"
      BY <1>7 DEF PutCount, Idle, Delivered, poolVars, appVars
    <2> QED
      BY <2>1 DEF ChainInv
  <1>8. ASSUME NEW a \in Apps, Take(a) PROVE ChainInv'
    <2> DEFINE n == Smaller(MaxSegments, Len(used))
    <2>1. n \in 0 .. Len(used) /\ used \in Seq(Packets)
      BY <1>0, LenProperties DEF Smaller, TypeOK
    <2>2. /\ held' = [held EXCEPT ![a] = @ \cup {used[i] : i \in 1 .. n}]
          /\ used' = SubSeq(used, n + 1, Len(used))
          /\ put' = put /\ offered' = offered /\ chain' = chain
      BY <1>8 DEF Take, Left, putVars, poolVars
    <2> HIDE DEF n
    <2>3. /\ Range(used') \subseteq Range(used)
          /\ \A i \in 1 .. n : used[i] \in Range(used)
      <3>1. IsInjective(used)
        BY <1>0 DEF PlaceInv, OnePlace
      <3>2. /\ Range(SubSeq(used, n + 1, Len(used))) = Range(used) \ {used[i] : i \in 1 .. n}
            /\ {used[i] : i \in 1 .. n} \subseteq Range(used)
        BY <2>1, <3>1, DropPrefix, Zenon
      <3> QED
        BY <2>2, <3>2
    <2>4. \A b \in Apps : held'[b] \subseteq held[b] \cup Range(used)
      <3>1. held \in [Apps -> SUBSET Packets]
        BY <1>0, Zenon DEF TypeOK
      <3>2. ASSUME NEW b \in Apps PROVE held'[b] \subseteq held[b] \cup {used[i] : i \in 1 .. n}
        BY <2>2, <3>1
      <3>3. {used[i] : i \in 1 .. n} \subseteq Range(used)
        BY <2>3
      <3> QED
        BY <3>2, <3>3
    <2>5. Delivered' \subseteq Delivered
      BY <2>3, <2>4 DEF Delivered
    <2> QED
      BY <2>2, <2>5, ChainKept
  <1>9. ASSUME NEW a \in Apps, NEW D \in SUBSET held[a], FreeBegin(a, D) PROVE ChainInv'
    <2>1. /\ used' = used /\ put' = put /\ offered' = offered /\ chain' = chain
          /\ held' = [held EXCEPT ![a] = @ \ D]
      BY <1>9 DEF FreeBegin, putVars, poolVars
    <2>2. \A b \in Apps : held'[b] \subseteq held[b]
      BY <1>0, <2>1 DEF TypeOK
    <2>3. Delivered' \subseteq Delivered
      BY <2>1, <2>2 DEF Delivered
    <2> QED
      BY <2>1, <2>3, ChainKept
  <1>10. ASSUME NEW a \in Apps, NEW p \in returning[a], FreeRelease(a, p) PROVE ChainInv'
    <2>1. /\ put' = put /\ offered' = offered /\ Delivered' = Delivered
          /\ chain' = [chain EXCEPT ![p] = {}]
      BY <1>10 DEF FreeRelease, Release, Delivered, putVars
    <2>2. p \notin Delivered \cup InPut
      BY <1>0, DeliveredApart DEF PlaceInv, OnePlace
    <2>3. Delivered \cup InPut \subseteq Packets
      BY <1>0, DeliveredApart DEF PlaceInv, InPut, TypeOK, Packets
    <2>4. \A q \in Delivered \cup InPut : chain'[q] = chain[q]
      BY <1>0, <2>1, <2>2, <2>3 DEF TypeOK
    <2> QED
      BY <2>1, <2>4, ChainKept
  <1>11. CASE DrainPop
    <2>1. /\ put' = put /\ offered' = offered /\ held' = held /\ used' = Tail(used)
          /\ chain' = [chain EXCEPT ![Head(used)] = {}] /\ used # <<>>
      BY <1>11 DEF DrainPop, Release, Popped, putVars, appVars
    <2>2. /\ Range(Tail(used)) = Range(used) \ {Head(used)}
          /\ Head(used) \in Range(used)
      BY <2>1, HeadLeaves
    <2>3. Delivered' \subseteq Delivered
      BY <2>1, <2>2 DEF Delivered
    <2>4. Head(used) \notin InPut /\ \A a \in Apps : Head(used) \notin held'[a]
      BY <1>0, <2>1, <2>2 DEF PlaceInv, OnePlace
    <2>5. Head(used) \notin Delivered' \cup InPut
      BY <2>1, <2>2, <2>4 DEF Delivered
    <2>6. Delivered' \cup InPut \subseteq Packets
      BY <1>0, <2>3, DeliveredApart DEF PlaceInv, InPut, TypeOK, Packets
    <2>7. \A q \in Delivered' \cup InPut : chain'[q] = chain[q]
      BY <1>0, <2>1, <2>5, <2>6 DEF TypeOK
    <2> QED
      BY <2>1, <2>3, <2>7, ChainKept
  <1>12. ASSUME UNCHANGED <<put, offered, used, held, chain>> PROVE ChainInv'
    <2>1. Delivered' = Delivered
      BY <1>12 DEF Delivered
    <2> QED
      BY <1>12, <2>1, ChainKept
  <1>13. ASSUME NEW a \in Apps, FreePush(a) PROVE ChainInv'
    BY <1>12, <1>13 DEF FreePush, putVars, poolVars
  <1>14. CASE Control /\ ~DrainPop
    <2>1. UNCHANGED <<put, offered, used, held, chain>>
      BY <1>14 DEF Control, Configure, Start, StartFill, Stop, Destroy, DrainFree, DrainTest, Renew,
                   putVars, poolVars, appVars
    <2> QED
      BY <1>12, <2>1
  <1>15. CASE UNCHANGED vars
    BY <1>12, <1>15 DEF vars, putVars, poolVars, appVars
  <1> QED
    BY <1>1, <1>2, <1>4, <1>5, <1>6, <1>7, <1>8, <1>9, <1>10, <1>11, <1>13, <1>14, <1>15
       DEF Next, Poller, App

\* put() looks for a descriptor only with all the segments of its packet, and a
\* packet that is queued or with an application has its whole chain, however
\* allocation failures, overflows, stop and free interleave.
THEOREM ChainsAreWhole == Spec => []ChainsComplete
  <1>1. Init => ChainInv
    <2> SUFFICES ASSUME Init PROVE ChainInv
      OBVIOUS
    <2>1. put.at = "idle" /\ used = <<>> /\ \A a \in Apps : held[a] = {}
      BY DEF Init, Idle
    <2>2. Range(used) = {}
      BY <2>1 DEF Range
    <2>3. Delivered = {}
      BY <2>1, <2>2 DEF Delivered
    <2> HIDE DEF Init
    <2> QED
      BY <2>1, <2>3 DEF ChainInv
  <1>2. ChainInv => ChainsComplete
    BY DEF ChainInv, ChainsComplete, Delivered
  <1> QED
    BY <1>1, <1>2, InitIInv, NextIInv, ChainStep, PTL DEF Spec

-----------------------------------------------------------------------------
(* Order. *)

\* What the applications have is older than what is queued and than the packet
\* put() is working on.
OrderInv == /\ DeliveredInOrder
            /\ \A a \in Apps : \A q \in held[a] \cup ret[a] :
                  q <= offered /\ (InPut # {} => q < offered)

\* Only packets already offered are queued, and not the one put() works on.
LEMMA QueuedBefore ==
  ASSUME IInv
  PROVE  \A p \in Range(used) : p \in Nat /\ p <= offered /\ p \notin InPut
  <1>1. Range(used) \subseteq Packets
    BY DEF IInv, TypeOK, Range
  <1>2. Packets \subseteq Nat
    BY DEF Packets
  <1>3. \A p \in Range(used) : p <= offered /\ p \notin InPut
    BY DEF IInv, PlaceInv, OnePlace, Owned
  <1> QED
    BY <1>1, <1>2, <1>3

\* A step that gives the applications nothing new and queues nothing.
LEMMA OrderKept ==
  ASSUME OrderInv, used' = used, offered' = offered, InPut' \subseteq InPut,
         \A a \in Apps : held'[a] \cup ret'[a] \subseteq held[a] \cup ret[a]
  PROVE  OrderInv'
  <1>1. DeliveredInOrder'
    BY DEF OrderInv, DeliveredInOrder
  <1> QED
    BY <1>1 DEF OrderInv

\* The first n packets leave the queue, to applications or for good.
LEMMA OrderDrop ==
  ASSUME IInv, OrderInv, NEW n \in 0 .. Len(used),
         used' = SubSeq(used, n + 1, Len(used)), offered' = offered, InPut' = InPut,
         \A a \in Apps : held'[a] \cup ret'[a]
                            \subseteq held[a] \cup ret[a] \cup {used[i] : i \in 1 .. n}
  PROVE  OrderInv'
  <1>1. used \in Seq(Packets) /\ Packets \in SUBSET Nat /\ Increasing(used)
    <2>1. TypeOK /\ used \in Seq(Packets)
      BY DEF IInv, TypeOK
    <2>2. Increasing(used)
      BY Zenon DEF OrderInv, DeliveredInOrder, Increasing
    <2> QED
      BY <2>1, <2>2, OfferedPacket
  <1>2. /\ Increasing(used')
        /\ Range(used') \subseteq Range(used)
        /\ \A i \in 1 .. n : used[i] \in Range(used)
        /\ \A i \in 1 .. n : \A x \in Range(used') : used[i] < x
    <2>1. /\ Increasing(SubSeq(used, n + 1, Len(used)))
          /\ Range(SubSeq(used, n + 1, Len(used))) \subseteq Range(used)
          /\ \A i \in 1 .. n : used[i] \in Range(used)
          /\ \A i \in 1 .. n : \A x \in Range(SubSeq(used, n + 1, Len(used))) : used[i] < x
      BY <1>1, IncreasingDrop, Zenon
    <2> QED
      BY <2>1, Zenon
  <1>3. \A p \in Range(used) : p <= offered /\ (InPut # {} => p < offered)
    <2>1. offered \in Nat
      BY OfferedPacket DEF IInv
    <2>2. ASSUME NEW p \in Range(used) PROVE p \in Nat /\ p <= offered /\ p \notin InPut
      BY QueuedBefore, Zenon
    <2>3. InPut = {} \/ offered \in InPut
      BY DEF InPut
    <2>4. \A p \in Nat : p <= offered /\ p # offered => p < offered
      BY <2>1
    <2> QED
      BY <2>2, <2>3, <2>4
  <1>4. ASSUME NEW a \in Apps, NEW q \in held'[a] \cup ret'[a]
        PROVE  /\ q <= offered /\ (InPut # {} => q < offered)
               /\ \A p \in Range(used') : q < p
    <2>1. CASE q \in held[a] \cup ret[a]
      BY <1>2, <2>1 DEF OrderInv, DeliveredInOrder
    <2>2. CASE q \in {used[i] : i \in 1 .. n}
      BY <1>2, <1>3, <2>2
    <2> QED
      BY <1>4, <2>1, <2>2
  <1>5. DeliveredInOrder'
    BY <1>2, <1>4 DEF DeliveredInOrder, Increasing
  <1> QED
    BY <1>4, <1>5 DEF OrderInv

\* Every step keeps the order.
LEMMA OrderStep == IInv /\ OrderInv /\ [Next]_vars => OrderInv'
  <1> SUFFICES ASSUME IInv, OrderInv, [Next]_vars PROVE OrderInv'
    OBVIOUS
  <1>0. /\ used \in Seq(Packets) /\ offered \in Nat /\ Packets \subseteq Nat
        /\ held \in [Apps -> SUBSET Packets] /\ ret \in [Apps -> SUBSET Packets]
    BY DEF IInv, TypeOK, Packets
  <1>1. CASE Poller
    <2>0. UNCHANGED appVars
      BY <1>1 DEF Poller, PutBegin, PutAlloc, PutAllocFails, PutSlot, PutPush, PutUndo, PutCount
    <2>1. ASSUME NEW bytes \in Lengths, PutBegin(bytes) PROVE OrderInv'
      <3>1. used' = used /\ offered' = offered + 1 /\ held' = held /\ ret' = ret
        BY <2>1 DEF PutBegin, appVars
      <3>2. DeliveredInOrder'
        BY <3>1 DEF OrderInv, DeliveredInOrder
      <3>3. ASSUME NEW a \in Apps, NEW q \in held[a] \cup ret[a] PROVE q < offered + 1
        <4>1. q \in Nat /\ q <= offered
          BY <1>0, <3>3 DEF OrderInv
        <4> QED
          BY <1>0, <4>1
      <3> QED
        BY <1>0, <3>1, <3>2, <3>3 DEF OrderInv
    <2>2. CASE PutPush
      <3>1. CASE ~Full(Len(used)) /\ used' = Append(used, offered) /\ put'.at = "count"
        <4>1. offered' = offered /\ held' = held /\ ret' = ret /\ put.at = "push"
          BY <2>0, <2>2 DEF PutPush, appVars
        <4>2. InPut' = {} /\ InPut = {offered}
          BY <3>1, <4>1 DEF InPut
        <4>3. \A p \in Range(used) : p < offered
          BY <1>0, <4>2, QueuedBefore
        <4>4. Increasing(used') /\ Range(used') = Range(used) \cup {offered}
          <5>1. Increasing(used) /\ Packets \in SUBSET Nat /\ offered \in Packets
            <6>1. Increasing(used)
              BY <1>0, Zenon DEF OrderInv, DeliveredInOrder, Increasing
            <6>2. TypeOK /\ PlaceInv /\ put.at # "idle"
              BY <1>0, <4>1 DEF IInv
            <6> QED
              BY <6>1, <6>2, OfferedPacket
          <5>2. /\ Increasing(Append(used, offered))
                /\ Range(Append(used, offered)) = Range(used) \cup {offered}
            BY <1>0, <4>3, <5>1, IncreasingAppend
          <5> QED
            BY <3>1, <5>2, Zenon
        <4>5. DeliveredInOrder'
          BY <4>1, <4>2, <4>4 DEF OrderInv, DeliveredInOrder, Increasing
        <4> QED
          BY <4>1, <4>2, <4>5 DEF OrderInv
      <3>2. CASE used' = used /\ put'.at = "undo"
        <4>1. offered' = offered /\ held' = held /\ ret' = ret /\ put.at = "push"
          BY <2>0, <2>2 DEF PutPush, appVars
        <4>2. InPut' = InPut
          BY <3>2, <4>1 DEF InPut
        <4> QED
          BY <3>2, <4>1, <4>2, OrderKept
      <3> QED
        BY <2>2, <3>1, <3>2 DEF PutPush, Enqueue, IInv, TypeOK
    <2>3. CASE PutAlloc \/ PutAllocFails \/ PutSlot \/ PutUndo \/ PutCount
      <3>1. used' = used /\ offered' = offered /\ held' = held /\ ret' = ret
        BY <2>0, <2>3 DEF PutAlloc, PutAllocFails, PutSlot, PutUndo, PutCount, appVars
      <3>2. /\ put.at \in {"alloc", "slot", "push", "undo"} \/ put'.at = "idle"
            /\ put \in [at : {"idle", "alloc", "slot", "push", "undo", "count"}, need : Nat]
        BY <2>3 DEF IInv, TypeOK, PutAlloc, PutAllocFails, PutSlot, PutUndo, PutCount, GiveUp, Idle
      <3>3. InPut' \subseteq InPut
        BY <3>1, <3>2 DEF InPut
      <3> QED
        BY <3>1, <3>3, OrderKept
    <2> QED
      BY <1>1, <2>1, <2>2, <2>3 DEF Poller
  <1>2. ASSUME NEW a \in Apps, App(a) PROVE OrderInv'
    <2>0. offered' = offered /\ InPut' = InPut
      BY <1>2 DEF App, Take, FreeBegin, FreeRelease, FreePush, putVars, InPut
    <2>1. CASE Take(a)
      <3> DEFINE n == Smaller(MaxSegments, Len(used))
      <3>1. n \in 0 .. Len(used)
        BY <1>0, RxQueueAssumption, LenProperties DEF Smaller
      <3>2. /\ held' = [held EXCEPT ![a] = @ \cup {used[i] : i \in 1 .. n}]
            /\ used' = SubSeq(used, n + 1, Len(used)) /\ ret' = ret
        BY <2>1 DEF Take, Left
      <3> HIDE DEF n
      <3>3. \A b \in Apps : held'[b] \cup ret'[b]
                               \subseteq held[b] \cup ret[b] \cup {used[i] : i \in 1 .. n}
        BY <1>0, <3>2
      <3> QED
        BY <2>0, <3>1, <3>2, <3>3, OrderDrop
    <2>2. CASE ~Take(a)
      <3>1. used' = used
        BY <1>2, <2>2 DEF App, FreeBegin, FreeRelease, FreePush
      <3>2. \A b \in Apps : held'[b] \cup ret'[b] \subseteq held[b] \cup ret[b]
        <4>1. ASSUME NEW D \in SUBSET held[a], FreeBegin(a, D)
              PROVE  \A b \in Apps : held'[b] \cup ret'[b] \subseteq held[b] \cup ret[b]
          BY <1>0, <4>1 DEF FreeBegin
        <4>2. ASSUME NEW p \in returning[a], FreeRelease(a, p)
              PROVE  \A b \in Apps : held'[b] \cup ret'[b] \subseteq held[b] \cup ret[b]
          BY <4>2 DEF FreeRelease
        <4>3. CASE FreePush(a)
          BY <1>0, <4>3 DEF FreePush
        <4> QED
          BY <1>2, <2>2, <4>1, <4>2, <4>3 DEF App
      <3> QED
        BY <2>0, <3>1, <3>2, OrderKept
    <2> QED
      BY <2>1, <2>2
  <1>3. CASE Control
    <2>0. offered' = offered /\ InPut' = InPut /\ held' = held /\ ret' = ret
      BY <1>3 DEF Control, Configure, Start, StartFill, Stop, Destroy, DrainFree, DrainTest,
                  DrainPop, Renew, putVars, appVars, InPut
    <2>1. CASE DrainPop
      <3>1. used # <<>> /\ used' = Tail(used)
        BY <2>1 DEF DrainPop, Popped
      <3>2. Tail(used) = SubSeq(used, 1 + 1, Len(used)) /\ 1 \in 0 .. Len(used)
        BY <1>0, <3>1, TailIsSubSeq, EmptySeq, LenProperties
      <3>3. used' = SubSeq(used, 1 + 1, Len(used))
        BY <3>1, <3>2, Zenon
      <3>4. \A a \in Apps : held'[a] \cup ret'[a]
                               \subseteq held[a] \cup ret[a] \cup {used[i] : i \in 1 .. 1}
        BY <2>0, Zenon
      <3> QED
        BY <2>0, <3>2, <3>3, <3>4, OrderDrop
    <2>2. CASE ~DrainPop
      <3>1. used' = used
        BY <1>3, <2>2 DEF Control, Configure, Start, StartFill, Stop, Destroy, DrainFree,
                          DrainTest, Renew
      <3>2. \A a \in Apps : held'[a] \cup ret'[a] \subseteq held[a] \cup ret[a]
        BY <2>0, Zenon
      <3>3. InPut' \subseteq InPut
        BY <2>0, Zenon
      <3> QED
        BY <2>0, <3>1, <3>2, <3>3, OrderKept
    <2> QED
      BY <2>1, <2>2
  <1>4. CASE UNCHANGED vars
    <2>1. used' = used /\ offered' = offered /\ InPut' = InPut /\ held' = held /\ ret' = ret
      BY <1>4 DEF vars, putVars, appVars, InPut
    <2> QED
      BY <2>1, OrderKept
  <1> QED
    BY <1>1, <1>2, <1>3, <1>4 DEF Next

\* Packets reach the applications in the order put() accepted them, from any
\* number of threads calling take() and free(), and across stop, restart and
\* replacement of the queue.
THEOREM DeliveryIsOrdered == Spec => []DeliveredInOrder
  <1>1. Init => OrderInv
    BY DEF Init, OrderInv, DeliveredInOrder, Range
  <1>2. OrderInv => DeliveredInOrder
    BY DEF OrderInv
  <1> QED
    BY <1>1, <1>2, InitIInv, NextIInv, OrderStep, PTL DEF Spec

-----------------------------------------------------------------------------
(* RxQueue implements RxChannel, for any queue sizes, applications and packets, *)
(* as long as the applications neither take nor keep descriptors across stop(). *)

\* What a thread holds or is returning is with no other thread, and not twice
\* with one.
HandsApart == /\ \A a \in Apps : held[a] \cap ret[a] = {}
              /\ \A a, b \in Apps : a # b =>
                    (held[a] \cup ret[a]) \cap (held[b] \cup ret[b]) = {}

\* Where the descriptors are at each point of the queue's life.
SlotInv ==
    /\ put.at # "undo"
    /\ put.at # "idle" => Polling
    /\ Polling => cap = size /\ free + Len(used) + SlotInPut + Cardinality(Out) = size
    /\ ~Polling => Out = {}
    /\ ctl = "fill" => /\ state = "Started" /\ used = <<>>
                       /\ cap = size /\ free = filled /\ filled <= size
    /\ ctl = "idle" => state \notin {"Stopping", "Destroyed"}
    /\ ctl = "idle" /\ state # "Started" => used = <<>> /\ free = 0
    /\ ctl \in {"drainFree", "drainUsed", "drainPop"} => state \in {"Stopping", "Destroyed"}
    /\ ctl \in {"drainUsed", "drainPop"} => free = 0
    /\ state = "Destroyed" => used = <<>> /\ free = 0
    /\ state = "Configured" => cap = size

\* The inductive invariant of the refinement.
ChannelInv == IInv /\ OrderInv /\ HandsApart /\ SlotInv

-----------------------------------------------------------------------------
(* Counting. *)

\* The counters are numbers, and what is out can be counted.
LEMMA Numbers ==
  ASSUME IInv
  PROVE  /\ free \in Nat /\ filled \in Nat /\ cap \in Nat /\ size \in Nat /\ size # 0
         /\ used \in Seq(Packets) /\ Len(used) \in Nat /\ (Len(used) = 0 <=> used = <<>>)
         /\ Out \subseteq Packets /\ IsFiniteSet(Out) /\ Cardinality(Out) \in Nat
         /\ (Cardinality(Out) = 0 <=> Out = {})
         /\ SlotInPut \in {0, 1}
  <1>1. TypeOK
    BY DEF IInv
  <1>2. Out \subseteq Packets
    BY <1>1 DEF TypeOK, Out
  <1>3. IsFiniteSet(Packets)
    BY FS_Interval, RxQueueAssumption DEF Packets
  <1>4. IsFiniteSet(Out) /\ Cardinality(Out) \in Nat /\ (Cardinality(Out) = 0 <=> Out = {})
    BY <1>2, <1>3, FS_Subset, FS_CardinalityType, FS_EmptySet
  <1>5. used \in Seq(Packets) /\ Len(used) \in Nat /\ (Len(used) = 0 <=> used = <<>>)
    BY <1>1, LenProperties, EmptySeq DEF TypeOK
  <1> QED
    BY <1>1, <1>2, <1>4, <1>5 DEF TypeOK, SlotInPut

\* A prefix of a sequence without repetition has as many elements as its length.
LEMMA PrefixCount ==
  ASSUME NEW S, NEW s \in Seq(S), IsInjective(s), NEW n \in 0 .. Len(s)
  PROVE  /\ IsFiniteSet({s[i] : i \in 1 .. n})
         /\ Cardinality({s[i] : i \in 1 .. n}) = n
  <1> DEFINE T == {s[i] : i \in 1 .. n}
             f == [i \in 1 .. n |-> s[i]]
  <1>1. Len(s) \in Nat /\ DOMAIN s = 1 .. Len(s) /\ n \in Nat /\ 1 .. n \subseteq DOMAIN s
    BY LenProperties
  <1>2. f \in Bijection(1 .. n, T)
    <2>1. f \in [1 .. n -> T]
      OBVIOUS
    <2>2. \A i, j \in 1 .. n : f[i] = f[j] => i = j
      BY <1>1 DEF IsInjective
    <2>3. \A t \in T : \E i \in 1 .. n : f[i] = t
      OBVIOUS
    <2> HIDE DEF f, T
    <2> QED
      BY <2>1, <2>2, <2>3 DEF Bijection, Injection, Surjection, IsInjective
  <1>3. IsFiniteSet(1 .. n) /\ Cardinality(1 .. n) = n
    BY <1>1, FS_Interval
  <1> HIDE DEF f, T
  <1>4. IsFiniteSet(T) /\ Cardinality(T) = Cardinality(1 .. n)
    BY <1>2, <1>3, FS_Bijection DEF ExistsBijection
  <1> QED
    BY <1>3, <1>4 DEF T

-----------------------------------------------------------------------------
(* The poll thread. *)

\* A step of the abstract queue, or one it does not see.
ChannelStep == [Channel!Next]_(Channel!chan)

\* Steps that move no packet and change no size are invisible.
LEMMA Invisible ==
  ASSUME size' = size, used' = used, Out' = Out
  PROVE  ChannelStep
  BY DEF ChannelStep, Channel!chan

\* A step of the poll thread keeps the sum.
LEMMA PollerSlots ==
  ASSUME ChannelInv, Polling, UNCHANGED <<ctlVars, appVars>>, put'.at # "undo",
         free' + Len(used') + SlotInPut' = free + Len(used) + SlotInPut
  PROVE  HandsApart' /\ SlotInv' /\ Out' = Out
  <1>1. UNCHANGED <<state, ctl, filled, size, cap, held, ret>>
    BY DEF ctlVars, appVars
  <1>2. HandsApart' /\ Out' = Out
    BY <1>1 DEF ChannelInv, HandsApart, Out
  <1>3. Polling' /\ state' = "Started" /\ ctl' = "idle"
    BY <1>1 DEF Polling
  <1>4. cap' = size' /\ free' + Len(used') + SlotInPut' + Cardinality(Out') = size'
    BY <1>1, <1>2 DEF ChannelInv, SlotInv
  <1>5. SlotInv'
    BY <1>3, <1>4 DEF SlotInv
  <1> QED
    BY <1>2, <1>5

\* put() is invisible but for the push on used_, which is Accept.
LEMMA PollerChannel == ASSUME ChannelInv, Poller PROVE HandsApart' /\ SlotInv' /\ ChannelStep
  <1>0. IInv /\ SlotInv /\ Polling
    BY DEF ChannelInv, SlotInv, Poller, PutBegin, PutAlloc, PutAllocFails, PutSlot, PutPush,
           PutUndo, PutCount
  <1>1. /\ free \in Nat /\ Len(used) \in Nat /\ SlotInPut \in {0, 1} /\ size \in Nat
        /\ Cardinality(Out) \in Nat /\ used \in Seq(Packets)
        /\ cap = size /\ free + Len(used) + SlotInPut + Cardinality(Out) = size
    BY <1>0, Numbers DEF SlotInv
  <1>2. put \in [at : {"idle", "alloc", "slot", "push", "undo", "count"}, need : Nat]
    BY <1>0 DEF IInv, TypeOK
  <1>3. UNCHANGED <<ctlVars, appVars>> /\ size' = size
    BY DEF Poller, PutBegin, PutAlloc, PutAllocFails, PutSlot, PutPush, PutUndo, PutCount, ctlVars
  <1>4. ASSUME used' = used, free' = free, SlotInPut' = SlotInPut, put'.at # "undo"
        PROVE  HandsApart' /\ SlotInv' /\ ChannelStep
    <2>1. free' + Len(used') + SlotInPut' = free + Len(used) + SlotInPut
      BY <1>4
    <2>2. HandsApart' /\ SlotInv' /\ Out' = Out
      BY <1>0, <1>3, <1>4, <2>1, PollerSlots
    <2> QED
      BY <1>3, <1>4, <2>2, Invisible
  <1>5. ASSUME NEW bytes \in Lengths, PutBegin(bytes) PROVE HandsApart' /\ SlotInv' /\ ChannelStep
    <2>1. /\ used' = used /\ free' = free
          /\ put.at = "idle" /\ put'.at \in {"idle", "alloc"}
      BY <1>5 DEF PutBegin
    <2>2. SlotInPut' = SlotInPut /\ put'.at # "undo"
      BY <2>1 DEF SlotInPut
    <2> QED
      BY <1>4, <2>1, <2>2
  <1>6. CASE PutAlloc \/ PutAllocFails
    <2>1. /\ used' = used /\ free' = free
          /\ put.at = "alloc" /\ put'.at \in {"idle", "alloc", "slot"}
      BY <1>2, <1>6 DEF PutAlloc, PutAllocFails, GiveUp, Idle
    <2>2. SlotInPut' = SlotInPut /\ put'.at # "undo"
      BY <2>1 DEF SlotInPut
    <2> QED
      BY <1>4, <2>1, <2>2
  <1>7. CASE PutSlot
    <2>1. CASE free' = free - 1 /\ put'.at = "push" /\ used' = used /\ put.at = "slot"
      <3>1. SlotInPut = 0 /\ SlotInPut' = 1 /\ put'.at # "undo"
        BY <2>1 DEF SlotInPut
      <3>2. free' + Len(used') + SlotInPut' = free + Len(used) + SlotInPut
        BY <1>1, <2>1, <3>1
      <3>3. HandsApart' /\ SlotInv' /\ Out' = Out
        BY <1>0, <1>3, <3>1, <3>2, PollerSlots
      <3> QED
        BY <1>3, <2>1, <3>3, Invisible
    <2>2. CASE free' = free /\ put'.at = "idle" /\ used' = used /\ put.at = "slot"
      <3>1. SlotInPut' = SlotInPut /\ put'.at # "undo"
        BY <2>2 DEF SlotInPut
      <3> QED
        BY <1>4, <2>2, <3>1
    <2> QED
      BY <1>2, <1>7, <2>1, <2>2 DEF PutSlot, GiveUp, Idle
  <1>8. CASE PutPush
    <2>1. put.at = "push" /\ SlotInPut = 1 /\ Len(used) + Cardinality(Out) < size
      <3>1. put.at = "push"
        BY <1>8 DEF PutPush
      <3>2. SlotInPut = 1
        BY <3>1 DEF SlotInPut
      <3> QED
        BY <1>1, <3>1, <3>2
    <2>2. ~Full(Len(used))
      BY <1>1, <2>1 DEF Full
    <2>3. used' = Append(used, offered) /\ free' = free /\ put'.at = "count"
      BY <1>2, <1>8, <2>2 DEF PutPush, Enqueue
    <2>4. Len(used') = Len(used) + 1 /\ SlotInPut' = 0 /\ put'.at # "undo"
      <3>1. offered \in Packets
        <4>1. TypeOK /\ PlaceInv /\ put.at # "idle"
          BY <1>0, <2>1 DEF IInv
        <4> QED
          BY <4>1, OfferedPacket
      <3>2. Len(Append(used, offered)) = Len(used) + 1
        BY <1>1, <3>1, AppendProperties
      <3> QED
        BY <2>3, <3>2 DEF SlotInPut
    <2>5. free' + Len(used') + SlotInPut' = free + Len(used) + SlotInPut
      BY <1>1, <2>1, <2>3, <2>4
    <2>6. HandsApart' /\ SlotInv' /\ Out' = Out
      BY <1>0, <1>3, <2>4, <2>5, PollerSlots
    <2>7. Channel!Accept(offered) /\ offered \in Packets
      <3>1. offered \in Packets
        <4>1. TypeOK /\ PlaceInv /\ put.at # "idle"
          BY <1>0, <2>1 DEF IInv
        <4> QED
          BY <4>1, OfferedPacket
      <3> QED
        BY <1>3, <2>1, <2>3, <2>6, <3>1 DEF Channel!Accept
    <2> QED
      BY <2>6, <2>7 DEF ChannelStep, Channel!Next
  <1>9. CASE PutUndo
    BY <1>0, <1>9 DEF PutUndo, SlotInv
  <1>10. CASE PutCount
    <2>1. used' = used /\ free' = free /\ put.at = "count" /\ put'.at = "idle"
      BY <1>10 DEF PutCount, Idle
    <2>2. SlotInPut' = SlotInPut /\ put'.at # "undo"
      BY <2>1 DEF SlotInPut
    <2> QED
      BY <1>4, <2>1, <2>2
  <1> QED
    BY <1>5, <1>6, <1>7, <1>8, <1>9, <1>10 DEF Poller

-----------------------------------------------------------------------------
(* The applications. *)

\* Descriptors are with applications only while the port polls, and then the
\* sum is all there is to keep.
LEMMA AppSlots ==
  ASSUME ChannelInv, Polling, UNCHANGED <<ctlVars, putVars>>,
         free' + Len(used') + SlotInPut + Cardinality(Out') = size
  PROVE  SlotInv'
  <1>1. UNCHANGED <<state, ctl, filled, size, cap, put>>
    BY DEF ctlVars, putVars
  <1>2. Polling' /\ state' = "Started" /\ ctl' = "idle" /\ put'.at # "undo"
    BY <1>1 DEF Polling, ChannelInv, SlotInv
  <1>3. cap' = size' /\ SlotInPut' = SlotInPut
    BY <1>1 DEF ChannelInv, SlotInv, SlotInPut
  <1>4. free' + Len(used') + SlotInPut' + Cardinality(Out') = size'
    BY <1>1, <1>3
  <1> QED
    BY <1>2, <1>3, <1>4 DEF SlotInv

\* take() is Take, the push of free() is GiveBack, the rest is invisible.
LEMMA AppChannel ==
  ASSUME ChannelInv, ~TakeWhileStopping, NEW a \in Apps, App(a)
  PROVE  HandsApart' /\ SlotInv' /\ ChannelStep
  <1>0. /\ IInv /\ OrderInv /\ HandsApart /\ SlotInv
        /\ held \in [Apps -> SUBSET Packets] /\ ret \in [Apps -> SUBSET Packets]
    BY DEF ChannelInv, IInv, TypeOK
  <1>1. /\ free \in Nat /\ Len(used) \in Nat /\ size \in Nat /\ cap \in Nat
        /\ used \in Seq(Packets) /\ (Len(used) = 0 <=> used = <<>>)
        /\ IsFiniteSet(Out) /\ Cardinality(Out) \in Nat
    BY <1>0, Numbers
  <1>2. UNCHANGED <<ctlVars, putVars>> /\ size' = size
    BY DEF App, Take, FreeBegin, FreeRelease, FreePush, ctlVars
  <1>3. CASE Take(a)
    <2> DEFINE n == Smaller(MaxSegments, Len(used))
               Got == {used[i] : i \in 1 .. n}
    <2>1. n \in 1 .. Len(used)
      BY <1>1, <1>3, RxQueueAssumption DEF Smaller, Take
    <2>2. /\ held' = [held EXCEPT ![a] = @ \cup Got] /\ ret' = ret /\ free' = free
          /\ used' = SubSeq(used, n + 1, Len(used))
      BY <1>3 DEF Take, Left
    <2> HIDE DEF n
    <2>3. IsFiniteSet(Got) /\ Cardinality(Got) = n
      <3>1. IsInjective(used) /\ n \in 0 .. Len(used)
        <4>1. IsInjective(used)
          BY <1>0, Zenon DEF IInv, PlaceInv, OnePlace
        <4> QED
          BY <1>1, <2>1, <4>1
      <3> QED
        BY <1>1, <3>1, PrefixCount, Zenon
    <2>4. Len(used') = Len(used) - n
      <3>1. n \in 0 .. Len(used)
        BY <2>1
      <3>2. Len(SubSeq(used, n + 1, Len(used))) = Len(used) - n
        BY <1>1, <3>1, DropElements, Zenon
      <3> QED
        BY <2>2, <3>2, Zenon
    <2>5. Got \subseteq Packets /\ \A b \in Apps : Got \cap (held[b] \cup ret[b]) = {}
      <3>1. Got \subseteq Range(used)
        BY <1>1, <2>1, LenProperties DEF Range
      <3>2. Range(used) \subseteq Packets /\ Packets \subseteq Nat
        <4>1. Range(used) \subseteq Packets
          BY <1>1 DEF Range
        <4> QED
          BY <4>1 DEF Packets
      <3>3. ASSUME NEW b \in Apps, NEW q \in held[b] \cup ret[b], q \in Got PROVE FALSE
        <4>1. q < q /\ q \in Nat
          BY <1>0, <3>1, <3>2, <3>3 DEF OrderInv, DeliveredInOrder
        <4> QED
          BY <4>1
      <3> QED
        BY <3>1, <3>2, <3>3
    <2> HIDE DEF Got
    <2>6. held'[a] = held[a] \cup Got /\ \A b \in Apps \ {a} : held'[b] = held[b]
      BY <1>0, <2>2
    <2>7. HandsApart'
      BY <1>0, <2>2, <2>5, <2>6 DEF HandsApart
    <2>8. Out' = Out \cup Got /\ Out \cap Got = {}
      <3>1. Out' = UNION {held'[b] \cup ret[b] : b \in Apps}
        BY <2>2 DEF Out
      <3>2. ASSUME NEW x PROVE x \in Out' <=> x \in Out \/ x \in Got
        <4>1. x \in Out' <=> \E b \in Apps : x \in held'[b] \cup ret[b]
          BY <3>1
        <4>2. x \in Out <=> \E b \in Apps : x \in held[b] \cup ret[b]
          BY DEF Out
        <4> QED
          BY <2>6, <4>1, <4>2
      <3>3. ASSUME NEW x \in Out PROVE x \notin Got
        BY <2>5 DEF Out
      <3> QED
        BY <3>2, <3>3
    <2>9. Cardinality(Out') = Cardinality(Out) + n
      <3>1. Cardinality(Out \cup Got)
              = Cardinality(Out) + Cardinality(Got) - Cardinality(Out \cap Got)
        BY <1>1, <2>3, FS_Union
      <3>2. Cardinality(Out \cap Got) = 0
        BY <2>8, FS_EmptySet
      <3> QED
        BY <1>1, <2>1, <2>3, <2>8, <3>1, <3>2
    <2>10. Polling
      <3>1. used # <<>> /\ state # "Destroyed" /\ state # "Stopping"
        BY <1>3 DEF Take, MayTake
      <3> QED
        BY <1>0, <3>1 DEF SlotInv, Polling, IInv, TypeOK
    <2>11. SlotInv'
      <3>1. free + Len(used) + SlotInPut + Cardinality(Out) = size /\ SlotInPut \in {0, 1}
        BY <1>0, <2>10, Numbers DEF SlotInv
      <3>2. free + (Len(used) - n) + SlotInPut + (Cardinality(Out) + n) = size
        BY <1>1, <2>1, <3>1
      <3>3. free' + Len(used') + SlotInPut + Cardinality(Out') = size
        BY <2>2, <2>4, <2>9, <3>2, Zenon
      <3> QED
        BY <1>2, <2>10, <3>3, AppSlots
    <2>12. Channel!Take(n)
      BY <1>2, <2>2, <2>9 DEF Channel!Take
    <2> QED
      BY <2>1, <2>7, <2>11, <2>12 DEF ChannelStep, Channel!Next
  <1>4. ASSUME used' = used, free' = free, Out' = Out,
               held[a] \cup ret[a] # {} \/ UNCHANGED <<held, ret>>
        PROVE  SlotInv' /\ ChannelStep
    <2>1. SlotInv'
      <3>1. UNCHANGED <<state, ctl, filled, size, cap, put>>
        BY <1>2 DEF ctlVars, putVars
      <3> QED
        BY <1>0, <1>4, <3>1 DEF SlotInv, Polling, SlotInPut
    <2> QED
      BY <1>2, <1>4, <2>1, Invisible
  <1>5. ASSUME NEW D \in SUBSET held[a], FreeBegin(a, D)
        PROVE  HandsApart' /\ SlotInv' /\ ChannelStep
    <2>1. /\ used' = used /\ free' = free /\ ret[a] = {} /\ D # {} /\ D \subseteq held[a]
          /\ held' = [held EXCEPT ![a] = @ \ D] /\ ret' = [ret EXCEPT ![a] = D]
      BY <1>5 DEF FreeBegin
    <2>2. /\ held'[a] = held[a] \ D /\ ret'[a] = D
          /\ \A b \in Apps \ {a} : held'[b] = held[b] /\ ret'[b] = ret[b]
      BY <1>0, <2>1
    <2>3. held'[a] \cap ret'[a] = {} /\ held'[a] \cup ret'[a] = held[a] \cup ret[a]
      BY <2>1, <2>2
    <2>4. HandsApart'
      <3>1. ASSUME NEW b \in Apps PROVE held'[b] \cup ret'[b] = held[b] \cup ret[b]
        BY <2>2, <2>3
      <3>2. \A b \in Apps : held'[b] \cap ret'[b] = {}
        BY <1>0, <2>2, <2>3 DEF HandsApart
      <3>3. \A b, c \in Apps : b # c => (held[b] \cup ret[b]) \cap (held[c] \cup ret[c]) = {}
        BY <1>0, Zenon DEF HandsApart
      <3> QED
        BY <3>1, <3>2, <3>3 DEF HandsApart
    <2>5. Out' = Out
      BY <2>2, <2>3 DEF Out
    <2> QED
      BY <1>4, <2>1, <2>4, <2>5
  <1>6. ASSUME NEW p \in returning[a], FreeRelease(a, p)
        PROVE  HandsApart' /\ SlotInv' /\ ChannelStep
    <2>1. used' = used /\ free' = free /\ held' = held /\ ret' = ret
      BY <1>6 DEF FreeRelease
    <2>2. HandsApart' /\ Out' = Out
      BY <1>0, <2>1 DEF HandsApart, Out
    <2> QED
      BY <1>4, <2>1, <2>2
  <1>7. CASE FreePush(a)
    <2> DEFINE m == Cardinality(ret[a])
    <2>1. /\ used' = used /\ held' = held /\ ret' = [ret EXCEPT ![a] = {}]
          /\ ret[a] # {} /\ Push(m)
      BY <1>7 DEF FreePush, Returned
    <2>2. ret[a] \subseteq Out
      BY DEF Out
    <2>3. m \in 1 .. Cardinality(Out)
      <3>1. IsFiniteSet(ret[a]) /\ m <= Cardinality(Out) /\ m \in Nat
        BY <1>1, <2>2, FS_Subset, FS_CardinalityType
      <3>2. m # 0
        BY <2>1, <3>1, FS_EmptySet
      <3> QED
        BY <1>1, <3>1, <3>2
    <2>4. ret'[a] = {} /\ \A b \in Apps \ {a} : ret'[b] = ret[b]
      BY <1>0, <2>1
    <2>5. HandsApart'
      BY <1>0, <2>1, <2>4 DEF HandsApart
    <2>6. Out' = Out \ ret[a]
      BY <1>0, <2>1, <2>4 DEF Out, HandsApart
    <2>7. Cardinality(Out') = Cardinality(Out) - m
      <3>1. Cardinality(Out \ ret[a]) = Cardinality(Out) - Cardinality(Out \cap ret[a])
        BY <1>1, FS_Difference
      <3>2. Out \cap ret[a] = ret[a]
        BY <2>2
      <3> QED
        BY <2>6, <3>1, <3>2
    <2> HIDE DEF m
    <2>8. Polling
      BY <1>0, <2>1, <2>2 DEF SlotInv
    <2>9. free' = free + m
      <3>1. cap = size /\ free + Len(used) + SlotInPut + Cardinality(Out) = size /\ SlotInPut \in {0, 1}
        BY <1>0, <2>8, Numbers DEF SlotInv
      <3>2. ~Full(free) /\ cap # 0 /\ free + m <= cap
        BY <1>1, <2>3, <3>1 DEF Full
      <3> QED
        BY <1>1, <2>1, <2>3, <3>2 DEF Push, Smaller
    <2>10. SlotInv'
      <3>1. free + Len(used) + SlotInPut + Cardinality(Out) = size /\ SlotInPut \in {0, 1}
        BY <1>0, <2>8, Numbers DEF SlotInv
      <3>2. (free + m) + Len(used) + SlotInPut + (Cardinality(Out) - m) = size
        BY <1>1, <2>3, <3>1
      <3>3. free' + Len(used') + SlotInPut + Cardinality(Out') = size
        BY <2>1, <2>7, <2>9, <3>2, Zenon
      <3> QED
        BY <1>2, <2>8, <3>3, AppSlots
    <2>11. Channel!GiveBack(m)
      BY <1>2, <2>1, <2>7 DEF Channel!GiveBack
    <2> QED
      BY <2>3, <2>5, <2>10, <2>11 DEF ChannelStep, Channel!Next
  <1> QED
    BY <1>3, <1>5, <1>6, <1>7 DEF App

-----------------------------------------------------------------------------
(* The control thread. *)

\* configure() and the replacement of the queue are Resize, a turn of the
\* second drain loop is Discard, the rest is invisible.
LEMMA ControlChannel ==
  ASSUME ChannelInv, ~FreeAfterStop, Control
  PROVE  HandsApart' /\ SlotInv' /\ ChannelStep
  <1>0. IInv /\ HandsApart /\ SlotInv
    BY DEF ChannelInv
  <1>1. /\ free \in Nat /\ filled \in Nat /\ size \in Nat /\ size # 0 /\ cap \in Nat
        /\ used \in Seq(Packets) /\ Len(used) \in Nat /\ (Len(used) = 0 <=> used = <<>>)
        /\ (Cardinality(Out) = 0 <=> Out = {}) /\ Cardinality({}) = 0 /\ Len(<<>>) = 0
    BY <1>0, Numbers, FS_EmptySet, EmptySeq
  <1>2. /\ state \in {"Stopped", "Configured", "Started", "Stopping", "Error", "Destroyed"}
        /\ ctl \in {"idle", "fill", "drainFree", "drainUsed", "drainPop"}
    BY <1>0 DEF IInv, TypeOK
  <1>3. held' = held /\ ret' = ret /\ put' = put
    BY DEF Control, Configure, Start, StartFill, Stop, Destroy, DrainFree, DrainTest, DrainPop,
           Renew, putVars, appVars
  <1>4. HandsApart' /\ Out' = Out /\ SlotInPut' = SlotInPut
    BY <1>0, <1>3 DEF HandsApart, Out, SlotInPut
  <1>5. ASSUME used = <<>>, used' = used, Out = {}, size' \in Nat \ {0} PROVE ChannelStep
    BY <1>1, <1>4, <1>5 DEF ChannelStep, Channel!Next, Channel!Resize
  <1>6. ASSUME NEW s \in Sizes, Configure(s) PROVE SlotInv' /\ ChannelStep
    <2>1. /\ ctl = "idle" /\ state \in {"Stopped", "Configured", "Error"}
          /\ ctl' = ctl /\ free' = free /\ used' = used
          /\ \/ s > 0 /\ state' = "Configured" /\ size' = s /\ cap' = s
             \/ state' = "Error" /\ size' = size /\ cap' = cap
      BY <1>6 DEF Configure, Configurable, isValid
    <2>2. ~Polling /\ Out = {} /\ used = <<>> /\ free = 0 /\ ~Polling'
      BY <1>0, <2>1 DEF SlotInv, Polling
    <2>3. SlotInv'
      BY <1>0, <1>3, <1>4, <2>1, <2>2 DEF SlotInv, Polling
    <2>4. size' \in Nat \ {0}
      BY <1>1, <2>1, RxQueueAssumption
    <2> QED
      BY <1>5, <2>1, <2>2, <2>3, <2>4
  <1>7. CASE Start
    <2>1. /\ ctl = "idle" /\ state \in {"Stopped", "Configured"}
          /\ state' = "Started" /\ ctl' = "fill" /\ filled' = 0
          /\ cap' = (IF state = "Stopped" THEN size ELSE cap)
          /\ size' = size /\ free' = free /\ used' = used
      BY <1>7 DEF Start
    <2>2. ~Polling /\ Out = {} /\ used = <<>> /\ free = 0 /\ ~Polling' /\ cap' = size
      BY <1>0, <2>1 DEF SlotInv, Polling
    <2>3. SlotInv'
      <3>1. put'.at # "undo" /\ put'.at = "idle"
        BY <1>0, <1>3, <2>2 DEF SlotInv
      <3>2. filled' <= size'
        BY <1>1, <2>1
      <3> QED
        BY <1>4, <2>1, <2>2, <3>1, <3>2 DEF SlotInv
    <2> QED
      BY <1>4, <2>1, <2>3, Invisible
  <1>8. CASE StartFill
    <2>1. /\ ctl = "fill" /\ state' = state /\ size' = size /\ cap' = cap /\ used' = used
          /\ \/ filled >= size /\ ctl' = "idle" /\ filled' = filled /\ free' = free
             \/ /\ ~(filled >= size) /\ ~Full(free)
                /\ free' = free + 1 /\ filled' = filled + 1 /\ ctl' = ctl
             \/ ~(filled >= size) /\ Full(free)
      BY <1>8 DEF StartFill, FillDone
    <2>2. /\ state = "Started" /\ used = <<>> /\ cap = size /\ free = filled /\ filled <= size
          /\ ~Polling /\ Out = {} /\ put.at = "idle"
      BY <1>0, <2>1 DEF SlotInv, Polling
    <2>3. SlotInPut = 0
      BY <2>2 DEF SlotInPut
    <2>4. CASE filled >= size /\ ctl' = "idle" /\ filled' = filled /\ free' = free
      <3>1. free' = size
        BY <1>1, <2>2, <2>4
      <3>2. cap' = size' /\ free' + Len(used') + SlotInPut' + Cardinality(Out') = size'
        BY <1>1, <1>4, <2>1, <2>2, <2>3, <3>1
      <3>3. Polling' /\ state' = "Started" /\ put'.at = "idle"
        BY <1>3, <2>1, <2>2, <2>4 DEF Polling
      <3> QED
        BY <1>4, <2>1, <2>4, <3>2, <3>3, Invisible DEF SlotInv
    <2>5. CASE /\ ~(filled >= size) /\ ~Full(free)
               /\ free' = free + 1 /\ filled' = filled + 1 /\ ctl' = ctl
      <3>1. filled' <= size
        BY <1>1, <2>5
      <3>2. SlotInv'
        BY <1>3, <1>4, <2>1, <2>2, <2>5, <3>1 DEF SlotInv, Polling
      <3> QED
        BY <1>4, <2>1, <3>2, Invisible
    <2>6. CASE ~(filled >= size) /\ Full(free)
      BY <1>1, <2>2, <2>6 DEF Full
    <2> QED
      BY <2>1, <2>4, <2>5, <2>6
  <1>9. CASE Stop
    <2>1. /\ put.at = "idle" /\ state' = "Stopping" /\ ctl' = "drainFree"
          /\ size' = size /\ used' = used /\ free' = free
          /\ \A a \in Apps : held[a] = {} /\ ret[a] = {}
      BY <1>9 DEF Stop, MayStop
    <2>2. Out = {}
      BY <2>1 DEF Out
    <2>3. SlotInv'
      BY <1>3, <1>4, <2>1, <2>2 DEF SlotInv, Polling
    <2> QED
      BY <1>4, <2>1, <2>3, Invisible
  <1>10. CASE Destroy
    <2>1. /\ ctl = "idle" /\ state \in {"Stopped", "Configured", "Error"}
          /\ state' = "Destroyed" /\ ctl' = "drainFree"
          /\ size' = size /\ used' = used /\ free' = free
      BY <1>10 DEF Destroy, Configurable
    <2>2. ~Polling /\ Out = {} /\ used = <<>> /\ free = 0 /\ put.at = "idle"
      BY <1>0, <2>1 DEF SlotInv, Polling
    <2>3. SlotInv'
      BY <1>3, <1>4, <2>1, <2>2 DEF SlotInv, Polling
    <2> QED
      BY <1>4, <2>1, <2>3, Invisible
  <1>11. CASE DrainFree
    <2>1. /\ ctl = "drainFree" /\ state' = state /\ size' = size /\ used' = used
          /\ \/ free > 0 /\ free' = free - 1 /\ ctl' = ctl
             \/ free = 0 /\ free' = free /\ ctl' = "drainUsed"
      BY <1>11 DEF DrainFree
    <2>2. /\ state \in {"Stopping", "Destroyed"} /\ ~Polling /\ Out = {} /\ put.at = "idle"
          /\ (state = "Destroyed" => used = <<>> /\ free = 0)
      BY <1>0, <2>1 DEF SlotInv, Polling
    <2>3. state = "Destroyed" => free' = 0
      BY <2>1, <2>2
    <2>4. SlotInv'
      BY <1>3, <1>4, <2>1, <2>2, <2>3 DEF SlotInv, Polling
    <2> QED
      BY <1>4, <2>1, <2>4, Invisible
  <1>12. CASE DrainTest
    <2>1. /\ ctl = "drainUsed" /\ size' = size /\ used' = used /\ free' = free
          /\ \/ used # <<>> /\ ctl' = "drainPop" /\ state' = state
             \/ /\ used = <<>> /\ state # "Destroyed" /\ ctl' = "idle"
                /\ state' = IF state = "Stopping" THEN "Stopped" ELSE "Error"
      BY <1>12 DEF DrainTest
    <2>2. /\ state \in {"Stopping", "Destroyed"} /\ ~Polling /\ Out = {} /\ put.at = "idle"
          /\ free = 0 /\ (state = "Destroyed" => used = <<>>)
      BY <1>0, <2>1 DEF SlotInv, Polling
    <2>3. SlotInv'
      BY <1>3, <1>4, <2>1, <2>2 DEF SlotInv, Polling
    <2> QED
      BY <1>4, <2>1, <2>3, Invisible
  <1>13. CASE DrainPop
    <2>1. /\ ctl = "drainPop" /\ used # <<>> /\ used' = Tail(used) /\ ctl' = "drainUsed"
          /\ state' = state /\ size' = size /\ free' = free
      BY <1>13 DEF DrainPop, Popped
    <2>2. state = "Stopping" /\ ~Polling /\ Out = {} /\ put.at = "idle" /\ free = 0
      BY <1>0, <2>1 DEF SlotInv, Polling
    <2>3. SlotInv'
      BY <1>3, <1>4, <2>1, <2>2 DEF SlotInv, Polling
    <2>4. Tail(used) = SubSeq(used, 1 + 1, Len(used)) /\ 1 \in 1 .. Len(used)
      BY <1>1, <2>1, TailIsSubSeq
    <2>5. Channel!Discard(1)
      <3>1. used' = SubSeq(used, 1 + 1, Len(used))
        BY <2>1, <2>4, Zenon
      <3>2. Cardinality(Out) = 0 /\ Cardinality(Out)' = Cardinality(Out)
        BY <1>1, <1>4, <2>2
      <3> QED
        BY <2>1, <3>1, <3>2, Zenon DEF Channel!Discard
    <2> QED
      BY <1>4, <2>3, <2>4, <2>5 DEF ChannelStep, Channel!Next
  <1>14. CASE Renew
    <2>1. /\ ctl = "drainUsed" /\ state = "Destroyed" /\ used = <<>>
          /\ state' = "Stopped" /\ ctl' = "idle" /\ size' = DefaultSize
          /\ free' = free /\ used' = used
      BY <1>14 DEF Renew
    <2>2. ~Polling /\ Out = {} /\ put.at = "idle" /\ free = 0
      BY <1>0, <2>1 DEF SlotInv, Polling
    <2>3. SlotInv'
      BY <1>3, <1>4, <2>1, <2>2 DEF SlotInv, Polling
    <2> QED
      BY <1>4, <1>5, <2>1, <2>2, <2>3, RxQueueAssumption
  <1> QED
    BY <1>4, <1>6, <1>7, <1>8, <1>9, <1>10, <1>11, <1>12, <1>13, <1>14 DEF Control

-----------------------------------------------------------------------------
(* The theorems. *)

\* A queue starts as an empty channel.
LEMMA ChannelInit == Init => ChannelInv /\ Channel!Init
  <1> SUFFICES ASSUME Init PROVE ChannelInv /\ Channel!Init
    OBVIOUS
  <1>1. IInv
    BY InitIInv
  <1>2. OrderInv
    BY DEF Init, OrderInv, DeliveredInOrder, Range
  <1>3. HandsApart /\ Out = {}
    BY DEF Init, HandsApart, Out
  <1>4. Cardinality(Out) = 0
    BY <1>3, FS_EmptySet
  <1>5. SlotInv
    BY <1>3 DEF Init, SlotInv, Polling, Idle
  <1>6. Channel!Init
    BY <1>4, RxQueueAssumption DEF Init, Channel!Init
  <1> QED
    BY <1>1, <1>2, <1>3, <1>5, <1>6 DEF ChannelInv

\* Every step keeps the invariant and is a step of the channel.
LEMMA ChannelNext ==
  ASSUME TakeWhileStopping = FALSE, FreeAfterStop = FALSE
  PROVE  ChannelInv /\ [Next]_vars => ChannelInv' /\ ChannelStep
  <1> SUFFICES ASSUME ChannelInv, [Next]_vars PROVE ChannelInv' /\ ChannelStep
    OBVIOUS
  <1>1. IInv' /\ OrderInv'
    BY NextIInv, OrderStep DEF ChannelInv
  <1>2. HandsApart' /\ SlotInv' /\ ChannelStep
    <2>1. CASE UNCHANGED vars
      <3>1. UNCHANGED <<state, ctl, filled, size, cap, free, used, put, held, ret>>
        BY <2>1 DEF vars, ctlVars, putVars, appVars
      <3>2. HandsApart' /\ Out' = Out
        BY <3>1 DEF ChannelInv, HandsApart, Out
      <3>3. SlotInv'
        BY <3>1, <3>2 DEF ChannelInv, SlotInv, Polling, SlotInPut
      <3> QED
        BY <3>1, <3>2, <3>3, Invisible
    <2>2. CASE Next
      BY <2>2, PollerChannel, AppChannel, ControlChannel DEF Next
    <2> QED
      BY <2>1, <2>2
  <1> QED
    BY <1>1, <1>2 DEF ChannelInv

\* RX queue and channel: when the applications return their descriptors before
\* stop() and take none during it, every behaviour of the two lists, the pool
\* and the scope guards of rx_queue.cpp is one of a FIFO with a fixed number of
\* descriptors.
THEOREM QueueImplementsChannel ==
  ASSUME TakeWhileStopping = FALSE, FreeAfterStop = FALSE
  PROVE  Spec => ImplementsChannel
  <1>1. ChannelInv /\ [Next]_vars => ChannelInv' /\ [Channel!Next]_(Channel!chan)
    BY ChannelNext DEF ChannelStep
  <1> QED
    BY <1>1, ChannelInit, PTL DEF Spec, ImplementsChannel, Channel!Spec

\* No descriptor is lost or invented by put, take, free, stop and restart, and
\* start() always finds room for its descriptors.
THEOREM DescriptorsAreConserved ==
  ASSUME TakeWhileStopping = FALSE, FreeAfterStop = FALSE
  PROVE  Spec => []SlotsConserved
  <1>1. ChannelInv => SlotsConserved
    BY DEF ChannelInv, SlotInv, SlotsConserved, IInv, TypeOK
  <1>2. ChannelInv /\ [Next]_vars => ChannelInv'
    BY ChannelNext
  <1> QED
    BY <1>1, <1>2, ChannelInit, PTL DEF Spec

\* put() counts an overflow for want of a descriptor only when all of them are
\* queued or with applications.
THEOREM OverflowIsExhaustion ==
  ASSUME TakeWhileStopping = FALSE, FreeAfterStop = FALSE
  PROVE  Spec => OverflowMeansExhausted
  <1>1. ChannelInv /\ [Next]_vars
          => [put.at = "slot" /\ overflows' # overflows => Len(used) + Cardinality(Out) >= size]_vars
    <2> SUFFICES ASSUME ChannelInv, Next, put.at = "slot", overflows' # overflows
                 PROVE  Len(used) + Cardinality(Out) >= size
      OBVIOUS
    <2>1. /\ Len(used) \in Nat /\ Cardinality(Out) \in Nat /\ free \in Nat
          /\ Polling /\ SlotInPut = 0
          /\ free + Len(used) + SlotInPut + Cardinality(Out) = size
      BY Numbers DEF ChannelInv, SlotInv, SlotInPut
    <2>2. PutSlot
      <3>1. CASE Poller
        BY <3>1 DEF Poller, PutBegin, PutAlloc, PutAllocFails, PutPush, PutUndo, PutCount
      <3>2. ASSUME NEW a \in Apps, App(a) PROVE FALSE
        BY <3>2 DEF App, Take, FreeBegin, FreeRelease, FreePush, putVars
      <3>3. CASE Control
        BY <2>1, <3>3 DEF Control, Configure, Start, StartFill, Stop, Destroy, DrainFree,
                          DrainTest, DrainPop, Renew, putVars, Polling
      <3> QED
        BY <3>1, <3>2, <3>3 DEF Next
    <2>3. free = 0
      BY <2>1, <2>2 DEF PutSlot, HasSlot
    <2> QED
      BY <2>1, <2>3
  <1>2. ChannelInv /\ [Next]_vars => ChannelInv'
    BY ChannelNext
  <1> QED
    BY <1>1, <1>2, ChannelInit, PTL DEF Spec, OverflowMeansExhausted

=============================================================================
