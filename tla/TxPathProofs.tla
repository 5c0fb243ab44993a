---------------------------- MODULE TxPathProofs ----------------------------
(***************************************************************************)
(* Theorems about TxPath and its link: the memory of the pipe, the frames  *)
(* in it and the calls that gather them, for any number of senders, queues,*)
(* consumers and blocks, whatever is sent and however the port is          *)
(* configured.                                                             *)
(***************************************************************************)
EXTENDS TxPath, SequenceLemmas, SequenceTheorems, TLAPS

-----------------------------------------------------------------------------
(* The inductive invariant. *)

AtMostOne(S) == \A x, y \in S : x = y

TypeInv == /\ pipe \in Seq(Block)
           /\ allocated \in SUBSET Block
           /\ data = [b \in Block |-> data[b]]
           /\ putting \in [Putters -> SUBSET Block] /\ \A p \in Putters : AtMostOne(putting[p])
           /\ taking \in [Takers -> SUBSET Block] /\ \A t \in Takers : AtMostOne(taking[t])
           /\ promised \in [Takers -> Nat]
           /\ pushed \in Seq(Range(pushed))
           /\ popped \in Nat

\* MemoryExact, with putters and takers apart.
Exact == /\ \A b \in Block : b \in allocated <=> \/ b \in Range(pipe)
                                                 \/ \E p \in Putters : b \in putting[p]
                                                 \/ \E t \in Takers : b \in taking[t]
         /\ IsInjective(pipe)
         /\ \A p \in Putters : Range(pipe) \cap putting[p] = {}
         /\ \A t \in Takers : Range(pipe) \cap taking[t] = {}
         /\ \A p \in Putters, t \in Takers : putting[p] \cap taking[t] = {}
         /\ \A p, q \in Putters : p # q => putting[p] \cap putting[q] = {}
         /\ \A t, u \in Takers : t # u => taking[t] \cap taking[u] = {}

\* A frame in the hands of a taker was popped.
Promised == \A t \in Takers : taking[t] # {} => promised[t] \in 1 .. popped

LInv == TypeInv /\ Exact /\ FramesIntact /\ Promised

\* The two ways to say who owns a block agree.
LEMMA ExactIsMemoryExact == TypeInv /\ Exact => MemoryExact
  <1> SUFFICES ASSUME TypeInv, Exact PROVE MemoryExact
    OBVIOUS
  <1>1. /\ DOMAIN Hands = Putters \cup Takers
        /\ \A p \in Putters : Hands[p] = putting[p]
        /\ \A t \in Takers : Hands[t] = taking[t]
    BY LinkAssumption DEF Hands
  <1>2. Range(pipe) \subseteq Block
    BY ElementOfSeq, LenProperties DEF TypeInv, Range
  <1>3. UNION Range(Hands) = UNION {Hands[h] : h \in Putters \cup Takers}
    BY <1>1 DEF Range
  <1>4. \A b : b \in UNION Range(Hands) <=> \/ \E p \in Putters : b \in putting[p]
                                            \/ \E t \in Takers : b \in taking[t]
    BY <1>1, <1>3
  <1>5. \A p \in Putters : putting[p] \subseteq Block
    BY DEF TypeInv
  <1>6. \A t \in Takers : taking[t] \subseteq Block
    BY DEF TypeInv
  <1>7. allocated = Range(pipe) \cup UNION Range(Hands)
    BY <1>2, <1>4, <1>5, <1>6 DEF TypeInv, Exact
  <1>8. \A h \in DOMAIN Hands : Range(pipe) \cap Hands[h] = {}
    BY <1>1 DEF Exact
  <1>9. \A h, k \in DOMAIN Hands : h # k => Hands[h] \cap Hands[k] = {}
    BY <1>1 DEF Exact
  <1> QED
    BY <1>7, <1>8, <1>9 DEF MemoryExact, Exact

-----------------------------------------------------------------------------
(* Each action of the link keeps the invariant. *)

\* The blocks in the pipe, and their number.
LEMMA PipeFacts ==
  ASSUME TypeInv
  PROVE  /\ Len(pipe) \in Nat /\ DOMAIN pipe = 1 .. Len(pipe)
         /\ \A i \in 1 .. Len(pipe) : pipe[i] \in Range(pipe) /\ pipe[i] \in Block
         /\ Len(pushed) \in Nat
  BY LenProperties, ElementOfSeq DEF TypeInv, Range

\* A block that was free is filled: nobody else holds it.
LEMMA AllocateKeeps ==
  ASSUME LInv, NEW p \in Putters, NEW b \in Block, NEW f, Allocate(p, b, f)
  PROVE  LInv'
  <1> USE DEF Allocate
  <1>1. TypeInv /\ Exact /\ FramesIntact /\ Promised
    BY DEF LInv
  <1>2. /\ allocated' = allocated \cup {b} /\ putting' = [putting EXCEPT ![p] = {b}]
        /\ putting[p] = {} /\ b \notin allocated
        /\ UNCHANGED <<pipe, taking, promised, pushed, popped>>
    OBVIOUS
  <1>3. data' = [x \in Block |-> IF x = b THEN f ELSE data[x]]
    BY <1>1 DEF TypeInv
  <1>4. /\ putting' \in [Putters -> SUBSET Block] /\ putting'[p] = {b}
        /\ \A q \in Putters : q # p => putting'[q] = putting[q]
    BY <1>1, <1>2 DEF TypeInv
  <1>5. TypeInv'
    <2>1. \A q \in Putters : AtMostOne(putting'[q])
      BY <1>1, <1>4 DEF TypeInv, AtMostOne
    <2>2. data' = [x \in Block |-> data'[x]]
      BY <1>3
    <2> QED
      BY <1>1, <1>2, <1>4, <2>1, <2>2 DEF TypeInv
  <1>6. /\ b \notin Range(pipe)
        /\ \A q \in Putters : b \notin putting[q]
        /\ \A t \in Takers : b \notin taking[t]
    BY <1>1, <1>2 DEF Exact
  <1>7. Exact'
    BY <1>1, <1>2, <1>4, <1>6 DEF Exact
  <1>8. FramesIntact'
    <2>1. \A i \in DOMAIN pipe : pipe[i] # b /\ pipe[i] \in Block
      BY <1>1, <1>6, PipeFacts DEF Range
    <2>2. \A t \in Takers : \A x \in taking[t] : x # b /\ x \in Block
      BY <1>1, <1>6 DEF TypeInv
    <2> QED
      BY <1>1, <1>2, <1>3, <2>1, <2>2 DEF FramesIntact
  <1>9. Promised'
    BY <1>1, <1>2 DEF Promised
  <1> QED
    BY <1>5, <1>7, <1>8, <1>9 DEF LInv

\* The block goes from the hands of the putter to the end of the pipe.
LEMMA PushKeeps ==
  ASSUME LInv, NEW p \in Putters, Push(p)
  PROVE  LInv'
  <1>1. TypeInv /\ Exact /\ FramesIntact /\ Promised
    BY DEF LInv
  <1>2. PICK b \in putting[p] : pipe' = Append(pipe, b) /\ pushed' = Append(pushed, data[b])
    BY DEF Push
  <1>3. /\ putting' = [putting EXCEPT ![p] = {}]
        /\ UNCHANGED <<allocated, data, taking, promised, popped>>
    BY DEF Push
  <1>4. putting[p] = {b} /\ b \in Block
    BY <1>1 DEF TypeInv, AtMostOne
  <1>5. /\ putting' \in [Putters -> SUBSET Block] /\ putting'[p] = {}
        /\ \A q \in Putters : q # p => putting'[q] = putting[q]
    BY <1>1, <1>3 DEF TypeInv
  <1>6. /\ pipe' \in Seq(Block) /\ Range(pipe') = Range(pipe) \cup {b} /\ IsInjective(pipe')
        /\ Len(pipe') = Len(pipe) + 1 /\ DOMAIN pipe' = 1 .. Len(pipe) + 1
        /\ \A i \in 1 .. Len(pipe) : pipe'[i] = pipe[i]
        /\ pipe'[Len(pipe) + 1] = b
    <2>1. pipe \in Seq(Block) /\ IsInjective(pipe) /\ b \notin Range(pipe)
      BY <1>1, <1>4 DEF TypeInv, Exact
    <2> QED
      BY <1>2, <1>4, <2>1, AppendFresh, AppendProperties, LenProperties
  <1>7. /\ pushed' \in Seq(Range(pushed')) /\ Len(pushed') = Len(pushed) + 1
        /\ \A i \in 1 .. Len(pushed) : pushed'[i] = pushed[i]
        /\ pushed'[Len(pushed) + 1] = data[b]
    <2> DEFINE S == Range(pushed) \cup {data[b]}
    <2>1. pushed \in Seq(S) /\ data[b] \in S
      <3>1. pushed \in Seq(Range(pushed)) /\ Range(pushed) \subseteq S
        BY <1>1 DEF TypeInv
      <3> QED
        BY <3>1
    <2>2. /\ pushed' \in Seq(S) /\ Len(pushed') = Len(pushed) + 1
          /\ \A i \in 1 .. Len(pushed) : pushed'[i] = pushed[i]
          /\ pushed'[Len(pushed) + 1] = data[b]
      <3> HIDE DEF S
      <3> QED
        BY <1>2, <2>1, AppendProperties
    <2>3. pushed' \in Seq(Range(pushed'))
      <3> HIDE DEF S
      <3>1. DOMAIN pushed' = 1 .. Len(pushed') /\ Len(pushed') \in Nat
        BY <2>2, LenProperties
      <3>2. \A i \in 1 .. Len(pushed') : pushed'[i] \in Range(pushed')
        BY <3>1 DEF Range
      <3>3. pushed' = [i \in 1 .. Len(pushed') |-> pushed'[i]]
        BY <2>2, <3>1
      <3> QED
        BY <3>1, <3>2, <3>3, IsASeq
    <2> QED
      BY <2>2, <2>3
  <1>8. TypeInv'
    <2>1. \A q \in Putters : AtMostOne(putting'[q])
      BY <1>1, <1>5 DEF TypeInv, AtMostOne
    <2> QED
      BY <1>1, <1>3, <1>5, <1>6, <1>7, <2>1 DEF TypeInv
  <1>9. Exact'
    BY <1>1, <1>3, <1>4, <1>5, <1>6 DEF Exact
  <1>10. FramesIntact'
    <2>1. /\ popped + Len(pipe) = Len(pushed) /\ Len(pipe) \in Nat /\ Len(pushed) \in Nat
          /\ popped \in Nat /\ \A i \in 1 .. Len(pipe) : data[pipe[i]] = pushed[popped + i]
      BY <1>1, PipeFacts DEF FramesIntact, TypeInv
    <2>2. ASSUME NEW i \in 1 .. Len(pipe) + 1 PROVE data[pipe'[i]] = pushed'[popped + i]
      <3>1. CASE i \in 1 .. Len(pipe)
        BY <1>6, <1>7, <2>1, <3>1
      <3>2. CASE i = Len(pipe) + 1
        BY <1>6, <1>7, <2>1, <3>2
      <3> QED
        BY <2>1, <3>1, <3>2
    <2>3. ASSUME NEW t \in Takers, NEW x \in taking[t] PROVE data[x] = pushed'[promised[t]]
      <3>1. promised[t] \in 1 .. popped
        BY <1>1 DEF Promised
      <3>2. promised[t] \in 1 .. Len(pushed)
        BY <2>1, <3>1
      <3> QED
        BY <1>1, <1>7, <3>2 DEF FramesIntact
    <2> QED
      BY <1>3, <1>6, <1>7, <2>1, <2>2, <2>3 DEF FramesIntact
  <1>11. Promised'
    BY <1>1, <1>3 DEF Promised
  <1> QED
    BY <1>8, <1>9, <1>10, <1>11 DEF LInv

\* The pipe is full: the putter gives its block back.
LEMMA PushFailsKeeps ==
  ASSUME LInv, NEW p \in Putters, PushFails(p)
  PROVE  LInv'
  <1>1. TypeInv /\ Exact /\ FramesIntact /\ Promised
    BY DEF LInv
  <1>2. /\ putting' = [putting EXCEPT ![p] = {}]
        /\ allocated' = allocated \ putting[p]
        /\ data' = [b \in Block |-> IF b \in putting[p] THEN NoFrame ELSE data[b]]
        /\ UNCHANGED <<pipe, taking, promised, pushed, popped>>
    BY DEF PushFails, Deallocate
  <1>3. /\ putting' \in [Putters -> SUBSET Block] /\ putting'[p] = {}
        /\ \A q \in Putters : q # p => putting'[q] = putting[q]
    BY <1>1, <1>2 DEF TypeInv
  <1>4. TypeInv'
    <2>1. \A q \in Putters : AtMostOne(putting'[q])
      BY <1>1, <1>3 DEF TypeInv, AtMostOne
    <2>2. data' = [b \in Block |-> data'[b]]
      BY <1>2
    <2> QED
      BY <1>1, <1>2, <1>3, <2>1, <2>2 DEF TypeInv
  <1>5. Exact'
    BY <1>1, <1>2, <1>3 DEF Exact
  <1>6. FramesIntact'
    <2>1. \A i \in DOMAIN pipe : pipe[i] \notin putting[p] /\ pipe[i] \in Block
      BY <1>1, PipeFacts DEF Exact
    <2>2. \A t \in Takers : \A x \in taking[t] : x \notin putting[p] /\ x \in Block
      BY <1>1 DEF TypeInv, Exact
    <2> QED
      BY <1>1, <1>2, <2>1, <2>2 DEF FramesIntact
  <1>7. Promised'
    BY <1>1, <1>2 DEF Promised
  <1> QED
    BY <1>4, <1>5, <1>6, <1>7 DEF LInv

\* The first block goes from the pipe to the hands of a taker.
LEMMA PopKeeps ==
  ASSUME LInv, NEW t \in Takers, Pop(t)
  PROVE  LInv'
  <1> DEFINE b == pipe[1]
  <1>1. TypeInv /\ Exact /\ FramesIntact /\ Promised
    BY DEF LInv
  <1>2. /\ taking[t] = {} /\ pipe # <<>> /\ taking' = [taking EXCEPT ![t] = {b}]
        /\ promised' = [promised EXCEPT ![t] = popped + 1] /\ popped' = popped + 1
        /\ UNCHANGED <<allocated, data, putting, pushed>>
    BY DEF Pop, First
  <1>3. /\ pipe' \in Seq(Block) /\ Len(pipe') = Len(pipe) - 1 /\ Len(pipe) >= 1
        /\ \A i \in 1 .. Len(pipe') : pipe'[i] = pipe[i + 1]
        /\ IsInjective(pipe')
        /\ Range(pipe') = Range(pipe) \ {b} /\ b \in Range(pipe)
    <2>1. pipe \in Seq(Block) /\ IsInjective(pipe) /\ pipe # <<>>
      BY <1>1, <1>2 DEF TypeInv, Exact
    <2>2. pipe' = SubSeq(pipe, 1, 0) \o SubSeq(pipe, 2, Len(pipe))
      <3>1. 1 - 1 = 0 /\ 1 + 1 = 2
        OBVIOUS
      <3> QED
        BY <3>1, Zenon DEF Pop, First
    <2> DEFINE t0 == pipe'
    <2>3. t0 = SubSeq(pipe, 1, 0) \o SubSeq(pipe, 2, Len(pipe))
      BY <2>2
    <2> HIDE DEF t0
    <2>4. t0 \in Seq(Block) /\ Len(t0) = Len(pipe) - 1 /\ Len(pipe) >= 1 /\ IsInjective(t0)
      BY <2>1, <2>3, DropFirst
    <2>5. Range(t0) = Range(pipe) \ {pipe[1]} /\ pipe[1] \in Range(pipe)
      BY <2>1, <2>3, DropFirst
    <2>6. \A i \in 1 .. Len(t0) : t0[i] = pipe[i + 1]
      BY <2>1, <2>3, DropFirst
    <2> QED
      BY <2>4, <2>5, <2>6 DEF t0
  <1>4. /\ Len(pipe) \in Nat /\ DOMAIN pipe = 1 .. Len(pipe) /\ DOMAIN pipe' = 1 .. Len(pipe')
        /\ b \in Block /\ popped \in Nat
    BY <1>1, <1>3, PipeFacts, LenProperties DEF TypeInv
  <1> HIDE DEF b
  <1>5. /\ taking' \in [Takers -> SUBSET Block] /\ taking'[t] = {b}
        /\ \A u \in Takers : u # t => taking'[u] = taking[u]
    BY <1>1, <1>2, <1>4 DEF TypeInv
  <1>6. /\ promised' \in [Takers -> Nat] /\ promised'[t] = popped + 1
        /\ \A u \in Takers : u # t => promised'[u] = promised[u]
    BY <1>1, <1>2, <1>4 DEF TypeInv
  <1>7. TypeInv'
    <2>1. \A u \in Takers : AtMostOne(taking'[u])
      BY <1>1, <1>5 DEF TypeInv, AtMostOne
    <2> QED
      BY <1>1, <1>2, <1>3, <1>4, <1>5, <1>6, <2>1 DEF TypeInv
  <1>8. Exact'
    <2>1. /\ putting' = putting /\ allocated' = allocated /\ IsInjective(pipe')
          /\ Range(pipe') = Range(pipe) \ {b} /\ b \in Range(pipe) /\ taking[t] = {}
      BY <1>2, <1>3
    <2>2. ASSUME NEW x \in Block
          PROVE  x \in allocated' <=> \/ x \in Range(pipe')
                                      \/ \E p \in Putters : x \in putting'[p]
                                      \/ \E u \in Takers : x \in taking'[u]
      <3>1. x \in allocated <=> \/ x \in Range(pipe)
                                \/ \E p \in Putters : x \in putting[p]
                                \/ \E u \in Takers : x \in taking[u]
        BY <1>1, Zenon DEF Exact
      <3>2. (\E u \in Takers : x \in taking'[u]) <=> (x = b \/ \E u \in Takers : x \in taking[u])
        BY <1>5, <2>1
      <3>3. x \in Range(pipe) <=> (x = b \/ x \in Range(pipe'))
        BY <2>1
      <3> QED
        BY <2>1, <3>1, <3>2, <3>3
    <2>3. \A p \in Putters : Range(pipe) \cap putting[p] = {}
      BY <1>1, Zenon DEF Exact
    <2>4. \A u \in Takers : Range(pipe) \cap taking[u] = {}
      BY <1>1, Zenon DEF Exact
    <2>5. /\ \A p \in Putters, u \in Takers : putting[p] \cap taking[u] = {}
          /\ \A p, q \in Putters : p # q => putting[p] \cap putting[q] = {}
          /\ \A u, v \in Takers : u # v => taking[u] \cap taking[v] = {}
      BY <1>1, Zenon DEF Exact
    <2>6. \A p \in Putters : Range(pipe') \cap putting'[p] = {}
      BY <2>1, <2>3
    <2>7. ASSUME NEW u \in Takers PROVE Range(pipe') \cap taking'[u] = {}
      BY <1>5, <2>1, <2>4
    <2>8. ASSUME NEW p \in Putters, NEW u \in Takers PROVE putting'[p] \cap taking'[u] = {}
      BY <1>5, <2>1, <2>3, <2>5
    <2>9. ASSUME NEW u \in Takers, NEW v \in Takers, u # v PROVE taking'[u] \cap taking'[v] = {}
      <3>1. CASE u = t
        BY <1>5, <2>1, <2>4, <2>9, <3>1
      <3>2. CASE v = t
        BY <1>5, <2>1, <2>4, <2>9, <3>2
      <3>3. CASE u # t /\ v # t
        BY <1>5, <2>5, <2>9, <3>3
      <3> QED
        BY <3>1, <3>2, <3>3
    <2>10. \A p, q \in Putters : p # q => putting'[p] \cap putting'[q] = {}
      BY <2>1, <2>5
    <2> QED
      BY <2>1, <2>2, <2>6, <2>7, <2>8, <2>9, <2>10, Zenon DEF Exact
  <1>9. FramesIntact'
    <2>1. popped + Len(pipe) = Len(pushed) /\ \A i \in DOMAIN pipe : data[pipe[i]] = pushed[popped + i]
      BY <1>1 DEF FramesIntact
    <2>2. popped' + Len(pipe') = Len(pushed)
      <3>1. popped' = popped + 1 /\ Len(pipe') = Len(pipe) - 1
        BY <1>2, <1>3
      <3> QED
        BY <1>4, <2>1, <3>1
    <2>3. ASSUME NEW i \in 1 .. Len(pipe') PROVE data[pipe'[i]] = pushed[popped' + i]
      <3>1. i + 1 \in 1 .. Len(pipe) /\ popped' + i = popped + (i + 1) /\ pipe'[i] = pipe[i + 1]
        BY <1>2, <1>3, <1>4
      <3> QED
        BY <2>1, <3>1
    <2>4. data[b] = pushed[popped + 1]
      BY <1>3, <1>4, <2>1 DEF b
    <2>5. ASSUME NEW u \in Takers, NEW x \in taking'[u] PROVE data[x] = pushed[promised'[u]]
      <3>1. CASE u = t
        BY <1>5, <1>6, <2>4, <2>5, <3>1
      <3>2. CASE u # t
        BY <1>1, <1>5, <1>6, <2>5, <3>2 DEF FramesIntact
      <3> QED
        BY <3>1, <3>2
    <2> QED
      BY <1>2, <1>4, <2>2, <2>3, <2>5 DEF FramesIntact
  <1>10. Promised'
    BY <1>1, <1>2, <1>4, <1>5, <1>6 DEF Promised
  <1> QED
    BY <1>7, <1>8, <1>9, <1>10 DEF LInv

\* The copy is done, or threw: the taker gives its block back.
LEMMA CopiedKeeps ==
  ASSUME LInv, NEW t \in Takers, Copied(t)
  PROVE  LInv'
  <1>1. TypeInv /\ Exact /\ FramesIntact /\ Promised
    BY DEF LInv
  <1>2. /\ taking' = [taking EXCEPT ![t] = {}]
        /\ promised' = [promised EXCEPT ![t] = 0]
        /\ allocated' = allocated \ taking[t]
        /\ data' = [b \in Block |-> IF b \in taking[t] THEN NoFrame ELSE data[b]]
        /\ UNCHANGED <<pipe, putting, pushed, popped>>
    BY DEF Copied, Deallocate
  <1>3. /\ taking' \in [Takers -> SUBSET Block] /\ taking'[t] = {}
        /\ \A u \in Takers : u # t => taking'[u] = taking[u]
        /\ promised' \in [Takers -> Nat]
        /\ \A u \in Takers : u # t => promised'[u] = promised[u]
    BY <1>1, <1>2 DEF TypeInv
  <1>4. TypeInv'
    <2>1. \A u \in Takers : AtMostOne(taking'[u])
      BY <1>1, <1>3 DEF TypeInv, AtMostOne
    <2>2. data' = [b \in Block |-> data'[b]]
      BY <1>2
    <2> QED
      BY <1>1, <1>2, <1>3, <2>1, <2>2 DEF TypeInv
  <1>5. Exact'
    BY <1>1, <1>2, <1>3 DEF Exact
  <1>6. FramesIntact'
    <2>1. \A i \in DOMAIN pipe : pipe[i] \notin taking[t] /\ pipe[i] \in Block
      BY <1>1, PipeFacts DEF Exact
    <2>2. \A u \in Takers : \A x \in taking'[u] : x \in taking[u] /\ x \notin taking[t] /\ x \in Block
                                                 /\ promised'[u] = promised[u]
      BY <1>1, <1>3 DEF TypeInv, Exact
    <2> QED
      BY <1>1, <1>2, <2>1, <2>2 DEF FramesIntact
  <1>7. Promised'
    BY <1>1, <1>2, <1>3 DEF Promised
  <1> QED
    BY <1>4, <1>5, <1>6, <1>7 DEF LInv

\* The destructor frees what is left; nobody holds anything.
LEMMA DrainKeeps ==
  ASSUME LInv, Drain
  PROVE  LInv'
  <1>1. TypeInv /\ Exact /\ FramesIntact /\ Promised
    BY DEF LInv
  <1>2. /\ \A p \in Putters : putting[p] = {}
        /\ \A t \in Takers : taking[t] = {}
        /\ allocated' = allocated \ Range(pipe)
        /\ data' = [b \in Block |-> IF b \in Range(pipe) THEN NoFrame ELSE data[b]]
        /\ pipe' = <<>> /\ popped' = Len(pushed)
        /\ UNCHANGED <<putting, taking, promised, pushed>>
    BY DEF Drain, Deallocate
  <1>3. pipe' \in Seq(Block) /\ Range(pipe') = {} /\ IsInjective(pipe') /\ Len(pipe') = 0
        /\ DOMAIN pipe' = {}
    BY <1>2 DEF Range, IsInjective
  <1>4. Len(pushed) \in Nat
    BY <1>1, PipeFacts
  <1>5. TypeInv'
    <2>1. data' = [b \in Block |-> data'[b]]
      BY <1>2
    <2> QED
      BY <1>1, <1>2, <1>3, <1>4, <2>1 DEF TypeInv
  <1>6. Exact'
    BY <1>1, <1>2, <1>3 DEF Exact
  <1>7. FramesIntact' /\ Promised'
    BY <1>2, <1>3, <1>4 DEF FramesIntact, Promised
  <1> QED
    BY <1>5, <1>6, <1>7 DEF LInv

\* What does not touch the memory of the link keeps the invariant.
LEMMA OtherKeeps ==
  ASSUME LInv, UNCHANGED <<pipe, allocated, data, putting, taking, promised, pushed, popped>>
  PROVE  LInv'
  BY DEF LInv, TypeInv, Exact, FramesIntact, Promised

\* The link's part of the invariant, at the start and after every step.
LEMMA LinkBegins == Init => LInv
  <1> SUFFICES ASSUME Init PROVE LInv
    OBVIOUS
  <1> USE DEF Init, LinkInit
  <1>1. TypeInv
    BY DEF TypeInv, AtMostOne
  <1>2. Range(pipe) = {} /\ DOMAIN pipe = {} /\ Len(pipe) = 0 /\ Len(pushed) = 0 /\ IsInjective(pipe)
    BY DEF Range, IsInjective
  <1>3. Exact
    BY <1>2 DEF Exact
  <1>4. FramesIntact /\ Promised
    BY <1>2 DEF FramesIntact, Promised
  <1> QED
    BY <1>1, <1>3, <1>4 DEF LInv

\* Every step keeps the invariant of the link.
LEMMA LinkStep == LInv /\ [Next]_vars => LInv'
  <1> SUFFICES ASSUME LInv, [Next]_vars PROVE LInv'
    OBVIOUS
  <1> USE DEF linkVars
  <1>1. ASSUME NEW a \in Apps, NEW d \in Descriptors, NEW b \in Block, Put(a, d, b) PROVE LInv'
    BY <1>1, AllocateKeeps DEF Put, Apps
  <1>2. ASSUME NEW a \in Apps, PutTx(a) PROVE LInv'
    BY <1>2, PushKeeps, PushFailsKeeps DEF PutTx, Apps
  <1>3. ASSUME NEW t \in Takers, TakeTx(t) PROVE LInv'
    BY <1>3, PopKeeps, CopiedKeeps DEF TakeTx
  <1>4. ASSUME NEW d \in Depths, Configure(d) PROVE LInv'
    BY <1>4, OtherKeeps DEF Configure, ConfigureLink
  <1>5. CASE Destroy
    BY <1>5, DrainKeeps DEF Destroy
  <1>6. CASE UNCHANGED linkVars
    BY <1>6, OtherKeeps
  <1>7. ASSUME NEW a \in Apps,
               \/ \E q \in Queues, n \in 0 .. MaxBurst : Tx(a, q, n)
               \/ Refuse(a) \/ CountInQueue(a) \/ Count(a) \/ Drop(a) \/ Return(a)
        PROVE  UNCHANGED linkVars
    BY <1>7 DEF Tx, Refuse, CountInQueue, Count, Drop, Return
  <1>8. ASSUME NEW q \in Queues, ConfigureQueue(q) PROVE UNCHANGED linkVars
    BY <1>8 DEF ConfigureQueue
  <1>9. Gone \/ UNCHANGED vars => UNCHANGED linkVars
    BY DEF Gone, vars
  <1> HIDE DEF linkVars
  <1> QED
    BY <1>1, <1>2, <1>3, <1>4, <1>5, <1>6, <1>7, <1>8, <1>9 DEF Next

-----------------------------------------------------------------------------
(* Gathering a chain. *)

\* The walk along a chain, one step at a time.
LEMMA NthSteps ==
  ASSUME NEW b \in Buffers \cup {Null}
  PROVE  /\ Nth(b, 0) = b
         /\ \A m \in Nat : Nth(b, m) \in Buffers \cup {Null}
         /\ \A m \in Nat : Nth(b, m + 1) = IF Nth(b, m) = Null THEN Null ELSE Heap[Nth(b, m)].next
  <1> DEFINE S == Buffers \cup {Null}
             next == [x \in S |-> IF x = Null THEN Null ELSE Heap[x].next]
             Walk(s) == [j \in Nat |-> IF j = 0 THEN b
                                       ELSE IF s[j - 1] = Null THEN Null ELSE Heap[s[j - 1]].next]
  <1>1. next \in [S -> S]
    BY TxPathAssumption
  <1>2. PICK s \in [Nat -> S] : s[0] = b /\ \A n \in Nat : s[n + 1] = next[s[n]]
    <2> HIDE DEF next, S
    <2> QED
      BY <1>1, Iteration DEF S
  <1>3. s = Walk(s)
    <2>1. ASSUME NEW j \in Nat, j # 0
          PROVE  s[j] = IF s[j - 1] = Null THEN Null ELSE Heap[s[j - 1]].next
      <3>1. j - 1 \in Nat /\ (j - 1) + 1 = j
        BY <2>1
      <3>2. s[(j - 1) + 1] = next[s[j - 1]] /\ s[j - 1] \in S
        BY <1>2, <3>1
      <3> QED
        BY <3>1, <3>2
    <2>2. \A j \in Nat : s[j] = IF j = 0 THEN b
                                ELSE IF s[j - 1] = Null THEN Null ELSE Heap[s[j - 1]].next
      BY <1>2, <2>1
    <2> QED
      BY <2>2
  <1> DEFINE t == CHOOSE w : w = Walk(w)
  <1>4. t = Walk(t)
    BY <1>3
  <1>5. \A m : Nth(b, m) = t[m]
    BY DEF Nth
  <1> HIDE DEF t
  <1>6. t[0] = b
    BY <1>4
  <1>7. ASSUME NEW m \in Nat PROVE t[m + 1] = IF t[m] = Null THEN Null ELSE Heap[t[m]].next
    <2>1. m + 1 \in Nat /\ m + 1 # 0 /\ (m + 1) - 1 = m
      OBVIOUS
    <2>2. t[m + 1] = IF t[(m + 1) - 1] = Null THEN Null ELSE Heap[t[(m + 1) - 1]].next
      BY <1>4, <2>1
    <2> QED
      BY <2>1, <2>2
  <1>8. \A m \in Nat : t[m] \in S
    <2> DEFINE T == {m \in Nat : t[m] \in S}
    <2>1. 0 \in T
      BY <1>6
    <2>2. ASSUME NEW m \in Nat, m \in T PROVE m + 1 \in T
      <3>1. t[m] \in S /\ t[m + 1] = IF t[m] = Null THEN Null ELSE Heap[t[m]].next
        BY <1>7, <2>2
      <3>2. t[m] # Null => Heap[t[m]].next \in S
        BY <3>1, TxPathAssumption
      <3> QED
        BY <3>1, <3>2
    <2> HIDE DEF T
    <2>3. Nat \subseteq T
      BY <2>1, <2>2, NumberInduction
    <2> QED
      BY <2>3 DEF T
  <1> QED
    BY <1>5, <1>6, <1>7, <1>8

\* What put() gathers is the whole chain, when it ends within kMaxSegments.
LEMMA GatherIsChain ==
  ASSUME NEW b \in Buffers, Ends(b) # {}
  PROVE  \E p \in Chains(b) : Gather(b) = Joined([m \in DOMAIN p |-> Heap[p[m]].bytes])
  <1> DEFINE n == Segments(b)
             p == [m \in 1 .. n |-> Nth(b, m - 1)]
  <1>1. Ends(b) \subseteq Nat /\ MaxSegments \in Nat
    BY TxPathAssumption DEF Ends
  <1>2. n \in Ends(b) /\ \A m \in Ends(b) : n <= m
    <2>1. \E k \in Ends(b) : \A m \in Ends(b) : k <= m
      BY <1>1, LeastNumber
    <2> QED
      BY <2>1 DEF Segments, Min
  <1> HIDE DEF n
  <1>3. n \in 1 .. MaxSegments /\ n \in Nat /\ Nth(b, n) = Null
    BY <1>2 DEF Ends
  <1>4. \A m \in Nat : m < n => Nth(b, m) \in Buffers
    <2> SUFFICES ASSUME NEW m \in Nat, m < n, Nth(b, m) = Null PROVE FALSE
      BY NthSteps
    <2>1. m # 0
      BY NthSteps, TxPathAssumption
    <2>2. m \in Ends(b)
      BY <1>1, <1>3, <2>1 DEF Ends
    <2> QED
      BY <1>2, <1>3, <2>2
  <1>5. p \in [1 .. n -> Buffers]
    <2> SUFFICES ASSUME NEW m \in 1 .. n PROVE Nth(b, m - 1) \in Buffers
      OBVIOUS
    <2>1. m - 1 \in Nat /\ m - 1 < n
      BY <1>3
    <2> QED
      BY <1>4, <2>1
  <1>6. p[1] = b /\ DOMAIN p = 1 .. n /\ Len(p) = n
    <2>1. p[1] = Nth(b, 0)
      BY <1>3
    <2>2. p \in Seq(Buffers) /\ DOMAIN p = 1 .. n
      BY <1>3, <1>5
    <2> QED
      BY <1>3, <2>1, <2>2, NthSteps, LenProperties
  <1>7. ASSUME NEW m \in 1 .. n PROVE Heap[p[m]].next = Nth(b, m)
    <2>1. m - 1 \in Nat /\ (m - 1) + 1 = m /\ p[m] = Nth(b, m - 1) /\ Nth(b, m - 1) # Null
      BY <1>3, <1>5, TxPathAssumption
    <2>2. Nth(b, (m - 1) + 1) = IF Nth(b, m - 1) = Null THEN Null ELSE Heap[Nth(b, m - 1)].next
      BY <2>1, NthSteps
    <2> QED
      BY <2>1, <2>2
  <1>8. \A j \in 1 .. n - 1 : Heap[p[j]].next = p[j + 1]
    <2> SUFFICES ASSUME NEW j \in 1 .. n - 1 PROVE Heap[p[j]].next = p[j + 1]
      OBVIOUS
    <2>1. j \in 1 .. n /\ j + 1 \in 1 .. n /\ (j + 1) - 1 = j
      BY <1>3
    <2> QED
      BY <1>7, <2>1
  <1>9. Heap[p[n]].next = Null
    BY <1>3, <1>7
  <1>10. Gather(b) = Joined([m \in DOMAIN p |-> Heap[p[m]].bytes])
    <2>1. [m \in 1 .. n |-> Heap[Nth(b, m - 1)].bytes] = [m \in DOMAIN p |-> Heap[p[m]].bytes]
      BY <1>6
    <2> QED
      BY <2>1 DEF Gather, n
  <1> HIDE DEF p
  <1>11. p \in Chains(b)
    BY <1>3, <1>5, <1>6, <1>8, <1>9 DEF Chains
  <1> QED
    BY <1>10, <1>11

-----------------------------------------------------------------------------
(* The calls and what they have put on the wire. *)

Counters == [packets : Nat, bytes : Nat, dropped : Nat]

CallType == [at : {"idle", "next", "push", "pushed", "refused", "count", "drop"},
             number : Nat, queue : Queues \cup {Null}, size : 0 .. MaxBurst, i : Nat \ {0},
             desc : Descriptors \cup {NoDesc}]

TxTypeInv == /\ call \in [Apps -> CallType]
             /\ calls \in 0 .. MaxCalls
             /\ results \in [1 .. MaxCalls -> Nat]
             /\ stats \in Counters /\ qstats \in [Queues -> Counters] /\ replaced \in Counters

\* The frame put() makes of a descriptor that passed its checks.
FrameOf(c) == [number |-> c.number, i |-> c.i, desc |-> c.desc, bytes |-> Gather(c.desc.buffer)]

Gathered(d) == /\ d \in Descriptors /\ d.buffer # Null /\ Ends(d.buffer) # {}
               /\ Len(Gather(d.buffer)) = d.totalLength /\ d.totalLength > 0

\* A call under way has a number of its own and no result, is inside its burst
\* and has the current frame in hand exactly between the copy and the push.
CallInv ==
    /\ \A a \in Apps : call[a].at # "idle" =>
          /\ call[a].number \in 1 .. calls /\ call[a].queue \in Queues
          /\ results[call[a].number] = Pending
          /\ call[a].i <= IF call[a].at = "next" THEN call[a].size + 1 ELSE call[a].size
    /\ \A a, b \in Apps : call[a].at # "idle" /\ call[b].at # "idle" /\ a # b =>
          call[a].number # call[b].number
    /\ \A c \in 1 .. MaxCalls : c > calls => results[c] = Pending
    /\ \A a \in Apps : call[a].at \in {"push", "pushed", "count"} => Gathered(call[a].desc)
    /\ \A a \in Apps : call[a].at # "push" => putting[a] = {}
    /\ \A a \in Apps : call[a].at = "push" => \A b \in putting[a] : data[b] = FrameOf(call[a])

\* What is on the wire was sent by a call and gathered whole.
WireInv == \A j \in DOMAIN pushed : /\ pushed[j].number \in 1 .. calls
                                    /\ pushed[j].i \in Nat
                                    /\ Gathered(pushed[j].desc)
                                    /\ pushed[j].bytes = Gather(pushed[j].desc.buffer)

TxInv == LInv /\ TxTypeInv /\ CallInv /\ WireInv

\* The assumptions about numbers.
LEMMA Bounds == /\ MaxBurst \in Nat \ {0} /\ MaxCalls \in Nat \ {0} /\ MaxSegments \in Nat \ {0}
                /\ Failure \in Nat /\ Pending \in Nat /\ Failure # Pending
                /\ \A n \in 0 .. MaxBurst : n # Failure /\ n # Pending
  BY TxPathAssumption DEF Failure, Pending

\* A call is a record of the listed kind.
LEMMA CallFields ==
  ASSUME TxTypeInv, NEW a \in Apps
  PROVE  /\ call[a] \in CallType
         /\ call[a].number \in Nat /\ call[a].size \in 0 .. MaxBurst /\ call[a].i \in Nat \ {0}
         /\ call[a].desc.totalLength \in Nat
  <1>1. call[a] \in CallType
    BY DEF TxTypeInv
  <1>2. NoDesc.totalLength = 0
    BY DEF NoDesc
  <1>3. \A d \in Descriptors : d.totalLength \in Nat
    BY TxPathAssumption
  <1> QED
    BY <1>1, <1>2, <1>3 DEF CallType

\* The initial state.
LEMMA TxInit == Init => TxTypeInv /\ CallInv /\ WireInv
  <1> SUFFICES ASSUME Init PROVE TxTypeInv /\ CallInv /\ WireInv
    OBVIOUS
  <1>1. \A a \in Apps : call[a] = Idle /\ call[a].at = "idle"
    BY DEF Init, Idle
  <1>2. Idle \in CallType
    BY Bounds DEF Idle, CallType
  <1>3. TxTypeInv
    BY <1>2, Bounds DEF Init, TxTypeInv, Counters, Zero
  <1>4. CallInv
    BY <1>1, Bounds DEF Init, LinkInit, CallInv, Apps
  <1>5. WireInv
    BY DEF Init, LinkInit, WireInv
  <1> QED
    BY <1>3, <1>4, <1>5

\* A step of one call, to r, that leaves the frames of the others alone.
Moves(a, r) ==
    /\ call' = [call EXCEPT ![a] = r]
    /\ calls' \in Nat /\ calls <= calls'
    /\ r.at # "idle" => /\ r.number \in 1 .. calls' /\ r.queue \in Queues
                        /\ results'[r.number] = Pending
                        /\ r.i <= IF r.at = "next" THEN r.size + 1 ELSE r.size
                        /\ \A b \in Apps : call[b].at # "idle" /\ b # a => call[b].number # r.number
    /\ \A c \in 1 .. MaxCalls : c > calls' => results'[c] = Pending
    /\ \A b \in Apps : call[b].at # "idle" /\ b # a => results'[call[b].number] = Pending
    /\ r.at \in {"push", "pushed", "count"} => Gathered(r.desc)
    /\ r.at # "push" => putting'[a] = {}
    /\ r.at = "push" => \A x \in putting'[a] : data'[x] = FrameOf(r)
    /\ \A b \in Apps : b # a => /\ putting'[b] = putting[b]
                                /\ \A x \in putting[b] : data'[x] = data[x]

\* The numbers given out remain given out.
LEMMA NumbersStay ==
  ASSUME NEW m \in Nat, NEW n \in Nat, m <= n
  PROVE  \A k \in 1 .. m : k \in 1 .. n
  OBVIOUS

\* Such a step keeps the calls apart and each frame in its hand.
LEMMA CallMoves ==
  ASSUME TxTypeInv, CallInv, NEW a \in Apps, NEW r, Moves(a, r)
  PROVE  CallInv'
  <1> USE DEF Moves
  <1>1. call'[a] = r /\ \A b \in Apps : b # a => call'[b] = call[b]
    BY DEF TxTypeInv
  <1>2. ASSUME NEW b \in Apps, call'[b].at # "idle"
        PROVE  /\ call'[b].number \in 1 .. calls' /\ call'[b].queue \in Queues
               /\ results'[call'[b].number] = Pending
               /\ call'[b].i <= IF call'[b].at = "next" THEN call'[b].size + 1 ELSE call'[b].size
    <2>1. CASE b = a
      BY <1>1, <1>2, <2>1
    <2>2. CASE b # a
      <3>1. /\ call'[b] = call[b] /\ call[b].number \in 1 .. calls /\ call[b].queue \in Queues
            /\ results'[call[b].number] = Pending
            /\ call[b].i <= IF call[b].at = "next" THEN call[b].size + 1 ELSE call[b].size
        BY <1>1, <1>2, <2>2 DEF CallInv
      <3>2. calls \in 0 .. MaxCalls /\ calls' \in Nat /\ calls <= calls'
        BY Zenon DEF TxTypeInv
      <3> HIDE DEF Moves
      <3>3. \A k \in 1 .. calls : k \in 1 .. calls'
        BY <3>2, NumbersStay, Bounds
      <3>4. call[b].number \in 1 .. calls'
        BY <3>1, <3>3
      <3> QED
        BY <3>1, <3>4
    <2> QED
      BY <2>1, <2>2
  <1>3. ASSUME NEW b \in Apps, NEW c \in Apps, call'[b].at # "idle", call'[c].at # "idle", b # c
        PROVE  call'[b].number # call'[c].number
    <2>0. r.at # "idle" =>
             \A d \in Apps : call[d].at # "idle" /\ d # a => call[d].number # r.number
      BY Zenon
    <2>1. CASE b = a
      <3>1. call'[b] = r /\ call'[c] = call[c] /\ c # a
        BY <1>1, <1>3, <2>1
      <3> HIDE DEF Moves
      <3> QED
        BY <1>3, <2>0, <3>1
    <2>2. CASE c = a
      <3>1. call'[c] = r /\ call'[b] = call[b] /\ b # a
        BY <1>1, <1>3, <2>2
      <3> HIDE DEF Moves
      <3> QED
        BY <1>3, <2>0, <3>1
    <2>3. CASE b # a /\ c # a
      <3>1. /\ call'[b] = call[b] /\ call'[c] = call[c]
            /\ call[b].at # "idle" /\ call[c].at # "idle"
        BY <1>1, <1>3, <2>3
      <3>2. call[b].number # call[c].number
        BY <1>3, <3>1, Zenon DEF CallInv
      <3> QED
        BY <3>1, <3>2
    <2> QED
      BY <2>1, <2>2, <2>3
  <1>4. ASSUME NEW b \in Apps, call'[b].at \in {"push", "pushed", "count"} PROVE Gathered(call'[b].desc)
    BY <1>1, <1>4 DEF CallInv
  <1>5. ASSUME NEW b \in Apps, call'[b].at # "push" PROVE putting'[b] = {}
    BY <1>1, <1>5 DEF CallInv
  <1>6. ASSUME NEW b \in Apps, call'[b].at = "push", NEW x \in putting'[b]
        PROVE  data'[x] = FrameOf(call'[b])
    <2>1. CASE b = a
      BY <1>1, <1>6, <2>1
    <2>2. CASE b # a
      <3>1. /\ call'[b] = call[b] /\ putting'[b] = putting[b] /\ data'[x] = data[x]
            /\ call[b].at = "push" /\ x \in putting[b]
        BY <1>1, <1>6, <2>2
      <3>2. data[x] = FrameOf(call[b])
        BY <3>1, Zenon DEF CallInv
      <3> QED
        BY <3>1, <3>2
    <2> QED
      BY <2>1, <2>2
  <1>7. \A b \in Apps : /\ FrameOf(call[b])' = FrameOf(call'[b])
                        /\ Gathered(call[b].desc)' <=> Gathered(call'[b].desc)
    BY DEF FrameOf, Gathered, Gather, Nth, Segments, Ends
  <1> QED
    BY <1>2, <1>3, <1>4, <1>5, <1>6, <1>7 DEF CallInv

\* A step that changes neither calls nor results nor the frames in hand.
LEMMA CallsRest ==
  ASSUME CallInv, UNCHANGED <<call, calls, results, putting>>,
         \A a \in Apps : \A x \in putting[a] : data'[x] = data[x]
  PROVE  CallInv'
  <1>1. ASSUME NEW a \in Apps
        PROVE  /\ FrameOf(call[a])' = FrameOf(call[a])
               /\ Gathered(call[a].desc)' <=> Gathered(call[a].desc)
    <2>1. call'[a] = call[a]
      OBVIOUS
    <2>2. Gather(call[a].desc.buffer)' = Gather(call[a].desc.buffer)
      BY <2>1 DEF Gather, Nth, Segments, Ends
    <2>3. Ends(call[a].desc.buffer)' = Ends(call[a].desc.buffer)
      BY <2>1 DEF Ends
    <2> QED
      BY <2>1, <2>2, <2>3 DEF FrameOf, Gathered
  <1> QED
    BY <1>1 DEF CallInv

\* The frames in hand survive a step that frees other blocks.
LEMMA HandsSurvive ==
  ASSUME LInv, NEW bs, Deallocate(bs), NEW a \in Apps, bs \cap putting[a] = {}
  PROVE  \A x \in putting[a] : data'[x] = data[x]
  BY DEF LInv, TypeInv, Deallocate, Apps

\* Nothing new on the wire.
LEMMA WireRests ==
  ASSUME WireInv, pushed' = pushed, calls \in Nat, calls' \in Nat, calls <= calls'
  PROVE  WireInv'
  <1>1. ASSUME NEW j \in DOMAIN pushed
        PROVE  /\ pushed'[j] = pushed[j]
               /\ Gathered(pushed[j].desc)' <=> Gathered(pushed[j].desc)
               /\ Gather(pushed[j].desc.buffer)' = Gather(pushed[j].desc.buffer)
    BY DEF Gathered, Gather, Nth, Segments, Ends
  <1>2. \A j \in DOMAIN pushed : pushed[j].number \in 1 .. calls'
    BY DEF WireInv
  <1> QED
    BY <1>1, <1>2 DEF WireInv

\* A counter after one more.
LEMMA CountersGrow ==
  ASSUME NEW s \in Counters, NEW n \in Nat
  PROVE  Counted(s, n) \in Counters /\ Dropped(s) \in Counters
  <1>1. s.packets + 1 \in Nat /\ s.bytes + n \in Nat /\ s.dropped + 1 \in Nat
    BY DEF Counters
  <1>2. \A p, b, d \in Nat : /\ [s EXCEPT !.packets = p, !.bytes = b] \in Counters
                             /\ [s EXCEPT !.dropped = d] \in Counters
    BY DEF Counters
  <1>3. /\ Counted(s, n) = [s EXCEPT !.packets = s.packets + 1, !.bytes = s.bytes + n]
        /\ Dropped(s) = [s EXCEPT !.dropped = s.dropped + 1]
    BY DEF Counted, Dropped
  <1> QED
    BY <1>1, <1>2, <1>3

\* tx() begins.
LEMMA TxBegins ==
  ASSUME TxInv, NEW a \in Apps, NEW q \in Queues, NEW n \in 0 .. MaxBurst, Tx(a, q, n)
  PROVE  TxTypeInv' /\ CallInv' /\ WireInv'
  <1> DEFINE r == [Idle EXCEPT !.at = "next", !.number = calls + 1, !.queue = q, !.size = n]
  <1>1. /\ call' = [call EXCEPT ![a] = r] /\ calls' = calls + 1 /\ calls < MaxCalls
        /\ call[a].at = "idle"
        /\ UNCHANGED <<linkVars, linked, results, stats, qstats, replaced>>
    BY DEF Tx
  <1>2. /\ r.at = "next" /\ r.number = calls + 1 /\ r.queue = q /\ r.size = n /\ r.i = 1
        /\ r.desc = NoDesc
    BY DEF Idle
  <1>3. calls \in Nat /\ calls' \in 0 .. MaxCalls
    BY <1>1, Bounds DEF TxInv, TxTypeInv
  <1>4. r \in CallType
    <2>1. Idle \in CallType
      BY Bounds DEF Idle, CallType
    <2>2. calls + 1 \in Nat
      BY <1>3
    <2> QED
      BY <2>1, <2>2 DEF CallType
  <1> HIDE DEF r
  <1>5. TxTypeInv'
    BY <1>1, <1>3, <1>4 DEF TxInv, TxTypeInv
  <1>6. putting' = putting /\ data' = data /\ pushed' = pushed
    BY <1>1 DEF linkVars
  <1>7. results[calls + 1] = Pending /\ calls + 1 \in 1 .. MaxCalls
    <2>1. \A c \in 1 .. MaxCalls : c > calls => results[c] = Pending
      BY Zenon DEF TxInv, CallInv
    <2>2. calls + 1 \in 1 .. MaxCalls /\ calls + 1 > calls
      BY <1>1, <1>3, Bounds
    <2> QED
      BY <2>1, <2>2
  <1>8. \A b \in Apps : call[b].at # "idle" => call[b].number \in 1 .. calls
    BY DEF TxInv, CallInv
  <1>9. \A c \in 1 .. MaxCalls : c > calls + 1 => results[c] = Pending
    <2>1. \A c \in 1 .. MaxCalls : c > calls => results[c] = Pending
      BY Zenon DEF TxInv, CallInv
    <2>2. \A c \in 1 .. MaxCalls : c > calls + 1 => c > calls
      BY <1>3
    <2> QED
      BY <2>1, <2>2
  <1>10. putting[a] = {} /\ \A b \in Apps : call[b].at # "idle" => results[call[b].number] = Pending
    BY <1>1 DEF TxInv, CallInv
  <1>11. r.i <= r.size + 1 /\ r.number \in 1 .. calls + 1
         /\ \A b \in Apps : call[b].at # "idle" => call[b].number # r.number
    <2>1. 1 <= n + 1 /\ calls + 1 \in 1 .. calls + 1
      BY <1>3
    <2>2. \A k \in 1 .. calls : k # calls + 1
      BY <1>3
    <2>3. r.i <= r.size + 1 /\ r.number \in 1 .. calls + 1
      BY <1>2, <2>1
    <2> QED
      BY <1>2, <1>8, <2>2, <2>3
  <1>12. CallInv'
    <2>1. Moves(a, r)
      <3>1. calls' \in Nat /\ calls <= calls'
        BY <1>1, <1>3
      <3>2. /\ r.number \in 1 .. calls' /\ r.queue \in Queues /\ results'[r.number] = Pending
            /\ r.i <= IF r.at = "next" THEN r.size + 1 ELSE r.size
            /\ \A b \in Apps : call[b].at # "idle" /\ b # a => call[b].number # r.number
        BY <1>1, <1>2, <1>7, <1>11
      <3>3. /\ \A c \in 1 .. MaxCalls : c > calls' => results'[c] = Pending
            /\ \A b \in Apps : call[b].at # "idle" /\ b # a => results'[call[b].number] = Pending
        BY <1>1, <1>9, <1>10
      <3>4. r.at # "push" /\ r.at \notin {"push", "pushed", "count"}
        BY <1>2
      <3> QED
        BY <1>1, <1>6, <1>10, <3>1, <3>2, <3>3, <3>4 DEF Moves
    <2> QED
      BY <2>1, CallMoves DEF TxInv
  <1>13. WireInv'
    BY <1>1, <1>3, <1>6, WireRests DEF TxInv
  <1> QED
    BY <1>5, <1>12, <1>13

\* How many of its descriptors a call has on the wire.
Sent(c) == IF c.at \in {"pushed", "count"} THEN c.i ELSE c.i - 1

\* A later step of a call, to r: its number stays.
Continues(a, r) ==
    /\ call[a].at # "idle" /\ call' = [call EXCEPT ![a] = r] /\ r \in CallType
    /\ UNCHANGED <<calls, results, replaced>>
    /\ r.at # "idle" /\ r.number = call[a].number /\ r.queue = call[a].queue
    /\ r.i <= IF r.at = "next" THEN r.size + 1 ELSE r.size
    /\ r.at \in {"push", "pushed", "count"} => Gathered(r.desc)
    /\ r.at # "push" => putting'[a] = {}
    /\ r.at = "push" => \A x \in putting'[a] : data'[x] = FrameOf(r)
    /\ \A b \in Apps : b # a => /\ putting'[b] = putting[b]
                                /\ \A x \in putting[b] : data'[x] = data[x]
    /\ stats' \in Counters /\ qstats' \in [Queues -> Counters]

\* Such a step keeps the calls in order.
LEMMA CallContinues ==
  ASSUME TxInv, NEW a \in Apps, NEW r, Continues(a, r)
  PROVE  TxTypeInv' /\ CallInv'
  <1> USE DEF Continues
  <1>1. calls \in Nat
    <2>1. calls \in 0 .. MaxCalls
      BY Zenon DEF TxInv, TxTypeInv
    <2> QED
      BY <2>1, Bounds
  <1>2. TxTypeInv'
    BY DEF TxInv, TxTypeInv
  <1>3. /\ r.number \in 1 .. calls /\ r.queue \in Queues /\ results[r.number] = Pending
        /\ \A b \in Apps : call[b].at # "idle" /\ b # a => call[b].number # r.number
    <2>1. /\ call[a].number \in 1 .. calls /\ call[a].queue \in Queues
          /\ results[call[a].number] = Pending
      BY Zenon DEF TxInv, CallInv
    <2>2. \A b \in Apps : call[b].at # "idle" /\ b # a => call[b].number # call[a].number
      BY Zenon DEF TxInv, CallInv
    <2>3. r.number = call[a].number /\ r.queue = call[a].queue
      OBVIOUS
    <2> HIDE DEF Continues
    <2> QED
      BY <2>1, <2>2, <2>3
  <1>4. /\ \A c \in 1 .. MaxCalls : c > calls => results[c] = Pending
        /\ \A b \in Apps : call[b].at # "idle" /\ b # a => results[call[b].number] = Pending
    BY DEF TxInv, CallInv
  <1>5. CallInv'
    <2>1. Moves(a, r)
      <3>1. /\ calls' = calls /\ results' = results
            /\ r.i <= IF r.at = "next" THEN r.size + 1 ELSE r.size
        OBVIOUS
      <3>2. calls' \in Nat /\ calls <= calls'
        <4>1. calls <= calls
          BY <1>1
        <4> QED
          BY <1>1, <3>1, <4>1, Zenon
      <3>3. /\ call' = [call EXCEPT ![a] = r]
            /\ r.at \in {"push", "pushed", "count"} => Gathered(r.desc)
            /\ r.at # "push" => putting'[a] = {}
            /\ r.at = "push" => \A x \in putting'[a] : data'[x] = FrameOf(r)
            /\ \A b \in Apps : b # a => /\ putting'[b] = putting[b]
                                        /\ \A x \in putting[b] : data'[x] = data[x]
        BY Zenon
      <3> HIDE DEF Continues
      <3> QED
        BY <1>3, <1>4, <3>1, <3>2, <3>3, Zenon DEF Moves
    <2> QED
      BY <2>1, CallMoves DEF TxInv
  <1> QED
    BY <1>2, <1>5

\* A call returns with a result.
LEMMA CallEnds ==
  ASSUME TxInv, NEW a \in Apps, NEW n \in Nat, call[a].at # "idle", call[a].at # "push",
         call' = [call EXCEPT ![a] = Idle], results' = [results EXCEPT ![call[a].number] = n],
         UNCHANGED <<linkVars, calls, qstats, replaced>>, stats' \in Counters
  PROVE  TxTypeInv' /\ CallInv' /\ WireInv'
  <1>1. calls \in Nat /\ calls <= MaxCalls /\ MaxCalls \in Nat
    BY Bounds DEF TxInv, TxTypeInv
  <1>2. Idle \in CallType /\ Idle.at = "idle"
    BY Bounds DEF Idle, CallType
  <1>3. putting' = putting /\ data' = data /\ pushed' = pushed
    BY DEF linkVars
  <1>4. call[a].number \in 1 .. calls /\ call[a].number \in 1 .. MaxCalls
    <2>1. call[a].number \in 1 .. calls
      BY Zenon DEF TxInv, CallInv
    <2> QED
      BY <1>1, <2>1
  <1>5. TxTypeInv'
    BY <1>2, <1>4 DEF TxInv, TxTypeInv
  <1>6. \A c \in 1 .. MaxCalls : c # call[a].number => results'[c] = results[c]
    BY DEF TxInv, TxTypeInv
  <1>7. \A c \in 1 .. MaxCalls : c > calls => results'[c] = Pending
    <2>1. \A c \in 1 .. MaxCalls : c > calls => results[c] = Pending
      BY Zenon DEF TxInv, CallInv
    <2>2. \A c \in 1 .. MaxCalls : c > calls => c # call[a].number
      BY <1>1, <1>4
    <2> QED
      BY <1>6, <2>1, <2>2, Zenon
  <1>8. ASSUME NEW b \in Apps, call[b].at # "idle", b # a PROVE results'[call[b].number] = Pending
    <2>1. /\ call[b].number \in 1 .. calls /\ call[b].number # call[a].number
          /\ results[call[b].number] = Pending
      BY <1>8 DEF TxInv, CallInv
    <2>2. call[b].number \in 1 .. MaxCalls
      BY <1>1, <2>1
    <2> QED
      BY <1>6, <2>1, <2>2
  <1>9. putting[a] = {}
    BY DEF TxInv, CallInv
  <1>10. CallInv'
    <2>1. Moves(a, Idle)
      <3>1. calls' = calls /\ calls' \in Nat /\ calls <= calls'
        BY <1>1
      <3>2. /\ \A c \in 1 .. MaxCalls : c > calls' => results'[c] = Pending
            /\ \A b \in Apps : call[b].at # "idle" /\ b # a => results'[call[b].number] = Pending
        BY <1>7, <1>8, <3>1, Zenon
      <3>3. Idle.at # "push" /\ Idle.at \notin {"push", "pushed", "count"}
        BY <1>2
      <3> QED
        BY <1>2, <1>3, <1>9, <3>1, <3>2, <3>3, Zenon DEF Moves
    <2> QED
      BY <2>1, CallMoves DEF TxInv
  <1>11. WireInv'
    BY <1>1, <1>3, WireRests DEF TxInv
  <1> QED
    BY <1>5, <1>10, <1>11

\* The records the steps of a call write.
LEMMA CallUpdates ==
  ASSUME NEW c \in CallType, NEW d \in Descriptors \cup {NoDesc}, NEW n \in Nat \ {0},
         NEW s \in {"idle", "next", "push", "pushed", "refused", "count", "drop"}
  PROVE  /\ [c EXCEPT !.at = s] \in CallType
         /\ [c EXCEPT !.at = s, !.desc = d] \in CallType
         /\ [c EXCEPT !.at = s, !.i = n, !.desc = d] \in CallType
  BY DEF CallType

\* A step outside the link.
LEMMA StepsOutside ==
  ASSUME TxInv, NEW a \in Apps, NEW r \in CallType,
         call[a].at \notin {"idle", "push"}, r.at \notin {"idle", "push"},
         call' = [call EXCEPT ![a] = r],
         UNCHANGED <<linkVars, calls, results, replaced>>,
         r.number = call[a].number, r.queue = call[a].queue,
         r.i <= IF r.at = "next" THEN r.size + 1 ELSE r.size,
         r.at = "count" => call[a].at = "pushed" /\ r.desc = call[a].desc, r.at # "pushed",
         stats' \in Counters, qstats' \in [Queues -> Counters]
  PROVE  Continues(a, r)
  <1>1. putting' = putting /\ data' = data
    BY DEF linkVars
  <1>2. putting[a] = {} /\ (r.at = "count" => Gathered(r.desc))
    BY DEF TxInv, CallInv
  <1> QED
    BY <1>1, <1>2 DEF Continues

\* put() is refused before the copy.
LEMMA RefuseStep ==
  ASSUME TxInv, NEW a \in Apps, Refuse(a)
  PROVE  \E r : Continues(a, r) /\ Sent(r) = Sent(call[a]) /\ r.at = "refused"
  <1> DEFINE r == [call[a] EXCEPT !.at = "refused"]
  <1>1. /\ call' = [call EXCEPT ![a] = r] /\ call[a].at = "next" /\ call[a].i <= call[a].size
        /\ UNCHANGED <<linkVars, linked, calls, results, stats, qstats, replaced>>
    BY DEF Refuse, More
  <1>2. call[a] \in CallType
    BY CallFields DEF TxInv
  <1>3. r \in CallType /\ r.at = "refused" /\ r.number = call[a].number /\ r.queue = call[a].queue
        /\ r.i = call[a].i /\ r.size = call[a].size /\ r.desc = call[a].desc
    BY <1>2 DEF CallType
  <1> HIDE DEF r
  <1>4. stats' \in Counters /\ qstats' \in [Queues -> Counters]
    BY <1>1 DEF TxInv, TxTypeInv
  <1>5. Continues(a, r)
    BY <1>1, <1>3, <1>4, StepsOutside
  <1> QED
    BY <1>1, <1>3, <1>5 DEF Sent

\* put() counts in the queue.
LEMMA CountInQueueStep ==
  ASSUME TxInv, NEW a \in Apps, CountInQueue(a)
  PROVE  \E r : /\ Continues(a, r) /\ Sent(r) = Sent(call[a]) /\ r.desc = call[a].desc
                /\ \/ call[a].at = "pushed" /\ r.at = "count"
                   \/ call[a].at = "refused" /\ r.at = "drop"
  <1> DEFINE s == IF call[a].at = "pushed" THEN "count" ELSE "drop"
             r == [call[a] EXCEPT !.at = s]
  <1>1. /\ call' = [call EXCEPT ![a] = r] /\ call[a].at \in {"pushed", "refused"}
        /\ UNCHANGED <<linkVars, linked, calls, results, stats, replaced>>
        /\ s \in {"count", "drop"} /\ (s = "count" <=> call[a].at = "pushed")
    BY DEF CountInQueue
  <1> HIDE DEF s
  <1>2. call[a] \in CallType /\ call[a].desc.totalLength \in Nat /\ call[a].queue \in Queues
        /\ call[a].i <= call[a].size
    BY <1>1, CallFields DEF TxInv, CallInv
  <1>3. r \in CallType /\ r.at = s /\ r.number = call[a].number /\ r.queue = call[a].queue
        /\ r.i = call[a].i /\ r.size = call[a].size /\ r.desc = call[a].desc
    BY <1>1, <1>2 DEF CallType
  <1> HIDE DEF r
  <1>4. stats' \in Counters /\ qstats' \in [Queues -> Counters]
    <2>1. qstats \in [Queues -> Counters] /\ stats' \in Counters
      BY <1>1 DEF TxInv, TxTypeInv
    <2>2. PICK x \in Counters : qstats' = [qstats EXCEPT ![call[a].queue] = x]
      BY <1>2, <2>1, CountersGrow DEF CountInQueue
    <2> QED
      BY <2>1, <2>2
  <1>5. Continues(a, r)
    BY <1>1, <1>2, <1>3, <1>4, StepsOutside
  <1>6. Sent(r) = Sent(call[a])
    BY <1>1, <1>3 DEF Sent
  <1> QED
    BY <1>1, <1>3, <1>5, <1>6

\* tx() counts in the port.
LEMMA CountStep ==
  ASSUME TxInv, NEW a \in Apps, Count(a)
  PROVE  \E r : Continues(a, r) /\ Sent(r) = Sent(call[a]) /\ r.at = "next"
  <1>1. call[a] \in CallType /\ call[a].desc.totalLength \in Nat /\ call[a].i \in Nat \ {0}
        /\ call[a].size \in Nat /\ call[a].i <= call[a].size
    BY CallFields, Bounds DEF Count, TxInv, CallInv
  <1>2. PICK n \in Nat \ {0} : n = call[a].i + 1
    BY <1>1
  <1> DEFINE r == [call[a] EXCEPT !.at = "next", !.i = n, !.desc = NoDesc]
  <1>3. /\ call' = [call EXCEPT ![a] = r] /\ call[a].at = "count"
        /\ stats' = Counted(stats, call[a].desc.totalLength)
        /\ UNCHANGED <<linkVars, linked, calls, results, qstats, replaced>>
    BY <1>2 DEF Count
  <1>4. r \in CallType /\ r.at = "next" /\ r.number = call[a].number /\ r.queue = call[a].queue
        /\ r.i = n /\ r.size = call[a].size
    BY <1>1 DEF CallType
  <1> HIDE DEF r
  <1>5. stats' \in Counters /\ qstats' \in [Queues -> Counters]
    BY <1>1, <1>3, CountersGrow DEF TxInv, TxTypeInv
  <1>6. r.i <= r.size + 1 /\ Sent(r) = Sent(call[a])
    <2>1. Sent(r) = r.i - 1 /\ Sent(call[a]) = call[a].i
      BY <1>3, <1>4 DEF Sent
    <2>2. n - 1 = call[a].i /\ n <= call[a].size + 1
      BY <1>1, <1>2
    <2> QED
      BY <1>4, <2>1, <2>2
  <1>7. Continues(a, r)
    BY <1>3, <1>4, <1>5, <1>6, StepsOutside
  <1> QED
    BY <1>4, <1>6, <1>7

\* put() copies the frame into the link's memory.
LEMMA PutStep ==
  ASSUME TxInv, NEW a \in Apps, NEW d \in Descriptors, NEW b \in Block, Put(a, d, b)
  PROVE  \E r : Continues(a, r) /\ Sent(r) = Sent(call[a]) /\ r.at = "push"
  <1> DEFINE r == [call[a] EXCEPT !.at = "push", !.desc = d]
             f == [number |-> call[a].number, i |-> call[a].i, desc |-> d, bytes |-> Gather(d.buffer)]
  <1>1. /\ call' = [call EXCEPT ![a] = r] /\ call[a].at = "next" /\ call[a].i <= call[a].size
        /\ Sendable(call[a].queue, d) /\ Allocate(a, b, f)
        /\ UNCHANGED <<linked, calls, results, stats, qstats, replaced>>
    BY DEF Put, More
  <1>2. call[a] \in CallType
    BY CallFields DEF TxInv
  <1>3. r \in CallType /\ r.at = "push" /\ r.number = call[a].number /\ r.queue = call[a].queue
        /\ r.i = call[a].i /\ r.size = call[a].size /\ r.desc = d
    BY <1>2 DEF CallType
  <1>4. FrameOf(r) = f
    BY <1>3 DEF FrameOf
  <1>5. Gathered(d)
    BY <1>1 DEF Sendable, Gathered
  <1> HIDE DEF r, f
  <1>6. /\ putting'[a] = {b} /\ data'[b] = f
        /\ \A c \in Apps : c # a => /\ putting'[c] = putting[c]
                                    /\ \A x \in putting[c] : data'[x] = data[x]
    <2>1. TypeInv /\ Exact
      BY DEF TxInv, LInv
    <2>2. /\ b \notin allocated /\ data' = [data EXCEPT ![b] = f]
          /\ putting' = [putting EXCEPT ![a] = {b}]
      BY <1>1 DEF Allocate
    <2>3. putting'[a] = {b} /\ \A c \in Apps : c # a => putting'[c] = putting[c]
      BY <2>1, <2>2 DEF TypeInv, Apps
    <2>4. data'[b] = f /\ \A x \in Block : x # b => data'[x] = data[x]
      BY <2>1, <2>2 DEF TypeInv
    <2>5. \A c \in Apps : \A x \in putting[c] : x # b /\ x \in Block
      BY <2>1, <2>2 DEF TypeInv, Exact, Apps
    <2> QED
      BY <2>3, <2>4, <2>5
  <1>7. stats' \in Counters /\ qstats' \in [Queues -> Counters]
    BY <1>1 DEF TxInv, TxTypeInv
  <1>8. Continues(a, r)
    BY <1>1, <1>3, <1>4, <1>5, <1>6, <1>7 DEF Continues
  <1> QED
    BY <1>1, <1>3, <1>8 DEF Sent

\* The pipe is full.
LEMMA PushFailsStep ==
  ASSUME TxInv, NEW a \in Apps, PutTx(a), PushFails(a),
         call' = [call EXCEPT ![a] = [@ EXCEPT !.at = "refused", !.desc = NoDesc]]
  PROVE  \E r : Continues(a, r) /\ Sent(r) = Sent(call[a]) /\ r.at = "refused"
  <1> DEFINE r == [call[a] EXCEPT !.at = "refused", !.desc = NoDesc]
  <1>1. /\ call' = [call EXCEPT ![a] = r] /\ call[a].at = "push"
        /\ UNCHANGED <<linked, calls, results, stats, qstats, replaced>>
        /\ Deallocate(putting[a]) /\ putting' = [putting EXCEPT ![a] = {}]
    BY DEF PutTx, PushFails
  <1>2. call[a] \in CallType /\ call[a].i <= call[a].size
    BY <1>1, CallFields DEF TxInv, CallInv
  <1>3. r \in CallType /\ r.at = "refused" /\ r.number = call[a].number /\ r.queue = call[a].queue
        /\ r.i = call[a].i /\ r.size = call[a].size
    BY <1>2 DEF CallType
  <1> HIDE DEF r
  <1>4. putting'[a] = {} /\ \A c \in Apps : c # a => putting'[c] = putting[c]
    BY <1>1 DEF TxInv, LInv, TypeInv, Apps
  <1>5. ASSUME NEW c \in Apps, c # a PROVE \A x \in putting[c] : data'[x] = data[x]
    <2>1. putting[a] \cap putting[c] = {}
      BY <1>5 DEF TxInv, LInv, Exact, Apps
    <2> QED
      BY <1>1, <2>1, HandsSurvive DEF TxInv
  <1>6. stats' \in Counters /\ qstats' \in [Queues -> Counters]
    BY <1>1 DEF TxInv, TxTypeInv
  <1>7. Continues(a, r)
    BY <1>1, <1>2, <1>3, <1>4, <1>5, <1>6 DEF Continues
  <1> QED
    BY <1>1, <1>3, <1>7 DEF Sent

\* The frame is pushed.
LEMMA PushStep ==
  ASSUME TxInv, NEW a \in Apps, PutTx(a), Push(a), call' = [call EXCEPT ![a].at = "pushed"]
  PROVE  /\ \E r : Continues(a, r) /\ r.at = "pushed" /\ r.i = call[a].i /\ r.desc = call[a].desc
         /\ call[a].at = "push" /\ Gathered(call[a].desc)
         /\ pushed' = Append(pushed, FrameOf(call[a]))
  <1> DEFINE r == [call[a] EXCEPT !.at = "pushed"]
  <1>1. /\ call' = [call EXCEPT ![a] = r] /\ call[a].at = "push"
        /\ UNCHANGED <<linked, calls, results, stats, qstats, replaced>>
        /\ data' = data /\ putting' = [putting EXCEPT ![a] = {}]
    BY DEF PutTx, Push
  <1>2. call[a] \in CallType /\ call[a].i <= call[a].size /\ Gathered(call[a].desc)
    BY <1>1, CallFields DEF TxInv, CallInv
  <1>3. r \in CallType /\ r.at = "pushed" /\ r.number = call[a].number /\ r.queue = call[a].queue
        /\ r.i = call[a].i /\ r.size = call[a].size /\ r.desc = call[a].desc
    BY <1>2 DEF CallType
  <1> HIDE DEF r
  <1>4. putting'[a] = {} /\ \A c \in Apps : c # a => putting'[c] = putting[c]
    BY <1>1 DEF TxInv, LInv, TypeInv, Apps
  <1>5. stats' \in Counters /\ qstats' \in [Queues -> Counters]
    BY <1>1 DEF TxInv, TxTypeInv
  <1>6. Continues(a, r)
    BY <1>1, <1>2, <1>3, <1>4, <1>5 DEF Continues
  <1>7. PICK b \in putting[a] : pushed' = Append(pushed, data[b])
    BY DEF Push
  <1>8. data[b] = FrameOf(call[a])
    BY <1>1, <1>7 DEF TxInv, CallInv
  <1> QED
    BY <1>1, <1>2, <1>3, <1>6, <1>7, <1>8

\* One more frame on the wire.
LEMMA WireGrows ==
  ASSUME TxInv, NEW a \in Apps, call[a].at = "push", Gathered(call[a].desc), calls' = calls,
         pushed' = Append(pushed, FrameOf(call[a]))
  PROVE  /\ WireInv'
         /\ Len(pushed) \in Nat /\ DOMAIN pushed = 1 .. Len(pushed)
         /\ Len(pushed') = Len(pushed) + 1 /\ DOMAIN pushed' = 1 .. Len(pushed) + 1
         /\ \A j \in 1 .. Len(pushed) : pushed'[j] = pushed[j]
         /\ pushed'[Len(pushed) + 1] = FrameOf(call[a])
  <1> DEFINE f == FrameOf(call[a])
             S == Range(pushed) \cup {f}
  <1>1. f.number = call[a].number /\ f.i = call[a].i /\ f.desc = call[a].desc
        /\ f.bytes = Gather(call[a].desc.buffer)
    BY DEF FrameOf
  <1>2. f.number \in 1 .. calls /\ f.i \in Nat
    BY <1>1, CallFields DEF TxInv, CallInv
  <1>3. pushed \in Seq(S) /\ f \in S
    <2>1. pushed \in Seq(Range(pushed)) /\ Range(pushed) \subseteq S
      BY DEF TxInv, LInv, TypeInv
    <2> QED
      BY <2>1
  <1>4. pushed' = Append(pushed, f)
    OBVIOUS
  <1> HIDE DEF f, S
  <1>5. /\ Len(pushed) \in Nat /\ DOMAIN pushed = 1 .. Len(pushed)
        /\ pushed' \in Seq(S) /\ Len(pushed') = Len(pushed) + 1 /\ DOMAIN pushed' = 1 .. Len(pushed) + 1
        /\ \A j \in 1 .. Len(pushed) : pushed'[j] = pushed[j]
        /\ pushed'[Len(pushed) + 1] = f
    BY <1>3, <1>4, AppendProperties, LenProperties
  <1>6. ASSUME NEW j \in DOMAIN pushed'
        PROVE  /\ pushed'[j].number \in 1 .. calls /\ pushed'[j].i \in Nat
               /\ Gathered(pushed'[j].desc) /\ pushed'[j].bytes = Gather(pushed'[j].desc.buffer)
    <2>1. CASE j \in 1 .. Len(pushed)
      BY <1>5, <2>1 DEF TxInv, WireInv
    <2>2. CASE j = Len(pushed) + 1
      BY <1>1, <1>2, <1>5, <2>2
    <2>3. \A m \in Nat : \A k \in 1 .. m + 1 : k \in 1 .. m \/ k = m + 1
      OBVIOUS
    <2>4. Len(pushed) \in Nat /\ j \in 1 .. Len(pushed) + 1
      BY <1>5
    <2>5. j \in 1 .. Len(pushed) \/ j = Len(pushed) + 1
      BY <2>3, <2>4
    <2> QED
      BY <2>1, <2>2, <2>5
  <1>7. WireInv'
    <2>1. \A j : /\ Gathered(pushed[j].desc)' <=> Gathered(pushed'[j].desc)
                 /\ Gather(pushed[j].desc.buffer)' = Gather(pushed'[j].desc.buffer)
      BY DEF Gathered, Gather, Nth, Segments, Ends
    <2> QED
      BY <1>6, <2>1 DEF WireInv
  <1> QED
    BY <1>5, <1>7 DEF f

\* The sum of a counter over the queues.
LEMMA SumType ==
  ASSUME TxTypeInv
  PROVE  Sum("packets") \in Nat /\ Sum("bytes") \in Nat /\ Sum("dropped") \in Nat
  <1>1. IsFiniteSet(Queues)
    BY TxPathAssumption
  <1>2. ASSUME NEW f, \A q \in Queues : qstats[q][f] \in Nat PROVE Sum(f) \in Nat
    <2> DEFINE g == [q \in Queues |-> qstats[q][f]]
    <2>1. DOMAIN g = Queues /\ \A q \in Queues : g[q] \in Nat
      BY <1>2
    <2>2. Sum(f) = SumFunctionOnSet(g, DOMAIN g)
      BY DEF Sum, SumFunction
    <2> HIDE DEF g
    <2> QED
      BY <1>1, <2>1, <2>2, SumIsNatural
  <1>3. \A q \in Queues : /\ qstats[q]["packets"] \in Nat /\ qstats[q]["bytes"] \in Nat
                          /\ qstats[q]["dropped"] \in Nat
    BY DEF TxTypeInv, Counters
  <1> QED
    BY <1>2, <1>3

\* What configure() does to the counters.
LEMMA ConfigureCounters ==
  ASSUME TxTypeInv, NEW d, Configure(d)
  PROVE  /\ replaced' \in Counters /\ qstats' \in [Queues -> Counters]
         /\ replaced'.packets = replaced.packets + Sum("packets")
         /\ replaced'.bytes = replaced.bytes + Sum("bytes")
         /\ replaced'.dropped = replaced.dropped + Sum("dropped")
  <1>1. DOMAIN Zero = {"packets", "bytes", "dropped"}
    BY DEF Zero
  <1>2. replaced' = [f \in DOMAIN Zero |-> replaced[f] + Sum(f)]
    BY DEF Configure
  <1>3. replaced' = [packets |-> replaced.packets + Sum("packets"), bytes |-> replaced.bytes + Sum("bytes"),
                     dropped |-> replaced.dropped + Sum("dropped")]
    BY <1>1, <1>2
  <1>4. /\ replaced.packets + Sum("packets") \in Nat /\ replaced.bytes + Sum("bytes") \in Nat
        /\ replaced.dropped + Sum("dropped") \in Nat
    <2>1. replaced.packets \in Nat /\ replaced.bytes \in Nat /\ replaced.dropped \in Nat
      BY DEF TxTypeInv, Counters
    <2>2. Sum("packets") \in Nat /\ Sum("bytes") \in Nat /\ Sum("dropped") \in Nat
      BY SumType
    <2>3. \A x, y \in Nat : x + y \in Nat
      OBVIOUS
    <2> QED
      BY <2>1, <2>2, <2>3
  <1>5. replaced' \in Counters
    BY <1>3, <1>4 DEF Counters
  <1>6. Zero \in Counters
    BY DEF Zero, Counters
  <1>7. qstats' \in [Queues -> Counters]
    BY <1>6 DEF Configure
  <1> QED
    BY <1>3, <1>5, <1>7

\* A step of nobody's call.
LEMMA CallsApart ==
  ASSUME TxInv, UNCHANGED <<call, calls, results, stats, putting, pushed>>,
         \A a \in Apps : \A x \in putting[a] : data'[x] = data[x],
         qstats' \in [Queues -> Counters], replaced' \in Counters
  PROVE  TxTypeInv' /\ CallInv' /\ WireInv'
  <1>1. TxTypeInv'
    BY DEF TxInv, TxTypeInv
  <1>2. calls \in Nat /\ calls <= calls
    <2>1. calls \in 0 .. MaxCalls
      BY Zenon DEF TxInv, TxTypeInv
    <2> QED
      BY <2>1, Bounds
  <1>3. CallInv'
    BY CallsRest DEF TxInv
  <1>4. calls' = calls /\ pushed' = pushed
    OBVIOUS
  <1>5. calls' \in Nat /\ calls <= calls'
    BY <1>2, <1>4
  <1>6. WireInv'
    BY <1>2, <1>4, <1>5, WireRests DEF TxInv
  <1> QED
    BY <1>1, <1>3, <1>6

\* The steps that are not of a call: consumers and the controller.
Others == \/ \E t \in Takers : TakeTx(t)
          \/ \E d \in Depths : Configure(d)
          \/ \E q \in Queues : ConfigureQueue(q)
          \/ Destroy \/ Gone \/ UNCHANGED vars

\* They leave the calls and the wire alone.
LEMMA OthersKeep ==
  ASSUME TxInv, Others
  PROVE  /\ UNCHANGED <<call, calls, results, stats, putting, pushed>>
         /\ TxTypeInv' /\ CallInv' /\ WireInv'
  <1>1. ASSUME UNCHANGED <<call, calls, results, stats, putting, pushed, qstats, replaced>>,
               \A a \in Apps : \A x \in putting[a] : data'[x] = data[x]
        PROVE  TxTypeInv' /\ CallInv' /\ WireInv'
    <2>1. qstats' \in [Queues -> Counters] /\ replaced' \in Counters
      BY <1>1 DEF TxInv, TxTypeInv
    <2> QED
      BY <1>1, <2>1, CallsApart
  <1>2. ASSUME NEW t \in Takers, TakeTx(t)
        PROVE  /\ UNCHANGED <<call, calls, results, stats, putting, pushed>>
               /\ TxTypeInv' /\ CallInv' /\ WireInv'
    <2>1. UNCHANGED <<call, calls, results, stats, putting, pushed, qstats, replaced>>
      BY <1>2 DEF TakeTx, txVars, Pop, Copied
    <2>2. CASE Pop(t)
      BY <1>1, <2>1, <2>2 DEF Pop
    <2>3. CASE Copied(t)
      <3>1. \A a \in Apps : taking[t] \cap putting[a] = {}
        BY DEF TxInv, LInv, Exact, Apps
      <3>2. Deallocate(taking[t])
        BY <2>3 DEF Copied
      <3>3. \A a \in Apps : \A x \in putting[a] : data'[x] = data[x]
        BY <3>1, <3>2, HandsSurvive DEF TxInv
      <3> QED
        BY <1>1, <2>1, <3>3
    <2> QED
      BY <1>2, <2>2, <2>3 DEF TakeTx
  <1>3. ASSUME NEW d \in Depths, Configure(d)
        PROVE  /\ UNCHANGED <<call, calls, results, stats, putting, pushed>>
               /\ TxTypeInv' /\ CallInv' /\ WireInv'
    <2>1. UNCHANGED <<call, calls, results, stats, putting, pushed, data>>
      BY <1>3 DEF Configure, ConfigureLink
    <2> QED
      BY <1>3, <2>1, ConfigureCounters, CallsApart DEF TxInv
  <1>4. ASSUME Destroy
        PROVE  /\ UNCHANGED <<call, calls, results, stats, putting, pushed>>
               /\ TxTypeInv' /\ CallInv' /\ WireInv'
    <2>1. /\ UNCHANGED <<call, calls, results, stats, putting, pushed, qstats, replaced>>
          /\ \A a \in Apps : putting[a] = {}
      BY <1>4 DEF Destroy, Drain, txVars, Apps
    <2> QED
      BY <1>1, <2>1
  <1>5. ASSUME (\E q \in Queues : ConfigureQueue(q)) \/ Gone \/ UNCHANGED vars
        PROVE  /\ UNCHANGED <<call, calls, results, stats, putting, pushed>>
               /\ TxTypeInv' /\ CallInv' /\ WireInv'
    <2>1. UNCHANGED <<call, calls, results, stats, putting, pushed, qstats, replaced, data>>
      BY <1>5 DEF ConfigureQueue, Gone, vars, txVars, linkVars
    <2> QED
      BY <1>1, <2>1
  <1> QED
    BY <1>2, <1>3, <1>4, <1>5 DEF Others

\* The ways a call moves: it begins, goes on with nothing new on the wire,
\* puts a frame on it, or ends.
Begins(a) == \E q \in Queues, n \in 0 .. MaxBurst : Tx(a, q, n)
GoesOn(a) == (\E r : Continues(a, r) /\ Sent(r) = Sent(call[a])) /\ pushed' = pushed
Sends(a) == /\ \E r : Continues(a, r) /\ r.at = "pushed" /\ r.i = call[a].i /\ r.desc = call[a].desc
            /\ call[a].at = "push" /\ Gathered(call[a].desc)
            /\ pushed' = Append(pushed, FrameOf(call[a]))
Finishes(a) == /\ call[a].at \in {"next", "drop"}
               /\ call' = [call EXCEPT ![a] = Idle] /\ pushed' = pushed /\ calls' = calls
               /\ \E n \in Nat : /\ results' = [results EXCEPT ![call[a].number] = n]
                                 /\ n # Pending
                                 /\ call[a].i - 1 = IF n = Failure THEN 0 ELSE n

\* The results of Drop and Return tell how many descriptors went before.
LEMMA ResultTells ==
  ASSUME NEW i \in Nat \ {0}, NEW n
  PROVE  /\ i <= MaxBurst /\ n = (IF i = 1 THEN Failure ELSE i - 1) =>
               n \in Nat /\ n # Pending /\ i - 1 = IF n = Failure THEN 0 ELSE n
         /\ n \in 0 .. MaxBurst /\ i <= n + 1 /\ ~(i <= n) =>
               n \in Nat /\ n # Pending /\ n # Failure /\ i - 1 = n
  <1>1. MaxBurst \in Nat \ {0}
    BY Bounds
  <1>2. ASSUME i <= MaxBurst, n = (IF i = 1 THEN Failure ELSE i - 1)
        PROVE  n \in Nat /\ n # Pending /\ i - 1 = IF n = Failure THEN 0 ELSE n
    <2>1. CASE i = 1
      BY <1>1, <1>2, <2>1 DEF Failure, Pending
    <2>2. CASE i # 1
      <3>1. n = i - 1
        BY <1>2, <2>2
      <3>2. i - 1 \in Nat /\ i - 1 < MaxBurst + 1 /\ i - 1 < MaxBurst + 2
        BY <1>1, <1>2
      <3> QED
        BY <1>1, <3>1, <3>2 DEF Failure, Pending
    <2> QED
      BY <2>1, <2>2
  <1>3. ASSUME n \in 0 .. MaxBurst, i <= n + 1, ~(i <= n)
        PROVE  n \in Nat /\ n # Pending /\ n # Failure /\ i - 1 = n
    BY <1>1, <1>3 DEF Failure, Pending
  <1> QED
    BY <1>2, <1>3

\* What Drop and Return leave as the result.
LEMMA FinishStep ==
  ASSUME TxInv, NEW a \in Apps, Drop(a) \/ Return(a)
  PROVE  Finishes(a) /\ TxTypeInv' /\ CallInv' /\ WireInv'
  <1>1. /\ call[a].at \in {"next", "drop"} /\ call' = [call EXCEPT ![a] = Idle]
        /\ UNCHANGED <<linkVars, calls, qstats, replaced>>
    BY DEF Drop, Return, AfterDrop
  <1>2. /\ call[a].i \in Nat \ {0} /\ call[a].size \in 0 .. MaxBurst /\ MaxBurst \in Nat
        /\ call[a].i <= IF call[a].at = "next" THEN call[a].size + 1 ELSE call[a].size
    BY <1>1, CallFields, Bounds DEF TxInv, CallInv
  <1>3. stats' \in Counters
    BY CountersGrow DEF Drop, Return, Dropped, TxInv, TxTypeInv
  <1>4. \E n \in Nat : /\ results' = [results EXCEPT ![call[a].number] = n]
                       /\ n # Pending
                       /\ call[a].i - 1 = IF n = Failure THEN 0 ELSE n
    <2>1. CASE Drop(a)
      <3> DEFINE n == IF call[a].i = 1 THEN Failure ELSE call[a].i - 1
      <3>1. call[a].at = "drop" /\ results' = [results EXCEPT ![call[a].number] = n]
        BY <2>1 DEF Drop
      <3>2. call[a].i <= MaxBurst
        <4>1. call[a].i <= call[a].size
          BY <1>2, <3>1
        <4>2. \A x \in Nat : \A y \in 0 .. MaxBurst : x <= y => x <= MaxBurst
          BY <1>2
        <4> QED
          BY <1>2, <4>1, <4>2
      <3>3. n \in Nat /\ n # Pending /\ call[a].i - 1 = IF n = Failure THEN 0 ELSE n
        BY <1>2, <3>2, ResultTells
      <3> HIDE DEF n
      <3> QED
        BY <3>1, <3>3
    <2>2. CASE Return(a)
      <3>1. /\ call[a].at = "next" /\ ~(call[a].i <= call[a].size)
            /\ results' = [results EXCEPT ![call[a].number] = call[a].size]
        BY <2>2 DEF Return, More
      <3>2. /\ call[a].size \in Nat /\ call[a].size # Pending /\ call[a].size # Failure
            /\ call[a].i - 1 = call[a].size
        <4>1. call[a].i <= call[a].size + 1
          BY <1>2, <3>1
        <4> QED
          BY <1>2, <3>1, <4>1, ResultTells
      <3> QED
        BY <3>1, <3>2
    <2> QED
      BY <2>1, <2>2
  <1>5. TxTypeInv' /\ CallInv' /\ WireInv'
    BY <1>1, <1>3, <1>4, CallEnds
  <1>6. pushed' = pushed /\ calls' = calls
    BY <1>1 DEF linkVars
  <1> QED
    BY <1>1, <1>4, <1>5, <1>6 DEF Finishes

\* Every step is one of these.
LEMMA StepCases ==
  ASSUME TxInv, [Next]_vars
  PROVE  Others \/ \E a \in Apps : Begins(a) \/ GoesOn(a) \/ Sends(a) \/ (Drop(a) \/ Return(a))
  <1>1. ASSUME NEW a \in Apps, Refuse(a) \/ CountInQueue(a) \/ Count(a) PROVE GoesOn(a)
    <2>1. pushed' = pushed
      BY <1>1 DEF Refuse, CountInQueue, Count, linkVars
    <2> QED
      BY <1>1, <2>1, RefuseStep, CountInQueueStep, CountStep DEF GoesOn
  <1>2. ASSUME NEW a \in Apps, NEW d \in Descriptors, NEW b \in Block, Put(a, d, b) PROVE GoesOn(a)
    <2>1. pushed' = pushed
      BY <1>2 DEF Put, Allocate
    <2> QED
      BY <1>2, <2>1, PutStep DEF GoesOn
  <1>3. ASSUME NEW a \in Apps, PutTx(a) PROVE GoesOn(a) \/ Sends(a)
    <2>1. CASE Push(a) /\ call' = [call EXCEPT ![a].at = "pushed"]
      BY <1>3, <2>1, PushStep DEF Sends
    <2>2. CASE PushFails(a) /\ call' = [call EXCEPT ![a] = [@ EXCEPT !.at = "refused", !.desc = NoDesc]]
      <3>1. pushed' = pushed
        BY <2>2 DEF PushFails
      <3> QED
        BY <1>3, <2>2, <3>1, PushFailsStep DEF GoesOn
    <2> QED
      BY <1>3, <2>1, <2>2 DEF PutTx
  <1>4. CASE Next
    BY <1>1, <1>2, <1>3, <1>4 DEF Next, Others, Begins
  <1>5. CASE UNCHANGED vars
    BY <1>5 DEF Others
  <1> QED
    BY <1>4, <1>5

\* The invariant of the calls is kept.
LEMMA TxStep ==
  ASSUME TxInv, [Next]_vars
  PROVE  TxTypeInv' /\ CallInv' /\ WireInv'
  <1>1. ASSUME NEW a \in Apps, Begins(a) PROVE TxTypeInv' /\ CallInv' /\ WireInv'
    BY <1>1, TxBegins DEF Begins
  <1>2. ASSUME NEW a \in Apps, GoesOn(a) PROVE TxTypeInv' /\ CallInv' /\ WireInv'
    <2>1. PICK r : Continues(a, r)
      BY <1>2 DEF GoesOn
    <2>2. calls' = calls
      BY <2>1 DEF Continues
    <2>3. pushed' = pushed
      BY <1>2 DEF GoesOn
    <2>4. calls \in Nat
      BY Bounds DEF TxInv, TxTypeInv
    <2> QED
      BY <2>1, <2>2, <2>3, <2>4, CallContinues, WireRests DEF TxInv
  <1>3. ASSUME NEW a \in Apps, Sends(a) PROVE TxTypeInv' /\ CallInv' /\ WireInv'
    <2>1. PICK r : Continues(a, r)
      BY <1>3 DEF Sends
    <2>2. calls' = calls
      BY <2>1 DEF Continues
    <2> QED
      BY <1>3, <2>1, <2>2, CallContinues, WireGrows DEF Sends
  <1> QED
    BY <1>1, <1>2, <1>3, StepCases, OthersKeep, FinishStep

-----------------------------------------------------------------------------
(* The theorems. *)

\* TxInv holds at the start and after every step.
LEMMA TxInvHolds == Spec => []TxInv
  <1>1. Init => TxInv
    BY LinkBegins, TxInit DEF TxInv
  <1>2. TxInv /\ [Next]_vars => TxInv'
    BY LinkStep, TxStep DEF TxInv
  <1> QED
    BY <1>1, <1>2, PTL DEF Spec

\* The memory the link has out of malloc is exactly what is in the pipe or in
\* the hands of one thread, for any number of senders, consumers, blocks and
\* queues, whether pushes are refused or copies throw.
THEOREM LinkMemoryIsExact == Spec => []MemoryExact
  <1>1. TxInv => MemoryExact
    BY ExactIsMemoryExact DEF TxInv, LInv
  <1> QED
    BY <1>1, TxInvHolds, PTL

\* What take() copies is what put() copied in, in the order of the pushes,
\* whatever the pipe's depth is set to while frames are in it.
THEOREM LinkKeepsFrames == Spec => []FramesIntact
  <1>1. TxInv => FramesIntact
    BY DEF TxInv, LInv
  <1> QED
    BY <1>1, TxInvHolds, PTL

\* A frame on the wire is the whole chain of its descriptor, for any heap,
\* cycles included, and any limit on the segments.
THEOREM FramesAreGathered == Spec => []GatheredWhole
  <1>1. TxInv => GatheredWhole
    <2> SUFFICES ASSUME TxInv, NEW j \in DOMAIN pushed
                 PROVE  \E p \in Chains(pushed[j].desc.buffer) :
                           /\ pushed[j].bytes = Joined([m \in DOMAIN p |-> Heap[p[m]].bytes])
                           /\ Len(pushed[j].bytes) = pushed[j].desc.totalLength
                           /\ pushed[j].bytes # <<>>
      BY DEF GatheredWhole
    <2>1. Gathered(pushed[j].desc) /\ pushed[j].bytes = Gather(pushed[j].desc.buffer)
      BY DEF TxInv, WireInv
    <2>2. PICK b \in Buffers : b = pushed[j].desc.buffer /\ Ends(b) # {}
      BY <2>1, TxPathAssumption DEF Gathered
    <2>3. PICK p \in Chains(b) : Gather(b) = Joined([m \in DOMAIN p |-> Heap[p[m]].bytes])
      BY <2>2, GatherIsChain
    <2>4. /\ Len(pushed[j].bytes) = pushed[j].desc.totalLength
          /\ pushed[j].desc.totalLength > 0
      BY <2>1 DEF Gathered
    <2>5. pushed[j].bytes # <<>>
      BY <2>4
    <2> QED
      BY <2>1, <2>2, <2>3, <2>4, <2>5
  <1> QED
    BY <1>1, TxInvHolds, PTL

=============================================================================
