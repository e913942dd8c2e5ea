---------------------------- MODULE Charts_proofs ----------------------------
(***************************************************************************)
(* Proofs about the charts: about the sample store, for every buffer size, *)
(* every set of lines and every set of samples, and about the layout of    *)
(* the screen, for any number of devices and lines and any terminal.       *)
(***************************************************************************)
EXTENDS RingBuffer, Layout, FiniteSetTheorems, WellFoundedInduction, TLAPS

-----------------------------------------------------------------------------
(* One line                                                                *)

\* Each operation of interface_ring_buffer.h keeps both indices inside the
\* array.
LEMMA RingOpsType ==
    ASSUME NEW r \in RingState
    PROVE  /\ \A value \in Sample : Push(r, value) \in RingState
           /\ Pop(r) \in RingState
           /\ Clear(r) \in RingState
<1> USE BufferSizeAssumption
<1>1. ASSUME NEW value \in Sample PROVE Push(r, value) \in RingState
  BY <1>1 DEF Push, Wrap, RingState, Index
<1>2. Pop(r) \in RingState
  BY DEF Pop, Wrap, RingState, Index
<1>3. Clear(r) \in RingState
  BY DEF Clear, RingState, Index
<1> QED BY <1>1, <1>2, <1>3

\* The number of samples interface_ring_buffer_data_stored reports never
\* exceeds BufferSize - 1, and every index below it denotes a cell.
LEMMA StoredBound ==
    ASSUME NEW r \in RingState
    PROVE  /\ Stored(r) \in 0 .. BufferSize - 1
           /\ \A i \in 0 .. Stored(r) - 1 : IndexInRing(r, i) \in Index
<1> DEFINE s == r.start
           e == r.end
<1>1. BufferSize \in Nat \ {0} /\ s \in 0 .. BufferSize - 1 /\ e \in 0 .. BufferSize - 1
  BY BufferSizeAssumption DEF RingState, Index
<1>2. Stored(r) = IF e < s THEN e - s + BufferSize ELSE e - s
  BY DEF Stored
<1>3. ASSUME NEW i
      PROVE  IndexInRing(r, i) = IF s + i >= BufferSize THEN s + i - BufferSize ELSE s + i
  BY DEF IndexInRing
<1> HIDE DEF s, e
<1>4. Stored(r) \in 0 .. BufferSize - 1
  BY <1>1, <1>2
<1>5. ASSUME NEW i \in 0 .. Stored(r) - 1 PROVE IndexInRing(r, i) \in Index
  <2>1. i \in Nat /\ i < BufferSize
    BY <1>1, <1>4
  <2> QED BY <1>1, <1>3, <2>1 DEF Index
<1> QED BY <1>4, <1>5

\* What a reader gets from a line is a sequence of samples.
LEMMA SamplesType ==
    ASSUME NEW r \in RingState
    PROVE  /\ Samples(r) \in Seq(Sample)
           /\ Len(Samples(r)) = Stored(r)
           /\ DOMAIN Samples(r) = 1 .. Stored(r)
           /\ \A i \in 1 .. Stored(r) : Samples(r)[i] = r.data[IndexInRing(r, i - 1)]
<1>1. Stored(r) \in Nat
  BY StoredBound, BufferSizeAssumption
<1>2. \A i \in 1 .. Stored(r) : Get(r, i - 1) \in Sample
  <2> TAKE i \in 1 .. Stored(r)
  <2>1. i - 1 \in 0 .. Stored(r) - 1
    BY <1>1
  <2>2. IndexInRing(r, i - 1) \in Index
    BY <2>1, StoredBound
  <2> QED BY <2>2 DEF Get, RingState
<1> QED BY <1>1, <1>2 DEF Samples, Get

\* A push appends to what a reader sees, and gives up the oldest sample when
\* the line already held BufferSize - 1 of them.
LEMMA PushSamples ==
    ASSUME NEW r \in RingState, NEW value \in Sample
    PROVE  Samples(Push(r, value)) =
             IF Stored(r) + 1 > BufferSize - 1
             THEN Tail(Append(Samples(r), value))
             ELSE Append(Samples(r), value)
<1> DEFINE p == Push(r, value)
           old == Samples(r)
           new == Append(old, value)
           n == Stored(r)
           s == r.start
           e == r.end
<1> USE BufferSizeAssumption
<1>1. p \in RingState
  BY RingOpsType
<1>2. /\ s \in 0 .. BufferSize - 1 /\ e \in 0 .. BufferSize - 1
      /\ r.data \in [0 .. BufferSize - 1 -> Sample]
      /\ n = IF e < s THEN e - s + BufferSize ELSE e - s
  BY DEF RingState, Index, Stored
<1>3. /\ p.end = IF e + 1 = BufferSize THEN 0 ELSE e + 1
      /\ p.start = IF p.end = s
                   THEN IF s + 1 = BufferSize THEN 0 ELSE s + 1
                   ELSE s
      /\ p.data = [r.data EXCEPT ![e] = value]
  BY <1>2 DEF Push, Wrap
<1>4. Stored(p) = IF p.end < p.start THEN p.end - p.start + BufferSize ELSE p.end - p.start
  BY DEF Stored
<1>5. /\ old \in Seq(Sample) /\ Len(old) = n /\ n \in 0 .. BufferSize - 1
      /\ \A i \in 1 .. n : old[i] = r.data[IndexInRing(r, i - 1)]
  BY SamplesType, StoredBound
<1>6. /\ Samples(p) \in Seq(Sample) /\ Len(Samples(p)) = Stored(p)
      /\ \A i \in 1 .. Stored(p) : Samples(p)[i] = p.data[IndexInRing(p, i - 1)]
  BY <1>1, SamplesType
<1> HIDE DEF p, old, n, s, e
<1>7. /\ new \in Seq(Sample) /\ Len(new) = n + 1
      /\ \A i \in 1 .. n : new[i] = old[i]
      /\ new[n + 1] = value
  BY <1>5
<1> HIDE DEF new
<1>8. CASE n + 1 > BufferSize - 1
  <2>1. n = BufferSize - 1 /\ p.end = s /\ Stored(p) = n
    <3>1. n = BufferSize - 1
      BY <1>5, <1>8
    <3>2. p.end = s
      BY <1>2, <1>3, <3>1
    <3>3. p.start = IF s + 1 = BufferSize THEN 0 ELSE s + 1
      BY <1>3, <3>2
    <3> QED BY <1>2, <1>4, <3>1, <3>2, <3>3
  <2>2. /\ Tail(new) \in Seq(Sample) /\ Len(Tail(new)) = n
        /\ \A i \in 1 .. n : Tail(new)[i] = new[i + 1]
    BY <1>5, <1>7
  <2>3. ASSUME NEW i \in 1 .. n
        PROVE  Samples(p)[i] = new[i + 1]
    <3>1. IndexInRing(p, i - 1) = IndexInRing(r, i)
      <4>1. /\ IndexInRing(p, i - 1) = IF p.start + (i - 1) >= BufferSize
                                       THEN p.start + (i - 1) - BufferSize ELSE p.start + (i - 1)
            /\ IndexInRing(r, i) = IF s + i >= BufferSize THEN s + i - BufferSize ELSE s + i
        BY DEF IndexInRing, s
      <4>2. p.start = IF s + 1 = BufferSize THEN 0 ELSE s + 1
        BY <2>1, <1>3
      <4>3. s \in 0 .. BufferSize - 1 /\ i \in 1 .. BufferSize - 1
        BY <2>1, <1>2
      <4> QED BY <4>1, <4>2, <4>3
    <3>2. Samples(p)[i] = p.data[IndexInRing(r, i)]
      BY <3>1, <2>1, <1>6
    <3>3. CASE i = n
      <4>1. IndexInRing(r, i) = e
        <5>1. IndexInRing(r, i) = IF s + i >= BufferSize THEN s + i - BufferSize ELSE s + i
          BY DEF IndexInRing, s
        <5>2. /\ s \in 0 .. BufferSize - 1 /\ e \in 0 .. BufferSize - 1
              /\ n = IF e < s THEN e - s + BufferSize ELSE e - s
          BY <1>2
        <5> QED BY <5>1, <5>2, <3>3, <2>1
      <4> QED BY <4>1, <3>2, <3>3, <1>2, <1>3, <1>7
    <3>4. CASE i < n
      <4>1. IndexInRing(r, i) \in 0 .. BufferSize - 1 /\ IndexInRing(r, i) # e
        <5>1. IndexInRing(r, i) = IF s + i >= BufferSize THEN s + i - BufferSize ELSE s + i
          BY DEF IndexInRing, s
        <5>2. /\ s \in 0 .. BufferSize - 1 /\ e \in 0 .. BufferSize - 1
              /\ n = IF e < s THEN e - s + BufferSize ELSE e - s
          BY <1>2
        <5> QED BY <5>1, <5>2, <3>4, <2>1
      <4>2. i + 1 \in 1 .. n /\ (i + 1) - 1 = i
        BY <3>4, <1>5
      <4>3. new[i + 1] = r.data[IndexInRing(r, i)]
        BY <4>2, <1>5, <1>7
      <4> QED BY <4>1, <4>3, <3>2, <1>2, <1>3
    <3> QED BY <3>3, <3>4, <1>5
  <2>4. Samples(p) = Tail(new)
    BY <2>1, <2>2, <2>3, <1>5, <1>6
  <2> QED BY <2>4, <1>8 DEF p, old, new, n
<1>9. CASE ~(n + 1 > BufferSize - 1)
  <2>1. n + 1 \in Nat /\ Stored(p) = n + 1 /\ p.start = s
    BY <1>9, <1>2, <1>3, <1>4, <1>5
  <2>2. ASSUME NEW i \in 1 .. n + 1
        PROVE  Samples(p)[i] = new[i]
    <3>1. IndexInRing(p, i - 1) = IndexInRing(r, i - 1)
      BY <2>1 DEF IndexInRing, s
    <3>2. Samples(p)[i] = p.data[IndexInRing(r, i - 1)]
      BY <3>1, <2>1, <1>6
    <3>3. CASE i = n + 1
      <4>1. IndexInRing(r, i - 1) = e
        <5>1. IndexInRing(r, i - 1) = IF s + (i - 1) >= BufferSize
                                      THEN s + (i - 1) - BufferSize ELSE s + (i - 1)
          BY DEF IndexInRing, s
        <5>2. /\ s \in 0 .. BufferSize - 1 /\ e \in 0 .. BufferSize - 1
              /\ n = IF e < s THEN e - s + BufferSize ELSE e - s
          BY <1>2
        <5> QED BY <5>1, <5>2, <3>3
      <4> QED BY <4>1, <3>2, <3>3, <1>2, <1>3, <1>7
    <3>4. CASE i # n + 1
      <4>1. i \in 1 .. n
        BY <3>4, <1>5
      <4>2. IndexInRing(r, i - 1) \in 0 .. BufferSize - 1 /\ IndexInRing(r, i - 1) # e
        <5>1. IndexInRing(r, i - 1) = IF s + (i - 1) >= BufferSize
                                      THEN s + (i - 1) - BufferSize ELSE s + (i - 1)
          BY DEF IndexInRing, s
        <5>2. /\ s \in 0 .. BufferSize - 1 /\ e \in 0 .. BufferSize - 1
              /\ n = IF e < s THEN e - s + BufferSize ELSE e - s
          BY <1>2
        <5> QED BY <5>1, <5>2, <4>1
      <4> QED BY <4>1, <4>2, <3>2, <1>2, <1>3, <1>5, <1>7
    <3> QED BY <3>3, <3>4
  <2>3. Samples(p) = new
    BY <2>1, <2>2, <1>5, <1>6, <1>7
  <2> QED BY <2>3, <1>9 DEF p, old, new, n
<1> QED BY <1>8, <1>9

\* A pop drops the oldest sample; an empty line is left alone.
LEMMA PopSamples ==
    ASSUME NEW r \in RingState
    PROVE  /\ Stored(r) = 0 => Pop(r) = r
           /\ Stored(r) # 0 => Samples(Pop(r)) = Tail(Samples(r))
<1> USE BufferSizeAssumption
<1> DEFINE p == Pop(r)
           old == Samples(r)
           n == Stored(r)
           s == r.start
           e == r.end
<1>1. p \in RingState
  BY RingOpsType
<1>2. /\ s \in 0 .. BufferSize - 1 /\ e \in 0 .. BufferSize - 1
      /\ n = IF e < s THEN e - s + BufferSize ELSE e - s
  BY DEF RingState, Index, Stored
<1>3. n = 0 => p = r
  BY <1>2 DEF Pop
<1>4. /\ old \in Seq(Sample) /\ Len(old) = n /\ n \in 0 .. BufferSize - 1
      /\ \A i \in 1 .. n : old[i] = r.data[IndexInRing(r, i - 1)]
  BY SamplesType, StoredBound
<1>5. /\ Samples(p) \in Seq(Sample) /\ Len(Samples(p)) = Stored(p)
      /\ \A i \in 1 .. Stored(p) : Samples(p)[i] = p.data[IndexInRing(p, i - 1)]
  BY <1>1, SamplesType
<1>6. ASSUME n # 0 PROVE Samples(p) = Tail(old)
  <2>1. /\ p.end = e /\ p.data = r.data
        /\ p.start = IF s + 1 = BufferSize THEN 0 ELSE s + 1
        /\ Stored(p) = IF p.end < p.start THEN p.end - p.start + BufferSize ELSE p.end - p.start
    BY <1>6, <1>2 DEF Pop, RingState, Wrap, Stored
  <2> HIDE DEF p, old, n, s, e
  <2>2. n - 1 \in Nat /\ Stored(p) = n - 1
    BY <2>1, <1>2, <1>4, <1>6
  <2>3. /\ Tail(old) \in Seq(Sample) /\ Len(Tail(old)) = n - 1
        /\ \A i \in 1 .. n - 1 : Tail(old)[i] = old[i + 1]
    BY <1>4, <1>6
  <2>4. ASSUME NEW i \in 1 .. n - 1 PROVE Samples(p)[i] = old[i + 1]
    <3>1. IndexInRing(p, i - 1) = IndexInRing(r, i)
      <4>1. /\ IndexInRing(p, i - 1) = IF p.start + (i - 1) >= BufferSize
                                       THEN p.start + (i - 1) - BufferSize ELSE p.start + (i - 1)
            /\ IndexInRing(r, i) = IF s + i >= BufferSize THEN s + i - BufferSize ELSE s + i
        BY DEF IndexInRing, s
      <4>2. /\ p.start = IF s + 1 = BufferSize THEN 0 ELSE s + 1
            /\ s \in 0 .. BufferSize - 1 /\ i \in 1 .. BufferSize - 1
        BY <2>1, <1>2, <1>4
      <4> QED BY <4>1, <4>2
    <3>2. i + 1 \in 1 .. n /\ (i + 1) - 1 = i
      BY <1>4
    <3>3. Samples(p)[i] = p.data[IndexInRing(p, i - 1)]
      BY <2>2, <1>5
    <3>4. old[i + 1] = r.data[IndexInRing(r, i)]
      BY <3>2, <1>4
    <3> QED BY <3>1, <3>3, <3>4, <2>1
  <2> QED BY <2>2, <2>3, <2>4, <1>4, <1>5
<1> QED BY <1>3, <1>6

\* A cleared line has nothing to read.
LEMMA ClearSamples ==
    ASSUME NEW r \in RingState
    PROVE  Samples(Clear(r)) = << >>
<1>1. Clear(r) \in RingState /\ Stored(Clear(r)) = 0
  BY RingOpsType, BufferSizeAssumption DEF Clear, Stored, RingState, Index
<1> QED BY <1>1, SamplesType

-----------------------------------------------------------------------------
(* The store                                                               *)

\* The indices of every line stay inside its array whatever operations are
\* made on the store, for every buffer size.
THEOREM RingTypeCorrect == Spec => []TypeOK
<1>1. Init => TypeOK
  <2> SUFFICES ASSUME Init PROVE TypeOK
    OBVIOUS
  <2>1. PICK garbage \in [Device -> [Which -> [Index -> Sample]]] :
          ring = [d \in Device |-> [w \in Which |->
                    [start |-> 0, end |-> 0, data |-> garbage[d][w]]]]
    BY DEF Init
  <2>2. ASSUME NEW d \in Device, NEW w \in Which
        PROVE  [start |-> 0, end |-> 0, data |-> garbage[d][w]] \in RingState
    BY BufferSizeAssumption DEF RingState, Index
  <2> QED BY <2>1, <2>2 DEF TypeOK
<1>2. TypeOK /\ [Next]_ring => TypeOK'
  <2> SUFFICES ASSUME TypeOK, [Next]_ring PROVE TypeOK'
    OBVIOUS
  <2>1. ASSUME NEW d \in Device, NEW w \in Which PROVE ring[d][w] \in RingState
    BY <2>1 DEF TypeOK
  <2>2. ASSUME NEW d \in Device, NEW w \in Which, NEW value \in Sample, PushSample(d, w, value)
        PROVE  TypeOK'
    <3>1. Push(ring[d][w], value) \in RingState
      BY <2>1, RingOpsType
    <3> QED BY <2>2, <3>1 DEF PushSample, TypeOK
  <2>3. ASSUME NEW d \in Device, NEW w \in Which, PopSample(d, w)
        PROVE  TypeOK'
    <3>1. Pop(ring[d][w]) \in RingState
      BY <2>1, RingOpsType
    <3> QED BY <2>3, <3>1 DEF PopSample, TypeOK
  <2>4. ASSUME NEW d \in Device, NEW w \in Which, EmptySelect(d, w)
        PROVE  TypeOK'
    <3>1. Clear(ring[d][w]) \in RingState
      BY <2>1, RingOpsType
    <3> QED BY <2>4, <3>1 DEF EmptySelect, TypeOK
  <2>5. ASSUME NEW d \in Device, Empty(d)
        PROVE  TypeOK'
    <3>1. \A w \in Which : Clear(ring[d][w]) \in RingState
      BY <2>1, RingOpsType
    <3> QED BY <2>5, <3>1 DEF Empty, TypeOK
  <2>6. CASE UNCHANGED ring
    BY <2>6 DEF TypeOK
  <2> QED BY <2>2, <2>3, <2>4, <2>5, <2>6 DEF Next
<1> QED BY <1>1, <1>2, PTL DEF Spec

\* The store implements the bounded histories: whatever operations are made
\* on whichever lines, a reader sees the newest BufferSize - 1 samples pushed
\* to a line since it was emptied, in push order.
THEOREM RingRefinesHistory == Spec => RefinesHistory
<1> DEFINE h == [d \in Device |-> [w \in Which |-> Samples(ring[d][w])]]
<1>1. Init => Abstract!HistInit
  <2> SUFFICES ASSUME Init PROVE Abstract!HistInit
    OBVIOUS
  <2>1. PICK garbage \in [Device -> [Which -> [Index -> Sample]]] :
          ring = [d \in Device |-> [w \in Which |->
                    [start |-> 0, end |-> 0, data |-> garbage[d][w]]]]
    BY DEF Init
  <2>2. ASSUME NEW d \in Device, NEW w \in Which
        PROVE  Samples(ring[d][w]) = << >>
    <3>1. ring[d][w] = [start |-> 0, end |-> 0, data |-> garbage[d][w]]
      BY <2>1
    <3>2. ring[d][w] \in RingState /\ Stored(ring[d][w]) = 0
      BY <3>1, BufferSizeAssumption DEF RingState, Index, Stored
    <3> QED BY <3>2, SamplesType
  <2> QED BY <2>2 DEF Abstract!HistInit
<1>2. TypeOK => OperationsCorrespond
  <2> SUFFICES ASSUME TypeOK PROVE OperationsCorrespond
    OBVIOUS
  <2>1. ASSUME NEW d \in Device, NEW w \in Which PROVE ring[d][w] \in RingState
    BY <2>1 DEF TypeOK
  <2>2. ASSUME NEW d \in Device, NEW w \in Which, NEW value \in Sample, PushSample(d, w, value)
        PROVE  Abstract!HistPush(d, w, value)
    <3>1. Len(Append(Samples(ring[d][w]), value)) = Stored(ring[d][w]) + 1
      BY <2>1, SamplesType
    <3>2. Samples(Push(ring[d][w], value)) = Abstract!Newest(Append(Samples(ring[d][w]), value))
      BY <3>1, <2>1, PushSamples DEF Abstract!Newest
    <3>3. h' = [h EXCEPT ![d][w] = Samples(Push(ring[d][w], value))]
      BY <2>2 DEF PushSample, TypeOK
    <3>4. h[d][w] = Samples(ring[d][w])
      OBVIOUS
    <3> QED BY <3>2, <3>3, <3>4 DEF Abstract!HistPush
  <2>3. ASSUME NEW d \in Device, NEW w \in Which, PopSample(d, w)
        PROVE  Abstract!HistPop(d, w)
    <3> DEFINE old == Samples(ring[d][w])
    <3>1. Samples(Pop(ring[d][w])) = IF old = << >> THEN << >> ELSE Tail(old)
      <4>1. CASE Stored(ring[d][w]) = 0
        BY <4>1, <2>1, PopSamples, SamplesType
      <4>2. CASE Stored(ring[d][w]) # 0
        BY <4>2, <2>1, PopSamples, SamplesType
      <4> QED BY <4>1, <4>2
    <3>2. h' = [h EXCEPT ![d][w] = Samples(Pop(ring[d][w]))]
      BY <2>3 DEF PopSample, TypeOK
    <3> QED BY <3>1, <3>2 DEF Abstract!HistPop
  <2>4. ASSUME NEW d \in Device, NEW w \in Which, EmptySelect(d, w)
        PROVE  Abstract!HistEmptySelect(d, w)
    <3>1. h' = [h EXCEPT ![d][w] = Samples(Clear(ring[d][w]))]
      BY <2>4 DEF EmptySelect, TypeOK
    <3> QED BY <3>1, <2>1, ClearSamples DEF Abstract!HistEmptySelect
  <2>5. ASSUME NEW d \in Device, Empty(d)
        PROVE  Abstract!HistEmpty(d)
    <3>1. h' = [h EXCEPT ![d] = [w \in Which |-> Samples(Clear(ring[d][w]))]]
      BY <2>5 DEF Empty, TypeOK
    <3>2. \A w \in Which : Samples(Clear(ring[d][w])) = << >>
      BY <2>1, ClearSamples
    <3> QED BY <3>1, <3>2 DEF Abstract!HistEmpty
  <2> QED BY <2>2, <2>3, <2>4, <2>5 DEF OperationsCorrespond
<1>3. OperationsCorrespond /\ [Next]_ring => [Abstract!HistNext]_h
  <2>1. ASSUME UNCHANGED ring PROVE UNCHANGED h
    BY <2>1
  <2>2. OperationsCorrespond /\ Next => Abstract!HistNext
    BY DEF OperationsCorrespond, Next, Abstract!HistNext
  <2> QED BY <2>1, <2>2
<1> QED BY <1>1, <1>2, <1>3, RingTypeCorrect, PTL DEF Spec, RefinesHistory, Abstract!HistSpec

-----------------------------------------------------------------------------
(* Sums                                                                    *)

\* A set of numbers has a least one.
LEMMA LeastNumber ==
    ASSUME NEW T \in SUBSET Nat, T # {}
    PROVE  \E x \in T : \A y \in T : x <= y
<1> DEFINE Below0 == OpToRel(<, Nat)
<1>1. IsWellFoundedOn(Below0, Nat)
  BY NatLessThanWellFounded
<1>2. \A x, y \in Nat : <<y, x>> \in Below0 <=> y < x
  BY DEF OpToRel
<1> HIDE DEF Below0
<1>3. PICK x \in T : \A y \in T : <<y, x>> \notin Below0
  BY <1>1, WFMin
<1>4. x \in Nat /\ \A y \in T : y \in Nat /\ ~(y < x)
  BY <1>2, <1>3
<1> QED BY <1>4

\* A set of numbers with 0 that has the successor of each of its members has
\* them all: the least number it lacks would have a predecessor in it.
LEMMA AllNumbers ==
    ASSUME NEW T \in SUBSET Nat, 0 \in T, \A n \in T : n + 1 \in T
    PROVE  \A n \in Nat : n \in T
<1> DEFINE rest == Nat \ T
<1>1. rest = {}
  <2> SUFFICES ASSUME rest # {} PROVE FALSE
    OBVIOUS
  <2>1. PICK x \in rest : \A y \in rest : x <= y
    BY LeastNumber
  <2>2. x \in Nat /\ x \notin T /\ x # 0
    OBVIOUS
  <2>3. x - 1 \in T
    BY <2>1, <2>2
  <2>4. (x - 1) + 1 \in T
    BY <2>3
  <2> QED BY <2>2, <2>4
<1> QED BY <1>1

\* The partial sums, as Total defines them
IsTotal(f, n, sum) == sum = [k \in 0 .. n |-> IF k = 0 THEN 0 ELSE sum[k - 1] + f[k - 1]]

LEMMA TotalExists ==
    ASSUME NEW f
    PROVE  \A n \in Nat : \E sum : IsTotal(f, n, sum)
<1> DEFINE T == {n \in Nat : \E sum : IsTotal(f, n, sum)}
<1>1. 0 \in T
  <2> DEFINE none == [k \in 0 .. 0 |-> 0]
  <2>1. \A k \in 0 .. 0 : k = 0
    OBVIOUS
  <2>2. IsTotal(f, 0, none)
    BY <2>1 DEF IsTotal
  <2> QED BY <2>2
<1>2. ASSUME NEW n \in T PROVE n + 1 \in T
  <2>1. PICK sum : IsTotal(f, n, sum)
    OBVIOUS
  <2> DEFINE more == [k \in 0 .. n + 1 |-> IF k = n + 1 THEN sum[n] + f[n] ELSE sum[k]]
  <2>2. n \in Nat
    OBVIOUS
  <2>3. \A k \in 0 .. n : sum[k] = IF k = 0 THEN 0 ELSE sum[k - 1] + f[k - 1]
    BY <2>1 DEF IsTotal
  <2>4. ASSUME NEW k \in 0 .. n + 1
        PROVE  more[k] = IF k = 0 THEN 0 ELSE more[k - 1] + f[k - 1]
    <3>1. CASE k = n + 1
      <4>1. k - 1 = n /\ n \in 0 .. n + 1 /\ n # n + 1 /\ k # 0
        BY <2>2, <3>1
      <4>2. more[k] = sum[n] + f[n] /\ more[n] = sum[n]
        BY <3>1, <4>1
      <4> HIDE DEF more
      <4> QED BY <4>1, <4>2
    <3>2. CASE k # n + 1
      <4>1. k \in 0 .. n
        BY <2>2, <3>2
      <4>2. CASE k = 0
        BY <2>2, <2>3, <3>2, <4>1, <4>2
      <4>3. CASE k # 0
        <5>1. k - 1 \in 0 .. n + 1 /\ k - 1 # n + 1
          BY <2>2, <4>1, <4>3
        <5>2. more[k - 1] = sum[k - 1] /\ more[k] = sum[k]
          BY <3>2, <5>1
        <5> HIDE DEF more
        <5> QED BY <2>3, <4>1, <4>3, <5>2
      <4> QED BY <4>2, <4>3
    <3> QED BY <3>1, <3>2
  <2>5. more = [k \in 0 .. n + 1 |-> more[k]]
    OBVIOUS
  <2> HIDE DEF more
  <2>6. [k \in 0 .. n + 1 |-> more[k]] =
          [k \in 0 .. n + 1 |-> IF k = 0 THEN 0 ELSE more[k - 1] + f[k - 1]]
    BY <2>4, Zenon
  <2>7. IsTotal(f, n + 1, more)
    BY <2>5, <2>6, Zenon DEF IsTotal
  <2> QED BY <2>2, <2>7
<1> HIDE DEF T
<1>3. \A n \in Nat : n \in T
  BY <1>1, <1>2, AllNumbers DEF T
<1> QED BY <1>3 DEF T

LEMMA OneTotal ==
    ASSUME NEW f, NEW n \in Nat, NEW m \in Nat, m <= n, NEW s, NEW t, IsTotal(f, n, s), IsTotal(f, m, t)
    PROVE  s[m] = t[m]
<1> DEFINE T == {k \in Nat : k <= m => s[k] = t[k]}
<1>1. \A k \in 0 .. n : s[k] = IF k = 0 THEN 0 ELSE s[k - 1] + f[k - 1]
  BY DEF IsTotal
<1>2. \A k \in 0 .. m : t[k] = IF k = 0 THEN 0 ELSE t[k - 1] + f[k - 1]
  BY DEF IsTotal
<1>3. 0 \in T
  BY <1>1, <1>2
<1>4. ASSUME NEW k \in T PROVE k + 1 \in T
  <2> SUFFICES ASSUME k + 1 <= m PROVE s[k + 1] = t[k + 1]
    OBVIOUS
  <2>1. k + 1 \in 0 .. m /\ k + 1 \in 0 .. n /\ k + 1 # 0 /\ (k + 1) - 1 = k /\ k <= m
    OBVIOUS
  <2>2. s[k] = t[k]
    BY <2>1
  <2> QED BY <1>1, <1>2, <2>1, <2>2
<1> HIDE DEF T
<1>5. m \in T
  BY <1>3, <1>4, AllNumbers DEF T
<1> QED BY <1>5 DEF T

\* Total goes over one number after the other.
LEMMA TotalNext ==
    ASSUME NEW f
    PROVE  /\ Total(f, 0) = 0
           /\ \A n \in Nat : Total(f, n + 1) = Total(f, n) + f[n]
<1> DEFINE sums(n) == CHOOSE sum : IsTotal(f, n, sum)
<1>1. \A n \in Nat : IsTotal(f, n, sums(n))
  BY TotalExists, Zenon
<1>2. \A n : Total(f, n) = sums(n)[n]
  BY DEF Total, IsTotal
<1> HIDE DEF sums
<1>3. Total(f, 0) = 0
  <2>1. sums(0)[0] = 0
    BY <1>1 DEF IsTotal
  <2> QED BY <1>2, <2>1
<1>4. ASSUME NEW n \in Nat
      PROVE  Total(f, n + 1) = Total(f, n) + f[n]
  <2> DEFINE s == sums(n + 1)
  <2>1. IsTotal(f, n + 1, s) /\ IsTotal(f, n, sums(n))
    BY <1>1
  <2> HIDE DEF s
  <2>2. \A k \in 0 .. n + 1 : s[k] = IF k = 0 THEN 0 ELSE s[k - 1] + f[k - 1]
    BY <2>1 DEF IsTotal
  <2>3. n + 1 \in 0 .. n + 1 /\ n + 1 # 0 /\ (n + 1) - 1 = n
    OBVIOUS
  <2>4. s[n + 1] = s[n] + f[n]
    BY <2>2, <2>3
  <2>5. n + 1 \in Nat /\ n <= n + 1
    OBVIOUS
  <2>6. s[n] = sums(n)[n]
    BY <2>1, <2>5, OneTotal
  <2> QED BY <1>2, <2>4, <2>6 DEF s
<1> QED BY <1>3, <1>4

\* Sums of numbers are numbers, and grow with what is summed.
LEMMA TotalGrows ==
    ASSUME NEW n \in Nat, NEW f, NEW g,
           \A i \in 0 .. n - 1 : f[i] \in Nat /\ g[i] \in Nat /\ f[i] <= g[i]
    PROVE  Total(f, n) \in Nat /\ Total(g, n) \in Nat /\ Total(f, n) <= Total(g, n)
<1> DEFINE T == {k \in Nat : k <= n => /\ Total(f, k) \in Nat /\ Total(g, k) \in Nat
                                       /\ Total(f, k) <= Total(g, k)}
<1>1. 0 \in T
  BY TotalNext
<1>2. ASSUME NEW k \in T PROVE k + 1 \in T
  <2>1. k + 1 <= n => k \in 0 .. n - 1 /\ k <= n
    OBVIOUS
  <2> QED BY <2>1, TotalNext
<1> HIDE DEF T
<1>3. n \in T
  BY <1>1, <1>2, AllNumbers DEF T
<1> QED BY <1>3 DEF T

LEMMA TotalType ==
    ASSUME NEW n \in Nat, NEW f, \A i \in 0 .. n - 1 : f[i] \in Nat
    PROVE  Total(f, n) \in Nat
BY TotalGrows

\* Only what is summed counts.
LEMMA TotalSame ==
    ASSUME NEW n \in Nat, NEW f, NEW g, \A i \in 0 .. n - 1 : f[i] = g[i]
    PROVE  Total(f, n) = Total(g, n)
<1> DEFINE T == {k \in Nat : k <= n => Total(f, k) = Total(g, k)}
<1>1. 0 \in T
  BY TotalNext
<1>2. ASSUME NEW k \in T PROVE k + 1 \in T
  <2>1. k + 1 <= n => k \in 0 .. n - 1 /\ k <= n
    OBVIOUS
  <2> QED BY <2>1, TotalNext
<1> HIDE DEF T
<1>3. n \in T
  BY <1>1, <1>2, AllNumbers DEF T
<1> QED BY <1>3 DEF T

\* Sums are linear.
LEMMA TotalPlus ==
    ASSUME NEW n \in Nat, NEW f, NEW g, NEW h,
           \A i \in 0 .. n - 1 : f[i] \in Nat /\ g[i] \in Nat /\ h[i] = f[i] + g[i]
    PROVE  Total(h, n) = Total(f, n) + Total(g, n)
<1> DEFINE T == {k \in Nat : k <= n => /\ Total(f, k) \in Nat /\ Total(g, k) \in Nat
                                       /\ Total(h, k) = Total(f, k) + Total(g, k)}
<1>1. 0 \in T
  BY TotalNext
<1>2. ASSUME NEW k \in T PROVE k + 1 \in T
  <2>1. k + 1 <= n => k \in 0 .. n - 1 /\ k <= n
    OBVIOUS
  <2> QED BY <2>1, TotalNext
<1> HIDE DEF T
<1>3. n \in T
  BY <1>1, <1>2, AllNumbers DEF T
<1> QED BY <1>3 DEF T

LEMMA TotalTimes ==
    ASSUME NEW n \in Nat, NEW c \in Nat, NEW f, \A i \in 0 .. n - 1 : f[i] \in Nat
    PROVE  Total([i \in 0 .. n - 1 |-> c * f[i]], n) = c * Total(f, n)
<1> DEFINE h == [i \in 0 .. n - 1 |-> c * f[i]]
<1>0. \A i \in 0 .. n - 1 : f[i] \in Nat /\ h[i] = c * f[i]
  OBVIOUS
<1> HIDE DEF h
<1> DEFINE T == {k \in Nat : k <= n => Total(f, k) \in Nat /\ Total(h, k) = c * Total(f, k)}
<1>1. 0 \in T
  BY TotalNext
<1>2. ASSUME NEW k \in T PROVE k + 1 \in T
  <2> SUFFICES ASSUME k + 1 <= n
               PROVE  Total(f, k + 1) \in Nat /\ Total(h, k + 1) = c * Total(f, k + 1)
    OBVIOUS
  <2>1. k \in 0 .. n - 1 /\ k \in Nat
    OBVIOUS
  <2>2. Total(f, k) \in Nat /\ Total(h, k) = c * Total(f, k) /\ f[k] \in Nat /\ h[k] = c * f[k]
    BY <1>0, <2>1
  <2>3. Total(f, k + 1) = Total(f, k) + f[k] /\ Total(h, k + 1) = Total(h, k) + h[k]
    BY <2>1, TotalNext
  <2>4. \A a, b \in Nat : c * (a + b) = c * a + c * b
    OBVIOUS
  <2> QED BY <2>2, <2>3, <2>4
<1> HIDE DEF T
<1>3. n \in T
  BY <1>1, <1>2, AllNumbers DEF T
<1> QED BY <1>3 DEF T, h

\* Nothing summed is nothing.
LEMMA TotalNothing ==
    ASSUME NEW n \in Nat, NEW f, \A i \in 0 .. n - 1 : f[i] = 0
    PROVE  Total(f, n) = 0
<1> DEFINE T == {k \in Nat : k <= n => Total(f, k) = 0}
<1>1. 0 \in T
  BY TotalNext
<1>2. ASSUME NEW k \in T PROVE k + 1 \in T
  <2>1. k + 1 <= n => k \in 0 .. n - 1 /\ k <= n
    OBVIOUS
  <2> QED BY <2>1, TotalNext
<1> HIDE DEF T
<1>3. n \in T
  BY <1>1, <1>2, AllNumbers DEF T
<1> QED BY <1>3 DEF T

\* A sum of one number
LEMMA TotalOne ==
    ASSUME NEW n \in Nat, NEW p \in 0 .. n - 1, NEW f, f[p] \in Nat,
           \A i \in 0 .. n - 1 : i # p => f[i] = 0
    PROVE  Total(f, n) = f[p]
<1> DEFINE T == {k \in Nat : k <= n => Total(f, k) = IF p < k THEN f[p] ELSE 0}
<1>1. 0 \in T
  BY TotalNext
<1>2. ASSUME NEW k \in T PROVE k + 1 \in T
  <2> SUFFICES ASSUME k + 1 <= n PROVE Total(f, k + 1) = IF p < k + 1 THEN f[p] ELSE 0
    OBVIOUS
  <2>1. k \in Nat /\ k \in 0 .. n - 1 /\ k <= n
    OBVIOUS
  <2>2. Total(f, k) = IF p < k THEN f[p] ELSE 0
    BY <2>1
  <2>3. Total(f, k + 1) = Total(f, k) + f[k]
    BY <2>1, TotalNext
  <2> HIDE DEF T
  <2> QED BY <2>1, <2>2, <2>3
<1> HIDE DEF T
<1>3. n \in T
  BY <1>1, <1>2, AllNumbers DEF T
<1> QED BY <1>3 DEF T

\* A sum up to i and what comes next are no more than a sum that goes further.
LEMMA TotalPart ==
    ASSUME NEW n \in Nat, NEW f, \A j \in 0 .. n - 1 : f[j] \in Nat, NEW i \in 0 .. n - 1
    PROVE  /\ Total(f, i) \in Nat /\ f[i] \in Nat /\ Total(f, n) \in Nat
           /\ Total(f, i) + f[i] <= Total(f, n) /\ f[i] <= Total(f, n)
<1> DEFINE T == {k \in Nat : i + 1 + k <= n =>
                              /\ Total(f, i + 1 + k) \in Nat
                              /\ Total(f, i) + f[i] <= Total(f, i + 1 + k)}
<1>0. i \in Nat /\ i + 1 \in Nat
  OBVIOUS
<1>1. Total(f, i) \in Nat /\ f[i] \in Nat /\ Total(f, i + 1) = Total(f, i) + f[i]
  <2>1. \A j \in 0 .. i - 1 : f[j] \in Nat
    OBVIOUS
  <2>2. Total(f, i) \in Nat
    BY <1>0, <2>1, TotalType
  <2>3. Total(f, i + 1) = Total(f, i) + f[i]
    BY <1>0, TotalNext
  <2> QED BY <2>2, <2>3
<1>2. 0 \in T
  BY <1>1
<1>3. ASSUME NEW k \in T PROVE k + 1 \in T
  <2> SUFFICES ASSUME i + 1 + (k + 1) <= n
               PROVE  /\ Total(f, i + 1 + (k + 1)) \in Nat
                      /\ Total(f, i) + f[i] <= Total(f, i + 1 + (k + 1))
    OBVIOUS
  <2> DEFINE m == i + 1 + k
  <2>1. m \in 0 .. n - 1 /\ m \in Nat /\ i + 1 + (k + 1) = m + 1
    OBVIOUS
  <2>2. Total(f, m) \in Nat /\ Total(f, i) + f[i] <= Total(f, m)
    OBVIOUS
  <2> HIDE DEF m, T
  <2>3. f[m] \in Nat
    BY <2>1
  <2>4. Total(f, m + 1) = Total(f, m) + f[m]
    BY <2>1, TotalNext
  <2> QED BY <1>1, <2>1, <2>2, <2>3, <2>4
<1> HIDE DEF T
<1>4. n - (i + 1) \in T
  <2>1. n - (i + 1) \in Nat
    OBVIOUS
  <2> QED BY <1>2, <1>3, <2>1, AllNumbers DEF T
<1>5. i + 1 + (n - (i + 1)) = n
  OBVIOUS
<1> QED BY <1>1, <1>4, <1>5 DEF T

-----------------------------------------------------------------------------
(* Greatest and least numbers                                              *)

LEMMA MaxOfTwo ==
    ASSUME NEW a \in Int, NEW b \in Int
    PROVE  /\ Max({a, b}) = IF a >= b THEN a ELSE b
           /\ Min({a, b}) = IF a <= b THEN a ELSE b
<1>1. \E x \in {a, b} : \A y \in {a, b} : x >= y
  OBVIOUS
<1>2. \E x \in {a, b} : \A y \in {a, b} : x <= y
  OBVIOUS
<1>3. Max({a, b}) \in {a, b} /\ \A y \in {a, b} : Max({a, b}) >= y
  BY <1>1 DEF Max
<1>4. Min({a, b}) \in {a, b} /\ \A y \in {a, b} : Min({a, b}) <= y
  BY <1>2 DEF Min
<1> QED BY <1>3, <1>4

\* A set of numbers below a bound has a greatest one.
LEMMA GreatestNumber ==
    ASSUME NEW T \in SUBSET Nat, T # {}, NEW b \in Nat, \A x \in T : x <= b
    PROVE  /\ \E x \in T : \A y \in T : y <= x
           /\ Max(T) \in T /\ \A y \in T : y <= Max(T)
<1> DEFINE D == {n \in Nat : \E x \in T : n = b - x}
<1>1. D # {} /\ D \in SUBSET Nat
  <2>1. PICK x \in T : TRUE
    OBVIOUS
  <2>2. x \in Nat /\ x <= b
    OBVIOUS
  <2>3. b - x \in Nat
    BY <2>2
  <2> QED BY <2>1, <2>3
<1>2. PICK n \in D : \A m \in D : n <= m
  BY <1>1, LeastNumber
<1>3. PICK x \in T : n = b - x
  OBVIOUS
<1>4. ASSUME NEW y \in T PROVE y <= x
  <2>1. y \in Nat /\ x \in Nat /\ y <= b
    OBVIOUS
  <2>2. b - y \in D
    BY <2>1
  <2>3. b - x <= b - y
    BY <1>2, <1>3, <2>2
  <2> QED BY <2>1, <2>3
<1>5. \E z \in T : \A y \in T : z >= y
  BY <1>4
<1>6. Max(T) \in T /\ \A y \in T : Max(T) >= y
  BY <1>5 DEF Max
<1> QED BY <1>4, <1>6

-----------------------------------------------------------------------------
(* The arguments of the layout                                             *)

\* What is known of the devices and of the terminal.
InputFacts ==
    /\ N \in Nat \ {0}
    /\ \A d \in Devices : Draw(d) \in 0 .. MaxLines
    /\ in.rows \in Nat \ {0} /\ in.rows < UintMod
    /\ in.cols \in Nat \ {0} /\ in.cols < UintMod
    /\ in.fields \in BOOLEAN /\ in.hide \in BOOLEAN

LEMMA InputIsKnown == in \in Input => InputFacts
<1> SUFFICES ASSUME in \in Input PROVE InputFacts
  OBVIOUS
<1>1. /\ in.draw \in UNION {[1 .. n -> 0 .. MaxLines] : n \in 1 .. MaxDevices}
      /\ in.rows \in Rows /\ in.cols \in Cols /\ in.fields \in BOOLEAN /\ in.hide \in BOOLEAN
  BY DEF Input
<1>2. PICK n \in 1 .. MaxDevices : in.draw \in [1 .. n -> 0 .. MaxLines]
  BY <1>1
<1>3. n \in Nat \ {0}
  BY LayoutAssumption
<1>4. N = n
  BY <1>2, <1>3 DEF N
<1>5. \A d \in Devices : Draw(d) \in 0 .. MaxLines
  <2> SUFFICES ASSUME NEW d \in Devices PROVE in.draw[d + 1] \in 0 .. MaxLines
    BY DEF Draw
  <2>1. d + 1 \in 1 .. n
    BY <1>3, <1>4 DEF Devices
  <2> QED BY <1>2, <2>1
<1>6. /\ in.rows \in Nat \ {0} /\ in.rows < UintMod
      /\ in.cols \in Nat \ {0} /\ in.cols < UintMod
  BY <1>1, LayoutAssumption
<1> QED BY <1>1, <1>3, <1>4, <1>5, <1>6 DEF InputFacts

\* The arguments after the terminal or the options have changed
LEMMA InputChanges ==
    ASSUME in \in Input
    PROVE  /\ \A r \in Rows : [in EXCEPT !.rows = r] \in Input
           /\ \A c \in Cols : [in EXCEPT !.cols = c] \in Input
           /\ \A b \in BOOLEAN : [in EXCEPT !.fields = b] \in Input
           /\ [in EXCEPT !.hide = ~@] \in Input
           /\ \A d \in 1 .. N, k \in 0 .. MaxLines : [in EXCEPT !.draw[d] = k] \in Input
<1>1. PICK n \in 1 .. MaxDevices : in.draw \in [1 .. n -> 0 .. MaxLines]
  BY DEF Input
<1>2. \A d \in 1 .. N, k \in 0 .. MaxLines : [in.draw EXCEPT ![d] = k] \in [1 .. n -> 0 .. MaxLines]
  BY <1>1
<1>3. \A d \in 1 .. N, k \in 0 .. MaxLines : [in EXCEPT !.draw[d] = k] \in Input
  <2> SUFFICES ASSUME NEW d \in 1 .. N, NEW k \in 0 .. MaxLines PROVE [in EXCEPT !.draw[d] = k] \in Input
    OBVIOUS
  <2> DEFINE new == [in.draw EXCEPT ![d] = k]
             draws == UNION {[1 .. m -> 0 .. MaxLines] : m \in 1 .. MaxDevices}
  <2>1. new \in draws
    BY <1>2
  <2>2. [in EXCEPT !.draw[d] = k] = [in EXCEPT !.draw = new]
    OBVIOUS
  <2> HIDE DEF new, draws
  <2> QED BY <2>1, <2>2 DEF Input, draws
<1> HIDE DEF N
<1> QED BY <1>3 DEF Input

-----------------------------------------------------------------------------
(* The rows                                                                *)

\* Division with a remainder
LEMMA Division ==
    ASSUME NEW a \in Nat, NEW b \in Nat \ {0}
    PROVE  a \div b \in Nat /\ a % b \in 0 .. b - 1 /\ a = b * (a \div b) + (a % b)
OBVIOUS

\* There is room for every header in the rows of headers.
LEMMA HeadersFit ==
    ASSUME InputFacts
    PROVE  /\ PerRowAtMost \in Nat \ {0} /\ header_stacks \in Nat \ {0} /\ num_device_per_row \in Nat \ {0}
           /\ N <= num_device_per_row * header_stacks
<1>1. /\ N \in Nat \ {0} /\ in.cols \in Nat
      /\ HeaderCols \in Nat \ {0}
  BY LayoutAssumption DEF InputFacts
<1> DEFINE P == PerRowAtMost
           q == N \div P
           r == N % P
           hs == header_stacks
           npr == num_device_per_row
<1> HIDE DEF N
<1>2. P \in Nat \ {0}
  <2>1. in.cols \div HeaderCols \in Nat
    BY <1>1, Division
  <2> QED BY <2>1, MaxOfTwo DEF PerRowAtMost
<1>3. q \in Nat /\ r \in 0 .. P - 1 /\ N = P * q + r
  <2> HIDE DEF P
  <2> QED BY <1>1, <1>2, Division DEF q, r
<1>4. /\ hs = Max({1, q + (IF r > 0 THEN 1 ELSE 0)})
      /\ npr = IF N % hs = 0 THEN N \div hs ELSE P
  BY DEF header_stacks, num_device_per_row
<1> HIDE DEF P, q, r, hs, npr
<1>5. hs \in Nat \ {0} /\ hs >= q + (IF r > 0 THEN 1 ELSE 0)
  BY <1>2, <1>3, <1>4, MaxOfTwo
<1>6. CASE N % hs = 0
  <2>0. N \div hs \in Nat /\ N = hs * (N \div hs) + (N % hs)
    BY <1>1, <1>5, Division
  <2>1. npr \in Nat /\ N = hs * npr + 0
    BY <1>4, <1>6, <2>0
  <2>2. npr # 0
    BY <1>1, <1>5, <2>1
  <2>3. npr * hs = hs * npr
    BY <1>5, <2>1
  <2> QED BY <1>1, <1>2, <1>5, <2>1, <2>2, <2>3 DEF P, hs, npr
<1>7. CASE N % hs # 0
  <2>1. npr = P
    BY <1>4, <1>7
  <2>2. \A a \in Nat : a <= hs => P * a <= P * hs
    BY <1>2, <1>5
  <2>3. CASE r = 0
    <3>1. P * q <= P * hs
      BY <1>3, <1>5, <2>2, <2>3
    <3> QED BY <1>2, <1>3, <1>5, <2>1, <2>3, <3>1 DEF P, hs, npr
  <2>4. CASE r > 0
    <3>1. P * (q + 1) <= P * hs
      BY <1>3, <1>5, <2>2, <2>4
    <3>2. P * (q + 1) = P * q + P
      BY <1>2, <1>3
    <3> QED BY <1>1, <1>2, <1>3, <1>5, <2>1, <2>4, <3>1, <3>2 DEF P, hs, npr
  <2> QED BY <1>2, <1>3, <2>3, <2>4
<1> QED BY <1>6, <1>7

\* The rows are shared out without rest, whether the terminal is high enough or not.
SharedOut ==
    /\ share \in [header : 0 .. in.rows, process : 0 .. in.rows, plots : 0 .. in.rows, spaced : BOOLEAN]
    /\ share.header + share.process + share.plots = in.rows

\* When a chart is shown all the headers are.
HeadersShown ==
    share.header = header_stacks * HeaderRows + (IF share.spaced THEN header_stacks - 1 ELSE 0)

LEMMA FirstRows ==
    ASSUME InputFacts
    PROVE  /\ FirstShare \in [header : 0 .. in.rows, process : 0 .. in.rows, plots : 0 .. in.rows,
                              spaced : BOOLEAN]
           /\ FirstShare.header + FirstShare.process + FirstShare.plots = in.rows
           /\ FirstShare.plots > 0 => FirstShare.header = header_stacks * HeaderRows
           /\ FirstShare.spaced = FALSE
<1> DEFINE header == header_stacks * HeaderRows
           wanted == IF in.fields THEN min_rows_taken_by_process ELSE 0
           short == in.rows < header + wanted
           shrink == short /\ in.rows >= header + 2 /\ in.fields
           headerRows == IF short /\ ~shrink THEN in.rows ELSE header
           processRows == IF in.hide \/ (short /\ ~shrink) THEN 0
                          ELSE IF shrink THEN in.rows - header ELSE wanted
           plots == in.rows - headerRows - processRows
<1>1. in.rows \in Nat \ {0} /\ N \in Nat
  BY DEF InputFacts
<1>2. header \in Nat
  BY HeadersFit, LayoutAssumption
<1>3. wanted \in Nat
  <2> DEFINE a == in.rows \div 4
             b == N * 3
             c == Min({a, b})
  <2>1. a \in Nat /\ b \in Nat
    BY <1>1, Division
  <2> HIDE DEF a, b
  <2>2. c \in Nat
    <3>1. a \in Int /\ b \in Int
      BY <2>1
    <3>2. Min({a, b}) = IF a <= b THEN a ELSE b
      BY <3>1, MaxOfTwo, Zenon
    <3> QED BY <2>1, <3>2
  <2> HIDE DEF c
  <2>3. Max({5, c}) \in Nat
    BY <2>2, MaxOfTwo
  <2>4. min_rows_taken_by_process = 1 + Max({5, c})
    BY DEF min_rows_taken_by_process, a, b, c
  <2> HIDE DEF min_rows_taken_by_process
  <2> QED BY <2>3, <2>4
<1>4. FirstShare = [header |-> headerRows, process |-> processRows, plots |-> plots, spaced |-> FALSE]
  BY DEF FirstShare
<1> HIDE DEF header, wanted
<1>5. /\ headerRows \in 0 .. in.rows /\ processRows \in 0 .. in.rows /\ plots \in 0 .. in.rows
      /\ headerRows + processRows + plots = in.rows
      /\ plots > 0 => headerRows = header
  <2>1. CASE short /\ ~shrink
    <3>1. headerRows = in.rows /\ processRows = 0
      BY <2>1
    <3>2. plots = 0
      BY <1>1, <3>1
    <3> HIDE DEF headerRows, processRows, short, shrink, plots
    <3> QED BY <1>1, <3>1, <3>2
  <2>2. CASE shrink
    <3>1. headerRows = header /\ (processRows = 0 \/ processRows = in.rows - header) /\ in.rows >= header + 2
      BY <2>2
    <3> HIDE DEF headerRows, processRows, short, shrink
    <3> QED BY <1>1, <1>2, <3>1
  <2>3. CASE ~short
    <3>1. headerRows = header /\ (processRows = 0 \/ processRows = wanted) /\ in.rows >= header + wanted
      BY <1>1, <1>2, <1>3, <2>3
    <3> HIDE DEF headerRows, processRows, short, shrink
    <3> QED BY <1>1, <1>2, <1>3, <3>1
  <2> QED BY <2>1, <2>2, <2>3
<1> HIDE DEF headerRows, processRows, plots
<1> QED BY <1>4, <1>5 DEF header

-----------------------------------------------------------------------------
(* Merging charts                                                          *)

\* The lines on chart p if the devices are on the charts m.
LinesOn(m, p) == Total([d \in Devices |-> IF m[d] = p THEN Draw(d) ELSE 0], N)

LEMMA LinesOnSummand ==
    ASSUME InputFacts, NEW m, NEW p
    PROVE  LET f == [d \in Devices |-> IF m[d] = p THEN Draw(d) ELSE 0] IN
           /\ LinesOn(m, p) = Total(f, N)
           /\ \A d \in 0 .. N - 1 : f[d] = (IF m[d] = p THEN Draw(d) ELSE 0) /\ f[d] \in Nat
           /\ N \in Nat
<1>1. N \in Nat /\ \A d \in Devices : Draw(d) \in Nat
  BY LayoutAssumption DEF InputFacts
<1>2. Devices = 0 .. N - 1
  BY DEF Devices
<1> HIDE DEF N
<1> QED BY <1>1, <1>2 DEF LinesOn

\* A device that draws something is on a chart with lines.
LEMMA DrawnIsShown ==
    ASSUME InputFacts, NEW m, NEW d \in Devices, Draw(d) > 0
    PROVE  LinesOn(m, m[d]) > 0
<1> DEFINE f == [e \in Devices |-> IF m[e] = m[d] THEN Draw(e) ELSE 0]
<1>1. /\ LinesOn(m, m[d]) = Total(f, N)
      /\ \A e \in 0 .. N - 1 : f[e] = (IF m[e] = m[d] THEN Draw(e) ELSE 0) /\ f[e] \in Nat
      /\ N \in Nat
  BY LinesOnSummand
<1> HIDE DEF f
<1>2. d \in 0 .. N - 1
  BY DEF Devices
<1>3. f[d] = Draw(d) /\ Draw(d) \in Nat
  BY <1>1, <1>2
<1>4. f[d] <= Total(f, N) /\ Total(f, N) \in Nat
  BY <1>1, <1>2, TotalPart
<1> QED BY <1>1, <1>3, <1>4

\* While the charts are placed, their lines are those of the devices on them, a
\* chart with lines is that of its first device, and the order is kept.
Merged(inf, m) ==
    /\ inf \in [Devices -> 0 .. MaxLines]
    /\ m \in [Devices -> Devices]
    /\ \A p \in Devices : inf[p] = LinesOn(m, p)
    /\ \A p \in Devices : inf[p] > 0 => m[p] = p
    /\ \A d, e \in Devices : (d < e /\ Draw(d) > 0 /\ Draw(e) > 0) => m[d] <= m[e]

\* At the start every device has a chart.
LEMMA MergedAtStart ==
    ASSUME InputFacts
    PROVE  Merged([d \in Devices |-> Draw(d)], [d \in Devices |-> d])
<1> DEFINE inf == [d \in Devices |-> Draw(d)]
           m == [d \in Devices |-> d]
<1>1. ASSUME NEW p \in Devices
      PROVE  LinesOn(m, p) = Draw(p)
  <2> DEFINE f == [d \in Devices |-> IF m[d] = p THEN Draw(d) ELSE 0]
  <2>1. /\ LinesOn(m, p) = Total(f, N)
        /\ \A d \in 0 .. N - 1 : f[d] = (IF m[d] = p THEN Draw(d) ELSE 0) /\ f[d] \in Nat
        /\ N \in Nat
    BY LinesOnSummand
  <2>2. p \in 0 .. N - 1 /\ \A d \in 0 .. N - 1 : m[d] = d
    BY DEF Devices
  <2>3. \A d \in 0 .. N - 1 : f[d] = IF d = p THEN Draw(p) ELSE 0
    BY <2>1, <2>2
  <2>4. Draw(p) \in Nat
    BY DEF InputFacts
  <2> HIDE DEF f, m, N
  <2>5. f[p] = Draw(p) /\ \A d \in 0 .. N - 1 : d # p => f[d] = 0
    BY <2>2, <2>3
  <2>6. Total(f, N) = f[p]
    BY <2>1, <2>2, <2>4, <2>5, TotalOne
  <2> QED BY <2>1, <2>5, <2>6
<1>2. inf \in [Devices -> 0 .. MaxLines] /\ m \in [Devices -> Devices]
  BY DEF InputFacts
<1>3. \A p \in Devices : inf[p] = Draw(p) /\ m[p] = p
  OBVIOUS
<1>4. \A d \in Devices : d \in Int
  BY DEF Devices
<1> HIDE DEF inf, m
<1>5. Merged(inf, m)
  BY <1>1, <1>2, <1>3, <1>4 DEF Merged
<1> QED BY <1>5 DEF inf, m

\* Two neighbours become one chart.
LEMMA MergeKeepsLines ==
    ASSUME InputFacts, Merged(info, map), NEW p \in Mergeable, Merge(p)
    PROVE  Merged(info', map')
<1> DEFINE a == p[1]
           b == p[2]
<1>1. /\ a \in Devices /\ b \in Devices /\ Neighbours(a, b) /\ info[a] + info[b] <= MaxLines
  BY DEF Mergeable
<1>2. /\ info \in [Devices -> 0 .. MaxLines] /\ map \in [Devices -> Devices]
      /\ \A q \in Devices : info[q] = LinesOn(map, q)
      /\ \A q \in Devices : info[q] > 0 => map[q] = q
      /\ \A d, e \in Devices : (d < e /\ Draw(d) > 0 /\ Draw(e) > 0) => map[d] <= map[e]
  BY DEF Merged
<1>3. \A d \in Devices : d \in Nat
  BY DEF Devices
<1>4. a < b /\ info[a] > 0 /\ info[b] > 0 /\ \A k \in a + 1 .. b - 1 : info[k] = 0
  BY <1>1 DEF Neighbours
<1>5. map[a] = a /\ map[b] = b /\ a # b
  BY <1>1, <1>2, <1>3, <1>4
<1>6. info' = [info EXCEPT ![a] = @ + info[b], ![b] = 0]
  BY DEF Merge
<1>7. map' = [d \in Devices |-> IF map[d] = b THEN a ELSE map[d]]
  BY <1>5 DEF Merge
<1> HIDE DEF a, b
<1>8. /\ info'[a] = info[a] + info[b] /\ info'[b] = 0
      /\ \A q \in Devices \ {a, b} : info'[q] = info[q]
  BY <1>1, <1>2, <1>5, <1>6
<1>9. \A d \in Devices : map'[d] = IF map[d] = b THEN a ELSE map[d]
  BY <1>7
<1>10. /\ info' \in [Devices -> 0 .. MaxLines] /\ map' \in [Devices -> Devices]
  <2>1. info[a] \in Nat /\ info[b] \in Nat /\ info[a] + info[b] \in 0 .. MaxLines /\ 0 \in 0 .. MaxLines
    BY <1>1, <1>2, LayoutAssumption
  <2>2. info' \in [Devices -> 0 .. MaxLines]
    BY <1>2, <1>6, <2>1
  <2>3. map' \in [Devices -> Devices]
    BY <1>1, <1>2, <1>7
  <2> QED BY <2>2, <2>3
<1>11. ASSUME NEW q \in Devices
       PROVE  info'[q] = LinesOn(map', q)
  <2> DEFINE f(x) == [d \in Devices |-> IF map[d] = x THEN Draw(d) ELSE 0]
             h(x) == [d \in Devices |-> IF map'[d] = x THEN Draw(d) ELSE 0]
  <2>3. N \in Nat /\ Devices = 0 .. N - 1 /\ \A d \in Devices : Draw(d) \in Nat
    BY DEF InputFacts, Devices
  <2>1. \A x : /\ LinesOn(map, x) = Total(f(x), N)
               /\ \A d \in 0 .. N - 1 : f(x)[d] = (IF map[d] = x THEN Draw(d) ELSE 0) /\ f(x)[d] \in Nat
    <3> HIDE DEF N
    <3> QED BY <2>3 DEF LinesOn
  <2>2. \A x : /\ LinesOn(map', x) = Total(h(x), N)
               /\ \A d \in 0 .. N - 1 : h(x)[d] = (IF map'[d] = x THEN Draw(d) ELSE 0) /\ h(x)[d] \in Nat
    <3> HIDE DEF N
    <3> QED BY <2>3 DEF LinesOn
  <2> HIDE DEF f, h, N
  <2>4. CASE q = a
    <3>1. \A d \in 0 .. N - 1 : f(a)[d] \in Nat /\ f(b)[d] \in Nat /\ h(a)[d] = f(a)[d] + f(b)[d]
      <4> TAKE d \in 0 .. N - 1
      <4>1. f(a)[d] \in Nat /\ f(b)[d] \in Nat /\ d \in Devices
        BY <2>1, <2>3
      <4>2. /\ f(a)[d] = (IF map[d] = a THEN Draw(d) ELSE 0) /\ f(b)[d] = (IF map[d] = b THEN Draw(d) ELSE 0)
            /\ h(a)[d] = (IF map'[d] = a THEN Draw(d) ELSE 0)
        BY <2>1, <2>2
      <4>3. map'[d] = IF map[d] = b THEN a ELSE map[d]
        BY <1>9, <4>1
      <4>4. CASE map[d] = b
        BY <1>5, <4>1, <4>2, <4>3, <4>4
      <4>5. CASE map[d] # b
        BY <4>1, <4>2, <4>3, <4>5
      <4> QED BY <4>4, <4>5
    <3>2. Total(h(a), N) = Total(f(a), N) + Total(f(b), N)
      BY <2>3, <3>1, TotalPlus
    <3> QED BY <1>1, <1>2, <1>8, <2>1, <2>2, <2>4, <3>2
  <2>5. CASE q = b
    <3>1. \A d \in 0 .. N - 1 : h(b)[d] = 0
      BY <1>5, <1>9, <2>2, <2>3
    <3>2. Total(h(b), N) = 0
      BY <2>3, <3>1, TotalNothing
    <3> QED BY <1>8, <2>2, <2>5, <3>2
  <2>6. CASE q # a /\ q # b
    <3>1. \A d \in 0 .. N - 1 : h(q)[d] = f(q)[d]
      BY <1>9, <2>1, <2>2, <2>3, <2>6
    <3>2. Total(h(q), N) = Total(f(q), N)
      BY <2>3, <3>1, TotalSame
    <3> QED BY <1>2, <1>8, <2>1, <2>2, <2>6, <3>2
  <2> QED BY <2>4, <2>5, <2>6
<1>12. \A q \in Devices : info'[q] > 0 => map'[q] = q
  BY <1>1, <1>2, <1>3, <1>5, <1>8, <1>9
<1>13. ASSUME NEW d \in Devices, NEW e \in Devices, d < e, Draw(d) > 0, Draw(e) > 0
       PROVE  map'[d] <= map'[e]
  <2>1. map[d] <= map[e] /\ map[d] \in Nat /\ map[e] \in Nat /\ a \in Nat /\ b \in Nat
    BY <1>1, <1>2, <1>3, <1>13
  <2>2. info[map[d]] > 0
    BY <1>2, <1>13, DrawnIsShown
  <2>3. map[d] <= a \/ map[d] >= b
    BY <1>4, <2>1, <2>2
  <2> QED BY <1>4, <1>9, <2>1, <2>3
<1> QED BY <1>10, <1>11, <1>12, <1>13 DEF Merged

\* When two charts can be merged, who_to_merge finds such a pair.
LEMMA WhoToMerge ==
    ASSUME Merged(info, map), InputFacts, Mergeable # {}
    PROVE  who_to_merge \in Mergeable
<1> DEFINE sum(p) == info[p[1]] + info[p[2]]
           best(p) == \A q \in Mergeable : sum(p) < sum(q) \/ (sum(p) = sum(q) /\ q[2] <= p[2])
           sums == {n \in Nat : \E p \in Mergeable : n = sum(p)}
<1>1. \A p \in Mergeable : sum(p) \in Nat /\ p[2] \in Nat /\ p[2] <= N /\ N \in Nat
  <2> SUFFICES ASSUME NEW p \in Mergeable
               PROVE  sum(p) \in Nat /\ p[2] \in Nat /\ p[2] <= N /\ N \in Nat
    OBVIOUS
  <2>1. p[1] \in Devices /\ p[2] \in Devices
    BY DEF Mergeable
  <2>2. info[p[1]] \in 0 .. MaxLines /\ info[p[2]] \in 0 .. MaxLines
    BY <2>1 DEF Merged
  <2>3. sum(p) \in Nat
    BY <2>2
  <2>4. N \in Nat
    BY DEF InputFacts
  <2> HIDE DEF N, sum
  <2> QED BY <2>1, <2>3, <2>4 DEF Devices
<1> HIDE DEF sum, N
<1>2. sums # {} /\ sums \in SUBSET Nat
  BY <1>1
<1>3. PICK least \in sums : \A n \in sums : least <= n
  BY <1>2, LeastNumber
<1> DEFINE seconds == {k \in Nat : \E p \in Mergeable : sum(p) = least /\ k = p[2]}
<1>4. seconds # {} /\ seconds \in SUBSET Nat
  BY <1>1
<1>5. PICK k \in seconds : \A j \in seconds : j <= k
  <2>1. N \in Nat /\ \A j \in seconds : j <= N
    BY <1>1
  <2> QED BY <1>4, <2>1, GreatestNumber
<1>6. PICK p \in Mergeable : sum(p) = least /\ k = p[2]
  BY <1>5
<1>7. best(p)
  <2> SUFFICES ASSUME NEW q \in Mergeable PROVE sum(p) < sum(q) \/ (sum(p) = sum(q) /\ q[2] <= p[2])
    OBVIOUS
  <2>1. sum(q) \in sums /\ least <= sum(q) /\ least \in Nat /\ sum(q) \in Nat
    BY <1>1, <1>3
  <2>2. CASE sum(q) = least
    <3>1. q[2] \in seconds
      BY <1>1, <2>2
    <3> QED BY <1>5, <1>6, <2>2, <3>1
  <2>3. CASE sum(q) # least
    BY <1>6, <2>1, <2>3
  <2> QED BY <2>2, <2>3
<1>8. who_to_merge = CHOOSE r \in Mergeable : best(r)
  BY DEF who_to_merge, sum
<1> HIDE DEF best
<1> QED BY <1>6, <1>7, <1>8

-----------------------------------------------------------------------------
(* Numbering the charts                                                    *)

\* Renumbered counts the charts with lines.
LEMMA RenumberedNext ==
    /\ Renumbered(0) = 0
    /\ \A k \in Nat : /\ Renumbered(k) \in Nat
                      /\ Renumbered(k + 1) = Renumbered(k) + (IF info[k] > 0 THEN 1 ELSE 0)
<1> DEFINE S(k) == {j \in 0 .. k - 1 : info[j] > 0}
<1>1. \A k : Renumbered(k) = Cardinality(S(k))
  BY DEF Renumbered
<1>2. \A k \in Nat : IsFiniteSet(S(k)) /\ Cardinality(S(k)) \in Nat
  <2> SUFFICES ASSUME NEW k \in Nat PROVE IsFiniteSet(S(k)) /\ Cardinality(S(k)) \in Nat
    OBVIOUS
  <2>1. IsFiniteSet(0 .. k - 1)
    BY FS_Interval
  <2>2. S(k) \in SUBSET (0 .. k - 1)
    OBVIOUS
  <2> QED BY <2>1, <2>2, FS_Subset, FS_CardinalityType
<1>3. Renumbered(0) = 0
  <2>1. S(0) = {}
    OBVIOUS
  <2> QED BY <1>1, <2>1, FS_EmptySet
<1>4. ASSUME NEW k \in Nat
      PROVE  Renumbered(k + 1) = Renumbered(k) + (IF info[k] > 0 THEN 1 ELSE 0)
  <2>1. CASE info[k] > 0
    <3>1. S(k + 1) = S(k) \cup {k} /\ k \notin S(k)
      BY <2>1
    <3> HIDE DEF S
    <3>2. Cardinality(S(k + 1)) = Cardinality(S(k)) + 1
      BY <1>2, <3>1, FS_AddElement
    <3> QED BY <1>1, <2>1, <3>2
  <2>2. CASE ~(info[k] > 0)
    <3>1. S(k + 1) = S(k)
      BY <2>2
    <3> HIDE DEF S
    <3> QED BY <1>1, <1>2, <2>2, <3>1
  <2> QED BY <2>1, <2>2
<1> HIDE DEF S
<1> QED BY <1>1, <1>2, <1>3, <1>4

\* Moving the empty charts away keeps the order of the others, and leaves no
\* number without a chart.
LEMMA RenumberedOrder ==
    /\ \A i, j \in Nat : i <= j => Renumbered(i) <= Renumbered(j)
    /\ \A i, j \in Nat : i < j /\ info[i] > 0 => Renumbered(i) < Renumbered(j)
    /\ \A k \in Nat : Renumbered(k) <= k
    /\ \A k \in Nat : \A p \in 0 .. Renumbered(k) - 1 :
          \E i \in 0 .. k - 1 : info[i] > 0 /\ Renumbered(i) = p
<1>1. ASSUME NEW i \in Nat, NEW j \in Nat, i <= j PROVE Renumbered(i) <= Renumbered(j)
  <2> DEFINE T == {m \in Nat : Renumbered(i) <= Renumbered(i + m)}
  <2>1. 0 \in T
    <3>1. Renumbered(i) \in Nat /\ i + 0 = i
      BY RenumberedNext
    <3> QED BY <3>1
  <2>2. ASSUME NEW m \in T PROVE m + 1 \in T
    <3>1. i + m \in Nat /\ i + (m + 1) = (i + m) + 1 /\ Renumbered(i) <= Renumbered(i + m)
      OBVIOUS
    <3>2. Renumbered(i) \in Nat /\ Renumbered(i + m) \in Nat /\ Renumbered((i + m) + 1) >= Renumbered(i + m)
      BY <3>1, RenumberedNext
    <3> QED BY <3>1, <3>2, RenumberedNext
  <2> HIDE DEF T
  <2>3. j - i \in Nat /\ i + (j - i) = j
    BY <1>1
  <2>4. j - i \in T
    BY <2>1, <2>2, <2>3, AllNumbers DEF T
  <2> QED BY <2>3, <2>4 DEF T
<1>2. ASSUME NEW i \in Nat, NEW j \in Nat, i < j, info[i] > 0 PROVE Renumbered(i) < Renumbered(j)
  <2>1. Renumbered(i + 1) = Renumbered(i) + 1 /\ Renumbered(i) \in Nat /\ Renumbered(j) \in Nat
    BY <1>2, RenumberedNext
  <2>2. i + 1 \in Nat /\ i + 1 <= j
    BY <1>2
  <2>3. Renumbered(i + 1) <= Renumbered(j)
    BY <1>1, <2>2
  <2> QED BY <2>1, <2>3
<1>3. \A k \in Nat : Renumbered(k) <= k
  <2> DEFINE T == {m \in Nat : Renumbered(m) <= m}
  <2>1. 0 \in T
    BY RenumberedNext
  <2>2. ASSUME NEW m \in T PROVE m + 1 \in T
    <3>1. m \in Nat /\ Renumbered(m) <= m /\ Renumbered(m) \in Nat
      BY RenumberedNext
    <3> QED BY <3>1, RenumberedNext
  <2> HIDE DEF T
  <2>3. \A m \in Nat : m \in T
    BY <2>1, <2>2, AllNumbers DEF T
  <2> QED BY <2>3 DEF T
<1>4. \A k \in Nat : \A p \in 0 .. Renumbered(k) - 1 :
         \E i \in 0 .. k - 1 : info[i] > 0 /\ Renumbered(i) = p
  <2> DEFINE Hit(k, p) == \E i \in 0 .. k - 1 : info[i] > 0 /\ Renumbered(i) = p
             T == {k \in Nat : \A p \in 0 .. Renumbered(k) - 1 : Hit(k, p)}
  <2>1. 0 \in T
    <3>1. 0 .. Renumbered(0) - 1 = {}
      BY RenumberedNext
    <3> QED BY <3>1
  <2>2. ASSUME NEW k \in T PROVE k + 1 \in T
    <3> SUFFICES ASSUME NEW p \in 0 .. Renumbered(k + 1) - 1 PROVE Hit(k + 1, p)
      OBVIOUS
    <3>1. k \in Nat /\ \A q \in 0 .. Renumbered(k) - 1 : Hit(k, q)
      OBVIOUS
    <3>2. Renumbered(k) \in Nat /\ Renumbered(k + 1) = Renumbered(k) + (IF info[k] > 0 THEN 1 ELSE 0)
      BY <3>1, RenumberedNext
    <3>3. CASE p \in 0 .. Renumbered(k) - 1
      <4>1. PICK i \in 0 .. k - 1 : info[i] > 0 /\ Renumbered(i) = p
        BY <3>1, <3>3
      <4>2. i \in 0 .. (k + 1) - 1
        BY <3>1
      <4> QED BY <4>1, <4>2
    <3>4. CASE p \notin 0 .. Renumbered(k) - 1
      <4>1. info[k] > 0 /\ p = Renumbered(k)
        BY <3>2, <3>4
      <4>2. k \in 0 .. (k + 1) - 1
        BY <3>1
      <4> QED BY <4>1, <4>2
    <3> QED BY <3>3, <3>4
  <2> HIDE DEF T
  <2>3. \A k \in Nat : k \in T
    BY <2>1, <2>2, AllNumbers DEF T
  <2> QED BY <2>3 DEF T
<1> QED BY <1>1, <1>2, <1>3, <1>4

\* The lines of the chart that gets the number p.
LinesOfNumber(p) == info[CHOOSE k \in Devices : info[k] > 0 /\ Renumbered(k) = p]

LEMMA LinesOfRenumbered ==
    ASSUME NEW k \in Devices, info[k] > 0
    PROVE  LinesOfNumber(Renumbered(k)) = info[k]
<1>1. \A d \in Devices : d \in Nat
  BY DEF Devices
<1> DEFINE c == CHOOSE j \in Devices : info[j] > 0 /\ Renumbered(j) = Renumbered(k)
<1>2. c \in Devices /\ info[c] > 0 /\ Renumbered(c) = Renumbered(k)
  OBVIOUS
<1> HIDE DEF c
<1>3. Renumbered(c) \in Nat /\ Renumbered(k) \in Nat
  BY <1>1, <1>2, RenumberedNext
<1>4. ~(c < k) /\ ~(k < c)
  BY <1>1, <1>2, <1>3, RenumberedOrder
<1>5. c = k
  BY <1>1, <1>2, <1>4
<1> QED BY <1>5 DEF LinesOfNumber, c

-----------------------------------------------------------------------------
(* One pass over the charts                                                *)

FirstPass == [out |-> "ok", stacks |-> 1, used |-> 0, at |-> <<>>, left |-> share.plots - min_plot_rows]

IsPass(n, pass) ==
    pass = [k \in 0 .. n |-> IF k = 0 THEN FirstPass ELSE PlaceOne(pass[k - 1], k - 1)]

LEMMA PassExists == \A n \in Nat : \E pass : IsPass(n, pass)
<1> DEFINE T == {n \in Nat : \E pass : IsPass(n, pass)}
<1>1. 0 \in T
  <2> DEFINE none == [k \in 0 .. 0 |-> FirstPass]
  <2>1. \A k \in 0 .. 0 : k = 0
    OBVIOUS
  <2>2. IsPass(0, none)
    BY <2>1 DEF IsPass
  <2> QED BY <2>2
<1>2. ASSUME NEW n \in T PROVE n + 1 \in T
  <2>1. PICK pass : IsPass(n, pass)
    OBVIOUS
  <2> DEFINE next1 == PlaceOne(pass[n], n)
             more == [k \in 0 .. n + 1 |-> IF k = n + 1 THEN next1 ELSE pass[k]]
  <2>2. n \in Nat
    OBVIOUS
  <2>3. \A k \in 0 .. n : pass[k] = IF k = 0 THEN FirstPass ELSE PlaceOne(pass[k - 1], k - 1)
    BY <2>1 DEF IsPass
  <2> HIDE DEF next1
  <2>4. ASSUME NEW k \in 0 .. n + 1
        PROVE  more[k] = IF k = 0 THEN FirstPass ELSE PlaceOne(more[k - 1], k - 1)
    <3>1. CASE k = n + 1
      <4>1. k - 1 = n /\ n \in 0 .. n + 1 /\ n # n + 1 /\ k # 0
        BY <2>2, <3>1
      <4>2. more[k] = next1 /\ more[n] = pass[n]
        BY <3>1, <4>1
      <4> HIDE DEF more
      <4> QED BY <4>1, <4>2 DEF next1
    <3>2. CASE k # n + 1
      <4>1. k \in 0 .. n
        BY <2>2, <3>2
      <4>2. CASE k = 0
        BY <2>2, <2>3, <3>2, <4>1, <4>2
      <4>3. CASE k # 0
        <5>1. k - 1 \in 0 .. n + 1 /\ k - 1 # n + 1
          BY <2>2, <4>1, <4>3
        <5>2. more[k - 1] = pass[k - 1] /\ more[k] = pass[k]
          BY <3>2, <5>1
        <5> HIDE DEF more
        <5> QED BY <2>3, <4>1, <4>3, <5>2
      <4> QED BY <4>2, <4>3
    <3> QED BY <3>1, <3>2
  <2>5. more = [k \in 0 .. n + 1 |-> more[k]]
    OBVIOUS
  <2> HIDE DEF more
  <2>6. [k \in 0 .. n + 1 |-> more[k]] =
          [k \in 0 .. n + 1 |-> IF k = 0 THEN FirstPass ELSE PlaceOne(more[k - 1], k - 1)]
    BY <2>4, Zenon
  <2>7. IsPass(n + 1, more)
    BY <2>5, <2>6, Zenon DEF IsPass
  <2> QED BY <2>2, <2>7
<1> HIDE DEF T
<1>3. \A n \in Nat : n \in T
  BY <1>1, <1>2, AllNumbers DEF T
<1> QED BY <1>3 DEF T

\* The columns of the charts a pass has put on stack s.
Width(at, s) ==
    Total([p \in 0 .. Len(at) - 1 |->
              IF at[p + 1] = s THEN min_plot_cols(LinesOfNumber(p)) ELSE 0], Len(at))

\* One more chart on stack x.
LEMMA WidthAppend ==
    ASSUME NEW at \in Seq(Nat), NEW x \in Nat, NEW s
    PROVE  Width(Append(at, x), s) =
              Width(at, s) + (IF x = s THEN min_plot_cols(LinesOfNumber(Len(at))) ELSE 0)
<1> DEFINE n == Len(at)
           more == Append(at, x)
           w(p) == min_plot_cols(LinesOfNumber(p))
           f == [p \in 0 .. n - 1 |-> IF at[p + 1] = s THEN w(p) ELSE 0]
           g == [p \in 0 .. Len(more) - 1 |-> IF more[p + 1] = s THEN w(p) ELSE 0]
<1>1. n \in Nat /\ Len(more) = n + 1 /\ more[n + 1] = x /\ \A i \in 1 .. n : more[i] = at[i]
  OBVIOUS
<1>2. Width(at, s) = Total(f, n) /\ Width(more, s) = Total(g, Len(more))
  BY DEF Width
<1> HIDE DEF n, more, w
<1>3. \A p \in 0 .. n - 1 : f[p] = g[p]
  BY <1>1
<1>4. g[n] = IF x = s THEN w(n) ELSE 0
  BY <1>1
<1> HIDE DEF f, g
<1>5. Total(g, n) = Total(f, n)
  BY <1>1, <1>3, TotalSame
<1>6. Total(g, n + 1) = Total(g, n) + g[n]
  BY <1>1, TotalNext
<1> QED BY <1>1, <1>2, <1>4, <1>5, <1>6 DEF n, more, w

\* On a stack that is not there yet is no chart.
LEMMA WidthNew ==
    ASSUME NEW at \in Seq(Nat), NEW s, \A i \in 1 .. Len(at) : at[i] # s
    PROVE  Width(at, s) = 0
<1> DEFINE f == [p \in 0 .. Len(at) - 1 |-> IF at[p + 1] = s THEN min_plot_cols(LinesOfNumber(p)) ELSE 0]
<1>1. \A p \in 0 .. Len(at) - 1 : f[p] = 0
  <2> TAKE p \in 0 .. Len(at) - 1
  <2>1. p + 1 \in 1 .. Len(at)
    OBVIOUS
  <2> QED BY <2>1
<1>2. Len(at) \in Nat /\ Width(at, s) = Total(f, Len(at))
  BY DEF Width
<1> HIDE DEF f
<1> QED BY <1>1, <1>2, TotalNothing

\* What holds after the first k charts: those with lines have been put on stacks,
\* no stack is wider than the screen, none is empty, and all have their rows.
Placed(r, k) ==
    /\ r.at \in Seq(Nat) /\ Len(r.at) = Renumbered(k)
    /\ r.used \in Nat /\ r.used <= in.cols
    /\ r.stacks \in Nat \ {0}
    /\ r.left \in Nat /\ r.left + min_plot_rows * r.stacks = share.plots
    /\ Len(r.at) = 0 => r.stacks = 1
    /\ Len(r.at) > 0 => r.stacks <= Len(r.at)
    /\ r.used > 0 => Len(r.at) > 0
    /\ \A i \in 1 .. Len(r.at) : r.at[i] < r.stacks
    /\ \A s \in 0 .. r.stacks - 1 : Width(r.at, s) \in Nat /\ Width(r.at, s) <= in.cols
    /\ Width(r.at, r.stacks - 1) = r.used

PassRecord(r) == r = [out |-> r.out, stacks |-> r.stacks, used |-> r.used, at |-> r.at, left |-> r.left]

PassInv(r, k) == PassRecord(r) /\ (r.out = "ok" => Placed(r, k))

LEMMA OneMore ==
    ASSUME NEW at \in Seq(Nat), NEW x \in Nat
    PROVE  /\ Len(at) \in Nat /\ Append(at, x) \in Seq(Nat)
           /\ Len(Append(at, x)) = Len(at) + 1 /\ Append(at, x)[Len(at) + 1] = x
           /\ \A i \in 1 .. Len(at) : Append(at, x)[i] = at[i]
OBVIOUS

LEMMA PassStarts ==
    ASSUME InputFacts, SharedOut, share.plots >= min_plot_rows
    PROVE  PassInv(FirstPass, 0)
<1>1. share.plots \in Nat /\ in.cols \in Nat
  BY DEF SharedOut, InputFacts
<1>2. <<>> \in Seq(Nat) /\ Len(<<>>) = 0
  OBVIOUS
<1>3. Width(<<>>, 0) = 0
  <2>1. \A i \in 1 .. Len(<<>>) : <<>>[i] # 0
    OBVIOUS
  <2> QED BY <1>2, <2>1, WidthNew
<1>4. /\ FirstPass.at = <<>> /\ FirstPass.used = 0 /\ FirstPass.stacks = 1
      /\ FirstPass.left = share.plots - 7
  BY DEF FirstPass, min_plot_rows
<1>5. PassRecord(FirstPass)
  BY DEF FirstPass, PassRecord
<1>6. Renumbered(0) = 0
  BY RenumberedNext
<1> HIDE DEF FirstPass
<1>7. Placed(FirstPass, 0)
  BY <1>1, <1>2, <1>3, <1>4, <1>6 DEF Placed, min_plot_rows
<1> QED BY <1>5, <1>7 DEF PassInv

\* One chart more
LEMMA PassContinues ==
    ASSUME InputFacts, info \in [Devices -> 0 .. MaxLines], NEW r, NEW k \in Devices, PassInv(r, k)
    PROVE  PassInv(PlaceOne(r, k), k + 1)
<1> DEFINE lines == info[k]
           cols == min_plot_cols(lines)
           size == Len(r.at)
<1>1. k \in Nat /\ lines \in Nat /\ cols \in Nat \ {0} /\ in.cols \in Nat
  <2>1. k \in Nat
    BY DEF Devices
  <2>2. lines \in Nat
    OBVIOUS
  <2>3. in.cols \in Nat
    BY DEF InputFacts
  <2> HIDE DEF lines
  <2> QED BY <2>1, <2>2, <2>3 DEF min_plot_cols, cols_needed_box_drawing
<1>2. /\ Renumbered(k) \in Nat
      /\ Renumbered(k + 1) = Renumbered(k) + (IF lines > 0 THEN 1 ELSE 0)
  BY <1>1, RenumberedNext
<1>3. CASE r.out # "ok"
  <2>1. PlaceOne(r, k) = r
    BY <1>3 DEF PlaceOne
  <2> QED BY <1>3, <2>1 DEF PassInv
<1>4. CASE r.out = "ok" /\ lines = 0
  <2>1. PlaceOne(r, k) = r
    BY <1>4 DEF PlaceOne
  <2>2. Renumbered(k + 1) = Renumbered(k)
    BY <1>1, <1>2, <1>4
  <2> QED BY <2>1, <2>2 DEF PassInv, Placed
<1>5. CASE r.out = "ok" /\ lines # 0
  <2>1. lines > 0 /\ PassRecord(r) /\ Placed(r, k)
    BY <1>1, <1>5 DEF PassInv
  <2>2. /\ r.at \in Seq(Nat) /\ size = Renumbered(k) /\ size \in Nat
        /\ r.used \in Nat /\ r.used <= in.cols /\ r.stacks \in Nat \ {0} /\ r.left \in Nat
        /\ r.left + 7 * r.stacks = share.plots
    BY <2>1 DEF Placed, min_plot_rows
  <2>3. /\ size = 0 => r.stacks = 1
        /\ size > 0 => r.stacks <= size
        /\ r.used > 0 => size > 0
        /\ \A i \in 1 .. size : r.at[i] < r.stacks
    BY <2>1 DEF Placed
  <2>4. /\ \A s \in 0 .. r.stacks - 1 : Width(r.at, s) \in Nat /\ Width(r.at, s) <= in.cols
        /\ Width(r.at, r.stacks - 1) = r.used
    BY <2>1 DEF Placed
  <2>5. min_plot_cols(LinesOfNumber(size)) = cols
    <3>1. LinesOfNumber(Renumbered(k)) = lines
      BY <2>1, LinesOfRenumbered
    <3> QED BY <2>2, <3>1
  <2>9. \A i \in 1 .. size : r.at[i] \in Nat
    <3> DEFINE q == r.at
    <3>1. q \in Seq(Nat)
      BY <2>2
    <3> HIDE DEF q
    <3>2. \A i \in 1 .. Len(q) : q[i] \in Nat
      BY <3>1
    <3> QED BY <3>2 DEF q
  <2> HIDE DEF cols, size
  <2>6. CASE in.cols >= cols + r.used
    <3> DEFINE x == r.stacks - 1
               at2 == Append(r.at, x)
               r2 == [out |-> r.out, stacks |-> r.stacks, used |-> r.used + cols, at |-> at2, left |-> r.left]
    <3>1. PlaceOne(r, k) = r2
      <4>1. PlaceOne(r, k) = [r EXCEPT !.used = @ + cols, !.at = Append(@, r.stacks - 1)]
        BY <1>5, <2>6 DEF PlaceOne, cols
      <4> QED BY <2>1, <4>1 DEF PassRecord
    <3>2. x \in Nat /\ at2 \in Seq(Nat) /\ Len(at2) = size + 1 /\ at2[size + 1] = x
          /\ \A i \in 1 .. size : at2[i] = r.at[i]
      <4>1. x \in Nat /\ r.at \in Seq(Nat)
        BY <2>2
      <4> HIDE DEF x
      <4> QED BY <4>1, OneMore DEF size
    <3>3. \A s : Width(at2, s) = Width(r.at, s) + (IF x = s THEN cols ELSE 0)
      BY <2>2, <2>5, <3>2, WidthAppend DEF size
    <3>4. \A i \in 1 .. size + 1 : at2[i] < r.stacks
      <4> SUFFICES ASSUME NEW i \in 1 .. size + 1 PROVE at2[i] < r.stacks
        OBVIOUS
      <4> HIDE DEF at2, r2
      <4>1. CASE i = size + 1
        BY <2>2, <3>2, <4>1
      <4>2. CASE i \in 1 .. size
        BY <2>3, <3>2, <4>2
      <4>3. i = size + 1 \/ i \in 1 .. size
        <5> HIDE DEF x
        <5> QED BY <2>2
      <4> QED BY <4>1, <4>2, <4>3
    <3>5. \A s \in 0 .. r.stacks - 1 : Width(at2, s) \in Nat /\ Width(at2, s) <= in.cols
      <4> SUFFICES ASSUME NEW s \in 0 .. r.stacks - 1
                   PROVE  Width(at2, s) \in Nat /\ Width(at2, s) <= in.cols
        OBVIOUS
      <4>1. Width(at2, s) = Width(r.at, s) + (IF x = s THEN cols ELSE 0)
        BY <3>3
      <4>2. Width(r.at, s) \in Nat /\ Width(r.at, s) <= in.cols /\ (x = s => Width(r.at, s) = r.used)
        BY <2>4
      <4> HIDE DEF at2, r2, x
      <4> QED BY <1>1, <2>2, <2>6, <4>1, <4>2
    <3>6. Width(at2, x) = r.used + cols
      BY <1>1, <2>2, <2>4, <3>3
    <3>7. r2.at = at2 /\ r2.used = r.used + cols /\ r2.stacks = r.stacks /\ r2.left = r.left /\ r2.out = r.out
      OBVIOUS
    <3>8. PassRecord(r2)
      BY DEF PassRecord
    <3> HIDE DEF at2, r2
    <3>9. Placed(r2, k + 1)
      <4>1. r2.at \in Seq(Nat) /\ Len(r2.at) = Renumbered(k + 1)
        BY <1>2, <2>1, <2>2, <3>2, <3>7
      <4>2. /\ r2.used \in Nat /\ r2.used <= in.cols /\ r2.stacks \in Nat \ {0} /\ r2.left \in Nat
            /\ r2.left + min_plot_rows * r2.stacks = share.plots
        <5> DEFINE u == r.used
                   a == r2.used
        <5>1. u \in Nat /\ in.cols >= cols + u /\ a = u + cols
          BY <2>2, <2>6, <3>7
        <5> HIDE DEF u, a, x
        <5>2. a \in Nat /\ a <= in.cols
          BY <1>1, <5>1
        <5> QED BY <2>2, <3>7, <5>2 DEF min_plot_rows, a
      <4>3. Len(r2.at) > 0 /\ r2.stacks <= Len(r2.at)
        <5> DEFINE old == r.stacks
                   len == Len(r2.at)
        <5>1. size \in Nat /\ old \in Nat /\ (size = 0 => old = 1) /\ (size > 0 => old <= size) /\ len = size + 1
          BY <2>2, <2>3, <3>2, <3>7
        <5> HIDE DEF old, len, x
        <5>2. len > 0 /\ old <= len
          BY <5>1
        <5> QED BY <3>7, <5>2 DEF old, len
      <4>4. /\ \A i \in 1 .. Len(r2.at) : r2.at[i] < r2.stacks
            /\ \A s \in 0 .. r2.stacks - 1 : Width(r2.at, s) \in Nat /\ Width(r2.at, s) <= in.cols
            /\ Width(r2.at, r2.stacks - 1) = r2.used
        BY <3>2, <3>4, <3>5, <3>6, <3>7
      <4> QED BY <4>1, <4>2, <4>3, <4>4 DEF Placed
    <3> QED BY <3>1, <3>8, <3>9 DEF PassInv
  <2>7. CASE /\ ~(in.cols >= cols + r.used)
             /\ ~(r.used = 0 \/ (r.left >= 7 /\ in.cols < cols)) /\ r.left >= 7
    <3> DEFINE x == r.stacks
               at2 == Append(r.at, x)
               r2 == [out |-> r.out, stacks |-> r.stacks + 1, used |-> cols, at |-> at2, left |-> r.left - 7]
    <3>1. PlaceOne(r, k) = r2
      <4>1. PlaceOne(r, k) = [r EXCEPT !.left = @ - 7, !.used = cols, !.stacks = @ + 1,
                                       !.at = Append(@, r.stacks)]
        BY <1>5, <2>7 DEF PlaceOne, cols, min_plot_rows
      <4> QED BY <2>1, <4>1 DEF PassRecord
    <3>2. x \in Nat /\ at2 \in Seq(Nat) /\ Len(at2) = size + 1 /\ at2[size + 1] = x
          /\ \A i \in 1 .. size : at2[i] = r.at[i]
      <4>1. x \in Nat /\ r.at \in Seq(Nat)
        BY <2>2
      <4> HIDE DEF x
      <4> QED BY <4>1, OneMore DEF size
    <3>3. \A s : Width(at2, s) = Width(r.at, s) + (IF x = s THEN cols ELSE 0)
      BY <2>2, <2>5, <3>2, WidthAppend DEF size
    <3>4. \A i \in 1 .. size + 1 : at2[i] < r.stacks + 1
      <4> SUFFICES ASSUME NEW i \in 1 .. size + 1 PROVE at2[i] < r.stacks + 1
        OBVIOUS
      <4>1. CASE i = size + 1
        BY <2>2, <3>2, <4>1
      <4>2. CASE i \in 1 .. size
        <5>1. at2[i] = r.at[i] /\ r.at[i] < r.stacks /\ r.at[i] \in Nat
          BY <2>3, <2>9, <3>2, <4>2
        <5> HIDE DEF at2
        <5> QED BY <2>2, <5>1
      <4>3. i = size + 1 \/ i \in 1 .. size
        <5> HIDE DEF at2, r2, x
        <5> QED BY <2>2
      <4> QED BY <4>1, <4>2, <4>3
    <3>5. Width(r.at, x) = 0
      <4>1. \A i \in 1 .. Len(r.at) : r.at[i] # x
        BY <2>2, <2>3 DEF size
      <4> QED BY <2>2, <4>1, WidthNew
    <3>6. Width(at2, x) = cols /\ cols <= in.cols
      BY <1>1, <2>2, <2>7, <3>3, <3>5
    <3>7. \A s \in 0 .. r.stacks : Width(at2, s) \in Nat /\ Width(at2, s) <= in.cols
      <4>1. \A s \in 0 .. r.stacks : s = r.stacks \/ (s \in 0 .. r.stacks - 1 /\ x # s)
        BY <2>2
      <4>2. \A s \in 0 .. r.stacks - 1 : x # s => Width(at2, s) = Width(r.at, s)
        BY <2>4, <3>3
      <4> HIDE DEF at2
      <4> QED BY <1>1, <2>4, <3>6, <4>1, <4>2
    <3>8. /\ r2.at = at2 /\ r2.used = cols /\ r2.stacks = r.stacks + 1 /\ r2.left = r.left - 7
          /\ r2.out = r.out
      OBVIOUS
    <3>9. PassRecord(r2)
      BY DEF PassRecord
    <3> HIDE DEF at2, r2
    <3>10. Placed(r2, k + 1)
      <4>1. r2.at \in Seq(Nat) /\ Len(r2.at) = Renumbered(k + 1)
        BY <1>2, <2>1, <2>2, <3>2, <3>8
      <4>2. /\ r2.used \in Nat /\ r2.used <= in.cols /\ r2.stacks \in Nat \ {0} /\ r2.left \in Nat
            /\ r2.left + min_plot_rows * r2.stacks = share.plots
        <5> DEFINE u == r.stacks
                   l == r.left
                   a == r2.used
                   b == r2.stacks
                   c == r2.left
        <5>1. u \in Nat \ {0} /\ l \in Nat /\ l >= 7 /\ l + 7 * u = share.plots
          BY <2>2, <2>7
        <5>2. a = cols /\ b = u + 1 /\ c = l - 7 /\ cols <= in.cols
          BY <3>6, <3>8
        <5> HIDE DEF u, l, a, b, c
        <5>3. a \in Nat /\ a <= in.cols /\ b \in Nat \ {0} /\ c \in Nat /\ c + 7 * b = share.plots
          BY <1>1, <5>1, <5>2
        <5> QED BY <5>3 DEF min_plot_rows, a, b, c
      <4>3. Len(r2.at) > 0 /\ r2.stacks <= Len(r2.at)
        <5>1. r.used # 0 /\ r.used \in Nat /\ size \in Nat
          BY <2>2, <2>7
        <5>2. size > 0 /\ r.stacks <= size /\ r.stacks \in Nat
          BY <2>2, <2>3, <5>1
        <5>3. Len(r2.at) = size + 1 /\ r2.stacks = r.stacks + 1
          BY <3>2, <3>8
        <5> DEFINE new == r2.stacks
                   old == r.stacks
                   len == Len(r2.at)
        <5>4. old \in Nat /\ old <= size /\ size \in Nat /\ new = old + 1 /\ len = size + 1
          BY <5>1, <5>2, <5>3
        <5> HIDE DEF new, old, len
        <5>5. len > 0 /\ new <= len
          BY <5>4
        <5> QED BY <5>5 DEF new, len
      <4>4. /\ \A i \in 1 .. Len(r2.at) : r2.at[i] < r2.stacks
            /\ \A s \in 0 .. r2.stacks - 1 : Width(r2.at, s) \in Nat /\ Width(r2.at, s) <= in.cols
            /\ Width(r2.at, r2.stacks - 1) = r2.used
        <5>1. (r.stacks + 1) - 1 = r.stacks
          BY <2>2
        <5> QED BY <3>2, <3>4, <3>6, <3>7, <3>8, <5>1
      <4> QED BY <4>1, <4>2, <4>3, <4>4 DEF Placed
    <3> QED BY <3>1, <3>9, <3>10 DEF PassInv
  <2>8. CASE /\ ~(in.cols >= cols + r.used)
             /\ (r.used = 0 \/ (r.left >= 7 /\ in.cols < cols)) \/ ~(r.left >= 7)
    <3>1. PICK o \in {"abort", "merge"} : PlaceOne(r, k) = [r EXCEPT !.out = o]
      BY <1>5, <2>8 DEF PlaceOne, cols, min_plot_rows
    <3>2. PassRecord([r EXCEPT !.out = o]) /\ [r EXCEPT !.out = o].out # "ok"
      BY <2>1 DEF PassRecord
    <3> QED BY <3>1, <3>2 DEF PassInv
  <2> QED BY <2>6, <2>7, <2>8
<1> QED BY <1>3, <1>4, <1>5

\* The whole pass
LEMMA PassPlaces ==
    ASSUME InputFacts, SharedOut, share.plots >= min_plot_rows,
           info \in [Devices -> 0 .. MaxLines], Pass.out = "ok"
    PROVE  Placed(Pass, N)
<1> DEFINE pass == CHOOSE f : IsPass(N, f)
           T == {k \in Nat : k <= N => PassInv(pass[k], k)}
<1>1. N \in Nat /\ Devices = 0 .. N - 1
  BY DEF InputFacts, Devices
<1>2. IsPass(N, pass)
  BY <1>1, PassExists, Zenon
<1>3. Pass = pass[N]
  BY DEF Pass, IsPass, FirstPass
<1> HIDE DEF pass, N
<1>4. \A k \in 0 .. N : pass[k] = IF k = 0 THEN FirstPass ELSE PlaceOne(pass[k - 1], k - 1)
  BY <1>2 DEF IsPass
<1>5. 0 \in T
  <2>1. pass[0] = FirstPass
    BY <1>1, <1>4
  <2> QED BY <2>1, PassStarts
<1>6. ASSUME NEW k \in T PROVE k + 1 \in T
  <2> SUFFICES ASSUME k + 1 <= N PROVE PassInv(pass[k + 1], k + 1)
    OBVIOUS
  <2>1. k \in Devices /\ k + 1 \in 0 .. N /\ k + 1 # 0 /\ (k + 1) - 1 = k /\ k <= N
    BY <1>1
  <2>2. PassInv(pass[k], k)
    BY <2>1
  <2>3. pass[k + 1] = PlaceOne(pass[k], k)
    BY <1>4, <2>1
  <2> QED BY <2>1, <2>2, <2>3, PassContinues
<1> HIDE DEF T
<1>7. N \in T
  BY <1>1, <1>5, <1>6, AllNumbers DEF T
<1>8. PassInv(pass[N], N)
  BY <1>1, <1>7 DEF T
<1> QED BY <1>3, <1>8 DEF PassInv

-----------------------------------------------------------------------------
(* The charts once they are placed                                         *)

\* The columns the charts on stack s ask for, when the devices are on the charts
\* m and the first k charts on the stacks at.
ColsOf(k, m, at, s) ==
    Total([p \in 0 .. k - 1 |-> IF at[p] = s THEN min_plot_cols(LinesOn(m, p)) ELSE 0], k)

\* There are k charts, no more than devices, on stacks that all have their rows;
\* the devices that draw are on them, in order, and no chart has too many lines
\* nor a stack more columns than the screen.
Charts(k, m, at, count, rows) ==
    /\ k \in 1 .. N /\ count \in 1 .. k
    /\ m \in [Devices -> Devices] /\ at \in [0 .. k - 1 -> 0 .. count - 1]
    /\ count * min_plot_rows <= rows
    /\ \A p \in 0 .. k - 1 : LinesOn(m, p) \in 1 .. MaxLines
    /\ \A d \in Devices : Draw(d) > 0 => m[d] \in 0 .. k - 1
    /\ \A d, e \in Devices : (d < e /\ Draw(d) > 0 /\ Draw(e) > 0) => m[d] <= m[e]
    /\ \A s \in 0 .. count - 1 : ColsOf(k, m, at, s) <= in.cols

\* A pass that ends well puts every chart with lines on a stack.
LEMMA CompactKeepsLines ==
    ASSUME InputFacts, SharedOut, share.plots >= min_plot_rows, Merged(info, map),
           Pass.out = "ok", Compact, NEW e \in Devices, info[e] > 0
    PROVE  Charts(Len(Pass.at), map', [p \in 0 .. Len(Pass.at) - 1 |-> Pass.at[p + 1]],
                  Pass.stacks, share.plots)
<1> DEFINE r == Pass
           k == Len(r.at)
           at == [p \in 0 .. k - 1 |-> r.at[p + 1]]
           count == r.stacks
<1>1. /\ info \in [Devices -> 0 .. MaxLines] /\ map \in [Devices -> Devices]
      /\ \A q \in Devices : info[q] = LinesOn(map, q)
      /\ \A d, g \in Devices : (d < g /\ Draw(d) > 0 /\ Draw(g) > 0) => map[d] <= map[g]
  BY DEF Merged
<1>2. N \in Nat /\ Devices = 0 .. N - 1 /\ \A d \in Devices : Draw(d) \in Nat
  BY DEF InputFacts, Devices
<1>3. Placed(r, N)
  BY <1>1, PassPlaces
<1> DEFINE F(m, p) == [d \in Devices |-> IF m[d] = p THEN Draw(d) ELSE 0]
<1>0. \A m, p : /\ LinesOn(m, p) = Total(F(m, p), N)
                /\ \A d \in Devices : F(m, p)[d] = IF m[d] = p THEN Draw(d) ELSE 0
  BY DEF LinesOn
<1> HIDE DEF F
<1> HIDE DEF r, N, at
<1>4. k = Renumbered(N) /\ r.at \in Seq(Nat) /\ k \in Nat
  BY <1>3 DEF Placed
<1>5. k \in 1 .. N
  <2>1. Renumbered(e) < Renumbered(N) /\ Renumbered(N) <= N /\ Renumbered(e) \in Nat
    <3>1. e \in Nat /\ e < N /\ info[e] > 0
      BY <1>2
    <3>2. Renumbered(e) < Renumbered(N)
      BY <1>2, <3>1, RenumberedOrder
    <3>3. Renumbered(N) <= N
      BY <1>2, RenumberedOrder
    <3> QED BY <3>1, <3>2, <3>3, RenumberedNext
  <2> QED BY <1>2, <1>4, <2>1
<1> HIDE DEF k
<1>6. count \in 1 .. k
  BY <1>3, <1>5 DEF Placed, k
<1>7. at \in [0 .. k - 1 -> 0 .. count - 1]
  <2>1. \A p \in 0 .. k - 1 : r.at[p + 1] \in 0 .. count - 1
    <3> SUFFICES ASSUME NEW p \in 0 .. k - 1 PROVE r.at[p + 1] \in 0 .. count - 1
      OBVIOUS
    <3>1. p + 1 \in 1 .. k
      BY <1>4
    <3>2. r.at[p + 1] < count /\ r.at[p + 1] \in Nat
      BY <1>3, <1>4, <3>1 DEF Placed, k
    <3> QED BY <1>6, <3>2
  <2> QED BY <2>1 DEF at
<1>8. count * min_plot_rows <= share.plots
  BY <1>3, <1>6 DEF Placed, min_plot_rows
<1>9. \A d \in Devices : /\ Renumbered(d) \in Nat /\ Renumbered(d) <= d
                         /\ info[d] > 0 => Renumbered(d) \in 0 .. k - 1
  <2> SUFFICES ASSUME NEW d \in Devices
               PROVE  /\ Renumbered(d) \in Nat /\ Renumbered(d) <= d
                      /\ info[d] > 0 => Renumbered(d) \in 0 .. k - 1
    OBVIOUS
  <2>1. d \in Nat /\ d < N
    BY <1>2
  <2>2. Renumbered(d) \in Nat
    BY <2>1, RenumberedNext
  <2>3. Renumbered(d) <= d
    BY <2>1, RenumberedOrder
  <2>4. info[d] > 0 => Renumbered(d) < Renumbered(N)
    BY <1>2, <2>1, RenumberedOrder
  <2> QED BY <1>4, <2>2, <2>3, <2>4
<1>10. \A d \in Devices : map'[d] = IF info[map[d]] > 0 THEN Renumbered(map[d]) ELSE map[d]
  BY DEF Compact
<1>11. map' \in [Devices -> Devices]
  <2>1. \A d \in Devices : map[d] \in Devices /\ Renumbered(map[d]) \in Devices
    <3> TAKE d \in Devices
    <3>1. map[d] \in Devices
      BY <1>1
    <3>2. Renumbered(map[d]) \in Nat /\ Renumbered(map[d]) <= map[d]
      BY <1>9, <3>1
    <3> QED BY <1>2, <3>1, <3>2
  <2> QED BY <2>1 DEF Compact
<1>12. \A d \in Devices : Draw(d) > 0 => info[map[d]] > 0 /\ map'[d] = Renumbered(map[d])
  <2> TAKE d \in Devices
  <2>1. map[d] \in Devices
    BY <1>1
  <2>2. Draw(d) > 0 => LinesOn(map, map[d]) > 0
    BY DrawnIsShown
  <2> QED BY <1>1, <1>10, <2>1, <2>2
<1>13. \A d \in Devices : Draw(d) > 0 => map'[d] \in 0 .. k - 1
  <2> TAKE d \in Devices
  <2>1. map[d] \in Devices
    BY <1>1
  <2> QED BY <1>9, <1>12, <2>1
<1>14. \A d, g \in Devices : (d < g /\ Draw(d) > 0 /\ Draw(g) > 0) => map'[d] <= map'[g]
  <2> SUFFICES ASSUME NEW d \in Devices, NEW g \in Devices, d < g, Draw(d) > 0, Draw(g) > 0
               PROVE  map'[d] <= map'[g]
    OBVIOUS
  <2>1. map[d] \in Nat /\ map[g] \in Nat /\ map[d] <= map[g]
    BY <1>1, <1>2
  <2>2. Renumbered(map[d]) <= Renumbered(map[g])
    BY <2>1, RenumberedOrder
  <2> QED BY <1>12, <2>2
<1>15. \A p \in 0 .. k - 1 : LinesOn(map', p) \in 1 .. MaxLines /\ LinesOn(map', p) = LinesOfNumber(p)
  <2> SUFFICES ASSUME NEW p \in 0 .. k - 1
               PROVE  LinesOn(map', p) \in 1 .. MaxLines /\ LinesOn(map', p) = LinesOfNumber(p)
    OBVIOUS
  <2>1. PICK i \in 0 .. N - 1 : info[i] > 0 /\ Renumbered(i) = p
    BY <1>2, <1>4, RenumberedOrder
  <2>2. i \in Devices /\ info[i] \in 1 .. MaxLines /\ LinesOn(map, i) = info[i] /\ LinesOfNumber(p) = info[i]
    <3>1. i \in Devices /\ info[i] \in 0 .. MaxLines
      BY <1>1, <1>2
    <3>2. LinesOfNumber(p) = info[i]
      BY <2>1, <3>1, LinesOfRenumbered
    <3>3. info[i] \in 1 .. MaxLines
      BY <2>1, <3>1, LayoutAssumption
    <3> QED BY <1>1, <3>1, <3>2, <3>3
  <2>3. LinesOn(map', p) = LinesOn(map, i)
    <3> DEFINE f == F(map, i)
               h == F(map', p)
    <3>1. LinesOn(map, i) = Total(f, N) /\ \A d \in Devices : f[d] = IF map[d] = i THEN Draw(d) ELSE 0
      BY <1>0
    <3>2. LinesOn(map', p) = Total(h, N) /\ \A d \in Devices : h[d] = IF map'[d] = p THEN Draw(d) ELSE 0
      BY <1>0
    <3> HIDE DEF f, h
    <3>3. \A d \in Devices : Draw(d) > 0 => (map'[d] = p <=> map[d] = i)
      <4> SUFFICES ASSUME NEW d \in Devices, Draw(d) > 0 PROVE map'[d] = p <=> map[d] = i
        OBVIOUS
      <4> DEFINE j == map[d]
      <4>1. j \in Nat /\ i \in Nat /\ info[j] > 0 /\ map'[d] = Renumbered(j)
        BY <1>1, <1>2, <1>12
      <4> HIDE DEF j
      <4>2. Renumbered(i) \in Nat /\ Renumbered(j) \in Nat
        BY <4>1, RenumberedNext
      <4>3. j < i => Renumbered(j) < Renumbered(i)
        BY <4>1, RenumberedOrder
      <4>4. i < j => Renumbered(i) < Renumbered(j)
        BY <2>1, <4>1, RenumberedOrder
      <4>5. Renumbered(j) = p => j = i
        BY <2>1, <4>1, <4>2, <4>3, <4>4
      <4> QED BY <2>1, <4>1, <4>5 DEF j
    <3>4. \A d \in 0 .. N - 1 : f[d] = h[d]
      <4> SUFFICES ASSUME NEW d \in Devices PROVE f[d] = h[d]
        BY <1>2
      <4>1. d \in Devices /\ Draw(d) \in Nat
        BY <1>2
      <4>2. CASE Draw(d) = 0
        BY <3>1, <3>2, <4>2
      <4>3. CASE Draw(d) > 0
        BY <3>1, <3>2, <3>3, <4>1, <4>3
      <4> QED BY <4>1, <4>2, <4>3
    <3>5. Total(f, N) = Total(h, N)
      BY <1>2, <3>4, TotalSame
    <3> QED BY <3>1, <3>2, <3>5
  <2> QED BY <2>2, <2>3
<1>16. \A s \in 0 .. count - 1 : ColsOf(k, map', at, s) <= in.cols
  <2> SUFFICES ASSUME NEW s \in 0 .. count - 1 PROVE ColsOf(k, map', at, s) <= in.cols
    OBVIOUS
  <2> DEFINE f == [p \in 0 .. k - 1 |-> IF at[p] = s THEN min_plot_cols(LinesOn(map', p)) ELSE 0]
             g == [p \in 0 .. Len(r.at) - 1 |-> IF r.at[p + 1] = s THEN min_plot_cols(LinesOfNumber(p)) ELSE 0]
  <2>1. ColsOf(k, map', at, s) = Total(f, k)
    BY DEF ColsOf
  <2>2. Width(r.at, s) = Total(g, k) /\ Width(r.at, s) <= in.cols
    BY <1>3 DEF Width, Placed, k
  <2>3. \A p \in 0 .. k - 1 : f[p] = g[p]
    <3> SUFFICES ASSUME NEW p \in 0 .. k - 1 PROVE f[p] = g[p]
      OBVIOUS
    <3>1. at[p] = r.at[p + 1]
      BY DEF at
    <3> QED BY <1>15, <3>1 DEF k
  <2> HIDE DEF f, g
  <2>4. Total(f, k) = Total(g, k)
    BY <1>4, <2>3, TotalSame
  <2> QED BY <2>1, <2>2, <2>4
<1> HIDE DEF count
<1>17. Charts(k, map', at, count, share.plots)
  BY <1>5, <1>6, <1>7, <1>8, <1>11, <1>13, <1>14, <1>15, <1>16 DEF Charts
<1> QED BY <1>17 DEF k, at, count, r

\* Within the computation the arguments do not change.
LEMMA SameInput ==
    ASSUME in' = in
    PROVE  /\ N' = N /\ Devices' = Devices
           /\ \A d : Draw(d)' = Draw(d)
           /\ InputFacts' <=> InputFacts
           /\ header_stacks' = header_stacks
           /\ num_device_per_row' = num_device_per_row
BY DEF N, Devices, Draw, InputFacts, header_stacks, num_device_per_row, PerRowAtMost

LEMMA SameLines ==
    ASSUME in' = in, NEW p
    PROVE  LinesOn(map, p)' = LinesOn(map', p)
BY DEF LinesOn, N, Draw, Devices

LEMMA SameMerged ==
    ASSUME in' = in, Merged(info', map')
    PROVE  Merged(info, map)'
BY DEF Merged, LinesOn, N, Draw, Devices

LEMMA SameCharts ==
    ASSUME in' = in, NEW k
    PROVE  Charts(k, map, stackOf, stacks, share.plots)' <=> Charts(k, map', stackOf', stacks', share'.plots)
BY DEF Charts, ColsOf, LinesOn, N, Draw, Devices

\* What the charts on a stack ask for is a sum of numbers.
LEMMA ColsOfSummand ==
    ASSUME NEW k \in Nat, NEW m, NEW at, NEW s,
           \A p \in 0 .. k - 1 : LinesOn(m, p) \in 1 .. MaxLines
    PROVE  LET f == [p \in 0 .. k - 1 |-> IF at[p] = s THEN min_plot_cols(LinesOn(m, p)) ELSE 0] IN
           /\ ColsOf(k, m, at, s) = Total(f, k)
           /\ \A p \in 0 .. k - 1 : /\ f[p] = (IF at[p] = s THEN min_plot_cols(LinesOn(m, p)) ELSE 0)
                                    /\ f[p] \in Nat /\ min_plot_cols(LinesOn(m, p)) \in Nat
<1>1. \A p \in 0 .. k - 1 : min_plot_cols(LinesOn(m, p)) \in Nat
  BY LayoutAssumption DEF min_plot_cols, cols_needed_box_drawing
<1> QED BY <1>1 DEF ColsOf

LEMMA NumPlots ==
    ASSUME NEW k \in Nat, Plots = 0 .. k - 1
    PROVE  num_plots = k
<1>1. Cardinality(0 .. k - 1) = IF 0 > k - 1 THEN 0 ELSE k - 1 - 0 + 1
  BY FS_Interval
<1> QED BY <1>1 DEF num_plots

\* Stacks are added only while they have their rows and there is a chart for
\* each; the charts do not move yet.
LEMMA MoreStacksFit ==
    ASSUME NEW k, NEW rows \in Nat, InputFacts, Plots = 0 .. k - 1,
           Charts(k, map, stackOf, stacks, rows)
    PROVE  Charts(k, map, stackOf, MoreStacks(rows), rows)
<1> DEFINE c == MoreStacks(rows)
           T == {stacks} \cup {s \in stacks + 1 .. num_plots : rows \div s >= 11 /\ s * min_plot_rows <= rows}
<1>1. /\ k \in Nat /\ k \in 1 .. N /\ stacks \in 1 .. k /\ stackOf \in [0 .. k - 1 -> 0 .. stacks - 1]
      /\ stacks * min_plot_rows <= rows
      /\ \A p \in 0 .. k - 1 : LinesOn(map, p) \in 1 .. MaxLines
      /\ \A s \in 0 .. stacks - 1 : ColsOf(k, map, stackOf, s) <= in.cols
  BY DEF Charts, InputFacts
<1>2. num_plots = k
  BY <1>1, NumPlots
<1>3. c \in T
  <2>1. T # {} /\ T \in SUBSET Nat /\ \A x \in T : x <= k
    BY <1>1, <1>2
  <2>2. Max(T) \in T
    BY <1>1, <2>1, GreatestNumber
  <2> QED BY <2>2 DEF MoreStacks
<1>4. c \in 1 .. k /\ c >= stacks /\ c * min_plot_rows <= rows
  <2>1. CASE c = stacks
    BY <1>1, <2>1
  <2>2. CASE c \in stacks + 1 .. num_plots /\ c * min_plot_rows <= rows
    <3> HIDE DEF c
    <3>1. c \in 1 .. k /\ c >= stacks
      BY <1>1, <1>2, <2>2
    <3> QED BY <2>2, <3>1
  <2> QED BY <1>3, <2>1, <2>2
<1> HIDE DEF c, T, num_plots
<1>5. stackOf \in [0 .. k - 1 -> 0 .. c - 1]
  <2>1. \A i \in 0 .. stacks - 1 : i \in 0 .. c - 1
    BY <1>1, <1>4
  <2> QED BY <1>1, <2>1
<1>6. \A s \in 0 .. c - 1 : ColsOf(k, map, stackOf, s) <= in.cols
  <2> SUFFICES ASSUME NEW s \in 0 .. c - 1 PROVE ColsOf(k, map, stackOf, s) <= in.cols
    OBVIOUS
  <2>1. CASE s \in 0 .. stacks - 1
    BY <1>1, <2>1
  <2>2. CASE s >= stacks
    <3> DEFINE f == [p \in 0 .. k - 1 |-> IF stackOf[p] = s THEN min_plot_cols(LinesOn(map, p)) ELSE 0]
    <3>1. ColsOf(k, map, stackOf, s) = Total(f, k)
      BY DEF ColsOf
    <3>2. \A p \in 0 .. k - 1 : f[p] = 0
      <4> TAKE p \in 0 .. k - 1
      <4>1. stackOf[p] \in 0 .. stacks - 1
        BY <1>1
      <4>2. stackOf[p] # s
        BY <1>1, <2>2, <4>1
      <4> QED BY <4>2
    <3> HIDE DEF f
    <3>3. Total(f, k) = 0
      BY <1>1, <3>2, TotalNothing
    <3> QED BY <3>1, <3>3 DEF InputFacts
  <2> QED BY <1>1, <2>1, <2>2
<1>7. Charts(k, map, stackOf, c, rows)
  BY <1>1, <1>4, <1>5, <1>6 DEF Charts
<1> QED BY <1>7 DEF c

\* A chart goes down to the next stack only if there is room.
LEMMA MoveFits ==
    ASSUME NEW k, NEW p \in 0 .. k - 1, InputFacts, Plots = 0 .. k - 1, NEW rows \in Nat,
           Charts(k, map, stackOf, stacks, rows),
           \A q \in Plots : info[q] = LinesOn(map, q), Moves(p)
    PROVE  Charts(k, map, [stackOf EXCEPT ![p] = @ + 1], stacks, rows)
<1> DEFINE at == [stackOf EXCEPT ![p] = @ + 1]
           t == stackOf[p]
           w == min_plot_cols(LinesOn(map, p))
<1>1. /\ k \in Nat /\ k \in 1 .. N /\ stacks \in 1 .. k /\ stackOf \in [0 .. k - 1 -> 0 .. stacks - 1]
      /\ \A q \in 0 .. k - 1 : LinesOn(map, q) \in 1 .. MaxLines
      /\ \A s \in 0 .. stacks - 1 : ColsOf(k, map, stackOf, s) <= in.cols
  <2> HIDE DEF at, t, w
  <2>1. N \in Nat /\ k \in 1 .. N
    BY DEF Charts, InputFacts
  <2>2. k \in Nat
    BY <2>1
  <2> QED BY <2>1, <2>2 DEF Charts
<1>8. \A q \in 0 .. k - 1 : min_plot_cols(LinesOn(map, q)) \in Nat
  <2>1. \A n \in 1 .. MaxLines : min_plot_cols(n) \in Nat
    BY LayoutAssumption DEF min_plot_cols, cols_needed_box_drawing
  <2> HIDE DEF at, t, w
  <2> QED BY <1>1, <2>1
<1>2. num_plots = k
  BY <1>1, NumPlots
<1>3. /\ t \in 0 .. stacks - 1 /\ t + 1 < stacks
      /\ ColsAt(stackOf, t + 1) + min_plot_cols(info[p]) <= in.cols
  <2>1. Min({stacks, num_plots}) = stacks
    <3>1. stacks \in Int /\ num_plots \in Int /\ stacks <= num_plots
      BY <1>1, <1>2
    <3> QED BY <3>1, MaxOfTwo
  <2>2. t \in 0 .. stacks - 1
    BY <1>1
  <2> QED BY <2>1, <2>2 DEF Moves
<1>4. at \in [0 .. k - 1 -> 0 .. stacks - 1] /\ at[p] = t + 1 /\ \A q \in 0 .. k - 1 : q # p => at[q] = stackOf[q]
  <2> HIDE DEF t
  <2>1. t + 1 \in 0 .. stacks - 1
    BY <1>1, <1>3
  <2>2. at = [stackOf EXCEPT ![p] = t + 1]
    BY DEF t
  <2> HIDE DEF at
  <2> QED BY <1>1, <2>1, <2>2
<1>5. info[p] = LinesOn(map, p) /\ ColsAt(stackOf, t + 1) = ColsOf(k, map, stackOf, t + 1)
  <2> DEFINE f == [q \in 0 .. k - 1 |-> IF stackOf[q] = t + 1 THEN min_plot_cols(info[q]) ELSE 0]
             g == [q \in 0 .. k - 1 |-> IF stackOf[q] = t + 1 THEN min_plot_cols(LinesOn(map, q)) ELSE 0]
  <2>1. \A q \in 0 .. k - 1 : f[q] = g[q]
    OBVIOUS
  <2>2. ColsAt(stackOf, t + 1) = Total(f, k)
    BY <1>2 DEF ColsAt
  <2>3. ColsOf(k, map, stackOf, t + 1) = Total(g, k)
    BY DEF ColsOf
  <2> HIDE DEF f, g
  <2>4. Total(f, k) = Total(g, k)
    BY <1>1, <2>1, TotalSame
  <2> QED BY <2>2, <2>3, <2>4
<1>6. ASSUME NEW s \in 0 .. stacks - 1
      PROVE  ColsOf(k, map, at, s) <= in.cols
  <2> DEFINE old == [q \in 0 .. k - 1 |-> IF stackOf[q] = s THEN min_plot_cols(LinesOn(map, q)) ELSE 0]
             new == [q \in 0 .. k - 1 |-> IF at[q] = s THEN min_plot_cols(LinesOn(map, q)) ELSE 0]
             one == [q \in 0 .. k - 1 |-> IF q = p THEN w ELSE 0]
  <2>1. \A q \in 0 .. k - 1 : min_plot_cols(LinesOn(map, q)) \in Nat
    BY <1>8
  <2>2. ColsOf(k, map, stackOf, s) = Total(old, k) /\ ColsOf(k, map, at, s) = Total(new, k)
    BY DEF ColsOf
  <2>3. /\ \A q \in 0 .. k - 1 : /\ old[q] = (IF stackOf[q] = s THEN min_plot_cols(LinesOn(map, q)) ELSE 0)
                                 /\ new[q] = (IF at[q] = s THEN min_plot_cols(LinesOn(map, q)) ELSE 0)
                                 /\ one[q] = (IF q = p THEN w ELSE 0)
    OBVIOUS
  <2>4. w \in Nat /\ t \in Nat /\ s \in Nat /\ in.cols \in Nat
    BY <1>3, <2>1 DEF InputFacts
  <2>5. Total(old, k) <= in.cols
    BY <1>1, <2>2
  <2> HIDE DEF old, new, one, min_plot_cols
  <2>6. CASE s = t + 1
    <3>1. \A q \in 0 .. k - 1 : old[q] \in Nat /\ one[q] \in Nat /\ new[q] = old[q] + one[q]
      <4> SUFFICES ASSUME NEW q \in 0 .. k - 1
                   PROVE  old[q] \in Nat /\ one[q] \in Nat /\ new[q] = old[q] + one[q]
        OBVIOUS
      <4>1. CASE q = p
        <5>1. old[q] = 0 /\ new[q] = w /\ one[q] = w
          BY <1>4, <2>3, <2>4, <2>6, <4>1
        <5> QED BY <2>4, <5>1
      <4>2. CASE q # p
        <5>1. old[q] \in Nat /\ new[q] = old[q] /\ one[q] = 0
          BY <1>4, <2>1, <2>3, <4>2
        <5> QED BY <5>1
      <4> QED BY <4>1, <4>2
    <3>2. Total(new, k) = Total(old, k) + Total(one, k)
      BY <1>1, <3>1, TotalPlus
    <3>3. Total(one, k) = w
      <4>1. one[p] = w /\ \A q \in 0 .. k - 1 : q # p => one[q] = 0
        BY <2>3
      <4> QED BY <1>1, <2>4, <4>1, TotalOne
    <3> QED BY <1>3, <1>5, <2>2, <2>6, <3>2, <3>3
  <2>7. CASE s # t + 1
    <3>1. \A q \in 0 .. k - 1 : new[q] \in Nat /\ old[q] \in Nat /\ new[q] <= old[q]
      <4> SUFFICES ASSUME NEW q \in 0 .. k - 1
                   PROVE  new[q] \in Nat /\ old[q] \in Nat /\ new[q] <= old[q]
        OBVIOUS
      <4>1. CASE q = p
        <5>1. new[q] = 0 /\ old[q] \in Nat
          BY <1>4, <2>1, <2>3, <2>7, <4>1
        <5> QED BY <5>1
      <4>2. CASE q # p
        <5>1. new[q] = old[q] /\ old[q] \in Nat
          BY <1>4, <2>1, <2>3, <4>2
        <5> QED BY <5>1
      <4> QED BY <4>1, <4>2
    <3>2. Total(new, k) \in Nat /\ Total(old, k) \in Nat /\ Total(new, k) <= Total(old, k)
      BY <1>1, <3>1, TotalGrows
    <3> QED BY <2>2, <2>4, <2>5, <3>2
  <2> QED BY <2>6, <2>7
<1> HIDE DEF at, t, w
<1>7. Charts(k, map, at, stacks, rows)
  BY <1>1, <1>4, <1>6 DEF Charts
<1> QED BY <1>7 DEF at

-----------------------------------------------------------------------------
(* The inductive invariant                                                 *)

\* The charts from their placing on: there are none, or they are as they should.
ChartsPlaced ==
    /\ map \in [Devices -> Devices]
    /\ \/ Plots = {} /\ stackOf = [k \in {} |-> 0] /\ stacks = 0
       \/ /\ HeadersShown
          /\ \E k \in 1 .. N : Charts(k, map, stackOf, stacks, share.plots)

\* What each step of the computation has reached.  While the charts are placed
\* they are those of Merged; from the spreading on they are placed, and once
\* spread, info has the lines of each.
LayoutInv ==
    /\ in \in Input
    /\ pc \in {"start", "place", "spread", "balance", "cut", "done"}
    /\ info \in [Devices -> 0 .. MaxLines]
    /\ map \in [Devices -> Devices]
    /\ mover \in Nat
    /\ share \in [header : 0 .. in.rows, process : 0 .. in.rows, plots : 0 .. in.rows, spaced : BOOLEAN]
    /\ pc \in {"start", "place"} => stackOf = [k \in {} |-> 0] /\ stacks = 0
    /\ pc # "start" => SharedOut
    /\ pc = "place" => Merged(info, map) /\ (share.plots > 0 => HeadersShown)
    /\ pc \in {"place", "spread"} => share.spaced = FALSE
    /\ pc \in {"spread", "balance", "cut", "done"} => ChartsPlaced
    /\ pc \in {"balance", "cut", "done"} => \A p \in Plots : info[p] = LinesOn(map, p)
    /\ pc = "balance" => mover <= num_plots

\* A chart of the layout is one of the first k.
LEMMA PlotsOf ==
    ASSUME NEW k, Charts(k, map, stackOf, stacks, share.plots)
    PROVE  Plots = 0 .. k - 1
BY DEF Charts, Plots

\* No line is on more than one chart, and none has too many.
LEMMA LinesBounded ==
    ASSUME InputFacts, ChartsPlaced, NEW p \in Plots
    PROVE  LinesOn(map, p) \in 1 .. MaxLines /\ p \in Devices
<1>1. PICK k \in 1 .. N : Charts(k, map, stackOf, stacks, share.plots)
  BY DEF ChartsPlaced
<1>2. N \in Nat /\ Devices = 0 .. N - 1
  BY DEF InputFacts, Devices
<1> HIDE DEF N
<1>3. p \in 0 .. k - 1
  BY <1>1, PlotsOf
<1> QED BY <1>1, <1>2, <1>3 DEF Charts

LEMMA NumPlotsType ==
    ASSUME InputFacts, ChartsPlaced
    PROVE  num_plots \in Nat
<1>1. CASE Plots = {}
  BY <1>1, FS_EmptySet DEF num_plots
<1>2. CASE \E k \in 1 .. N : Charts(k, map, stackOf, stacks, share.plots)
  <2>1. PICK k \in 1 .. N : Charts(k, map, stackOf, stacks, share.plots)
    BY <1>2
  <2>2. k \in Nat
    BY DEF InputFacts
  <2> QED BY <2>1, <2>2, PlotsOf, NumPlots
<1> QED BY <1>1, <1>2 DEF ChartsPlaced

LEMMA StartInv ==
    ASSUME LayoutInv, Start
    PROVE  LayoutInv'
<1>1. in \in Input /\ in' = in /\ InputFacts
  BY InputIsKnown DEF LayoutInv, Start
<1>2. /\ share' = FirstShare /\ pc' = "place" /\ info' = [d \in Devices |-> Draw(d)]
      /\ map' = [d \in Devices |-> d] /\ pc = "start"
      /\ stackOf' = stackOf /\ stacks' = stacks /\ mover' = mover
  BY DEF Start
<1>3. Merged(info', map')
  BY <1>1, <1>2, MergedAtStart
<1>4. Merged(info, map)'
  BY <1>1, <1>3, SameMerged
<1>5. /\ N' = N /\ Devices' = Devices /\ header_stacks' = header_stacks
  BY <1>1, SameInput
<1>6. SharedOut' /\ (share'.plots > 0 => HeadersShown') /\ share'.spaced = FALSE
  <2> DEFINE rows == header_stacks * HeaderRows
  <2>1. rows \in Nat
    BY <1>1, HeadersFit, LayoutAssumption
  <2>2. /\ share' \in [header : 0 .. in.rows, process : 0 .. in.rows, plots : 0 .. in.rows, spaced : BOOLEAN]
        /\ share'.header + share'.process + share'.plots = in.rows
        /\ share'.plots > 0 => share'.header = rows
        /\ share'.spaced = FALSE
    BY <1>1, <1>2, FirstRows, Zenon
  <2>3. HeadersShown' <=> share'.header = rows + (IF share'.spaced THEN header_stacks - 1 ELSE 0)
    BY <1>5 DEF HeadersShown
  <2> HIDE DEF rows
  <2>4. share'.plots > 0 => HeadersShown'
    BY <2>1, <2>2, <2>3
  <2> QED BY <1>1, <2>2, <2>4 DEF SharedOut
<1>7. info' \in [Devices -> 0 .. MaxLines] /\ map' \in [Devices -> Devices]
  BY <1>3 DEF Merged
<1> QED BY <1>1, <1>2, <1>4, <1>5, <1>6, <1>7 DEF LayoutInv, SharedOut

\* One turn of the search
LEMMA PlaceInv ==
    ASSUME LayoutInv, Place
    PROVE  LayoutInv'
<1>1. in \in Input /\ in' = in /\ InputFacts /\ pc = "place" /\ share' = share /\ mover' = mover
  BY InputIsKnown DEF LayoutInv, Place
<1>2. /\ info \in [Devices -> 0 .. MaxLines] /\ map \in [Devices -> Devices] /\ mover \in Nat
      /\ stackOf = [k \in {} |-> 0] /\ stacks = 0
      /\ SharedOut /\ Merged(info, map) /\ (share.plots > 0 => HeadersShown) /\ share.spaced = FALSE
  BY <1>1 DEF LayoutInv
<1>3. /\ N' = N /\ Devices' = Devices /\ header_stacks' = header_stacks
  BY <1>1, SameInput
<1>4. SharedOut' /\ (HeadersShown' <=> HeadersShown)
  BY <1>1, <1>2, <1>3 DEF SharedOut, HeadersShown
<1>5. CASE NoPlots
  <2>1. Plots' = {}
    BY <1>5 DEF NoPlots, Plots
  <2>2. ChartsPlaced'
    BY <1>2, <1>3, <1>5, <2>1 DEF ChartsPlaced, NoPlots
  <2> QED BY <1>1, <1>2, <1>3, <1>4, <1>5, <2>2 DEF LayoutInv, NoPlots, SharedOut
<1>6. CASE \E d \in Devices : info[d] > 0 /\ share.plots >= min_plot_rows /\ Pass.out = "ok" /\ Compact
                /\ stackOf' = [k \in 0 .. Len(Pass.at) - 1 |-> Pass.at[k + 1]]
                /\ stacks' = Pass.stacks /\ pc' = "spread" /\ info' = info
  <2>0. Charts(Len(Pass.at), map', stackOf', stacks', share.plots)
    BY <1>1, <1>2, <1>6, CompactKeepsLines
  <2>1. PICK k \in 1 .. N : Charts(k, map', stackOf', stacks', share.plots)
    BY <2>0 DEF Charts
  <2>2. Charts(k, map', stackOf', stacks', share'.plots)
    BY <1>1, <2>1
  <2>3. Charts(k, map, stackOf, stacks, share.plots)'
    BY <1>1, <2>2, SameCharts
  <2>4. k \in 1 .. N /\ map' \in [Devices -> Devices]
    BY <2>1 DEF Charts
  <2>5. share.plots > 0
    BY <1>2, <1>6 DEF SharedOut, min_plot_rows
  <2>6. ChartsPlaced'
    BY <1>2, <1>3, <1>4, <2>3, <2>4, <2>5 DEF ChartsPlaced
  <2> QED BY <1>1, <1>2, <1>3, <1>4, <1>6, <2>4, <2>6 DEF LayoutInv, SharedOut
<1>7. CASE Mergeable # {} /\ Merge(who_to_merge) /\ pc' = pc /\ stackOf' = stackOf /\ stacks' = stacks
  <2>1. who_to_merge \in Mergeable
    BY <1>1, <1>2, <1>7, WhoToMerge
  <2>2. Merged(info', map')
    BY <1>1, <1>2, <1>7, <2>1, MergeKeepsLines
  <2>3. Merged(info, map)'
    BY <1>1, <2>2, SameMerged
  <2>4. info' \in [Devices -> 0 .. MaxLines] /\ map' \in [Devices -> Devices]
    BY <2>2 DEF Merged
  <2> QED BY <1>1, <1>2, <1>3, <1>4, <1>7, <2>3, <2>4 DEF LayoutInv, SharedOut
<1> QED BY <1>5, <1>6, <1>7 DEF Place

\* The rows left over, and the lines of each chart
LEMMA SpreadInv ==
    ASSUME LayoutInv, Spread
    PROVE  LayoutInv'
<1> DEFINE space == header_stacks - 1
           spaced == share.plots - stacks * min_plot_rows >= space
           rows == IF spaced THEN share.plots - space ELSE share.plots
<1>1. in \in Input /\ in' = in /\ InputFacts /\ map' = map /\ stackOf' = stackOf
  BY InputIsKnown DEF LayoutInv, Spread
<1>2. /\ pc = "spread" /\ pc' = "balance" /\ mover' = num_plots
      /\ share' = [share EXCEPT !.header = IF spaced THEN @ + space ELSE @, !.plots = rows, !.spaced = spaced]
      /\ stacks' = IF stacks = 0 THEN 0 ELSE MoreStacks(rows)
      /\ info' = [k \in Devices |-> IF k \in Plots THEN LinesOn(map, k) ELSE 0]
  BY DEF Spread, InfoInPlot, LinesOn
<1>3. /\ map \in [Devices -> Devices] /\ SharedOut /\ share.spaced = FALSE /\ ChartsPlaced
  BY <1>2 DEF LayoutInv
<1>4. /\ N' = N /\ Devices' = Devices /\ header_stacks' = header_stacks /\ Plots' = Plots
      /\ num_plots' = num_plots
  BY <1>1, SameInput DEF Plots, num_plots
<1>5. info' \in [Devices -> 0 .. MaxLines]
  <2>1. \A p \in Plots : LinesOn(map, p) \in 0 .. MaxLines
    BY <1>1, <1>3, LinesBounded, LayoutAssumption
  <2>2. 0 \in 0 .. MaxLines
    BY LayoutAssumption
  <2>3. \A k \in Devices : (IF k \in Plots THEN LinesOn(map, k) ELSE 0) \in 0 .. MaxLines
    BY <2>1, <2>2
  <2> QED BY <1>2, <2>3
<1>6. ASSUME NEW p \in Plots' PROVE info'[p] = LinesOn(map, p)'
  <2>1. p \in Plots /\ p \in Devices
    BY <1>1, <1>3, <1>4, <1>6, LinesBounded
  <2>2. info'[p] = LinesOn(map, p)
    BY <1>2, <2>1
  <2>3. LinesOn(map, p)' = LinesOn(map', p)
    BY <1>1, SameLines
  <2> QED BY <1>1, <2>2, <2>3
<1>7. space \in Nat
  BY <1>1, HeadersFit
<1>8. stacks \in Nat /\ stacks * min_plot_rows <= share.plots
  <2>1. CASE stacks = 0
    BY <1>3, <2>1 DEF SharedOut, min_plot_rows
  <2>2. CASE \E k \in 1 .. N : Charts(k, map, stackOf, stacks, share.plots)
    BY <2>2 DEF Charts
  <2> QED BY <1>3, <2>1, <2>2 DEF ChartsPlaced
<1>9. /\ share.header \in 0 .. in.rows /\ share.process \in 0 .. in.rows /\ share.plots \in 0 .. in.rows
      /\ share.header + share.process + share.plots = in.rows /\ in.rows \in Nat
      /\ share = [header |-> share.header, process |-> share.process, plots |-> share.plots, spaced |-> share.spaced]
  BY <1>1, <1>3 DEF SharedOut, InputFacts
<1>10. /\ share'.header = (IF spaced THEN share.header + space ELSE share.header)
       /\ share'.plots = rows /\ share'.spaced = spaced /\ share'.process = share.process
       /\ share' = [header |-> share'.header, process |-> share'.process, plots |-> share'.plots,
                    spaced |-> share'.spaced]
  BY <1>2, <1>9
<1>11. /\ rows \in 0 .. in.rows /\ stacks * min_plot_rows <= rows /\ share'.header \in 0 .. in.rows
       /\ share'.header + share'.process + share'.plots = in.rows
  <2>1. CASE spaced
    <3>1. rows = share.plots - space /\ share'.header = share.header + space /\ share.plots - stacks * min_plot_rows >= space
      BY <1>10, <2>1
    <3> HIDE DEF rows, space, spaced
    <3> QED BY <1>7, <1>8, <1>9, <1>10, <3>1 DEF min_plot_rows
  <2>2. CASE ~spaced
    <3>1. rows = share.plots /\ share'.header = share.header
      BY <1>10, <2>2
    <3> HIDE DEF rows, space, spaced
    <3> QED BY <1>8, <1>9, <1>10, <3>1
  <2> QED BY <2>1, <2>2
<1>12. SharedOut'
  <2>1. spaced \in BOOLEAN
    OBVIOUS
  <2> HIDE DEF rows, space, spaced
  <2> QED BY <1>1, <1>9, <1>10, <1>11, <2>1 DEF SharedOut
<1>13. HeadersShown => HeadersShown'
  <2> DEFINE h == header_stacks * HeaderRows
  <2>1. h \in Nat
    BY <1>1, HeadersFit, LayoutAssumption
  <2>2. HeadersShown' <=> share'.header = h + (IF share'.spaced THEN space ELSE 0)
    BY <1>4 DEF HeadersShown
  <2>3. HeadersShown <=> share.header = h + 0
    BY <1>3 DEF HeadersShown
  <2>4. share'.header = (IF share'.spaced THEN share.header + space ELSE share.header)
    BY <1>10
  <2> HIDE DEF h, space, spaced, rows
  <2> QED BY <1>7, <2>1, <2>2, <2>3, <2>4
<1> HIDE DEF space, spaced, rows
<1>14. ChartsPlaced'
  <2>1. CASE Plots = {} /\ stackOf = [j \in {} |-> 0] /\ stacks = 0
    BY <1>1, <1>2, <1>3, <1>4, <2>1 DEF ChartsPlaced
  <2>2. CASE HeadersShown /\ \E k \in 1 .. N : Charts(k, map, stackOf, stacks, share.plots)
    <3>1. PICK k \in 1 .. N : Charts(k, map, stackOf, stacks, share.plots)
      BY <2>2
    <3>2. Charts(k, map, stackOf, stacks, rows)
      BY <1>11, <3>1 DEF Charts
    <3>3. Plots = 0 .. k - 1 /\ stacks # 0 /\ rows \in Nat
      <4>1. Plots = 0 .. k - 1
        BY <3>1, PlotsOf
      <4>2. k \in Nat /\ stacks \in 1 .. k
        BY <1>1, <3>1 DEF Charts, InputFacts
      <4> QED BY <1>9, <1>11, <4>1, <4>2
    <3>4. Charts(k, map, stackOf, MoreStacks(rows), rows)
      BY <1>1, <3>2, <3>3, MoreStacksFit
    <3>5. Charts(k, map', stackOf', stacks', share'.plots)
      BY <1>1, <1>2, <1>10, <3>3, <3>4
    <3>6. Charts(k, map, stackOf, stacks, share.plots)'
      BY <1>1, <3>5, SameCharts
    <3> QED BY <1>1, <1>3, <1>4, <1>13, <2>2, <3>6 DEF ChartsPlaced
  <2> QED BY <1>3, <2>1, <2>2 DEF ChartsPlaced
<1>15. num_plots \in Nat
  BY <1>1, <1>3, NumPlotsType
<1> HIDE DEF num_plots
<1>16. mover' \in Nat /\ mover' <= num_plots'
  BY <1>2, <1>4, <1>15
<1> QED BY <1>1, <1>2, <1>3, <1>4, <1>5, <1>6, <1>12, <1>14, <1>16 DEF LayoutInv, SharedOut

\* One chart tried
LEMMA BalanceInv ==
    ASSUME LayoutInv, Balance
    PROVE  LayoutInv'
<1>1. /\ in \in Input /\ in' = in /\ InputFacts /\ map' = map /\ stacks' = stacks /\ info' = info
      /\ share' = share /\ pc = "balance"
  BY InputIsKnown DEF LayoutInv, Balance
<1>2. /\ map \in [Devices -> Devices] /\ SharedOut /\ ChartsPlaced /\ mover \in Nat /\ mover <= num_plots
      /\ info \in [Devices -> 0 .. MaxLines]
      /\ \A p \in Plots : info[p] = LinesOn(map, p)
  BY <1>1 DEF LayoutInv
<1>3. /\ N' = N /\ Devices' = Devices /\ header_stacks' = header_stacks
  BY <1>1, SameInput
<1>4. SharedOut' /\ (HeadersShown' <=> HeadersShown)
  BY <1>1, <1>2, <1>3 DEF SharedOut, HeadersShown
<1>5. \A p : LinesOn(map, p)' = LinesOn(map, p)
  BY <1>1, SameLines
<1>6. CASE stackOf' = stackOf /\ pc' \in {"balance", "cut"} /\ mover' \in Nat /\ mover' <= mover
  <2>1. Plots' = Plots /\ num_plots' = num_plots
    BY <1>6 DEF Plots, num_plots
  <2>2. ASSUME NEW k PROVE Charts(k, map, stackOf, stacks, share.plots)' <=> Charts(k, map, stackOf, stacks, share.plots)
    <3>1. Charts(k, map, stackOf, stacks, share.plots)' <=> Charts(k, map', stackOf', stacks', share'.plots)
      BY <1>1, SameCharts
    <3> QED BY <1>1, <1>6, <3>1
  <2>3. ChartsPlaced'
    <3>1. CASE Plots = {} /\ stackOf = [j \in {} |-> 0] /\ stacks = 0
      BY <1>1, <1>2, <1>3, <1>6, <2>1, <3>1 DEF ChartsPlaced
    <3>2. CASE HeadersShown /\ \E k \in 1 .. N : Charts(k, map, stackOf, stacks, share.plots)
      BY <1>1, <1>2, <1>3, <1>4, <2>1, <2>2, <3>2 DEF ChartsPlaced
    <3> QED BY <1>2, <3>1, <3>2 DEF ChartsPlaced
  <2>4. mover' <= num_plots'
    <3>1. num_plots \in Nat
      BY <1>1, <1>2, NumPlotsType
    <3> HIDE DEF num_plots
    <3> QED BY <1>2, <1>6, <2>1, <3>1
  <2> QED BY <1>1, <1>2, <1>3, <1>4, <1>5, <1>6, <2>1, <2>3, <2>4 DEF LayoutInv, SharedOut
<1>7. CASE /\ mover > 0 /\ Moves(mover - 1) /\ pc' = pc
           /\ stackOf' = [stackOf EXCEPT ![mover - 1] = @ + 1] /\ mover' = num_plots
  <2> DEFINE p == mover - 1
  <2>1. PICK k \in 1 .. N : Charts(k, map, stackOf, stacks, share.plots)
    <3>1. Plots # {}
      <4>1. num_plots # 0
        <5> HIDE DEF num_plots
        <5> QED BY <1>2, <1>7
      <4> QED BY <4>1, FS_EmptySet DEF num_plots
    <3> QED BY <1>2, <3>1 DEF ChartsPlaced
  <2>2. k \in Nat /\ Plots = 0 .. k - 1
    BY <1>1, <2>1, PlotsOf DEF InputFacts
  <2>3. num_plots = k
    BY <2>2, NumPlots
  <2>4. p \in 0 .. k - 1
    <3> HIDE DEF num_plots
    <3> QED BY <1>2, <1>7, <2>2, <2>3
  <2>5. share.plots \in Nat
    BY <1>1, <1>2 DEF SharedOut, InputFacts
  <2>6. Charts(k, map, stackOf', stacks, share.plots)
    <3>1. Moves(p) /\ stackOf' = [stackOf EXCEPT ![p] = @ + 1]
      BY <1>7
    <3> HIDE DEF p
    <3> QED BY <1>1, <1>2, <2>1, <2>2, <2>4, <2>5, <3>1, MoveFits
  <2>7. Charts(k, map, stackOf, stacks, share.plots)'
    <3>1. Charts(k, map, stackOf, stacks, share.plots)' <=> Charts(k, map', stackOf', stacks', share'.plots)
      BY <1>1, SameCharts
    <3> QED BY <1>1, <2>6, <3>1
  <2>8. Plots' = Plots /\ num_plots' = num_plots
    BY <1>7 DEF Plots, num_plots
  <2>9. HeadersShown
    BY <1>2, <2>1, <2>2 DEF ChartsPlaced, Charts
  <2>10. ChartsPlaced'
    BY <1>1, <1>2, <1>3, <1>4, <2>7, <2>9 DEF ChartsPlaced
  <2>11. mover' \in Nat /\ mover' <= num_plots'
    BY <1>7, <2>2, <2>3, <2>8
  <2> QED BY <1>1, <1>2, <1>3, <1>4, <1>5, <1>7, <2>8, <2>10, <2>11 DEF LayoutInv, SharedOut
<1> QED
  <2>1. CASE mover > 0
    <3>1. mover - 1 \in Nat /\ mover - 1 <= mover
      BY <1>2, <2>1
    <3> QED BY <1>1, <1>6, <1>7, <2>1, <3>1 DEF Balance
  <2>2. CASE ~(mover > 0)
    BY <1>2, <1>6, <2>2 DEF Balance
  <2> QED BY <2>1, <2>2

-----------------------------------------------------------------------------
(* The order in which the windows are cut                                  *)

\* Chart q is cut before chart p.
Before(q, p) == \/ stackOf[q] < stackOf[p]
                \/ stackOf[q] = stackOf[p] /\ q < p

\* Every number is that of one cut, of another chart for each.
LEMMA CutOrderIsOne ==
    ASSUME NEW n \in Nat, Plots = 0 .. n - 1, \A p \in Plots : stackOf[p] \in Nat
    PROVE  /\ \A k \in Plots : CutOrder(k) \in Plots
           /\ \A j, k \in Plots : CutOrder(j) = CutOrder(k) => j = k
<1> DEFINE D == 0 .. n - 1
           S(p) == {q \in D : Before(q, p)}
           rank == [p \in D |-> Cardinality(S(p))]
<1>1. \A p \in D : stackOf[p] \in Nat /\ p \in Nat
  OBVIOUS
<1>2. IsFiniteSet(D) /\ Cardinality(D) = n
  <2>1. /\ IsFiniteSet(0 .. n - 1)
        /\ Cardinality(0 .. n - 1) = IF 0 > n - 1 THEN 0 ELSE n - 1 - 0 + 1
    BY FS_Interval
  <2> QED BY <2>1
<1> HIDE DEF D
<1>3. \A p, q \in D : Before(p, q) \/ Before(q, p) \/ p = q
  BY <1>1 DEF Before
<1>4. \A p \in D : ~Before(p, p)
  BY <1>1 DEF Before
<1>5. \A p, q, r \in D : Before(p, q) /\ Before(q, r) => Before(p, r)
  BY <1>1 DEF Before
<1>6. \A p \in D : IsFiniteSet(S(p)) /\ Cardinality(S(p)) \in Nat
  <2> SUFFICES ASSUME NEW p \in D PROVE IsFiniteSet(S(p)) /\ Cardinality(S(p)) \in Nat
    OBVIOUS
  <2>1. S(p) \in SUBSET D
    OBVIOUS
  <2> HIDE DEF S
  <2> QED BY <1>2, <2>1, FS_Subset, FS_CardinalityType
<1>7. ASSUME NEW p \in D, NEW q \in D, Before(p, q)
      PROVE  Cardinality(S(p)) < Cardinality(S(q))
  <2>1. S(p) \in SUBSET S(q) /\ p \in S(q) /\ p \notin S(p)
    BY <1>4, <1>5, <1>7
  <2> HIDE DEF S
  <2>2. Cardinality(S(p)) <= Cardinality(S(q)) /\ Cardinality(S(p)) # Cardinality(S(q))
    BY <1>6, <2>1, FS_Subset
  <2> QED BY <1>6, <2>2
<1>8. \A p \in D : rank[p] \in D
  <2> SUFFICES ASSUME NEW p \in D PROVE Cardinality(S(p)) \in D
    OBVIOUS
  <2>1. S(p) \in SUBSET D /\ p \notin S(p)
    BY <1>4
  <2>2. Cardinality(S(p)) \in Nat
    BY <1>6
  <2> HIDE DEF S
  <2>3. Cardinality(S(p)) <= Cardinality(D) /\ Cardinality(S(p)) # Cardinality(D)
    BY <1>2, <2>1, FS_Subset
  <2> QED BY <1>2, <2>2, <2>3 DEF D
<1>9. \A p, q \in D : rank[p] = rank[q] => p = q
  <2> SUFFICES ASSUME NEW p \in D, NEW q \in D, rank[p] = rank[q], p # q PROVE FALSE
    OBVIOUS
  <2>1. Cardinality(S(p)) = Cardinality(S(q)) /\ Cardinality(S(p)) \in Nat
    BY <1>6
  <2> HIDE DEF S, rank
  <2>2. Before(p, q) \/ Before(q, p)
    BY <1>3
  <2> QED BY <1>7, <2>1, <2>2
<1>10. \A k \in D : \E p \in D : rank[p] = k
  <2>1. rank \in [D -> D]
    BY <1>8
  <2> HIDE DEF rank
  <2>2. rank \in Injection(D, D)
    BY <1>9, <2>1 DEF Injection, IsInjective
  <2>3. rank \in Surjection(D, D)
    BY <1>2, <2>2, FS_Injection
  <2> QED BY <2>3 DEF Surjection
<1>11. \A k : CutOrder(k) = CHOOSE p \in D : k = Cardinality(S(p))
  BY DEF CutOrder, Before, D
<1>12. \A k \in D : CutOrder(k) \in D /\ k = rank[CutOrder(k)]
  <2> TAKE k \in D
  <2> DEFINE c == CHOOSE p \in D : k = Cardinality(S(p))
  <2>1. c \in D /\ k = Cardinality(S(c))
    BY <1>10
  <2>2. c = CutOrder(k)
    BY <1>11
  <2> HIDE DEF c, S
  <2> QED BY <2>1, <2>2
<1> HIDE DEF rank, S
<1> QED BY <1>12 DEF D

-----------------------------------------------------------------------------
(* The columns of the windows                                              *)

\* Products and quotients
LEMMA TimesGrows ==
    ASSUME NEW a \in Nat, NEW b \in Nat, NEW c \in Nat, a <= b
    PROVE  c * a \in Nat /\ c * b \in Nat /\ c * a <= c * b
<1>1. c * b = c * a + c * (b - a) /\ b - a \in Nat
  OBVIOUS
<1>2. c * (b - a) \in Nat /\ c * a \in Nat /\ c * b \in Nat
  BY <1>1
<1> QED BY <1>1, <1>2

LEMMA Cancel ==
    ASSUME NEW a \in Nat, NEW b \in Nat, NEW c \in Nat \ {0}, c * a <= c * b
    PROVE  a <= b
<1> SUFFICES ASSUME b + 1 <= a PROVE FALSE
  OBVIOUS
<1>1. c * (b + 1) <= c * a /\ c * (b + 1) = c * b + c
  BY TimesGrows
<1>2. c * a \in Nat /\ c * b \in Nat
  OBVIOUS
<1> QED BY <1>1, <1>2

LEMMA Quotient ==
    ASSUME NEW a \in Nat, NEW b \in Nat \ {0}
    PROVE  /\ a \div b \in Nat /\ b * (a \div b) <= a
           /\ \A c \in Nat : b * c <= a => c <= a \div b
<1> DEFINE q == a \div b
           r == a % b
<1>1. q \in Nat /\ r \in 0 .. b - 1 /\ a = b * q + r
  BY Division
<1> HIDE DEF q, r
<1>2. b * q \in Nat
  BY <1>1
<1>3. ASSUME NEW c \in Nat, b * c <= a PROVE c <= q
  <2>1. b * (q + 1) = b * q + b
    BY <1>1
  <2>2. CASE q + 1 <= c
    <3>1. b * (q + 1) <= b * c /\ b * c \in Nat
      BY <1>1, <2>2, TimesGrows
    <3> QED BY <1>1, <1>2, <1>3, <2>1, <3>1
  <2>3. CASE ~(q + 1 <= c)
    BY <1>1, <2>3
  <2> QED BY <2>2, <2>3
<1>4. b * q <= a
  BY <1>1, <1>2
<1> QED BY <1>1, <1>3, <1>4 DEF q

\* A number shared out in proportion, rounded down: the shares are no more than
\* it, and if it has ten for every part, each has ten for its parts.
LEMMA Proportional ==
    ASSUME NEW n \in Nat, NEW F \in Nat, NEW a, \A i \in 0 .. n - 1 : a[i] \in Nat,
           Total(a, n) # 0
    PROVE  LET f == [i \in 0 .. n - 1 |-> (F * a[i]) \div Total(a, n)] IN
           /\ \A i \in 0 .. n - 1 : f[i] \in Nat
           /\ Total(f, n) \in Nat /\ Total(f, n) <= F
           /\ F >= 10 * Total(a, n) => \A i \in 0 .. n - 1 : f[i] >= 10 * a[i]
<1> DEFINE L == Total(a, n)
           f == [i \in 0 .. n - 1 |-> (F * a[i]) \div L]
<1>0. L \in Nat \ {0} /\ L = Total(a, n) /\ \A i \in 0 .. n - 1 : f[i] = (F * a[i]) \div L
  BY TotalType
<1> HIDE DEF L, f
<1> DEFINE g == [i \in 0 .. n - 1 |-> L * f[i]]
           h == [i \in 0 .. n - 1 |-> F * a[i]]
<1>1. \A i \in 0 .. n - 1 : f[i] \in Nat /\ L * f[i] <= F * a[i] /\ L * f[i] \in Nat /\ F * a[i] \in Nat
  <2> SUFFICES ASSUME NEW i \in 0 .. n - 1
               PROVE  f[i] \in Nat /\ L * f[i] <= F * a[i] /\ L * f[i] \in Nat /\ F * a[i] \in Nat
    OBVIOUS
  <2> DEFINE p == F * a[i]
  <2>1. p \in Nat
    OBVIOUS
  <2>2. f[i] = p \div L
    BY <1>0
  <2> HIDE DEF p
  <2>3. f[i] \in Nat /\ L * f[i] <= p
    BY <1>0, <2>1, <2>2, Quotient
  <2>4. L * f[i] \in Nat
    BY <1>0, <2>3
  <2> QED BY <2>1, <2>3, <2>4 DEF p
<1>2. \A i \in 0 .. n - 1 : g[i] = L * f[i] /\ h[i] = F * a[i]
  OBVIOUS
<1> HIDE DEF g, h
<1>3. \A i \in 0 .. n - 1 : g[i] \in Nat /\ h[i] \in Nat /\ g[i] <= h[i]
  BY <1>1, <1>2
<1>4. Total(g, n) <= Total(h, n)
  BY <1>3, TotalGrows
<1>5. Total(g, n) = L * Total(f, n)
  <2>1. \A i \in 0 .. n - 1 : f[i] \in Nat
    BY <1>1
  <2>2. L \in Nat
    BY <1>0
  <2> QED BY <2>1, <2>2, TotalTimes DEF g
<1>6. Total(h, n) = F * Total(a, n)
  BY TotalTimes DEF h
<1>7. Total(f, n) \in Nat
  BY <1>1, TotalType
<1>8. F * L = L * F
  BY <1>0
<1>9. Total(f, n) <= F
  <2> DEFINE t == Total(f, n)
  <2>1. t \in Nat /\ L * t <= L * F
    BY <1>0, <1>4, <1>5, <1>6, <1>7, <1>8
  <2> HIDE DEF t
  <2>2. t <= F
    BY <1>0, <2>1, Cancel
  <2> QED BY <2>2 DEF t
<1>10. ASSUME F >= 10 * L, NEW i \in 0 .. n - 1
       PROVE  f[i] >= 10 * a[i]
  <2> DEFINE b == a[i]
             c == 10 * b
             p == F * b
  <2>1. b \in Nat /\ c \in Nat /\ p \in Nat /\ f[i] = p \div L
    BY <1>0
  <2>2. 10 * L \in Nat /\ b * (10 * L) <= b * F
    BY <1>0, <1>10, <2>1, TimesGrows
  <2>3. b * (10 * L) = L * c /\ b * F = p
    BY <1>0, <2>1
  <2> HIDE DEF b, c, p
  <2>4. L * c <= p
    BY <2>2, <2>3
  <2>5. c <= p \div L /\ p \div L \in Nat
    BY <1>0, <2>1, <2>4, Quotient
  <2>6. f[i] >= c
    BY <2>1, <2>5
  <2> QED BY <2>6 DEF b, c
<1> QED BY <1>1, <1>7, <1>9, <1>10 DEF f, L

\* A window of whole columns per line keeps the columns its lines ask for.
LEMMA WholeColumns ==
    ASSUME NEW g \in Nat, NEW a \in Nat \ {0}, g >= 10 * a
    PROVE  g % a \in Nat /\ g - (g % a) >= 10 * a
<1> DEFINE q == g \div a
           r == g % a
<1>1. q \in Nat /\ r \in 0 .. a - 1 /\ g = a * q + r
  BY Division
<1>2. a * 10 <= g
  OBVIOUS
<1>3. 10 <= q
  BY <1>2, Quotient
<1> HIDE DEF q, r
<1>4. a * 10 <= a * q /\ a * q \in Nat /\ a * 10 = 10 * a
  BY <1>1, <1>3, TimesGrows
<1>5. r \in Nat /\ g - r = a * q
  BY <1>1, <1>4
<1> QED BY <1>4, <1>5 DEF r

\* Where the windows of k charts are cut from
CutFrom(k) ==
    /\ InputFacts /\ SharedOut /\ HeadersShown
    /\ Charts(k, map, stackOf, stacks, share.plots)
    /\ \A p \in Plots : info[p] = LinesOn(map, p)

LEMMA CutFacts ==
    ASSUME NEW k, CutFrom(k)
    PROVE  /\ k \in Nat \ {0} /\ Plots = 0 .. k - 1 /\ num_plots = k /\ stacks \in Nat \ {0}
           /\ stackOf \in [0 .. k - 1 -> 0 .. stacks - 1]
           /\ \A p \in 0 .. k - 1 : info[p] \in Nat \ {0} /\ stackOf[p] \in 0 .. stacks - 1
           /\ stacks * min_plot_rows <= share.plots
           /\ in.cols \in Nat /\ in.cols < UintMod /\ UintMod \in Nat
<1>1. InputFacts /\ Charts(k, map, stackOf, stacks, share.plots) /\ \A p \in Plots : info[p] = LinesOn(map, p)
  BY DEF CutFrom
<1>2. Plots = 0 .. k - 1
  BY <1>1, PlotsOf
<1>3. k \in Nat \ {0} /\ stacks \in 1 .. k /\ stackOf \in [0 .. k - 1 -> 0 .. stacks - 1]
      /\ stacks * min_plot_rows <= share.plots
  <2>1. N \in Nat
    BY <1>1 DEF InputFacts
  <2> HIDE DEF N
  <2> QED BY <1>1, <2>1 DEF Charts
<1>4. num_plots = k
  BY <1>2, <1>3, NumPlots
<1>5. \A p \in 0 .. k - 1 : info[p] \in Nat \ {0}
  <2>1. \A n \in 1 .. MaxLines : n \in Nat \ {0}
    BY LayoutAssumption
  <2> QED BY <1>1, <1>2, <2>1 DEF Charts
<1> QED BY <1>1, <1>2, <1>3, <1>4, <1>5, LayoutAssumption DEF InputFacts

\* The charts of a stack, their lines, and the columns there are for lines
Beside(s) == [q \in Plots |-> IF stackOf[q] = s THEN 1 ELSE 0]
LinesBeside(s) == [q \in Plots |-> Beside(s)[q] * info[q]]
ForLines(s) == Minus(in.cols, Total(Beside(s), num_plots) * cols_needed_box_drawing)

\* No subtraction wraps around: each line of a stack has its ten columns.
LEMMA StackCols ==
    ASSUME NEW k, CutFrom(k), NEW s \in 0 .. stacks - 1
    PROVE  /\ Total(Beside(s), k) \in Nat /\ Total(LinesBeside(s), k) \in Nat
           /\ ForLines(s) \in Nat /\ ForLines(s) >= 10 * Total(LinesBeside(s), k)
           /\ ForLines(s) + 5 * Total(Beside(s), k) = in.cols
           /\ \A q \in 0 .. k - 1 : /\ Beside(s)[q] = (IF stackOf[q] = s THEN 1 ELSE 0)
                                    /\ LinesBeside(s)[q] = (IF stackOf[q] = s THEN info[q] ELSE 0)
<1> DEFINE b == Beside(s)
           l == LinesBeside(s)
           m == Total(b, k)
           L == Total(l, k)
           b5 == [i \in 0 .. k - 1 |-> 5 * b[i]]
           l10 == [i \in 0 .. k - 1 |-> 10 * l[i]]
           w == [p \in 0 .. k - 1 |-> IF stackOf[p] = s THEN min_plot_cols(LinesOn(map, p)) ELSE 0]
<1>1. /\ k \in Nat \ {0} /\ Plots = 0 .. k - 1 /\ num_plots = k
      /\ \A p \in 0 .. k - 1 : info[p] \in Nat \ {0}
      /\ in.cols \in Nat /\ in.cols < UintMod /\ UintMod \in Nat
  BY CutFacts
<1>2. \A q \in 0 .. k - 1 : b[q] = (IF stackOf[q] = s THEN 1 ELSE 0) /\ b[q] \in Nat
  BY <1>1 DEF Beside
<1>3. \A q \in 0 .. k - 1 : l[q] = (IF stackOf[q] = s THEN info[q] ELSE 0) /\ l[q] \in Nat
  <2> SUFFICES ASSUME NEW q \in 0 .. k - 1
               PROVE  l[q] = (IF stackOf[q] = s THEN info[q] ELSE 0) /\ l[q] \in Nat
    OBVIOUS
  <2>1. l[q] = b[q] * info[q] /\ info[q] \in Nat
    BY <1>1 DEF LinesBeside
  <2> HIDE DEF b, l
  <2> QED BY <1>2, <2>1
<1>4. ColsOf(k, map, stackOf, s) = Total(w, k) /\ ColsOf(k, map, stackOf, s) <= in.cols
  BY DEF ColsOf, Charts, CutFrom
<1>5. \A p \in 0 .. k - 1 : w[p] = IF stackOf[p] = s THEN 5 + 10 * info[p] ELSE 0
  BY <1>1 DEF CutFrom, min_plot_cols, cols_needed_box_drawing
<1>6. \A p \in 0 .. k - 1 : b5[p] = 5 * b[p] /\ l10[p] = 10 * l[p]
  OBVIOUS
<1> HIDE DEF b, l, w
<1>7. Total(b5, k) = 5 * m /\ Total(l10, k) = 10 * L
  BY <1>1, <1>2, <1>3, TotalTimes
<1>8. m \in Nat /\ L \in Nat
  BY <1>1, <1>2, <1>3, TotalType
<1> HIDE DEF b5, l10, m, L
<1>9. \A p \in 0 .. k - 1 : b5[p] \in Nat /\ l10[p] \in Nat /\ w[p] = b5[p] + l10[p]
  <2> TAKE p \in 0 .. k - 1
  <2>1. CASE stackOf[p] = s
    <3>1. b[p] = 1 /\ l[p] = info[p] /\ info[p] \in Nat /\ w[p] = 5 + 10 * info[p]
      BY <1>1, <1>2, <1>3, <1>5, <2>1
    <3>2. b5[p] = 5 * 1 /\ l10[p] = 10 * info[p]
      BY <1>6, <3>1
    <3> QED BY <3>1, <3>2
  <2>2. CASE stackOf[p] # s
    <3>1. b[p] = 0 /\ l[p] = 0 /\ w[p] = 0
      BY <1>2, <1>3, <1>5, <2>2
    <3>2. b5[p] = 5 * 0 /\ l10[p] = 10 * 0
      BY <1>6, <3>1
    <3> QED BY <3>1, <3>2
  <2> QED BY <2>1, <2>2
<1>10. Total(w, k) = Total(b5, k) + Total(l10, k)
  BY <1>1, <1>9, TotalPlus
<1>11. 5 * m + 10 * L <= in.cols
  BY <1>4, <1>7, <1>10
<1>12. ForLines(s) = in.cols - 5 * m
  <2>1. ForLines(s) = (in.cols - m * 5) % UintMod
    BY <1>1 DEF ForLines, Minus, cols_needed_box_drawing, m, b
  <2>2. in.cols - m * 5 \in 0 .. UintMod - 1 /\ in.cols - m * 5 = in.cols - 5 * m
    BY <1>1, <1>8, <1>11
  <2>3. \A x \in 0 .. UintMod - 1 : x % UintMod = x
    BY <1>1
  <2> QED BY <2>1, <2>2, <2>3
<1>13. ForLines(s) \in Nat /\ ForLines(s) >= 10 * L /\ ForLines(s) + 5 * m = in.cols
  BY <1>1, <1>8, <1>11, <1>12
<1> QED BY <1>2, <1>3, <1>8, <1>13 DEF b, l, m, L

\* The columns given to the charts of a stack
Given(s) == [q \in Plots |-> IF stackOf[q] = s THEN MaxPlotCols(q) ELSE 0]

\* Each chart has the columns it asks for, and together they fit on the screen.
LEMMA GivenFits ==
    ASSUME NEW k, CutFrom(k), NEW s \in 0 .. stacks - 1
    PROVE  /\ \A q \in 0 .. k - 1 : stackOf[q] = s =>
                 MaxPlotCols(q) \in Nat /\ MaxPlotCols(q) >= 5 + 10 * info[q]
           /\ \A q \in 0 .. k - 1 : /\ Given(s)[q] = (IF stackOf[q] = s THEN MaxPlotCols(q) ELSE 0)
                                    /\ Given(s)[q] \in Nat
           /\ Total(Given(s), k) <= in.cols
<1> DEFINE b == Beside(s)
           l == LinesBeside(s)
           m == Total(b, k)
           L == Total(l, k)
           F == ForLines(s)
           g == Given(s)
           f == [i \in 0 .. k - 1 |-> (F * l[i]) \div L]
           b5 == [i \in 0 .. k - 1 |-> 5 * b[i]]
<1>1. /\ k \in Nat \ {0} /\ Plots = 0 .. k - 1 /\ num_plots = k
      /\ \A p \in 0 .. k - 1 : info[p] \in Nat \ {0}
      /\ in.cols \in Nat
  BY CutFacts
<1>2. /\ m \in Nat /\ L \in Nat /\ F \in Nat /\ F >= 10 * L /\ F + 5 * m = in.cols
      /\ \A q \in 0 .. k - 1 : /\ b[q] = (IF stackOf[q] = s THEN 1 ELSE 0)
                               /\ l[q] = (IF stackOf[q] = s THEN info[q] ELSE 0)
  BY StackCols
<1>3. \A q \in 0 .. k - 1 : stackOf[q] = s => MaxPlotCols(q) = 5 + (F * info[q]) \div L
  BY <1>1 DEF MaxPlotCols, Beside, LinesBeside, ForLines, cols_needed_box_drawing
<1>4. \A q \in 0 .. k - 1 : f[q] = (F * l[q]) \div L /\ b5[q] = 5 * b[q]
  OBVIOUS
<1>5. \A q \in 0 .. k - 1 : g[q] = (IF stackOf[q] = s THEN MaxPlotCols(q) ELSE 0)
  BY <1>1 DEF Given
<1> HIDE DEF b, l, F, g, f, m
<1>6. \A q \in 0 .. k - 1 : b[q] \in Nat /\ l[q] \in Nat
  BY <1>1, <1>2
<1>7. Total(b5, k) = 5 * m
  BY <1>1, <1>6, TotalTimes DEF m
<1> HIDE DEF L, b5
<1>8. CASE L = 0
  <2>1. \A q \in 0 .. k - 1 : stackOf[q] # s
    <3> SUFFICES ASSUME NEW q \in 0 .. k - 1, stackOf[q] = s PROVE FALSE
      OBVIOUS
    <3>1. l[q] <= Total(l, k) /\ Total(l, k) \in Nat
      BY <1>1, <1>6, TotalPart
    <3>2. l[q] = info[q] /\ info[q] \in Nat \ {0}
      BY <1>1, <1>2
    <3> QED BY <1>8, <3>1, <3>2 DEF L
  <2>2. \A q \in 0 .. k - 1 : g[q] = 0
    BY <1>5, <2>1
  <2>3. Total(g, k) = 0
    BY <1>1, <2>2, TotalNothing
  <2> QED BY <1>1, <1>5, <2>1, <2>2, <2>3 DEF g
<1>9. CASE L # 0
  <2>1. L \in Nat \ {0} /\ L = Total(l, k)
    BY <1>2, <1>9 DEF L
  <2>2. /\ \A i \in 0 .. k - 1 : f[i] \in Nat /\ f[i] >= 10 * l[i]
        /\ Total(f, k) \in Nat /\ Total(f, k) <= F
    <3>1. k \in Nat /\ F \in Nat /\ F >= 10 * L
      BY <1>1, <1>2
    <3>2. \A i \in 0 .. k - 1 : l[i] \in Nat
      BY <1>6
    <3>3. Total(l, k) # 0
      BY <2>1
    <3>4. /\ \A i \in 0 .. k - 1 : f[i] \in Nat
          /\ Total(f, k) \in Nat /\ Total(f, k) <= F
          /\ F >= 10 * L => \A i \in 0 .. k - 1 : f[i] >= 10 * l[i]
      BY <3>1, <3>2, <3>3, Proportional DEF f, L
    <3> QED BY <3>1, <3>4
  <2>3. ASSUME NEW q \in 0 .. k - 1
        PROVE  /\ stackOf[q] = s => MaxPlotCols(q) \in Nat /\ MaxPlotCols(q) >= 5 + 10 * info[q]
               /\ b5[q] \in Nat /\ f[q] \in Nat /\ g[q] = b5[q] + f[q] /\ g[q] \in Nat
    <3>1. CASE stackOf[q] = s
      <4>1. MaxPlotCols(q) = 5 + f[q] /\ l[q] = info[q] /\ b5[q] = 5 /\ g[q] = MaxPlotCols(q)
        BY <1>2, <1>3, <1>4, <1>5, <3>1
      <4>2. f[q] \in Nat /\ f[q] >= 10 * l[q] /\ l[q] \in Nat
        BY <1>6, <2>2
      <4> QED BY <4>1, <4>2
    <3>2. CASE stackOf[q] # s
      <4>1. l[q] = 0 /\ b5[q] = 0 /\ g[q] = 0 /\ f[q] = (F * 0) \div L
        BY <1>2, <1>4, <1>5, <3>2
      <4>2. f[q] = 0
        BY <1>2, <2>1, <4>1
      <4> QED BY <3>2, <4>1, <4>2
    <3> QED BY <3>1, <3>2
  <2>4. Total(g, k) = Total(b5, k) + Total(f, k)
    BY <1>1, <2>3, TotalPlus
  <2>5. Total(g, k) <= in.cols
    BY <1>1, <1>2, <1>7, <2>2, <2>4
  <2> QED BY <1>5, <2>3, <2>5 DEF g
<1> QED BY <1>8, <1>9

-----------------------------------------------------------------------------
(* The windows                                                             *)

\* Every stack has the rows it asks for, and together they fit.
LEMMA RowsPerStack ==
    ASSUME NEW k, CutFrom(k)
    PROVE  /\ rows_per_stack \in Nat /\ rows_per_stack >= min_plot_rows
           /\ rows_per_stack * stacks <= share.plots /\ rows_per_stack * stacks \in Nat
<1> DEFINE q == share.plots \div stacks
           r == rows_per_stack
<1>1. stacks \in Nat \ {0} /\ stacks * 7 <= share.plots /\ share.plots \in Nat
  BY CutFacts DEF min_plot_rows, CutFrom, SharedOut, InputFacts
<1>2. q \in Nat /\ stacks * q <= share.plots /\ 7 <= q
  BY <1>1, Quotient
<1>3. r = q \/ (r = 23 /\ q > 23)
  BY DEF rows_per_stack
<1> HIDE DEF q, r
<1>4. r \in Nat /\ r >= 7 /\ r <= q
  BY <1>2, <1>3
<1>5. stacks * r <= stacks * q /\ stacks * r \in Nat
  BY <1>1, <1>2, <1>4, TimesGrows
<1>6. r * stacks = stacks * r /\ stacks * q \in Nat
  BY <1>1, <1>2, <1>4
<1> QED BY <1>1, <1>2, <1>4, <1>5, <1>6 DEF r, min_plot_rows

\* The window cut for a chart
LEMMA CutForFits ==
    ASSUME NEW k, CutFrom(k), NEW p \in 0 .. k - 1
    PROVE  /\ CutFor(p) \in Window
           /\ CutFor(p).w >= min_plot_cols(info[p]) /\ CutFor(p).h = rows_per_stack
           /\ CutFor(p).x = Total(Given(stackOf[p]), p)
           /\ CutFor(p).w <= Given(stackOf[p])[p]
           /\ CutFor(p).x + CutFor(p).w <= in.cols
           /\ CutFor(p).y = share.header + stackOf[p] * rows_per_stack
           /\ CutFor(p).y + CutFor(p).h <= share.header + rows_per_stack * stacks
<1> DEFINE s == stackOf[p]
           g == Given(s)
           c == MaxPlotCols(p)
           a == info[p]
           x == Total(g, p)
           w == c - ((c - 5) % a)
           r == rows_per_stack
           y == share.header + s * r
<1>1. /\ k \in Nat /\ Plots = 0 .. k - 1 /\ s \in 0 .. stacks - 1 /\ a \in Nat \ {0}
      /\ stacks \in Nat \ {0} /\ in.cols \in Nat
  BY CutFacts
<1>2. CutFor(p) = [x |-> x, y |-> y, w |-> w, h |-> r]
  BY DEF CutFor, Given, cols_needed_box_drawing
<1>3. r \in Nat /\ share.header \in Nat
  BY RowsPerStack DEF CutFrom, SharedOut, InputFacts
<1>4. /\ c \in Nat /\ c >= 5 + 10 * a
      /\ \A q \in 0 .. k - 1 : g[q] \in Nat
      /\ g[p] = c
      /\ Total(g, k) <= in.cols
  BY <1>1, GivenFits
<1> HIDE DEF s, g, c, a, r
<1>5. w \in Nat /\ w <= c /\ w >= 5 + 10 * a
  <2> DEFINE f == c - 5
  <2>1. f \in Nat /\ f >= 10 * a
    BY <1>1, <1>4
  <2>2. f % a \in Nat /\ f - (f % a) >= 10 * a
    BY <1>1, <2>1, WholeColumns
  <2> DEFINE z == f % a
  <2>3. w = c - z /\ f = c - 5
    OBVIOUS
  <2> HIDE DEF f, z, w
  <2>4. z \in Nat /\ f - z >= 10 * a
    BY <2>2 DEF z
  <2> QED BY <1>1, <1>4, <2>3, <2>4
<1>6. x \in Nat /\ x + c <= in.cols
  <2>1. Total(g, p) \in Nat /\ Total(g, k) \in Nat /\ Total(g, p) + g[p] <= Total(g, k)
    BY <1>1, <1>4, TotalPart
  <2> HIDE DEF x
  <2>2. x = Total(g, p)
    BY DEF x
  <2> QED BY <1>1, <1>4, <2>1, <2>2
<1>7. y \in Nat /\ y + r <= share.header + r * stacks
  <2>1. r * (s + 1) <= r * stacks /\ r * stacks \in Nat
    BY <1>1, <1>3, TimesGrows
  <2>2. r * (s + 1) = s * r + r /\ s * r \in Nat
    BY <1>1, <1>3
  <2> QED BY <1>3, <2>1, <2>2
<1> HIDE DEF x, y, w
<1>8. [x |-> x, y |-> y, w |-> w, h |-> r] \in Window
  BY <1>3, <1>5, <1>6, <1>7 DEF Window
<1>9. CutFor(p).x = x /\ CutFor(p).y = y /\ CutFor(p).w = w /\ CutFor(p).h = r /\ CutFor(p) \in Window
  BY <1>2, <1>8
<1>10. x + w <= in.cols
  BY <1>1, <1>4, <1>5, <1>6
<1>11. w >= min_plot_cols(info[p])
  BY <1>5 DEF min_plot_cols, cols_needed_box_drawing, a
<1>12. /\ x = Total(Given(stackOf[p]), p) /\ y = share.header + stackOf[p] * rows_per_stack /\ r = rows_per_stack
       /\ w <= Given(stackOf[p])[p]
  BY <1>4, <1>5 DEF x, y, r, s, g
<1>13. y + r <= share.header + rows_per_stack * stacks
  BY <1>7 DEF r
<1> QED BY <1>9, <1>10, <1>11, <1>12, <1>13

\* The windows of two charts have no cell in common.
LEMMA CutForApart ==
    ASSUME NEW k, CutFrom(k), NEW p \in 0 .. k - 1, NEW q \in 0 .. k - 1, p # q
    PROVE  ~Overlap(CutFor(p), CutFor(q))
<1>1. ASSUME NEW a \in 0 .. k - 1, NEW b \in 0 .. k - 1, a < b, stackOf[a] = stackOf[b]
      PROVE  CutFor(a).x + CutFor(a).w <= CutFor(b).x /\ CutFor(a).w \in Nat /\ CutFor(b).w \in Nat
             /\ CutFor(a).x \in Nat /\ CutFor(b).x \in Nat
  <2> DEFINE g == Given(stackOf[a])
  <2>1. /\ k \in Nat /\ stackOf[a] \in 0 .. stacks - 1
    BY CutFacts
  <2>2. \A i \in 0 .. k - 1 : g[i] \in Nat
    BY <2>1, GivenFits
  <2>3. /\ CutFor(a).x = Total(g, a) /\ CutFor(a).w <= g[a] /\ CutFor(a) \in Window
        /\ CutFor(b).x = Total(g, b) /\ CutFor(b) \in Window
    BY <1>1, CutForFits
  <2> HIDE DEF g
  <2>4. Total(g, a) \in Nat /\ Total(g, b) \in Nat /\ Total(g, a) + g[a] <= Total(g, b)
    <3>1. b \in Nat /\ a \in 0 .. b - 1 /\ \A i \in 0 .. b - 1 : g[i] \in Nat
      BY <1>1, <2>1, <2>2
    <3> QED BY <3>1, TotalPart
  <2>5. CutFor(a).w \in Nat /\ CutFor(b).w \in Nat
    BY <2>3 DEF Window
  <2> DEFINE ax == CutFor(a).x
             aw == CutFor(a).w
             bx == CutFor(b).x
             ga == g[a]
  <2>6. ga \in Nat
    BY <2>2
  <2>7. ax = Total(g, a) /\ aw <= ga /\ bx = Total(g, b) /\ aw \in Nat /\ Total(g, a) + ga <= Total(g, b)
    BY <2>3, <2>4, <2>5
  <2> HIDE DEF ax, aw, bx, ga
  <2>8. ax + aw <= bx /\ ax \in Nat /\ bx \in Nat
    BY <2>4, <2>6, <2>7
  <2> QED BY <2>5, <2>8 DEF ax, aw, bx
<1>2. ASSUME NEW a \in 0 .. k - 1, NEW b \in 0 .. k - 1, stackOf[a] < stackOf[b]
      PROVE  CutFor(a).y + CutFor(a).h <= CutFor(b).y /\ CutFor(a).h \in Nat /\ CutFor(b).h \in Nat
             /\ CutFor(a).y \in Nat /\ CutFor(b).y \in Nat
  <2> DEFINE r == rows_per_stack
             s == stackOf[a]
             t == stackOf[b]
             h == share.header
  <2>1. s \in Nat /\ t \in Nat /\ s + 1 <= t
    <3>1. /\ \A i \in 0 .. k - 1 : stackOf[i] \in 0 .. stacks - 1
          /\ stacks \in Nat
      BY CutFacts
    <3> QED BY <1>2, <3>1
  <2>2. r \in Nat /\ h \in Nat
    BY RowsPerStack DEF CutFrom, SharedOut, InputFacts
  <2>3. CutFor(a).y = h + s * r /\ CutFor(a).h = r /\ CutFor(b).y = h + t * r /\ CutFor(b).h = r
    BY CutForFits
  <2> HIDE DEF r, s, t, h
  <2>4. r * (s + 1) <= r * t /\ r * t \in Nat
    BY <2>1, <2>2, TimesGrows
  <2>5. r * (s + 1) = s * r + r /\ r * t = t * r /\ s * r \in Nat
    BY <2>1, <2>2
  <2>6. (h + s * r) + r <= h + t * r /\ h + s * r \in Nat /\ h + t * r \in Nat
    BY <2>2, <2>4, <2>5
  <2> QED BY <2>2, <2>3, <2>6
<1>3. p \in Int /\ q \in Int /\ stackOf[p] \in Int /\ stackOf[q] \in Int
  BY CutFacts
<1>4. \/ stackOf[p] < stackOf[q] \/ stackOf[q] < stackOf[p]
      \/ stackOf[p] = stackOf[q] /\ p < q
      \/ stackOf[q] = stackOf[p] /\ q < p
  BY <1>3
<1> DEFINE v == CutFor(p)
           u == CutFor(q)
<1>5. CASE stackOf[p] < stackOf[q]
  <2>1. v.y + v.h <= u.y /\ v.y \in Nat /\ v.h \in Nat /\ u.y \in Nat
    BY <1>2, <1>5
  <2> HIDE DEF v, u
  <2>2. ~Overlap(v, u)
    BY <2>1 DEF Overlap
  <2> QED BY <2>2 DEF v, u
<1>6. CASE stackOf[q] < stackOf[p]
  <2>1. u.y + u.h <= v.y /\ u.y \in Nat /\ u.h \in Nat /\ v.y \in Nat
    BY <1>2, <1>6
  <2> HIDE DEF v, u
  <2>2. ~Overlap(v, u)
    BY <2>1 DEF Overlap
  <2> QED BY <2>2 DEF v, u
<1>7. CASE stackOf[p] = stackOf[q] /\ p < q
  <2>1. v.x + v.w <= u.x /\ v.x \in Nat /\ v.w \in Nat /\ u.x \in Nat
    BY <1>1, <1>7
  <2> HIDE DEF v, u
  <2>2. ~Overlap(v, u)
    BY <2>1 DEF Overlap
  <2> QED BY <2>2 DEF v, u
<1>8. CASE stackOf[q] = stackOf[p] /\ q < p
  <2>1. u.x + u.w <= v.x /\ u.x \in Nat /\ u.w \in Nat /\ v.x \in Nat
    BY <1>1, <1>8
  <2> HIDE DEF v, u
  <2>2. ~Overlap(v, u)
    BY <2>1 DEF Overlap
  <2> QED BY <2>2 DEF v, u
<1> QED BY <1>4, <1>5, <1>6, <1>7, <1>8

\* The header of a device
LEMMA DeviceWindowFits ==
    ASSUME InputFacts, NEW d \in Devices
    PROVE  /\ DeviceWindow(d) \in Window
           /\ HeadersShown => DeviceWindow(d).y + DeviceWindow(d).h <= share.header
<1> DEFINE n == num_device_per_row
           hs == header_stacks
           i == d \div n
           j == d % n
           left == Minus(in.cols, n * HeaderCols)
           between == IF left > n THEN 1 ELSE 0
           rest == IF between = 1 THEN left - (n - 1) ELSE left
           before == IF rest > 0 THEN 1 ELSE 0
           sp == IF share.spaced THEN 1 ELSE 0
           x == before + j * (HeaderCols + between)
           y == i * (HeaderRows + sp)
<1>1. DeviceWindow(d) = [x |-> x, y |-> y, w |-> HeaderCols, h |-> HeaderRows]
  BY DEF DeviceWindow
<1>2. /\ n \in Nat \ {0} /\ hs \in Nat \ {0} /\ N <= n * hs
      /\ HeaderCols \in Nat \ {0} /\ HeaderRows \in Nat \ {0}
      /\ N \in Nat /\ d \in Nat /\ d < N
  <2>1. N \in Nat
    BY DEF InputFacts
  <2>2. d \in Nat /\ d < N
    <3> HIDE DEF N
    <3> QED BY <2>1 DEF Devices
  <2> QED BY <2>1, <2>2, HeadersFit, LayoutAssumption
<1> HIDE DEF n, hs, N
<1>3. i \in Nat /\ j \in Nat /\ n * i <= d
  <2>1. j \in 0 .. n - 1
    BY <1>2, Division
  <2> QED BY <1>2, <2>1, Quotient
<1>4. between \in Nat /\ before \in Nat /\ sp \in {0, 1}
  OBVIOUS
<1> HIDE DEF i, j, between, before, left, sp
<1>5. x \in Nat /\ y \in Nat
  <2>1. j * (HeaderCols + between) \in Nat /\ i * (HeaderRows + sp) \in Nat
    BY <1>2, <1>3, <1>4
  <2> QED BY <1>4, <2>1
<1>6. HeadersShown => y + HeaderRows <= share.header
  <2>1. i + 1 <= hs
    <3>1. n * i \in Nat /\ n * hs \in Nat /\ n * i < n * hs
      BY <1>2, <1>3
    <3>2. CASE hs <= i
      <4>1. n * hs <= n * i
        BY <1>2, <1>3, <3>2, TimesGrows
      <4> QED BY <3>1, <4>1
    <3> QED BY <1>2, <1>3, <3>2
  <2> DEFINE a == HeaderRows + sp
  <2>2. a \in Nat
    BY <1>2, <1>4
  <2>3. a * (i + 1) <= a * hs /\ a * hs \in Nat
    BY <1>2, <1>3, <2>1, <2>2, TimesGrows
  <2>4. a * (i + 1) = y + HeaderRows + sp
    <3>1. a * (i + 1) = i * a + a
      BY <1>3, <2>2
    <3> QED BY <1>2, <1>3, <1>4, <1>5, <3>1
  <2>5. a * hs = hs * HeaderRows + (IF sp = 1 THEN hs ELSE 0)
    <3>1. CASE sp = 0
      BY <1>2, <3>1
    <3>2. CASE sp = 1
      <4>1. (HeaderRows + 1) * hs = hs * HeaderRows + hs
        BY <1>2
      <4> QED BY <3>2, <4>1
    <3> QED BY <1>4, <3>1, <3>2
  <2>6. HeadersShown <=> share.header = hs * HeaderRows + (IF sp = 1 THEN hs - 1 ELSE 0)
    BY DEF HeadersShown, hs, sp
  <2> DEFINE b == hs * HeaderRows
             c == y + HeaderRows
             e == share.header
  <2>7. b \in Nat /\ c \in Nat
    BY <1>2, <1>5
  <2>8. c + sp <= b + (IF sp = 1 THEN hs ELSE 0)
    BY <2>3, <2>4, <2>5
  <2>9. HeadersShown <=> e = b + (IF sp = 1 THEN hs - 1 ELSE 0)
    BY <2>6
  <2> HIDE DEF b, c, e
  <2>10. HeadersShown => c <= e
    BY <1>2, <1>4, <2>7, <2>8, <2>9
  <2> QED BY <2>10 DEF c, e
<1> HIDE DEF x, y
<1>7. [x |-> x, y |-> y, w |-> HeaderCols, h |-> HeaderRows] \in Window
  BY <1>2, <1>5 DEF Window
<1> QED BY <1>1, <1>6, <1>7

\* The headers of two devices have no cell in common.
LEMMA DeviceWindowsApart ==
    ASSUME InputFacts, NEW d \in Devices, NEW e \in Devices, d # e
    PROVE  ~Overlap(DeviceWindow(d), DeviceWindow(e))
<1> DEFINE n == num_device_per_row
           left == Minus(in.cols, n * HeaderCols)
           between == IF left > n THEN 1 ELSE 0
           rest == IF between = 1 THEN left - (n - 1) ELSE left
           before == IF rest > 0 THEN 1 ELSE 0
           sp == IF share.spaced THEN 1 ELSE 0
           row(f) == f \div n
           col(f) == f % n
           across == HeaderCols + between
           down == HeaderRows + sp
           v == DeviceWindow(d)
           u == DeviceWindow(e)
<1>1. /\ v.x = before + col(d) * across /\ v.y = row(d) * down /\ v.w = HeaderCols /\ v.h = HeaderRows
      /\ u.x = before + col(e) * across /\ u.y = row(e) * down /\ u.w = HeaderCols /\ u.h = HeaderRows
  BY DEF DeviceWindow
<1>2. n \in Nat \ {0} /\ d \in Nat /\ e \in Nat
  BY HeadersFit DEF Devices
<1>3. /\ HeaderCols \in Nat /\ HeaderRows \in Nat
      /\ across \in Nat /\ across >= HeaderCols /\ down \in Nat /\ down >= HeaderRows /\ before \in Nat
  BY LayoutAssumption
<1> HIDE DEF n, across, down, before, between, left, sp, v, u
<1>4. /\ row(d) \in Nat /\ col(d) \in Nat /\ d = n * row(d) + col(d)
      /\ row(e) \in Nat /\ col(e) \in Nat /\ e = n * row(e) + col(e)
  <2>1. \A f \in Nat : row(f) \in Nat /\ f % n \in 0 .. n - 1 /\ f = n * row(f) + col(f)
    BY <1>2, Division
  <2> QED BY <1>2, <2>1
<1> HIDE DEF row, col
<1>5. row(d) # row(e) \/ col(d) # col(e)
  BY <1>4
<1>6. \A a, b, w, c \in Nat : a < b /\ w <= c => a * c + w <= b * c /\ a * c \in Nat /\ b * c \in Nat
  <2> SUFFICES ASSUME NEW a \in Nat, NEW b \in Nat, NEW w \in Nat, NEW c \in Nat, a < b, w <= c
               PROVE  a * c + w <= b * c /\ a * c \in Nat /\ b * c \in Nat
    OBVIOUS
  <2>1. c * (a + 1) <= c * b /\ c * b \in Nat
    BY TimesGrows
  <2>2. c * (a + 1) = a * c + c /\ c * b = b * c /\ a * c \in Nat
    OBVIOUS
  <2> QED BY <2>1, <2>2
<1>7. CASE row(d) < row(e)
  <2>1. row(d) * down + HeaderRows <= row(e) * down /\ row(d) * down \in Nat /\ row(e) * down \in Nat
    BY <1>3, <1>4, <1>6, <1>7
  <2>2. v.y + v.h <= u.y /\ v.y \in Nat /\ v.h \in Nat /\ u.y \in Nat
    BY <1>1, <1>3, <2>1
  <2>3. ~Overlap(v, u)
    BY <2>2 DEF Overlap
  <2> QED BY <2>3 DEF v, u
<1>8. CASE row(e) < row(d)
  <2>1. row(e) * down + HeaderRows <= row(d) * down /\ row(d) * down \in Nat /\ row(e) * down \in Nat
    BY <1>3, <1>4, <1>6, <1>8
  <2>2. u.y + u.h <= v.y /\ u.y \in Nat /\ u.h \in Nat /\ v.y \in Nat
    BY <1>1, <1>3, <2>1
  <2>3. ~Overlap(v, u)
    BY <2>2 DEF Overlap
  <2> QED BY <2>3 DEF v, u
<1>9. CASE col(d) < col(e)
  <2>1. col(d) * across + HeaderCols <= col(e) * across /\ col(d) * across \in Nat /\ col(e) * across \in Nat
    BY <1>3, <1>4, <1>6, <1>9
  <2>2. v.x + v.w <= u.x /\ v.x \in Nat /\ v.w \in Nat /\ u.x \in Nat
    BY <1>1, <1>3, <2>1
  <2>3. ~Overlap(v, u)
    BY <2>2 DEF Overlap
  <2> QED BY <2>3 DEF v, u
<1>10. CASE col(e) < col(d)
  <2>1. col(e) * across + HeaderCols <= col(d) * across /\ col(d) * across \in Nat /\ col(e) * across \in Nat
    BY <1>3, <1>4, <1>6, <1>10
  <2>2. u.x + u.w <= v.x /\ u.x \in Nat /\ u.w \in Nat /\ v.x \in Nat
    BY <1>1, <1>3, <2>1
  <2>3. ~Overlap(v, u)
    BY <2>2 DEF Overlap
  <2> QED BY <2>3 DEF v, u
<1> QED BY <1>4, <1>5, <1>7, <1>8, <1>9, <1>10

\* The process list has what the charts leave.
LEMMA ProcessWindowFits ==
    ASSUME InputFacts, SharedOut, Plots = {} \/ \E k : CutFrom(k)
    PROVE  /\ ProcessWindow \in Window /\ ProcessWindow.y + ProcessWindow.h = in.rows
           /\ Plots # {} => ProcessWindow.y >= share.header + rows_per_stack * stacks
<1> DEFINE spare == CASE in.fields /\ Plots # {} -> share.plots - rows_per_stack * stacks
                      [] in.fields /\ Plots = {} /\ share.plots > 0 -> share.plots - 1
                      [] OTHER -> 0
           r == rows_per_stack * stacks
           y == in.rows - share.process - spare
           h == share.process + spare
<1>1. ProcessWindow = [x |-> 0, y |-> y, w |-> in.cols, h |-> h]
  BY DEF ProcessWindow
<1>2. /\ share.header \in Nat /\ share.process \in Nat /\ share.plots \in Nat /\ in.rows \in Nat /\ in.cols \in Nat
      /\ share.header + share.process + share.plots = in.rows /\ in.fields \in BOOLEAN
  BY DEF SharedOut, InputFacts
<1>3. Plots # {} => r \in Nat /\ r <= share.plots
  BY RowsPerStack
<1>4. /\ spare \in Nat /\ spare <= share.plots
      /\ Plots # {} => spare <= share.plots - r
  <2>1. CASE in.fields /\ Plots # {}
    <3>1. spare = share.plots - r
      BY <2>1
    <3> HIDE DEF spare, r
    <3> QED BY <1>2, <1>3, <2>1, <3>1
  <2>2. CASE in.fields /\ Plots = {} /\ share.plots > 0
    <3>1. spare = share.plots - 1
      BY <2>2
    <3> HIDE DEF spare, r
    <3> QED BY <1>2, <2>2, <3>1
  <2>3. CASE ~(in.fields /\ Plots # {}) /\ ~(in.fields /\ Plots = {} /\ share.plots > 0)
    <3>1. spare = 0
      BY <2>3
    <3> HIDE DEF spare, r
    <3> QED BY <1>2, <1>3, <3>1
  <2> QED BY <2>1, <2>2, <2>3
<1> HIDE DEF spare, r
<1>5. y \in Nat /\ h \in Nat /\ y + h = in.rows
  BY <1>2, <1>4
<1>6. Plots # {} => y >= share.header + r
  BY <1>2, <1>3, <1>4
<1> HIDE DEF y, h
<1>7. [x |-> 0, y |-> y, w |-> in.cols, h |-> h] \in Window
  BY <1>2, <1>5 DEF Window
<1> QED BY <1>1, <1>5, <1>6, <1>7 DEF r

-----------------------------------------------------------------------------
(* The theorems about the layout                                           *)

\* The windows are indexed as they should and their sizes are numbers.
WindowsTyped ==
    pc = "done" =>
        /\ DOMAIN win.device = Devices /\ DOMAIN win.plot = Plots
        /\ \A k \in Plots : win.plot[k] \in Window
        /\ win.process \in Window /\ win.setup \in Window

\* The invariant, with what it says of the windows once they are cut
WindowsInv == LayoutInv /\ WindowsTyped /\ WindowsDisjoint /\ ChartsBigEnough

LEMMA SameCutOrder ==
    ASSUME stackOf' = stackOf, NEW k
    PROVE  CutOrder(k)' = CutOrder(k)
BY DEF CutOrder, Plots

\* Nothing is said of the windows before they are cut.
LEMMA NotCut ==
    ASSUME pc' # "done"
    PROVE  WindowsTyped' /\ WindowsDisjoint' /\ ChartsBigEnough'
BY DEF WindowsTyped, WindowsDisjoint, ChartsBigEnough, Done

LEMMA CutInv ==
    ASSUME LayoutInv, Cut
    PROVE  WindowsInv'
<1>1. /\ in \in Input /\ InputFacts /\ pc = "cut" /\ pc' = "done"
      /\ in' = in /\ info' = info /\ map' = map /\ stackOf' = stackOf /\ stacks' = stacks
      /\ share' = share /\ mover' = mover
  BY InputIsKnown DEF LayoutInv, Cut
<1>2. /\ ChartsPlaced /\ SharedOut /\ \A p \in Plots : info[p] = LinesOn(map, p)
  BY <1>1 DEF LayoutInv
<1>3. /\ N' = N /\ Devices' = Devices /\ header_stacks' = header_stacks /\ Plots' = Plots
  BY <1>1, SameInput DEF Plots
<1>4. SharedOut' /\ (HeadersShown' <=> HeadersShown)
  BY <1>1, <1>2, <1>3 DEF SharedOut, HeadersShown
<1>5. \A p : LinesOn(map, p)' = LinesOn(map, p)
  BY <1>1, SameLines
<1>6. LayoutInv'
  <2>1. ASSUME NEW k PROVE Charts(k, map, stackOf, stacks, share.plots)' <=> Charts(k, map, stackOf, stacks, share.plots)
    <3>1. Charts(k, map, stackOf, stacks, share.plots)' <=> Charts(k, map', stackOf', stacks', share'.plots)
      BY <1>1, SameCharts
    <3> QED BY <1>1, <3>1
  <2>2. ChartsPlaced'
    BY <1>1, <1>2, <1>3, <1>4, <2>1 DEF ChartsPlaced
  <2> QED BY <1>1, <1>2, <1>3, <1>4, <1>5, <2>2 DEF LayoutInv, SharedOut
<1>7. Plots = {} \/ \E k : CutFrom(k)
  BY <1>1, <1>2 DEF CutFrom, ChartsPlaced
<1>8. /\ win'.device = [d \in Devices |-> DeviceWindow(d)]
      /\ win'.plot = [k \in Plots |-> CutFor(CutOrder(k))]
      /\ win'.process = ProcessWindow
      /\ win'.setup = [x |-> 0, y |-> share.header, w |-> in.cols, h |-> in.rows - share.header]
  BY DEF Cut
<1>9. DOMAIN win'.device = Devices /\ DOMAIN win'.plot = Plots
  BY <1>8
<1>10. /\ \A d \in Devices : win'.device[d] = DeviceWindow(d)
       /\ \A k \in Plots : win'.plot[k] = CutFor(CutOrder(k))
  BY <1>8
<1>11. win'.setup \in Window
  <2>1. share.header \in Nat /\ in.cols \in Nat /\ in.rows - share.header \in Nat
    BY <1>1, <1>2 DEF SharedOut, InputFacts
  <2> QED BY <1>8, <2>1 DEF Window
<1>12. /\ ProcessWindow \in Window /\ ProcessWindow.y + ProcessWindow.h = in.rows
       /\ Plots # {} => ProcessWindow.y >= share.header + rows_per_stack * stacks
  BY <1>1, <1>2, <1>7, ProcessWindowFits
<1>13. ASSUME NEW k \in Plots
       PROVE  /\ win'.plot[k] \in Window
              /\ win'.plot[k].x + win'.plot[k].w <= in.cols
              /\ win'.plot[k].y + win'.plot[k].h <= in.rows
              /\ win'.plot[k].w >= min_plot_cols(info[CutOrder(k)])
              /\ win'.plot[k].w > 0 /\ win'.plot[k].h > 0
              /\ win'.plot[k].h >= min_plot_rows
              /\ win'.plot[k].y >= share.header
              /\ win'.plot[k].y + win'.plot[k].h <= ProcessWindow.y
              /\ HeadersShown
              /\ \A j \in Plots : j # k => ~Overlap(win'.plot[j], win'.plot[k])
  <2>1. PICK n : CutFrom(n)
    BY <1>7
  <2>2. /\ n \in Nat /\ Plots = 0 .. n - 1 /\ stacks \in Nat
        /\ \A p \in 0 .. n - 1 : info[p] \in Nat \ {0} /\ stackOf[p] \in 0 .. stacks - 1
    BY <2>1, CutFacts
  <2>3. /\ \A i \in Plots : CutOrder(i) \in Plots
        /\ \A i, j \in Plots : CutOrder(i) = CutOrder(j) => i = j
    <3>1. \A p \in Plots : stackOf[p] \in Nat
      BY <2>2
    <3> QED BY <2>2, <3>1, CutOrderIsOne
  <2> DEFINE p == CutOrder(k)
             v == CutFor(p)
             r == rows_per_stack
  <2>4. p \in 0 .. n - 1 /\ win'.plot[k] = v
    BY <1>10, <2>2, <2>3
  <2>5. /\ v \in Window /\ v.w >= min_plot_cols(info[p]) /\ v.h = r
        /\ v.x + v.w <= in.cols
        /\ v.y = share.header + stackOf[p] * r
        /\ v.y + v.h <= share.header + r * stacks
    BY <2>1, <2>4, CutForFits
  <2>6. r \in Nat /\ r >= 7 /\ r * stacks <= share.plots /\ r * stacks \in Nat
    BY <2>1, RowsPerStack DEF min_plot_rows
  <2>7. min_plot_cols(info[p]) > 0 /\ min_plot_cols(info[p]) \in Nat
    BY <2>2, <2>4 DEF min_plot_cols, cols_needed_box_drawing
  <2>8. /\ share.header \in Nat /\ share.process \in Nat /\ share.plots \in Nat /\ in.rows \in Nat
        /\ share.header + share.process + share.plots = in.rows
    BY <1>1, <1>2 DEF SharedOut, InputFacts
  <2>9. v.y >= share.header
    <3>1. stackOf[p] \in Nat
      BY <2>2, <2>4
    <3>2. stackOf[p] * r \in Nat
      BY <2>6, <3>1
    <3> HIDE DEF v, p, r
    <3> QED BY <2>5, <2>8, <3>2
  <2>10. v.x \in Nat /\ v.y \in Nat /\ v.w \in Nat /\ v.h \in Nat /\ ProcessWindow.y \in Nat
    BY <1>12, <2>5 DEF Window
  <2>11. ProcessWindow.y >= share.header + r * stacks
    BY <1>12, <2>2, <2>4
  <2>12. HeadersShown
    BY <2>1 DEF CutFrom
  <2>13. \A j \in Plots : j # k => ~Overlap(win'.plot[j], win'.plot[k])
    <3> SUFFICES ASSUME NEW j \in Plots, j # k PROVE ~Overlap(win'.plot[j], win'.plot[k])
      OBVIOUS
    <3>1. CutOrder(j) \in 0 .. n - 1 /\ CutOrder(j) # CutOrder(k) /\ win'.plot[j] = CutFor(CutOrder(j))
      BY <1>10, <2>2, <2>3
    <3>2. ~Overlap(CutFor(CutOrder(j)), CutFor(CutOrder(k)))
      BY <2>1, <2>4, <3>1, CutForApart
    <3> QED BY <2>4, <3>1, <3>2
  <2>14. min_plot_rows = 7
    BY DEF min_plot_rows
  <2> HIDE DEF v, r, min_plot_cols, min_plot_rows
  <2>15. /\ v.y + v.h <= in.rows /\ v.w > 0 /\ v.h > 0 /\ v.h >= min_plot_rows
         /\ v.y + v.h <= ProcessWindow.y
    BY <2>5, <2>6, <2>7, <2>8, <2>10, <2>11, <2>14
  <2> QED BY <2>4, <2>5, <2>9, <2>12, <2>13, <2>15 DEF p
<1>14. ASSUME NEW d \in Devices
       PROVE  /\ HeadersShown => DeviceWindow(d).y + DeviceWindow(d).h <= share.header
              /\ DeviceWindow(d) \in Window
  BY <1>1, DeviceWindowFits
<1>15. \A d, e \in Devices : d # e => ~Overlap(win'.device[d], win'.device[e])
  BY <1>1, <1>10, DeviceWindowsApart
<1>16. WindowsTyped'
  BY <1>1, <1>3, <1>8, <1>9, <1>11, <1>12, <1>13 DEF WindowsTyped
<1>17. ChartsBigEnough'
  <2>1. \A k : CutOrder(k)' = CutOrder(k)
    BY <1>1, SameCutOrder
  <2> QED BY <1>1, <1>3, <1>13, <2>1 DEF ChartsBigEnough, Done, min_plot_cols
<1>18. WindowsDisjoint'
  <2>1. ASSUME NEW k \in Plots, NEW d \in Devices
        PROVE  Below(win'.plot[k], win'.device[d])
    <3>1. /\ win'.plot[k].y >= share.header /\ win'.plot[k].y \in Nat
          /\ DeviceWindow(d).y + DeviceWindow(d).h <= share.header
          /\ DeviceWindow(d).y \in Nat /\ DeviceWindow(d).h \in Nat
      BY <1>13, <1>14 DEF Window
    <3>2. share.header \in Nat
      BY <1>1, <1>2 DEF SharedOut, InputFacts
    <3>3. win'.plot[k].y >= DeviceWindow(d).y + DeviceWindow(d).h
      BY <3>1, <3>2
    <3> QED BY <1>10, <3>3 DEF Below
  <2>2. ASSUME NEW k \in Plots
        PROVE  Below(win'.process, win'.plot[k])
    <3>1. ProcessWindow.y \in Nat /\ win'.plot[k].y \in Nat /\ win'.plot[k].h \in Nat
      BY <1>12, <1>13 DEF Window
    <3>2. ProcessWindow.y >= win'.plot[k].y + win'.plot[k].h
      BY <1>13, <3>1
    <3> QED BY <1>8, <3>2 DEF Below
  <2>3. in.rows \in Nat
    BY <1>1 DEF InputFacts
  <2>4. win'.process.y + win'.process.h <= in.rows
    BY <1>8, <1>12, <2>3
  <2> QED BY <1>1, <1>3, <1>13, <1>15, <2>1, <2>2, <2>4 DEF WindowsDisjoint, Done, Overlap, Below
<1> QED BY <1>6, <1>16, <1>17, <1>18 DEF WindowsInv

\* The state the function is entered in
LEMMA FreshInv ==
    ASSUME in \in Input, pc = "start", info = [d \in Devices |-> 0], map = [d \in Devices |-> d],
           stackOf = [k \in {} |-> 0], stacks = 0, mover = 0,
           share = [header |-> 0, process |-> 0, plots |-> 0, spaced |-> FALSE]
    PROVE  WindowsInv
<1>1. InputFacts
  BY InputIsKnown
<1>2. 0 \in 0 .. MaxLines /\ 0 \in 0 .. in.rows
  BY <1>1, LayoutAssumption DEF InputFacts
<1>3. info \in [Devices -> 0 .. MaxLines] /\ map \in [Devices -> Devices]
  BY <1>2
<1>4. LayoutInv
  BY <1>2, <1>3 DEF LayoutInv
<1>5. WindowsTyped /\ WindowsDisjoint /\ ChartsBigEnough
  BY DEF WindowsTyped, WindowsDisjoint, ChartsBigEnough, Done
<1> QED BY <1>4, <1>5 DEF WindowsInv

\* The terminal or the options change: the function is entered again.
LEMMA RestartInv ==
    ASSUME NEW i \in Input, Restart(i)
    PROVE  WindowsInv'
<1>1. /\ in' = i /\ pc' = "start" /\ stackOf' = [k \in {} |-> 0] /\ stacks' = 0 /\ mover' = 0
      /\ share' = [header |-> 0, process |-> 0, plots |-> 0, spaced |-> FALSE]
      /\ info' = [d \in 0 .. Len(i.draw) - 1 |-> 0] /\ map' = [d \in 0 .. Len(i.draw) - 1 |-> d]
  BY DEF Restart
<1>2. Devices' = 0 .. Len(i.draw) - 1
  BY <1>1 DEF Devices, N
<1>3. /\ in' \in Input /\ pc' = "start" /\ info' = [d \in Devices' |-> 0] /\ map' = [d \in Devices' |-> d]
      /\ stackOf' = [k \in {} |-> 0] /\ stacks' = 0 /\ mover' = 0
      /\ share' = [header |-> 0, process |-> 0, plots |-> 0, spaced |-> FALSE]
  BY <1>1, <1>2
<1>4. (in \in Input => InputFacts)'
  BY InputIsKnown, PTL
<1>5. InputFacts'
  BY <1>3, <1>4
<1>6. 0 \in 0 .. MaxLines /\ 0 \in 0 .. in'.rows
  BY <1>5, LayoutAssumption DEF InputFacts
<1>7. info' \in [Devices' -> 0 .. MaxLines] /\ map' \in [Devices' -> Devices']
  BY <1>3, <1>6
<1>8. LayoutInv'
  BY <1>3, <1>6, <1>7 DEF LayoutInv
<1> QED BY <1>3, <1>8, NotCut DEF WindowsInv

LEMMA UnchangedInv ==
    ASSUME WindowsInv, UNCHANGED layoutVars
    PROVE  WindowsInv'
<1>1. /\ in' = in /\ pc' = pc /\ info' = info /\ map' = map /\ stackOf' = stackOf
      /\ stacks' = stacks /\ share' = share /\ mover' = mover /\ win' = win
  BY DEF layoutVars
<1>2. /\ N' = N /\ Devices' = Devices /\ header_stacks' = header_stacks /\ Plots' = Plots
      /\ num_plots' = num_plots
  BY <1>1, SameInput DEF Plots, num_plots
<1>3. (SharedOut' <=> SharedOut) /\ (HeadersShown' <=> HeadersShown)
  BY <1>1, <1>2 DEF SharedOut, HeadersShown
<1>4. \A p : LinesOn(map, p)' = LinesOn(map, p)
  BY <1>1, SameLines
<1>5. LayoutInv'
  <2>1. ASSUME NEW k PROVE Charts(k, map, stackOf, stacks, share.plots)' <=> Charts(k, map, stackOf, stacks, share.plots)
    <3>1. Charts(k, map, stackOf, stacks, share.plots)' <=> Charts(k, map', stackOf', stacks', share'.plots)
      BY <1>1, SameCharts
    <3> QED BY <1>1, <3>1
  <2>2. ChartsPlaced' <=> ChartsPlaced
    BY <1>1, <1>2, <1>3, <2>1 DEF ChartsPlaced
  <2>3. pc = "place" => Merged(info, map)'
    <3>1. Merged(info, map) => Merged(info', map')
      BY <1>1
    <3> QED BY <1>1, <3>1, SameMerged DEF WindowsInv, LayoutInv
  <2> QED BY <1>1, <1>2, <1>3, <1>4, <2>2, <2>3 DEF WindowsInv, LayoutInv
<1>6. WindowsTyped'
  BY <1>1, <1>2 DEF WindowsInv, WindowsTyped
<1>7. \A k : CutOrder(k)' = CutOrder(k)
  BY <1>1, SameCutOrder
<1>8. ChartsBigEnough'
  BY <1>1, <1>2, <1>7 DEF WindowsInv, ChartsBigEnough, Done, min_plot_cols
<1>9. WindowsDisjoint'
  BY <1>1, <1>2 DEF WindowsInv, WindowsDisjoint, Done
<1> QED BY <1>5, <1>6, <1>8, <1>9 DEF WindowsInv

\* The invariant holds at the start and is kept by every step.
LEMMA LayoutInvHolds == LayoutSpec => []WindowsInv
<1>1. LayoutInit => WindowsInv
  BY FreshInv DEF LayoutInit
<1>2. WindowsInv /\ [LayoutNext]_layoutVars => WindowsInv'
  <2> SUFFICES ASSUME WindowsInv, [LayoutNext]_layoutVars PROVE WindowsInv'
    OBVIOUS
  <2>1. LayoutInv /\ in \in Input
    BY DEF WindowsInv, LayoutInv
  <2>2. CASE Start
    <3>1. pc' # "done"
      BY <2>2 DEF Start
    <3> QED BY <2>1, <2>2, <3>1, StartInv, NotCut DEF WindowsInv
  <2>3. CASE Place
    <3>1. pc' # "done"
      BY <2>3 DEF Place, NoPlots
    <3> QED BY <2>1, <2>3, <3>1, PlaceInv, NotCut DEF WindowsInv
  <2>4. CASE Spread
    <3>1. pc' # "done"
      BY <2>4 DEF Spread
    <3> QED BY <2>1, <2>4, <3>1, SpreadInv, NotCut DEF WindowsInv
  <2>5. CASE Balance
    <3>1. pc' # "done"
      BY <2>5 DEF Balance
    <3> QED BY <2>1, <2>5, <3>1, BalanceInv, NotCut DEF WindowsInv
  <2>6. CASE Cut
    BY <2>1, <2>6, CutInv
  <2>7. CASE Resize
    <3>1. PICK i \in Input : Restart(i)
      BY <2>1, <2>7, InputChanges DEF Resize
    <3> QED BY <3>1, RestartInv
  <2>8. CASE ChangeOptions
    <3>1. PICK i \in Input : Restart(i)
      BY <2>1, <2>8, InputChanges DEF ChangeOptions
    <3> QED BY <3>1, RestartInv
  <2>9. CASE UNCHANGED layoutVars
    BY <2>9, UnchangedInv
  <2> QED BY <2>2, <2>3, <2>4, <2>5, <2>6, <2>7, <2>8, <2>9 DEF LayoutNext, Compute
<1> QED BY <1>1, <1>2, PTL DEF LayoutSpec

\* Every index of compute_sizes_from_layout stays inside its array, and no
\* unsigned size wraps around.
THEOREM LayoutTypeCorrect == LayoutSpec => []LayoutTypeOK
<1>1. WindowsInv => LayoutTypeOK
  <2> SUFFICES ASSUME WindowsInv PROVE LayoutTypeOK
    OBVIOUS
  <2>1. LayoutInv /\ WindowsTyped /\ in \in Input /\ InputFacts
    BY InputIsKnown DEF WindowsInv, LayoutInv
  <2>2. N \in Nat \ {0}
    BY <2>1 DEF InputFacts
  <2>3. info \in [Devices -> 0 .. N * MaxLines]
    <3> DEFINE most == N * MaxLines
    <3>1. MaxLines \in Nat /\ most \in Nat /\ MaxLines <= most
      <4>1. MaxLines * 1 <= MaxLines * N /\ MaxLines * N \in Nat
        BY <2>2, LayoutAssumption, TimesGrows
      <4> HIDE DEF N
      <4>2. MaxLines * N = N * MaxLines /\ MaxLines * 1 = MaxLines
        BY <2>2, LayoutAssumption
      <4> QED BY <4>1, <4>2, LayoutAssumption
    <3> HIDE DEF most
    <3>2. \A n \in 0 .. MaxLines : n \in 0 .. most
      BY <3>1
    <3>3. info \in [Devices -> 0 .. MaxLines]
      BY <2>1 DEF LayoutInv
    <3>4. info \in [Devices -> 0 .. most]
      BY <3>2, <3>3
    <3> QED BY <3>4 DEF most
  <2>4. (\E k \in 0 .. N : stackOf \in [0 .. k - 1 -> 0 .. stacks - 1]) /\ stacks \in 0 .. N
    <3> HIDE DEF N
    <3>1. CASE stacks = 0 /\ stackOf = [k \in {} |-> 0]
      <4>1. 0 .. 0 - 1 = {} /\ 0 \in 0 .. N
        BY <2>2
      <4>2. stackOf \in [0 .. 0 - 1 -> 0 .. stacks - 1]
        BY <3>1, <4>1
      <4> QED BY <3>1, <4>1, <4>2
    <3>2. CASE \E k \in 1 .. N : Charts(k, map, stackOf, stacks, share.plots)
      <4>1. PICK k \in 1 .. N : Charts(k, map, stackOf, stacks, share.plots)
        BY <3>2
      <4>2. k \in 0 .. N /\ stacks \in 1 .. k /\ stackOf \in [0 .. k - 1 -> 0 .. stacks - 1]
        BY <2>2, <4>1 DEF Charts
      <4> QED BY <2>2, <4>1, <4>2
    <3> QED BY <2>1, <3>1, <3>2 DEF LayoutInv, ChartsPlaced
  <2> QED BY <2>1, <2>3, <2>4 DEF LayoutInv, WindowsTyped, LayoutTypeOK
<1> QED BY <1>1, LayoutInvHolds, PTL

\* Merging, renumbering, spreading and balancing lose no line: every device that
\* draws is on a chart, the charts keep the order of the devices, and each has
\* the lines of its devices, at least one and at most MAX_LINES_PER_PLOT.
THEOREM ChartsLoseNoLine == LayoutSpec => []ChartsHoldEveryLine
<1>1. WindowsInv => ChartsHoldEveryLine
  <2> SUFFICES ASSUME WindowsInv, Done, Plots # {}
               PROVE  /\ \A p \in Plots : info[p] \in 1 .. MaxLines /\ info[p] = InfoInPlot(p)
                      /\ \A d \in Devices : Draw(d) > 0 => map[d] \in Plots
                      /\ \A d, e \in Devices : (d < e /\ Draw(d) > 0 /\ Draw(e) > 0) => map[d] <= map[e]
    BY DEF ChartsHoldEveryLine
  <2>1. ChartsPlaced /\ \A p \in Plots : info[p] = LinesOn(map, p)
    BY DEF WindowsInv, LayoutInv, Done
  <2>2. PICK k \in 1 .. N : Charts(k, map, stackOf, stacks, share.plots)
    BY <2>1 DEF ChartsPlaced
  <2>3. Plots = 0 .. k - 1
    BY <2>2, PlotsOf
  <2>4. \A p : InfoInPlot(p) = LinesOn(map, p)
    BY DEF InfoInPlot, LinesOn
  <2> QED BY <2>1, <2>2, <2>3, <2>4 DEF Charts
<1> QED BY <1>1, LayoutInvHolds, PTL

\* The headers and the charts overlap nowhere, and the charts lie inside the
\* screen, below the headers and above the process list.
THEOREM WindowsShareNoCell == LayoutSpec => []WindowsDisjoint
<1>1. WindowsInv => WindowsDisjoint
  BY DEF WindowsInv
<1> QED BY <1>1, LayoutInvHolds, PTL

\* Wherever merging and balancing have put a chart, its window has ten columns
\* for each line and the rows min_plot_rows asks.
THEOREM ChartsHaveRoom == LayoutSpec => []ChartsBigEnough
<1>1. WindowsInv => ChartsBigEnough
  BY DEF WindowsInv
<1> QED BY <1>1, LayoutInvHolds, PTL

-----------------------------------------------------------------------------
(* The search and the balancing get nearer to their end                    *)

\* Where the function is
Stage ==
    CASE pc = "start" -> 5 [] pc = "place" -> 4 [] pc = "spread" -> 3
      [] pc = "balance" -> 2 [] pc = "cut" -> 1 [] OTHER -> 0

\* The charts that have lines: a turn of the search that goes on merges two.
WithLines(inf) == {d \in Devices : inf[d] > 0}

\* The stacks below the charts, in all: a chart only ever moves down.
AllStacksBelow(at) == Total([p \in Plots |-> stacks - 1 - at[p]], num_plots)

\* A bound on the turns the loop will still take
TurnsLeft ==
    CASE pc = "place"   -> Cardinality(WithLines(info))
      [] pc = "balance" -> (num_plots + 1) * AllStacksBelow(stackOf) + mover
      [] OTHER          -> 0

Nearer == Stage' < Stage \/ (Stage' = Stage /\ TurnsLeft' < TurnsLeft)

LEMMA WithLinesFinite ==
    ASSUME InputFacts, NEW inf
    PROVE  IsFiniteSet(WithLines(inf)) /\ Cardinality(WithLines(inf)) \in Nat
<1>1. N \in Nat
  BY DEF InputFacts
<1>2. IsFiniteSet(Devices)
  BY <1>1, FS_Interval DEF Devices
<1>3. WithLines(inf) \subseteq Devices
  BY DEF WithLines
<1>4. IsFiniteSet(WithLines(inf))
  BY <1>2, <1>3, FS_Subset
<1> QED BY <1>4, FS_CardinalityType

\* The chart that is merged into another has lines before and none after.
LEMMA MergeTakesOne ==
    ASSUME InputFacts, Merged(info, map), NEW p \in Mergeable, Merge(p)
    PROVE  Cardinality(WithLines(info')) < Cardinality(WithLines(info))
<1>1. /\ p[1] \in Devices /\ p[2] \in Devices /\ p[1] # p[2]
      /\ info[p[1]] > 0 /\ info[p[2]] > 0
  <2>1. N \in Nat
    BY DEF InputFacts
  <2>2. p[1] \in Devices /\ p[2] \in Devices /\ p[1] < p[2] /\ info[p[1]] > 0 /\ info[p[2]] > 0
    BY DEF Mergeable, Neighbours
  <2> HIDE DEF N
  <2> QED BY <2>1, <2>2 DEF Devices
<1>2. info \in [Devices -> 0 .. MaxLines] /\ info' = [info EXCEPT ![p[1]] = @ + info[p[2]], ![p[2]] = 0]
  BY DEF Merged, Merge
<1>3. ASSUME NEW d \in WithLines(info') PROVE d \in WithLines(info) \ {p[2]}
  <2>1. d \in Devices /\ info'[d] > 0
    BY DEF WithLines
  <2>2. d # p[2]
    BY <1>1, <1>2, <2>1
  <2>3. info[d] > 0
    BY <1>1, <1>2, <2>1, <2>2
  <2> QED BY <2>1, <2>2, <2>3 DEF WithLines
<1>4. p[2] \in WithLines(info)
  BY <1>1 DEF WithLines
<1>5. IsFiniteSet(WithLines(info)) /\ IsFiniteSet(WithLines(info) \ {p[2]})
  BY WithLinesFinite, FS_RemoveElement
<1>6. Cardinality(WithLines(info) \ {p[2]}) = Cardinality(WithLines(info)) - 1
  BY <1>4, <1>5, FS_RemoveElement
<1>7. Cardinality(WithLines(info')) <= Cardinality(WithLines(info) \ {p[2]})
  BY <1>3, <1>5, FS_Subset
<1>8. Cardinality(WithLines(info)) \in Nat /\ Cardinality(WithLines(info')) \in Nat
  BY WithLinesFinite
<1> QED BY <1>6, <1>7, <1>8

\* A chart that moves down has a stack less below it, the others as many as
\* before.
LEMMA MoveTakesOne ==
    ASSUME NEW k \in Nat, Plots = 0 .. k - 1, stacks \in Nat,
           NEW at \in [0 .. k - 1 -> 0 .. stacks - 1], NEW to \in [0 .. k - 1 -> 0 .. stacks - 1],
           NEW p \in 0 .. k - 1, to = [at EXCEPT ![p] = @ + 1]
    PROVE  /\ AllStacksBelow(at) \in Nat /\ AllStacksBelow(to) \in Nat
           /\ AllStacksBelow(at) = AllStacksBelow(to) + 1
<1> DEFINE f == [q \in Plots |-> stacks - 1 - to[q]]
           g == [q \in Plots |-> IF q = p THEN 1 ELSE 0]
           h == [q \in Plots |-> stacks - 1 - at[q]]
<1>1. num_plots = k
  BY NumPlots
<1>2. ASSUME NEW q \in 0 .. k - 1
      PROVE  f[q] \in Nat /\ g[q] \in Nat /\ h[q] = f[q] + g[q]
  <2>1. /\ q \in Plots /\ at[q] \in 0 .. stacks - 1 /\ to[q] \in 0 .. stacks - 1
        /\ to[q] = IF q = p THEN at[q] + 1 ELSE at[q]
    BY <1>2
  <2>2. f[q] = stacks - 1 - to[q] /\ h[q] = stacks - 1 - at[q] /\ g[q] = (IF q = p THEN 1 ELSE 0)
    BY <2>1
  <2> HIDE DEF f, g, h
  <2> QED BY <2>1, <2>2
<1>3. g[p] = 1 /\ \A q \in 0 .. k - 1 : q # p => g[q] = 0
  OBVIOUS
<1>4. AllStacksBelow(at) = Total(h, k) /\ AllStacksBelow(to) = Total(f, k)
  BY <1>1 DEF AllStacksBelow
<1> HIDE DEF f, g, h
<1>5. Total(h, k) = Total(f, k) + Total(g, k)
  BY <1>2, TotalPlus
<1>6. Total(g, k) = 1
  <2>1. g[p] \in Nat /\ \A q \in 0 .. k - 1 : q # p => g[q] = 0
    BY <1>3
  <2>2. Total(g, k) = g[p]
    BY <2>1, TotalOne
  <2> QED BY <1>3, <2>2
<1>7. Total(f, k) \in Nat
  BY <1>2, TotalType
<1> QED BY <1>4, <1>5, <1>6, <1>7

LEMMA StacksBelowType ==
    ASSUME InputFacts, ChartsPlaced
    PROVE  num_plots \in Nat /\ AllStacksBelow(stackOf) \in Nat
<1>1. CASE Plots = {}
  <2>1. num_plots = 0
    BY <1>1, FS_EmptySet DEF num_plots
  <2> QED BY <2>1, TotalNext DEF AllStacksBelow
<1>2. CASE \E k \in 1 .. N : Charts(k, map, stackOf, stacks, share.plots)
  <2>1. PICK k \in 1 .. N : Charts(k, map, stackOf, stacks, share.plots)
    BY <1>2
  <2>2. k \in Nat /\ Plots = 0 .. k - 1 /\ stacks \in Nat /\ stackOf \in [0 .. k - 1 -> 0 .. stacks - 1]
    <3>1. k \in Nat
      BY <2>1 DEF InputFacts
    <3>2. stacks \in 1 .. k /\ stackOf \in [0 .. k - 1 -> 0 .. stacks - 1]
      BY <2>1 DEF Charts
    <3>3. Plots = 0 .. k - 1
      BY <2>1, PlotsOf
    <3> QED BY <3>1, <3>2, <3>3
  <2>3. num_plots = k
    BY <2>2, NumPlots
  <2> DEFINE f == [p \in Plots |-> stacks - 1 - stackOf[p]]
  <2>4. ASSUME NEW p \in 0 .. k - 1 PROVE f[p] \in Nat
    <3>1. stackOf[p] \in 0 .. stacks - 1 /\ f[p] = stacks - 1 - stackOf[p]
      BY <2>2, <2>4
    <3> HIDE DEF f
    <3> QED BY <2>2, <3>1
  <2>5. AllStacksBelow(stackOf) = Total(f, k)
    BY <2>3 DEF AllStacksBelow
  <2> HIDE DEF f
  <2> QED BY <2>2, <2>3, <2>4, <2>5, TotalType
<1> QED BY <1>1, <1>2 DEF ChartsPlaced

LEMMA TurnsLeftType ==
    ASSUME LayoutInv
    PROVE  TurnsLeft \in Nat
<1>1. InputFacts /\ mover \in Nat
  BY InputIsKnown DEF LayoutInv
<1>2. CASE pc = "place"
  BY <1>1, <1>2, WithLinesFinite DEF TurnsLeft
<1>3. CASE pc = "balance"
  <2>1. num_plots \in Nat /\ AllStacksBelow(stackOf) \in Nat
    BY <1>1, <1>3, StacksBelowType DEF LayoutInv
  <2>2. TurnsLeft = (num_plots + 1) * AllStacksBelow(stackOf) + mover
    BY <1>3 DEF TurnsLeft
  <2> HIDE DEF num_plots
  <2> QED BY <1>1, <2>1, <2>2
<1>4. CASE pc \notin {"place", "balance"}
  BY <1>4 DEF TurnsLeft
<1> QED BY <1>2, <1>3, <1>4

\* A turn of the search ends it or leaves a chart less.
LEMMA PlaceIsNearer ==
    ASSUME LayoutInv, Place
    PROVE  Nearer
<1>1. in' = in /\ InputFacts /\ pc = "place" /\ Merged(info, map)
  BY InputIsKnown DEF LayoutInv, Place
<1>2. CASE pc' = "spread"
  BY <1>1, <1>2 DEF Nearer, Stage
<1>3. CASE pc' = pc /\ Mergeable # {} /\ Merge(who_to_merge)
  <2>1. Cardinality(WithLines(info')) < Cardinality(WithLines(info))
    BY <1>1, <1>3, WhoToMerge, MergeTakesOne
  <2>2. Devices' = Devices
    BY <1>1, SameInput
  <2>3. TurnsLeft' = Cardinality(WithLines(info'))
    BY <1>1, <1>3, <2>2 DEF TurnsLeft, WithLines
  <2>4. TurnsLeft = Cardinality(WithLines(info)) /\ Stage' = Stage
    BY <1>1, <1>3 DEF TurnsLeft, Stage
  <2> QED BY <2>1, <2>3, <2>4 DEF Nearer
<1> QED BY <1>1, <1>2, <1>3 DEF Place, NoPlots

\* A turn of the balancing passes a chart, or moves one down and starts again
\* from the last.
LEMMA BalanceIsNearer ==
    ASSUME LayoutInv, Balance
    PROVE  Nearer
<1>1. /\ in' = in /\ InputFacts /\ pc = "balance" /\ ChartsPlaced /\ mover \in Nat /\ mover <= num_plots
      /\ stacks' = stacks /\ share' = share /\ info' = info /\ map' = map
  BY InputIsKnown DEF LayoutInv, Balance
<1>2. num_plots \in Nat /\ AllStacksBelow(stackOf) \in Nat
  BY <1>1, StacksBelowType
<1>3. TurnsLeft = (num_plots + 1) * AllStacksBelow(stackOf) + mover
  BY <1>1 DEF TurnsLeft
<1>4. CASE pc' = "cut"
  BY <1>1, <1>4 DEF Nearer, Stage
<1>5. CASE pc' = pc /\ stackOf' = stackOf /\ mover > 0 /\ mover' = mover - 1
  <2>1. AllStacksBelow(stackOf)' = AllStacksBelow(stackOf) /\ num_plots' = num_plots
    BY <1>1, <1>5 DEF AllStacksBelow, num_plots, Plots
  <2>2. TurnsLeft' = (num_plots + 1) * AllStacksBelow(stackOf) + mover'
    BY <1>1, <1>5, <2>1 DEF TurnsLeft
  <2> HIDE DEF num_plots
  <2>3. TurnsLeft' < TurnsLeft
    BY <1>1, <1>2, <1>3, <1>5, <2>2
  <2> QED BY <1>1, <1>5, <2>3 DEF Nearer, Stage
<1>6. CASE /\ pc' = pc /\ mover > 0 /\ mover' = num_plots /\ Moves(mover - 1)
           /\ stackOf' = [stackOf EXCEPT ![mover - 1] = @ + 1]
  <2> DEFINE p == mover - 1
  <2>1. PICK k \in 1 .. N : Charts(k, map, stackOf, stacks, share.plots)
    <3>1. num_plots # 0
      <4> HIDE DEF num_plots
      <4> QED BY <1>1, <1>2, <1>6
    <3>2. Plots # {}
      BY <3>1, FS_EmptySet DEF num_plots
    <3> QED BY <1>1, <3>2 DEF ChartsPlaced
  <2>2. k \in Nat /\ Plots = 0 .. k - 1 /\ stacks \in Nat /\ stackOf \in [0 .. k - 1 -> 0 .. stacks - 1]
    <3>1. k \in Nat
      BY <1>1, <2>1 DEF InputFacts
    <3>2. stacks \in 1 .. k /\ stackOf \in [0 .. k - 1 -> 0 .. stacks - 1]
      BY <2>1 DEF Charts
    <3>3. Plots = 0 .. k - 1
      BY <2>1, PlotsOf
    <3> QED BY <3>1, <3>2, <3>3
  <2>3. num_plots = k
    BY <2>2, NumPlots
  <2>4. p \in 0 .. k - 1
    <3> HIDE DEF num_plots
    <3> QED BY <1>1, <1>6, <2>2, <2>3
  <2>5. stackOf' \in [0 .. k - 1 -> 0 .. stacks - 1]
    <3>1. stackOf[p] + 1 \in 0 .. stacks - 1
      <4>1. stackOf[p] + 1 < Min({stacks, num_plots})
        BY <1>6 DEF Moves
      <4>2. Min({stacks, num_plots}) = IF stacks <= k THEN stacks ELSE k
        <5>1. Min({stacks, k}) = IF stacks <= k THEN stacks ELSE k
          <6>1. stacks \in Int /\ k \in Int
            BY <2>2
          <6> QED BY <6>1, MaxOfTwo, Zenon
        <5> QED BY <2>3, <5>1
      <4>3. stackOf[p] \in Nat
        BY <2>2, <2>4
      <4> DEFINE m == Min({stacks, num_plots})
                 above == stackOf[p]
      <4>4. above + 1 < m /\ m <= stacks /\ m \in Nat
        BY <2>2, <4>1, <4>2
      <4> HIDE DEF m
      <4> QED BY <2>2, <4>3, <4>4
    <3> QED BY <1>6, <2>2, <2>4, <3>1
  <2>6. /\ AllStacksBelow(stackOf') \in Nat
        /\ AllStacksBelow(stackOf) = AllStacksBelow(stackOf') + 1
    <3>1. stackOf' = [stackOf EXCEPT ![p] = @ + 1]
      BY <1>6
    <3> HIDE DEF p
    <3> QED BY <2>2, <2>4, <2>5, <3>1, MoveTakesOne
  <2>7. Plots' = Plots /\ num_plots' = num_plots
    BY <1>6 DEF Plots, num_plots
  <2>8. TurnsLeft' = (num_plots + 1) * AllStacksBelow(stackOf') + num_plots
    BY <1>1, <1>6, <2>7 DEF TurnsLeft, AllStacksBelow
  <2>9. TurnsLeft' < TurnsLeft
    <3> HIDE DEF num_plots
    <3>1. \A a, b \in Nat : (a + 1) * (b + 1) = (a + 1) * b + a + 1 /\ (a + 1) * b \in Nat
      OBVIOUS
    <3>2. (num_plots + 1) * AllStacksBelow(stackOf) =
              (num_plots + 1) * AllStacksBelow(stackOf') + num_plots + 1
      BY <1>2, <2>6, <3>1
    <3>3. (num_plots + 1) * AllStacksBelow(stackOf') \in Nat
      BY <1>2, <2>6, <3>1
    <3> DEFINE x == (num_plots + 1) * AllStacksBelow(stackOf')
               y == (num_plots + 1) * AllStacksBelow(stackOf)
    <3>4. y = x + num_plots + 1 /\ x \in Nat /\ TurnsLeft' = x + num_plots /\ TurnsLeft = y + mover
      BY <1>3, <2>8, <3>2, <3>3
    <3> HIDE DEF x, y
    <3> QED BY <1>1, <1>2, <3>4
  <2> QED BY <1>1, <1>6, <2>9 DEF Nearer, Stage
<1> QED BY <1>1, <1>4, <1>5, <1>6 DEF Balance

\* Every turn of the search for a configuration and of the balancing lowers a
\* number, which bounds the turns its loop still takes; so neither can go on for
\* ever (the test FixInfiniteLoop), whatever the terminal and what up to MAX_CHARTS
\* devices draw.
THEOREM EveryTurnIsNearer ==
    LayoutSpec => [](TurnsLeft \in Nat) /\ [][Compute => Nearer]_layoutVars
<1>1. WindowsInv => TurnsLeft \in Nat
  BY TurnsLeftType DEF WindowsInv
<1>2. WindowsInv /\ [LayoutNext]_layoutVars => [Compute => Nearer]_layoutVars
  <2> SUFFICES ASSUME WindowsInv, Compute PROVE Nearer
    OBVIOUS
  <2>1. CASE Start
    BY <2>1 DEF Start, Nearer, Stage
  <2>2. CASE Place
    BY <2>2, PlaceIsNearer DEF WindowsInv
  <2>3. CASE Spread
    BY <2>3 DEF Spread, Nearer, Stage
  <2>4. CASE Balance
    BY <2>4, BalanceIsNearer DEF WindowsInv
  <2>5. CASE Cut
    BY <2>5 DEF Cut, Nearer, Stage
  <2> QED BY <2>1, <2>2, <2>3, <2>4, <2>5 DEF Compute
<1> QED BY <1>1, <1>2, LayoutInvHolds, PTL DEF LayoutSpec
=============================================================================
