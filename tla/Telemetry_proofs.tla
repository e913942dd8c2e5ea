-------------------------- MODULE Telemetry_proofs --------------------------
(***************************************************************************)
(* Proofs about the store of the sidecar and about the telemetry that      *)
(* feeds it, for every capacity of the history, every number of snapshots, *)
(* any clock and any limit of a frame.                                     *)
(***************************************************************************)
EXTENDS Telemetry, FiniteSetTheorems, WellFoundedInduction, TLAPS

-----------------------------------------------------------------------------
(* Indices modulo the capacity                                             *)

\* An index that went once past the end wraps around by a subtraction.
LEMMA WrapOnce ==
    ASSUME NEW x \in Int, 0 <= x, x < 2 * Capacity
    PROVE  x % Capacity = IF x < Capacity THEN x ELSE x - Capacity
<1> USE StoreAssumption
<1>1. x % Capacity \in 0 .. Capacity - 1 /\ x = Capacity * (x \div Capacity) + (x % Capacity) /\ x \div Capacity \in Int
  OBVIOUS
<1>2. x \div Capacity = IF x < Capacity THEN 0 ELSE 1
  OBVIOUS
<1> QED BY <1>1, <1>2

\* The cell of the i-th oldest of c points when the next one goes to cell n.
OldestCell(n, c) == IF n < c THEN n - c + Capacity ELSE n - c
CellAt(n, c, i) ==
    IF OldestCell(n, c) + i - 1 < Capacity
    THEN OldestCell(n, c) + i - 1 ELSE OldestCell(n, c) + i - 1 - Capacity

\* A kept point lies in the slice.
LEMMA CellInRing ==
    ASSUME NEW n \in 0 .. Capacity - 1, NEW c \in 0 .. Capacity, NEW i \in 1 .. c
    PROVE  CellAt(n, c, i) \in 0 .. Capacity - 1
BY StoreAssumption DEF CellAt, OldestCell

\* The two remainders of History, without the remainders.
LEMMA CellIsRemainder ==
    ASSUME NEW n \in 0 .. Capacity - 1, NEW c \in 0 .. Capacity, NEW i \in 1 .. c
    PROVE  (((n - c + Capacity) % Capacity) + i - 1) % Capacity = CellAt(n, c, i)
<1> USE StoreAssumption
<1>1. (n - c + Capacity) % Capacity = OldestCell(n, c)
  <2>1. n - c + Capacity \in Int /\ 0 <= n - c + Capacity /\ n - c + Capacity < 2 * Capacity
    OBVIOUS
  <2>2. (n - c + Capacity) % Capacity =
            IF n - c + Capacity < Capacity THEN n - c + Capacity ELSE n - c + Capacity - Capacity
    BY <2>1, WrapOnce
  <2> QED BY <2>2 DEF OldestCell
<1>2. OldestCell(n, c) \in 0 .. Capacity - 1
  BY DEF OldestCell
<1> DEFINE x == OldestCell(n, c) + i - 1
<1>3. x \in Int /\ 0 <= x /\ x < 2 * Capacity
  BY <1>2
<1>4. x % Capacity = IF x < Capacity THEN x ELSE x - Capacity
  BY <1>3, WrapOnce
<1> QED BY <1>1, <1>4 DEF CellAt

\* KeptPoints lists the cells that History walks over, oldest first.
LEMMA KeptCells ==
    TypeOK => /\ KeptPoints \in Seq(Point \cup {ZeroPoint})
              /\ Len(KeptPoints) = count
              /\ \A i \in 1 .. count : KeptPoints[i] = history[CellAt(next, count, i)]
<1> SUFFICES ASSUME TypeOK
             PROVE  /\ KeptPoints \in Seq(Point \cup {ZeroPoint})
                    /\ Len(KeptPoints) = count
                    /\ \A i \in 1 .. count : KeptPoints[i] = history[CellAt(next, count, i)]
  OBVIOUS
<1>1. count \in Nat
  BY StoreAssumption DEF TypeOK
<1>2. KeptPoints = [i \in 1 .. count |-> history[CellAt(next, count, i)]]
  BY CellIsRemainder DEF KeptPoints, TypeOK
<1>3. \A i \in 1 .. count : history[CellAt(next, count, i)] \in Point \cup {ZeroPoint}
  BY CellInRing DEF TypeOK
<1> HIDE DEF KeptPoints
<1> QED BY <1>1, <1>2, <1>3

-----------------------------------------------------------------------------
(* Publishing a snapshot                                                   *)

\* SetLatest keeps the ring in shape.
LEMMA SetLatestType ==
    ASSUME TypeOK, NEW snapshot \in 1 .. MaxSnapshot, NEW ts \in Second,
           SetLatest(snapshot, ts), UNCHANGED pending
    PROVE  TypeOK'
<1> USE StoreAssumption
<1> DEFINE p == [ts |-> ts, snapshot |-> snapshot]
<1>1. p \in Point
  BY DEF Point
<1>2. history' \in [0 .. Capacity - 1 -> Point \cup {ZeroPoint}]
  BY <1>1 DEF TypeOK, SetLatest
<1>3. next' \in 0 .. Capacity - 1
  BY DEF TypeOK, SetLatest
<1>4. count' \in 0 .. Capacity
  BY DEF TypeOK, SetLatest
<1>5. latest' \in 0 .. MaxSnapshot /\ meta' \in Meta
  BY DEF TypeOK, SetLatest, Meta, Status
<1> QED BY <1>2, <1>3, <1>4, <1>5 DEF TypeOK

\* What SetLatest does to the kept points: the new one goes behind them, and
\* a full ring gives up the oldest.
LEMMA SetLatestKept ==
    ASSUME TypeOK, TypeOK', NEW snapshot \in 1 .. MaxSnapshot, NEW ts \in Second,
           SetLatest(snapshot, ts)
    PROVE  LET new == Append(KeptPoints, [ts |-> ts, snapshot |-> snapshot])
           IN  KeptPoints' = IF Len(new) > Capacity THEN Tail(new) ELSE new
<1> DEFINE p == [ts |-> ts, snapshot |-> snapshot]
           old == KeptPoints
           new == Append(old, p)
           all == Point \cup {ZeroPoint}
<1>1. /\ Capacity \in Nat \ {0} /\ next \in 0 .. Capacity - 1 /\ count \in 0 .. Capacity
      /\ history \in [0 .. Capacity - 1 -> all]
  BY StoreAssumption DEF TypeOK
<1>2. next' = IF next + 1 = Capacity THEN 0 ELSE next + 1
  <2> DEFINE x == next + 1
  <2>1. next' = x % Capacity
    BY DEF SetLatest
  <2>2. x \in Int /\ 0 <= x /\ x < 2 * Capacity
    BY <1>1
  <2> HIDE DEF x
  <2>3. x % Capacity = IF x < Capacity THEN x ELSE x - Capacity
    BY <2>2, WrapOnce
  <2> QED BY <1>1, <2>1, <2>3 DEF x
<1>3. history' = [history EXCEPT ![next] = p] /\ count' = IF count < Capacity THEN count + 1 ELSE count
  BY DEF SetLatest
<1>4. p \in all
  BY DEF Point
<1>5. /\ old \in Seq(all) /\ Len(old) = count
      /\ \A i \in 1 .. count : old[i] = history[CellAt(next, count, i)]
  BY KeptCells
<1>6. /\ KeptPoints' \in Seq(all) /\ Len(KeptPoints') = count'
      /\ \A i \in 1 .. count' : KeptPoints'[i] = history'[CellAt(next', count', i)]
  <2>1. (TypeOK => /\ KeptPoints \in Seq(all) /\ Len(KeptPoints) = count
                   /\ \A i \in 1 .. count : KeptPoints[i] = history[CellAt(next, count, i)])'
    BY KeptCells, PTL
  <2> QED BY <2>1
<1> HIDE DEF p, old, all
<1>7. /\ new \in Seq(all) /\ Len(new) = count + 1
      /\ new[count + 1] = p /\ \A i \in 1 .. count : new[i] = old[i]
  BY <1>1, <1>4, <1>5
<1> HIDE DEF new
<1>8. CASE count < Capacity
  <2>1. count' = count + 1 /\ Len(new) = count + 1
    BY <1>3, <1>7, <1>8
  <2>2. ASSUME NEW i \in 1 .. count + 1
        PROVE  KeptPoints'[i] = new[i]
    <3>1. CASE i = count + 1
      <4>1. CellAt(next', count', i) = next
        BY <1>1, <1>2, <1>8, <2>1, <3>1 DEF CellAt, OldestCell
      <4> QED BY <1>1, <1>3, <1>6, <1>7, <2>1, <3>1, <4>1
    <3>2. CASE i \in 1 .. count
      <4>1. CellAt(next', count', i) = CellAt(next, count, i)
        BY <1>1, <1>2, <1>8, <2>1, <3>2 DEF CellAt, OldestCell
      <4>2. CellAt(next, count, i) # next /\ CellAt(next, count, i) \in 0 .. Capacity - 1
        BY <1>1, <1>8, <3>2 DEF CellAt, OldestCell
      <4> QED BY <1>1, <1>3, <1>5, <1>6, <1>7, <2>1, <3>2, <4>1, <4>2
    <3> QED BY <1>1, <3>1, <3>2
  <2>3. KeptPoints' = new
    BY <1>1, <1>6, <1>7, <2>1, <2>2
  <2> QED BY <1>1, <1>8, <2>1, <2>3 DEF new, p, old
<1>9. CASE count = Capacity
  <2>1. count' = count /\ Len(new) = count + 1
    BY <1>1, <1>3, <1>7, <1>9
  <2>2. /\ Tail(new) \in Seq(all) /\ Len(Tail(new)) = count
        /\ \A i \in 1 .. count : Tail(new)[i] = new[i + 1]
    BY <1>1, <1>7
  <2>3. ASSUME NEW i \in 1 .. count
        PROVE  KeptPoints'[i] = new[i + 1]
    <3>1. CASE i = count
      <4>1. CellAt(next', count', i) = next
        BY <1>1, <1>2, <1>9, <2>1, <3>1 DEF CellAt, OldestCell
      <4> QED BY <1>1, <1>3, <1>6, <1>7, <2>1, <3>1, <4>1
    <3>2. CASE i # count
      <4>1. CellAt(next', count', i) = CellAt(next, count, i + 1)
        BY <1>1, <1>2, <1>9, <2>1, <3>2 DEF CellAt, OldestCell
      <4>2. CellAt(next, count, i + 1) # next /\ CellAt(next, count, i + 1) \in 0 .. Capacity - 1
        BY <1>1, <1>9, <3>2 DEF CellAt, OldestCell
      <4>3. i + 1 \in 1 .. count
        BY <1>1, <3>2
      <4> QED BY <1>1, <1>3, <1>5, <1>6, <1>7, <2>1, <4>1, <4>2, <4>3
    <3> QED BY <3>1, <3>2
  <2>4. KeptPoints' = Tail(new)
    BY <1>1, <1>6, <2>1, <2>2, <2>3
  <2> QED BY <1>1, <1>9, <2>1, <2>4 DEF new, p, old
<1> QED BY <1>1, <1>8, <1>9

-----------------------------------------------------------------------------
(* The store                                                               *)

\* The kept points are those of the newest snapshots, one each and in order.
KeptInOrder ==
    /\ count <= latest
    /\ \A i \in 1 .. count : KeptPoints[i].snapshot = latest - count + i

\* The Meta in the hands of OnStatus dates the latest snapshot as well: while
\* OnStatus runs the collector publishes nothing.
PendingDatesLatest == pending # NoMeta => pending.lastUpdate = latest

StoreInv == TypeOK /\ MetaDatesLatest /\ PendingDatesLatest /\ KeptInOrder

\* SetLatest adds the point of the newest snapshot at the end, and gives up the
\* oldest when the ring is full.
LEMMA SetLatestInOrder ==
    ASSUME StoreInv, TypeOK', NEW ts \in Second, latest < MaxSnapshot, SetLatest(latest + 1, ts)
    PROVE  KeptInOrder'
<1> DEFINE p == [ts |-> ts, snapshot |-> latest + 1]
           new == Append(KeptPoints, p)
           all == Point \cup {ZeroPoint}
<1>1. /\ Capacity \in Nat \ {0} /\ count \in 0 .. Capacity /\ latest \in Nat /\ MaxSnapshot \in Nat
      /\ latest + 1 \in 1 .. MaxSnapshot
  BY StoreAssumption DEF StoreInv, TypeOK
<1>2. KeptPoints \in Seq(all) /\ Len(KeptPoints) = count
  BY KeptCells DEF StoreInv
<1>3. /\ count <= latest
      /\ \A i \in 1 .. count : KeptPoints[i].snapshot = latest - count + i
  BY DEF StoreInv, KeptInOrder
<1>4. KeptPoints' = IF Len(new) > Capacity THEN Tail(new) ELSE new
  BY <1>1, SetLatestKept DEF StoreInv
<1>5. latest' = latest + 1 /\ count' = IF count < Capacity THEN count + 1 ELSE count
  BY DEF SetLatest
<1>6. p \in all /\ p.snapshot = latest + 1
  BY <1>1 DEF Point
<1> HIDE DEF p, all
<1>7. /\ new \in Seq(all) /\ Len(new) = count + 1 /\ new[count + 1] = p
      /\ \A i \in 1 .. count : new[i] = KeptPoints[i]
  BY <1>1, <1>2, <1>6
<1> HIDE DEF new
<1>8. \A i \in 1 .. count + 1 : new[i].snapshot = latest - count + i
  BY <1>1, <1>3, <1>6, <1>7
<1>9. CASE count < Capacity
  <2>1. KeptPoints' = new /\ count' = count + 1
    BY <1>1, <1>4, <1>5, <1>7, <1>9
  <2> QED BY <1>1, <1>3, <1>5, <1>8, <2>1 DEF KeptInOrder
<1>10. CASE count = Capacity
  <2>1. KeptPoints' = Tail(new) /\ count' = count
    BY <1>1, <1>4, <1>5, <1>7, <1>10
  <2>2. \A i \in 1 .. count : Tail(new)[i] = new[i + 1]
    BY <1>1, <1>7
  <2>3. ASSUME NEW i \in 1 .. count'
        PROVE  KeptPoints'[i].snapshot = latest' - count' + i
    <3>1. i + 1 \in 1 .. count + 1
      BY <1>1, <2>1
    <3>2. KeptPoints'[i] = new[i + 1] /\ new[i + 1].snapshot = latest - count + (i + 1)
      BY <1>8, <2>1, <2>2, <3>1
    <3>3. latest - count + (i + 1) = latest' - count' + i
      BY <1>1, <1>5, <2>1
    <3> QED BY <3>2, <3>3
  <2>4. count' <= latest'
    BY <1>1, <1>3, <1>5, <2>1
  <2> QED BY <2>3, <2>4 DEF KeptInOrder
<1> QED BY <1>1, <1>9, <1>10

\* What a change of status leaves alone.
LEMMA StatusKeepsPoints ==
    ASSUME UNCHANGED <<latest, history, next, count>>
    PROVE  UNCHANGED KeptPoints /\ (KeptInOrder => KeptInOrder')
BY DEF KeptPoints, KeptInOrder

\* New makes an empty store.
LEMMA StoreInvInit == Init => StoreInv
<1> SUFFICES ASSUME Init PROVE StoreInv
  OBVIOUS
<1>1. TypeOK
  BY StoreAssumption DEF Init, TypeOK, Meta, Status
<1>2. MetaDatesLatest /\ PendingDatesLatest
  BY DEF Init, MetaDatesLatest, PendingDatesLatest
<1>3. KeptInOrder
  BY DEF Init, KeptInOrder
<1> QED BY <1>1, <1>2, <1>3 DEF StoreInv

\* Every call of the writer keeps the store in order.
LEMMA StoreInvNext ==
    ASSUME StoreInv, [Next]_vars
    PROVE  StoreInv'
<1> USE DEF StoreInv
<1>1. CASE OnSnapshot
  <2>1. PICK ts \in Second : SetLatest(latest + 1, ts)
    BY <1>1 DEF OnSnapshot
  <2>2. latest + 1 \in 1 .. MaxSnapshot /\ latest < MaxSnapshot /\ UNCHANGED pending /\ pending = NoMeta
    BY <1>1, StoreAssumption DEF OnSnapshot, TypeOK
  <2>3. TypeOK'
    BY <2>1, <2>2, SetLatestType
  <2>4. KeptInOrder'
    BY <2>1, <2>2, <2>3, SetLatestInOrder
  <2>5. MetaDatesLatest' /\ PendingDatesLatest'
    BY <2>1, <2>2 DEF SetLatest, MetaDatesLatest, PendingDatesLatest
  <2> QED BY <2>3, <2>4, <2>5
<1>2. CASE OnStatusRead
  <2>1. PICK status \in {"stale", "no_gpu"} : pending' = [meta EXCEPT !.status = status]
    BY <1>2 DEF OnStatusRead
  <2>2. UNCHANGED <<latest, meta, history, next, count>>
    BY <1>2 DEF OnStatusRead
  <2>3. pending' \in Meta /\ pending'.lastUpdate = meta.lastUpdate
    BY <2>1 DEF TypeOK, Meta, Status
  <2>4. TypeOK' /\ MetaDatesLatest' /\ PendingDatesLatest'
    BY <2>2, <2>3 DEF TypeOK, MetaDatesLatest, PendingDatesLatest
  <2> QED BY <2>2, <2>4, StatusKeepsPoints
<1>3. CASE OnStatusWrite
  <2>1. pending # NoMeta /\ meta' = pending /\ pending' = NoMeta /\ UNCHANGED <<latest, history, next, count>>
    BY <1>3 DEF OnStatusWrite
  <2>2. TypeOK' /\ MetaDatesLatest' /\ PendingDatesLatest'
    BY <2>1 DEF TypeOK, MetaDatesLatest, PendingDatesLatest
  <2> QED BY <2>1, <2>2, StatusKeepsPoints
<1>4. CASE UNCHANGED vars
  <2>1. TypeOK' /\ MetaDatesLatest' /\ PendingDatesLatest'
    BY <1>4 DEF vars, TypeOK, MetaDatesLatest, PendingDatesLatest
  <2> QED BY <1>4, <2>1, StatusKeepsPoints DEF vars
<1> QED BY <1>1, <1>2, <1>3, <1>4 DEF Next

\* The points are in order and the date of the status belongs to the snapshot,
\* for every capacity.
THEOREM StoreInvariant == Spec => []StoreInv
<1>1. StoreInv /\ [Next]_vars => StoreInv'
  BY StoreInvNext
<1> QED BY <1>1, StoreInvInit, PTL DEF Spec

\* What /api/history without a since walks over is, for every capacity, the
\* points of the newest snapshots in the order they were published, the last
\* one being that of the snapshot /api/metrics shows, and the ring's index
\* and count never leave the slice.
THEOREM HistoryInOrder == Spec => [](TypeOK /\ KeptInOrder)
<1>1. StoreInv => TypeOK /\ KeptInOrder
  BY DEF StoreInv
<1> QED BY <1>1, StoreInvariant, PTL

\* The ring of points implements the bounded history, for every capacity:
\* SetLatest pushes one point and drops at most the oldest, OnStatus none.
THEOREM StoreRefinesPoints == Spec => RefinesPoints
<1> DEFINE h == [d \in {"store"} |-> [w \in {"points"} |-> KeptPoints]]
<1>1. Init => Points!HistInit
  <2> SUFFICES ASSUME Init PROVE Points!HistInit
    OBVIOUS
  <2>1. TypeOK /\ count = 0
    BY StoreInvInit DEF StoreInv, Init
  <2>2. KeptPoints = << >>
    BY <2>1, KeptCells
  <2> QED BY <2>2 DEF Points!HistInit
<1>2. ASSUME StoreInv, StoreInv', [Next]_vars
      PROVE  [IF latest' # latest
              THEN \E ts \in Second : Points!HistPush("store", "points", [ts |-> ts, snapshot |-> latest'])
              ELSE UNCHANGED KeptPoints]_vars
  <2>1. CASE OnSnapshot
    <3>1. PICK ts \in Second : SetLatest(latest + 1, ts)
      BY <2>1 DEF OnSnapshot
    <3>2. latest + 1 \in 1 .. MaxSnapshot /\ latest' = latest + 1 /\ latest' # latest
      BY <1>2, <2>1, <3>1, StoreAssumption DEF OnSnapshot, SetLatest, StoreInv, TypeOK
    <3> DEFINE p == [ts |-> ts, snapshot |-> latest']
    <3>3. KeptPoints' = Points!Newest(Append(KeptPoints, p))
      BY <1>2, <3>1, <3>2, SetLatestKept DEF StoreInv, Points!Newest
    <3>4. Points!HistPush("store", "points", p)
      BY <3>3 DEF Points!HistPush
    <3> QED BY <3>2, <3>4
  <2>2. CASE OnStatusRead \/ OnStatusWrite
    <3>1. UNCHANGED <<latest, history, next, count>>
      BY <2>2 DEF OnStatusRead, OnStatusWrite
    <3> QED BY <3>1, StatusKeepsPoints
  <2>3. CASE UNCHANGED vars
    BY <2>3
  <2> QED BY <1>2, <2>1, <2>2, <2>3 DEF Next
<1> QED BY <1>1, <1>2, StoreInvariant, PTL DEF Spec, RefinesPoints

-----------------------------------------------------------------------------
(* What /api/history answers                                               *)

\* A set of numbers has a least one.
LEMMA LeastNumber ==
    ASSUME NEW T \in SUBSET Nat, T # {}
    PROVE  \E x \in T : \A y \in T : x <= y
<1> DEFINE Below == OpToRel(<, Nat)
<1>1. IsWellFoundedOn(Below, Nat)
  BY NatLessThanWellFounded
<1>2. \A x, y \in Nat : <<y, x>> \in Below <=> y < x
  BY DEF OpToRel
<1> HIDE DEF Below
<1>3. PICK x \in T : \A y \in T : <<y, x>> \notin Below
  BY <1>1, WFMin
<1>4. x \in Nat /\ \A y \in T : y \in Nat /\ ~(y < x)
  BY <1>2, <1>3
<1> QED BY <1>4

\* The answers over the first points, as History defines them.
IsAnswer(points, since, out) ==
    out = [i \in 0 .. count |->
              IF i = 0 THEN <<>>
              ELSE IF points[i].ts >= since THEN Append(out[i - 1], points[i]) ELSE out[i - 1]]

PartialAnswer(points, since, n, out) ==
    /\ DOMAIN out = 0 .. n
    /\ \A i \in 0 .. n :
          out[i] = IF i = 0 THEN <<>>
                   ELSE IF points[i].ts >= since THEN Append(out[i - 1], points[i]) ELSE out[i - 1]

\* There are such answers: the shortest prefix without them would have one less.
LEMMA AnswerExists ==
    ASSUME count \in Nat, NEW points, NEW since
    PROVE  \E out : out = [i \in 0 .. count |-> out[i]] /\ PartialAnswer(points, since, count, out)
<1> DEFINE Good(n, out) == out = [i \in 0 .. n |-> out[i]] /\ PartialAnswer(points, since, n, out)
           without == {n \in 0 .. count : ~\E out : Good(n, out)}
<1>1. without = {}
  <2> SUFFICES ASSUME without # {} PROVE FALSE
    OBVIOUS
  <2>1. without \in SUBSET Nat
    OBVIOUS
  <2>2. PICK n \in without : \A m \in without : n <= m
    BY <2>1, LeastNumber
  <2>3. n \in 0 .. count /\ ~\E out : Good(n, out)
    BY <2>2
  <2>4. n # 0
    <3> DEFINE none == [i \in 0 .. 0 |-> <<>>]
    <3>1. \A i \in 0 .. 0 : i = 0
      OBVIOUS
    <3>2. Good(0, none)
      BY <3>1 DEF PartialAnswer
    <3> QED BY <2>3, <3>2
  <2>5. n - 1 \in 0 .. count /\ n - 1 \notin without
    BY <2>2, <2>3, <2>4
  <2>6. PICK out : Good(n - 1, out)
    BY <2>5
  <2> DEFINE last == IF points[n].ts >= since THEN Append(out[n - 1], points[n]) ELSE out[n - 1]
             more == [i \in 0 .. n |-> IF i = n THEN last ELSE out[i]]
  <2>7. \A i \in 0 .. n - 1 :
           out[i] = IF i = 0 THEN <<>>
                    ELSE IF points[i].ts >= since THEN Append(out[i - 1], points[i]) ELSE out[i - 1]
    BY <2>6 DEF PartialAnswer
  <2>8. \A i \in 0 .. n : i = n \/ (i \in 0 .. n - 1 /\ i # n /\ (i = 0 \/ (i - 1 \in 0 .. n /\ i - 1 # n)))
    BY <2>3, <2>4
  <2>9. n - 1 \in 0 .. n /\ n - 1 # n /\ n \in 0 .. n
    BY <2>3, <2>4
  <2> HIDE DEF last
  <2>10. more[n] = last /\ \A i \in 0 .. n : i # n => more[i] = out[i]
    BY <2>9
  <2>11. more = [i \in 0 .. n |-> more[i]] /\ DOMAIN more = 0 .. n
    OBVIOUS
  <2> HIDE DEF more
  <2>12. more[n] = IF points[n].ts >= since THEN Append(more[n - 1], points[n]) ELSE more[n - 1]
    BY <2>9, <2>10 DEF last
  <2>13. ASSUME NEW i \in 0 .. n, i # n
         PROVE  more[i] = IF i = 0 THEN <<>>
                          ELSE IF points[i].ts >= since THEN Append(more[i - 1], points[i]) ELSE more[i - 1]
    <3>1. more[i] = out[i] /\ (i # 0 => more[i - 1] = out[i - 1])
      BY <2>8, <2>10, <2>13
    <3> QED BY <2>7, <2>8, <2>13, <3>1
  <2>14. Good(n, more)
    BY <2>4, <2>11, <2>12, <2>13 DEF PartialAnswer
  <2> QED BY <2>3, <2>14
<1>2. count \in 0 .. count
  OBVIOUS
<1> QED BY <1>1, <1>2

\* What an answer over the first n points has to be.
ExactAnswer(points, since, n, answer) ==
    /\ answer \in Seq(Point \cup {ZeroPoint})
    /\ \A i, j \in 1 .. Len(answer) : i < j => answer[i].snapshot < answer[j].snapshot
    /\ \A i \in 1 .. Len(answer) :
          \E k \in 1 .. n : answer[i] = points[k] /\ points[k].ts >= since
    /\ \A k \in 1 .. n : points[k].ts >= since => \E i \in 1 .. Len(answer) : answer[i] = points[k]

\* The loop's body looks at one point more.
LEMMA AnswerStep ==
    ASSUME NEW points \in Seq(Point \cup {ZeroPoint}), NEW since, NEW n \in 1 .. Len(points),
           \A k, m \in 1 .. Len(points) : k < m => points[k].snapshot < points[m].snapshot,
           NEW answer, ExactAnswer(points, since, n - 1, answer)
    PROVE  ExactAnswer(points, since, n,
                       IF points[n].ts >= since THEN Append(answer, points[n]) ELSE answer)
<1> DEFINE p == points[n]
           all == Point \cup {ZeroPoint}
           size == Len(answer)
           more == Append(answer, p)
<1>1. p \in all /\ n \in Nat /\ Len(points) \in Nat
  OBVIOUS
<1>2. answer \in Seq(all) /\ size \in Nat
  BY DEF ExactAnswer
<1>3. \A k \in 1 .. n : k = n \/ k \in 1 .. n - 1
  BY <1>1
<1>4. \A i \in 1 .. size : \E k \in 1 .. n - 1 : answer[i] = points[k] /\ points[k].ts >= since
  BY DEF ExactAnswer
<1>5. \A k \in 1 .. n - 1 : points[k].ts >= since => \E i \in 1 .. size : answer[i] = points[k]
  BY DEF ExactAnswer
<1>6. \A i, j \in 1 .. size : i < j => answer[i].snapshot < answer[j].snapshot
  BY DEF ExactAnswer
<1>7. CASE ~(p.ts >= since)
  <2>1. \A i \in 1 .. size : \E k \in 1 .. n : answer[i] = points[k] /\ points[k].ts >= since
    <3>1. \A k \in 1 .. n - 1 : k \in 1 .. n
      BY <1>1
    <3> QED BY <1>4, <3>1
  <2>2. \A k \in 1 .. n : points[k].ts >= since => \E i \in 1 .. size : answer[i] = points[k]
    BY <1>3, <1>5, <1>7
  <2> QED BY <1>2, <1>6, <1>7, <2>1, <2>2 DEF ExactAnswer
<1>8. CASE p.ts >= since
  <2>1. /\ more \in Seq(all) /\ Len(more) = size + 1 /\ more[size + 1] = p
        /\ \A i \in 1 .. size : more[i] = answer[i]
    BY <1>1, <1>2
  <2> HIDE DEF more
  <2>2. \A i \in 1 .. size + 1 : i = size + 1 \/ i \in 1 .. size
    BY <1>2
  <2>3. ASSUME NEW i \in 1 .. size
        PROVE  answer[i].snapshot < p.snapshot
    <3>1. PICK k \in 1 .. n - 1 : answer[i] = points[k]
      BY <1>4
    <3>2. k \in 1 .. Len(points) /\ n \in 1 .. Len(points) /\ k < n
      BY <1>1
    <3> QED BY <3>1, <3>2
  <2>4. ASSUME NEW i \in 1 .. size + 1, NEW j \in 1 .. size + 1, i < j
        PROVE  more[i].snapshot < more[j].snapshot
    <3>1. i \in 1 .. size
      BY <1>2, <2>4
    <3>2. CASE j = size + 1
      BY <2>1, <2>3, <3>1, <3>2
    <3>3. CASE j \in 1 .. size
      BY <1>6, <2>1, <2>4, <3>1, <3>3
    <3> QED BY <2>2, <3>2, <3>3
  <2>5. ASSUME NEW i \in 1 .. size + 1
        PROVE  \E k \in 1 .. n : more[i] = points[k] /\ points[k].ts >= since
    <3>1. CASE i = size + 1
      <4>1. n \in 1 .. n
        BY <1>1
      <4> QED BY <1>8, <2>1, <3>1, <4>1
    <3>2. CASE i \in 1 .. size
      <4>1. PICK k \in 1 .. n - 1 : answer[i] = points[k] /\ points[k].ts >= since
        BY <1>4, <3>2
      <4>2. k \in 1 .. n
        BY <1>1
      <4> QED BY <2>1, <3>2, <4>1, <4>2
    <3> QED BY <2>2, <3>1, <3>2
  <2>6. ASSUME NEW k \in 1 .. n, points[k].ts >= since
        PROVE  \E i \in 1 .. size + 1 : more[i] = points[k]
    <3>1. CASE k = n
      <4>1. size + 1 \in 1 .. size + 1
        BY <1>2
      <4> QED BY <2>1, <3>1, <4>1
    <3>2. CASE k \in 1 .. n - 1
      <4>1. PICK i \in 1 .. size : answer[i] = points[k]
        BY <1>5, <2>6, <3>2
      <4>2. i \in 1 .. size + 1
        BY <1>2
      <4> QED BY <2>1, <4>1, <4>2
    <3> QED BY <1>3, <3>1, <3>2
  <2>7. ExactAnswer(points, since, n, more)
    BY <2>1, <2>4, <2>5, <2>6 DEF ExactAnswer
  <2> QED BY <1>8, <2>7 DEF more
<1> QED BY <1>7, <1>8

\* Every prefix of the points gets the answer it has to get.
LEMMA AnswersAreExact ==
    ASSUME NEW points \in Seq(Point \cup {ZeroPoint}), NEW since, NEW out,
           Len(points) = count, PartialAnswer(points, since, count, out),
           \A k, m \in 1 .. Len(points) : k < m => points[k].snapshot < points[m].snapshot
    PROVE  ExactAnswer(points, since, count, out[count])
<1>1. count \in Nat
  OBVIOUS
<1> DEFINE wrong == {n \in 0 .. count : ~ExactAnswer(points, since, n, out[n])}
<1>2. wrong = {}
  <2> SUFFICES ASSUME wrong # {} PROVE FALSE
    OBVIOUS
  <2>1. wrong \in SUBSET Nat
    OBVIOUS
  <2>2. PICK n \in wrong : \A m \in wrong : n <= m
    BY <2>1, LeastNumber
  <2>3. n \in 0 .. count /\ ~ExactAnswer(points, since, n, out[n])
    BY <2>2
  <2>4. n # 0
    <3>1. out[0] = <<>>
      BY <1>1 DEF PartialAnswer
    <3>2. <<>> \in Seq(Point \cup {ZeroPoint}) /\ Len(<<>>) = 0 /\ 1 .. 0 = {}
      OBVIOUS
    <3>3. ExactAnswer(points, since, 0, out[0])
      BY <3>1, <3>2 DEF ExactAnswer
    <3> QED BY <2>3, <3>3
  <2>5. n - 1 \in 0 .. count /\ n - 1 \notin wrong
    BY <1>1, <2>2, <2>3, <2>4
  <2>6. ExactAnswer(points, since, n - 1, out[n - 1])
    BY <2>5
  <2>7. n \in 1 .. Len(points)
    BY <2>3, <2>4
  <2>8. out[n] = IF points[n].ts >= since THEN Append(out[n - 1], points[n]) ELSE out[n - 1]
    BY <2>3, <2>4 DEF PartialAnswer
  <2>9. ExactAnswer(points, since, n, out[n])
    BY <2>6, <2>7, <2>8, AnswerStep
  <2> QED BY <2>3, <2>9
<1>3. count \in 0 .. count
  BY <1>1
<1> QED BY <1>2, <1>3

\* What History answers, in the terms of the property.
LEMMA HistoryIsExact ==
    StoreInv => HistorySinceIsExact
<1> SUFFICES ASSUME StoreInv PROVE HistorySinceIsExact
  OBVIOUS
<1> DEFINE all == Point \cup {ZeroPoint}
<1>1. TypeOK /\ count \in Nat /\ latest \in Nat
  BY StoreAssumption DEF StoreInv, TypeOK
<1>2. KeptPoints \in Seq(all) /\ Len(KeptPoints) = count
  BY <1>1, KeptCells
<1>3. \A i \in 1 .. count : KeptPoints[i].snapshot = latest - count + i
  BY DEF StoreInv, KeptInOrder
<1>4. \A k, m \in 1 .. Len(KeptPoints) : k < m => KeptPoints[k].snapshot < KeptPoints[m].snapshot
  BY <1>1, <1>2, <1>3
<1>5. count > 0 => KeptPoints[count].snapshot = latest
  BY <1>1, <1>3
<1>6. ASSUME NEW since \in Second
      PROVE  LET answer == History(since) IN
             /\ \A i, j \in 1 .. Len(answer) : i < j => answer[i].snapshot < answer[j].snapshot
             /\ ToSet(answer) = {p \in ToSet(KeptPoints) : p.ts >= since}
  <2> DEFINE points == KeptPoints
             outs == CHOOSE out : IsAnswer(points, since, out)
             answer == History(since)
  <2>1. PICK f : f = [i \in 0 .. count |-> f[i]] /\ PartialAnswer(points, since, count, f)
    BY <1>1, AnswerExists
  <2>2. [i \in 0 .. count |-> f[i]] =
           [i \in 0 .. count |->
              IF i = 0 THEN <<>>
              ELSE IF points[i].ts >= since THEN Append(f[i - 1], points[i]) ELSE f[i - 1]]
    BY <2>1 DEF PartialAnswer
  <2>3. IsAnswer(points, since, f)
    BY <2>1, <2>2, Zenon DEF IsAnswer
  <2>4. IsAnswer(points, since, outs)
    BY <2>3, Zenon
  <2>5. answer = outs[count]
    BY DEF History, IsAnswer
  <2> HIDE DEF outs, points, answer
  <2>6. PartialAnswer(points, since, count, outs)
    BY <2>4 DEF IsAnswer, PartialAnswer
  <2>7. ExactAnswer(points, since, count, answer)
    BY <1>2, <1>4, <2>5, <2>6, AnswersAreExact DEF points
  <2>8. \A p : p \in ToSet(answer) <=> \E i \in 1 .. Len(answer) : p = answer[i]
    BY <2>7 DEF ToSet, ExactAnswer
  <2>9. \A p : p \in ToSet(points) <=> \E k \in 1 .. count : p = points[k]
    BY <1>2 DEF ToSet, points
  <2>10. ToSet(answer) = {p \in ToSet(points) : p.ts >= since}
    <3> DEFINE m == Len(answer)
    <3>1. \A i \in 1 .. m : \E k \in 1 .. count : answer[i] = points[k] /\ points[k].ts >= since
      BY <2>7 DEF ExactAnswer
    <3>2. \A k \in 1 .. count : points[k].ts >= since => \E i \in 1 .. m : answer[i] = points[k]
      BY <2>7 DEF ExactAnswer
    <3> HIDE DEF m
    <3>3. \A p \in ToSet(answer) : p \in ToSet(points) /\ p.ts >= since
      <4> SUFFICES ASSUME NEW p \in ToSet(answer) PROVE p \in ToSet(points) /\ p.ts >= since
        OBVIOUS
      <4>1. PICK i \in 1 .. m : p = answer[i]
        BY <2>8 DEF m
      <4>2. PICK k \in 1 .. count : answer[i] = points[k] /\ points[k].ts >= since
        BY <3>1
      <4> QED BY <2>9, <4>1, <4>2
    <3>4. \A p \in ToSet(points) : p.ts >= since => p \in ToSet(answer)
      <4> SUFFICES ASSUME NEW p \in ToSet(points), p.ts >= since PROVE p \in ToSet(answer)
        OBVIOUS
      <4>1. PICK k \in 1 .. count : p = points[k]
        BY <2>9
      <4>2. points[k].ts >= since
        BY <4>1
      <4>3. PICK i \in 1 .. m : answer[i] = points[k]
        BY <3>2, <4>2
      <4> QED BY <2>8, <4>1, <4>3 DEF m
    <3> QED BY <3>3, <3>4, Zenon
  <2>11. \A i, j \in 1 .. Len(answer) : i < j => answer[i].snapshot < answer[j].snapshot
    BY <2>7 DEF ExactAnswer
  <2> QED BY <2>10, <2>11 DEF answer, points
<1> QED BY <1>1, <1>5, <1>6, Zenon DEF HistorySinceIsExact

\* /api/history gives exactly the kept points that are not older than what the
\* caller asks for, in the order of their snapshots, for every capacity and
\* whatever the clock does between two snapshots.
THEOREM HistoryAnswersExactly == Spec => []HistorySinceIsExact
BY StoreInvariant, HistoryIsExact, PTL

-----------------------------------------------------------------------------
(* The store within the sidecar                                            *)

\* Whatever nvtop prints, the store takes only steps of its own.
THEOREM TelemetryUsesStore == TelemetrySpec => Spec
<1>1. TelemetryInit => Init
  BY DEF TelemetryInit
<1>2. [TelemetryNext]_telemetryVars => [Next]_vars
  BY DEF TelemetryNext, telemetryVars, PrintByte, Restart, Accept, Refuse, StatusRead, StatusWrite, Next
<1> QED BY <1>1, <1>2, PTL DEF TelemetrySpec, Spec

\* /api/metrics dates the snapshot it shows, in spite of the Meta OnStatus
\* writes back after it was read: no snapshot is published in between.
THEOREM MetaAlwaysDatesLatest == TelemetrySpec => []MetaDatesLatest
<1>1. StoreInv => MetaDatesLatest
  BY DEF StoreInv
<1> QED BY <1>1, StoreInvariant, TelemetryUsesStore, PTL

-----------------------------------------------------------------------------
(* The framer                                                              *)

Bracket == {"[", "{"}

Positions(s, b) == {i \in 1 .. Len(s) : s[i] = b}

\* How often a bracket is on the stack of what nvtop has opened.
Opens(s, b) == Cardinality(Positions(s, b))

FramerType ==
    [frame : Seq(Byte), square : Nat, curly : Nat, inString : BOOLEAN,
     escaped : BOOLEAN, discarding : BOOLEAN]

\* Within an array, the local variables of Framer.Next are where nvtop is: two
\* counters stand for the stack of brackets, two booleans for the place in a
\* string, and the frame is the array until it has become too long.
Tracks(f, a, o, q) ==
    /\ a # <<>>
    /\ f.square = Opens(o, "[") /\ f.curly = Opens(o, "{")
    /\ f.inString <=> q # "no"
    /\ f.escaped <=> q = "escape"
    /\ f.discarding => f.frame = <<>> /\ Len(a) > MaxFrame
    /\ ~f.discarding => f.frame = a

\* Between two arrays the Framer is as new.
Follows(f, a, o, q) ==
    /\ f \in FramerType /\ a \in Seq(Byte) /\ o \in Seq(Bracket) /\ q \in {"no", "yes", "escape"}
    /\ o = <<>> => a = <<>> /\ q = "no" /\ f = NewFramer
    /\ o # <<>> => Tracks(f, a, o, q)

FramerInv == Follows(framer, array, open, quoted) /\ FramesMatch

\* Counting on the stack.
LEMMA OpensType ==
    ASSUME NEW s \in Seq(Bracket), NEW b
    PROVE  IsFiniteSet(Positions(s, b)) /\ Opens(s, b) \in Nat
<1>1. IsFiniteSet(1 .. Len(s))
  BY FS_Interval
<1>2. Positions(s, b) \in SUBSET (1 .. Len(s))
  BY DEF Positions
<1> QED BY <1>1, <1>2, FS_Subset, FS_CardinalityType DEF Opens

\* No bracket is open exactly if both counters are at zero.
LEMMA OpensEmpty ==
    ASSUME NEW s \in Seq(Bracket)
    PROVE  s = <<>> <=> Opens(s, "[") = 0 /\ Opens(s, "{") = 0
<1>1. \A b \in Bracket : Opens(s, b) = 0 <=> Positions(s, b) = {}
  BY OpensType, FS_EmptySet DEF Opens
<1>2. ASSUME s = <<>> PROVE \A b \in Bracket : Positions(s, b) = {}
  BY <1>2 DEF Positions
<1>3. ASSUME s # <<>> PROVE \E b \in Bracket : Positions(s, b) # {}
  <2>1. 1 \in 1 .. Len(s) /\ s[1] \in Bracket
    BY <1>3
  <2> QED BY <2>1 DEF Positions
<1> QED BY <1>1, <1>2, <1>3 DEF Bracket

\* An opening bracket counts up its own counter only.
LEMMA OpensAppend ==
    ASSUME NEW s \in Seq(Bracket), NEW b \in Bracket
    PROVE  /\ Append(s, b) \in Seq(Bracket) /\ Append(s, b) # <<>>
           /\ Opens(Append(s, b), b) = Opens(s, b) + 1
           /\ \A c \in Bracket \ {b} : Opens(Append(s, b), c) = Opens(s, c)
<1> DEFINE t == Append(s, b)
           n == Len(s)
<1>1. /\ n \in Nat /\ t \in Seq(Bracket) /\ Len(t) = n + 1 /\ t[n + 1] = b
      /\ \A i \in 1 .. n : t[i] = s[i]
  OBVIOUS
<1> HIDE DEF t
<1>2. Positions(t, b) = Positions(s, b) \cup {n + 1} /\ n + 1 \notin Positions(s, b)
  BY <1>1 DEF Positions
<1>3. \A c \in Bracket \ {b} : Positions(t, c) = Positions(s, c)
  BY <1>1 DEF Positions
<1>4. Opens(t, b) = Opens(s, b) + 1
  BY <1>2, OpensType, FS_AddElement DEF Opens
<1>5. t # <<>>
  BY <1>1
<1> QED BY <1>1, <1>3, <1>4, <1>5 DEF t, Opens

\* A closing bracket counts down its own counter only.
LEMMA OpensFront ==
    ASSUME NEW s \in Seq(Bracket), s # <<>>
    PROVE  /\ Front(s) \in Seq(Bracket) /\ Last(s) \in Bracket
           /\ Opens(Front(s), Last(s)) = Opens(s, Last(s)) - 1 /\ Opens(s, Last(s)) > 0
           /\ \A c \in Bracket \ {Last(s)} : Opens(Front(s), c) = Opens(s, c)
<1> DEFINE t == Front(s)
           n == Len(s)
           b == Last(s)
<1>1. n \in Nat \ {0} /\ b = s[n] /\ b \in Bracket
  BY DEF Last
<1>2. t \in Seq(Bracket) /\ Len(t) = n - 1 /\ \A i \in 1 .. n - 1 : t[i] = s[i]
  <2>1. t = SubSeq(s, 1, n - 1)
    BY DEF Front
  <2>2. \A i \in 1 .. n - 1 : s[i] \in Bracket
    BY <1>1
  <2>3. t = [i \in 1 .. n - 1 |-> s[i]]
    BY <1>1, <2>1
  <2> HIDE DEF t
  <2> QED BY <1>1, <2>2, <2>3
<1> HIDE DEF t, b
<1>3. Positions(t, b) = Positions(s, b) \ {n} /\ n \in Positions(s, b)
  BY <1>1, <1>2 DEF Positions
<1>4. \A c \in Bracket \ {b} : Positions(t, c) = Positions(s, c)
  BY <1>1, <1>2 DEF Positions
<1>5. Opens(t, b) = Opens(s, b) - 1
  BY <1>3, OpensType, FS_RemoveElement DEF Opens
<1>6. Opens(s, b) > 0
  <2>1. Opens(s, b) \in Nat /\ Opens(t, b) \in Nat
    BY <1>2, OpensType
  <2> QED BY <1>5, <2>1
<1> QED BY <1>1, <1>2, <1>4, <1>5, <1>6 DEF t, b, Opens

\* What Kept adds to the frame.
LEMMA KeptTracks ==
    ASSUME NEW f \in FramerType, NEW a \in Seq(Byte), NEW o, NEW q, NEW b \in Byte, Tracks(f, a, o, q)
    PROVE  LET k == Kept(f, b) IN
           /\ k \in FramerType /\ Append(a, b) \in Seq(Byte)
           /\ Tracks(k, Append(a, b), o, q) /\ ~Between(f)
<1> DEFINE g == Append(a, b)
           k == Kept(f, b)
<1>1. g \in Seq(Byte) /\ Len(g) = Len(a) + 1 /\ g # <<>> /\ Len(a) \in Nat
  OBVIOUS
<1>2. ~Between(f)
  BY DEF Tracks, Between
<1>3. CASE f.discarding
  <2>1. k = f
    BY <1>3 DEF Kept
  <2>2. Len(g) > MaxFrame
    <3>1. Len(a) > MaxFrame
      BY <1>3 DEF Tracks
    <3> HIDE DEF g
    <3> QED BY <1>1, <3>1, FramerAssumption
  <2> HIDE DEF g, k
  <2> QED BY <1>1, <1>2, <1>3, <2>1, <2>2 DEF Tracks, g, k
<1>4. CASE ~f.discarding
  <2>1. f.frame = a
    BY <1>4 DEF Tracks
  <2>2. k = [f EXCEPT !.frame = g]
    BY <1>4, <2>1 DEF Kept
  <2> HIDE DEF g, k
  <2>3. /\ k \in FramerType /\ k.frame = g /\ k.square = f.square /\ k.curly = f.curly
        /\ k.inString = f.inString /\ k.escaped = f.escaped /\ k.discarding = f.discarding
    BY <1>1, <2>2 DEF FramerType
  <2> QED BY <1>1, <1>2, <1>4, <2>3 DEF Tracks, g, k
<1> QED BY <1>3, <1>4

\* In a string: the two booleans follow the quotes and the backslashes, and
\* brackets do not count.
LEMMA InStringTracks ==
    ASSUME NEW f \in FramerType, NEW a, NEW o, NEW b \in Byte, NEW q \in {"yes", "escape"},
           Tracks(f, a, o, q)
    PROVE  LET q2 == IF q = "escape" THEN "yes"
                     ELSE IF b = "backslash" THEN "escape" ELSE IF b = "quote" THEN "no" ELSE "yes"
           IN  InString(f, b) \in FramerType /\ Tracks(InString(f, b), a, o, q2)
<1>1. CASE q = "escape"
  <2>1. f.escaped
    BY <1>1 DEF Tracks
  <2>2. InString(f, b) = [f EXCEPT !.escaped = FALSE]
    BY <2>1 DEF InString
  <2> QED BY <1>1, <2>2 DEF Tracks, FramerType
<1>2. CASE q = "yes" /\ b = "backslash"
  <2>1. ~f.escaped
    BY <1>2 DEF Tracks
  <2>2. InString(f, b) = [f EXCEPT !.escaped = TRUE]
    BY <1>2, <2>1 DEF InString
  <2> QED BY <1>2, <2>2 DEF Tracks, FramerType
<1>3. CASE q = "yes" /\ b = "quote"
  <2>1. ~f.escaped
    BY <1>3 DEF Tracks
  <2>2. InString(f, b) = [f EXCEPT !.inString = FALSE]
    BY <1>3, <2>1 DEF InString
  <2> QED BY <1>3, <2>1, <2>2 DEF Tracks, FramerType
<1>4. CASE q = "yes" /\ b \notin {"quote", "backslash"}
  <2>1. ~f.escaped
    BY <1>4 DEF Tracks
  <2>2. InString(f, b) = f
    BY <1>4, <2>1 DEF InString
  <2> QED BY <1>4, <2>2 DEF Tracks
<1> QED BY <1>1, <1>2, <1>3, <1>4

\* nvtop closes the bracket it opened last.
Matches(o, b) == b \in {"]", "}"} => Last(o) = Closes[b]

\* A counter is changed and nothing else.
LEMMA CounterUpdate ==
    ASSUME NEW f \in FramerType, NEW n \in Nat
    PROVE  LET s == [f EXCEPT !.square = n]
               c == [f EXCEPT !.curly = n]
           IN  /\ s \in FramerType /\ s.square = n /\ s.curly = f.curly /\ s.frame = f.frame
               /\ s.inString = f.inString /\ s.escaped = f.escaped /\ s.discarding = f.discarding
               /\ c \in FramerType /\ c.square = f.square /\ c.curly = n /\ c.frame = f.frame
               /\ c.inString = f.inString /\ c.escaped = f.escaped /\ c.discarding = f.discarding
BY DEF FramerType

\* Outside of strings: the counters follow the stack.
LEMMA CountedTracks ==
    ASSUME NEW f \in FramerType, NEW a, NEW o \in Seq(Bracket), NEW b \in Byte \ {"quote", "backslash"},
           Tracks(f, a, o, "no"), o # <<>>,
           Matches(o, b)
    PROVE  LET o2 == IF b \in {"[", "{"} THEN Append(o, b) ELSE IF b \in {"]", "}"} THEN Front(o) ELSE o
           IN  Counted(f, b) \in FramerType /\ o2 \in Seq(Bracket) /\ Tracks(Counted(f, b), a, o2, "no")
<1>1. CASE b = "["
  <2> DEFINE c == Counted(f, b)
             s == Append(o, b)
             n == f.square + 1
  <2>1. f.square \in Nat
    BY DEF FramerType
  <2>2. n \in Nat
    BY <2>1
  <2>3. c = [f EXCEPT !.square = n]
    BY <1>1 DEF Counted
  <2>4. s \in Seq(Bracket) /\ Opens(s, "[") = n /\ Opens(s, "{") = f.curly
    BY <1>1, OpensAppend DEF Tracks, Bracket
  <2> HIDE DEF c, s, n
  <2>5. /\ c \in FramerType /\ c.square = n /\ c.curly = f.curly /\ c.frame = f.frame
        /\ c.inString = f.inString /\ c.escaped = f.escaped /\ c.discarding = f.discarding
    BY <2>2, <2>3, CounterUpdate
  <2>6. c \in FramerType /\ Tracks(c, a, s, "no")
    BY <2>5, <2>4 DEF Tracks
  <2> QED BY <1>1, <2>4, <2>6 DEF c, s
<1>2. CASE b = "{"
  <2> DEFINE c == Counted(f, b)
             s == Append(o, b)
             n == f.curly + 1
  <2>1. f.curly \in Nat
    BY DEF FramerType
  <2>2. n \in Nat
    BY <2>1
  <2>3. c = [f EXCEPT !.curly = n]
    BY <1>2 DEF Counted
  <2>4. s \in Seq(Bracket) /\ Opens(s, "{") = n /\ Opens(s, "[") = f.square
    BY <1>2, OpensAppend DEF Tracks, Bracket
  <2> HIDE DEF c, s, n
  <2>5. /\ c \in FramerType /\ c.curly = n /\ c.square = f.square /\ c.frame = f.frame
        /\ c.inString = f.inString /\ c.escaped = f.escaped /\ c.discarding = f.discarding
    BY <2>2, <2>3, CounterUpdate
  <2>6. c \in FramerType /\ Tracks(c, a, s, "no")
    BY <2>5, <2>4 DEF Tracks
  <2> QED BY <1>2, <2>4, <2>6 DEF c, s
<1>3. CASE b = "]"
  <2> DEFINE c == Counted(f, b)
             s == Front(o)
             m == f.square
  <2>1. Last(o) = "[" /\ m \in Nat
    BY <1>3 DEF FramerType, Matches, Closes
  <2>2. s \in Seq(Bracket) /\ Opens(s, "[") = m - 1 /\ m > 0 /\ Opens(s, "{") = f.curly
    BY <2>1, OpensFront DEF Tracks, Bracket
  <2>3. c = [f EXCEPT !.square = m - 1]
    BY <1>3, <2>2 DEF Counted, Less
  <2> HIDE DEF c, s, m
  <2>4. m - 1 \in Nat
    <3>1. m \in Nat /\ m > 0
      BY <2>1, <2>2
    <3> QED BY <3>1
  <2>5. /\ c \in FramerType /\ c.square = m - 1 /\ c.curly = f.curly /\ c.frame = f.frame
        /\ c.inString = f.inString /\ c.escaped = f.escaped /\ c.discarding = f.discarding
    BY <2>4, <2>3, CounterUpdate
  <2>6. c \in FramerType /\ Tracks(c, a, s, "no")
    BY <2>5, <2>2 DEF Tracks
  <2> QED BY <1>3, <2>2, <2>6 DEF c, s
<1>4. CASE b = "}"
  <2> DEFINE c == Counted(f, b)
             s == Front(o)
             m == f.curly
  <2>1. Last(o) = "{" /\ m \in Nat
    BY <1>4 DEF FramerType, Matches, Closes
  <2>2. s \in Seq(Bracket) /\ Opens(s, "{") = m - 1 /\ m > 0 /\ Opens(s, "[") = f.square
    BY <2>1, OpensFront DEF Tracks, Bracket
  <2>3. c = [f EXCEPT !.curly = m - 1]
    BY <1>4, <2>2 DEF Counted, Less
  <2> HIDE DEF c, s, m
  <2>4. m - 1 \in Nat
    <3>1. m \in Nat /\ m > 0
      BY <2>1, <2>2
    <3> QED BY <3>1
  <2>5. /\ c \in FramerType /\ c.curly = m - 1 /\ c.square = f.square /\ c.frame = f.frame
        /\ c.inString = f.inString /\ c.escaped = f.escaped /\ c.discarding = f.discarding
    BY <2>4, <2>3, CounterUpdate
  <2>6. c \in FramerType /\ Tracks(c, a, s, "no")
    BY <2>5, <2>2 DEF Tracks
  <2> QED BY <1>4, <2>2, <2>6 DEF c, s
<1>5. CASE b \notin {"[", "{", "]", "}"}
  <2>1. Counted(f, b) = f
    BY <1>5 DEF Counted
  <2> QED BY <1>5, <2>1
<1> QED BY <1>1, <1>2, <1>3, <1>4, <1>5

\* A frame is completed exactly when the stack is empty, and it is the array
\* unless the array is longer than the limit.
LEMMA CompletedTracks ==
    ASSUME NEW f \in FramerType, NEW a \in Seq(Byte), NEW o \in Seq(Bracket), Tracks(f, a, o, "no")
    PROVE  LET r == Completed(Limited(f)) IN
           /\ o = <<>> => /\ r.framer = NewFramer
                          /\ r.frames = IF Len(a) <= MaxFrame THEN <<a>> ELSE <<>>
           /\ o # <<>> => /\ r.framer \in FramerType /\ Tracks(r.framer, a, o, "no")
                          /\ r.frames = <<>>
<1> DEFINE l == Limited(f)
<1>1. Len(a) \in Nat /\ MaxFrame \in Nat
  BY FramerAssumption
<1>2. /\ l \in FramerType /\ Tracks(l, a, o, "no")
      /\ l.discarding <=> Len(a) > MaxFrame
  <2>1. CASE ~f.discarding /\ Len(f.frame) > MaxFrame
    <3>1. l = [f EXCEPT !.frame = <<>>, !.discarding = TRUE]
      BY <2>1 DEF Limited
    <3>2. Len(a) > MaxFrame
      BY <2>1 DEF Tracks
    <3>3. <<>> \in Seq(Byte)
      OBVIOUS
    <3> QED BY <3>1, <3>2, <3>3 DEF Tracks, FramerType
  <2>2. CASE f.discarding
    <3>1. l = f
      BY <2>2 DEF Limited
    <3> QED BY <2>2, <3>1 DEF Tracks
  <2>3. CASE ~f.discarding /\ ~(Len(f.frame) > MaxFrame)
    <3>1. l = f
      BY <2>3 DEF Limited
    <3> QED BY <1>1, <2>3, <3>1 DEF Tracks
  <2> QED BY <2>1, <2>2, <2>3
<1> HIDE DEF l
<1>3. CASE o = <<>>
  <2>1. l.square = 0 /\ l.curly = 0
    BY <1>2, <1>3, OpensEmpty DEF Tracks
  <2>2. Completed(l) = [framer |-> NewFramer, frames |-> IF l.discarding THEN <<>> ELSE <<l.frame>>]
    BY <2>1 DEF Completed
  <2>3. ~l.discarding => l.frame = a
    BY <1>2 DEF Tracks
  <2>4. l.discarding <=> ~(Len(a) <= MaxFrame)
    BY <1>1, <1>2
  <2>5. Completed(l).framer = NewFramer /\ Completed(l).frames = IF Len(a) <= MaxFrame THEN <<a>> ELSE <<>>
    BY <2>2, <2>3, <2>4
  <2> QED BY <1>3, <2>5 DEF l
<1>4. CASE o # <<>>
  <2>1. ~(l.square = 0 /\ l.curly = 0)
    BY <1>2, <1>4, OpensEmpty DEF Tracks
  <2>2. Completed(l) = [framer |-> l, frames |-> <<>>]
    BY <2>1 DEF Completed
  <2> QED BY <1>2, <1>4, <2>2 DEF l
<1> QED BY <1>3, <1>4

\* Inside a string Framer.Next keeps every byte and ends no frame.
LEMMA ReadInString ==
    ASSUME NEW f, NEW b, ~Between(f), f.inString
    PROVE  ReadByte(f, b) = [framer |-> InString(Kept(f, b), b), frames |-> <<>>]
BY DEF ReadByte, Goes

\* The Framer as it is made.
LEMMA NewFramerType ==
    /\ NewFramer \in FramerType /\ NewFramer.frame = <<>> /\ NewFramer.square = 0
    /\ NewFramer.curly = 0 /\ NewFramer.inString = FALSE /\ NewFramer.escaped = FALSE
    /\ NewFramer.discarding = FALSE
BY DEF NewFramer, FramerType

\* One byte within an array.
LEMMA ReadWithinArray ==
    ASSUME FramerInv, open # <<>>, NEW b \in Printable
    PROVE  LET read  == ReadByte(framer, b)
               grown == Append(array, b)
           IN  /\ b \in Byte
               /\ Opened(b) = <<>> => /\ read.framer = NewFramer /\ Quoted(b) = "no"
                                      /\ read.frames = IF Len(grown) <= MaxFrame THEN <<grown>> ELSE <<>>
               /\ Opened(b) # <<>> => /\ Follows(read.framer, grown, Opened(b), Quoted(b))
                                      /\ read.frames = <<>>
<1> DEFINE k == Kept(framer, b)
           grown == Append(array, b)
           read == ReadByte(framer, b)
<1>1. /\ framer \in FramerType /\ array \in Seq(Byte) /\ open \in Seq(Bracket)
      /\ quoted \in {"no", "yes", "escape"} /\ Tracks(framer, array, open, quoted)
  BY DEF FramerInv, Follows
<1>2. b \in Byte
  BY DEF Printable, Byte, Closes
<1>3. k \in FramerType /\ grown \in Seq(Byte) /\ Tracks(k, grown, open, quoted) /\ ~Between(framer)
  BY <1>1, <1>2, KeptTracks
<1>4. framer.inString <=> quoted # "no"
  BY <1>1 DEF Tracks
<1> HIDE DEF k, grown
<1>5. CASE quoted # "no"
  <2> DEFINE i == InString(k, b)
  <2>1. read = [framer |-> i, frames |-> <<>>]
    <3>1. framer.inString
      BY <1>4, <1>5
    <3> QED BY <1>3, <3>1, ReadInString, Zenon DEF k
  <2>2. Opened(b) = open
    BY <1>5 DEF Opened
  <2>3. Quoted(b) = IF quoted = "escape" THEN "yes"
                    ELSE IF b = "backslash" THEN "escape" ELSE IF b = "quote" THEN "no" ELSE "yes"
    BY <1>1, <1>5 DEF Quoted
  <2>4. quoted \in {"yes", "escape"}
    BY <1>1, <1>5
  <2>5. i \in FramerType /\ Tracks(i, grown, open, Quoted(b))
    BY <1>2, <1>3, <2>3, <2>4, InStringTracks
  <2>6. Quoted(b) \in {"no", "yes", "escape"}
    BY <2>3
  <2> HIDE DEF i, read
  <2>7. Follows(i, grown, open, Quoted(b))
    BY <1>1, <1>3, <2>5, <2>6 DEF Follows
  <2> QED BY <1>2, <2>1, <2>2, <2>7 DEF read, grown
<1>6. CASE quoted = "no" /\ b = "quote"
  <2> DEFINE i == [k EXCEPT !.inString = TRUE]
  <2>1. read = [framer |-> i, frames |-> <<>>]
    BY <1>3, <1>4, <1>6 DEF ReadByte, Goes, k
  <2>2. Opened(b) = open /\ Quoted(b) = "yes"
    BY <1>6 DEF Opened, Quoted
  <2>3. /\ i \in FramerType /\ i.square = k.square /\ i.curly = k.curly /\ i.frame = k.frame
        /\ i.inString = TRUE /\ i.escaped = k.escaped /\ i.discarding = k.discarding
    BY <1>3 DEF FramerType
  <2> HIDE DEF i, read
  <2>4. Tracks(i, grown, open, "yes")
    BY <1>3, <1>6, <2>3 DEF Tracks
  <2>5. Follows(i, grown, open, "yes")
    BY <1>1, <1>3, <2>3, <2>4 DEF Follows
  <2> QED BY <1>2, <2>1, <2>2, <2>5 DEF read, grown
<1>7. CASE quoted = "no" /\ b # "quote"
  <2> DEFINE c == Counted(k, b)
             r == Completed(Limited(c))
  <2>1. read = r
    BY <1>3, <1>4, <1>7 DEF ReadByte, k
  <2>2. b \in Byte \ {"quote", "backslash"} /\ Matches(open, b)
    BY <1>2, <1>7 DEF Printable, Matches, Closes
  <2>3. /\ Quoted(b) = "no"
        /\ Opened(b) = IF b \in {"[", "{"} THEN Append(open, b)
                       ELSE IF b \in {"]", "}"} THEN Front(open) ELSE open
    BY <1>7 DEF Quoted, Opened
  <2> DEFINE o2 == IF b \in {"[", "{"} THEN Append(open, b)
                   ELSE IF b \in {"]", "}"} THEN Front(open) ELSE open
  <2>4a. Tracks(k, grown, open, "no")
    BY <1>3, <1>7
  <2>4b. c \in FramerType /\ o2 \in Seq(Bracket) /\ Tracks(c, grown, o2, "no")
    BY <1>1, <1>3, <2>2, <2>4a, CountedTracks
  <2>4. c \in FramerType /\ Opened(b) \in Seq(Bracket) /\ Tracks(c, grown, Opened(b), "no")
    BY <2>3, <2>4b
  <2> HIDE DEF c, read
  <2>5. /\ Opened(b) = <<>> => /\ r.framer = NewFramer
                               /\ r.frames = IF Len(grown) <= MaxFrame THEN <<grown>> ELSE <<>>
        /\ Opened(b) # <<>> => /\ r.framer \in FramerType /\ Tracks(r.framer, grown, Opened(b), "no")
                               /\ r.frames = <<>>
    BY <1>3, <2>4, CompletedTracks
  <2> HIDE DEF r
  <2>6. Opened(b) # <<>> => Follows(r.framer, grown, Opened(b), "no")
    BY <1>3, <2>4, <2>5 DEF Follows
  <2> QED BY <1>2, <2>1, <2>3, <2>5, <2>6 DEF read, grown
<1> QED BY <1>5, <1>6, <1>7

\* One byte between two arrays: noise, or the bracket that opens an array.
LEMMA ReadBetweenArrays ==
    ASSUME FramerInv, open = <<>>, NEW b \in Printable
    PROVE  /\ b \in Byte
           /\ b # "[" => ReadByte(framer, b) = [framer |-> framer, frames |-> <<>>]
           /\ b = "[" => LET read == ReadByte(framer, b) IN
                         /\ Opened(b) = <<b>> /\ Quoted(b) = "no"
                         /\ Follows(read.framer, <<b>>, <<b>>, "no") /\ read.frames = <<>>
<1>1. array = <<>> /\ quoted = "no" /\ framer = NewFramer
  BY DEF FramerInv, Follows
<1>2. b \in Byte
  BY <1>1 DEF Printable
<1>3. Between(framer)
  BY <1>1 DEF Between, NewFramer
<1>4. b # "[" => ReadByte(framer, b) = [framer |-> framer, frames |-> <<>>]
  BY <1>3 DEF ReadByte, Goes
<1>5. ASSUME b = "["
      PROVE  LET read == ReadByte(framer, b) IN
             /\ Opened(b) = <<b>> /\ Quoted(b) = "no"
             /\ Follows(read.framer, <<b>>, <<b>>, "no") /\ read.frames = <<>>
  <2> DEFINE f == [NewFramer EXCEPT !.frame = <<b>>, !.square = 1]
  <2>1. ReadByte(framer, b) = [framer |-> f, frames |-> <<>>]
    BY <1>3, <1>5 DEF ReadByte, Goes
  <2>2. Opened(b) = <<b>> /\ Quoted(b) = "no"
    BY <1>1, <1>5 DEF Opened, Quoted
  <2>3. /\ f \in FramerType /\ f.frame = <<b>> /\ f.square = 1 /\ f.curly = 0
        /\ f.inString = FALSE /\ f.escaped = FALSE /\ f.discarding = FALSE
    <3>1. <<b>> \in Seq(Byte)
      BY <1>2
    <3> QED BY <3>1, NewFramerType DEF FramerType
  <2> HIDE DEF f
  <2>4. <<>> \in Seq(Bracket) /\ Opens(<<>>, "[") = 0 /\ Opens(<<>>, "{") = 0
    <3>1. <<>> \in Seq(Bracket)
      OBVIOUS
    <3> QED BY <3>1, OpensEmpty
  <2>5. <<b>> \in Seq(Bracket) /\ Opens(<<b>>, "[") = 1 /\ Opens(<<b>>, "{") = 0
    <3>1. Append(<<>>, b) = <<b>>
      OBVIOUS
    <3>2. b \in Bracket /\ "{" \in Bracket \ {b}
      BY <1>5 DEF Bracket
    <3>3. /\ Append(<<>>, b) \in Seq(Bracket)
          /\ Opens(Append(<<>>, b), b) = Opens(<<>>, b) + 1
          /\ \A c \in Bracket \ {b} : Opens(Append(<<>>, b), c) = Opens(<<>>, c)
      BY <2>4, <3>2, OpensAppend
    <3>4. Opens(<<b>>, b) = Opens(<<>>, b) + 1 /\ Opens(<<b>>, "{") = Opens(<<>>, "{")
      BY <3>1, <3>2, <3>3
    <3>5. Opens(<<>>, b) = 0 /\ Opens(<<>>, "{") = 0
      BY <1>5, <2>4
    <3>6. Opens(<<b>>, b) = 1 /\ Opens(<<b>>, "{") = 0
      <4> DEFINE x == Opens(<<b>>, b)
                 y == Opens(<<>>, b)
      <4>1. x = y + 1 /\ y = 0 /\ Opens(<<b>>, "{") = 0
        BY <3>4, <3>5
      <4> HIDE DEF x, y
      <4>2. x = 0 + 1
        BY <4>1, Zenon
      <4>3. x = 1
        BY <4>2
      <4> QED BY <4>1, <4>3 DEF x
    <3> QED BY <1>5, <3>1, <3>3, <3>6
  <2>6. <<b>> \in Seq(Byte) /\ <<b>> # <<>>
    BY <1>2
  <2>7. Tracks(f, <<b>>, <<b>>, "no")
    BY <2>3, <2>5, <2>6 DEF Tracks
  <2>8. Follows(f, <<b>>, <<b>>, "no")
    BY <2>3, <2>5, <2>6, <2>7 DEF Follows
  <2> QED BY <2>1, <2>2, <2>8
<1> QED BY <1>2, <1>4, <1>5

\* The framer that is made with the child follows it: nothing is printed yet.
LEMMA NewFollows == Follows(NewFramer, <<>>, <<>>, "no")
<1>1. NewFramer \in FramerType
  BY NewFramerType
<1> QED BY <1>1 DEF Follows

\* Every byte nvtop prints and every byte the framer reads keeps the framer's
\* counters in step with the brackets.
LEMMA FramerInvNext ==
    ASSUME FramerInv, [TelemetryNext]_telemetryVars
    PROVE  FramerInv'
<1>1. CASE PrintByte
  <2>1. PICK b \in Printable :
          LET noise == open = <<>> /\ b # "["
              grown == Append(array, b)
              ends  == ~noise /\ Opened(b) = <<>>
          IN  /\ IF noise THEN UNCHANGED printer
                 ELSE /\ array' = IF ends THEN <<>> ELSE grown
                      /\ open' = Opened(b) /\ quoted' = Quoted(b)
              /\ expected' = IF ends /\ Len(grown) <= MaxFrame THEN <<grown>> ELSE <<>>
              /\ LET read == ReadByte(framer, b)
                 IN  framer' = read.framer /\ frames' = read.frames
    BY <1>1 DEF PrintByte
  <2> DEFINE grown == Append(array, b)
  <2>2. CASE open = <<>> /\ b # "["
    <3>1. ReadByte(framer, b) = [framer |-> framer, frames |-> <<>>]
      BY <2>2, ReadBetweenArrays
    <3>2. UNCHANGED printer /\ expected' = <<>> /\ framer' = framer /\ frames' = <<>>
      BY <2>1, <2>2, <3>1
    <3> QED BY <3>2 DEF FramerInv, FramesMatch, printer
  <2>3. CASE open = <<>> /\ b = "["
    <3>1. /\ Opened(b) = <<b>> /\ Quoted(b) = "no"
          /\ Follows(ReadByte(framer, b).framer, <<b>>, <<b>>, "no")
          /\ ReadByte(framer, b).frames = <<>>
      BY <2>3, ReadBetweenArrays
    <3>2. array = <<>> /\ Append(array, b) = <<b>>
      BY <2>3 DEF FramerInv, Follows
    <3>3. array' = <<b>> /\ open' = <<b>> /\ quoted' = "no" /\ expected' = <<>>
      BY <2>1, <2>3, <3>1, <3>2
    <3>4. framer' = ReadByte(framer, b).framer /\ frames' = <<>>
      BY <2>1, <3>1
    <3> QED BY <3>1, <3>3, <3>4 DEF FramerInv, FramesMatch
  <2>4. CASE open # <<>> /\ Opened(b) = <<>>
    <3>1. /\ ReadByte(framer, b).framer = NewFramer /\ Quoted(b) = "no"
          /\ ReadByte(framer, b).frames = IF Len(grown) <= MaxFrame THEN <<grown>> ELSE <<>>
      BY <2>4, ReadWithinArray
    <3>2. array' = <<>> /\ open' = <<>> /\ quoted' = "no"
          /\ expected' = IF Len(grown) <= MaxFrame THEN <<grown>> ELSE <<>>
      BY <2>1, <2>4, <3>1
    <3>3. framer' = NewFramer /\ frames' = expected'
      BY <2>1, <3>1, <3>2
    <3> QED BY <3>2, <3>3, NewFollows DEF FramerInv, FramesMatch
  <2>5. CASE open # <<>> /\ Opened(b) # <<>>
    <3>1. /\ Follows(ReadByte(framer, b).framer, grown, Opened(b), Quoted(b))
          /\ ReadByte(framer, b).frames = <<>>
      BY <2>5, ReadWithinArray
    <3>2. array' = grown /\ open' = Opened(b) /\ quoted' = Quoted(b) /\ expected' = <<>>
      BY <2>1, <2>5
    <3>3. framer' = ReadByte(framer, b).framer /\ frames' = <<>>
      BY <2>1, <3>1
    <3> QED BY <3>1, <3>2, <3>3 DEF FramerInv, FramesMatch
  <2> QED BY <2>2, <2>3, <2>4, <2>5
<1>2. CASE Restart
  <2>1. /\ array' = <<>> /\ open' = <<>> /\ quoted' = "no" /\ framer' = NewFramer
        /\ frames' = <<>> /\ expected' = <<>>
    BY <1>2 DEF Restart
  <2> QED BY <2>1, NewFollows DEF FramerInv, FramesMatch
<1>3. CASE Accept \/ Refuse
  BY <1>3 DEF Accept, Refuse, printer, FramerInv, FramesMatch
<1>4. CASE StatusRead \/ StatusWrite \/ UNCHANGED telemetryVars
  BY <1>4 DEF StatusRead, StatusWrite, telemetryVars, printer, reader, FramerInv, FramesMatch
<1> QED BY <1>1, <1>2, <1>3, <1>4 DEF TelemetryNext

\* The Framer finds every array nvtop prints and nothing else, however long
\* the arrays, the strings and the noise are, whatever the limit of a frame,
\* and wherever a child dies.
THEOREM FramerFindsArrays == TelemetrySpec => []FramesMatch
<1>1. TelemetryInit => FramerInv
  BY NewFollows DEF TelemetryInit, FramerInv, FramesMatch
<1>2. FramerInv /\ [TelemetryNext]_telemetryVars => FramerInv'
  BY FramerInvNext
<1>3. FramerInv => FramesMatch
  BY DEF FramerInv
<1> QED BY <1>1, <1>2, <1>3, PTL DEF TelemetrySpec

-----------------------------------------------------------------------------
(* The parser                                                              *)

Scanner == [inString : BOOLEAN, escaped : BOOLEAN]

\* Where the scanner of sanitizeFrame is after each byte of an array that has
\* come to place q of a string; no byte it would escape follows a backslash.
Scanned(a, q, at) ==
    /\ a \in Seq(Byte)
    /\ at \in [0 .. Len(a) -> Scanner]
    /\ at[0] = Outside
    /\ \A i \in 1 .. Len(a) : at[i] = Scan(at[i - 1], a[i])
    /\ \A i \in 1 .. Len(a) : a[i] = "control" => ~at[i - 1].escaped
    /\ at[Len(a)].inString <=> q # "no"
    /\ at[Len(a)].escaped <=> q = "escape"

\* The frames that are handed to Parse are such arrays.
ParserInv ==
    /\ FramerInv
    /\ \E at : Scanned(array, quoted, at)
    /\ frames # <<>> => \E at : Scanned(frames[1], "no", at)

\* The scanner follows the quotes and backslashes nvtop prints.
LEMMA ScanFollows ==
    ASSUME NEW at \in Scanner, quoted \in {"no", "yes", "escape"}, NEW b \in Byte,
           at.inString <=> quoted # "no", at.escaped <=> quoted = "escape"
    PROVE  /\ Scan(at, b) \in Scanner
           /\ Scan(at, b).inString <=> Quoted(b) # "no"
           /\ Scan(at, b).escaped <=> Quoted(b) = "escape"
<1>1. CASE quoted = "escape"
  <2>1. at.inString /\ at.escaped /\ Quoted(b) = "yes"
    BY <1>1 DEF Quoted
  <2>2. Scan(at, b) = [at EXCEPT !.escaped = FALSE]
    BY <2>1 DEF Scan
  <2> QED BY <2>1, <2>2 DEF Scanner
<1>2. CASE quoted = "yes" /\ b = "backslash"
  <2>1. at.inString /\ ~at.escaped /\ Quoted(b) = "escape"
    BY <1>2 DEF Quoted
  <2>2. Scan(at, b) = [at EXCEPT !.escaped = TRUE]
    BY <1>2, <2>1 DEF Scan
  <2> QED BY <2>1, <2>2 DEF Scanner
<1>3. CASE quoted = "yes" /\ b = "quote"
  <2>1. at.inString /\ ~at.escaped /\ Quoted(b) = "no"
    BY <1>3 DEF Quoted
  <2>2. Scan(at, b) = [at EXCEPT !.inString = FALSE]
    BY <1>3, <2>1 DEF Scan, Scanner
  <2> QED BY <2>1, <2>2 DEF Scanner
<1>4. CASE quoted = "yes" /\ b \notin {"backslash", "quote"}
  <2>1. at.inString /\ ~at.escaped /\ Quoted(b) = "yes"
    BY <1>4 DEF Quoted
  <2>2. Scan(at, b) = at
    BY <1>4, <2>1 DEF Scan
  <2> QED BY <2>1, <2>2
<1>5. CASE quoted = "no" /\ b = "quote"
  <2>1. ~at.inString /\ ~at.escaped /\ Quoted(b) = "yes"
    BY <1>5 DEF Quoted
  <2>2. Scan(at, b) = [at EXCEPT !.inString = TRUE]
    BY <1>5, <2>1 DEF Scan, Scanner
  <2> QED BY <2>1, <2>2 DEF Scanner
<1>6. CASE quoted = "no" /\ b # "quote"
  <2>1. ~at.inString /\ ~at.escaped /\ Quoted(b) = "no"
    BY <1>6 DEF Quoted
  <2>2. Scan(at, b) = at
    BY <1>6, <2>1 DEF Scan
  <2> QED BY <2>1, <2>2
<1> QED BY <1>1, <1>2, <1>3, <1>4, <1>5, <1>6

\* Before the first byte
LEMMA ScannedNothing == \E at : Scanned(<<>>, "no", at)
<1> DEFINE at == [i \in 0 .. 0 |-> Outside]
<1>1. Outside \in Scanner /\ Outside.inString = FALSE /\ Outside.escaped = FALSE
  BY DEF Outside, Scanner
<1>2. at \in [0 .. 0 -> Scanner] /\ at[0] = Outside
  BY <1>1
<1>3. <<>> \in Seq(Byte) /\ Len(<<>>) = 0 /\ 1 .. 0 = {}
  OBVIOUS
<1> HIDE DEF at
<1>4. Scanned(<<>>, "no", at)
  BY <1>1, <1>2, <1>3 DEF Scanned
<1> QED BY <1>4

\* One byte more: nvtop prints no control byte behind a backslash.
LEMMA ScannedByte ==
    ASSUME array \in Seq(Byte), quoted \in {"no", "yes", "escape"}, NEW b \in Byte,
           quoted = "escape" => b # "control", NEW at, Scanned(array, quoted, at)
    PROVE  \E more : Scanned(Append(array, b), Quoted(b), more)
<1> DEFINE n == Len(array)
           grown == Append(array, b)
           now == Scan(at[n], b)
           more == [i \in 0 .. n + 1 |-> IF i = n + 1 THEN now ELSE at[i]]
<1>1. /\ n \in Nat /\ grown \in Seq(Byte) /\ Len(grown) = n + 1 /\ grown[n + 1] = b
      /\ \A i \in 1 .. n : grown[i] = array[i]
  OBVIOUS
<1>2. /\ at \in [0 .. n -> Scanner] /\ at[0] = Outside
      /\ at[n].inString <=> quoted # "no"
      /\ at[n].escaped <=> quoted = "escape"
  BY DEF Scanned
<1>3. \A i \in 1 .. n : at[i] = Scan(at[i - 1], array[i]) /\ (array[i] = "control" => ~at[i - 1].escaped)
  BY DEF Scanned
<1>4. at[n] \in Scanner
  BY <1>1, <1>2
<1>5. /\ now \in Scanner
      /\ now.inString <=> Quoted(b) # "no"
      /\ now.escaped <=> Quoted(b) = "escape"
  BY <1>2, <1>4, ScanFollows
<1> HIDE DEF n, grown
<1>6. \A i \in 0 .. n + 1 : i = n + 1 \/ (i \in 0 .. n /\ i # n + 1)
  BY <1>1
<1>7. /\ n + 1 \in 0 .. n + 1 /\ 0 \in 0 .. n + 1 /\ 0 # n + 1
      /\ \A i \in 0 .. n : i \in 0 .. n + 1 /\ i # n + 1
  BY <1>1
<1>8. more[n + 1] = now /\ \A i \in 0 .. n : more[i] = at[i]
  BY <1>7
<1>9. more \in [0 .. n + 1 -> Scanner]
  BY <1>2, <1>5, <1>6
<1>10. more[0] = Outside
  BY <1>1, <1>2, <1>8
<1> HIDE DEF more
<1>11. ASSUME NEW i \in 1 .. n + 1
       PROVE  more[i] = Scan(more[i - 1], grown[i]) /\ (grown[i] = "control" => ~more[i - 1].escaped)
  <2>1. CASE i = n + 1
    <3>1. i - 1 = n /\ n \in 0 .. n
      BY <1>1, <2>1
    <3>2. more[i - 1] = at[n] /\ more[i] = now /\ grown[i] = b
      BY <1>1, <1>8, <2>1, <3>1
    <3>3. b = "control" => ~at[n].escaped
      BY <1>2
    <3> QED BY <3>2, <3>3 DEF n
  <2>2. CASE i \in 1 .. n
    <3>1. more[i] = at[i] /\ more[i - 1] = at[i - 1] /\ grown[i] = array[i]
      BY <1>1, <1>8, <2>2
    <3> QED BY <1>3, <2>2, <3>1
  <2> QED BY <1>1, <2>1, <2>2
<1>12. Scanned(grown, Quoted(b), more)
  BY <1>1, <1>5, <1>8, <1>9, <1>10, <1>11 DEF Scanned
<1> QED BY <1>12 DEF grown

\* The two walks over a frame, as sanitizeFrame and ControlInString define them.
IsCleaned(frame, done) ==
    done = [i \in 0 .. Len(frame) |->
              IF i = 0 THEN [out |-> <<>>, at |-> Outside] ELSE Sanitized(done[i - 1], frame[i])]

IsScan(frame, at) ==
    at = [i \in 0 .. Len(frame) |-> IF i = 0 THEN Outside ELSE Scan(at[i - 1], frame[i])]

\* There is one walk of each kind: two would differ first somewhere.
LEMMA OneCleaning ==
    ASSUME NEW frame, Len(frame) \in Nat, NEW f, NEW g, IsCleaned(frame, f), IsCleaned(frame, g)
    PROVE  \A i \in 0 .. Len(frame) : f[i] = g[i]
<1> DEFINE n == Len(frame)
           differ == {i \in 0 .. n : f[i] # g[i]}
<1>1. \A i \in 0 .. n : f[i] = IF i = 0 THEN [out |-> <<>>, at |-> Outside] ELSE Sanitized(f[i - 1], frame[i])
  BY DEF IsCleaned
<1>2. \A i \in 0 .. n : g[i] = IF i = 0 THEN [out |-> <<>>, at |-> Outside] ELSE Sanitized(g[i - 1], frame[i])
  BY DEF IsCleaned
<1> HIDE DEF n
<1>3. differ = {}
  <2> SUFFICES ASSUME differ # {} PROVE FALSE
    OBVIOUS
  <2>1. differ \in SUBSET Nat
    BY DEF n
  <2>2. PICK i \in differ : \A j \in differ : i <= j
    BY <2>1, LeastNumber
  <2>3. i \in 0 .. n /\ f[i] # g[i] /\ n \in Nat
    BY <2>2 DEF n
  <2>4. i # 0
    BY <1>1, <1>2, <2>3
  <2>5. i - 1 \in 0 .. n /\ i - 1 \notin differ
    BY <2>2, <2>3, <2>4
  <2>6. f[i - 1] = g[i - 1]
    BY <2>5
  <2> QED BY <1>1, <1>2, <2>3, <2>4, <2>6
<1> QED BY <1>3 DEF n

LEMMA OneScan ==
    ASSUME NEW frame, Len(frame) \in Nat, NEW f, NEW g, IsScan(frame, f), IsScan(frame, g)
    PROVE  \A i \in 0 .. Len(frame) : f[i] = g[i]
<1> DEFINE n == Len(frame)
           differ == {i \in 0 .. n : f[i] # g[i]}
<1>1. \A i \in 0 .. n : f[i] = IF i = 0 THEN Outside ELSE Scan(f[i - 1], frame[i])
  BY DEF IsScan
<1>2. \A i \in 0 .. n : g[i] = IF i = 0 THEN Outside ELSE Scan(g[i - 1], frame[i])
  BY DEF IsScan
<1> HIDE DEF n
<1>3. differ = {}
  <2> SUFFICES ASSUME differ # {} PROVE FALSE
    OBVIOUS
  <2>1. differ \in SUBSET Nat
    BY DEF n
  <2>2. PICK i \in differ : \A j \in differ : i <= j
    BY <2>1, LeastNumber
  <2>3. i \in 0 .. n /\ f[i] # g[i] /\ n \in Nat
    BY <2>2 DEF n
  <2>4. i # 0
    BY <1>1, <1>2, <2>3
  <2>5. i - 1 \in 0 .. n /\ i - 1 \notin differ
    BY <2>2, <2>3, <2>4
  <2>6. f[i - 1] = g[i - 1]
    BY <2>5
  <2> QED BY <1>1, <1>2, <2>3, <2>4, <2>6
<1> QED BY <1>3 DEF n

\* A control byte in a string, not behind a backslash, leaves the scanner where it
\* is, and so does the escape that replaces it.
LEMMA ScanUnicode ==
    ASSUME NEW at \in Scanner, ~at.escaped
    PROVE  Scan(at, "control") = at /\ Scan(at, "unicode") = at
BY DEF Scan

\* What sanitizeFrame makes of an array
LEMMA CleanedArray ==
    ASSUME NEW a \in Seq(Byte), NEW q, NEW at, Scanned(a, q, at)
    PROVE  sanitizeFrame(a) =
             [i \in 1 .. Len(a) |->
                IF at[i - 1].inString /\ a[i] = "control" THEN "unicode" ELSE a[i]]
<1> DEFINE n == Len(a)
           Byte1(i) == IF at[i - 1].inString /\ a[i] = "control" THEN "unicode" ELSE a[i]
           Out(i) == [j \in 1 .. i |-> Byte1(j)]
           f == [i \in 0 .. n |-> [out |-> Out(i), at |-> at[i]]]
           made == CHOOSE done : IsCleaned(a, done)
           all == Byte \cup {"unicode"}
<1>1. n \in Nat /\ \A i \in 1 .. n : a[i] \in Byte
  OBVIOUS
<1>2. /\ at[0] = Outside /\ at \in [0 .. n -> Scanner]
      /\ \A i \in 1 .. n : at[i] = Scan(at[i - 1], a[i]) /\ (a[i] = "control" => ~at[i - 1].escaped)
  BY DEF Scanned
<1> HIDE DEF n
<1>3. \A i \in 1 .. n : Byte1(i) \in all
  BY <1>1
<1> HIDE DEF Byte1, all
<1>4. Out(0) = <<>>
  OBVIOUS
<1>5. ASSUME NEW i \in 1 .. n
      PROVE  Out(i) = Append(Out(i - 1), Byte1(i))
  <2> DEFINE s == Out(i - 1)
             t == Out(i)
  <2>1. s \in Seq(all) /\ Len(s) = i - 1 /\ \A j \in 1 .. i - 1 : s[j] = Byte1(j)
    BY <1>1, <1>3
  <2>2. t \in Seq(all) /\ Len(t) = i /\ \A j \in 1 .. i : t[j] = Byte1(j)
    BY <1>1, <1>3
  <2>3. Byte1(i) \in all
    BY <1>3
  <2> HIDE DEF s, t
  <2>4. t = Append(s, Byte1(i))
    BY <1>1, <2>1, <2>2, <2>3
  <2> QED BY <2>4 DEF s, t
<1>6. ASSUME NEW i \in 1 .. n
      PROVE  /\ at[i - 1].inString /\ a[i] = "control" => Byte1(i) = "unicode" /\ at[i] = at[i - 1]
             /\ ~(at[i - 1].inString /\ a[i] = "control") => Byte1(i) = a[i] /\ at[i] = Scan(at[i - 1], a[i])
  <2>1. at[i - 1] \in Scanner
    BY <1>1, <1>2
  <2> QED BY <1>2, <2>1, ScanUnicode DEF Byte1
<1> HIDE DEF Out
<1>7. \A i \in 0 .. n : f[i].out = Out(i) /\ f[i].at = at[i]
  OBVIOUS
<1>8. ASSUME NEW i \in 0 .. n
      PROVE  f[i] = IF i = 0 THEN [out |-> <<>>, at |-> Outside] ELSE Sanitized(f[i - 1], a[i])
  <2>1. f[i] = [out |-> Out(i), at |-> at[i]]
    OBVIOUS
  <2>2. CASE i = 0
    BY <1>2, <1>4, <2>1, <2>2
  <2>3. CASE i # 0
    <3>1. i \in 1 .. n /\ i - 1 \in 0 .. n
      BY <1>1, <2>3
    <3>2. f[i - 1].out = Out(i - 1) /\ f[i - 1].at = at[i - 1]
      BY <1>7, <3>1
    <3> HIDE DEF f
    <3> QED BY <1>5, <1>6, <2>1, <2>3, <3>1, <3>2 DEF Sanitized
  <2> QED BY <2>2, <2>3
<1>9. IsCleaned(a, f)
  <2>1. f = [i \in 0 .. n |-> f[i]]
    OBVIOUS
  <2> HIDE DEF f
  <2>2. [i \in 0 .. n |-> f[i]] =
          [i \in 0 .. n |->
              IF i = 0 THEN [out |-> <<>>, at |-> Outside] ELSE Sanitized(f[i - 1], a[i])]
    BY <1>8, Zenon
  <2> QED BY <2>1, <2>2, Zenon DEF IsCleaned, n
<1>10. IsCleaned(a, made)
  BY <1>9, Zenon
<1>11. sanitizeFrame(a) = made[n].out
  BY DEF sanitizeFrame, IsCleaned, n
<1> HIDE DEF f, made
<1>12. made[n] = f[n]
  <2>1. Len(a) \in Nat /\ Len(a) \in 0 .. Len(a)
    BY <1>1 DEF n
  <2> QED BY <1>9, <1>10, <2>1, OneCleaning DEF n
<1>13. f[n].out = Out(n)
  BY <1>1, <1>7
<1> QED BY <1>11, <1>12, <1>13 DEF Out, Byte1, n

\* Parse accepts such an array: json.Unmarshal, which scans the cleaned bytes, is
\* always where sanitizeFrame was, and sees none of the bytes it does not take.
LEMMA ScannedParses ==
    ASSUME NEW a, NEW q, NEW at, Scanned(a, q, at)
    PROVE  Parses(a)
<1> DEFINE n == Len(a)
           clean == sanitizeFrame(a)
           scan == CHOOSE f : IsScan(clean, f)
<1>1. a \in Seq(Byte) /\ n \in Nat /\ \A i \in 1 .. n : a[i] \in Byte
  BY DEF Scanned
<1>2. /\ at[0] = Outside /\ at \in [0 .. n -> Scanner]
      /\ \A i \in 1 .. n : at[i] = Scan(at[i - 1], a[i]) /\ (a[i] = "control" => ~at[i - 1].escaped)
  BY DEF Scanned
<1>3. clean = [i \in 1 .. n |-> IF at[i - 1].inString /\ a[i] = "control" THEN "unicode" ELSE a[i]]
  BY <1>1, CleanedArray
<1> HIDE DEF n, clean
<1>4. /\ \A i \in 1 .. n : clean[i] = IF at[i - 1].inString /\ a[i] = "control" THEN "unicode" ELSE a[i]
      /\ Len(clean) = n
  BY <1>1, <1>3
<1>5. ASSUME NEW i \in 0 .. n
      PROVE  at[i] = IF i = 0 THEN Outside ELSE Scan(at[i - 1], clean[i])
  <2>1. CASE i = 0
    BY <1>2, <2>1
  <2>2. CASE i \in 1 .. n /\ at[i - 1].inString /\ a[i] = "control"
    <3>1. at[i - 1] \in Scanner /\ ~at[i - 1].escaped
      BY <1>1, <1>2, <2>2
    <3>2. at[i] = at[i - 1] /\ clean[i] = "unicode"
      BY <1>2, <1>4, <2>2, <3>1, ScanUnicode
    <3> QED BY <1>1, <2>2, <3>1, <3>2, ScanUnicode
  <2>3. CASE i \in 1 .. n /\ ~(at[i - 1].inString /\ a[i] = "control")
    BY <1>1, <1>2, <1>4, <2>3
  <2> QED BY <1>1, <2>1, <2>2, <2>3
<1>6. IsScan(clean, at)
  <2>1. at = [i \in 0 .. n |-> at[i]]
    BY <1>2
  <2>2. [i \in 0 .. n |-> at[i]] =
          [i \in 0 .. n |-> IF i = 0 THEN Outside ELSE Scan(at[i - 1], clean[i])]
    BY <1>5, Zenon
  <2> QED BY <1>4, <2>1, <2>2, Zenon DEF IsScan
<1>7. IsScan(clean, scan)
  BY <1>6, Zenon
<1>8. ControlInString(clean) <=> \E i \in 1 .. Len(clean) : scan[i - 1].inString /\ clean[i] = "control"
  BY DEF ControlInString, IsScan
<1> HIDE DEF scan
<1>9. \A i \in 0 .. n : scan[i] = at[i]
  <2>1. Len(clean) \in Nat
    BY <1>1, <1>4
  <2>2. \A i \in 0 .. Len(clean) : scan[i] = at[i]
    BY <1>6, <1>7, <2>1, OneScan
  <2> QED BY <1>4, <2>2
<1>10. ASSUME NEW i \in 1 .. n, scan[i - 1].inString, clean[i] = "control"
       PROVE  FALSE
  <2>1. at[i - 1].inString
    BY <1>1, <1>9, <1>10
  <2> QED BY <1>4, <1>10, <2>1
<1>11. ~ControlInString(clean)
  BY <1>4, <1>8, <1>10
<1> QED BY <1>11 DEF Parses, clean

\* Every step of the telemetry keeps it so.
LEMMA ParserInvNext ==
    ASSUME ParserInv, [TelemetryNext]_telemetryVars
    PROVE  ParserInv'
<1>1. FramerInv /\ FramerInv' /\ array \in Seq(Byte) /\ quoted \in {"no", "yes", "escape"}
  BY FramerInvNext DEF ParserInv, FramerInv, Follows
<1>2. PICK at : Scanned(array, quoted, at)
  BY DEF ParserInv
<1>3. CASE PrintByte
  <2>1. PICK b \in Printable :
          LET noise == open = <<>> /\ b # "["
              grown == Append(array, b)
              ends  == ~noise /\ Opened(b) = <<>>
          IN  /\ IF noise THEN UNCHANGED printer
                 ELSE /\ array' = IF ends THEN <<>> ELSE grown
                      /\ open' = Opened(b) /\ quoted' = Quoted(b)
              /\ expected' = IF ends /\ Len(grown) <= MaxFrame THEN <<grown>> ELSE <<>>
    BY <1>3 DEF PrintByte
  <2> DEFINE grown == Append(array, b)
             noise == open = <<>> /\ b # "["
             ends  == ~noise /\ Opened(b) = <<>>
  <2>2. b \in Byte /\ (quoted = "escape" => b # "control")
    BY DEF Printable, Byte, Closes
  <2>3. PICK more : Scanned(grown, Quoted(b), more)
    BY <1>1, <1>2, <2>2, ScannedByte
  <2>4. frames' = expected'
    BY <1>1 DEF FramerInv, FramesMatch
  <2>5. /\ noise => UNCHANGED <<array, open, quoted>>
        /\ ~noise => array' = (IF ends THEN <<>> ELSE grown) /\ open' = Opened(b) /\ quoted' = Quoted(b)
        /\ expected' = IF ends /\ Len(grown) <= MaxFrame THEN <<grown>> ELSE <<>>
    BY <2>1 DEF printer
  <2> HIDE DEF grown, noise
  <2>6. CASE noise
    <3>1. expected' = <<>> /\ array' = array /\ quoted' = quoted
      BY <2>5, <2>6
    <3> QED BY <1>1, <1>2, <2>4, <3>1 DEF ParserInv
  <2>7. CASE ~noise /\ Opened(b) # <<>>
    <3>1. expected' = <<>> /\ array' = grown /\ quoted' = Quoted(b)
      BY <2>5, <2>7
    <3> QED BY <1>1, <2>3, <2>4, <3>1 DEF ParserInv
  <2>8. CASE ~noise /\ Opened(b) = <<>>
    <3>1. array' = <<>> /\ open' = <<>> /\ quoted' = Quoted(b)
      BY <2>5, <2>8
    <3>2. Quoted(b) = "no"
      BY <1>1, <3>1 DEF FramerInv, Follows
    <3>3. frames' # <<>> => frames'[1] = grown
      BY <2>4, <2>5
    <3>4. \E s : Scanned(array', quoted', s)
      BY <3>1, <3>2, ScannedNothing
    <3>5. frames' # <<>> => \E s : Scanned(frames'[1], "no", s)
      BY <2>3, <3>2, <3>3
    <3> QED BY <1>1, <3>4, <3>5 DEF ParserInv
  <2> QED BY <2>6, <2>7, <2>8
<1>4. CASE Restart
  <2>1. array' = <<>> /\ quoted' = "no" /\ frames' = <<>>
    BY <1>4 DEF Restart
  <2> QED BY <1>1, <2>1, ScannedNothing DEF ParserInv
<1>5. CASE Accept \/ Refuse
  <2>1. array' = array /\ quoted' = quoted /\ frames' = <<>>
    BY <1>5 DEF Accept, Refuse, printer
  <2> QED BY <1>1, <1>2, <2>1 DEF ParserInv
<1>6. CASE StatusRead \/ StatusWrite \/ UNCHANGED telemetryVars
  <2>1. array' = array /\ quoted' = quoted /\ frames' = frames
    BY <1>6 DEF StatusRead, StatusWrite, telemetryVars, printer, reader
  <2> QED BY <1>1, <1>2, <2>1 DEF ParserInv
<1> QED BY <1>3, <1>4, <1>5, <1>6 DEF TelemetryNext

\* Whatever a process calls itself, Parse accepts the frame the Framer hands over,
\* which is the array nvtop printed last, for any length and any limit: nvtop
\* escapes backslashes and quotes, sanitizeFrame the control bytes it leaves.
THEOREM FramesAlwaysParse == TelemetrySpec => []FramesAreArrays
<1>1. TelemetryInit => ParserInv
  <2> SUFFICES ASSUME TelemetryInit PROVE ParserInv
    OBVIOUS
  <2>1. FramerInv /\ array = <<>> /\ quoted = "no" /\ frames = <<>>
    BY NewFollows DEF TelemetryInit, FramerInv, FramesMatch
  <2> QED BY <2>1, ScannedNothing DEF ParserInv
<1>2. ParserInv /\ [TelemetryNext]_telemetryVars => ParserInv'
  BY ParserInvNext
<1>3. ParserInv => FramesAreArrays
  BY ScannedParses DEF ParserInv, FramerInv, FramesMatch, FramesAreArrays
<1> QED BY <1>1, <1>2, <1>3, PTL DEF TelemetrySpec
=============================================================================
