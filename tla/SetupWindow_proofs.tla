------------------------- MODULE SetupWindow_proofs -------------------------
(***************************************************************************)
(* The lists of GPUs, the charts and the setup window, for every number of *)
(* GPUs, metrics, lines, fields and colours: options that follow the       *)
(* lists, no sample under the legend of another GPU or metric, the cursor  *)
(* on an entry, keys that act on the GPU they name, and no undefined       *)
(* behaviour while the GPUs draw alike.                                    *)
(***************************************************************************)
EXTENDS SetupWindow, FiniteSetTheorems, TLAPS

-----------------------------------------------------------------------------
(* The monitored lists (MonitoredGpus)                                      *)

\* What the loops have established so far: in the first one the entries
\* before idx are to be monitored; in the second one the entries before
\* numMonitored are, and those from there to idx are not.
LoopInv ==
    /\ pc = "demote" => idx <= Len(monitored) /\ \A k \in 1 .. idx : ~opts[k].doNotMonitor
    /\ pc \in {"promote", "keepone"} =>
          /\ numMonitored = Len(monitored)
          /\ numMonitored <= idx
          /\ \A k \in 1 .. numMonitored : ~opts[k].doNotMonitor
          /\ \A k \in numMonitored + 1 .. idx : opts[k].doNotMonitor
    /\ pc = "keepone" => idx = NumDevices
    /\ pc \in {"callbacks", "idle"} =>
          /\ numMonitored = Len(monitored)
          /\ numMonitored >= 1
          /\ changed \/ \A k \in 1 .. NumDevices : opts[k].doNotMonitor <=> k > numMonitored

IInv == TypeOK /\ OptsInSync /\ LoopInv

-----------------------------------------------------------------------------
(* Lists and arrays                                                        *)

\* A list without its i-th element is a list that is one shorter.
LEMMA WithoutType ==
    ASSUME NEW S, NEW s \in Seq(S), NEW i \in 1 .. Len(s)
    PROVE  /\ Without(s, i) \in Seq(S)
           /\ Len(Without(s, i)) = Len(s) - 1
           /\ \A k \in 1 .. Len(s) - 1 : Without(s, i)[k] = IF k < i THEN s[k] ELSE s[k + 1]
<1>1. Len(s) - 1 \in Nat
  OBVIOUS
<1>2. \A k \in 1 .. Len(s) - 1 : (IF k < i THEN s[k] ELSE s[k + 1]) \in S
  OBVIOUS
<1> QED BY <1>1, <1>2 DEF Without

\* Rotating a part of the options array permutes entries.
LEMMA RotateType ==
    ASSUME NEW a \in [1 .. NumDevices -> Opt], NEW i \in 1 .. NumDevices, NEW j \in 1 .. i
    PROVE  /\ RotateToEnd(a, i) \in [1 .. NumDevices -> Opt]
           /\ RotateDown(a, i, j) \in [1 .. NumDevices -> Opt]
<1>1. NumDevices \in Nat
  BY GpuAssumption DEF NumDevices
<1> QED BY <1>1 DEF RotateToEnd, RotateDown

-----------------------------------------------------------------------------
(* The steps                                                               *)

\* main starts with all GPUs monitored and the options in their order.
LEMMA InitIInv == Init => IInv
<1> SUFFICES ASSUME Init PROVE IInv
  OBVIOUS
<1>1. NumDevices \in Nat \ {0} /\ Order \in Seq(Gpu) /\ NumDevices = Len(Order)
  BY GpuAssumption DEF NumDevices
<1>2. TypeOK
  <2>1. setupVisible \in BOOLEAN /\ changed \in BOOLEAN
    BY Zenon DEF Init
  <2>2. PICK skip \in [1 .. NumDevices -> BOOLEAN] :
           opts = [k \in 1 .. NumDevices |-> [gpu |-> Order[k], doNotMonitor |-> skip[k]]]
    BY DEF Init
  <2>3. opts \in [1 .. NumDevices -> Opt]
    BY <1>1, <2>2 DEF Opt
  <2>4. /\ monitored \in Seq(Gpu) /\ nonMonitored \in Seq(Gpu) /\ before \in Seq(Gpu)
        /\ idx \in 0 .. NumDevices /\ numMonitored \in 0 .. NumDevices
        /\ pc = "demote" /\ active = FdinfoGpu
    BY <1>1 DEF Init
  <2> QED BY <2>1, <2>3, <2>4 DEF TypeOK
<1>3. OptsInSync
  BY <1>1 DEF Init, OptsInSync
<1>4. LoopInv
  BY <1>1 DEF Init, LoopInv
<1> QED BY <1>2, <1>3, <1>4 DEF IInv

\* First loop: the entry and the GPU it belongs to leave together.
LEMMA DemoteIInv == IInv /\ Demote => IInv'
<1> SUFFICES ASSUME IInv, Demote PROVE IInv'
  OBVIOUS
<1> DEFINE i == idx + 1
<1>1. /\ NumDevices \in Nat \ {0} /\ idx \in 0 .. NumDevices /\ pc = "demote"
      /\ monitored \in Seq(Gpu) /\ nonMonitored \in Seq(Gpu)
      /\ opts \in [1 .. NumDevices -> Opt]
      /\ Len(monitored) + Len(nonMonitored) = NumDevices
      /\ i \in 1 .. Len(monitored) /\ i \in 1 .. NumDevices
  BY GpuAssumption DEF IInv, TypeOK, OptsInSync, Demote, NumDevices
<1>2. CASE opts[i].doNotMonitor
  <2>1. /\ monitored' = Without(monitored, i)
        /\ nonMonitored' = Append(nonMonitored, monitored[i])
        /\ opts' = RotateToEnd(opts, i)
        /\ UNCHANGED <<idx, numMonitored, pc, active, setupVisible, changed, before>>
    BY <1>2 DEF Demote, screen
  <2> HIDE DEF i
  <2>2. /\ monitored' \in Seq(Gpu) /\ Len(monitored') = Len(monitored) - 1
        /\ \A k \in 1 .. Len(monitored) - 1 :
              monitored'[k] = IF k < i THEN monitored[k] ELSE monitored[k + 1]
    BY <1>1, <2>1, WithoutType
  <2>3. /\ nonMonitored' \in Seq(Gpu) /\ Len(nonMonitored') = Len(nonMonitored) + 1
        /\ \A k \in 1 .. Len(nonMonitored) : nonMonitored'[k] = nonMonitored[k]
        /\ nonMonitored'[Len(nonMonitored) + 1] = monitored[i]
    BY <1>1, <2>1
  <2>4. /\ opts' \in [1 .. NumDevices -> Opt]
        /\ \A k \in 1 .. NumDevices :
              opts'[k] = IF k < i THEN opts[k] ELSE IF k < NumDevices THEN opts[k + 1] ELSE opts[i]
    BY <1>1, <2>1, RotateType DEF RotateToEnd
  <2>5. TypeOK'
    BY <2>1, <2>2, <2>3, <2>4 DEF IInv, TypeOK, NumDevices
  <2>6. OptsInSync'
    <3>1. Len(monitored') + Len(nonMonitored') = NumDevices
      <4>1. Len(monitored') = Len(monitored) - 1 /\ Len(nonMonitored') = Len(nonMonitored) + 1
        BY <2>2, <2>3
      <4>2. /\ Len(monitored) \in Nat /\ Len(nonMonitored) \in Nat
            /\ Len(monitored) + Len(nonMonitored) = NumDevices
        BY <1>1
      <4> QED BY <4>1, <4>2
    <3>2. ASSUME NEW k \in 1 .. Len(monitored') PROVE opts'[k].gpu = monitored'[k]
      BY <1>1, <2>2, <2>4 DEF IInv, OptsInSync
    <3>3. ASSUME NEW k \in 1 .. Len(nonMonitored')
          PROVE  opts'[Len(monitored') + k].gpu = nonMonitored'[k]
      <4>1. CASE k = Len(nonMonitored) + 1
        <5>1. Len(monitored') + k = NumDevices
          <6>1. Len(monitored') = Len(monitored) - 1
            BY <2>2
          <6>2. /\ Len(monitored) \in Nat /\ Len(nonMonitored) \in Nat
                /\ Len(monitored) + Len(nonMonitored) = NumDevices
            BY <1>1
          <6> QED BY <6>1, <6>2, <4>1
        <5>2. opts'[NumDevices] = opts[i]
          BY <1>1, <2>4
        <5> QED BY <5>1, <5>2, <4>1, <2>3, <1>1 DEF IInv, OptsInSync
      <4>2. CASE k \in 1 .. Len(nonMonitored)
        <5>1. opts'[Len(monitored') + k] = opts[Len(monitored) + k]
          BY <1>1, <2>2, <2>4, <4>2
        <5> QED BY <5>1, <4>2, <2>3 DEF IInv, OptsInSync
      <4> QED BY <4>1, <4>2, <2>3, <1>1
    <3> QED BY <3>1, <3>2, <3>3 DEF OptsInSync, NumDevices
  <2>7. LoopInv'
    <3>1. idx <= Len(monitored')
      BY <1>1, <2>2 DEF i
    <3>2. \A k \in 1 .. idx : ~opts'[k].doNotMonitor
      BY <1>1, <2>4 DEF IInv, LoopInv, i
    <3> QED BY <3>1, <3>2, <2>1, <1>1 DEF LoopInv
  <2> QED BY <2>5, <2>6, <2>7 DEF IInv
<1>3. CASE ~opts[i].doNotMonitor
  <2>1. /\ idx' = idx + 1
        /\ UNCHANGED <<monitored, nonMonitored, opts, numMonitored, pc, active, setupVisible, changed, before>>
    BY <1>3 DEF Demote, screen, lists
  <2>2. TypeOK'
    BY <1>1, <2>1 DEF IInv, TypeOK, NumDevices
  <2>3. OptsInSync'
    BY <2>1 DEF IInv, OptsInSync, NumDevices
  <2>4. LoopInv'
    BY <1>1, <1>3, <2>1 DEF IInv, LoopInv
  <2> QED BY <2>2, <2>3, <2>4 DEF IInv
<1> QED BY <1>2, <1>3

\* Second loop: the entry moves behind the monitored ones, as its GPU does.
LEMMA PromoteIInv == IInv /\ Promote => IInv'
<1> SUFFICES ASSUME IInv, Promote PROVE IInv'
  OBVIOUS
<1> DEFINE i == idx + 1
           here == idx - numMonitored + 1
           n == Len(monitored)
<1>1. /\ NumDevices \in Nat \ {0} /\ idx \in 0 .. NumDevices /\ pc = "promote"
      /\ monitored \in Seq(Gpu) /\ nonMonitored \in Seq(Gpu)
      /\ opts \in [1 .. NumDevices -> Opt]
      /\ n \in Nat /\ Len(nonMonitored) \in Nat /\ n + Len(nonMonitored) = NumDevices
      /\ numMonitored = n /\ n <= idx
      /\ here \in 1 .. Len(nonMonitored) /\ i \in 1 .. NumDevices
      /\ n + 1 \in 1 .. i
  <2>1. /\ pc = "promote" /\ idx < NumDevices
        /\ idx \in 0 .. NumDevices /\ numMonitored = n /\ n <= idx
        /\ monitored \in Seq(Gpu) /\ nonMonitored \in Seq(Gpu)
        /\ opts \in [1 .. NumDevices -> Opt]
        /\ n + Len(nonMonitored) = NumDevices
    BY DEF IInv, TypeOK, OptsInSync, LoopInv, Promote
  <2>2. NumDevices \in Nat \ {0} /\ n \in Nat /\ Len(nonMonitored) \in Nat
    BY <2>1, GpuAssumption DEF NumDevices
  <2> QED BY <2>1, <2>2
<1>2. idx' = idx + 1 /\ UNCHANGED <<pc, active, setupVisible, changed, before>>
  BY DEF Promote, screen
<1>3. CASE ~opts[i].doNotMonitor
  <2>1. /\ monitored' = Append(monitored, nonMonitored[here])
        /\ nonMonitored' = Without(nonMonitored, here)
        /\ opts' = RotateDown(opts, i, n + 1)
        /\ numMonitored' = n + 1
    BY <1>1, <1>3 DEF Promote
  <2>2. i = n + here
    BY <1>1
  <2> HIDE DEF i, here, n
  <2>3. /\ monitored' \in Seq(Gpu) /\ Len(monitored') = n + 1
        /\ \A k \in 1 .. n : monitored'[k] = monitored[k]
        /\ monitored'[n + 1] = nonMonitored[here]
    BY <1>1, <2>1 DEF n
  <2>4. /\ nonMonitored' \in Seq(Gpu) /\ Len(nonMonitored') = Len(nonMonitored) - 1
        /\ \A k \in 1 .. Len(nonMonitored) - 1 :
              nonMonitored'[k] = IF k < here THEN nonMonitored[k] ELSE nonMonitored[k + 1]
    BY <1>1, <2>1, WithoutType
  <2>5. /\ opts' \in [1 .. NumDevices -> Opt]
        /\ \A k \in 1 .. NumDevices :
              opts'[k] = IF k = n + 1 THEN opts[i]
                         ELSE IF n + 1 < k /\ k <= i THEN opts[k - 1] ELSE opts[k]
    BY <1>1, <2>1, RotateType DEF RotateDown
  <2>6. /\ \A k \in 1 .. n : opts[k].gpu = monitored[k]
        /\ \A k \in 1 .. Len(nonMonitored) : opts[n + k].gpu = nonMonitored[k]
    BY DEF IInv, OptsInSync, n
  <2>7. TypeOK'
    <3>1. idx' \in 0 .. NumDevices /\ numMonitored' \in 0 .. NumDevices
      BY <1>1, <1>2, <2>1 DEF i
    <3> QED BY <3>1, <1>2, <2>3, <2>4, <2>5 DEF IInv, TypeOK, NumDevices
  <2>8. OptsInSync'
    <3>1. Len(monitored') + Len(nonMonitored') = NumDevices
      <4>1. Len(monitored') = n + 1 /\ Len(nonMonitored') = Len(nonMonitored) - 1
        BY <2>3, <2>4
      <4>2. n \in Nat /\ Len(nonMonitored) \in Nat /\ n + Len(nonMonitored) = NumDevices
        BY <1>1
      <4> QED BY <4>1, <4>2
    <3>2. ASSUME NEW k \in 1 .. n + 1 PROVE opts'[k].gpu = monitored'[k]
      <4>1. CASE k = n + 1
        <5>1. opts'[n + 1] = opts[n + here]
          BY <1>1, <2>2, <2>5
        <5> QED BY <5>1, <4>1, <2>3, <2>6, <1>1
      <4>2. CASE k \in 1 .. n
        BY <4>2, <2>3, <2>5, <2>6, <1>1
      <4> QED BY <4>1, <4>2, <1>1
    <3>3. ASSUME NEW k \in 1 .. Len(nonMonitored) - 1
          PROVE  opts'[n + 1 + k].gpu = nonMonitored'[k]
      <4>1. CASE k < here
        <5>1. opts'[n + 1 + k] = opts[n + k]
          BY <4>1, <1>1, <2>2, <2>5
        <5> QED BY <5>1, <4>1, <2>4, <2>6, <1>1
      <4>2. CASE k >= here
        <5>1. opts'[n + 1 + k] = opts[n + (k + 1)]
          BY <4>2, <1>1, <2>2, <2>5
        <5>2. k + 1 \in 1 .. Len(nonMonitored) /\ ~(k < here)
          BY <4>2, <1>1
        <5> QED BY <5>1, <5>2, <2>4, <2>6
      <4> QED BY <4>1, <4>2, <1>1
    <3> QED BY <3>1, <3>2, <3>3, <2>3, <2>4 DEF OptsInSync, NumDevices
  <2>9. LoopInv'
    <3>1. \A k \in 1 .. n + 1 : ~opts'[k].doNotMonitor
      BY <1>1, <1>3, <2>5 DEF IInv, LoopInv
    <3>2. \A k \in n + 2 .. i : opts'[k].doNotMonitor
      <4> TAKE k \in n + 2 .. i
      <4>1. opts'[k] = opts[k - 1] /\ k - 1 \in n + 1 .. idx
        BY <1>1, <2>5 DEF i
      <4> QED BY <4>1, <1>1 DEF IInv, LoopInv
    <3> QED BY <3>1, <3>2, <1>1, <1>2, <2>1, <2>3 DEF LoopInv, i
  <2> QED BY <2>7, <2>8, <2>9 DEF IInv
<1>4. CASE opts[i].doNotMonitor
  <2>1. UNCHANGED <<monitored, nonMonitored, opts, numMonitored>>
    BY <1>4 DEF Promote, lists
  <2>2. TypeOK'
    BY <1>1, <1>2, <2>1 DEF IInv, TypeOK, NumDevices
  <2>3. OptsInSync'
    BY <2>1 DEF IInv, OptsInSync, NumDevices
  <2>4. LoopInv'
    BY <1>1, <1>2, <1>4, <2>1 DEF IInv, LoopInv
  <2> QED BY <2>2, <2>3, <2>4 DEF IInv
<1> QED BY <1>3, <1>4

\* The exception for the case that nothing is left to monitor.
LEMMA KeepOneIInv == IInv /\ KeepOne => IInv'
<1> SUFFICES ASSUME IInv, KeepOne PROVE IInv'
  OBVIOUS
<1>1. /\ NumDevices \in Nat \ {0} /\ pc = "keepone" /\ idx = NumDevices
      /\ monitored \in Seq(Gpu) /\ nonMonitored \in Seq(Gpu)
      /\ opts \in [1 .. NumDevices -> Opt]
      /\ Len(monitored) + Len(nonMonitored) = NumDevices
      /\ numMonitored = Len(monitored)
      /\ \A k \in 1 .. NumDevices : opts[k].doNotMonitor <=> k > numMonitored
  BY GpuAssumption DEF IInv, TypeOK, OptsInSync, LoopInv, KeepOne, NumDevices
<1>2. pc' = "callbacks" /\ UNCHANGED <<idx, active, setupVisible, changed, before>>
  BY DEF KeepOne, screen
<1>3. CASE numMonitored = 0
  <2>1. /\ monitored' = <<nonMonitored[1]>> /\ nonMonitored' = Tail(nonMonitored)
        /\ opts' = [opts EXCEPT ![1].doNotMonitor = FALSE]
        /\ numMonitored' = 1
    BY <1>3 DEF KeepOne
  <2>2. Len(nonMonitored) = NumDevices
    BY <1>1, <1>3
  <2>3. /\ monitored' \in Seq(Gpu) /\ Len(monitored') = 1 /\ monitored'[1] = nonMonitored[1]
        /\ nonMonitored' \in Seq(Gpu) /\ Len(nonMonitored') = NumDevices - 1
        /\ \A k \in 1 .. NumDevices - 1 : nonMonitored'[k] = nonMonitored[k + 1]
    BY <1>1, <2>1, <2>2
  <2>4. /\ opts' \in [1 .. NumDevices -> Opt]
        /\ opts'[1].gpu = opts[1].gpu /\ ~opts'[1].doNotMonitor
        /\ \A k \in 2 .. NumDevices : opts'[k] = opts[k]
    <3> DEFINE kept == [opts[1] EXCEPT !.doNotMonitor = FALSE]
    <3>1. opts' = [opts EXCEPT ![1] = kept]
      BY <2>1
    <3>2. opts[1] \in Opt /\ 1 \in 1 .. NumDevices
      BY <1>1
    <3>3. kept \in Opt /\ kept.gpu = opts[1].gpu /\ ~kept.doNotMonitor
      BY <3>2 DEF Opt
    <3> HIDE DEF kept
    <3> QED BY <1>1, <3>1, <3>2, <3>3
  <2>5. \A k \in 1 .. NumDevices : opts[k].gpu = nonMonitored[k]
    BY <1>1, <1>3, <2>2 DEF IInv, OptsInSync
  <2>6. TypeOK'
    BY <1>1, <1>2, <2>1, <2>3, <2>4 DEF IInv, TypeOK, NumDevices
  <2>7. OptsInSync'
    <3>1. ASSUME NEW k \in 1 .. NumDevices - 1
          PROVE  opts'[1 + k].gpu = nonMonitored'[k]
      <4>1. 1 + k \in 2 .. NumDevices /\ 1 + k \in 1 .. NumDevices /\ 1 + k = k + 1
        BY <1>1
      <4>2. opts'[1 + k] = opts[1 + k] /\ opts[1 + k].gpu = nonMonitored[1 + k]
        BY <2>4, <2>5, <4>1
      <4> QED BY <2>3, <4>1, <4>2
    <3>2. opts'[1].gpu = monitored'[1]
      BY <1>1, <2>3, <2>4, <2>5
    <3> QED BY <3>1, <3>2, <1>1, <2>3 DEF OptsInSync, NumDevices
  <2>8. LoopInv'
    BY <1>1, <1>2, <1>3, <2>1, <2>3, <2>4 DEF LoopInv, NumDevices
  <2> QED BY <2>6, <2>7, <2>8 DEF IInv
<1>4. CASE numMonitored # 0
  <2>1. UNCHANGED <<monitored, nonMonitored, opts, numMonitored>>
    BY <1>4 DEF KeepOne, lists
  <2>2. TypeOK' /\ OptsInSync'
    BY <1>2, <2>1 DEF IInv, TypeOK, OptsInSync, NumDevices
  <2>3. LoopInv'
    BY <1>1, <1>2, <1>4, <2>1 DEF LoopInv, NumDevices
  <2> QED BY <2>2, <2>3 DEF IInv
<1> QED BY <1>3, <1>4

\* Every step keeps the options in sync and the loops on course.
LEMMA NextIInv == IInv /\ [Next]_vars => IInv'
<1> SUFFICES ASSUME IInv, [Next]_vars PROVE IInv'
  OBVIOUS
<1>1. NumDevices \in Nat \ {0}
  BY GpuAssumption DEF NumDevices
<1>2. CASE OpenSetup
  BY <1>2 DEF OpenSetup, IInv, TypeOK, OptsInSync, LoopInv, NumDevices, lists
<1>3. CASE CloseSetup
  BY <1>3 DEF CloseSetup, IInv, TypeOK, OptsInSync, LoopInv, NumDevices, lists
<1>4. CASE CheckChange
  <2>1. /\ pc' = "demote" /\ idx' = 0 /\ changed' = FALSE /\ before' = monitored
        /\ UNCHANGED <<monitored, nonMonitored, opts, numMonitored, active, setupVisible>>
    BY <1>4 DEF CheckChange, lists
  <2>2. TypeOK'
    <3>1. changed' \in BOOLEAN
      BY <2>1, Zenon
    <3>2. idx' \in 0 .. NumDevices
      BY <1>1, <2>1
    <3>3. /\ pc' = "demote" /\ before' = monitored
          /\ UNCHANGED <<monitored, nonMonitored, opts, numMonitored, active, setupVisible>>
      BY <2>1
    <3> QED BY <3>1, <3>2, <3>3 DEF IInv, TypeOK, NumDevices
  <2>3. OptsInSync'
    BY <2>1 DEF IInv, OptsInSync, NumDevices
  <2>4. LoopInv'
    BY <2>1 DEF IInv, TypeOK, LoopInv
  <2> QED BY <2>2, <2>3, <2>4 DEF IInv
<1>5. ASSUME NEW i \in 1 .. NumDevices, ToggleMonitored(i) PROVE IInv'
  <2>1. /\ opts' \in [1 .. NumDevices -> Opt]
        /\ \A k \in 1 .. NumDevices : opts'[k].gpu = opts[k].gpu
    BY <1>5 DEF ToggleMonitored, IInv, TypeOK, Opt
  <2>2. TypeOK'
    BY <2>1, <1>5 DEF ToggleMonitored, IInv, TypeOK, NumDevices, lists
  <2>3. OptsInSync'
    BY <1>1, <2>1, <1>5 DEF ToggleMonitored, IInv, TypeOK, OptsInSync, NumDevices, lists
  <2>4. LoopInv'
    BY <1>5 DEF ToggleMonitored, IInv, LoopInv, lists
  <2> QED BY <2>2, <2>3, <2>4 DEF IInv
<1>6. CASE Demote
  BY <1>6, DemoteIInv
<1>7. CASE DemoteEnd
  <2>1. /\ pc = "demote" /\ idx = Len(monitored) /\ pc' = "promote" /\ numMonitored' = idx
        /\ UNCHANGED <<monitored, nonMonitored, opts, idx, active, setupVisible, changed, before>>
    BY <1>7 DEF DemoteEnd, lists, screen
  <2>2. TypeOK'
    BY <2>1 DEF IInv, TypeOK, NumDevices
  <2>3. OptsInSync'
    BY <2>1 DEF IInv, OptsInSync, NumDevices
  <2>4. LoopInv'
    BY <1>1, <2>1 DEF IInv, TypeOK, LoopInv
  <2> QED BY <2>2, <2>3, <2>4 DEF IInv
<1>8. CASE Promote
  BY <1>8, PromoteIInv
<1>9. CASE PromoteEnd
  <2>1. /\ pc' = "keepone"
        /\ UNCHANGED <<monitored, nonMonitored, opts, idx, numMonitored, active, setupVisible, changed, before>>
    BY <1>9 DEF PromoteEnd, lists, screen
  <2>2. TypeOK'
    BY <2>1 DEF IInv, TypeOK, NumDevices
  <2>3. OptsInSync'
    BY <2>1 DEF IInv, OptsInSync, NumDevices
  <2>4. idx = NumDevices
    BY <1>1, <1>9 DEF PromoteEnd, IInv, TypeOK, OptsInSync, LoopInv
  <2>5. LoopInv'
    BY <1>9, <2>1, <2>4 DEF PromoteEnd, IInv, LoopInv, NumDevices
  <2> QED BY <2>2, <2>3, <2>5 DEF IInv
<1>10. CASE KeepOne
  BY <1>10, KeepOneIInv
<1>11. CASE SetCallbacks
  BY <1>11 DEF SetCallbacks, IInv, TypeOK, OptsInSync, LoopInv, NumDevices, lists, screen
<1>12. CASE UNCHANGED vars
  BY <1>12 DEF vars, IInv, TypeOK, OptsInSync, LoopInv, NumDevices
<1> QED BY <1>2, <1>3, <1>4, <1>5, <1>6, <1>7, <1>8, <1>9, <1>10, <1>11, <1>12 DEF Next

-----------------------------------------------------------------------------
(* The theorems                                                            *)

\* The options array follows the lists for any number of GPUs: at every
\* iteration of interface_check_and_fix_monitored_gpus, entry k belongs to the
\* k-th GPU of the two lists.
THEOREM OptionsFollowLists == Spec => [](TypeOK /\ OptsInSync)
<1>1. IInv => TypeOK /\ OptsInSync
  BY DEF IInv
<1> QED BY <1>1, InitIInv, NextIInv, PTL DEF Spec

\* When no change is pending exactly the GPUs that are not excluded are
\* monitored, and at least one is, for any number of GPUs.
THEOREM MonitoredSetCorrect == Spec => []MonitoredAsAsked
<1>1. IInv => MonitoredAsAsked
  <2> SUFFICES ASSUME IInv, pc = "idle", ~changed
               PROVE  /\ monitored # <<>>
                      /\ numMonitored = Len(monitored)
                      /\ \A k \in 1 .. NumDevices : opts[k].doNotMonitor <=> k > Len(monitored)
    BY DEF MonitoredAsAsked
  <2> QED BY DEF IInv, LoopInv
<1> QED BY <1>1, InitIInv, NextIInv, PTL DEF Spec

-----------------------------------------------------------------------------
(* The entries of the array are the GPUs, each of them once                *)

\* No two entries of the array belong to the same GPU.
OnceEach(a) == \A i, k \in 1 .. NumDevices : a[i].gpu = a[k].gpu => i = k

\* Every GPU with a callback has an entry.
AllPlaced(a) == \A g \in FdinfoGpu : \E k \in 1 .. NumDevices : a[k].gpu = g

\* What SetCallbacks needs to reach each callback once and no callback twice,
\* and what it has established when the call returns.
PlaceInv ==
    /\ OnceEach(opts) /\ AllPlaced(opts)
    /\ pc = "idle" => active = Members(monitored) \cap FdinfoGpu

\* Moving an entry to the end loses and repeats none.
LEMMA ToEndPermutes ==
    ASSUME NEW a \in [1 .. NumDevices -> Opt], NEW i \in 1 .. NumDevices,
           OnceEach(a), AllPlaced(a)
    PROVE  OnceEach(RotateToEnd(a, i)) /\ AllPlaced(RotateToEnd(a, i))
<1> DEFINE b == RotateToEnd(a, i)
<1>1. NumDevices \in Nat
  BY GpuAssumption DEF NumDevices
<1>2. \A k \in 1 .. NumDevices :
         b[k] = IF k < i THEN a[k] ELSE IF k < NumDevices THEN a[k + 1] ELSE a[i]
  BY DEF RotateToEnd
<1> HIDE DEF b
<1>3. OnceEach(b)
  BY <1>1, <1>2 DEF OnceEach
<1>4. AllPlaced(b)
  <2> SUFFICES ASSUME NEW g \in FdinfoGpu PROVE \E k \in 1 .. NumDevices : b[k].gpu = g
    BY DEF AllPlaced
  <2>1. PICK k \in 1 .. NumDevices : a[k].gpu = g
    BY DEF AllPlaced
  <2>2. CASE k < i
    <3>1. b[k] = a[k]
      BY <1>1, <1>2, <2>2
    <3> QED BY <3>1, <2>1
  <2>3. CASE k = i
    <3>1. NumDevices \in 1 .. NumDevices /\ b[NumDevices] = a[k]
      BY <1>1, <1>2, <2>3
    <3> QED BY <3>1, <2>1
  <2>4. CASE k > i
    <3>1. k - 1 \in 1 .. NumDevices /\ b[k - 1] = a[k]
      BY <1>1, <1>2, <2>4
    <3> QED BY <3>1, <2>1
  <2> QED BY <1>1, <2>2, <2>3, <2>4
<1> QED BY <1>3, <1>4 DEF b

\* Moving an entry towards the front loses and repeats none.
LEMMA DownPermutes ==
    ASSUME NEW a \in [1 .. NumDevices -> Opt], NEW i \in 1 .. NumDevices, NEW j \in 1 .. i,
           OnceEach(a), AllPlaced(a)
    PROVE  OnceEach(RotateDown(a, i, j)) /\ AllPlaced(RotateDown(a, i, j))
<1> DEFINE b == RotateDown(a, i, j)
<1>1. NumDevices \in Nat
  BY GpuAssumption DEF NumDevices
<1>2. \A k \in 1 .. NumDevices :
         b[k] = IF k = j THEN a[i] ELSE IF j < k /\ k <= i THEN a[k - 1] ELSE a[k]
  BY DEF RotateDown
<1> HIDE DEF b
<1>3. OnceEach(b)
  BY <1>1, <1>2 DEF OnceEach
<1>4. AllPlaced(b)
  <2> SUFFICES ASSUME NEW g \in FdinfoGpu PROVE \E k \in 1 .. NumDevices : b[k].gpu = g
    BY DEF AllPlaced
  <2>1. PICK k \in 1 .. NumDevices : a[k].gpu = g
    BY DEF AllPlaced
  <2>2. CASE k < j \/ k > i
    <3>1. b[k] = a[k]
      BY <1>1, <1>2, <2>2
    <3> QED BY <3>1, <2>1
  <2>3. CASE k = i
    <3>1. j \in 1 .. NumDevices /\ b[j] = a[k]
      BY <1>1, <1>2, <2>3
    <3> QED BY <3>1, <2>1
  <2>4. CASE k >= j /\ k < i
    <3>1. k + 1 \in 1 .. NumDevices /\ b[k + 1] = a[k]
      BY <1>1, <1>2, <2>4
    <3> QED BY <3>1, <2>1
  <2> QED BY <1>1, <2>2, <2>3, <2>4
<1> QED BY <1>3, <1>4 DEF b

\* Entries that keep their GPU stay in place.
LEMMA PlacesKept ==
    ASSUME NEW a, NEW b, OnceEach(a), AllPlaced(a),
           \A k \in 1 .. NumDevices : b[k].gpu = a[k].gpu
    PROVE  OnceEach(b) /\ AllPlaced(b)
BY DEF OnceEach, AllPlaced

\* The options are made in the order of the list of GPUs.
LEMMA InitPlaceInv == Init => PlaceInv
<1> SUFFICES ASSUME Init PROVE PlaceInv
  OBVIOUS
<1>1. PICK skip \in [1 .. NumDevices -> BOOLEAN] :
         opts = [k \in 1 .. NumDevices |-> [gpu |-> Order[k], doNotMonitor |-> skip[k]]]
  BY DEF Init
<1>2. \A k \in 1 .. NumDevices : opts[k].gpu = Order[k]
  BY <1>1
<1>3. OnceEach(opts)
  BY <1>2, GpuAssumption DEF OnceEach, NumDevices
<1>4. AllPlaced(opts)
  BY <1>2, GpuAssumption DEF AllPlaced, NumDevices
<1>5. pc # "idle"
  BY DEF Init
<1> QED BY <1>3, <1>4, <1>5 DEF PlaceInv

\* When the call returns, the callbacks of the monitored GPUs are enabled, and
\* no others: each GPU is in one of the lists, and in one only.
LEMMA SetCallbacksExact == IInv /\ PlaceInv /\ SetCallbacks => PlaceInv'
<1> SUFFICES ASSUME IInv, PlaceInv, SetCallbacks PROVE PlaceInv'
  OBVIOUS
<1>1. /\ active' = (active \cup (Members(monitored) \cap FdinfoGpu)) \ Members(nonMonitored)
      /\ UNCHANGED <<monitored, nonMonitored, opts>>
  BY DEF SetCallbacks, lists
<1>2. /\ NumDevices \in Nat /\ Len(monitored) \in Nat /\ Len(nonMonitored) \in Nat
      /\ Len(monitored) + Len(nonMonitored) = NumDevices /\ active \subseteq FdinfoGpu
      /\ \A k \in 1 .. Len(monitored) : opts[k].gpu = monitored[k]
      /\ \A k \in 1 .. Len(nonMonitored) : opts[Len(monitored) + k].gpu = nonMonitored[k]
  BY GpuAssumption DEF IInv, TypeOK, OptsInSync, NumDevices
<1>3. \A g \in Members(monitored) : g \notin Members(nonMonitored)
  <2> SUFFICES ASSUME NEW i \in 1 .. Len(monitored), NEW k \in 1 .. Len(nonMonitored),
                      monitored[i] = nonMonitored[k]
               PROVE  FALSE
    BY DEF Members
  <2>1. opts[i].gpu = opts[Len(monitored) + k].gpu
    BY <1>2
  <2>2. i \in 1 .. NumDevices /\ Len(monitored) + k \in 1 .. NumDevices /\ i # Len(monitored) + k
    BY <1>2
  <2> QED BY <2>1, <2>2 DEF PlaceInv, OnceEach
<1>4. \A g \in FdinfoGpu : g \in Members(monitored) \/ g \in Members(nonMonitored)
  <2> SUFFICES ASSUME NEW g \in FdinfoGpu
               PROVE  g \in Members(monitored) \/ g \in Members(nonMonitored)
    OBVIOUS
  <2>1. PICK k \in 1 .. NumDevices : opts[k].gpu = g
    BY DEF PlaceInv, AllPlaced
  <2>2. CASE k <= Len(monitored)
    <3>1. k \in 1 .. Len(monitored)
      BY <1>2, <2>2
    <3> QED BY <1>2, <2>1, <3>1 DEF Members
  <2>3. CASE k > Len(monitored)
    <3>1. k - Len(monitored) \in 1 .. Len(nonMonitored)
          /\ Len(monitored) + (k - Len(monitored)) = k
      BY <1>2, <2>3
    <3> QED BY <1>2, <2>1, <3>1 DEF Members
  <2> QED BY <1>2, <2>2, <2>3
<1>5. active' = Members(monitored) \cap FdinfoGpu
  BY <1>1, <1>2, <1>3, <1>4
<1>6. Members(monitored') = Members(monitored)
  BY <1>1
<1> QED BY <1>1, <1>5, <1>6 DEF PlaceInv, OnceEach, AllPlaced

\* No step loses a GPU or enters one twice.
LEMMA NextPlaceInv == IInv /\ PlaceInv /\ [Next]_vars => PlaceInv'
<1> SUFFICES ASSUME IInv, PlaceInv, [Next]_vars PROVE PlaceInv'
  OBVIOUS
<1>1. /\ NumDevices \in Nat \ {0} /\ opts \in [1 .. NumDevices -> Opt]
      /\ OnceEach(opts) /\ AllPlaced(opts)
  BY GpuAssumption DEF IInv, TypeOK, PlaceInv, NumDevices
<1>2. ASSUME OpenSetup \/ CloseSetup \/ UNCHANGED vars PROVE PlaceInv'
  <2>1. UNCHANGED <<monitored, opts, pc, active>>
    BY <1>2 DEF OpenSetup, CloseSetup, vars, lists
  <2> QED BY <2>1 DEF PlaceInv, OnceEach, AllPlaced, Members
<1>3. ASSUME NEW i \in 1 .. NumDevices, ToggleMonitored(i) PROVE PlaceInv'
  <2>1. UNCHANGED <<monitored, pc, active>>
    BY <1>3 DEF ToggleMonitored, lists
  <2>2. \A k \in 1 .. NumDevices : opts'[k].gpu = opts[k].gpu
    BY <1>1, <1>3 DEF ToggleMonitored, Opt
  <2>3. OnceEach(opts') /\ AllPlaced(opts')
    BY <1>1, <2>2, PlacesKept
  <2> QED BY <2>1, <2>3 DEF PlaceInv, OnceEach, AllPlaced, Members
<1>4. ASSUME CheckChange \/ DemoteEnd \/ PromoteEnd PROVE PlaceInv'
  <2>1. opts' = opts /\ pc' # "idle"
    BY <1>4 DEF CheckChange, DemoteEnd, PromoteEnd
  <2> QED BY <2>1 DEF PlaceInv, OnceEach, AllPlaced
<1>5. CASE Demote
  <2>1. pc' # "idle"
    BY <1>5 DEF Demote
  <2>2. idx + 1 \in 1 .. NumDevices
    BY <1>1, <1>5 DEF Demote, IInv, TypeOK, OptsInSync
  <2>3. opts' = opts \/ opts' = RotateToEnd(opts, idx + 1)
    BY <1>5 DEF Demote
  <2>4. OnceEach(opts') /\ AllPlaced(opts')
    BY <1>1, <2>2, <2>3, ToEndPermutes
  <2> QED BY <2>1, <2>4 DEF PlaceInv, OnceEach, AllPlaced
<1>6. CASE Promote
  <2>1. pc' # "idle"
    BY <1>6 DEF Promote
  <2>2. idx + 1 \in 1 .. NumDevices /\ numMonitored + 1 \in 1 .. idx + 1
    BY <1>1, <1>6 DEF Promote, IInv, TypeOK, OptsInSync, LoopInv
  <2>3. opts' = opts \/ opts' = RotateDown(opts, idx + 1, numMonitored + 1)
    BY <1>6 DEF Promote
  <2>4. OnceEach(opts') /\ AllPlaced(opts')
    BY <1>1, <2>2, <2>3, DownPermutes
  <2> QED BY <2>1, <2>4 DEF PlaceInv, OnceEach, AllPlaced
<1>7. CASE KeepOne
  <2>1. pc' # "idle"
    BY <1>7 DEF KeepOne
  <2>2. \A k \in 1 .. NumDevices : opts'[k].gpu = opts[k].gpu
    BY <1>1, <1>7 DEF KeepOne, Opt
  <2>3. OnceEach(opts') /\ AllPlaced(opts')
    BY <1>1, <2>2, PlacesKept
  <2> QED BY <2>1, <2>3 DEF PlaceInv, OnceEach, AllPlaced
<1>8. CASE SetCallbacks
  BY <1>8, SetCallbacksExact
<1> QED BY <1>2, <1>3, <1>4, <1>5, <1>6, <1>7, <1>8 DEF Next

\* Outside the call the sweep over /proc calls the drivers of the monitored
\* GPUs and no others, for any number of GPUs: enabling and disabling go
\* through the two lists, which hold every GPU once.
THEOREM CallbacksReachMonitored == Spec => []CallbacksFollowList
<1>1. IInv /\ PlaceInv => CallbacksFollowList
  BY DEF IInv, PlaceInv, CallbacksFollowList
<1> QED BY <1>1, InitIInv, NextIInv, InitPlaceInv, NextPlaceInv, PTL DEF Spec

-----------------------------------------------------------------------------
(* The order of the GPUs that stay                                         *)

\* A GPU that was monitored and is no longer in the list is marked, so that
\* the second loop does not bring it back at another place.
MarkedInv ==
    pc \in {"demote", "promote"} =>
        \A k \in Len(monitored) + 1 .. NumDevices :
            opts[k].gpu \in Members(before) => opts[k].doNotMonitor

OrderInv == KeepsOrder(monitored, before) /\ MarkedInv

\* The monitored list holds no GPU twice.
LEMMA MonitoredOnce ==
    ASSUME IInv, PlaceInv
    PROVE  \A i, j \in 1 .. Len(monitored) : monitored[i] = monitored[j] => i = j
<1>1. /\ NumDevices \in Nat /\ Len(monitored) \in Nat /\ Len(nonMonitored) \in Nat
      /\ Len(monitored) + Len(nonMonitored) = NumDevices
      /\ \A k \in 1 .. Len(monitored) : opts[k].gpu = monitored[k]
  BY GpuAssumption DEF IInv, TypeOK, OptsInSync, NumDevices
<1>2. \A k \in 1 .. Len(monitored) : k \in 1 .. NumDevices
  BY <1>1
<1> QED BY <1>1, <1>2 DEF PlaceInv, OnceEach

\* At the start the list is its own predecessor.
LEMMA InitOrderInv == Init => OrderInv
<1> SUFFICES ASSUME Init PROVE OrderInv
  OBVIOUS
<1>1. /\ monitored = Order /\ before = Order /\ Len(Order) \in Nat
      /\ \A i, j \in 1 .. Len(Order) : Order[i] = Order[j] => i = j
  BY GpuAssumption DEF Init
<1>2. KeepsOrder(monitored, before)
  BY <1>1 DEF KeepsOrder
<1>3. MarkedInv
  BY <1>1 DEF MarkedInv, NumDevices
<1> QED BY <1>2, <1>3 DEF OrderInv

\* The call begins: no GPU behind the monitored ones is among them.
LEMMA CheckChangeOrder == IInv /\ PlaceInv /\ CheckChange => OrderInv'
<1> SUFFICES ASSUME IInv, PlaceInv, CheckChange PROVE OrderInv'
  OBVIOUS
<1>1. before' = monitored /\ UNCHANGED <<monitored, opts>>
  BY DEF CheckChange, lists
<1>2. /\ NumDevices \in Nat /\ Len(monitored) \in Nat /\ Len(nonMonitored) \in Nat
      /\ Len(monitored) + Len(nonMonitored) = NumDevices
      /\ \A k \in 1 .. Len(monitored) : opts[k].gpu = monitored[k]
  BY GpuAssumption DEF IInv, TypeOK, OptsInSync, NumDevices
<1>3. KeepsOrder(monitored, monitored)
  BY <1>2, MonitoredOnce DEF KeepsOrder
<1>4. ASSUME NEW k \in Len(monitored) + 1 .. NumDevices PROVE opts[k].gpu \notin Members(monitored)
  <2> SUFFICES ASSUME NEW i \in 1 .. Len(monitored), opts[k].gpu = monitored[i] PROVE FALSE
    BY DEF Members
  <2>1. opts[k].gpu = opts[i].gpu /\ i \in 1 .. NumDevices /\ k \in 1 .. NumDevices /\ i # k
    BY <1>2
  <2> QED BY <2>1 DEF PlaceInv, OnceEach
<1>5. MarkedInv'
  BY <1>1, <1>4 DEF MarkedInv, NumDevices, Members
<1> QED BY <1>1, <1>3, <1>5 DEF OrderInv, KeepsOrder

\* First loop: the rest of the list closes the gap, and the entry that moves
\* to the end is marked.
LEMMA DemoteOrder == IInv /\ OrderInv /\ Demote => OrderInv'
<1> SUFFICES ASSUME IInv, OrderInv, Demote, opts[idx + 1].doNotMonitor PROVE OrderInv'
  BY DEF Demote, OrderInv, KeepsOrder, MarkedInv, lists, NumDevices, Members
<1> DEFINE i == idx + 1
<1>1. /\ NumDevices \in Nat \ {0} /\ Len(monitored) \in Nat /\ Len(nonMonitored) \in Nat
      /\ Len(monitored) + Len(nonMonitored) = NumDevices
      /\ monitored \in Seq(Gpu) /\ i \in 1 .. Len(monitored) /\ i \in 1 .. NumDevices
      /\ pc = "demote" /\ opts[i].doNotMonitor
  BY GpuAssumption DEF IInv, TypeOK, OptsInSync, Demote, NumDevices
<1>2. /\ monitored' = Without(monitored, i) /\ opts' = RotateToEnd(opts, i) /\ before' = before
  BY DEF Demote
<1> HIDE DEF i
<1>3. /\ Len(monitored') = Len(monitored) - 1
      /\ \A k \in 1 .. Len(monitored) - 1 :
            monitored'[k] = IF k < i THEN monitored[k] ELSE monitored[k + 1]
  BY <1>1, <1>2, WithoutType
<1>4. \A k \in 1 .. NumDevices :
         opts'[k] = IF k < i THEN opts[k] ELSE IF k < NumDevices THEN opts[k + 1] ELSE opts[i]
  BY <1>2 DEF RotateToEnd
<1>5. KeepsOrder(monitored', before)
  <2> DEFINE old(k) == IF k < i THEN k ELSE k + 1
  <2>1. \A k \in 1 .. Len(monitored') : old(k) \in 1 .. Len(monitored) /\ monitored'[k] = monitored[old(k)]
    BY <1>1, <1>3
  <2>2. \A k, l \in 1 .. Len(monitored') : k < l => old(k) < old(l)
    BY <1>1, <1>3
  <2> HIDE DEF old
  <2> QED BY <2>1, <2>2 DEF OrderInv, KeepsOrder
<1>6. ASSUME NEW k \in Len(monitored') + 1 .. NumDevices, opts'[k].gpu \in Members(before)
      PROVE  opts'[k].doNotMonitor
  <2>1. k \in Len(monitored) .. NumDevices /\ k >= i
    BY <1>1, <1>3
  <2>2. CASE k = NumDevices
    BY <1>1, <1>4, <2>2
  <2>3. CASE k < NumDevices
    <3>1. opts'[k] = opts[k + 1] /\ k + 1 \in Len(monitored) + 1 .. NumDevices
      BY <1>1, <1>4, <2>1, <2>3
    <3> QED BY <1>1, <1>6, <3>1 DEF OrderInv, MarkedInv
  <2> QED BY <1>1, <2>1, <2>2, <2>3
<1>7. MarkedInv'
  BY <1>2, <1>6 DEF MarkedInv, NumDevices, Members
<1> QED BY <1>2, <1>5, <1>7 DEF OrderInv, KeepsOrder

\* Second loop: a GPU that is not marked was not monitored before.
LEMMA PromoteOrder == IInv /\ OrderInv /\ Promote => OrderInv'
<1> SUFFICES ASSUME IInv, OrderInv, Promote, ~opts[idx + 1].doNotMonitor PROVE OrderInv'
  BY DEF Promote, OrderInv, KeepsOrder, MarkedInv, lists, NumDevices, Members
<1> DEFINE i == idx + 1
           n == Len(monitored)
           here == idx - numMonitored + 1
<1>1. /\ NumDevices \in Nat \ {0} /\ n \in Nat /\ Len(nonMonitored) \in Nat
      /\ n + Len(nonMonitored) = NumDevices
      /\ monitored \in Seq(Gpu) /\ here \in 1 .. Len(nonMonitored) /\ i = n + here
      /\ i \in 1 .. NumDevices /\ n + 1 \in 1 .. i
      /\ pc = "promote" /\ ~opts[i].doNotMonitor
      /\ nonMonitored \in Seq(Gpu)
  <2>1. /\ pc = "promote" /\ idx < NumDevices
        /\ idx \in 0 .. NumDevices /\ numMonitored = n /\ n <= idx
        /\ monitored \in Seq(Gpu) /\ nonMonitored \in Seq(Gpu)
        /\ n + Len(nonMonitored) = NumDevices
    BY DEF IInv, TypeOK, OptsInSync, LoopInv, Promote
  <2>2. NumDevices \in Nat \ {0} /\ n \in Nat /\ Len(nonMonitored) \in Nat
    BY <2>1, GpuAssumption DEF NumDevices
  <2> QED BY <2>1, <2>2
<1>2. /\ monitored' = Append(monitored, nonMonitored[here])
      /\ opts' = RotateDown(opts, i, n + 1) /\ before' = before
  BY DEF Promote, IInv, LoopInv
<1>3. nonMonitored[here] = opts[i].gpu
  BY <1>1 DEF IInv, OptsInSync
<1> HIDE DEF i, here, n
<1>4. /\ Len(monitored') = n + 1 /\ monitored'[n + 1] = opts[i].gpu
      /\ \A k \in 1 .. n : monitored'[k] = monitored[k]
  BY <1>1, <1>2, <1>3 DEF n
<1>5. \A k \in 1 .. NumDevices :
         opts'[k] = IF k = n + 1 THEN opts[i]
                    ELSE IF n + 1 < k /\ k <= i THEN opts[k - 1] ELSE opts[k]
  BY <1>2 DEF RotateDown
<1>6. opts[i].gpu \notin Members(before)
  BY <1>1 DEF OrderInv, MarkedInv, n
<1>7. KeepsOrder(monitored', before)
  <2> SUFFICES ASSUME NEW k \in 1 .. n + 1, NEW l \in 1 .. n + 1,
                      NEW a \in 1 .. Len(before), NEW b \in 1 .. Len(before),
                      monitored'[k] = before[a], monitored'[l] = before[b], k < l
               PROVE  a < b
    BY <1>4 DEF KeepsOrder
  <2>1. k # n + 1 /\ l # n + 1
    BY <1>4, <1>6 DEF Members
  <2>2. k \in 1 .. n /\ l \in 1 .. n
    BY <1>1, <2>1
  <2> QED BY <1>4, <2>2 DEF OrderInv, KeepsOrder, n
<1>8. ASSUME NEW k \in n + 2 .. NumDevices, opts'[k].gpu \in Members(before)
      PROVE  opts'[k].doNotMonitor
  <2>1. PICK l \in n + 1 .. NumDevices : opts'[k] = opts[l]
    <3>1. CASE k <= i
      <4>1. opts'[k] = opts[k - 1] /\ k - 1 \in n + 1 .. NumDevices
        BY <1>1, <1>5, <3>1
      <4> QED BY <4>1
    <3>2. CASE k > i
      <4>1. opts'[k] = opts[k] /\ k \in n + 1 .. NumDevices
        BY <1>1, <1>5, <3>2
      <4> QED BY <4>1
    <3> QED BY <1>1, <3>1, <3>2
  <2> QED BY <1>1, <1>8, <2>1 DEF OrderInv, MarkedInv, n
<1>9. MarkedInv'
  <2>1. n + 1 + 1 = n + 2
    BY <1>1
  <2> QED BY <1>2, <1>4, <1>8, <2>1 DEF MarkedInv, NumDevices, Members
<1>10. KeepsOrder(monitored', before')
  BY <1>2, <1>7
<1> QED BY <1>9, <1>10 DEF OrderInv

\* Every step keeps the order.
LEMMA NextOrderInv == IInv /\ PlaceInv /\ OrderInv /\ [Next]_vars => OrderInv'
<1> SUFFICES ASSUME IInv, PlaceInv, OrderInv, [Next]_vars PROVE OrderInv'
  OBVIOUS
<1>1. ASSUME OpenSetup \/ CloseSetup \/ (\E i \in 1 .. NumDevices : ToggleMonitored(i))
      PROVE  OrderInv'
  <2>1. /\ UNCHANGED <<monitored, before>> /\ pc' = "idle"
    BY <1>1 DEF OpenSetup, CloseSetup, ToggleMonitored, lists
  <2> QED BY <2>1 DEF OrderInv, KeepsOrder, MarkedInv
<1>2. CASE CheckChange
  BY <1>2, CheckChangeOrder
<1>3. CASE Demote
  BY <1>3, DemoteOrder
<1>4. CASE Promote
  BY <1>4, PromoteOrder
<1>5. CASE DemoteEnd
  <2>1. UNCHANGED <<monitored, opts, before>> /\ pc = "demote"
    BY <1>5 DEF DemoteEnd, lists
  <2> QED BY <2>1 DEF OrderInv, KeepsOrder, MarkedInv, NumDevices, Members
<1>6. ASSUME PromoteEnd \/ SetCallbacks PROVE OrderInv'
  <2>1. UNCHANGED <<monitored, before>> /\ pc' \notin {"demote", "promote"}
    BY <1>6 DEF PromoteEnd, SetCallbacks, lists
  <2> QED BY <2>1 DEF OrderInv, KeepsOrder, MarkedInv
<1>7. CASE KeepOne
  <2>1. before' = before /\ pc' = "callbacks"
        /\ (monitored' = monitored \/ monitored' = <<nonMonitored[1]>>)
    BY <1>7 DEF KeepOne, lists
  <2>2. CASE monitored' = monitored
    BY <2>1, <2>2 DEF OrderInv, KeepsOrder, MarkedInv
  <2>3. CASE monitored' = <<nonMonitored[1]>>
    <3>1. Len(monitored') = 1
      BY <2>3
    <3>2. \A k, l \in 1 .. Len(monitored') : ~(k < l)
      BY <3>1
    <3> QED BY <2>1, <3>2 DEF OrderInv, KeepsOrder, MarkedInv
  <2> QED BY <2>1, <2>2, <2>3
<1>8. CASE UNCHANGED vars
  BY <1>8 DEF vars, OrderInv, KeepsOrder, MarkedInv, NumDevices, Members
<1> QED BY <1>1, <1>2, <1>3, <1>4, <1>5, <1>6, <1>7, <1>8 DEF Next

\* GPUs that stay monitored keep their order on the screen, for any number of
\* GPUs and any choice of those that leave and join.
THEOREM StayersOrdered == Spec => []StayersKeepOrder
<1>1. OrderInv => StayersKeepOrder
  BY DEF OrderInv, StayersKeepOrder
<1> QED BY <1>1, InitIInv, NextIInv, InitPlaceInv, NextPlaceInv, InitOrderInv, NextOrderInv,
           PTL DEF Spec

-----------------------------------------------------------------------------
(* Metrics and their ranks                                                 *)

\* The metrics drawn for a GPU are finitely many, no more than a chart has lines.
LEMMA DrawableFinite ==
    ASSUME NEW draw \in Drawable
    PROVE  /\ IsFiniteSet(draw) /\ Cardinality(draw) \in Nat /\ Cardinality(draw) <= MaxLines
           /\ draw \subseteq Metric
<1>1. IsFiniteSet(Metric)
  BY FS_Interval, ChartAssumption DEF Metric
<1>2. draw \in SUBSET Metric /\ Cardinality(draw) <= MaxLines
  BY DEF Drawable
<1>3. IsFiniteSet(draw)
  BY <1>1, <1>2, FS_Subset
<1> QED BY <1>2, <1>3, FS_CardinalityType

\* A metric more or less is still drawable: plot_add_draw_info checks for room.
LEMMA ToggledDrawable ==
    ASSUME NEW draw \in Drawable, NEW m \in Metric
    PROVE  draw \ {m} \in Drawable /\ PlotAddDrawInfo(m, draw) \in Drawable
<1>1. /\ IsFiniteSet(draw) /\ Cardinality(draw) \in Nat /\ Cardinality(draw) <= MaxLines
      /\ draw \subseteq Metric
  BY DrawableFinite
<1>2. MaxLines \in Nat
  BY ChartAssumption
<1>3. Cardinality(draw \ {m}) <= MaxLines
  BY <1>1, <1>2, FS_RemoveElement
<1>4. Cardinality(draw) < MaxLines => Cardinality(draw \cup {m}) <= MaxLines
  <2>1. Cardinality(draw \cup {m}) = IF m \in draw THEN Cardinality(draw) ELSE Cardinality(draw) + 1
    BY <1>1, FS_AddElement
  <2> QED BY <1>1, <1>2, <2>1
<1> QED BY <1>1, <1>3, <1>4 DEF Drawable, PlotAddDrawInfo

\* Every metric that is drawn has a line.
LEMMA RankIsLine ==
    ASSUME NEW draw \in Drawable, NEW m \in draw
    PROVE  DataIndex(m, draw) \in Line
<1> DEFINE below == {x \in draw : x < m}
<1>1. /\ IsFiniteSet(draw) /\ Cardinality(draw) \in Nat /\ Cardinality(draw) <= MaxLines
      /\ draw \subseteq Metric
  BY DrawableFinite
<1>2. MaxLines \in Nat /\ NumMetric \in Nat
  BY ChartAssumption
<1>3. below \in SUBSET (draw \ {m})
  BY <1>1, <1>2 DEF Metric
<1>4. IsFiniteSet(draw \ {m}) /\ Cardinality(draw \ {m}) = Cardinality(draw) - 1
  BY <1>1, FS_RemoveElement
<1> HIDE DEF below
<1>5. IsFiniteSet(below) /\ Cardinality(below) <= Cardinality(draw \ {m})
  BY <1>3, <1>4, FS_Subset
<1>6. Cardinality(below) \in Nat
  BY <1>5, FS_CardinalityType
<1>7. Cardinality(below) \in 0 .. MaxLines - 1
  BY <1>1, <1>2, <1>4, <1>5, <1>6
<1> QED BY <1>7 DEF below, DataIndex, Line

\* A smaller metric has a smaller rank.
LEMMA RanksGrow ==
    ASSUME NEW draw \in Drawable, NEW m \in draw, NEW n \in draw, m < n
    PROVE  DataIndex(m, draw) < DataIndex(n, draw)
<1> DEFINE below(k) == {x \in draw : x < k}
<1>1. IsFiniteSet(draw) /\ draw \subseteq Metric /\ NumMetric \in Nat
  BY DrawableFinite, ChartAssumption
<1>2. \A k \in draw : IsFiniteSet(below(k)) /\ Cardinality(below(k)) \in Nat
  <2> TAKE k \in draw
  <2>1. below(k) \in SUBSET draw
    OBVIOUS
  <2>2. IsFiniteSet(below(k))
    BY <1>1, <2>1, FS_Subset
  <2> QED BY <2>2, FS_CardinalityType
<1>3. below(m) \in SUBSET below(n)
  <2>1. \A x \in draw : x \in Int
    BY <1>1 DEF Metric
  <2>2. \A x \in draw : x < m => x < n
    BY <2>1
  <2> QED BY <2>2
<1>4. m \in below(n) /\ m \notin below(m)
  BY <1>1 DEF Metric
<1> HIDE DEF below
<1>5. /\ Cardinality(below(m)) <= Cardinality(below(n))
      /\ Cardinality(below(n)) = Cardinality(below(m)) => below(n) = below(m)
  BY <1>2, <1>3, FS_Subset
<1>6. Cardinality(below(m)) < Cardinality(below(n))
  BY <1>2, <1>4, <1>5
<1> QED BY <1>6 DEF below, DataIndex

\* No two metrics of a GPU share a line.
LEMMA RanksDiffer ==
    ASSUME NEW draw \in Drawable, NEW m \in draw, NEW n \in draw,
           DataIndex(m, draw) = DataIndex(n, draw)
    PROVE  m = n
<1>1. m \in Int /\ n \in Int
  BY DrawableFinite DEF Metric
<1>2. DataIndex(m, draw) \in Int
  BY RankIsLine, ChartAssumption DEF Line
<1>3. ~(m < n)
  <2> SUFFICES ASSUME m < n PROVE FALSE
    OBVIOUS
  <2>1. DataIndex(m, draw) < DataIndex(n, draw)
    BY RanksGrow
  <2> QED BY <1>2, <2>1
<1>4. ~(n < m)
  <2> SUFFICES ASSUME n < m PROVE FALSE
    OBVIOUS
  <2>1. DataIndex(n, draw) < DataIndex(m, draw)
    BY RanksGrow
  <2> QED BY <1>2, <2>1
<1> QED BY <1>1, <1>3, <1>4

-----------------------------------------------------------------------------
(* The samples of one line                                                 *)

\* The samples are those of metric m of GPU g, one for each of the latest
\* refreshes up to the r-th.
Own(s, g, m, r) ==
    \A k \in 1 .. Len(s) : s[k].gpu = g /\ s[k].metric = m /\ s[k].at = r - (Len(s) - k)

\* A pushed sample drops the oldest one of a full line.
LEMMA NewestOwn ==
    ASSUME NEW s \in Seq(Sample), NEW g \in Gpu, NEW m \in Metric, NEW r \in Nat,
           r + 1 <= MaxRefresh, Own(s, g, m, r)
    PROVE  LET new == Newest(Append(s, [gpu |-> g, metric |-> m, at |-> r + 1]))
           IN  new \in Seq(Sample) /\ Own(new, g, m, r + 1)
<1> DEFINE x == [gpu |-> g, metric |-> m, at |-> r + 1]
           longer == Append(s, x)
<1>1. x \in Sample /\ x.gpu = g /\ x.metric = m /\ x.at = r + 1
  BY ChartAssumption DEF Sample
<1>2. Len(s) \in Nat
  OBVIOUS
<1> HIDE DEF x
<1>3. /\ longer \in Seq(Sample) /\ Len(longer) = Len(s) + 1
      /\ \A k \in 1 .. Len(s) : longer[k] = s[k]
      /\ longer[Len(s) + 1] = x
  BY <1>1
<1> HIDE DEF longer
<1>4. Own(longer, g, m, r + 1)
  <2> SUFFICES ASSUME NEW k \in 1 .. Len(s) + 1
               PROVE  /\ longer[k].gpu = g /\ longer[k].metric = m
                      /\ longer[k].at = r + 1 - (Len(s) + 1 - k)
    BY <1>3 DEF Own
  <2>1. CASE k = Len(s) + 1
    BY <1>1, <1>2, <1>3, <2>1
  <2>2. CASE k \in 1 .. Len(s)
    <3>1. r - (Len(s) - k) = r + 1 - (Len(s) + 1 - k)
      BY <1>2, <2>2
    <3> QED BY <1>3, <2>2, <3>1 DEF Own
  <2> QED BY <1>2, <2>1, <2>2
<1> DEFINE rest == Tail(longer)
<1>5. rest \in Seq(Sample) /\ Own(rest, g, m, r + 1)
  <2>1. /\ rest \in Seq(Sample) /\ Len(rest) = Len(s)
        /\ \A k \in 1 .. Len(s) : rest[k] = longer[k + 1]
    BY <1>2, <1>3
  <2> HIDE DEF rest
  <2>2. ASSUME NEW k \in 1 .. Len(rest)
        PROVE  rest[k].gpu = g /\ rest[k].metric = m /\ rest[k].at = r + 1 - (Len(rest) - k)
    <3>1. k + 1 \in 1 .. Len(longer) /\ Len(longer) - (k + 1) = Len(rest) - k
      BY <1>2, <1>3, <2>1
    <3>2. rest[k] = longer[k + 1]
      BY <2>1
    <3>3. /\ longer[k + 1].gpu = g /\ longer[k + 1].metric = m
          /\ longer[k + 1].at = r + 1 - (Len(longer) - (k + 1))
      BY <1>4, <3>1 DEF Own
    <3> QED BY <3>1, <3>2, <3>3
  <2>3. Own(rest, g, m, r + 1)
    BY <2>2 DEF Own
  <2> QED BY <2>1, <2>3
<1>6. Newest(longer) \in Seq(Sample) /\ Own(Newest(longer), g, m, r + 1)
  BY <1>3, <1>4, <1>5 DEF Newest
<1> QED BY <1>6 DEF longer, x, Newest

-----------------------------------------------------------------------------
(* The charts                                                              *)

\* Every line that is drawn holds the samples of its own GPU and metric.
LinesOwn ==
    \A p \in 1 .. Len(monitored) : \A m \in ToDrawAt(p) :
        Own(Drawn(p, m), monitored[p], m, refresh)

\* Between two calls of interface_check_and_fix_monitored_gpus the store has
\* one device for every monitored GPU.  The setup window is closed during the
\* call.
ChartInv ==
    /\ ChartTypeOK
    /\ pc = "idle" => Len(hist) = Len(monitored) /\ LinesOwn
    /\ pc # "idle" => ~setupVisible

ListInv == IInv /\ PlaceInv /\ OrderInv

\* What a step of the interface finds.
LEMMA AtRest ==
    ASSUME ListInv, ChartInv, pc = "idle"
    PROVE  /\ NumDevices \in Nat \ {0} /\ Len(monitored) \in 1 .. NumDevices
           /\ monitored \in Seq(Gpu) /\ opts \in [1 .. NumDevices -> Opt]
           /\ \A p \in 1 .. NumDevices : opts[p].gpu \in Gpu
           /\ \A p \in 1 .. Len(monitored) : opts[p].gpu = monitored[p]
           /\ hist \in Seq([Line -> Seq(Sample)]) /\ DOMAIN hist = 1 .. Len(monitored)
           /\ toDraw \in [Gpu -> Drawable] /\ refresh \in Nat /\ refresh <= MaxRefresh
           /\ LinesOwn
<1>1. NumDevices \in Nat \ {0} /\ monitored \in Seq(Gpu) /\ opts \in [1 .. NumDevices -> Opt]
  BY GpuAssumption DEF ListInv, IInv, TypeOK, NumDevices
<1>2. \A p \in 1 .. NumDevices : opts[p].gpu \in Gpu
  BY <1>1 DEF Opt
<1>3. /\ Len(monitored) \in 1 .. NumDevices
      /\ \A p \in 1 .. Len(monitored) : opts[p].gpu = monitored[p]
  <2>1. Len(monitored) >= 1
    BY DEF ListInv, IInv, LoopInv
  <2>2. Len(monitored) \in Nat /\ Len(nonMonitored) \in Nat
    BY DEF ListInv, IInv, TypeOK
  <2>3. Len(monitored) + Len(nonMonitored) = NumDevices
    BY DEF ListInv, IInv, OptsInSync
  <2>4. \A p \in 1 .. Len(monitored) : opts[p].gpu = monitored[p]
    BY DEF ListInv, IInv, OptsInSync
  <2> QED BY <1>1, <2>1, <2>2, <2>3, <2>4
<1>4. /\ hist \in Seq([Line -> Seq(Sample)]) /\ Len(hist) = Len(monitored)
      /\ toDraw \in [Gpu -> Drawable] /\ refresh \in 0 .. MaxRefresh /\ LinesOwn
  BY DEF ChartInv, ChartTypeOK
<1>5. DOMAIN hist = 1 .. Len(monitored) /\ refresh \in Nat /\ refresh <= MaxRefresh
  BY <1>4, ChartAssumption
<1> QED BY <1>1, <1>2, <1>3, <1>4, <1>5

\* The metrics of a monitored GPU are drawable.
LEMMA ToDrawType ==
    ASSUME ListInv, ChartInv, pc = "idle", NEW p \in 1 .. Len(monitored)
    PROVE  ToDrawAt(p) \in Drawable /\ p \in 1 .. NumDevices
<1>1. p \in 1 .. NumDevices
  BY AtRest
<1> QED BY <1>1, AtRest DEF ToDrawAt

\* A store with nothing in it shows nothing wrong.
LEMMA NoSamplesOwn ==
    /\ NoSamples \in [Line -> Seq(Sample)]
    /\ \A w \in Line : \A g, m, r : Own(NoSamples[w], g, m, r)
<1>1. NoSamples \in [Line -> Seq(Sample)]
  BY DEF NoSamples
<1>2. \A w \in Line : NoSamples[w] = <<>> /\ Len(NoSamples[w]) = 0
  BY DEF NoSamples
<1> QED BY <1>1, <1>2 DEF Own

\* One refresh adds one sample to each line that is drawn.
LEMMA SaveCurrentDataChart ==
    ASSUME ListInv, ChartInv, NEW valid, SaveCurrentData(valid)
    PROVE  ChartInv'
<1> DEFINE Line_(p, w) ==
               IF \E m \in ToDrawAt(p) : DataIndex(m, ToDrawAt(p)) = w
               THEN LET m == CHOOSE m \in ToDrawAt(p) : DataIndex(m, ToDrawAt(p)) = w
                    IN  Newest(Append(hist[p][w],
                                      [gpu |-> monitored[p], metric |-> m, at |-> refresh']))
               ELSE hist[p][w]
<1>1. /\ pc = "idle" /\ refresh < MaxRefresh /\ refresh' = refresh + 1
      /\ hist' = [p \in DOMAIN hist |-> [w \in Line |-> Line_(p, w)]]
      /\ UNCHANGED <<monitored, opts, pc, setupVisible, toDraw>>
  BY DEF SaveCurrentData, vars
<1>2. ASSUME NEW p \in 1 .. Len(monitored), NEW m \in ToDrawAt(p)
      PROVE  /\ DataIndex(m, ToDrawAt(p)) \in Line
             /\ Line_(p, DataIndex(m, ToDrawAt(p))) \in Seq(Sample)
             /\ Own(Line_(p, DataIndex(m, ToDrawAt(p))), monitored[p], m, refresh')
  <2> DEFINE w == DataIndex(m, ToDrawAt(p))
             s == hist[p][w]
             n == CHOOSE n \in ToDrawAt(p) : DataIndex(n, ToDrawAt(p)) = w
             x == [gpu |-> monitored[p], metric |-> m, at |-> refresh + 1]
  <2>1. ToDrawAt(p) \in Drawable
    BY <1>1, ToDrawType
  <2>2. w \in Line
    BY <2>1, RankIsLine
  <2>3. n \in ToDrawAt(p) /\ DataIndex(n, ToDrawAt(p)) = w
    OBVIOUS
  <2>4. n = m
    BY <2>1, <2>3, RanksDiffer
  <2>5. Line_(p, w) = Newest(Append(s, x))
    BY <1>1, <2>4
  <2>6. s \in Seq(Sample) /\ monitored[p] \in Gpu /\ m \in Metric
    <3>1. hist[p] \in [Line -> Seq(Sample)] /\ monitored[p] \in Gpu
      BY <1>1, AtRest
    <3>2. m \in Metric
      BY <2>1, DrawableFinite
    <3> QED BY <2>2, <3>1, <3>2
  <2>7. Own(s, monitored[p], m, refresh) /\ refresh \in Nat /\ refresh + 1 <= MaxRefresh
    <3>1. LinesOwn /\ refresh \in Nat
      BY <1>1, AtRest
    <3>2. refresh + 1 <= MaxRefresh
      BY <1>1, <3>1, ChartAssumption
    <3> QED BY <3>1, <3>2 DEF LinesOwn, Drawn
  <2> HIDE DEF s
  <2>8. Newest(Append(s, x)) \in Seq(Sample) /\ Own(Newest(Append(s, x)), monitored[p], m, refresh + 1)
    BY <2>6, <2>7, NewestOwn
  <2> HIDE DEF w, x, Line_
  <2>9. Line_(p, w) \in Seq(Sample) /\ Own(Line_(p, w), monitored[p], m, refresh')
    BY <1>1, <2>5, <2>8
  <2> QED BY <2>2, <2>9 DEF w
<1>3. ASSUME NEW p \in 1 .. Len(monitored), NEW w \in Line PROVE Line_(p, w) \in Seq(Sample)
  <2>1. CASE \E m \in ToDrawAt(p) : DataIndex(m, ToDrawAt(p)) = w
    <3>1. PICK m \in ToDrawAt(p) : DataIndex(m, ToDrawAt(p)) = w
      BY <2>1
    <3> HIDE DEF Line_
    <3> QED BY <1>2, <3>1
  <2>2. CASE ~\E m \in ToDrawAt(p) : DataIndex(m, ToDrawAt(p)) = w
    <3>1. Line_(p, w) = hist[p][w]
      BY <2>2
    <3> HIDE DEF Line_
    <3>2. hist[p] \in [Line -> Seq(Sample)]
      BY <1>1, AtRest
    <3> QED BY <3>1, <3>2
  <2> QED BY <2>1, <2>2
<1> HIDE DEF Line_
<1>4. /\ hist' \in Seq([Line -> Seq(Sample)]) /\ Len(hist') = Len(monitored)
      /\ \A p \in 1 .. Len(monitored) : \A w \in Line : hist'[p][w] = Line_(p, w)
  <2>1. DOMAIN hist = 1 .. Len(monitored) /\ Len(monitored) \in Nat
    BY <1>1, AtRest
  <2>2. hist' = [p \in 1 .. Len(monitored) |-> [w \in Line |-> Line_(p, w)]]
    BY <1>1, <2>1
  <2>3. \A p \in 1 .. Len(monitored) : [w \in Line |-> Line_(p, w)] \in [Line -> Seq(Sample)]
    BY <1>3
  <2>4. hist' \in [1 .. Len(monitored) -> [Line -> Seq(Sample)]]
    BY <2>2, <2>3
  <2>5. hist' \in Seq([Line -> Seq(Sample)]) /\ Len(hist') = Len(monitored)
    BY <2>1, <2>4
  <2> QED BY <2>2, <2>5
<1>5. LinesOwn'
  <2> SUFFICES ASSUME NEW p \in 1 .. Len(monitored), NEW m \in ToDrawAt(p)
               PROVE  Own(hist'[p][DataIndex(m, ToDrawAt(p))], monitored[p], m, refresh')
    BY <1>1 DEF LinesOwn, Drawn, ToDrawAt
  <2> QED BY <1>2, <1>4
<1>6. refresh' \in 0 .. MaxRefresh /\ toDraw' \in [Gpu -> Drawable]
  <2>1. refresh \in Nat /\ toDraw \in [Gpu -> Drawable]
    BY <1>1, AtRest
  <2> QED BY <1>1, <2>1, ChartAssumption
<1> QED BY <1>1, <1>4, <1>5, <1>6 DEF ChartInv, ChartTypeOK
\* Enter on a metric of one GPU: its lines are emptied, and no other GPU has
\* the same options.
LEMMA ToggleChartChart ==
    ASSUME ListInv, ChartInv, NEW q, NEW metric \in Metric, ToggleChart(q, metric)
    PROVE  ChartInv'
<1> DEFINE g == opts[q].gpu
           draw == IF metric \in toDraw[g] THEN toDraw[g] \ {metric}
                   ELSE PlotAddDrawInfo(metric, toDraw[g])
<1>1. /\ pc = "idle" /\ setupVisible /\ q \in DOMAIN hist
      /\ toDraw' = [toDraw EXCEPT ![g] = draw]
      /\ hist' = [hist EXCEPT ![q] = NoSamples]
      /\ UNCHANGED <<monitored, opts, pc, setupVisible, refresh>>
  BY DEF ToggleChart, vars
<1>2. /\ q \in 1 .. Len(monitored) /\ q \in 1 .. NumDevices /\ g \in Gpu
      /\ toDraw[g] \in Drawable
  BY <1>1, AtRest
<1>3. draw \in Drawable
  BY <1>2, ToggledDrawable
<1>4. /\ toDraw \in [Gpu -> Drawable] /\ hist \in Seq([Line -> Seq(Sample)])
      /\ Len(hist) = Len(monitored) /\ refresh \in Nat /\ refresh <= MaxRefresh
      /\ \A p \in 1 .. Len(monitored) : p \in 1 .. NumDevices /\ opts[p].gpu \in Gpu
  BY <1>1, AtRest DEF ChartInv
<1>5. toDraw' \in [Gpu -> Drawable] /\ \A h \in Gpu \ {g} : toDraw'[h] = toDraw[h]
  <2> HIDE DEF draw, g
  <2> QED BY <1>1, <1>2, <1>3, <1>4
<1>6. /\ hist' \in Seq([Line -> Seq(Sample)]) /\ Len(hist') = Len(monitored)
      /\ hist'[q] = NoSamples
      /\ \A p \in 1 .. Len(monitored) : p # q => hist'[p] = hist[p]
  <2> HIDE DEF draw, g
  <2> QED BY <1>1, <1>2, <1>4, NoSamplesOwn
<1>7. LinesOwn'
  <2> SUFFICES ASSUME NEW p \in 1 .. Len(monitored), NEW m \in toDraw'[opts[p].gpu]
               PROVE  Own(hist'[p][DataIndex(m, toDraw'[opts[p].gpu])], monitored[p], m, refresh)
    BY <1>1 DEF LinesOwn, Drawn, ToDrawAt
  <2>1. toDraw'[opts[p].gpu] \in Drawable
    BY <1>4, <1>5
  <2>2. DataIndex(m, toDraw'[opts[p].gpu]) \in Line
    BY <2>1, RankIsLine
  <2>3. CASE p = q
    BY <1>6, <2>2, <2>3, NoSamplesOwn
  <2>4. CASE p # q
    <3>1. opts[p].gpu # g
      BY <1>2, <1>4, <2>4 DEF ListInv, PlaceInv, OnceEach
    <3>2. toDraw'[opts[p].gpu] = ToDrawAt(p)
      BY <1>4, <1>5, <3>1 DEF ToDrawAt
    <3>3. m \in ToDrawAt(p) /\ LinesOwn
      BY <1>1, <3>2, AtRest
    <3>4. hist'[p] = hist[p]
      BY <1>6, <2>4
    <3> QED BY <3>2, <3>3, <3>4 DEF LinesOwn, Drawn
  <2> QED BY <2>3, <2>4
<1>8. refresh \in 0 .. MaxRefresh
  BY <1>4, ChartAssumption
<1> QED BY <1>1, <1>5, <1>6, <1>7, <1>8 DEF ChartInv, ChartTypeOK

\* Enter on a metric of all GPUs: all lines are emptied.
LEMMA ToggleChartAllChart ==
    ASSUME ListInv, ChartInv, NEW metric \in Metric, ToggleChartAll(metric)
    PROVE  ChartInv'
<1> DEFINE all   == \A p \in DOMAIN hist : metric \in ToDrawAt(p)
           shown == {opts[p].gpu : p \in DOMAIN hist}
           draw(g) == IF g \notin shown THEN toDraw[g]
                      ELSE IF all THEN toDraw[g] \ {metric}
                      ELSE PlotAddDrawInfo(metric, toDraw[g])
<1>1. /\ pc = "idle" /\ setupVisible
      /\ toDraw' = [g \in Gpu |-> draw(g)]
      /\ hist' = [p \in DOMAIN hist |-> NoSamples]
      /\ UNCHANGED <<monitored, opts, pc, setupVisible, refresh>>
  BY DEF ToggleChartAll, vars
<1>2. /\ toDraw \in [Gpu -> Drawable] /\ DOMAIN hist = 1 .. Len(monitored)
      /\ Len(monitored) \in Nat /\ refresh \in Nat /\ refresh <= MaxRefresh
      /\ \A p \in 1 .. Len(monitored) : opts[p].gpu \in Gpu
  BY <1>1, AtRest
<1>3. \A g \in Gpu : draw(g) \in Drawable
  <2> TAKE g \in Gpu
  <2>1. toDraw[g] \in Drawable
    BY <1>2
  <2>2. toDraw[g] \ {metric} \in Drawable /\ PlotAddDrawInfo(metric, toDraw[g]) \in Drawable
    BY <2>1, ToggledDrawable
  <2> HIDE DEF all, shown
  <2> QED BY <2>1, <2>2
<1> HIDE DEF draw
<1>4. toDraw' \in [Gpu -> Drawable]
  BY <1>1, <1>3
<1>5. /\ hist' \in Seq([Line -> Seq(Sample)]) /\ Len(hist') = Len(monitored)
      /\ \A p \in 1 .. Len(monitored) : hist'[p] = NoSamples
  <2>1. hist' = [p \in 1 .. Len(monitored) |-> NoSamples]
    BY <1>1, <1>2
  <2> QED BY <1>2, <2>1, NoSamplesOwn
<1>6. LinesOwn'
  <2> SUFFICES ASSUME NEW p \in 1 .. Len(monitored), NEW m \in toDraw'[opts[p].gpu]
               PROVE  Own(hist'[p][DataIndex(m, toDraw'[opts[p].gpu])], monitored[p], m, refresh)
    BY <1>1 DEF LinesOwn, Drawn, ToDrawAt
  <2>1. toDraw'[opts[p].gpu] \in Drawable
    BY <1>2, <1>4
  <2>2. DataIndex(m, toDraw'[opts[p].gpu]) \in Line
    BY <2>1, RankIsLine
  <2> QED BY <1>5, <2>2, NoSamplesOwn
<1>7. refresh \in 0 .. MaxRefresh
  BY <1>2, ChartAssumption
<1> QED BY <1>1, <1>4, <1>5, <1>6, <1>7 DEF ChartInv, ChartTypeOK

\* The store that is allocated for the new monitored GPUs is empty.
LEMMA ReinitializeChart ==
    ASSUME ListInv, ChartInv, Reinitialize
    PROVE  ChartInv'
<1>1. /\ pc = "callbacks" /\ pc' = "idle"
      /\ hist' = [p \in 1 .. Len(monitored) |-> NoSamples]
      /\ UNCHANGED <<monitored, opts, setupVisible, toDraw, refresh>>
  BY DEF Reinitialize, SetCallbacks, lists, screen
<1>2. /\ Len(monitored) \in Nat /\ toDraw \in [Gpu -> Drawable] /\ refresh \in 0 .. MaxRefresh
      /\ opts \in [1 .. NumDevices -> Opt] /\ NumDevices \in Nat
      /\ Len(nonMonitored) \in Nat /\ Len(monitored) + Len(nonMonitored) = NumDevices
  BY GpuAssumption DEF ListInv, IInv, TypeOK, OptsInSync, ChartInv, ChartTypeOK, NumDevices
<1>3. /\ hist' \in Seq([Line -> Seq(Sample)]) /\ Len(hist') = Len(monitored)
      /\ \A p \in 1 .. Len(monitored) : hist'[p] = NoSamples
  BY <1>1, <1>2, NoSamplesOwn
<1>4. LinesOwn'
  <2> SUFFICES ASSUME NEW p \in 1 .. Len(monitored), NEW m \in toDraw[opts[p].gpu]
               PROVE  Own(hist'[p][DataIndex(m, toDraw[opts[p].gpu])], monitored[p], m, refresh)
    BY <1>1 DEF LinesOwn, Drawn, ToDrawAt
  <2>1. toDraw[opts[p].gpu] \in Drawable
    <3>1. p \in 1 .. NumDevices
      BY <1>2
    <3>2. opts[p].gpu \in Gpu
      BY <1>2, <3>1 DEF Opt
    <3> QED BY <1>2, <3>2
  <2>2. DataIndex(m, toDraw[opts[p].gpu]) \in Line
    BY <2>1, RankIsLine
  <2> QED BY <1>3, <2>2, NoSamplesOwn
<1> QED BY <1>1, <1>2, <1>3, <1>4 DEF ChartInv, ChartTypeOK

\* Steps that leave the charts and the places of the GPUs alone.
LEMMA ChartKept ==
    ASSUME ListInv, ChartInv, UNCHANGED <<monitored, chart, pc>>,
           \A p \in 1 .. NumDevices : opts'[p].gpu = opts[p].gpu,
           pc # "idle" => setupVisible' = setupVisible
    PROVE  ChartInv'
<1>1. UNCHANGED <<monitored, toDraw, hist, refresh, pc>>
  BY DEF chart
<1>2. ChartTypeOK'
  BY <1>1 DEF ChartInv, ChartTypeOK
<1>3. pc = "idle" => LinesOwn'
  <2> SUFFICES ASSUME pc = "idle", NEW p \in 1 .. Len(monitored), NEW m \in toDraw[opts'[p].gpu]
               PROVE  Own(hist[p][DataIndex(m, toDraw[opts'[p].gpu])], monitored[p], m, refresh)
    BY <1>1 DEF LinesOwn, Drawn, ToDrawAt
  <2>1. opts'[p].gpu = opts[p].gpu /\ LinesOwn
    BY AtRest
  <2> QED BY <2>1 DEF LinesOwn, Drawn, ToDrawAt
<1> QED BY <1>1, <1>2, <1>3 DEF ChartInv

\* The loops and the start of the call do not touch the store; it is out of
\* date until the call returns.
LEMMA LoopsChart ==
    ASSUME ListInv, ChartInv, Loops
    PROVE  ChartInv'
<1>1. UNCHANGED <<toDraw, hist, refresh>> /\ UNCHANGED setupVisible
  BY DEF Loops, chart, CheckChange, Demote, DemoteEnd, Promote, PromoteEnd, KeepOne, screen
<1>2. pc' # "idle"
  BY DEF Loops, CheckChange, Demote, DemoteEnd, Promote, PromoteEnd, KeepOne
<1>3. ~setupVisible
  BY DEF Loops, CheckChange, Demote, DemoteEnd, Promote, PromoteEnd, KeepOne, ChartInv
<1> QED BY <1>1, <1>2, <1>3 DEF ChartInv, ChartTypeOK
\* At the start nothing is stored.
LEMMA ChartInitInv == ChartInit => ChartInv
<1> SUFFICES ASSUME ChartInit PROVE ChartInv
  OBVIOUS
<1>1. hist = <<>> /\ refresh = 0 /\ toDraw \in [Gpu -> Drawable] /\ pc = "demote" /\ ~setupVisible
  BY ChartAssumption DEF ChartInit, Init
<1>2. refresh \in 0 .. MaxRefresh
  BY <1>1, ChartAssumption
<1> QED BY <1>1, <1>2 DEF ChartInv, ChartTypeOK

-----------------------------------------------------------------------------
(* The rows of the window                                                  *)

Cursor == [section : 1 .. 5, level : 0 .. 2, row : Nat, item : Nat]

\* Where drawing leaves the cursor, section by section.
OnEntry(c, draw, shown) ==
    /\ c.section = 1 => c.level <= 1 /\ (c.level = 1 => c.row <= 2)
    /\ c.section = 2 => c.level <= 1 /\ c.row <= 2
    /\ c.section = 3 => /\ c.row <= AllGpuRow(draw) + Len(hist)
                        /\ c.row < AllGpuRow(draw) => c.level <= 1
                        /\ c.row >= AllGpuRow(draw) => c.item <= NumMetric - 1
    /\ c.section = 4 => /\ c.row <= Display
                        /\ c.row < SortBy => c.level <= 1
                        /\ c.row = SortBy /\ c.level = 2 => c.item <= Cardinality(shown) - 1
                        /\ c.row = Display => c.item <= NumField - 1
    /\ c.section = 5 => c.level <= 1 /\ (c.level = 1 => c.row <= NumDevices - 1)

\* The five sections by number.
LEMMA SectionNames ==
    ASSUME NEW c \in Cursor
    PROVE  /\ Section(c) = "general" <=> c.section = 1
           /\ Section(c) = "header"  <=> c.section = 2
           /\ Section(c) = "chart"   <=> c.section = 3
           /\ Section(c) = "process" <=> c.section = 4
           /\ Section(c) = "gpus"    <=> c.section = 5
           /\ c.section \in {1, 2, 3, 4, 5}
<1>1. c.section \in {1, 2, 3, 4, 5}
  BY DEF Cursor
<1> QED BY <1>1 DEF Section, Sections

\* The operators that cut the cursor down change one number each.
LEMMA CutDown ==
    ASSUME NEW c \in Cursor, NEW b \in Nat
    PROVE  /\ OneLevel(c) \in Cursor
           /\ OneLevel(c).section = c.section /\ OneLevel(c).row = c.row
           /\ OneLevel(c).item = c.item /\ OneLevel(c).level <= 1
           /\ OneLevel(c).level <= c.level /\ (c.level > 0 => OneLevel(c).level = 1)
           /\ RowsUpTo(c, b) \in Cursor
           /\ RowsUpTo(c, b).section = c.section /\ RowsUpTo(c, b).row <= b
           /\ RowsUpTo(c, b).item = c.item /\ RowsUpTo(c, b).level = c.level
           /\ ItemsUpTo(c, b) \in Cursor
           /\ ItemsUpTo(c, b).section = c.section /\ ItemsUpTo(c, b).row = c.row
           /\ ItemsUpTo(c, b).item <= b /\ ItemsUpTo(c, b).level = c.level
<1>1. c.level \in 0 .. 2 /\ c.row \in Nat /\ c.item \in Nat
  BY DEF Cursor
<1>2. /\ AtMost(c.level, 1) \in 0 .. 1 /\ AtMost(c.level, 1) <= c.level
      /\ (c.level > 0 => AtMost(c.level, 1) = 1)
      /\ AtMost(c.row, b) \in Nat /\ AtMost(c.row, b) <= b
      /\ AtMost(c.item, b) \in Nat /\ AtMost(c.item, b) <= b
  BY <1>1 DEF AtMost
<1>3. OneLevel(c) = [c EXCEPT !.level = AtMost(c.level, 1)]
  BY DEF OneLevel
<1>4. RowsUpTo(c, b) = [c EXCEPT !.row = AtMost(c.row, b)]
  BY DEF RowsUpTo
<1>5. ItemsUpTo(c, b) = [c EXCEPT !.item = AtMost(c.item, b)]
  BY DEF ItemsUpTo
<1>6. /\ OneLevel(c) \in Cursor
      /\ OneLevel(c).section = c.section /\ OneLevel(c).row = c.row
      /\ OneLevel(c).item = c.item /\ OneLevel(c).level = AtMost(c.level, 1)
  BY <1>2, <1>3 DEF Cursor
<1>7. /\ RowsUpTo(c, b) \in Cursor
      /\ RowsUpTo(c, b).section = c.section /\ RowsUpTo(c, b).row = AtMost(c.row, b)
      /\ RowsUpTo(c, b).item = c.item /\ RowsUpTo(c, b).level = c.level
  BY <1>2, <1>4 DEF Cursor
<1>8. /\ ItemsUpTo(c, b) \in Cursor
      /\ ItemsUpTo(c, b).section = c.section /\ ItemsUpTo(c, b).row = c.row
      /\ ItemsUpTo(c, b).item = AtMost(c.item, b) /\ ItemsUpTo(c, b).level = c.level
  BY <1>2, <1>5 DEF Cursor
<1> QED BY <1>2, <1>6, <1>7, <1>8

\* The metrics with a colour are finitely many.
LEMMA RefDrawFinite ==
    ASSUME ListInv, ChartInv, pc = "idle", NEW draw \in [Gpu -> Drawable]
    PROVE  /\ IsFiniteSet(RefDraw(draw)) /\ Cardinality(RefDraw(draw)) \in Nat
           /\ AllGpuRow(draw) \in Nat /\ AllGpuRow(draw) = 1 + Cardinality(RefDraw(draw))
<1>1. \A p \in DOMAIN hist : draw[opts[p].gpu] \subseteq Metric
  <2> TAKE p \in DOMAIN hist
  <2>1. opts[p].gpu \in Gpu
    BY AtRest
  <2>2. draw[opts[p].gpu] \in Drawable
    BY <2>1
  <2> QED BY <2>2, DrawableFinite
<1>2. RefDraw(draw) \in SUBSET Metric
  BY <1>1 DEF RefDraw
<1>3. IsFiniteSet(Metric)
  BY FS_Interval, ChartAssumption DEF Metric
<1>4. IsFiniteSet(RefDraw(draw)) /\ Cardinality(RefDraw(draw)) \in Nat
  BY <1>2, <1>3, FS_Subset, FS_CardinalityType
<1> QED BY <1>4 DEF AllGpuRow

\* The fields displayed are finitely many.
LEMMA FieldsFinite ==
    ASSUME NEW shown \in SUBSET Field
    PROVE  /\ IsFiniteSet(shown) /\ Cardinality(shown) \in Nat
           /\ shown # {} => Cardinality(shown) >= 1
<1>1. IsFiniteSet(Field)
  BY FS_Interval, SetupAssumption DEF Field
<1>2. IsFiniteSet(shown)
  BY <1>1, FS_Subset
<1>3. Cardinality(shown) \in Nat
  BY <1>2, FS_CardinalityType
<1>4. shown # {} => Cardinality(shown) # 0
  BY <1>2, FS_EmptySet
<1> QED BY <1>2, <1>3, <1>4

\* Drawing leaves the cursor on an entry, whatever it was.
LEMMA DrawnOnEntry ==
    ASSUME ListInv, ChartInv, pc = "idle",
           NEW c \in Cursor, NEW draw \in [Gpu -> Drawable], NEW shown \in SUBSET Field
    PROVE  LET d == draw_setup_window(c, draw, shown)
           IN  d \in Cursor /\ d.section = c.section /\ OnEntry(d, draw, shown)
<1> DEFINE d == draw_setup_window(c, draw, shown)
<1>1. /\ AllGpuRow(draw) \in Nat /\ Len(hist) \in Nat /\ NumMetric - 1 \in Nat
      /\ NumField - 1 \in Nat /\ NumDevices - 1 \in Nat
      /\ AllGpuRow(draw) + Len(hist) \in Nat
      /\ \A e \in Cursor : e.level \in 0 .. 2 /\ e.row \in Nat /\ e.item \in Nat
  <2>1. Len(hist) \in Nat
    BY DEF ChartInv, ChartTypeOK
  <2>2. AllGpuRow(draw) \in Nat
    BY RefDrawFinite
  <2>3. NumDevices \in Nat \ {0}
    BY AtRest
  <2>4. \A e \in Cursor : e.level \in 0 .. 2 /\ e.row \in Nat /\ e.item \in Nat
    BY DEF Cursor
  <2> QED BY <2>1, <2>2, <2>3, <2>4, ChartAssumption, SetupAssumption
<1>2. CASE c.section = 1
  <2>1. d = draw_setup_window_general(c)
    BY <1>2, SectionNames DEF draw_setup_window
  <2>2. CASE c.level = 0
    BY <1>2, <2>1, <2>2 DEF draw_setup_window_general, OnEntry
  <2>3. CASE c.level # 0
    <3>1. d = RowsUpTo(OneLevel(c), 2)
      BY <2>1, <2>3 DEF draw_setup_window_general
    <3>2. d \in Cursor /\ d.section = 1 /\ d.level <= 1 /\ d.row <= 2
      BY <1>2, <3>1, CutDown
    <3> QED BY <1>2, <3>2 DEF OnEntry
  <2> QED BY <2>2, <2>3
<1>3. CASE c.section = 2
  <2>1. d = RowsUpTo(OneLevel(c), 2)
    BY <1>3, SectionNames DEF draw_setup_window, draw_setup_window_header
  <2>2. d \in Cursor /\ d.section = 2 /\ d.level <= 1 /\ d.row <= 2
    BY <1>3, <2>1, CutDown
  <2> QED BY <1>3, <2>2 DEF OnEntry
<1>4. CASE c.section = 3
  <2> DEFINE e == RowsUpTo(c, AllGpuRow(draw) + Len(hist))
  <2>1. d = IF e.row < AllGpuRow(draw) THEN OneLevel(e) ELSE ItemsUpTo(e, NumMetric - 1)
    BY <1>4, SectionNames DEF draw_setup_window, draw_setup_window_chart
  <2>2. e \in Cursor /\ e.section = 3 /\ e.row <= AllGpuRow(draw) + Len(hist)
    BY <1>1, <1>4, CutDown
  <2> HIDE DEF e, d
  <2>3. CASE e.row < AllGpuRow(draw)
    <3>1. d \in Cursor /\ d.section = 3 /\ d.level <= 1 /\ d.row = e.row
      BY <2>1, <2>2, <2>3, CutDown
    <3> QED BY <1>1, <1>4, <2>2, <2>3, <3>1 DEF OnEntry, d
  <2>4. CASE ~(e.row < AllGpuRow(draw))
    <3>1. d \in Cursor /\ d.section = 3 /\ d.item <= NumMetric - 1 /\ d.row = e.row
      BY <1>1, <2>1, <2>2, <2>4, CutDown
    <3> QED BY <1>1, <1>4, <2>2, <2>4, <3>1 DEF OnEntry, d
  <2> QED BY <2>3, <2>4
<1>5. CASE c.section = 4
  <2> DEFINE e == RowsUpTo(c, Display)
  <2>1. e \in Cursor /\ e.section = 4 /\ e.row <= 4 /\ e.row \in Nat
    BY <1>1, <1>5, CutDown DEF Display
  <2>2. d = draw_setup_window_proc_list(c, shown)
    BY <1>5, SectionNames DEF draw_setup_window
  <2>3. Cardinality(shown) \in Nat /\ (shown # {} => Cardinality(shown) - 1 \in Nat)
    BY FieldsFinite
  <2>4. CASE e.row < SortBy \/ (e.row = SortBy /\ shown = {})
    <3>1. d = OneLevel(e)
      BY <2>1, <2>2, <2>4 DEF draw_setup_window_proc_list, SortBy, Display
    <3> HIDE DEF e, d
    <3>2. d \in Cursor /\ d.section = 4 /\ d.row = e.row /\ d.level <= 1
      BY <2>1, <3>1, CutDown
    <3>3. d.row <= 4 /\ d.row # 4 /\ ~(d.level = 2)
      BY <1>1, <2>1, <2>4, <3>2 DEF SortBy
    <3>4. OnEntry(d, draw, shown)
      BY <3>2, <3>3 DEF OnEntry, Display
    <3> QED BY <1>5, <3>2, <3>4 DEF d
  <2>5. CASE e.row = SortBy /\ shown # {}
    <3>1. d = ItemsUpTo(e, Cardinality(shown) - 1)
      BY <2>1, <2>2, <2>5 DEF draw_setup_window_proc_list, SortBy, Display
    <3> HIDE DEF e, d
    <3>2. d \in Cursor /\ d.section = 4 /\ d.row = e.row /\ d.item <= Cardinality(shown) - 1
      BY <2>1, <2>3, <2>5, <3>1, CutDown
    <3>3. OnEntry(d, draw, shown)
      BY <2>5, <3>2 DEF OnEntry, Display, SortBy
    <3> QED BY <1>5, <3>2, <3>3 DEF d
  <2>6. CASE e.row = Display
    <3>1. d = ItemsUpTo(e, NumField - 1)
      BY <2>1, <2>2, <2>6 DEF draw_setup_window_proc_list, SortBy, Display
    <3> HIDE DEF e, d
    <3>2. d \in Cursor /\ d.section = 4 /\ d.row = e.row /\ d.item <= NumField - 1
      BY <1>1, <2>1, <3>1, CutDown
    <3>3. OnEntry(d, draw, shown)
      BY <2>6, <3>2 DEF OnEntry, Display, SortBy
    <3> QED BY <1>5, <3>2, <3>3 DEF d
  <2> QED BY <2>1, <2>4, <2>5, <2>6 DEF SortBy, Display
<1>6. CASE c.section = 5
  <2>1. d = draw_setup_window_gpu_select(c)
    BY <1>6, SectionNames DEF draw_setup_window
  <2>2. CASE c.level = 0
    BY <1>6, <2>1, <2>2 DEF draw_setup_window_gpu_select, OnEntry
  <2>3. CASE c.level # 0
    <3>1. d = RowsUpTo(OneLevel(c), NumDevices - 1)
      BY <2>1, <2>3 DEF draw_setup_window_gpu_select
    <3>2. d \in Cursor /\ d.section = 5 /\ d.level <= 1 /\ d.row <= NumDevices - 1
      BY <1>1, <1>6, <3>1, CutDown
    <3> QED BY <1>6, <3>2 DEF OnEntry
  <2> QED BY <2>2, <2>3
<1> HIDE DEF d
<1>7. d \in Cursor /\ d.section = c.section /\ OnEntry(d, draw, shown)
  BY <1>2, <1>3, <1>4, <1>5, <1>6, SectionNames DEF d
<1> QED BY <1>7 DEF d
-----------------------------------------------------------------------------
(* The keys                                                                *)

\* While the window is shown, the cursor is where drawing left it.
WindowInv ==
    /\ cursor \in Cursor /\ fields \in SUBSET Field
    /\ interval \in 1 .. MaxInterval /\ timer \in Nat
    /\ colour \in [Line -> 0 .. NumColour - 1]
    /\ ended \in BOOLEAN /\ changes \in 0 .. MaxChanges
    /\ setupVisible => OnEntry(cursor, toDraw, fields)

SetupInv == ListInv /\ ChartInv /\ WindowInv

\* The arrow keys move the cursor to another cursor.
LEMMA ArrowsType ==
    ASSUME NEW c \in Cursor
    PROVE  /\ KEY_RIGHT(c) \in Cursor /\ KEY_LEFT(c) \in Cursor
           /\ UpDown(c, -1) \in Cursor /\ UpDown(c, 1) \in Cursor
<1>1. c.level \in 0 .. 2 /\ c.row \in Nat /\ c.item \in Nat /\ c.section \in 1 .. 5
  BY DEF Cursor
<1>2. KEY_RIGHT(c) \in Cursor
  <2>1. AtMost(c.level + 1, 2) \in 0 .. 2
    BY <1>1 DEF AtMost
  <2> QED BY <2>1 DEF KEY_RIGHT, Cursor
<1>3. KEY_LEFT(c) \in Cursor
  <2>1. (IF c.level > 0 THEN c.level - 1 ELSE 0) \in 0 .. 2
    BY <1>1
  <2> QED BY <2>1 DEF KEY_LEFT, Cursor
<1>4. ASSUME NEW by \in {-1, 1} PROVE UpDown(c, by) \in Cursor
  <2> DEFINE moved(n) == IF n + by < 0 THEN 0 ELSE n + by
  <2>1. \A n \in Nat : moved(n) \in Nat
    OBVIOUS
  <2>2. CASE c.level = 0
    <3>1. UpDown(c, by) = AtSection(c, c.section + by)
      BY <2>2 DEF UpDown
    <3>2. ASSUME NEW s \in 1 .. 5 PROVE [c EXCEPT !.section = s, !.row = 0, !.item = 0] \in Cursor
      <4> DEFINE atSection == [c EXCEPT !.section = s]
                 atRow == [atSection EXCEPT !.row = 0]
                 atItem == [atRow EXCEPT !.item = 0]
      <4>1. atSection \in Cursor
        BY DEF Cursor
      <4>2. atRow \in Cursor
        <5> HIDE DEF atSection
        <5> QED BY <4>1 DEF Cursor
      <4>3. atItem \in Cursor
        <5> HIDE DEF atRow
        <5> QED BY <4>2 DEF Cursor
      <4>4. atItem = [c EXCEPT !.section = s, !.row = 0, !.item = 0]
        OBVIOUS
      <4> QED BY <4>3, <4>4
    <3> QED BY <3>1, <3>2 DEF AtSection, Sections
  <2>3. CASE c.level = 1
    <3>1. UpDown(c, by) = [c EXCEPT !.row = moved(c.row), !.item = 0]
      BY <2>3 DEF UpDown
    <3>2. UpDown(c, by) = [section |-> c.section, level |-> c.level, row |-> moved(c.row), item |-> 0]
      BY <3>1 DEF Cursor
    <3> QED BY <1>1, <2>1, <3>2 DEF Cursor
  <2>4. CASE c.level = 2
    <3>1. UpDown(c, by) = [c EXCEPT !.item = moved(c.item)]
      BY <2>4 DEF UpDown
    <3> HIDE DEF moved
    <3>2. moved(c.item) \in Nat
      BY <1>1, <2>1
    <3> QED BY <3>1, <3>2 DEF Cursor
  <2> QED BY <1>1, <2>2, <2>3, <2>4
<1> QED BY <1>2, <1>3, <1>4

\* The number of colours depends on the store and on the places only.
LEMMA AllGpuRowKept ==
    ASSUME ListInv, ChartInv, pc = "idle", Len(hist') = Len(monitored),
           DOMAIN hist' = 1 .. Len(monitored),
           \A p \in 1 .. NumDevices : opts'[p].gpu = opts[p].gpu
    PROVE  /\ AllGpuRow(toDraw)' = AllGpuRow(toDraw')
           /\ RefDraw(toDraw)' = RefDraw(toDraw')
<1>1. DOMAIN hist' = DOMAIN hist /\ \A p \in DOMAIN hist : opts'[p].gpu = opts[p].gpu
  BY AtRest
<1>2. RefDraw(toDraw)' = RefDraw(toDraw')
  BY <1>1 DEF RefDraw
<1> QED BY <1>2 DEF AllGpuRow

\* After a key the window is drawn anew, over the options the key changed.
LEMMA RedrawOnEntry ==
    ASSUME ListInv, ChartInv, pc = "idle",
           NEW c \in Cursor, NEW undefined, Redraw(c, undefined),
           toDraw' \in [Gpu -> Drawable], fields' \in SUBSET Field,
           Len(hist') = Len(monitored), DOMAIN hist' = 1 .. Len(monitored),
           \A p \in 1 .. NumDevices : opts'[p].gpu = opts[p].gpu
    PROVE  cursor' \in Cursor /\ OnEntry(cursor, toDraw, fields)' /\ ended' \in BOOLEAN
<1>1. cursor' = draw_setup_window(c, toDraw', fields')
  BY DEF Redraw
<1>2. cursor' \in Cursor /\ OnEntry(cursor', toDraw', fields')
  BY <1>1, DrawnOnEntry
<1>3. AllGpuRow(toDraw)' = AllGpuRow(toDraw') /\ Len(hist') = Len(hist)
  <2>1. Len(hist) = Len(monitored)
    BY DEF ChartInv
  <2> QED BY <2>1, AllGpuRowKept
<1>4. OnEntry(cursor, toDraw, fields)'
  BY <1>2, <1>3 DEF OnEntry, NumDevices
<1>5. ended' \in BOOLEAN
  BY Zenon DEF Redraw, MayEnd
<1> QED BY <1>2, <1>4, <1>5
\* A key that leaves the lists and the charts alone.
LEMMA QuietKey ==
    ASSUME SetupInv, Key, UNCHANGED <<vars, chart>>,
           NEW c \in Cursor, NEW undefined, Redraw(c, undefined),
           fields' \in SUBSET Field, interval' \in 1 .. MaxInterval, timer' \in Nat,
           colour' \in [Line -> 0 .. NumColour - 1], changes' \in 0 .. MaxChanges
    PROVE  ChartInv' /\ WindowInv'
<1>1. /\ UNCHANGED <<monitored, opts, pc, setupVisible, chart>> /\ UNCHANGED <<toDraw, hist>>
      /\ pc = "idle" /\ ListInv /\ ChartInv
  BY DEF Key, vars, chart, SetupInv
<1>2. ChartInv'
  BY <1>1, ChartKept
<1>3. /\ toDraw' \in [Gpu -> Drawable]
      /\ Len(hist') = Len(monitored) /\ DOMAIN hist' = 1 .. Len(monitored)
      /\ \A p \in 1 .. NumDevices : opts'[p].gpu = opts[p].gpu
  <2>1. toDraw \in [Gpu -> Drawable] /\ DOMAIN hist = 1 .. Len(monitored)
    BY <1>1, AtRest
  <2>2. Len(hist) = Len(monitored)
    BY <1>1 DEF ChartInv
  <2> QED BY <1>1, <2>1, <2>2
<1>4. cursor' \in Cursor /\ OnEntry(cursor, toDraw, fields)' /\ ended' \in BOOLEAN
  BY <1>1, <1>3, RedrawOnEntry
<1>5. WindowInv'
  BY <1>4 DEF WindowInv
<1> QED BY <1>2, <1>5

\* The cursor is on a metric: Enter reads the row and the item.
LEMMA CursorOnMetric ==
    ASSUME SetupInv, Key, cursor.level = 2, Section(cursor) = "chart"
    PROVE  /\ cursor.item \in Metric /\ cursor.row >= AllGpuRow(toDraw)
           /\ cursor.row \in Nat /\ AllGpuRow(toDraw) \in Nat
           /\ cursor.row <= AllGpuRow(toDraw) + Len(monitored)
<1>1. cursor \in Cursor /\ OnEntry(cursor, toDraw, fields) /\ pc = "idle" /\ ListInv /\ ChartInv
  BY DEF SetupInv, WindowInv, Key
<1>2. cursor.section = 3 /\ cursor.row \in Nat /\ cursor.item \in Nat
  BY <1>1, SectionNames DEF Cursor
<1>3. AllGpuRow(toDraw) \in Nat
  BY <1>1, AtRest, RefDrawFinite
<1>4. /\ cursor.row >= AllGpuRow(toDraw) /\ cursor.item <= NumMetric - 1
      /\ cursor.row <= AllGpuRow(toDraw) + Len(hist)
  BY <1>1, <1>2, <1>3 DEF OnEntry
<1>5. Len(hist) = Len(monitored)
  BY <1>1 DEF ChartInv
<1> QED BY <1>2, <1>3, <1>4, <1>5, ChartAssumption DEF Metric

\* Enter on a metric, of one GPU or of all.
LEMMA EnterMetricInv ==
    ASSUME SetupInv, EnterMetric
    PROVE  ChartInv' /\ WindowInv' /\ UNCHANGED vars
<1>1. /\ Key /\ cursor.level = 2 /\ Section(cursor) = "chart" /\ changes' \in 0 .. MaxChanges
      /\ UNCHANGED <<fields, switched, interval, timer, colour>> /\ Redraw(cursor, FALSE)
  <2>1. changes' \in 0 .. MaxChanges
    BY SetupAssumption DEF EnterMetric, Change, SetupInv, WindowInv
  <2> QED BY <2>1 DEF EnterMetric, Change, values
<1>2. /\ ListInv /\ ChartInv /\ WindowInv /\ pc = "idle"
      /\ cursor.item \in Metric
  BY <1>1, CursorOnMetric DEF SetupInv, Key
<1>3. \/ ToggleChartAll(cursor.item)
      \/ ToggleChart(cursor.row - AllGpuRow(toDraw), cursor.item)
  BY DEF EnterMetric
<1>4. ChartInv'
  BY <1>2, <1>3, ToggleChartAllChart, ToggleChartChart
<1>5. UNCHANGED vars
  BY <1>3 DEF ToggleChartAll, ToggleChart
<1>6. UNCHANGED <<monitored, opts, pc, setupVisible>>
  BY <1>5 DEF vars
<1>7. /\ toDraw' \in [Gpu -> Drawable] /\ hist' \in Seq([Line -> Seq(Sample)])
      /\ Len(hist') = Len(monitored) /\ DOMAIN hist' = 1 .. Len(monitored)
  <2>1. ChartTypeOK' /\ Len(hist') = Len(monitored')
    BY <1>2, <1>4, <1>6 DEF ChartInv
  <2> QED BY <1>6, <2>1 DEF ChartTypeOK
<1>8. cursor' \in Cursor /\ OnEntry(cursor, toDraw, fields)' /\ ended' \in BOOLEAN
  <2>1. cursor \in Cursor /\ fields' \in SUBSET Field
    BY <1>1, <1>2 DEF WindowInv
  <2> QED BY <1>1, <1>2, <1>6, <1>7, <2>1, RedrawOnEntry
<1>9. WindowInv'
  BY <1>1, <1>2, <1>8 DEF WindowInv
<1> QED BY <1>4, <1>5, <1>9

\* The row in the list of GPUs is an entry of the options.
LEMMA CursorOnGpu ==
    ASSUME SetupInv, Key, cursor.level = 1, Section(cursor) = "gpus"
    PROVE  cursor.row + 1 \in 1 .. NumDevices
<1>1. cursor \in Cursor /\ OnEntry(cursor, toDraw, fields) /\ pc = "idle" /\ ListInv /\ ChartInv
  BY DEF SetupInv, WindowInv, Key
<1>2. cursor.section = 5 /\ cursor.row \in Nat
  BY <1>1, SectionNames DEF Cursor
<1>3. cursor.row <= NumDevices - 1
  BY <1>1, <1>2 DEF OnEntry
<1>4. NumDevices \in Nat
  BY <1>1, AtRest
<1> QED BY <1>2, <1>3, <1>4

\* Enter on a line of the list of GPUs.
LEMMA EnterGpuInv ==
    ASSUME SetupInv, EnterGpu
    PROVE  ChartInv' /\ WindowInv' /\ cursor.row + 1 \in 1 .. NumDevices
<1>1. /\ Key /\ cursor.level = 1 /\ Section(cursor) = "gpus" /\ changes' \in 0 .. MaxChanges
      /\ ToggleMonitored(cursor.row + 1) /\ UNCHANGED chart
      /\ UNCHANGED <<fields, switched, interval, timer, colour>> /\ Redraw(cursor, FALSE)
  <2>1. changes' \in 0 .. MaxChanges
    BY SetupAssumption DEF EnterGpu, Change, SetupInv, WindowInv
  <2> QED BY <2>1 DEF EnterGpu, Change, values
<1>2. /\ ListInv /\ ChartInv /\ WindowInv /\ pc = "idle"
      /\ cursor.row + 1 \in 1 .. NumDevices
  BY <1>1, CursorOnGpu DEF SetupInv, Key
<1>3. /\ UNCHANGED <<monitored, pc, setupVisible, toDraw, hist>>
      /\ opts' = [opts EXCEPT ![cursor.row + 1].doNotMonitor = ~opts[cursor.row + 1].doNotMonitor]
  BY <1>1 DEF ToggleMonitored, lists, chart
<1>4. \A p \in 1 .. NumDevices : opts'[p].gpu = opts[p].gpu
  <2>1. opts \in [1 .. NumDevices -> Opt]
    BY <1>2, AtRest
  <2> DEFINE i == cursor.row + 1
  <2>2. i \in 1 .. NumDevices /\ opts' = [opts EXCEPT ![i].doNotMonitor = ~opts[i].doNotMonitor]
    BY <1>2, <1>3
  <2> HIDE DEF i
  <2> QED BY <2>1, <2>2 DEF Opt
<1>5. ChartInv'
  BY <1>1, <1>2, <1>3, <1>4, ChartKept
<1>6. /\ toDraw' \in [Gpu -> Drawable]
      /\ Len(hist') = Len(monitored) /\ DOMAIN hist' = 1 .. Len(monitored)
  <2>1. toDraw \in [Gpu -> Drawable] /\ DOMAIN hist = 1 .. Len(monitored)
    BY <1>2, AtRest
  <2>2. Len(hist) = Len(monitored)
    BY <1>2 DEF ChartInv
  <2> QED BY <1>3, <2>1, <2>2
<1>7. cursor' \in Cursor /\ OnEntry(cursor, toDraw, fields)' /\ ended' \in BOOLEAN
  <2>1. cursor \in Cursor /\ fields' \in SUBSET Field
    BY <1>1, <1>2 DEF WindowInv
  <2> QED BY <1>1, <1>2, <1>4, <1>6, <2>1, RedrawOnEntry
<1>8. WindowInv'
  BY <1>1, <1>2, <1>7 DEF WindowInv
<1> QED BY <1>2, <1>5, <1>8
\* The other keys change options that no row of the charts depends on.
QuietKeys ==
    \/ Arrow
    \/ \E by \in {-1, 1} : ChangeInterval(by) \/ ChangeTimer(by)
    \/ EnterRight \/ EnterSwitch \/ EnterTimer \/ EnterColour \/ EnterField

\* These keys leave the cursor on an entry all the same: fields change the
\* number of rows to sort by.
LEMMA QuietKeysInv ==
    ASSUME SetupInv, QuietKeys
    PROVE  ChartInv' /\ WindowInv' /\ UNCHANGED <<vars, chart>>
<1>1. /\ cursor \in Cursor /\ fields \in SUBSET Field /\ interval \in 1 .. MaxInterval
      /\ timer \in Nat /\ colour \in [Line -> 0 .. NumColour - 1] /\ changes \in 0 .. MaxChanges
  BY DEF SetupInv, WindowInv
<1>10. LastChange \/ Change => Key /\ changes' \in 0 .. MaxChanges
  BY <1>1, SetupAssumption DEF LastChange, Change
<1>2. CASE Arrow
  <2>1. PICK c \in {KEY_RIGHT(cursor), KEY_LEFT(cursor), UpDown(cursor, -1), UpDown(cursor, 1)} :
           Redraw(c, FALSE)
    BY <1>2 DEF Arrow
  <2>2. Key /\ UNCHANGED <<vars, chart>> /\ UNCHANGED <<fields, interval, timer, colour, changes>>
    BY <1>2 DEF Arrow, values
  <2>3. c \in Cursor
    BY <1>1, <2>1, ArrowsType
  <2> QED BY <1>1, <2>1, <2>2, <2>3, QuietKey
<1>3. ASSUME NEW by \in {-1, 1}, ChangeInterval(by) PROVE ChartInv' /\ WindowInv' /\ UNCHANGED <<vars, chart>>
  <2>1. LastChange /\ UNCHANGED <<vars, chart>> /\ UNCHANGED <<fields, timer, colour>>
        /\ Redraw(cursor, FALSE)
    BY <1>3 DEF ChangeInterval
  <2>2. interval' \in 1 .. MaxInterval
    BY <1>3 DEF ChangeInterval
  <2> QED BY <1>1, <1>10, <2>1, <2>2, QuietKey
<1>4. ASSUME NEW by \in {-1, 1}, ChangeTimer(by) PROVE ChartInv' /\ WindowInv' /\ UNCHANGED <<vars, chart>>
  <2>1. LastChange /\ UNCHANGED <<vars, chart>> /\ UNCHANGED <<fields, interval, colour>>
        /\ Redraw(cursor, FALSE)
    BY <1>4 DEF ChangeTimer
  <2>2. timer' = IF timer + by < 0 THEN 0 ELSE timer + by
    BY <1>4 DEF ChangeTimer
  <2>3. timer' \in Nat
    BY <1>1, <2>2
  <2> QED BY <1>1, <1>10, <2>1, <2>3, QuietKey
<1>5. CASE EnterRight
  <2>1. /\ Key /\ UNCHANGED <<vars, chart>> /\ UNCHANGED <<fields, interval, timer, colour, changes>>
        /\ Redraw(KEY_RIGHT(cursor), FALSE)
    BY <1>5 DEF EnterRight, values
  <2>2. KEY_RIGHT(cursor) \in Cursor
    BY <1>1, ArrowsType
  <2> QED BY <1>1, <2>1, <2>2, QuietKey
<1>6. CASE EnterSwitch
  <2>1. LastChange /\ UNCHANGED <<vars, chart>> /\ UNCHANGED <<fields, interval, timer, colour>>
        /\ Redraw(cursor, FALSE)
    BY <1>6 DEF EnterSwitch
  <2> QED BY <1>1, <1>10, <2>1, QuietKey
<1>7. CASE EnterTimer
  <2>1. LastChange /\ UNCHANGED <<vars, chart>> /\ UNCHANGED <<fields, interval, colour>>
        /\ Redraw(cursor, FALSE)
    BY <1>7 DEF EnterTimer
  <2>2. timer' \in Nat
    BY <1>7 DEF EnterTimer
  <2> QED BY <1>1, <1>10, <2>1, <2>2, QuietKey
<1>8. CASE EnterColour
  <2> DEFINE slot == cursor.row - 1
  <2>1. /\ Key /\ UNCHANGED <<vars, chart>> /\ UNCHANGED <<fields, interval, timer>>
        /\ Redraw(cursor, slot \notin Line) /\ changes' \in 0 .. MaxChanges
        /\ colour' = IF slot \in Line THEN [colour EXCEPT ![slot] = (@ + 1) % NumColour] ELSE colour
    BY <1>8, SetupAssumption DEF EnterColour, LastChange
  <2> HIDE DEF slot
  <2>2. \A k \in 0 .. NumColour - 1 : (k + 1) % NumColour \in 0 .. NumColour - 1
    BY SetupAssumption
  <2>3. colour' \in [Line -> 0 .. NumColour - 1]
    BY <1>1, <2>1, <2>2
  <2> QED BY <1>1, <2>1, <2>3, QuietKey
<1>9. CASE EnterField
  <2>1. /\ Change /\ UNCHANGED <<vars, chart>> /\ UNCHANGED <<interval, timer, colour>>
        /\ Redraw(cursor, FALSE)
        /\ fields' = IF cursor.row = Display THEN Toggled(fields, cursor.item) ELSE fields
        /\ Section(cursor) = "process"
    BY <1>9 DEF EnterField
  <2>2. cursor.row = Display => cursor.item \in Field
    <3>1. OnEntry(cursor, toDraw, fields)
      BY <1>10, <2>1 DEF SetupInv, WindowInv, Key
    <3>2. cursor.section = 4 /\ cursor.item \in Nat
      BY <1>1, <2>1, SectionNames DEF Cursor
    <3>3. cursor.row = Display => cursor.item <= NumField - 1
      BY <3>1, <3>2 DEF OnEntry
    <3> QED BY <3>2, <3>3, SetupAssumption DEF Field
  <2>3. fields' \in SUBSET Field
    BY <1>1, <2>1, <2>2 DEF Toggled
  <2> QED BY <1>1, <1>10, <2>1, <2>3, QuietKey
<1> QED BY <1>2, <1>3, <1>4, <1>5, <1>6, <1>7, <1>8, <1>9 DEF QuietKeys

\* Opening and closing the window.
LEMMA OpenCloseInv ==
    ASSUME SetupInv, show_setup_window \/ Close
    PROVE  ChartInv' /\ WindowInv' /\ UNCHANGED <<opts, toDraw>> /\ (OpenSetup \/ CloseSetup)
<1>1. /\ UNCHANGED <<monitored, opts, pc, chart, values, ended, changes>> /\ pc = "idle"
      /\ cursor' = Top
  BY DEF show_setup_window, Close, OpenSetup, CloseSetup, lists
<1>2. UNCHANGED <<toDraw, hist, fields, interval, timer, colour>>
  BY <1>1 DEF chart, values
<1>3. ChartInv'
  BY <1>1, ChartKept DEF SetupInv
<1>4. Top \in Cursor /\ Top.section = 1 /\ Top.level = 0
  BY DEF Top, Cursor
<1>5. OnEntry(cursor, toDraw, fields)'
  BY <1>1, <1>4 DEF OnEntry
<1>6. WindowInv'
  BY <1>1, <1>2, <1>4, <1>5 DEF SetupInv, WindowInv
<1> QED BY <1>1, <1>2, <1>3, <1>6 DEF show_setup_window, Close

\* The main loop saves samples, also while the window is shown, and orders the
\* lists while it is closed.
LEMMA MainLoopInv ==
    ASSUME SetupInv, MainLoop
    PROVE  /\ ChartInv' /\ WindowInv' /\ [Next]_vars
           /\ setupVisible => UNCHANGED <<opts, toDraw>>
           /\ ended' = ended /\ ~ended
<1>1. /\ ~ended /\ UNCHANGED <<cursor, values, ended, changes>> /\ ListInv /\ ChartInv /\ WindowInv
  BY DEF MainLoop, SetupInv
<1>2. UNCHANGED <<fields, interval, timer, colour>>
  BY <1>1 DEF values
<1>3. CASE Loops
  <2>1. ChartInv' /\ [Next]_vars
    BY <1>1, <1>3, LoopsChart DEF Loops, Next
  <2>2. ~setupVisible'
    BY <1>1, <1>3 DEF Loops, CheckChange, Demote, DemoteEnd, Promote, PromoteEnd, KeepOne,
                      ChartInv, screen
  <2>3. ~setupVisible
    BY <1>1, <1>3 DEF Loops, CheckChange, Demote, DemoteEnd, Promote, PromoteEnd, KeepOne, ChartInv
  <2>4. WindowInv'
    BY <1>1, <1>2, <2>2 DEF WindowInv
  <2> QED BY <1>1, <2>1, <2>3, <2>4
<1>4. CASE Reinitialize
  <2>1. ChartInv' /\ [Next]_vars
    BY <1>1, <1>4, ReinitializeChart DEF Reinitialize, Next
  <2>2. ~setupVisible /\ ~setupVisible'
    BY <1>1, <1>4 DEF Reinitialize, SetCallbacks, ChartInv, screen
  <2>3. WindowInv'
    BY <1>1, <1>2, <2>2 DEF WindowInv
  <2> QED BY <1>1, <2>1, <2>2, <2>3
<1>5. ASSUME NEW valid \in Validities, SaveCurrentData(valid)
      PROVE  ChartInv' /\ WindowInv' /\ [Next]_vars /\ UNCHANGED <<opts, toDraw>>
  <2>1. ChartInv'
    BY <1>1, <1>5, SaveCurrentDataChart
  <2>2. UNCHANGED vars /\ toDraw' = toDraw /\ pc = "idle" /\ DOMAIN hist' = DOMAIN hist
    BY <1>5 DEF SaveCurrentData
  <2>3. UNCHANGED <<monitored, opts, pc, setupVisible>>
    BY <2>2 DEF vars
  <2>4. DOMAIN hist = 1 .. Len(monitored) /\ Len(hist) = Len(monitored) /\ Len(hist') = Len(hist)
    <3>1. DOMAIN hist = 1 .. Len(monitored)
      BY <1>1, <2>2, AtRest
    <3>2. Len(hist) = Len(monitored) /\ Len(hist') = Len(monitored)
      BY <1>1, <2>1, <2>2, <2>3 DEF ChartInv
    <3> QED BY <3>1, <3>2
  <2>5. AllGpuRow(toDraw)' = AllGpuRow(toDraw)
    BY <1>1, <2>2, <2>3, <2>4, AllGpuRowKept
  <2>6. setupVisible' => OnEntry(cursor, toDraw, fields)'
    BY <1>1, <1>2, <2>3, <2>4, <2>5 DEF WindowInv, OnEntry, NumDevices
  <2>7. WindowInv'
    BY <1>1, <1>2, <2>6 DEF WindowInv
  <2> QED BY <2>1, <2>2, <2>3, <2>7
<1> QED BY <1>1, <1>3, <1>4, <1>5 DEF MainLoop
\* Every step takes a step of the lists or none, and keeps the charts and the
\* cursor as they should be.
LEMMA SetupStep ==
    ASSUME SetupInv, [SetupNext]_setupVars
    PROVE  ChartInv' /\ WindowInv' /\ [Next]_vars
<1>1. CASE show_setup_window \/ Close
  BY <1>1, OpenCloseInv DEF Next
<1>2. CASE QuietKeys
  <2>1. ChartInv' /\ WindowInv' /\ UNCHANGED <<vars, chart>>
    BY <1>2, QuietKeysInv
  <2> QED BY <2>1
<1>3. CASE EnterMetric
  BY <1>3, EnterMetricInv
<1>4. CASE EnterGpu
  <2>1. ChartInv' /\ WindowInv' /\ cursor.row + 1 \in 1 .. NumDevices
    BY <1>4, EnterGpuInv
  <2>2. ToggleMonitored(cursor.row + 1)
    BY <1>4 DEF EnterGpu
  <2> QED BY <2>1, <2>2 DEF Next
<1>5. CASE MainLoop
  BY <1>5, MainLoopInv
<1>6. CASE UNCHANGED setupVars
  <2>1. UNCHANGED <<vars, chart, cursor, values, ended, changes>>
    BY <1>6 DEF setupVars
  <2>2. /\ UNCHANGED <<monitored, opts, pc, setupVisible, toDraw, hist, refresh>>
        /\ UNCHANGED <<fields, interval, timer, colour>>
    BY <2>1 DEF vars, chart, values
  <2>3. ChartInv'
    BY <2>1, <2>2, ChartKept DEF SetupInv
  <2>4. OnEntry(cursor, toDraw, fields)' = OnEntry(cursor, toDraw, fields)
    BY <2>1, <2>2 DEF OnEntry, AllGpuRow, RefDraw, NumDevices
  <2>5. WindowInv'
    BY <2>1, <2>2, <2>4 DEF SetupInv, WindowInv
  <2> QED BY <2>1, <2>3, <2>5
<1> QED BY <1>1, <1>2, <1>3, <1>4, <1>5, <1>6 DEF SetupNext, QuietKeys

\* At the start the window is closed.
LEMMA SetupInitInv == SetupInit => SetupInv
<1> SUFFICES ASSUME SetupInit PROVE SetupInv
  OBVIOUS
<1>1. ListInv
  BY InitIInv, InitPlaceInv, InitOrderInv DEF SetupInit, ChartInit, ListInv
<1>2. ChartInv
  BY ChartInitInv DEF SetupInit
<1>3. /\ cursor = Top /\ fields = Field /\ interval = 1 /\ timer = 1
      /\ colour = [s \in Line |-> 0] /\ ended = FALSE /\ changes = 0 /\ ~setupVisible
  BY DEF SetupInit, ChartInit, Init
<1>4. Top \in Cursor
  BY DEF Top, Cursor
<1>5. interval \in 1 .. MaxInterval /\ 0 \in 0 .. NumColour - 1 /\ changes \in 0 .. MaxChanges
  BY <1>3, SetupAssumption
<1>6. ended \in BOOLEAN
  BY <1>3
<1>7. colour \in [Line -> 0 .. NumColour - 1]
  BY <1>3, <1>5
<1>8. WindowInv
  BY <1>3, <1>4, <1>5, <1>6, <1>7 DEF WindowInv
<1> QED BY <1>1, <1>2, <1>8 DEF SetupInv

\* The invariant of lists, charts and window together.
LEMMA SetupNextInv == SetupInv /\ [SetupNext]_setupVars => SetupInv' /\ [Next]_vars
<1> SUFFICES ASSUME SetupInv, [SetupNext]_setupVars PROVE SetupInv' /\ [Next]_vars
  OBVIOUS
<1>1. ChartInv' /\ WindowInv' /\ [Next]_vars
  BY SetupStep
<1>2. ListInv'
  BY <1>1, NextIInv, NextPlaceInv, NextOrderInv DEF SetupInv, ListInv
<1> QED BY <1>1, <1>2 DEF SetupInv

\* The cursor, the rows, the lines of the store and the lists stay consistent,
\* whatever keys are pressed and whatever the loops move.
THEOREM SetupInvariant == SetupSpec => []SetupInv
BY SetupInitInv, SetupNextInv, PTL DEF SetupSpec

-----------------------------------------------------------------------------
(* The theorems                                                            *)

\* The interface as a whole changes the lists only as MonitoredGpus says,
\* although Enter reads the GPU from the row of the cursor: what is proved of
\* the lists holds of the whole.
THEOREM SetupTakesListSteps == SetupSpec => Spec
<1>1. SetupInit => Init
  BY DEF SetupInit, ChartInit
<1> QED BY <1>1, SetupInitInv, SetupNextInv, PTL DEF SetupSpec, Spec

\* No sample is ever drawn under the legend of another GPU or metric.
THEOREM SamplesUnderOwnLegend == SetupSpec => []PlotShowsOwnMetric
<1>1. SetupInv => PlotShowsOwnMetric
  <2> SUFFICES ASSUME SetupInv PROVE PlotShowsOwnMetric
    OBVIOUS
  <2>1. ChartTypeOK
    BY DEF SetupInv, ChartInv
  <2> SUFFICES ASSUME Drawing, NEW p \in DOMAIN hist, NEW m \in ToDrawAt(p),
                      NEW k \in 1 .. Len(Drawn(p, m))
               PROVE  Drawn(p, m)[k].gpu = monitored[p] /\ Drawn(p, m)[k].metric = m
    BY <2>1 DEF PlotShowsOwnMetric
  <2>2. p \in 1 .. Len(monitored) /\ LinesOwn
    BY AtRest DEF Drawing, SetupInv
  <2> QED BY <2>2 DEF LinesOwn, Own
<1> QED BY <1>1, SetupInvariant, PTL

\* The columns of a chart are points in time.
THEOREM ColumnsAreRefreshes == SetupSpec => []ColumnsAligned
<1>1. SetupInv => ColumnsAligned
  <2> SUFFICES ASSUME SetupInv, Drawing, NEW p \in DOMAIN hist, NEW m \in ToDrawAt(p),
                      NEW k \in 1 .. Len(Drawn(p, m))
               PROVE  Drawn(p, m)[k].at = refresh - (Len(Drawn(p, m)) - k)
    BY DEF ColumnsAligned
  <2>1. p \in 1 .. Len(monitored) /\ LinesOwn
    BY AtRest DEF Drawing, SetupInv
  <2> QED BY <2>1 DEF LinesOwn, Own
<1> QED BY <1>1, SetupInvariant, PTL

\* Whatever was switched before, Enter finds the cursor on an entry there is.
THEOREM EnterFindsEntry == SetupSpec => []CursorOnEntry
<1>1. SetupInv => CursorOnEntry
  <2> SUFFICES ASSUME SetupInv PROVE CursorOnEntry
    OBVIOUS
  <2>1. cursor \in Cursor /\ WindowInv
    BY DEF SetupInv, WindowInv
  <2>2. cursor.level \in 0 .. 2 /\ cursor.row \in Nat /\ cursor.item \in Nat /\ cursor.section \in 1 .. 5
    BY <2>1 DEF Cursor
  <2>3. SetupTypeOK
    <3>1. Len(Sections) = 5
      BY DEF Sections
    <3> QED BY <2>1, <2>2, <3>1 DEF WindowInv, SetupTypeOK
  <2>4. ASSUME Key
        PROVE  /\ OnEntry(cursor, toDraw, fields) /\ Len(hist) \in Nat
               /\ AllGpuRow(toDraw) \in Nat
    <3>1. pc = "idle" /\ setupVisible /\ ListInv /\ ChartInv
      BY <2>4 DEF Key, SetupInv
    <3>2. AllGpuRow(toDraw) \in Nat
      BY <3>1, AtRest, RefDrawFinite
    <3> QED BY <2>1, <3>1, <3>2 DEF WindowInv, ChartInv, ChartTypeOK
  <2>5. ASSUME Key, cursor.level > 0 PROVE cursor.row \in 0 .. LastRow[Section(cursor)]
    <3>1. cursor.level = 1 \/ cursor.level = 2
      BY <2>2, <2>5
    <3>2. CASE cursor.section = 1
      <4>1. LastRow[Section(cursor)] = 2
        BY <2>1, <3>2, SectionNames DEF LastRow
      <4> QED BY <2>2, <2>4, <2>5, <3>1, <3>2, <4>1 DEF OnEntry
    <3>3. CASE cursor.section = 2
      <4>1. LastRow[Section(cursor)] = 2
        BY <2>1, <3>3, SectionNames DEF LastRow
      <4> QED BY <2>2, <2>4, <2>5, <3>3, <4>1 DEF OnEntry
    <3>4. CASE cursor.section = 3
      <4>1. LastRow[Section(cursor)] = AllGpuRow(toDraw) + Len(hist)
        BY <2>1, <3>4, SectionNames DEF LastRow
      <4> QED BY <2>2, <2>4, <2>5, <3>4, <4>1 DEF OnEntry
    <3>5. CASE cursor.section = 4
      <4>1. LastRow[Section(cursor)] = 4
        BY <2>1, <3>5, SectionNames DEF LastRow, Display
      <4> QED BY <2>2, <2>4, <2>5, <3>5, <4>1 DEF OnEntry, Display
    <3>6. CASE cursor.section = 5
      <4>1. LastRow[Section(cursor)] = NumDevices - 1
        BY <2>1, <3>6, SectionNames DEF LastRow
      <4> QED BY <2>2, <2>4, <2>5, <3>1, <3>6, <4>1 DEF OnEntry
    <3> QED BY <2>2, <3>2, <3>3, <3>4, <3>5, <3>6
  <2>6. ASSUME Key, cursor.level = 2 PROVE cursor.item \in 0 .. LastItem
    <3>1. cursor.section = 3 \/ cursor.section = 4
      BY <2>2, <2>4, <2>6 DEF OnEntry
    <3>2. CASE cursor.section = 3
      <4>1. LastItem = NumMetric - 1
        BY <2>1, <3>2, SectionNames DEF LastItem
      <4>2. cursor.item <= NumMetric - 1
        BY <2>2, <2>4, <2>6, <3>2 DEF OnEntry
      <4> QED BY <2>2, <4>1, <4>2, ChartAssumption
    <3>3. CASE cursor.section = 4
      <4>1. \/ cursor.row = SortBy /\ cursor.item <= Cardinality(fields) - 1
            \/ cursor.row = Display /\ cursor.item <= NumField - 1
        BY <2>2, <2>4, <2>6, <3>3 DEF OnEntry, SortBy, Display
      <4>2. Section(cursor) = "process"
        BY <2>1, <3>3, SectionNames
      <4>3. Cardinality(fields) \in Nat /\ NumField \in Nat
        BY <2>1, FieldsFinite, SetupAssumption DEF WindowInv
      <4>4. \/ LastItem = Cardinality(fields) - 1 /\ cursor.item <= Cardinality(fields) - 1
            \/ LastItem = NumField - 1 /\ cursor.item <= NumField - 1
        BY <4>1, <4>2 DEF LastItem, SortBy, Display
      <4> QED BY <2>2, <4>3, <4>4
    <3> QED BY <3>1, <3>2, <3>3
  <2> QED BY <2>3, <2>5, <2>6 DEF CursorOnEntry
<1> QED BY <1>1, SetupInvariant, PTL
\* Enter on a metric changes the metrics of the highlighted GPUs.
LEMMA MetricOfHighlighted ==
    ASSUME SetupInv, EnterMetric, NEW g \in Gpu \ Highlighted
    PROVE  toDraw'[g] = toDraw[g]
<1>1. /\ Key /\ cursor.level = 2 /\ Section(cursor) = "chart" /\ pc = "idle"
      /\ ListInv /\ ChartInv
  BY DEF EnterMetric, Change, Key, SetupInv
<1>2. /\ cursor.row >= AllGpuRow(toDraw) /\ cursor.row \in Nat /\ AllGpuRow(toDraw) \in Nat
  BY <1>1, CursorOnMetric
<1>3. /\ DOMAIN hist = 1 .. Len(monitored) /\ toDraw \in [Gpu -> Drawable]
      /\ \A p \in 1 .. Len(monitored) : opts[p].gpu = monitored[p]
  BY <1>1, AtRest
<1>4. CASE cursor.row = AllGpuRow(toDraw)
  <2>1. ToggleChartAll(cursor.item)
    BY <1>4 DEF EnterMetric
  <2>2. Highlighted = Members(monitored)
    BY <1>1, <1>2, <1>4 DEF Highlighted
  <2>3. g \notin {opts[p].gpu : p \in DOMAIN hist}
    BY <1>3, <2>2 DEF Members
  <2> QED BY <2>1, <2>3 DEF ToggleChartAll
<1>5. CASE cursor.row > AllGpuRow(toDraw)
  <2> DEFINE q == cursor.row - AllGpuRow(toDraw)
  <2>1. ToggleChart(q, cursor.item)
    BY <1>2, <1>5 DEF EnterMetric
  <2>2. Highlighted = {monitored[q]}
    BY <1>1, <1>2, <1>5 DEF Highlighted
  <2> HIDE DEF q
  <2>3. g # opts[q].gpu
    BY <1>3, <2>1, <2>2 DEF ToggleChart
  <2> QED BY <1>3, <2>1, <2>3 DEF ToggleChart
<1> QED BY <1>2, <1>4, <1>5

\* Enter on a GPU changes the options of that GPU.
LEMMA ExcludedOfHighlighted ==
    ASSUME SetupInv, EnterGpu
    PROVE  Excluded \ Highlighted = Excluded' \ Highlighted
<1> DEFINE i == cursor.row + 1
<1>1. /\ Key /\ cursor.level = 1 /\ Section(cursor) = "gpus" /\ pc = "idle" /\ ToggleMonitored(i)
      /\ ListInv /\ ChartInv
  BY DEF EnterGpu, Change, Key, SetupInv
<1>2. i \in 1 .. NumDevices
  BY <1>1, CursorOnGpu
<1>3. Highlighted = {opts[i].gpu}
  BY <1>1 DEF Highlighted
<1>4. /\ opts \in [1 .. NumDevices -> Opt]
      /\ opts' = [opts EXCEPT ![i].doNotMonitor = ~opts[i].doNotMonitor]
  BY <1>1, AtRest DEF ToggleMonitored
<1> HIDE DEF i
<1>5. /\ \A k \in 1 .. NumDevices : opts'[k].gpu = opts[k].gpu
      /\ \A k \in 1 .. NumDevices : k # i => opts'[k] = opts[k]
  BY <1>2, <1>4 DEF Opt
<1>6. ASSUME NEW k \in 1 .. NumDevices, opts[k].gpu # opts[i].gpu
      PROVE  opts'[k] = opts[k]
  BY <1>5, <1>6
<1>7. Excluded' = {opts'[k].gpu : k \in {j \in 1 .. NumDevices : opts'[j].doNotMonitor}}
  BY DEF Excluded, NumDevices
<1> QED BY <1>3, <1>5, <1>6, <1>7 DEF Excluded

\* A key changes the options of no other GPU than the one that is highlighted,
\* for any number of GPUs, metrics and rows.
THEOREM OnlyHighlightedChanges == SetupSpec => KeysActOnHighlighted
<1> DEFINE OnlyHighlighted ==
               setupVisible =>
                   /\ toDraw' # toDraw => \A g \in Gpu \ Highlighted : toDraw'[g] = toDraw[g]
                   /\ opts' # opts => Excluded \ Highlighted = Excluded' \ Highlighted
<1>1. SetupInv /\ [SetupNext]_setupVars => [OnlyHighlighted]_setupVars
  <2> SUFFICES ASSUME SetupInv, SetupNext, setupVisible
               PROVE  /\ toDraw' # toDraw => \A g \in Gpu \ Highlighted : toDraw'[g] = toDraw[g]
                      /\ opts' # opts => Excluded \ Highlighted = Excluded' \ Highlighted
    OBVIOUS
  <2>1. CASE show_setup_window \/ Close
    BY <2>1, OpenCloseInv
  <2>2. CASE QuietKeys
    <3>1. UNCHANGED <<vars, chart>>
      BY <2>2, QuietKeysInv
    <3> QED BY <3>1 DEF vars, chart
  <2>3. CASE EnterMetric
    <3>1. UNCHANGED opts
      BY <2>3, EnterMetricInv DEF vars
    <3> QED BY <2>3, <3>1, MetricOfHighlighted
  <2>4. CASE EnterGpu
    <3>1. UNCHANGED toDraw
      BY <2>4 DEF EnterGpu, chart
    <3> QED BY <2>4, <3>1, ExcludedOfHighlighted
  <2>5. CASE MainLoop
    BY <2>5, MainLoopInv
  <2> QED BY <2>1, <2>2, <2>3, <2>4, <2>5 DEF SetupNext, QuietKeys
<1> QED BY <1>1, SetupInvariant, PTL DEF SetupSpec, KeysActOnHighlighted

-----------------------------------------------------------------------------
(* Undefined behaviour                                                     *)

\* Some monitored GPU draws a metric that the first one does not.
Unlike(draw) == \E p \in DOMAIN hist : ~(draw[opts[p].gpu] \subseteq draw[opts[1].gpu])

\* Otherwise there are as many colours as the first GPU has metrics.
LEMMA ColoursOfFirst ==
    ASSUME ListInv, ChartInv, pc = "idle", NEW draw \in [Gpu -> Drawable], ~Unlike(draw)
    PROVE  /\ Cardinality(RefDraw(draw)) <= Cardinality(draw[opts[1].gpu])
           /\ Cardinality(draw[opts[1].gpu]) <= MaxLines
           /\ Cardinality(RefDraw(draw)) \in Nat /\ Cardinality(draw[opts[1].gpu]) \in Nat
<1>1. draw[opts[1].gpu] \in Drawable
  <2>1. 1 \in 1 .. NumDevices
    BY AtRest
  <2>2. opts[1].gpu \in Gpu
    BY <2>1, AtRest
  <2> QED BY <2>2
<1>2. RefDraw(draw) \in SUBSET draw[opts[1].gpu]
  BY DEF RefDraw, Unlike
<1>3. /\ IsFiniteSet(draw[opts[1].gpu]) /\ Cardinality(draw[opts[1].gpu]) <= MaxLines
      /\ Cardinality(draw[opts[1].gpu]) \in Nat
  BY <1>1, DrawableFinite
<1>4. Cardinality(RefDraw(draw)) <= Cardinality(draw[opts[1].gpu])
  BY <1>2, <1>3, FS_Subset
<1> QED BY <1>3, <1>4, RefDrawFinite

\* Drawing the window ends the program only by a missing label, or by what the
\* key did before.
LEMMA EndedByRedraw ==
    ASSUME ListInv, ChartInv, pc = "idle", NEW c, NEW undefined \in BOOLEAN,
           Redraw(c, undefined), toDraw' \in [Gpu -> Drawable], ended'
    PROVE  undefined \/ Unlike(toDraw')
<1>1. undefined \/ LabelMissing(c, toDraw')
  BY Zenon DEF Redraw, MayEnd
<1>2. ASSUME ~Unlike(toDraw') PROVE ~LabelMissing(c, toDraw')
  <2>1. /\ Cardinality(RefDraw(toDraw')) <= Cardinality(toDraw'[opts[1].gpu])
        /\ Cardinality(toDraw'[opts[1].gpu]) <= MaxLines
        /\ Cardinality(RefDraw(toDraw')) \in Nat /\ Cardinality(toDraw'[opts[1].gpu]) \in Nat
    BY <1>2, ColoursOfFirst
  <2>2. AtMost(Cardinality(RefDraw(toDraw')), MaxLines) <= Cardinality(toDraw'[opts[1].gpu])
    BY <2>1, ChartAssumption DEF AtMost
  <2>3. AtMost(Cardinality(RefDraw(toDraw')), MaxLines) \in Nat
    BY <2>1, ChartAssumption DEF AtMost
  <2> QED BY <2>1, <2>2, <2>3 DEF LabelMissing
<1> QED BY <1>1, <1>2

\* The setup window is safe to use as long as the first monitored GPU draws
\* every metric that another does, for any number of GPUs, metrics and lines.
THEOREM LabelsDefinedWhileAlike == SetupSpec => DefinedWhileAlike
<1> DEFINE Defined ==
               ended' => \E p \in DOMAIN hist :
                            ~(toDraw'[opts[p].gpu] \subseteq toDraw'[opts[1].gpu])
<1>1. SetupInv /\ [SetupNext]_setupVars => [Defined]_setupVars
  <2> SUFFICES ASSUME SetupInv, SetupNext, ended' PROVE Unlike(toDraw')
    BY DEF Unlike
  <2>1. toDraw' \in [Gpu -> Drawable] /\ ListInv /\ ChartInv
    BY SetupStep DEF ChartInv, ChartTypeOK, SetupInv
  <2>2. CASE show_setup_window \/ Close
    BY <2>2 DEF show_setup_window, Close
  <2>3. CASE EnterColour
    <3> DEFINE slot == cursor.row - 1
    <3>1. /\ Key /\ Section(cursor) = "chart" /\ cursor.row \in 1 .. AllGpuRow(toDraw) - 1
          /\ Redraw(cursor, slot \notin Line) /\ UNCHANGED chart
      BY <2>3 DEF EnterColour, LastChange
    <3>2. pc = "idle" /\ toDraw' = toDraw /\ toDraw \in [Gpu -> Drawable]
      BY <2>1, <3>1, AtRest DEF Key, chart
    <3>3. ASSUME ~Unlike(toDraw') PROVE slot \in Line
      <4>1. Cardinality(RefDraw(toDraw)) <= MaxLines
        <5>1. /\ Cardinality(RefDraw(toDraw)) <= Cardinality(toDraw[opts[1].gpu])
              /\ Cardinality(toDraw[opts[1].gpu]) <= MaxLines
              /\ Cardinality(RefDraw(toDraw)) \in Nat /\ Cardinality(toDraw[opts[1].gpu]) \in Nat
          BY <2>1, <3>2, <3>3, ColoursOfFirst
        <5> QED BY <5>1, ChartAssumption
      <4>2. AllGpuRow(toDraw) = 1 + Cardinality(RefDraw(toDraw)) /\ Cardinality(RefDraw(toDraw)) \in Nat
        BY <2>1, <3>2, RefDrawFinite
      <4> QED BY <3>1, <4>1, <4>2, ChartAssumption DEF Line
    <3> HIDE DEF slot
    <3>4. slot \notin Line \/ Unlike(toDraw')
      BY <2>1, <3>1, <3>2, EndedByRedraw
    <3> QED BY <3>3, <3>4
  <2>4. CASE QuietKeys /\ ~EnterColour
    <3>1. Key
      BY <2>4 DEF QuietKeys, Arrow, ChangeInterval, ChangeTimer, EnterRight, EnterSwitch, EnterTimer,
                  EnterField, LastChange, Change
    <3>2. PICK c : Redraw(c, FALSE)
      BY <2>4 DEF QuietKeys, Arrow, ChangeInterval, ChangeTimer, EnterRight, EnterSwitch, EnterTimer,
                  EnterField
    <3>3. pc = "idle" /\ FALSE \in BOOLEAN
      BY <3>1 DEF Key
    <3> QED BY <2>1, <3>2, <3>3, EndedByRedraw
  <2>5. CASE EnterMetric \/ EnterGpu
    <3>1. Key /\ Redraw(cursor, FALSE)
      BY <2>5 DEF EnterMetric, EnterGpu, Change
    <3>2. pc = "idle" /\ FALSE \in BOOLEAN
      BY <3>1 DEF Key
    <3> QED BY <2>1, <3>1, <3>2, EndedByRedraw
  <2>6. CASE MainLoop
    BY <2>6, MainLoopInv
  <2> QED BY <2>2, <2>3, <2>4, <2>5, <2>6 DEF SetupNext, QuietKeys
<1> QED BY <1>1, SetupInvariant, PTL DEF SetupSpec, DefinedWhileAlike
=============================================================================
