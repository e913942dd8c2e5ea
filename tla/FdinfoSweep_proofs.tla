------------------------- MODULE FdinfoSweep_proofs -------------------------
(***************************************************************************)
(* Proofs about the sweep over /proc and the cache of DRM clients, for any *)
(* processes, descriptors, files and GPUs, any number of refreshes, and    *)
(* whatever the processes do to their descriptors meanwhile.               *)
(***************************************************************************)
EXTENDS FdinfoSweep, WellFoundedInduction, TLAPS

-----------------------------------------------------------------------------
(* The inductive invariant                                                 *)

\* Where the sweep is: the callbacks do not change while it runs, a process
\* is visited once, and the descriptors seen are behind the position.
LoopInv ==
    /\ pc # "idle" => refreshed = active /\ refresh >= 1
    /\ pc = "idle" => pids = {} /\ pid = NoPid
    /\ pc = "parse" => pid # NoPid /\ pos \in seen
    /\ pid \notin pids
    /\ \A fd \in seen : fd <= pos

\* The descriptors of a process the sweep is done with: those before Done(p).
Done(p) == IF p \in pids THEN 0
           ELSE IF p # pid THEN NumFd
           ELSE IF pc = "parse" THEN pos - 1 ELSE pos

\* In the lists of this refresh: no row of a process that is yet to come; the
\* row of the process visited is the last one, and no file is counted in it
\* more often than descriptors were parsed.
VisitedRows(g) ==
    \A i \in DOMAIN processes[g] :
        LET row == processes[g][i]
        IN  /\ row.pid \notin pids
            /\ row.pid = pid => i = Len(processes[g]) /\ \A f \in File : row.counted[f] <= Done(pid)

RowInv ==
    /\ \A g \in Gpu : \A i, k \in DOMAIN processes[g] :
          processes[g][i].pid = processes[g][k].pid => i = k
    /\ \A g \in refreshed : VisitedRows(g)
    /\ \A g \in Gpu : \A i \in DOMAIN processes[g] : \A s \in processes[g][i].since : s < refresh

OnePerClient(entries) == \A d, e \in entries : d.client = e.client /\ d.pid = e.pid => d = e

\* The current cache holds measurements of this refresh, the last one those
\* of one earlier refresh; between refreshes there is only the last one.
CacheInv ==
    \A g \in Gpu :
        /\ OnePerClient(current[g]) /\ OnePerClient(last[g])
        /\ \A e \in current[g] : e.stamp = refresh
        /\ pc = "idle" \/ g \notin refreshed => current[g] = {}
        /\ \A d, e \in last[g] : d.stamp = e.stamp
        /\ \A e \in last[g] : IF pc = "idle" THEN e.stamp <= refresh ELSE e.stamp < refresh
        /\ pc = "idle" /\ g \in refreshed => \A e \in last[g] : e.stamp = refresh

\* The files of a GPU that a process holds under its first descriptors.
HeldBefore(p, g, done) == {f \in File : FileGpu[f] = g /\ \E fd \in Fd : fd <= done /\ fds[p][fd] = f}

\* The row of a process counts each of these files once, and is there if
\* there are any.
Counts(p, g, files) ==
    LET rows == {i \in DOMAIN processes[g] : processes[g][i].pid = p}
    IN  IF files = {} THEN rows = {}
        ELSE \E i \in rows : processes[g][i].counted = [f \in File |-> IF f \in files THEN 1 ELSE 0]

\* While the descriptors of the process visited do not change, those seen
\* stand for all files up to the position, and the file to be parsed is new.
SeenInv ==
    pid # NoPid /\ pid \notin changed =>
        /\ \A fd \in seen : fds[pid][fd] # NoFile
        /\ \A fd \in Fd : fd <= pos /\ fds[pid][fd] # NoFile =>
              \E other \in seen : fds[pid][other] = fds[pid][fd]
        /\ pc = "parse" => \A fd \in Fd : fd < pos => fds[pid][fd] # fds[pid][pos]

CountInv ==
    \A g \in refreshed, p \in Pid \ changed : Counts(p, g, HeldBefore(p, g, Done(p)))

OpensInv == SeenInv /\ CountInv

IInv == TypeOK /\ LoopInv /\ RowInv /\ CacheInv

OpensIInv == HasKcmp => OpensInv

-----------------------------------------------------------------------------
(* The row a file is added to                                              *)

EmptyRow == [pid |-> pid, counted |-> [x \in File |-> 0], since |-> {}]
OldRow(g) == IF RowIndex(g) # 0 THEN processes[g][Len(processes[g])] ELSE EmptyRow

\* The list with a file aggregated: one row of the process visited is new or
\* replaces the last one, the others stay.
Aggregated(g, f, since, rows) ==
    LET n == Len(processes[g])
        k == Len(rows)
    IN  /\ rows \in Seq(Row)
        /\ k = IF RowIndex(g) # 0 THEN n ELSE n + 1
        /\ \A i \in 1 .. k - 1 : rows[i] = processes[g][i]
        /\ rows[k].pid = pid
        /\ rows[k].since = OldRow(g).since \cup since
        /\ \A x \in File : rows[k].counted[x] = OldRow(g).counted[x] + IF x = f THEN 1 ELSE 0

\* The lists as sequences.
LEMMA Lists ==
    ASSUME TypeOK, NEW g \in Gpu
    PROVE  /\ processes[g] \in Seq(Row) /\ Len(processes[g]) \in Nat
           /\ DOMAIN processes[g] = 1 .. Len(processes[g])
           /\ \A i \in DOMAIN processes[g] : processes[g][i] \in Row
BY DEF TypeOK

\* process_index finds the row of the process if it is the last one.
LEMMA OldRowType ==
    ASSUME TypeOK, pid \in Pid, NEW g \in Gpu
    PROVE  /\ OldRow(g) \in Row /\ OldRow(g).pid = pid
           /\ RowIndex(g) # 0 => RowIndex(g) = Len(processes[g]) /\ Len(processes[g]) # 0
           /\ RowIndex(g) = 0 => /\ OldRow(g).counted = [x \in File |-> 0] /\ OldRow(g).since = {}
                                 /\ Len(processes[g]) # 0 => processes[g][Len(processes[g])].pid # pid
<1>1. /\ Len(processes[g]) \in Nat
      /\ \A i \in 1 .. Len(processes[g]) : processes[g][i] \in Row
  BY Lists
<1>2. CASE RowIndex(g) # 0
  BY <1>1, <1>2 DEF RowIndex, OldRow
<1>3. CASE RowIndex(g) = 0
  <2>1. OldRow(g) = EmptyRow
    BY <1>3 DEF OldRow
  <2>2. EmptyRow \in Row /\ EmptyRow.pid = pid
    BY SweepAssumption DEF EmptyRow, Row
  <2>3. EmptyRow.counted = [x \in File |-> 0] /\ EmptyRow.since = {}
    BY DEF EmptyRow
  <2>4. Len(processes[g]) # 0 => processes[g][Len(processes[g])].pid # pid
    BY <1>1, <1>3 DEF RowIndex
  <2> QED BY <1>3, <2>1, <2>2, <2>3, <2>4
<1> QED BY <1>2, <1>3

\* Aggregate does what its contract says, unless a counter is at its limit.
LEMMA AggregateOk ==
    ASSUME TypeOK, pid \in Pid, NEW g \in Gpu, NEW f \in File, NEW since \in SUBSET (1 .. MaxRefresh),
           OldRow(g).counted[f] < NumFd
    PROVE  Aggregated(g, f, since, Aggregate(g, f, since))
<1> DEFINE n   == Len(processes[g])
           old == OldRow(g)
           c   == [old.counted EXCEPT ![f] = @ + 1]
           row == [pid |-> pid, counted |-> c, since |-> old.since \cup since]
<1>1. old \in Row /\ old.pid = pid /\ (RowIndex(g) # 0 => RowIndex(g) = n /\ n # 0)
  BY OldRowType
<1>2. Aggregate(g, f, since) = IF RowIndex(g) # 0 THEN [processes[g] EXCEPT ![RowIndex(g)] = row]
                               ELSE Append(processes[g], row)
  BY <1>1 DEF Aggregate, OldRow, EmptyRow
<1>3. old.counted[f] < NumFd /\ NumFd \in Nat
  BY SweepAssumption
<1> HIDE DEF old
<1>4. /\ row \in Row /\ row.pid = pid /\ row.since = old.since \cup since
      /\ \A x \in File : row.counted[x] = old.counted[x] + IF x = f THEN 1 ELSE 0
  <2>1. old.counted \in [File -> 0 .. NumFd] /\ old.since \subseteq 1 .. MaxRefresh
    BY <1>1 DEF Row
  <2>2. /\ c \in [File -> 0 .. NumFd]
        /\ \A x \in File : c[x] = old.counted[x] + IF x = f THEN 1 ELSE 0
    BY <1>3, <2>1
  <2> HIDE DEF c
  <2> QED BY <2>1, <2>2 DEF Row
<1> HIDE DEF row
<1>5. processes[g] \in Seq(Row) /\ n \in Nat
  BY Lists
<1>6. CASE RowIndex(g) # 0
  <2>1. Aggregate(g, f, since) = [processes[g] EXCEPT ![n] = row]
    BY <1>1, <1>2, <1>6
  <2> QED BY <1>1, <1>4, <1>5, <1>6, <2>1 DEF Aggregated, old
<1>7. CASE RowIndex(g) = 0
  <2>1. Aggregate(g, f, since) = Append(processes[g], row)
    BY <1>2, <1>7
  <2> QED BY <1>4, <1>5, <1>7, <2>1 DEF Aggregated, old
<1> QED BY <1>6, <1>7

-----------------------------------------------------------------------------
(* The callback that accepts a file                                        *)

\* At most one callback is of the GPU of a file, so the first one that
\* accepts the file is that of its GPU.
LEMMA AcceptingGpu ==
    ASSUME NEW f \in File, Accepting(f) # {}
    PROVE  LET i == CHOOSE i \in Accepting(f) : \A k \in Accepting(f) : i <= k
           IN  i \in DOMAIN Callbacks /\ Callbacks[i] = FileGpu[f] /\ FileGpu[f] \in active
<1>1. PICK a \in Accepting(f) : TRUE
  OBVIOUS
<1>2. Accepting(f) \subseteq DOMAIN Callbacks /\ DOMAIN Callbacks \subseteq Int
  BY SweepAssumption DEF Accepting
<1>3. \A b \in Accepting(f) : Callbacks[b] = FileGpu[f] /\ FileGpu[f] \in active
  BY DEF Accepting, Accepts
<1>4. \A b \in Accepting(f) : b = a
  BY <1>1, <1>2, <1>3, SweepAssumption DEF IsInjective
<1>5. \A k \in Accepting(f) : a <= k
  BY <1>1, <1>2, <1>4
<1> DEFINE i == CHOOSE i \in Accepting(f) : \A k \in Accepting(f) : i <= k
<1>6. i \in Accepting(f)
  BY <1>1, <1>5
<1> HIDE DEF i
<1>7. i \in DOMAIN Callbacks /\ Callbacks[i] = FileGpu[f] /\ FileGpu[f] \in active
  BY <1>2, <1>3, <1>6
<1> QED BY <1>7 DEF i

\* The GPU of a file whose callback is enabled has a callback that accepts
\* the file.
LEMMA ActiveAccepts ==
    ASSUME TypeOK, NEW f \in File, FileGpu[f] \in active
    PROVE  Accepting(f) # {}
<1>1. FileGpu[f] \in Range(Callbacks)
  BY DEF TypeOK
<1>2. PICK i \in DOMAIN Callbacks : Callbacks[i] = FileGpu[f]
  BY <1>1 DEF Range
<1> QED BY <1>2 DEF Accepting, Accepts

\* A file that no callback accepts is left alone.
IgnoredFile ==
    /\ \/ fds[pid][pos] = NoFile
       \/ fds[pid][pos] \in File /\ FileGpu[fds[pid][pos]] \notin active
    /\ UNCHANGED <<processes, last, current>>

\* A file that the callback of its GPU accepts is aggregated and measured.
AcceptedFile(f, g) ==
    /\ fds[pid][pos] = f /\ FileGpu[f] = g
    /\ processes' = [processes EXCEPT ![g] = Aggregate(g, f, {e.stamp : e \in Previous(g, f)})]
    /\ last' = [last EXCEPT ![g] = @ \ Previous(g, f)]
    /\ current' = [current EXCEPT ![g] = Measured(g, f)]

\* The two outcomes of parsing the fdinfo of a descriptor.
LEMMA ParseOutcomes ==
    ASSUME TypeOK, LoopInv, Parse
    PROVE  IgnoredFile \/ \E f \in File : FileGpu[f] \in active /\ AcceptedFile(f, FileGpu[f])
<1> DEFINE f == fds[pid][pos]
           i == CHOOSE i \in Accepting(f) : \A k \in Accepting(f) : i <= k
<1>1. f \in File \cup {NoFile}
  <2>1. pid \in Pid /\ pos \in Fd
    BY DEF TypeOK, LoopInv, Parse
  <2>2. fds[pid] \in [Fd -> File \cup {NoFile}]
    BY <2>1 DEF TypeOK
  <2> QED BY <2>1, <2>2
<1>2. CASE f = NoFile
  <2>1. UNCHANGED <<processes, last, current>>
    BY <1>2 DEF Parse, caches
  <2> QED BY <1>2, <2>1 DEF IgnoredFile
<1>3. CASE f # NoFile /\ Accepting(f) = {}
  <2>1. FileGpu[f] \notin active
    BY <1>1, <1>3, ActiveAccepts
  <2> QED BY <1>1, <1>3, <2>1 DEF Parse, caches, IgnoredFile
<1>4. CASE f # NoFile /\ Accepting(f) # {}
  <2>1. f \in File
    BY <1>1, <1>4
  <2> DEFINE g == Callbacks[i]
  <2>2. g = FileGpu[f] /\ FileGpu[f] \in active
    BY <1>4, <2>1, AcceptingGpu
  <2>3. /\ processes' = [processes EXCEPT ![g] = Aggregate(g, f, {e.stamp : e \in Previous(g, f)})]
        /\ last' = [last EXCEPT ![g] = @ \ Previous(g, f)]
        /\ current' = [current EXCEPT ![g] = Measured(g, f)]
    BY <1>4 DEF Parse
  <2> HIDE DEF g, i
  <2>4. AcceptedFile(f, FileGpu[f])
    BY <2>2, <2>3 DEF AcceptedFile
  <2> QED BY <2>1, <2>2, <2>4
<1> QED BY <1>2, <1>3, <1>4

\* A measurement adds an entry for a client that has none.
LEMMA MeasuredEntries ==
    ASSUME TypeOK, LoopInv, CacheInv, pc = "parse", NEW f \in File, NEW g \in Gpu
    PROVE  /\ Measured(g, f) \subseteq CacheEntry /\ OnePerClient(Measured(g, f))
           /\ \A e \in Measured(g, f) : e.stamp = refresh
<1>1. /\ current[g] \subseteq CacheEntry /\ OnePerClient(current[g])
      /\ \A e \in current[g] : e.stamp = refresh
      /\ refresh \in 1 .. MaxRefresh /\ pid \in Pid
  BY SweepAssumption DEF TypeOK, LoopInv, CacheInv
<1>2. CASE FileClient[f] = NoClient \/ OfClient(current[g], f) # {}
  BY <1>1, <1>2 DEF Measured
<1>3. CASE ~(FileClient[f] = NoClient \/ OfClient(current[g], f) # {})
  <2> DEFINE e == [client |-> FileClient[f], pid |-> pid, stamp |-> refresh]
  <2>1. Measured(g, f) = current[g] \cup {e}
    BY <1>3 DEF Measured
  <2>2. FileClient[f] \in Client
    BY <1>3, SweepAssumption DEF Client, Range
  <2>3. e \in CacheEntry /\ e.client = FileClient[f] /\ e.pid = pid /\ e.stamp = refresh
    BY <1>1, <2>2 DEF CacheEntry
  <2>4. \A d \in current[g] : ~(d.client = e.client /\ d.pid = e.pid)
    BY <1>3, <2>3 DEF OfClient
  <2> HIDE DEF e
  <2> QED BY <1>1, <2>1, <2>3, <2>4 DEF OnePerClient
<1> QED BY <1>2, <1>3

-----------------------------------------------------------------------------
(* The invariant of the rows and of the caches                             *)

\* Nothing is listed, nothing is cached.
LEMMA InitIInv == Init => IInv
<1> SUFFICES ASSUME Init PROVE IInv
  OBVIOUS
<1>1. /\ \A g \in Gpu : processes[g] = <<>> /\ last[g] = {} /\ current[g] = {}
      /\ processes \in [Gpu -> Seq(Row)]
      /\ last \in [Gpu -> SUBSET CacheEntry] /\ current \in [Gpu -> SUBSET CacheEntry]
  BY DEF Init
<1>2. Fd \subseteq Int
  BY SweepAssumption DEF Fd
<1>3. TypeOK
  BY <1>1, SweepAssumption DEF Init, TypeOK
<1>4. LoopInv
  BY DEF Init, LoopInv
<1>5. RowInv
  BY <1>1 DEF Init, RowInv
<1>6. CacheInv
  BY <1>1 DEF Init, CacheInv, OnePerClient
<1> QED BY <1>3, <1>4, <1>5, <1>6 DEF IInv

\* The descriptors and the callbacks are not what the rows and the caches are
\* about; a sweep sees callbacks that do not change.
LEMMA OutsideStep ==
    ASSUME IInv, TypeOK',
           UNCHANGED <<processes, last, current, pc, pids, pid, pos, seen, refresh, refreshed>>,
           pc = "idle" \/ UNCHANGED active
    PROVE  IInv'
<1>1. LoopInv'
  BY DEF IInv, LoopInv
<1>2. RowInv'
  BY DEF IInv, RowInv, VisitedRows, Done
<1>3. CacheInv'
  BY DEF IInv, CacheInv, OnePerClient
<1> QED BY <1>1, <1>2, <1>3 DEF IInv

\* A process opens, closes or replaces a file while nobody has read its
\* descriptor, or between the two reads of it: the rows do not change.
LEMMA ChangeFdStep ==
    ASSUME IInv, NEW p \in Pid, NEW fd \in Fd, NEW f \in File \cup {NoFile}, ChangeFd(p, fd, f)
    PROVE  IInv'
<1>1. /\ fds' = [fds EXCEPT ![p][fd] = f] /\ changed' = changed \cup {p} /\ changes' = changes + 1
      /\ changes < MaxChanges
      /\ UNCHANGED <<active, processes, last, current, pc, pids, pid, pos, seen, refresh, refreshed>>
  BY DEF ChangeFd, caches, loop
<1>2. fds' \in [Pid -> [Fd -> File \cup {NoFile}]] /\ changes' \in 0 .. MaxChanges
  BY <1>1, SweepAssumption DEF IInv, TypeOK
<1>3. TypeOK'
  BY <1>1, <1>2 DEF IInv, TypeOK
<1> QED BY <1>1, <1>3, OutsideStep

\* Switching callbacks happens between sweeps and touches no row.
LEMMA EnableDisableStep ==
    ASSUME IInv, NEW set \in SUBSET Range(Callbacks), EnableDisable(set)
    PROVE  IInv'
<1>1. /\ active' = set /\ pc = "idle"
      /\ UNCHANGED <<fds, changed, changes, processes, last, current, pc, pids, pid, pos, seen,
                     refresh, refreshed>>
  BY DEF EnableDisable, system, caches, loop
<1>2. TypeOK'
  BY <1>1 DEF IInv, TypeOK
<1> QED BY <1>1, <1>2, OutsideStep

\* The lists of the monitored GPUs are emptied; what the last cache holds is
\* now of an earlier refresh.
LEMMA BeginSweepStep ==
    ASSUME IInv, BeginSweep
    PROVE  IInv'
<1>1. /\ pc = "idle" /\ refresh < MaxRefresh /\ refresh' = refresh + 1 /\ refreshed' = active
      /\ processes' = [g \in Gpu |-> IF g \in active THEN <<>> ELSE processes[g]]
      /\ pids' = (IF active = {} THEN {} ELSE Pid) /\ pc' = "sweep"
      /\ UNCHANGED <<fds, changed, changes, active, last, current, pid, pos, seen>>
  BY DEF BeginSweep, system, caches
<1>2. refresh \in Nat /\ pid = NoPid /\ \A g \in Gpu : current[g] = {}
  BY <1>1 DEF IInv, TypeOK, LoopInv, CacheInv
<1>3. \A g \in Gpu : IF g \in active THEN processes'[g] = <<>> ELSE processes'[g] = processes[g]
  BY <1>1
<1>4. active \subseteq Gpu
  BY SweepAssumption DEF IInv, TypeOK, Range
<1>5. TypeOK'
  BY <1>1, <1>4, SweepAssumption DEF IInv, TypeOK
<1>6. LoopInv'
  BY <1>1, <1>2, SweepAssumption DEF IInv, LoopInv
<1>7. RowInv'
  <2>1. \A g \in Gpu : \A i, k \in DOMAIN processes'[g] :
            processes'[g][i].pid = processes'[g][k].pid => i = k
    BY <1>3 DEF IInv, RowInv
  <2>2. \A g \in refreshed' : VisitedRows(g)'
    BY <1>1, <1>3, <1>4 DEF VisitedRows
  <2>3. \A g \in Gpu : \A i \in DOMAIN processes'[g] : \A s \in processes'[g][i].since : s < refresh + 1
    <3> SUFFICES ASSUME NEW g \in Gpu, NEW i \in DOMAIN processes'[g], NEW s \in processes'[g][i].since
                 PROVE  s < refresh + 1
      OBVIOUS
    <3>1. processes'[g] = processes[g]
      BY <1>3
    <3>2. s < refresh /\ processes[g][i] \in Row
      BY <3>1, Lists DEF IInv, RowInv
    <3>3. s \in Int
      BY <3>1, <3>2 DEF Row
    <3> QED BY <1>2, <3>2, <3>3
  <2> QED BY <1>1, <2>1, <2>2, <2>3 DEF RowInv
<1>8. CacheInv'
  <2> SUFFICES ASSUME NEW g \in Gpu
               PROVE  /\ OnePerClient(current[g]) /\ OnePerClient(last[g])
                      /\ current[g] = {}
                      /\ \A d, e \in last[g] : d.stamp = e.stamp
                      /\ \A e \in last[g] : e.stamp < refresh + 1
    BY <1>1 DEF CacheInv, OnePerClient
  <2>1. \A e \in last[g] : e.stamp <= refresh /\ e.stamp \in Int
    BY <1>1 DEF IInv, TypeOK, CacheInv, CacheEntry
  <2> QED BY <1>2, <2>1 DEF IInv, CacheInv
<1> QED BY <1>5, <1>6, <1>7, <1>8 DEF IInv

\* The measurements of this refresh replace those of the one before.
LEMMA EndSweepStep ==
    ASSUME IInv, EndSweep
    PROVE  IInv'
<1>1. /\ pc = "sweep" /\ pid = NoPid /\ pids = {} /\ pc' = "idle"
      /\ last' = [g \in Gpu |-> IF g \in active THEN current[g] ELSE last[g]]
      /\ current' = [g \in Gpu |-> IF g \in active THEN {} ELSE current[g]]
      /\ UNCHANGED <<fds, changed, changes, active, processes, pids, pid, pos, seen, refresh, refreshed>>
  BY DEF EndSweep, Swap, system, loop
<1>2. refreshed = active /\ refresh \in Nat
  BY <1>1 DEF IInv, TypeOK, LoopInv
<1>3. TypeOK'
  BY <1>1 DEF IInv, TypeOK
<1>4. LoopInv'
  BY <1>1 DEF IInv, LoopInv
<1>5. RowInv'
  BY <1>1, SweepAssumption DEF IInv, RowInv, VisitedRows, Done, TypeOK, Row
<1>6. CacheInv'
  <2> SUFFICES ASSUME NEW g \in Gpu
               PROVE  /\ OnePerClient(current'[g]) /\ OnePerClient(last'[g])
                      /\ current'[g] = {}
                      /\ \A d, e \in last'[g] : d.stamp = e.stamp
                      /\ \A e \in last'[g] : e.stamp <= refresh
                      /\ g \in refreshed => \A e \in last'[g] : e.stamp = refresh
    BY <1>1 DEF CacheInv, OnePerClient
  <2>1. CASE g \in active
    BY <1>1, <1>2, <2>1 DEF IInv, CacheInv, OnePerClient
  <2>2. CASE g \notin active
    <3>1. last'[g] = last[g] /\ current'[g] = {}
      BY <1>1, <1>2, <2>2 DEF IInv, CacheInv
    <3>2. \A e \in last[g] : e.stamp < refresh /\ e.stamp \in Int
      BY <1>1 DEF IInv, TypeOK, CacheInv, CacheEntry
    <3> QED BY <1>2, <2>2, <3>1, <3>2 DEF IInv, CacheInv, OnePerClient
  <2> QED BY <2>1, <2>2
<1> QED BY <1>3, <1>4, <1>5, <1>6 DEF IInv

\* A set of natural numbers has a least element: the order of the numbers is
\* well-founded.
LEMMA LeastElement ==
    ASSUME NEW T \in SUBSET Nat, T # {}
    PROVE  \E x \in T : \A y \in T : x <= y
<1> DEFINE Less == OpToRel(<, Nat)
<1>1. IsWellFoundedOn(Less, Nat)
  BY NatLessThanWellFounded
<1>2. \A x, y \in Nat : <<y, x>> \in Less <=> y < x
  BY DEF OpToRel
<1> HIDE DEF Less
<1>3. PICK x \in T : \A y \in T : <<y, x>> \notin Less
  BY <1>1, WFMin
<1>4. x \in Nat /\ \A y \in T : y \in Nat
  OBVIOUS
<1>5. \A y \in T : ~(y < x)
  BY <1>2, <1>3, <1>4
<1> QED BY <1>4, <1>5

\* The entry NextFd visits is the first open one behind the position.
VisitsNext(fd) ==
    /\ fd \in Fd /\ fd > pos /\ fds[pid][fd] # NoFile
    /\ \A other \in Fd : pos < other /\ other < fd => fds[pid][other] = NoFile
    /\ pos' = fd
    /\ IF \E other \in seen : SameOpen(fd, other)
       THEN UNCHANGED <<seen, pc>>
       ELSE seen' = seen \cup {fd} /\ pc' = "parse"

\* The iteration over /proc/<pid>/fdinfo goes to the next open descriptor.
LEMMA NextFdVisits ==
    ASSUME TypeOK, NextFd
    PROVE  \E fd \in Fd : VisitsNext(fd)
<1> DEFINE left == {fd \in Fd : fd > pos /\ fds[pid][fd] # NoFile}
           fd == CHOOSE x \in left : \A y \in left : x <= y
<1>1. /\ left # {} /\ pos' = fd
      /\ IF \E other \in seen : SameOpen(fd, other)
         THEN UNCHANGED <<seen, pc>>
         ELSE seen' = seen \cup {fd} /\ pc' = "parse"
  BY DEF NextFd
<1>2. Fd \subseteq Nat /\ pos \in Nat
  BY SweepAssumption DEF Fd, TypeOK
<1>3. left \in SUBSET Nat /\ left \subseteq Fd
  BY <1>2
<1>4. \E x \in left : \A y \in left : x <= y
  <2> HIDE DEF left
  <2> QED BY <1>1, <1>3, LeastElement
<1>5. fd \in left /\ \A y \in left : fd <= y
  <2> HIDE DEF left
  <2> QED BY <1>4
<1> HIDE DEF fd
<1>6. fd \in Fd /\ fd > pos /\ fds[pid][fd] # NoFile
  BY <1>5
<1>7. \A other \in Fd : pos < other /\ other < fd => fds[pid][other] = NoFile
  BY <1>2, <1>5, <1>6
<1> QED BY <1>1, <1>6, <1>7 DEF VisitsNext

\* The next process has no row yet.
LEMMA NextPidStep ==
    ASSUME IInv, NEW p \in Pid, NextPid(p)
    PROVE  IInv'
<1>1. /\ pc = "sweep" /\ pid = NoPid /\ p \in pids
      /\ pid' = p /\ pids' = pids \ {p} /\ pos' = 0 /\ seen' = {} /\ changed' = changed \ {p}
      /\ UNCHANGED <<fds, changes, active, processes, last, current, pc, refresh, refreshed>>
  BY DEF NextPid, caches
<1>2. TypeOK'
  BY <1>1, SweepAssumption DEF IInv, TypeOK
<1>3. LoopInv'
  BY <1>1 DEF IInv, LoopInv
<1>4. \A g \in refreshed : VisitedRows(g)'
  BY <1>1 DEF IInv, RowInv, VisitedRows
<1>5. RowInv' /\ CacheInv'
  BY <1>1, <1>4 DEF IInv, RowInv, CacheInv, OnePerClient
<1> QED BY <1>2, <1>3, <1>5 DEF IInv

\* The position only grows, and a file to be parsed lies before it.
LEMMA NextFdStep ==
    ASSUME IInv, NextFd
    PROVE  IInv'
<1>1. /\ pc = "sweep" /\ pid # NoPid
      /\ UNCHANGED <<fds, changed, changes, active, processes, last, current, pids, pid, refresh, refreshed>>
  BY DEF NextFd, system, caches
<1>2. PICK fd \in Fd : VisitsNext(fd)
  BY NextFdVisits DEF IInv
<1>3. /\ pos' = fd /\ fd > pos /\ pos \in Nat /\ fd \in Nat /\ Fd \subseteq Nat
      /\ \/ seen' = seen /\ pc' = pc
         \/ seen' = seen \cup {fd} /\ pc' = "parse"
  <2>1. Fd \subseteq Nat /\ fd \in Nat
    BY SweepAssumption DEF Fd
  <2>2. pos \in Nat
    BY SweepAssumption DEF IInv, TypeOK
  <2> QED BY <1>2, <2>1, <2>2 DEF VisitsNext
<1>4. TypeOK'
  <2>1. fd \in 0 .. NumFd
    BY SweepAssumption DEF Fd
  <2>2. pos' \in 0 .. NumFd /\ seen' \subseteq Fd /\ pc' \in {"idle", "sweep", "parse"}
    BY <1>3, <2>1 DEF IInv, TypeOK
  <2> QED BY <1>1, <2>2 DEF IInv, TypeOK
<1>5. LoopInv'
  <2>1. \A x \in seen : x <= pos /\ x \in Nat
    BY <1>3 DEF IInv, LoopInv, TypeOK
  <2>2. \A x \in seen' : x <= fd
    BY <1>3, <2>1
  <2> QED BY <1>1, <1>3, <2>2 DEF IInv, LoopInv
<1>6. \A g \in refreshed : VisitedRows(g)'
  <2> SUFFICES ASSUME NEW g \in refreshed, NEW i \in DOMAIN processes[g], processes[g][i].pid = pid,
                      NEW f \in File
               PROVE  processes[g][i].counted[f] <= Done(pid)'
    BY <1>1 DEF IInv, RowInv, VisitedRows
  <2>1. processes[g][i].counted[f] <= Done(pid) /\ g \in Gpu
    BY DEF IInv, RowInv, VisitedRows, TypeOK
  <2>2. processes[g][i].counted[f] \in Int
    BY <2>1, Lists, SweepAssumption DEF IInv, Row
  <2>3. Done(pid) = pos /\ Done(pid)' \in {fd - 1, fd}
    BY <1>1, <1>3 DEF Done, IInv, LoopInv
  <2> QED BY <1>3, <2>1, <2>2, <2>3
<1>7. RowInv' /\ CacheInv'
  BY <1>1, <1>3, <1>6 DEF IInv, RowInv, CacheInv, OnePerClient
<1> QED BY <1>4, <1>5, <1>7 DEF IInv

\* No process is visited any more.
LEMMA PidDoneStep ==
    ASSUME IInv, PidDone
    PROVE  IInv'
<1>1. /\ pc = "sweep" /\ pid' = NoPid /\ pos' = 0 /\ seen' = {}
      /\ UNCHANGED <<fds, changed, changes, active, processes, last, current, pc, pids, refresh, refreshed>>
  BY DEF PidDone, system, caches
<1>2. TypeOK'
  BY <1>1, SweepAssumption DEF IInv, TypeOK
<1>3. LoopInv'
  <2>1. NoPid \notin pids
    BY SweepAssumption DEF IInv, TypeOK
  <2> QED BY <1>1, <2>1 DEF IInv, LoopInv
<1>4. \A g \in refreshed : VisitedRows(g)'
  <2> SUFFICES ASSUME NEW g \in refreshed, NEW i \in DOMAIN processes[g]
               PROVE  processes[g][i].pid \notin pids /\ processes[g][i].pid # NoPid
    BY <1>1 DEF VisitedRows
  <2>1. processes[g][i].pid \in Pid
    BY Lists DEF IInv, TypeOK, Row
  <2> QED BY <2>1, SweepAssumption DEF IInv, RowInv, VisitedRows
<1>5. RowInv' /\ CacheInv'
  BY <1>1, <1>4 DEF IInv, RowInv, CacheInv, OnePerClient
<1> QED BY <1>2, <1>3, <1>5 DEF IInv

\* What the row of the process visited holds before a file is added to it.
LEMMA OldRowBounds ==
    ASSUME IInv, pc = "parse", NEW g \in refreshed
    PROVE  /\ g \in Gpu /\ pid \in Pid /\ pid \notin pids /\ pos \in 1 .. NumFd
           /\ \A x \in File : OldRow(g).counted[x] \in 0 .. pos - 1
           /\ \A s \in OldRow(g).since : s < refresh
           /\ \A i \in 1 .. Len(processes[g]) :
                 processes[g][i].pid = pid => RowIndex(g) # 0 /\ i = Len(processes[g])
<1>1. g \in Gpu /\ pid \in Pid /\ pid \notin pids /\ pos \in 1 .. NumFd
  BY DEF IInv, TypeOK, LoopInv, Fd
<1> DEFINE n == Len(processes[g])
<1>2. /\ n \in Nat /\ DOMAIN processes[g] = 1 .. n
      /\ \A i \in 1 .. n : processes[g][i] \in Row
  BY <1>1, Lists DEF IInv
<1>3. /\ OldRow(g) \in Row /\ OldRow(g).pid = pid
      /\ RowIndex(g) = 0 => /\ OldRow(g).counted = [x \in File |-> 0] /\ OldRow(g).since = {}
                            /\ n # 0 => processes[g][n].pid # pid
      /\ RowIndex(g) # 0 => RowIndex(g) = n /\ n # 0
  BY <1>1, OldRowType DEF IInv
<1>4. Done(pid) = pos - 1
  BY <1>1 DEF Done
<1>5. \A i \in 1 .. n : processes[g][i].pid = pid => RowIndex(g) # 0 /\ i = n
  <2> SUFFICES ASSUME NEW i \in 1 .. n, processes[g][i].pid = pid PROVE RowIndex(g) # 0 /\ i = n
    OBVIOUS
  <2>1. i = n
    BY <1>2 DEF IInv, RowInv, VisitedRows
  <2> QED BY <1>2, <1>3, <2>1
<1>6. CASE RowIndex(g) = 0
  BY <1>1, <1>2, <1>3, <1>5, <1>6
<1>7. CASE RowIndex(g) # 0
  <2>1. OldRow(g) = processes[g][n] /\ n \in 1 .. n /\ processes[g][n].pid = pid
    BY <1>2, <1>3, <1>7 DEF OldRow
  <2>2. \A x \in File : OldRow(g).counted[x] <= pos - 1
    BY <1>2, <1>4, <2>1 DEF IInv, RowInv, VisitedRows
  <2>3. \A x \in File : OldRow(g).counted[x] \in 0 .. NumFd
    BY <1>3 DEF Row
  <2>4. \A x \in File : OldRow(g).counted[x] \in 0 .. pos - 1
    BY <1>1, <2>2, <2>3, SweepAssumption
  <2>5. \A s \in OldRow(g).since : s < refresh
    BY <1>1, <1>2, <2>1 DEF IInv, RowInv
  <2> QED BY <1>1, <1>5, <2>4, <2>5
<1> QED BY <1>6, <1>7

\* The list a file is added to.
LEMMA AcceptedRows ==
    ASSUME IInv, Parse, NEW f \in File, NEW g \in active, AcceptedFile(f, g)
    PROVE  /\ \A s \in {e.stamp : e \in Previous(g, f)} : s < refresh
           /\ Aggregated(g, f, {e.stamp : e \in Previous(g, f)}, processes'[g])
           /\ processes' \in [Gpu -> Seq(Row)]
           /\ \A h \in Gpu : h # g => processes'[h] = processes[h]
<1> DEFINE since == {e.stamp : e \in Previous(g, f)}
<1>1. pc = "parse" /\ g \in refreshed
  BY DEF Parse, IInv, LoopInv
<1>2. /\ g \in Gpu /\ pid \in Pid /\ pos \in 1 .. NumFd /\ NumFd \in Nat
      /\ OldRow(g).counted[f] \in 0 .. pos - 1
  BY <1>1, OldRowBounds, SweepAssumption
<1>3. Previous(g, f) \subseteq last[g] /\ last[g] \subseteq CacheEntry
  BY <1>2 DEF Previous, OfClient, IInv, TypeOK
<1>4. since \in SUBSET (1 .. MaxRefresh) /\ \A s \in since : s < refresh
  <2>1. \A e \in last[g] : e.stamp < refresh
    BY <1>1, <1>2 DEF IInv, CacheInv
  <2>2. \A e \in last[g] : e.stamp \in 1 .. MaxRefresh
    BY <1>3 DEF CacheEntry
  <2> QED BY <1>3, <2>1, <2>2
<1>5. processes' = [processes EXCEPT ![g] = Aggregate(g, f, since)]
  BY DEF AcceptedFile
<1> HIDE DEF since
<1>6. Aggregated(g, f, since, Aggregate(g, f, since))
  BY <1>2, <1>4, AggregateOk DEF IInv
<1>7. Aggregate(g, f, since) \in Seq(Row)
  BY <1>6 DEF Aggregated
<1>8. /\ processes' \in [Gpu -> Seq(Row)] /\ processes'[g] = Aggregate(g, f, since)
      /\ \A h \in Gpu : h # g => processes'[h] = processes[h]
  BY <1>2, <1>5, <1>7 DEF IInv, TypeOK
<1> QED BY <1>4, <1>6, <1>8 DEF since

\* The row of the process visited stays the only one and the last one; it
\* counts the file once more.
LEMMA ParseStep ==
    ASSUME IInv, Parse
    PROVE  IInv'
<1>1. /\ pc = "parse" /\ pc' = "sweep"
      /\ UNCHANGED <<fds, changed, changes, active, pids, pid, pos, seen, refresh, refreshed>>
  BY DEF Parse, system, loop
<1>2. refreshed = active /\ pid \in Pid /\ pos \in 1 .. NumFd /\ pid \notin pids
  BY <1>1 DEF IInv, TypeOK, LoopInv, Fd
<1>3. Done(pid) = pos - 1 /\ Done(pid)' = pos
  BY <1>1, <1>2 DEF Done
<1>4. LoopInv'
  BY <1>1 DEF IInv, LoopInv
<1>5. CASE IgnoredFile
  <2>1. UNCHANGED <<processes, last, current>>
    BY <1>5 DEF IgnoredFile
  <2>2. TypeOK'
    BY <1>1, <2>1 DEF IInv, TypeOK
  <2>3. \A g \in refreshed : VisitedRows(g)'
    <3> SUFFICES ASSUME NEW g \in refreshed, NEW i \in DOMAIN processes[g], processes[g][i].pid = pid,
                        NEW x \in File
                 PROVE  processes[g][i].counted[x] <= pos
      BY <1>1, <1>3, <2>1 DEF IInv, RowInv, VisitedRows
    <3>1. processes[g][i].counted[x] <= pos - 1 /\ g \in Gpu
      BY <1>3 DEF IInv, RowInv, VisitedRows, TypeOK
    <3>2. processes[g][i].counted[x] \in Int
      BY <3>1, Lists, SweepAssumption DEF IInv, Row
    <3> QED BY <1>2, <3>1, <3>2, SweepAssumption
  <2>4. RowInv' /\ CacheInv'
    BY <1>1, <2>1, <2>3 DEF IInv, RowInv, CacheInv, OnePerClient
  <2> QED BY <1>4, <2>2, <2>4 DEF IInv
<1>6. ASSUME NEW f \in File, NEW g \in active, AcceptedFile(f, g) PROVE IInv'
  <2> DEFINE since == {e.stamp : e \in Previous(g, f)}
             rows  == processes'[g]
             n     == Len(processes[g])
             k     == Len(rows)
  <2>1. /\ \A s \in since : s < refresh
        /\ Aggregated(g, f, since, rows)
        /\ processes' \in [Gpu -> Seq(Row)]
        /\ \A h \in Gpu : h # g => processes'[h] = processes[h]
    BY <1>6, AcceptedRows
  <2> HIDE DEF since, rows
  <2>2. /\ rows \in Seq(Row) /\ k = (IF RowIndex(g) # 0 THEN n ELSE n + 1)
        /\ \A i \in 1 .. k - 1 : rows[i] = processes[g][i]
        /\ rows[k].pid = pid /\ rows[k].since = OldRow(g).since \cup since
        /\ \A x \in File : rows[k].counted[x] = OldRow(g).counted[x] + IF x = f THEN 1 ELSE 0
    BY <2>1 DEF Aggregated
  <2>3. /\ g \in Gpu /\ \A x \in File : OldRow(g).counted[x] \in 0 .. pos - 1
        /\ \A s \in OldRow(g).since : s < refresh
        /\ \A i \in 1 .. n : processes[g][i].pid = pid => RowIndex(g) # 0 /\ i = n
        /\ RowIndex(g) # 0 => n # 0
    BY <1>1, <1>2, OldRowBounds, OldRowType DEF IInv
  <2>4. n \in Nat /\ DOMAIN processes[g] = 1 .. n /\ k \in Nat \ {0} /\ DOMAIN rows = 1 .. k
    BY <2>2, <2>3, Lists DEF IInv
  <2>5. \A i \in 1 .. k - 1 : i \in 1 .. n /\ rows[i] = processes[g][i] /\ rows[i].pid # pid
    BY <2>2, <2>3, <2>4
  <2>6. \A x \in File : rows[k].counted[x] <= pos
    BY <1>2, <2>2, <2>3
  <2>7. TypeOK'
    <3>1. Measured(g, f) \subseteq CacheEntry
      BY <1>1, <2>3, MeasuredEntries DEF IInv
    <3>2. last' \in [Gpu -> SUBSET CacheEntry] /\ current' \in [Gpu -> SUBSET CacheEntry]
      BY <1>6, <2>3, <3>1 DEF AcceptedFile, IInv, TypeOK
    <3> QED BY <1>1, <2>1, <3>2 DEF IInv, TypeOK
  <2>8. \A h \in Gpu : \A a, b \in DOMAIN processes'[h] :
            processes'[h][a].pid = processes'[h][b].pid => a = b
    <3>1. \A a, b \in 1 .. k : rows[a].pid = rows[b].pid => a = b
      <4> SUFFICES ASSUME NEW a \in 1 .. k, NEW b \in 1 .. k, rows[a].pid = rows[b].pid PROVE a = b
        OBVIOUS
      <4>1. CASE a \in 1 .. k - 1 /\ b \in 1 .. k - 1
        BY <2>3, <2>4, <2>5, <4>1 DEF IInv, RowInv
      <4>2. k \in Nat \ {0}
        BY <2>4
      <4>3. (a \in 1 .. k - 1 \/ a = k) /\ (b \in 1 .. k - 1 \/ b = k)
        BY <4>2
      <4>4. rows[k].pid = pid /\ \A i \in 1 .. k - 1 : rows[i].pid # pid
        BY <2>2, <2>5
      <4> QED BY <4>1, <4>3, <4>4
    <3>2. \A h \in Gpu : h # g =>
             \A a, b \in DOMAIN processes'[h] : processes'[h][a].pid = processes'[h][b].pid => a = b
      <4>1. RowInv
        BY DEF IInv
      <4> QED BY <2>1, <4>1, Zenon DEF RowInv
    <3>3. processes'[g] = rows
      BY DEF rows
    <3> QED BY <2>4, <3>1, <3>2, <3>3
  <2>9. \A h \in refreshed : VisitedRows(h)'
    <3> SUFFICES ASSUME NEW h \in refreshed, NEW i \in DOMAIN processes'[h]
                 PROVE  /\ processes'[h][i].pid \notin pids
                        /\ processes'[h][i].pid = pid =>
                              i = Len(processes'[h]) /\ \A x \in File : processes'[h][i].counted[x] <= pos
      BY <1>1, <1>3 DEF VisitedRows
    <3>1. CASE h = g
      <4>1. rows = processes'[h] /\ i \in 1 .. k
        BY <2>4, <3>1 DEF rows
      <4>2. CASE i = k
        BY <1>2, <2>2, <2>6, <4>1, <4>2
      <4>3. CASE i # k
        <5>1. i \in 1 .. k - 1
          BY <2>4, <4>1, <4>3
        <5>2. processes[g][i].pid \notin pids
          BY <2>4, <2>5, <3>1, <5>1 DEF IInv, RowInv, VisitedRows
        <5> QED BY <2>5, <4>1, <5>1, <5>2
      <4> QED BY <4>2, <4>3
    <3>2. CASE h # g
      <4>1. processes'[h] = processes[h] /\ h \in Gpu
        BY <2>1, <3>2 DEF IInv, TypeOK
      <4>2. /\ processes[h][i].pid \notin pids
            /\ processes[h][i].pid = pid =>
                  i = Len(processes[h]) /\ \A x \in File : processes[h][i].counted[x] <= pos - 1
        BY <1>3, <4>1 DEF IInv, RowInv, VisitedRows
      <4>3. \A x \in File : processes[h][i].counted[x] \in Int
        BY <4>1, Lists, SweepAssumption DEF IInv, Row
      <4>4. \A x \in File : processes[h][i].counted[x] <= pos - 1 => processes[h][i].counted[x] <= pos
        BY <1>2, <4>3
      <4> QED BY <4>1, <4>2, <4>4
    <3> QED BY <3>1, <3>2
  <2>10. \A h \in Gpu : \A i \in DOMAIN processes'[h] : \A s \in processes'[h][i].since : s < refresh
    <3>1. \A i \in 1 .. k : \A s \in rows[i].since : s < refresh
      <4>1. \A s \in rows[k].since : s < refresh
        BY <2>1, <2>2, <2>3
      <4>2. \A i \in 1 .. k - 1 : \A s \in processes[g][i].since : s < refresh
        BY <2>3, <2>4, <2>5 DEF IInv, RowInv
      <4> QED BY <2>4, <2>5, <4>1, <4>2
    <3> QED BY <2>1, <2>4, <3>1 DEF rows, IInv, RowInv
  <2>11. RowInv'
    BY <1>1, <2>8, <2>9, <2>10 DEF RowInv
  <2>12. CacheInv'
    <3> SUFFICES ASSUME NEW h \in Gpu
                 PROVE  /\ OnePerClient(current'[h]) /\ OnePerClient(last'[h])
                        /\ \A e \in current'[h] : e.stamp = refresh
                        /\ h \notin refreshed => current'[h] = {}
                        /\ \A d, e \in last'[h] : d.stamp = e.stamp
                        /\ \A e \in last'[h] : e.stamp < refresh
      BY <1>1 DEF CacheInv, OnePerClient
    <3>1. last'[h] \subseteq last[h]
      BY <1>6 DEF AcceptedFile, IInv, TypeOK
    <3>2. /\ OnePerClient(last'[h])
          /\ \A d, e \in last'[h] : d.stamp = e.stamp
          /\ \A e \in last'[h] : e.stamp < refresh
      BY <1>1, <3>1 DEF IInv, CacheInv, OnePerClient
    <3>3. OnePerClient(current'[h]) /\ \A e \in current'[h] : e.stamp = refresh
      <4>1. current'[h] = IF h = g THEN Measured(g, f) ELSE current[h]
        BY <1>6 DEF AcceptedFile, IInv, TypeOK
      <4>2. OnePerClient(Measured(g, f)) /\ \A e \in Measured(g, f) : e.stamp = refresh
        BY <1>1, <2>3, MeasuredEntries DEF IInv
      <4> QED BY <4>1, <4>2 DEF IInv, CacheInv
    <3>4. h \notin refreshed => current'[h] = {}
      BY <1>2, <1>6 DEF AcceptedFile, IInv, TypeOK, CacheInv
    <3> QED BY <3>2, <3>3, <3>4
  <2> QED BY <1>4, <2>7, <2>11, <2>12 DEF IInv
<1>7. IgnoredFile \/ \E f \in File : FileGpu[f] \in active /\ AcceptedFile(f, FileGpu[f])
  BY ParseOutcomes DEF IInv
<1> QED BY <1>5, <1>6, <1>7

\* One step lemma per action; a stuttering step changes nothing.
LEMMA NextIInv == IInv /\ [Next]_vars => IInv'
<1> SUFFICES ASSUME IInv, [Next]_vars PROVE IInv'
  OBVIOUS
<1>1. CASE UNCHANGED vars
  <2>1. UNCHANGED <<processes, last, current, pc, pids, pid, pos, seen, refresh, refreshed, active>>
    BY <1>1 DEF vars
  <2>2. TypeOK'
    BY <1>1 DEF vars, IInv, TypeOK
  <2> QED BY <2>1, <2>2, OutsideStep
<1> QED BY <1>1, ChangeFdStep, EnableDisableStep, BeginSweepStep, EndSweepStep, NextPidStep,
           NextFdStep, PidDoneStep, ParseStep DEF Next

-----------------------------------------------------------------------------
(* Every open file is counted once                                         *)

\* The same processes, GPUs and rows, descriptors unchanged except those of
\* processes that are marked so.
LEMMA OpensOutside ==
    ASSUME IInv, OpensInv,
           UNCHANGED <<processes, pc, pids, pid, pos, seen, refreshed>>,
           changed \subseteq changed',
           \A p \in Pid \ changed' : fds'[p] = fds[p]
    PROVE  OpensInv'
<1>1. SeenInv'
  BY DEF OpensInv, SeenInv, IInv, TypeOK
<1>2. CountInv'
  <2> SUFFICES ASSUME NEW g \in refreshed, NEW p \in Pid \ changed'
               PROVE  Counts(p, g, HeldBefore(p, g, Done(p)))'
    BY DEF CountInv
  <2>1. Counts(p, g, HeldBefore(p, g, Done(p)))
    BY DEF OpensInv, CountInv
  <2>2. HeldBefore(p, g, Done(p))' = HeldBefore(p, g, Done(p))
    BY DEF HeldBefore, Done
  <2> QED BY <2>1, <2>2 DEF Counts
<1> QED BY <1>1, <1>2 DEF OpensInv

\* The lists are empty and every process is yet to come.
LEMMA OpensBeginSweep ==
    ASSUME IInv, OpensInv, BeginSweep
    PROVE  OpensInv'
<1>1. /\ pc = "idle" /\ refreshed' = active /\ pc' = "sweep"
      /\ processes' = [g \in Gpu |-> IF g \in active THEN <<>> ELSE processes[g]]
      /\ pids' = (IF active = {} THEN {} ELSE Pid)
      /\ UNCHANGED <<fds, changed, pid>>
  BY DEF BeginSweep, system, caches
<1>2. pid' = NoPid /\ active \subseteq Gpu
  BY <1>1, SweepAssumption DEF IInv, LoopInv, TypeOK, Range
<1>3. SeenInv'
  BY <1>2 DEF SeenInv
<1>4. CountInv'
  <2> SUFFICES ASSUME NEW g \in active, NEW p \in Pid
               PROVE  Counts(p, g, HeldBefore(p, g, Done(p)))'
    BY <1>1 DEF CountInv
  <2>1. pids' = Pid /\ processes'[g] = <<>>
    BY <1>1, <1>2
  <2>2. Done(p)' = 0
    BY <2>1 DEF Done
  <2>3. HeldBefore(p, g, Done(p))' = {}
    <3>1. \A fd \in Fd : ~(fd <= 0)
      BY SweepAssumption DEF Fd
    <3> QED BY <2>2, <3>1 DEF HeldBefore
  <2> QED BY <2>1, <2>3 DEF Counts
<1> QED BY <1>3, <1>4 DEF OpensInv

\* The next process has no descriptors behind the position and no row.
LEMMA OpensNextPid ==
    ASSUME IInv, OpensInv, NEW q \in Pid, NextPid(q)
    PROVE  OpensInv'
<1>1. /\ pc = "sweep" /\ pid = NoPid /\ q \in pids
      /\ pid' = q /\ pids' = pids \ {q} /\ pos' = 0 /\ seen' = {} /\ changed' = changed \ {q}
      /\ UNCHANGED <<fds, active, processes, pc, refreshed>>
  BY DEF NextPid, caches
<1>2. \A fd \in Fd : ~(fd <= 0)
  BY SweepAssumption DEF Fd
<1>3. SeenInv'
  BY <1>1, <1>2 DEF SeenInv
<1>4. CountInv'
  <2> SUFFICES ASSUME NEW g \in refreshed, NEW p \in Pid \ changed'
               PROVE  Counts(p, g, HeldBefore(p, g, Done(p)))'
    BY <1>1 DEF CountInv
  <2>1. CASE p = q
    <3>1. HeldBefore(p, g, Done(p))' = {}
      <4>1. Done(p)' = 0
        BY <1>1, <2>1 DEF Done
      <4> QED BY <4>1, <1>2 DEF HeldBefore
    <3>2. \A i \in DOMAIN processes[g] : processes[g][i].pid # q
      BY <1>1 DEF IInv, RowInv, VisitedRows
    <3> QED BY <1>1, <2>1, <3>1, <3>2 DEF Counts
  <2>2. CASE p # q
    <3>1. p \notin changed /\ p # NoPid
      BY <1>1, <2>2, SweepAssumption
    <3>2. HeldBefore(p, g, Done(p))' = HeldBefore(p, g, Done(p))
      BY <1>1, <2>2, <3>1 DEF HeldBefore, Done
    <3>3. Counts(p, g, HeldBefore(p, g, Done(p)))
      BY <3>1 DEF OpensInv, CountInv
    <3> QED BY <1>1, <3>2, <3>3 DEF Counts
  <2> QED BY <2>1, <2>2
<1> QED BY <1>3, <1>4 DEF OpensInv

\* What the sweep passes over is free or the same open file as one it has
\* seen; what it is about to parse is new.
LEMMA OpensNextFd ==
    ASSUME IInv, HasKcmp, OpensInv, NextFd
    PROVE  OpensInv'
<1>1. /\ pc = "sweep" /\ pid # NoPid
      /\ UNCHANGED <<fds, changed, processes, pids, pid, refreshed>>
  BY DEF NextFd, system, caches
<1>2. PICK fd \in Fd : VisitsNext(fd)
  BY NextFdVisits DEF IInv
<1>3. /\ pos' = fd /\ fd \in Fd /\ fd > pos /\ fds[pid][fd] # NoFile
      /\ \A x \in Fd : pos < x /\ x < fd => fds[pid][x] = NoFile
  BY <1>2 DEF VisitsNext
<1>4. Fd \subseteq Nat /\ pos \in Nat /\ seen \subseteq Fd
  BY SweepAssumption DEF Fd, IInv, TypeOK
<1>5. \A x \in Fd : x <= fd /\ fds[pid][x] # NoFile => x <= pos \/ x = fd
  BY <1>3, <1>4
<1>6. \A x \in seen : x <= pos
  BY DEF IInv, LoopInv
<1>7. pid \notin changed =>
        /\ \A x \in seen : fds[pid][x] # NoFile
        /\ \A x \in Fd : x <= pos /\ fds[pid][x] # NoFile =>
              \E other \in seen : fds[pid][other] = fds[pid][x]
  BY <1>1 DEF OpensInv, SeenInv
<1>8. CASE \E other \in seen : SameOpen(fd, other)
  <2>1. seen' = seen /\ pc' = "sweep"
    BY <1>1, <1>2, <1>8 DEF VisitsNext
  <2>2. pid \notin changed => \E other \in seen : fds[pid][other] = fds[pid][fd]
    BY <1>7, <1>8 DEF SameOpen
  <2>3. SeenInv'
    <3>1. pid \notin changed =>
             \A x \in Fd : x <= fd /\ fds[pid][x] # NoFile =>
                \E other \in seen : fds[pid][other] = fds[pid][x]
      BY <1>5, <1>7, <2>2
    <3> QED BY <1>1, <1>3, <1>7, <2>1, <3>1 DEF SeenInv
  <2>4. CountInv'
    <3> SUFFICES ASSUME NEW g \in refreshed, NEW p \in Pid \ changed
                 PROVE  Counts(p, g, HeldBefore(p, g, Done(p)))'
      BY <1>1 DEF CountInv
    <3>1. HeldBefore(p, g, Done(p))' = HeldBefore(p, g, Done(p))
      <4>1. CASE p # pid \/ p \in pids
        BY <1>1, <4>1 DEF HeldBefore, Done
      <4>2. CASE p = pid /\ p \notin pids
        <5>1. Done(p) = pos /\ Done(p)' = fd
          BY <1>1, <1>3, <2>1, <4>2 DEF Done
        <5>2. \A x \in Fd : x <= pos => x <= fd
          BY <1>3, <1>4
        <5>3. \A x \in Fd : x <= fd /\ fds[pid][x] # NoFile =>
                 \E y \in Fd : y <= pos /\ fds[pid][y] = fds[pid][x]
          BY <1>4, <1>5, <1>6, <2>2, <4>2
        <5> QED BY <1>1, <4>2, <5>1, <5>2, <5>3, SweepAssumption DEF HeldBefore
      <4> QED BY <4>1, <4>2
    <3>2. Counts(p, g, HeldBefore(p, g, Done(p)))
      BY DEF OpensInv, CountInv
    <3> QED BY <1>1, <3>1, <3>2 DEF Counts
  <2> QED BY <2>3, <2>4 DEF OpensInv
<1>9. CASE ~\E other \in seen : SameOpen(fd, other)
  <2>1. seen' = seen \cup {fd} /\ pc' = "parse"
    BY <1>2, <1>9 DEF VisitsNext
  <2>2. \A other \in seen : fds[pid][fd] # fds[pid][other]
    BY <1>9 DEF SameOpen
  <2>3. pid \notin changed => \A x \in Fd : x < fd => fds[pid][x] # fds[pid][fd]
    <3> SUFFICES ASSUME pid \notin changed, NEW x \in Fd, x < fd PROVE fds[pid][x] # fds[pid][fd]
      OBVIOUS
    <3>1. CASE fds[pid][x] = NoFile
      BY <1>3, <3>1
    <3>2. CASE fds[pid][x] # NoFile
      <4>1. x <= pos
        BY <1>4, <1>5, <3>2
      <4> QED BY <1>7, <2>2, <3>2, <4>1
    <3> QED BY <3>1, <3>2
  <2>4. SeenInv'
    <3> SUFFICES ASSUME pid \notin changed
                 PROVE  /\ \A x \in seen' : fds[pid][x] # NoFile
                        /\ \A x \in Fd : x <= fd /\ fds[pid][x] # NoFile =>
                              \E other \in seen' : fds[pid][other] = fds[pid][x]
                        /\ \A x \in Fd : x < fd => fds[pid][x] # fds[pid][fd]
      BY <1>1, <1>3 DEF SeenInv
    <3>1. \A x \in seen' : fds[pid][x] # NoFile
      BY <1>3, <1>7, <2>1
    <3>2. \A x \in Fd : x <= fd /\ fds[pid][x] # NoFile =>
             \E other \in seen' : fds[pid][other] = fds[pid][x]
      BY <1>5, <1>7, <2>1
    <3> QED BY <2>3, <3>1, <3>2
  <2>5. CountInv'
    <3> SUFFICES ASSUME NEW g \in refreshed, NEW p \in Pid \ changed
                 PROVE  Counts(p, g, HeldBefore(p, g, Done(p)))'
      BY <1>1 DEF CountInv
    <3>1. HeldBefore(p, g, Done(p))' = HeldBefore(p, g, Done(p))
      <4>1. CASE p # pid \/ p \in pids
        BY <1>1, <4>1 DEF HeldBefore, Done
      <4>2. CASE p = pid /\ p \notin pids
        <5>1. Done(p) = pos /\ Done(p)' = fd - 1
          BY <1>1, <1>3, <2>1, <4>2 DEF Done
        <5>2. \A x \in Fd : fds[pid][x] # NoFile => (x <= fd - 1 <=> x <= pos)
          BY <1>3, <1>4, <1>5
        <5> QED BY <1>1, <4>2, <5>1, <5>2, SweepAssumption DEF HeldBefore
      <4> QED BY <4>1, <4>2
    <3>2. Counts(p, g, HeldBefore(p, g, Done(p)))
      BY DEF OpensInv, CountInv
    <3> QED BY <1>1, <3>1, <3>2 DEF Counts
  <2> QED BY <2>4, <2>5 DEF OpensInv
<1> QED BY <1>8, <1>9

\* The descriptors that are left are free.
LEMMA OpensPidDone ==
    ASSUME IInv, OpensInv, PidDone
    PROVE  OpensInv'
<1>1. /\ pc = "sweep" /\ pid # NoPid /\ pid' = NoPid
      /\ \A fd \in Fd : fd > pos => fds[pid][fd] = NoFile
      /\ UNCHANGED <<fds, changed, processes, pc, pids, refreshed>>
  BY DEF PidDone, system, caches
<1>2. SeenInv'
  BY <1>1 DEF SeenInv
<1>3. CountInv'
  <2> SUFFICES ASSUME NEW g \in refreshed, NEW p \in Pid \ changed
               PROVE  Counts(p, g, HeldBefore(p, g, Done(p)))'
    BY <1>1 DEF CountInv
  <2>1. HeldBefore(p, g, Done(p))' = HeldBefore(p, g, Done(p))
    <3>1. p # NoPid
      BY SweepAssumption
    <3>2. CASE p # pid \/ p \in pids
      BY <1>1, <3>1, <3>2 DEF HeldBefore, Done
    <3>3. CASE p = pid /\ p \notin pids
      <4>1. Done(p) = pos /\ Done(p)' = NumFd
        BY <1>1, <3>1, <3>3 DEF Done
      <4>2. \A x \in Fd : fds[pid][x] # NoFile => (x <= NumFd <=> x <= pos)
        BY <1>1, SweepAssumption DEF Fd, IInv, TypeOK
      <4> QED BY <1>1, <3>3, <4>1, <4>2, SweepAssumption DEF HeldBefore
    <3> QED BY <3>2, <3>3
  <2>2. Counts(p, g, HeldBefore(p, g, Done(p)))
    BY DEF OpensInv, CountInv
  <2> QED BY <1>1, <2>1, <2>2 DEF Counts
<1> QED BY <1>2, <1>3 DEF OpensInv

\* The rows stay.
LEMMA OpensEndSweep ==
    ASSUME IInv, OpensInv, EndSweep
    PROVE  OpensInv'
<1>1. /\ pc = "sweep" /\ pid = NoPid /\ pc' = "idle"
      /\ UNCHANGED <<fds, changed, processes, pids, pid, refreshed>>
  BY DEF EndSweep, system, loop
<1>2. SeenInv'
  BY <1>1 DEF SeenInv
<1>3. CountInv'
  <2> SUFFICES ASSUME NEW g \in refreshed, NEW p \in Pid \ changed
               PROVE  Counts(p, g, HeldBefore(p, g, Done(p)))'
    BY <1>1 DEF CountInv
  <2>1. p # NoPid
    BY SweepAssumption
  <2>2. HeldBefore(p, g, Done(p))' = HeldBefore(p, g, Done(p))
    BY <1>1, <2>1 DEF HeldBefore, Done
  <2>3. Counts(p, g, HeldBefore(p, g, Done(p)))
    BY DEF OpensInv, CountInv
  <2> QED BY <1>1, <2>2, <2>3 DEF Counts
<1> QED BY <1>2, <1>3 DEF OpensInv

\* Parsing counts the file in the row of its GPU, where it was not counted.
LEMMA OpensParse ==
    ASSUME IInv, OpensInv, Parse
    PROVE  OpensInv'
<1>1. /\ pc = "parse" /\ pc' = "sweep"
      /\ UNCHANGED <<fds, changed, active, pids, pid, pos, seen, refreshed>>
  BY DEF Parse, system, loop
<1>2. /\ refreshed = active /\ active \subseteq Gpu /\ pid \in Pid /\ pid \notin pids
      /\ pos \in 1 .. NumFd /\ Fd \subseteq Nat /\ pos \in Fd
  BY <1>1, SweepAssumption DEF IInv, TypeOK, LoopInv, Fd
<1>3. SeenInv'
  BY <1>1 DEF OpensInv, SeenInv
<1>4. Done(pid) = pos - 1 /\ Done(pid)' = pos /\ \A p \in Pid : p # pid => Done(p)' = Done(p)
  BY <1>1, <1>2 DEF Done
<1>5. \A p \in Pid, g \in Gpu :
         HeldBefore(p, g, Done(p))' = HeldBefore(p, g, IF p = pid THEN pos ELSE Done(p))
  BY <1>1, <1>4 DEF HeldBefore, Done
<1>6. \A x \in Fd : (x <= pos <=> x <= pos - 1 \/ x = pos) /\ (x <= pos - 1 <=> x < pos)
  BY <1>2
<1>7. \A p \in Pid \ changed, g \in refreshed : Counts(p, g, HeldBefore(p, g, Done(p)))
  BY DEF OpensInv, CountInv
<1>8. CASE IgnoredFile
  <2>1. UNCHANGED processes
    BY <1>8 DEF IgnoredFile
  <2>2. \A g \in refreshed : HeldBefore(pid, g, pos) = HeldBefore(pid, g, pos - 1)
    BY <1>2, <1>6, <1>8, SweepAssumption DEF IgnoredFile, HeldBefore
  <2>3. CountInv'
    <3> SUFFICES ASSUME NEW g \in refreshed, NEW p \in Pid \ changed
                 PROVE  Counts(p, g, HeldBefore(p, g, Done(p)))'
      BY <1>1 DEF CountInv
    <3>1. HeldBefore(p, g, Done(p))' = HeldBefore(p, g, Done(p))
      BY <1>2, <1>4, <1>5, <2>2
    <3> QED BY <1>7, <2>1, <3>1 DEF Counts
  <2> QED BY <1>3, <2>3 DEF OpensInv
<1>9. ASSUME NEW f \in File, NEW g \in active, AcceptedFile(f, g) PROVE OpensInv'
  <2> DEFINE since == {e.stamp : e \in Previous(g, f)}
             rows  == processes'[g]
             n     == Len(processes[g])
             k     == Len(rows)
             files == HeldBefore(pid, g, pos - 1)
  <2>1. /\ Aggregated(g, f, since, rows)
        /\ \A h \in Gpu : h # g => processes'[h] = processes[h]
    BY <1>9, AcceptedRows
  <2>2. fds[pid][pos] = f /\ FileGpu[f] = g /\ g \in Gpu
    BY <1>2, <1>9 DEF AcceptedFile
  <2> HIDE DEF since, rows
  <2>3. /\ rows \in Seq(Row) /\ k = (IF RowIndex(g) # 0 THEN n ELSE n + 1)
        /\ \A i \in 1 .. k - 1 : rows[i] = processes[g][i]
        /\ rows[k].pid = pid
        /\ \A x \in File : rows[k].counted[x] = OldRow(g).counted[x] + IF x = f THEN 1 ELSE 0
    BY <2>1 DEF Aggregated
  <2>4. /\ \A i \in 1 .. n : processes[g][i].pid = pid => RowIndex(g) # 0 /\ i = n
        /\ RowIndex(g) # 0 => n # 0 /\ OldRow(g) = processes[g][n]
        /\ RowIndex(g) = 0 => OldRow(g).counted = [x \in File |-> 0]
        /\ OldRow(g).pid = pid
    BY <1>1, <1>2, <2>2, OldRowBounds, OldRowType DEF IInv, OldRow
  <2>5. n \in Nat /\ DOMAIN processes[g] = 1 .. n /\ k \in Nat \ {0} /\ DOMAIN rows = 1 .. k
    BY <2>2, <2>3, <2>4, Lists DEF IInv
  <2>6. pid \notin changed => f \notin files
    <3>1. pid \notin changed => \A x \in Fd : x < pos => fds[pid][x] # f
      BY <1>1, <1>2, <2>2, SweepAssumption DEF OpensInv, SeenInv
    <3> QED BY <1>6, <3>1 DEF HeldBefore
  <2>7. HeldBefore(pid, g, pos) = files \cup {f}
    BY <1>2, <1>6, <2>2 DEF HeldBefore
  <2>8. \A h \in Gpu : h # g => HeldBefore(pid, h, pos) = HeldBefore(pid, h, pos - 1)
    BY <1>2, <1>6, <2>2 DEF HeldBefore
  <2>9. pid \notin changed => Counts(pid, g, files)
    BY <1>2, <1>4, <1>7
  <2> HIDE DEF files
  <2>10. pid \notin changed => OldRow(g).counted = [x \in File |-> IF x \in files THEN 1 ELSE 0]
    <3> SUFFICES ASSUME pid \notin changed
                 PROVE  OldRow(g).counted = [x \in File |-> IF x \in files THEN 1 ELSE 0]
      OBVIOUS
    <3>1. CASE files = {}
      <4>1. \A i \in 1 .. n : processes[g][i].pid # pid
        BY <2>5, <2>9, <3>1 DEF Counts
      <4>2. RowIndex(g) = 0
        BY <2>4, <2>5, <4>1
      <4> QED BY <2>4, <3>1, <4>2
    <3>2. CASE files # {}
      <4>1. PICK i \in 1 .. n : /\ processes[g][i].pid = pid
                                /\ processes[g][i].counted = [x \in File |-> IF x \in files THEN 1 ELSE 0]
        BY <2>5, <2>9, <3>2 DEF Counts
      <4> QED BY <2>4, <4>1
    <3> QED BY <3>1, <3>2
  <2>11. pid \notin changed =>
           rows[k].counted = [x \in File |-> IF x \in files \cup {f} THEN 1 ELSE 0]
    <3> SUFFICES ASSUME pid \notin changed
                 PROVE  rows[k].counted = [x \in File |-> IF x \in files \cup {f} THEN 1 ELSE 0]
      OBVIOUS
    <3>1. rows[k] \in Row
      BY <2>3, <2>5
    <3>2. rows[k].counted \in [File -> 0 .. NumFd]
      BY <3>1 DEF Row
    <3>3. \A x \in File : rows[k].counted[x] = IF x \in files \cup {f} THEN 1 ELSE 0
      BY <2>3, <2>6, <2>10
    <3> QED BY <3>2, <3>3
  <2>12. ASSUME NEW p \in Pid \ changed, p = pid PROVE Counts(p, g, HeldBefore(p, g, Done(p)))'
    <3>1. HeldBefore(p, g, Done(p))' = files \cup {f}
      BY <1>5, <2>2, <2>7, <2>12
    <3>2. k \in DOMAIN rows /\ rows[k].pid = p
      BY <2>3, <2>5, <2>12
    <3>3. rows[k].counted = [x \in File |-> IF x \in files \cup {f} THEN 1 ELSE 0]
      BY <2>11, <2>12
    <3> QED BY <1>1, <3>1, <3>2, <3>3 DEF Counts, rows
  <2>13. ASSUME NEW p \in Pid \ changed, p # pid PROVE Counts(p, g, HeldBefore(p, g, Done(p)))'
    <3>1. Counts(p, g, HeldBefore(p, g, Done(p)))
      BY <1>2, <1>7
    <3>2. HeldBefore(p, g, Done(p))' = HeldBefore(p, g, Done(p))
      BY <1>5, <2>2, <2>13
    <3>3. \A i \in 1 .. k : rows[i].pid = p => i \in 1 .. n /\ rows[i] = processes[g][i]
      BY <2>3, <2>5, <2>13
    <3>4. \A i \in 1 .. n : processes[g][i].pid = p => i \in 1 .. k /\ rows[i] = processes[g][i]
      <4> SUFFICES ASSUME NEW i \in 1 .. n, processes[g][i].pid = p
                   PROVE  i \in 1 .. k /\ rows[i] = processes[g][i]
        OBVIOUS
      <4>1. CASE RowIndex(g) = 0
        BY <2>3, <2>5, <4>1
      <4>2. CASE RowIndex(g) # 0
        BY <2>3, <2>4, <2>5, <2>13, <4>2
      <4> QED BY <4>1, <4>2
    <3> DEFINE old == {i \in 1 .. n : processes[g][i].pid = p}
               new == {i \in 1 .. k : rows[i].pid = p}
    <3>5. new = old /\ \A i \in old : rows[i].counted = processes[g][i].counted
      BY <3>3, <3>4
    <3> DEFINE held == HeldBefore(p, g, Done(p))
    <3>6. IF held = {} THEN old = {}
          ELSE \E i \in old : processes[g][i].counted = [x \in File |-> IF x \in held THEN 1 ELSE 0]
      BY <2>5, <3>1 DEF Counts
    <3>7. IF held = {} THEN new = {}
          ELSE \E i \in new : rows[i].counted = [x \in File |-> IF x \in held THEN 1 ELSE 0]
      <4> HIDE DEF held, old, new
      <4> QED BY <3>5, <3>6
    <3> QED BY <1>1, <2>5, <3>2, <3>7 DEF Counts, rows
  <2>14. CountInv'
    <3> SUFFICES ASSUME NEW h \in refreshed, NEW p \in Pid \ changed
                 PROVE  Counts(p, h, HeldBefore(p, h, Done(p)))'
      BY <1>1 DEF CountInv
    <3>1. CASE h = g
      BY <2>12, <2>13, <3>1
    <3>2. CASE h # g
      <4>1. processes'[h] = processes[h] /\ h \in Gpu
        BY <1>2, <2>1, <3>2
      <4>2. HeldBefore(p, h, Done(p))' = HeldBefore(p, h, Done(p))
        BY <1>2, <1>4, <1>5, <2>8, <3>2, <4>1
      <4> QED BY <1>7, <4>1, <4>2 DEF Counts
    <3> QED BY <3>1, <3>2
  <2> QED BY <1>3, <2>14 DEF OpensInv
<1>10. IgnoredFile \/ \E f \in File : FileGpu[f] \in active /\ AcceptedFile(f, FileGpu[f])
  BY ParseOutcomes DEF IInv
<1> QED BY <1>8, <1>9, <1>10

\* Nothing has been listed, and no process is visited.
LEMMA InitOpens == Init => OpensInv
BY DEF Init, OpensInv, SeenInv, CountInv

\* With the kcmp system call every step keeps the counts.
LEMMA NextOpens == HasKcmp /\ IInv /\ OpensInv /\ [Next]_vars => OpensInv'
<1> SUFFICES ASSUME HasKcmp, IInv, OpensInv, [Next]_vars PROVE OpensInv'
  OBVIOUS
<1>1. ASSUME NEW p \in Pid, NEW fd \in Fd, NEW f \in File \cup {NoFile}, ChangeFd(p, fd, f)
      PROVE  OpensInv'
  <2>1. /\ fds' = [fds EXCEPT ![p][fd] = f] /\ changed' = changed \cup {p}
        /\ UNCHANGED <<processes, pc, pids, pid, pos, seen, refreshed>>
    BY <1>1 DEF ChangeFd, loop
  <2>2. \A q \in Pid \ changed' : fds'[q] = fds[q]
    BY <2>1 DEF IInv, TypeOK
  <2> QED BY <2>1, <2>2, OpensOutside
<1>2. ASSUME NEW set \in SUBSET Range(Callbacks), EnableDisable(set) PROVE OpensInv'
  BY <1>2, OpensOutside DEF EnableDisable, system, loop
<1>3. CASE UNCHANGED vars
  BY <1>3, OpensOutside DEF vars
<1> QED BY <1>1, <1>2, <1>3, OpensBeginSweep, OpensEndSweep, OpensNextPid, OpensNextFd,
           OpensPidDone, OpensParse DEF Next

-----------------------------------------------------------------------------
(* Theorems                                                                *)

\* The invariant of the rows and of the caches.
THEOREM SweepInvariant == Spec => []IInv
BY InitIInv, NextIInv, PTL DEF Spec

\* process_index looks at the last row only; a process has one row on a GPU
\* nevertheless, because the sweep visits one process after the other and
\* each process once, whatever it does to its descriptors meanwhile.
THEOREM RowsOfProcessUnique == Spec => []OneRowPerProcess
<1>1. IInv => OneRowPerProcess
  BY DEF IInv, RowInv, OneRowPerProcess
<1> QED BY <1>1, SweepInvariant, PTL

\* A DRM client is measured against an earlier refresh only, also if it is
\* open in several files of a process: the measurement it leaves in this
\* refresh is not in the cache that is searched.
THEOREM UsageBetweenRefreshes == Spec => []UsageAcrossRefreshes
<1>1. IInv => UsageAcrossRefreshes
  BY DEF IInv, TypeOK, RowInv, UsageAcrossRefreshes
<1> QED BY <1>1, SweepInvariant, PTL

\* Between refreshes the cache of a GPU holds one measurement per client and
\* process, all of the GPU's latest refresh, also for a GPU whose monitoring
\* was switched off and on again.
THEOREM CacheOfLatestRefresh == Spec => []CacheIsLatest
<1>1. IInv => CacheIsLatest
  BY DEF IInv, CacheInv, OnePerClient, CacheIsLatest
<1> QED BY <1>1, SweepInvariant, PTL

\* With kcmp every open file of a process is counted once in the row of its
\* GPU, under however many descriptors it is open, if the process does not
\* change its descriptors while it is visited and afterwards; other processes
\* may.  (Without kcmp only the first DRM file of a process is read.)
THEOREM FilesCountedOnce == Spec => [](HasKcmp => UniqueOpens)
<1>1. HasKcmp /\ IInv /\ OpensInv => UniqueOpens
  <2> SUFFICES ASSUME IInv, OpensInv, pc = "idle", NEW g \in refreshed, NEW p \in Pid \ changed
               PROVE  LET rows == {i \in DOMAIN processes[g] : processes[g][i].pid = p}
                      IN  IF Held(p, g) = {} THEN rows = {}
                          ELSE \E i \in rows : processes[g][i].counted =
                                                  [f \in File |-> IF f \in Held(p, g) THEN 1 ELSE 0]
    BY DEF UniqueOpens
  <2>1. Done(p) = NumFd
    BY SweepAssumption DEF IInv, LoopInv, Done
  <2>2. \A fd \in Fd : fd <= NumFd
    BY SweepAssumption DEF Fd
  <2>3. fds[p] \in [Fd -> File \cup {NoFile}]
    BY DEF IInv, TypeOK
  <2>4. HeldBefore(p, g, NumFd) = Held(p, g)
    BY <2>2, <2>3, SweepAssumption DEF HeldBefore, Held, Range
  <2>5. Counts(p, g, Held(p, g))
    BY <2>1, <2>4 DEF OpensInv, CountInv
  <2> QED BY <2>5 DEF Counts
<1>2. CASE HasKcmp
  <2>1. Init => IInv /\ OpensInv
    BY InitIInv, InitOpens
  <2>2. IInv /\ OpensInv /\ [Next]_vars => (IInv /\ OpensInv)'
    BY <1>2, NextIInv, NextOpens
  <2>3. IInv /\ OpensInv => (HasKcmp => UniqueOpens)
    BY <1>1, <1>2
  <2> QED BY <2>1, <2>2, <2>3, PTL DEF Spec
<1>3. CASE ~HasKcmp
  BY <1>3, PTL
<1> QED BY <1>2, <1>3
=============================================================================
