------------------------ MODULE ProcessCache_proofs ------------------------
(***************************************************************************)
(* Proofs about the cache of process information, for any sets of GPUs and *)
(* pids, lists of any length and any number of refreshes.                  *)
(***************************************************************************)
EXTENDS ProcessCache, TLAPS

-----------------------------------------------------------------------------
(* The inductive invariant                                                 *)

\* A pid has one entry, in one of the two tables.
UniquePids ==
    /\ \A d, e \in cached : d.pid = e.pid => d = e
    /\ \A d, e \in updated : d.pid = e.pid => d = e
    /\ \A d \in cached, e \in updated : d.pid # e.pid

LoopInv ==
    /\ \A g \in Gpu : Len(processes[g]) <= MaxProcs
    /\ todo \subseteq refreshed
    /\ pc # "populate" => device = NoGpu
    /\ pc = "populate" => device \in refreshed \ todo /\ j \in 1 .. Len(processes[device]) + 1
    /\ pc \in {"devices", "populate"} => refresh >= 1
    /\ pc \in {"idle", "done"} => updated = {} /\ todo = {}
    /\ pc = "done" => refreshed = {}

\* The k-th process of a GPU was populated by the refresh that runs, or by
\* the last one.
Visited(g, k) == g \notin todo /\ (g = device => k < j)

\* The entries met by the refresh that runs, or by the last one.
Met == IF pc = "idle" THEN cached ELSE updated

\* The entries met are those of the processes populated: every such process
\* points into one of them or nowhere, the other processes point nowhere.
ListInv ==
    /\ \A g \in refreshed : \A k \in DOMAIN processes[g] :
          /\ Visited(g, k) => \E e \in Met : /\ e.pid = processes[g][k].pid
                                             /\ processes[g][k].name \in {NoPointer, e.made}
          /\ ~Visited(g, k) => processes[g][k].name = NoPointer
    /\ \A e \in Met : \E g \in refreshed : \E k \in DOMAIN processes[g] :
          Visited(g, k) /\ processes[g][k].pid = e.pid

\* How old the measurements in the tables are.
UsageInv ==
    /\ UsageIsRecent
    /\ \A e \in cached : e.last # Never => e.last >= IF pc = "idle" THEN refresh ELSE refresh - 1
    /\ \A e \in updated : e.last # Never => e.last >= refresh

IInv == TypeOK /\ UniquePids /\ LoopInv /\ ListInv /\ UsageInv

-----------------------------------------------------------------------------
(* Operators of the model                                                  *)

\* What the lookup of a pid returns: an entry of that pid, and the tables
\* without it.
FoundOk(p, f) ==
    /\ f.entry \in Entry /\ f.entry.pid = p
    /\ f.old \subseteq cached /\ f.new \subseteq updated
    /\ \A d \in f.old \cup f.new : d.pid # p
    /\ \A d \in updated : IF d.pid = p THEN d = f.entry ELSE d \in f.new
    /\ f.entry.last # Never => f.entry.last >= refresh - 1

\* The lookup keeps that contract in each of its three cases: an old entry,
\* one met in this refresh, a new one.
LEMMA FindEntryFinds ==
    ASSUME IInv, refresh >= 1, pc # "idle", NEW p \in Pid
    PROVE  FoundOk(p, FindEntry(p))
<1> USE DEF IInv, TypeOK, UniquePids, UsageInv, Never
<1>1. CASE Of(cached, p) # {}
  <2> DEFINE e == CHOOSE d \in Of(cached, p) : TRUE
  <2>1. e \in Of(cached, p)
    BY <1>1
  <2>2. FindEntry(p) = [entry |-> e, old |-> cached \ {e}, new |-> updated]
    BY <1>1 DEF FindEntry
  <2> HIDE DEF e
  <2>3. e \in cached /\ e \in Entry /\ e.pid = p
    BY <2>1 DEF Of
  <2>4. \A d \in (cached \ {e}) \cup updated : d.pid # p
    BY <2>3
  <2>5. e.last # Never => e.last >= refresh - 1
    BY <2>3
  <2> QED BY <2>2, <2>3, <2>4, <2>5 DEF FoundOk
<1>2. CASE Of(cached, p) = {} /\ Of(updated, p) # {}
  <2> DEFINE e == CHOOSE d \in Of(updated, p) : TRUE
  <2>1. e \in Of(updated, p)
    BY <1>2
  <2>2. FindEntry(p) = [entry |-> e, old |-> cached, new |-> updated \ {e}]
    BY <1>2 DEF FindEntry
  <2> HIDE DEF e
  <2>3. e \in updated /\ e \in Entry /\ e.pid = p
    BY <2>1 DEF Of
  <2>4. \A d \in cached \cup (updated \ {e}) : d.pid # p
    BY <2>3
  <2>5. e.last # Never => e.last >= refresh - 1
    BY <2>3 DEF Entry
  <2>6. \A d \in updated : IF d.pid = p THEN d = e ELSE d \in updated \ {e}
    BY <2>3
  <2> QED BY <2>2, <2>3, <2>4, <2>5, <2>6 DEF FoundOk
<1>3. CASE Of(cached, p) = {} /\ Of(updated, p) = {}
  <2> DEFINE e == [pid |-> p, made |-> refresh, named |-> p \in alive, last |-> Never]
  <2>1. FindEntry(p) = [entry |-> e, old |-> cached, new |-> updated]
    BY <1>3 DEF FindEntry
  <2>2. (p \in alive) \in BOOLEAN
    OBVIOUS
  <2>3. e \in Entry /\ e.pid = p /\ e.last = Never
    BY <2>2 DEF Entry
  <2>4. \A d \in cached \cup updated : d.pid # p
    BY <1>3 DEF Of
  <2> HIDE DEF e
  <2> QED BY <2>1, <2>3, <2>4 DEF FoundOk
<1> QED BY <1>1, <1>2, <1>3

\* A measurement leaves the entry of the same pid and refresh, and is of this
\* refresh or missing.
LEMMA MeasuredEntry ==
    ASSUME NEW e \in Entry, refresh \in 1 .. MaxRefresh
    PROVE  /\ Measured(e) \in Entry /\ Measured(e).pid = e.pid /\ Measured(e).made = e.made
           /\ Measured(e).last \in {Never, refresh}
BY DEF Measured, Entry, Never

\* What the drivers list is a short sequence of processes that point nowhere
\* and have no usage yet.
LEMMA ListedProcesses ==
    ASSUME NEW pids \in PidLists(alive), alive \subseteq Pid, MaxRefresh \in Nat, MaxProcs \in Nat
    PROVE  /\ Listed(pids) \in Seq(Process) /\ Len(Listed(pids)) <= MaxProcs
           /\ \A k \in DOMAIN Listed(pids) :
                 Listed(pids)[k].name = NoPointer /\ Listed(pids)[k].since = Never
<1>1. PICK n \in 0 .. MaxProcs : pids \in [1 .. n -> alive]
  BY DEF PidLists
<1>2. Listed(pids) = [k \in 1 .. n |-> [pid |-> pids[k], name |-> NoPointer, since |-> Never]]
  BY <1>1 DEF Listed
<1>3. Listed(pids) \in [1 .. n -> Process]
  BY <1>1, <1>2 DEF Process, NoPointer, Never
<1>4. Listed(pids) \in Seq(Process) /\ Len(Listed(pids)) = n
  BY <1>3
<1> QED BY <1>1, <1>2, <1>4

-----------------------------------------------------------------------------
(* The invariant holds initially and is kept by every step                 *)

\* Nothing is listed and nothing is cached.
LEMMA InitIInv == Init => IInv
<1> SUFFICES ASSUME Init PROVE IInv
  OBVIOUS
<1>1. /\ \A g \in Gpu : processes[g] = <<>> /\ Len(processes[g]) = 0
      /\ processes \in [Gpu -> Seq(Process)]
  BY DEF Init
<1>2. TypeOK
  BY <1>1, CacheAssumption DEF Init, TypeOK
<1>3. UniquePids /\ LoopInv
  BY <1>1, CacheAssumption DEF Init, UniquePids, LoopInv
<1>4. ListInv /\ UsageInv
  BY DEF Init, ListInv, Met, UsageInv, UsageIsRecent
<1> QED BY <1>2, <1>3, <1>4 DEF IInv

\* The lists as sequences.
LEMMA Lists ==
    ASSUME TypeOK, NEW g \in Gpu
    PROVE  /\ processes[g] \in Seq(Process) /\ Len(processes[g]) \in Nat
           /\ DOMAIN processes[g] = 1 .. Len(processes[g])
BY DEF TypeOK

\* Processes come and go, and the setup window changes the monitored list
\* between two refreshes; neither touches the lists and the cache.
LEMMA OutsideStep ==
    ASSUME IInv, alive' \subseteq Pid, monitored' \in (SUBSET Gpu) \ {{}},
           UNCHANGED <<processes, cached, updated, todo, device, j, pc, refresh, refreshed>>
    PROVE  IInv'
<1>1. TypeOK' /\ UniquePids'
  BY DEF IInv, TypeOK, UniquePids
<1>2. LoopInv'
  BY DEF IInv, LoopInv
<1>3. ListInv'
  BY DEF IInv, ListInv, Met, Visited
<1>4. UsageInv'
  BY DEF IInv, UsageInv, UsageIsRecent
<1> QED BY <1>1, <1>2, <1>3, <1>4 DEF IInv

\* The new lists point nowhere; nothing has been met yet.
LEMMA RefreshStep ==
    ASSUME IInv, RefreshProcesses
    PROVE  IInv'
<1>1. PICK lists \in [monitored -> PidLists(alive)] :
        processes' = [g \in Gpu |-> IF g \in monitored THEN Listed(lists[g]) ELSE processes[g]]
  BY DEF RefreshProcesses
<1>2. /\ pc = "idle" /\ refresh < MaxRefresh /\ refresh' = refresh + 1 /\ refreshed' = monitored
      /\ todo' = monitored /\ pc' = "devices"
      /\ UNCHANGED <<alive, monitored, cached, updated, device, j>>
  BY DEF RefreshProcesses, cache
<1>3. \A g \in monitored : g \in Gpu /\ lists[g] \in PidLists(alive)
  BY <1>1 DEF IInv, TypeOK
<1>4. \A g \in monitored :
        /\ processes'[g] \in Seq(Process) /\ Len(processes'[g]) <= MaxProcs
        /\ \A k \in DOMAIN processes'[g] :
              processes'[g][k].name = NoPointer /\ processes'[g][k].since = Never
  <2> SUFFICES ASSUME NEW g \in monitored
               PROVE  /\ processes'[g] \in Seq(Process) /\ Len(processes'[g]) <= MaxProcs
                      /\ \A k \in DOMAIN processes'[g] :
                            processes'[g][k].name = NoPointer /\ processes'[g][k].since = Never
    OBVIOUS
  <2>1. processes'[g] = Listed(lists[g])
    BY <1>1, <1>3
  <2> QED BY <2>1, <1>3, ListedProcesses, CacheAssumption DEF IInv, TypeOK
<1>5. \A g \in Gpu \ monitored : processes'[g] = processes[g]
  BY <1>1
<1>6. processes' \in [Gpu -> Seq(Process)]
  <2>1. processes' = [g \in Gpu |-> processes'[g]]
    BY <1>1
  <2>2. \A g \in Gpu : processes'[g] \in Seq(Process)
    BY <1>4, <1>5 DEF IInv, TypeOK
  <2> QED BY <2>1, <2>2
<1>7. TypeOK'
  BY <1>2, <1>6, CacheAssumption DEF IInv, TypeOK
<1>8. UniquePids'
  BY <1>2 DEF IInv, UniquePids
<1>9. LoopInv'
  BY <1>2, <1>4, <1>5 DEF IInv, LoopInv, TypeOK
<1>10. ListInv'
  BY <1>2, <1>4 DEF IInv, ListInv, LoopInv, Met, Visited
<1>11. UsageInv'
  BY <1>2, <1>4, CacheAssumption DEF IInv, UsageInv, UsageIsRecent, LoopInv, TypeOK, Entry, Never
<1> QED BY <1>7, <1>8, <1>9, <1>10, <1>11 DEF IInv

\* The next device: none of its processes has been visited.
LEMMA NextDeviceStep ==
    ASSUME IInv, NEW d \in Gpu, NextDevice(d)
    PROVE  IInv'
<1>1. /\ pc = "devices" /\ d \in todo /\ todo' = todo \ {d} /\ device' = d /\ j' = 1 /\ pc' = "populate"
      /\ UNCHANGED <<alive, monitored, processes, cached, updated, refresh, refreshed>>
  BY DEF NextDevice, cache
<1>2. device = NoGpu /\ d \in refreshed /\ refresh >= 1 /\ todo \subseteq refreshed
  BY <1>1 DEF IInv, LoopInv
<1>3. TypeOK' /\ UniquePids'
  BY <1>1, CacheAssumption DEF IInv, TypeOK, UniquePids
<1>4. LoopInv'
  BY <1>1, <1>2, Lists DEF IInv, LoopInv
<1>5. \A g \in refreshed : \A k \in DOMAIN processes[g] : Visited(g, k)' = Visited(g, k)
  <2> SUFFICES ASSUME NEW g \in refreshed, NEW k \in DOMAIN processes[g]
               PROVE  Visited(g, k)' = Visited(g, k)
    OBVIOUS
  <2>1. g \in Gpu /\ g # NoGpu
    BY CacheAssumption DEF IInv, TypeOK
  <2>2. k \in Int /\ k >= 1
    BY <2>1, Lists DEF IInv
  <2> QED BY <1>1, <1>2, <2>1, <2>2 DEF Visited
<1>6. ListInv'
  BY <1>1, <1>5 DEF IInv, ListInv, Met
<1>7. UsageInv'
  BY <1>1 DEF IInv, UsageInv, UsageIsRecent
<1> QED BY <1>3, <1>4, <1>6, <1>7 DEF IInv

\* The device is done: all its processes have been visited.
LEMMA PopulateDoneStep ==
    ASSUME IInv, PopulateDone
    PROVE  IInv'
<1>1. /\ pc = "populate" /\ j = Len(processes[device]) + 1 /\ device' = NoGpu /\ j' = 0 /\ pc' = "devices"
      /\ UNCHANGED <<alive, monitored, processes, cached, updated, todo, refresh, refreshed>>
  BY DEF PopulateDone, cache
<1>2. device \in refreshed \ todo /\ refresh >= 1 /\ device \in Gpu
  BY <1>1 DEF IInv, LoopInv, TypeOK
<1>3. TypeOK' /\ UniquePids'
  BY <1>1, CacheAssumption DEF IInv, TypeOK, UniquePids
<1>4. LoopInv'
  BY <1>1, <1>2 DEF IInv, LoopInv
<1>5. \A g \in refreshed : \A k \in DOMAIN processes[g] : Visited(g, k)' = Visited(g, k)
  <2> SUFFICES ASSUME NEW g \in refreshed, NEW k \in DOMAIN processes[g]
               PROVE  Visited(g, k)' = Visited(g, k)
    OBVIOUS
  <2>1. g \in Gpu /\ g # NoGpu
    BY CacheAssumption DEF IInv, TypeOK
  <2>2. k \in 1 .. Len(processes[g]) /\ Len(processes[g]) \in Nat
    BY <2>1, Lists DEF IInv
  <2> QED BY <1>1, <1>2, <2>1, <2>2 DEF Visited
<1>6. ListInv'
  BY <1>1, <1>5 DEF IInv, ListInv, Met
<1>7. UsageInv'
  BY <1>1 DEF IInv, UsageInv, UsageIsRecent
<1> QED BY <1>3, <1>4, <1>6, <1>7 DEF IInv

\* The process gets what its entry holds; the entry moves to the table of
\* this refresh.
LEMMA PopulateStep ==
    ASSUME IInv, PopulateProcess
    PROVE  IInv'
<1> DEFINE p == processes[device][j].pid
           f == FindEntry(p)
           e == f.entry
           m == Measured(e)
           r == [pid   |-> p,
                 name  |-> IF e.named THEN e.made ELSE NoPointer,
                 since |-> IF p \in alive THEN e.last ELSE Never]
<1>1. /\ pc = "populate" /\ j <= Len(processes[device])
      /\ processes' = [processes EXCEPT ![device][j] = r]
      /\ cached' = f.old /\ updated' = f.new \cup {m} /\ j' = j + 1
      /\ UNCHANGED <<alive, monitored, todo, device, pc, refresh, refreshed>>
  BY DEF PopulateProcess
<1>2. /\ device \in Gpu /\ device \in refreshed /\ device \notin todo
      /\ refresh \in 1 .. MaxRefresh /\ j \in 1 .. Len(processes[device])
      /\ Len(processes[device]) \in Nat /\ Len(processes[device]) <= MaxProcs
  BY <1>1, Lists, CacheAssumption DEF IInv, LoopInv, TypeOK
<1>3. p \in Pid
  <2>1. processes[device] \in Seq(Process)
    BY <1>2, Lists DEF IInv
  <2>2. processes[device][j] \in Process
    BY <1>2, <2>1
  <2> QED BY <2>2 DEF Process
<1>4. FoundOk(p, f)
  BY <1>1, <1>2, <1>3, FindEntryFinds
<1> HIDE DEF p, f
<1>5. e \in Entry /\ e.pid = p /\ (e.last # Never => e.last >= refresh - 1)
  BY <1>4 DEF FoundOk
<1> HIDE DEF e
<1>6. m \in Entry /\ m.pid = p /\ m.made = e.made /\ m.last \in {Never, refresh}
  BY <1>2, <1>5, MeasuredEntry
<1>7. /\ r \in Process /\ r.pid = p /\ r.name \in {NoPointer, m.made}
      /\ r.since # Never => r.since >= refresh - 1
  BY <1>3, <1>5, <1>6, CacheAssumption DEF Process, Entry, NoPointer, Never
<1> HIDE DEF m, r
<1>8. /\ processes' \in [Gpu -> Seq(Process)]
      /\ \A g \in Gpu : /\ DOMAIN processes'[g] = DOMAIN processes[g]
                        /\ Len(processes'[g]) = Len(processes[g])
      /\ processes'[device][j] = r
      /\ \A g \in Gpu : \A k \in DOMAIN processes[g] :
            g # device \/ k # j => processes'[g][k] = processes[g][k]
  BY <1>1, <1>2, <1>7 DEF IInv, TypeOK
<1>9. TypeOK'
  <2>1. cached' \subseteq Entry /\ updated' \subseteq Entry
    BY <1>1, <1>4, <1>6 DEF IInv, TypeOK, FoundOk
  <2>2. j' \in 0 .. MaxProcs + 1
    BY <1>1, <1>2, CacheAssumption
  <2> QED BY <1>1, <1>8, <2>1, <2>2 DEF IInv, TypeOK
<1>10. UniquePids'
  BY <1>1, <1>4, <1>6 DEF IInv, UniquePids, FoundOk
<1>11. LoopInv'
  BY <1>1, <1>2, <1>8 DEF IInv, LoopInv, TypeOK
<1>12. \A g \in refreshed : \A k \in DOMAIN processes[g] :
         Visited(g, k)' <=> Visited(g, k) \/ (g = device /\ k = j)
  <2> SUFFICES ASSUME NEW g \in refreshed, NEW k \in DOMAIN processes[g]
               PROVE  Visited(g, k)' <=> Visited(g, k) \/ (g = device /\ k = j)
    OBVIOUS
  <2>1. g \in Gpu /\ k \in Int
    BY Lists DEF IInv, TypeOK
  <2> QED BY <1>1, <1>2, <2>1 DEF Visited
<1>13. \A g \in Gpu : \A k \in DOMAIN processes[g] : processes'[g][k].pid = processes[g][k].pid
  BY <1>2, <1>7, <1>8 DEF p
<1>14. Met = updated /\ Met' = updated' /\ refreshed \subseteq Gpu
  BY <1>1 DEF Met, IInv, TypeOK
<1>15. \A d \in updated : \E b \in updated' : b.pid = d.pid /\ b.made = d.made
  <2> SUFFICES ASSUME NEW d \in updated PROVE \E b \in updated' : b.pid = d.pid /\ b.made = d.made
    OBVIOUS
  <2>1. CASE d.pid = p
    BY <1>1, <1>4, <1>5, <1>6, <2>1 DEF FoundOk, e
  <2>2. CASE d.pid # p
    BY <1>1, <1>4, <2>2 DEF FoundOk
  <2> QED BY <2>1, <2>2
<1>16. ~Visited(device, j)
  BY <1>2 DEF Visited
<1>17. ListInv'
  <2>1. ASSUME NEW g \in refreshed, NEW k \in DOMAIN processes'[g]
        PROVE  /\ Visited(g, k)' => \E b \in updated' : /\ b.pid = processes'[g][k].pid
                                                        /\ processes'[g][k].name \in {NoPointer, b.made}
               /\ ~Visited(g, k)' => processes'[g][k].name = NoPointer
    <3>1. g \in Gpu /\ k \in DOMAIN processes[g]
      BY <1>8, <1>14, <2>1
    <3>2. CASE g = device /\ k = j
      BY <1>1, <1>6, <1>7, <1>8, <1>12, <3>1, <3>2
    <3>3. CASE g # device \/ k # j
      <4>1. processes'[g][k] = processes[g][k] /\ (Visited(g, k)' <=> Visited(g, k))
        BY <1>8, <1>12, <3>1, <3>3
      <4>2. Visited(g, k) => \E b \in updated : /\ b.pid = processes[g][k].pid
                                                /\ processes[g][k].name \in {NoPointer, b.made}
        BY <3>1, <1>14 DEF IInv, ListInv
      <4>3. ~Visited(g, k) => processes[g][k].name = NoPointer
        BY <3>1 DEF IInv, ListInv
      <4> QED BY <1>15, <4>1, <4>2, <4>3
    <3> QED BY <3>2, <3>3
  <2>2. ASSUME NEW b \in updated'
        PROVE  \E g \in refreshed : \E k \in DOMAIN processes'[g] :
                  Visited(g, k)' /\ processes'[g][k].pid = b.pid
    <3>1. CASE b = m
      <4>1. j \in DOMAIN processes[device]
        BY <1>2, Lists DEF IInv
      <4> QED BY <1>2, <1>6, <1>7, <1>8, <1>12, <3>1, <4>1
    <3>2. CASE b # m
      <4>1. b \in updated
        BY <1>1, <1>4, <3>2 DEF FoundOk
      <4>2. PICK g \in refreshed : \E k \in DOMAIN processes[g] :
                Visited(g, k) /\ processes[g][k].pid = b.pid
        BY <4>1, <1>14 DEF IInv, ListInv
      <4> QED BY <4>2, <1>8, <1>12, <1>13, <1>14
    <3> QED BY <3>1, <3>2
  <2> QED BY <1>1, <1>14, <2>1, <2>2 DEF ListInv
<1>18. UsageInv'
  <2>1. UsageIsRecent'
    BY <1>1, <1>7, <1>8, <1>14 DEF IInv, UsageInv, UsageIsRecent
  <2>2. \A d \in cached' : d.last # Never => d.last >= refresh - 1
    BY <1>1, <1>4 DEF IInv, UsageInv, FoundOk
  <2>3. \A d \in updated' : d.last # Never => d.last >= refresh
    BY <1>1, <1>2, <1>4, <1>6 DEF IInv, UsageInv, FoundOk
  <2> QED BY <1>1, <2>1, <2>2, <2>3 DEF UsageInv
<1> QED BY <1>9, <1>10, <1>11, <1>17, <1>18 DEF IInv

\* The entries that were not met are freed; those met become the old ones.
LEMMA CleanOldCacheStep ==
    ASSUME IInv, CleanOldCache
    PROVE  IInv'
<1>1. /\ pc = "devices" /\ todo = {} /\ cached' = updated /\ updated' = {} /\ pc' = "idle"
      /\ UNCHANGED <<alive, monitored, processes, todo, device, j, refresh, refreshed>>
  BY DEF CleanOldCache, loop
<1>2. TypeOK' /\ UniquePids'
  BY <1>1 DEF IInv, TypeOK, UniquePids
<1>3. LoopInv'
  BY <1>1 DEF IInv, LoopInv
<1>4. ListInv'
  BY <1>1 DEF IInv, ListInv, Met, Visited
<1>5. UsageInv'
  BY <1>1 DEF IInv, UsageInv, UsageIsRecent
<1> QED BY <1>2, <1>3, <1>4, <1>5 DEF IInv

\* The lists of the monitored GPUs and the cache go.
LEMMA ShutdownStep ==
    ASSUME IInv, Shutdown
    PROVE  IInv'
<1>1. /\ pc = "idle" /\ cached' = {} /\ refreshed' = {} /\ pc' = "done"
      /\ processes' = [g \in Gpu |-> IF g \in monitored THEN <<>> ELSE processes[g]]
      /\ UNCHANGED <<alive, monitored, updated, todo, device, j, refresh>>
  BY DEF Shutdown, loop
<1>2. updated = {} /\ todo = {} /\ device = NoGpu
  BY <1>1 DEF IInv, LoopInv
<1>3. /\ processes' \in [Gpu -> Seq(Process)]
      /\ \A g \in Gpu : Len(processes'[g]) <= MaxProcs
  BY <1>1, CacheAssumption DEF IInv, TypeOK, LoopInv
<1>4. TypeOK' /\ UniquePids' /\ LoopInv'
  BY <1>1, <1>2, <1>3 DEF IInv, TypeOK, UniquePids, LoopInv
<1>5. ListInv' /\ UsageInv'
  BY <1>1, <1>2 DEF IInv, ListInv, Met, UsageInv, UsageIsRecent
<1> QED BY <1>4, <1>5 DEF IInv

\* One step lemma per action; a stuttering step changes nothing.
LEMMA NextIInv == IInv /\ [Next]_vars => IInv'
<1> SUFFICES ASSUME IInv, [Next]_vars PROVE IInv'
  OBVIOUS
<1>1. ASSUME NEW p \in Pid, Start(p) \/ Exit(p) PROVE IInv'
  BY <1>1, OutsideStep DEF Start, Exit, cache, loop, IInv, TypeOK
<1>2. ASSUME NEW set \in (SUBSET Gpu) \ {{}}, ChangeMonitored(set) PROVE IInv'
  BY <1>2, OutsideStep DEF ChangeMonitored, cache, loop, IInv, TypeOK
<1>3. CASE UNCHANGED vars
  BY <1>3, OutsideStep DEF vars, IInv, TypeOK
<1> QED BY <1>1, <1>2, <1>3, RefreshStep, NextDeviceStep, PopulateStep, PopulateDoneStep,
           CleanOldCacheStep, ShutdownStep DEF Next, Terminated

-----------------------------------------------------------------------------
(* Theorems                                                                *)

\* The strengthening of the properties below is an invariant.
THEOREM CacheInvariant == Spec => []IInv
BY InitIInv, NextIInv, PTL DEF Spec

\* gpuinfo_clean_old_cache leaves exactly one entry for every process listed
\* by the last refresh, whichever GPUs list it and how often: between two
\* refreshes the loop has visited every process.
THEOREM CacheMatchesLists == Spec => []CacheIsListed
<1>1. IInv => CacheIsListed
  <2> SUFFICES ASSUME IInv, pc = "idle"
               PROVE  /\ updated = {}
                      /\ {e.pid : e \in cached} = UNION {Pids(g) : g \in refreshed}
                      /\ \A d, e \in cached : d.pid = e.pid => d = e
    BY DEF IInv, CacheIsListed
  <2>1. updated = {} /\ todo = {} /\ device = NoGpu /\ Met = cached
    BY DEF IInv, LoopInv, Met
  <2>2. \A g \in refreshed : \A k \in DOMAIN processes[g] : Visited(g, k)
    BY <2>1, CacheAssumption DEF Visited, IInv, TypeOK
  <2>3. \A e \in cached : \E g \in refreshed : e.pid \in Pids(g)
    BY <2>1 DEF IInv, ListInv, Pids
  <2>4. \A g \in refreshed : \A p \in Pids(g) : \E e \in cached : e.pid = p
    BY <2>1, <2>2 DEF IInv, ListInv, Pids
  <2>5. \A d, e \in cached : d.pid = e.pid => d = e
    BY DEF IInv, UniquePids
  <2> QED BY <2>1, <2>3, <2>4, <2>5
<1> QED BY <1>1, CacheInvariant, PTL

\* The cmdline and user_name fields of every process that the last refresh
\* visited point into an entry that is still in one of the two tables, also
\* while a refresh runs and moves entries between them.
THEOREM NamesOfRefreshedGpusLive == Spec => []RefreshedNamesLive
<1>1. IInv => RefreshedNamesLive
  <2> SUFFICES ASSUME IInv, NEW g \in refreshed, NEW k \in DOMAIN processes[g]
               PROVE  Live(processes[g][k])
    BY DEF RefreshedNamesLive
  <2>1. Met \subseteq cached \cup updated
    BY DEF Met
  <2>2. CASE Visited(g, k)
    <3>1. PICK e \in Met : /\ e.pid = processes[g][k].pid
                           /\ processes[g][k].name \in {NoPointer, e.made}
      BY <2>2 DEF IInv, ListInv
    <3> QED BY <2>1, <3>1 DEF Live
  <2>3. CASE ~Visited(g, k)
    BY <2>3 DEF IInv, ListInv, Live
  <2> QED BY <2>2, <2>3
<1> QED BY <1>1, CacheInvariant, PTL

\* A CPU usage is measured since the previous refresh at the earliest, also
\* for a process that disappears from every list and comes back.
THEOREM UsageMeasuredRecently == Spec => []UsageIsRecent
<1>1. IInv => UsageIsRecent
  BY DEF IInv, UsageInv
<1> QED BY <1>1, CacheInvariant, PTL
=============================================================================
