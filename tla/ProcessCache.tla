---------------------------- MODULE ProcessCache ----------------------------
(***************************************************************************)
(* The processes of the GPUs and the cache of what is known about each pid *)
(* (src/extract_gpuinfo.c).  A refresh lists the processes of the          *)
(* monitored GPUs, gives every listed process the name and the user of its *)
(* pid's cache entry, and frees the entries whose pid was not met.  The    *)
(* lists keep pointers into the entries, and a GPU that is not monitored   *)
(* keeps the list of its last refresh.                                     *)
(*                                                                         *)
(* A cache entry is named by its pid and by the refresh that created it,   *)
(* so a pointer into an entry that was freed can be told from one into a   *)
(* later entry of the same pid.  Processes start and exit at any time,     *)
(* also while a refresh runs.                                              *)
(***************************************************************************)
EXTENDS Integers, Sequences, FiniteSets

CONSTANTS
    Gpu, Pid,
    NoGpu,          \* no device is being visited
    MaxProcs,       \* bound: processes listed for a GPU
    MaxRefresh      \* bound: refreshes

ASSUME CacheAssumption ==
    /\ Gpu # {} /\ NoGpu \notin Gpu /\ MaxProcs \in Nat /\ MaxRefresh \in Nat

VARIABLES
    alive,          \* the pids of existing processes (the system)
    monitored,      \* the GPUs of the monitored list
    processes,      \* device->processes[0 .. processes_count - 1]
    cached,         \* cached_process_info
    updated,        \* updated_process_info
    todo,           \* the devices gpuinfo_refresh_processes has yet to visit
    device, j,      \* the loop of gpuinfo_populate_process_info
    pc,
    refresh,        \* refreshes begun (history variable)
    refreshed       \* the GPUs the last refresh visited (history variable)

vars == <<alive, monitored, processes, cached, updated, todo, device, j, pc, refresh, refreshed>>
cache == <<cached, updated>>
loop == <<todo, device, j>>

Never == -1         \* last_total_consumed_cpu_time = -1
NoPointer == 0      \* the cmdline and user_name fields are not valid

\* struct process_info_cache: whether the name could be read, and the refresh
\* that made the last measurement
Entry == [pid : Pid, made : 1 .. MaxRefresh, named : BOOLEAN, last : {Never} \cup 1 .. MaxRefresh]

\* struct gpu_process: the entry its cmdline points into, and the refresh
\* since which its cpu_usage is measured (Never: cpu_usage is 0 or not valid)
Process == [pid : Pid, name : 0 .. MaxRefresh, since : {Never} \cup 1 .. MaxRefresh]

TypeOK ==
    /\ alive \subseteq Pid
    /\ monitored \in (SUBSET Gpu) \ {{}}
    /\ processes \in [Gpu -> Seq(Process)]
    /\ cached \subseteq Entry /\ updated \subseteq Entry
    /\ todo \subseteq Gpu
    /\ device \in Gpu \cup {NoGpu}
    /\ j \in 0 .. MaxProcs + 1
    /\ pc \in {"idle", "devices", "populate", "done"}
    /\ refresh \in 0 .. MaxRefresh
    /\ refreshed \subseteq Gpu

Init ==
    /\ alive \in SUBSET Pid
    /\ monitored \in (SUBSET Gpu) \ {{}}
    /\ processes = [g \in Gpu |-> <<>>]
    /\ cached = {} /\ updated = {}
    /\ todo = {} /\ device = NoGpu /\ j = 0
    /\ pc = "idle"
    /\ refresh = 0 /\ refreshed = {}

-----------------------------------------------------------------------------
(* The system and the setup window                                         *)

Start(p) == p \notin alive /\ alive' = alive \cup {p}
            /\ UNCHANGED <<monitored, processes, cache, loop, pc, refresh, refreshed>>

Exit(p) == p \in alive /\ alive' = alive \ {p}
           /\ UNCHANGED <<monitored, processes, cache, loop, pc, refresh, refreshed>>

\* interface_check_monitored_gpu_change has moved GPUs between the lists (see
\* MonitoredGpus); it leaves the processes of both lists alone.
ChangeMonitored(set) ==
    /\ pc = "idle"
    /\ monitored' = set
    /\ UNCHANGED <<alive, processes, cache, loop, pc, refresh, refreshed>>

-----------------------------------------------------------------------------
(* gpuinfo_refresh_processes                                               *)

Listed(pids) == [k \in DOMAIN pids |-> [pid |-> pids[k], name |-> NoPointer, since |-> Never]]
PidLists(set) == UNION {[1 .. n -> set] : n \in 0 .. MaxProcs}

\* processes_count = 0 for the monitored GPUs; the sweep and the drivers list
\* the processes that use them.
RefreshProcesses ==
    /\ pc = "idle" /\ refresh < MaxRefresh
    /\ \E lists \in [monitored -> PidLists(alive)] :
          processes' = [g \in Gpu |-> IF g \in monitored THEN Listed(lists[g]) ELSE processes[g]]
    /\ refresh' = refresh + 1
    /\ refreshed' = monitored
    /\ todo' = monitored
    /\ pc' = "devices"
    /\ UNCHANGED <<alive, monitored, cache, device, j>>

\* The next device of the list (the order of the list is left open).
NextDevice(g) ==
    /\ pc = "devices" /\ g \in todo
    /\ todo' = todo \ {g}
    /\ device' = g
    /\ j' = 1
    /\ pc' = "populate"
    /\ UNCHANGED <<alive, monitored, processes, cache, refresh, refreshed>>

Of(set, p) == {e \in set : e.pid = p}

\* Fault: the entries of this refresh are not looked up.
FindEntryOldOnly(p) ==
    IF Of(cached, p) # {}
    THEN LET e == CHOOSE e \in Of(cached, p) : TRUE
         IN  [entry |-> e, old |-> cached \ {e}, new |-> updated]
    ELSE [entry |-> [pid |-> p, made |-> refresh, named |-> p \in alive, last |-> Never],
          old |-> cached, new |-> updated]

\* The entry of a pid, taken out of the table it was found in: among the old
\* ones, among those already met in this refresh, or new (the name can be
\* read if the process exists).
FindEntry(p) ==
    IF Of(cached, p) # {}
    THEN LET e == CHOOSE e \in Of(cached, p) : TRUE
         IN  [entry |-> e, old |-> cached \ {e}, new |-> updated]
    ELSE IF Of(updated, p) # {}
    THEN LET e == CHOOSE e \in Of(updated, p) : TRUE
         IN  [entry |-> e, old |-> cached, new |-> updated \ {e}]
    ELSE [entry |-> [pid |-> p, made |-> refresh, named |-> p \in alive, last |-> Never],
          old |-> cached, new |-> updated]

\* Fault: a failed measurement leaves the previous one in place.
MeasuredKeep(e) == IF e.pid \in alive THEN [e EXCEPT !.last = refresh] ELSE e

\* get_process_info and what is remembered of it: a process that is gone has
\* no measurement.
Measured(e) == [e EXCEPT !.last = IF e.pid \in alive THEN refresh ELSE Never]

\* gpuinfo_populate_process_info, one process.  Its share of the memory is
\* computed from this list and the device alone and left out.
PopulateProcess ==
    /\ pc = "populate" /\ j <= Len(processes[device])
    /\ LET p     == processes[device][j].pid
           found == FindEntry(p)
           e     == found.entry
       IN  /\ processes' = [processes EXCEPT ![device][j] =
                 [pid   |-> p,
                  name  |-> IF e.named THEN e.made ELSE NoPointer,
                  since |-> IF p \in alive THEN e.last ELSE Never]]
           /\ cached' = found.old
           /\ updated' = found.new \cup {Measured(e)}
    /\ j' = j + 1
    /\ UNCHANGED <<alive, monitored, todo, device, pc, refresh, refreshed>>

PopulateDone ==
    /\ pc = "populate" /\ j = Len(processes[device]) + 1
    /\ device' = NoGpu /\ j' = 0
    /\ pc' = "devices"
    /\ UNCHANGED <<alive, monitored, processes, cache, todo, refresh, refreshed>>

\* Fault: the entries met in this refresh are freed with the others.
CleanOldCacheFreesAll ==
    /\ pc = "devices" /\ todo = {}
    /\ cached' = {}
    /\ updated' = {}
    /\ pc' = "idle"
    /\ UNCHANGED <<alive, monitored, processes, loop, refresh, refreshed>>

\* gpuinfo_clean_old_cache
CleanOldCache ==
    /\ pc = "devices" /\ todo = {}
    /\ cached' = updated
    /\ updated' = {}
    /\ pc' = "idle"
    /\ UNCHANGED <<alive, monitored, processes, loop, refresh, refreshed>>

\* gpuinfo_shutdown_info_extraction: the lists of the monitored GPUs and the
\* cache (gpuinfo_clear_cache)
Shutdown ==
    /\ pc = "idle"
    /\ processes' = [g \in Gpu |-> IF g \in monitored THEN <<>> ELSE processes[g]]
    /\ cached' = {}
    /\ refreshed' = {}
    /\ pc' = "done"
    /\ UNCHANGED <<alive, monitored, updated, loop, refresh>>

\* The program has ended; only the system goes on.
Terminated == pc = "done" /\ UNCHANGED vars

Next ==
    \/ \E p \in Pid : pc # "done" /\ (Start(p) \/ Exit(p))
    \/ \E set \in (SUBSET Gpu) \ {{}} : ChangeMonitored(set)
    \/ RefreshProcesses
    \/ \E g \in Gpu : NextDevice(g)
    \/ PopulateProcess \/ PopulateDone \/ CleanOldCache \/ Shutdown
    \/ Terminated

Spec == Init /\ [][Next]_vars

-----------------------------------------------------------------------------
(* Properties                                                              *)

Pids(g) == {processes[g][k].pid : k \in DOMAIN processes[g]}

\* Between two refreshes the cache holds exactly one entry for every process
\* the last one listed on some GPU: none is lost when a process uses two GPUs
\* or one GPU twice, none outlives its process.
\* (And every variable has its type.)
CacheIsListed ==
    /\ TypeOK
    /\ pc = "idle" =>
          /\ updated = {}
          /\ {e.pid : e \in cached} = UNION {Pids(g) : g \in refreshed}
          /\ \A d, e \in cached : d.pid = e.pid => d = e

Live(proc) ==
    proc.name = NoPointer \/ \E e \in cached \cup updated : e.pid = proc.pid /\ e.made = proc.name

\* A name shown for a process of a GPU the last refresh visited is in an
\* entry that has not been freed.
RefreshedNamesLive ==
    \A g \in refreshed : \A k \in DOMAIN processes[g] : Live(processes[g][k])

\* A CPU usage is measured since the previous refresh at the earliest: a
\* process that could not be measured, or was not listed, starts over.
UsageIsRecent ==
    \A g \in refreshed : \A k \in DOMAIN processes[g] :
        processes[g][k].since # Never => processes[g][k].since >= refresh - 1
=============================================================================
