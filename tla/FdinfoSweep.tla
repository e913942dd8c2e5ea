---------------------------- MODULE FdinfoSweep ----------------------------
(***************************************************************************)
(* How the processes of a GPU are found on Linux: one sweep over /proc     *)
(* looks at every open file of every process (src/                         *)
(* extract_processinfo_fdinfo.c) and offers its fdinfo to the callbacks of *)
(* the GPUs until one accepts it; what the callback read is added to the   *)
(* row of the process in that GPU's list.  The callback keeps the engine   *)
(* times of every DRM client from one refresh to the next to compute the   *)
(* usage in between (modelled here from src/extract_gpuinfo_amdgpu.c).     *)
(*                                                                         *)
(* The sweep is not atomic: files are opened, duplicated and closed while  *)
(* it runs.  The amount a file contributes is represented by how often the *)
(* file is counted in a row, a measured usage by the refresh it is         *)
(* measured since.                                                         *)
(***************************************************************************)
EXTENDS Integers, Sequences, FiniteSets, Functions

CONSTANTS
    Pid, NoPid,
    File,           \* open files of DRM devices
    NoFile,         \* a free descriptor
    NumFd,          \* descriptors of a process
    Gpu,
    FileGpu,        \* FileGpu[f]: the GPU of a file (drm-pdev)
    FileClient,     \* FileClient[f]: its DRM client (drm-client-id), or NoClient
    NoClient,       \* an old kernel, whose fdinfo names no client
    Callbacks,      \* callback_entries: the GPUs in the order of registration
    HasKcmp,        \* the kernel has the kcmp system call
    MaxRefresh,     \* bound: refreshes
    MaxChanges      \* bound: changes of descriptors

ASSUME SweepAssumption ==
    /\ NoPid \notin Pid /\ NoFile \notin File
    /\ NumFd \in Nat /\ MaxRefresh \in Nat /\ MaxChanges \in Nat
    /\ FileGpu \in [File -> Gpu] /\ DOMAIN FileClient = File
    /\ Callbacks \in Seq(Gpu) /\ IsInjective(Callbacks)
    /\ HasKcmp \in BOOLEAN

Fd == 1 .. NumFd

VARIABLES
    fds,            \* fds[p][fd]: the open file of a descriptor (the system)
    active,         \* the GPUs whose callback is enabled: the monitored ones
    processes,      \* the rows of a GPU: device->processes
    last, current,  \* last_update_process_cache, current_update_process_cache
    pc,             \* "idle", "sweep", "parse"
    pids,           \* the entries of /proc that readdir has yet to return
    pid, pos, seen, \* client_pid, the entry of fdinfo visited, seen_fds
    refresh,        \* refreshes begun (history variable)
    refreshed,      \* the GPUs of the last refresh (history variable)
    changed,        \* the processes whose descriptors changed since their
                    \* visit began (history variable)
    changes         \* changes made so far

vars == <<fds, active, processes, last, current, pc, pids, pid, pos, seen,
          refresh, refreshed, changed, changes>>
caches == <<last, current>>
system == <<fds, changed, changes>>
loop == <<pids, pid, pos, seen>>

Client == Range(FileClient) \ {NoClient}
Row == [pid : Pid, counted : [File -> 0 .. NumFd], since : SUBSET (1 .. MaxRefresh)]
CacheEntry == [client : Client, pid : Pid, stamp : 1 .. MaxRefresh]

TypeOK ==
    /\ fds \in [Pid -> [Fd -> File \cup {NoFile}]]
    /\ active \subseteq Range(Callbacks)
    /\ processes \in [Gpu -> Seq(Row)]
    /\ last \in [Gpu -> SUBSET CacheEntry] /\ current \in [Gpu -> SUBSET CacheEntry]
    /\ pc \in {"idle", "sweep", "parse"}
    /\ pids \subseteq Pid /\ pid \in Pid \cup {NoPid}
    /\ pos \in 0 .. NumFd /\ seen \subseteq Fd
    /\ refresh \in 0 .. MaxRefresh /\ refreshed \subseteq Gpu
    /\ changed \subseteq Pid /\ changes \in 0 .. MaxChanges

\* A callback is registered enabled.
Init ==
    /\ fds = [p \in Pid |-> [fd \in Fd |-> NoFile]]
    /\ active = Range(Callbacks)
    /\ processes = [g \in Gpu |-> <<>>]
    /\ last = [g \in Gpu |-> {}] /\ current = [g \in Gpu |-> {}]
    /\ pc = "idle"
    /\ pids = {} /\ pid = NoPid /\ pos = 0 /\ seen = {}
    /\ refresh = 0 /\ refreshed = {}
    /\ changed = {} /\ changes = 0

-----------------------------------------------------------------------------
(* The system and the monitored GPUs                                       *)

\* open, dup2, close, the inheritance of a descriptor, the exit of a process
\* (one descriptor after the other)
ChangeFd(p, fd, f) ==
    /\ changes < MaxChanges /\ fds[p][fd] # f
    /\ fds' = [fds EXCEPT ![p][fd] = f]
    /\ changed' = changed \cup {p}
    /\ changes' = changes + 1
    /\ UNCHANGED <<active, processes, caches, pc, loop, refresh, refreshed>>

\* processinfo_enable_disable_callback_for, for all GPUs
EnableDisable(set) ==
    /\ pc = "idle"
    /\ active' = set
    /\ UNCHANGED <<system, processes, caches, pc, loop, refresh, refreshed>>

-----------------------------------------------------------------------------
(* processinfo_sweep_fdinfos                                               *)

\* gpuinfo_refresh_processes empties the lists of the monitored GPUs; the
\* sweep ends at once if no callback is enabled.
BeginSweep ==
    /\ pc = "idle" /\ refresh < MaxRefresh
    /\ processes' = [g \in Gpu |-> IF g \in active THEN <<>> ELSE processes[g]]
    /\ pids' = IF active = {} THEN {} ELSE Pid
    /\ pc' = "sweep"
    /\ refresh' = refresh + 1
    /\ refreshed' = active
    /\ UNCHANGED <<system, active, caches, pid, pos, seen>>

NextPid(p) ==
    /\ pc = "sweep" /\ pid = NoPid /\ p \in pids
    /\ pid' = p /\ pids' = pids \ {p}
    /\ pos' = 0 /\ seen' = {}
    /\ changed' = changed \ {p}
    /\ UNCHANGED <<fds, changes, active, processes, caches, pc, refresh, refreshed>>

\* kcmp(fd, other) <= 0: the same open file, or an error because the other
\* descriptor has been closed or the kernel does not have the call
SameOpen(fd, other) ==
    HasKcmp /\ fds[pid][other] # NoFile => fds[pid][fd] = fds[pid][other]

\* The next entry of the fdinfo directory that is a DRM file: skipped if its
\* open file has been seen.
NextFd ==
    /\ pc = "sweep" /\ pid # NoPid
    /\ LET left == {fd \in Fd : fd > pos /\ fds[pid][fd] # NoFile}
           fd   == CHOOSE x \in left : \A y \in left : x <= y
       IN  /\ left # {}
           /\ pos' = fd
           /\ IF \E other \in seen : SameOpen(fd, other)
              THEN UNCHANGED <<seen, pc>>
              ELSE seen' = seen \cup {fd} /\ pc' = "parse"
    /\ UNCHANGED <<system, active, processes, caches, pids, pid, refresh, refreshed>>

PidDone ==
    /\ pc = "sweep" /\ pid # NoPid
    /\ \A fd \in Fd : fd > pos => fds[pid][fd] = NoFile
    /\ pid' = NoPid /\ pos' = 0 /\ seen' = {}
    /\ UNCHANGED <<system, active, processes, caches, pc, pids, refresh, refreshed>>

\* Fault: every file is accepted.
AcceptsAny(g, f) == TRUE

\* The callback of an AMD GPU accepts the files of its own GPU.
Accepts(g, f) == FileGpu[f] = g

\* The GPUs whose callback is tried before one succeeds, the disabled ones
\* included
Accepting(f) ==
    {i \in DOMAIN Callbacks : Callbacks[i] \in active /\ Accepts(Callbacks[i], f)}

\* Fault: the row of the process is looked for at the head of the list.
RowIndexFirst(g) == IF Len(processes[g]) # 0 /\ processes[g][1].pid = pid THEN 1 ELSE 0

\* process_index: the last row, if it is of this process; 0: a new row
RowIndex(g) ==
    LET n == Len(processes[g])
    IN  IF n # 0 /\ processes[g][n].pid = pid THEN n ELSE 0

\* The row of the process with the file and the refreshes its usage is
\* measured since added
Aggregate(g, f, since) ==
    LET i   == RowIndex(g)
        old == IF i # 0 THEN processes[g][i]
               ELSE [pid |-> pid, counted |-> [x \in File |-> 0], since |-> {}]
        row == [pid |-> pid, counted |-> [old.counted EXCEPT ![f] = @ + 1], since |-> old.since \cup since]
    IN  IF i # 0 THEN [processes[g] EXCEPT ![i] = row] ELSE Append(processes[g], row)

OfClient(entries, f) == {e \in entries : e.client = FileClient[f] /\ e.pid = pid}

\* Fault: a client met twice in a refresh is measured against itself.
PreviousAlsoCurrent(g, f) == OfClient(last[g] \cup current[g], f)

\* The entry of the client in last_update_process_cache.  Its usage is
\* measured since then if the engine times are plausible.
Previous(g, f) == OfClient(last[g], f)

\* The measurement is kept for the next refresh, once per client.
Measured(g, f) ==
    IF FileClient[f] = NoClient \/ OfClient(current[g], f) # {} THEN current[g]
    ELSE current[g] \cup {[client |-> FileClient[f], pid |-> pid, stamp |-> refresh]}

\* Open the fdinfo of the descriptor, which may have changed hands since it
\* was compared, and offer it to the callbacks.
Parse ==
    /\ pc = "parse"
    /\ pc' = "sweep"
    /\ LET f == fds[pid][pos]
       IN  IF f = NoFile \/ Accepting(f) = {} THEN UNCHANGED <<processes, caches>>
           ELSE LET i == CHOOSE i \in Accepting(f) : \A k \in Accepting(f) : i <= k
                    g == Callbacks[i]
                IN  /\ processes' = [processes EXCEPT ![g] =
                          Aggregate(g, f, {e.stamp : e \in Previous(g, f)})]
                    /\ last' = [last EXCEPT ![g] = @ \ Previous(g, f)]
                    /\ current' = [current EXCEPT ![g] = Measured(g, f)]
    /\ UNCHANGED <<system, active, loop, refresh, refreshed>>

\* Fault: the measurements of clients that are gone are kept.
SwapKeepsOld ==
    /\ last' = [g \in Gpu |-> IF g \in active THEN last[g] \cup current[g] ELSE last[g]]
    /\ current' = [g \in Gpu |-> IF g \in active THEN {} ELSE current[g]]

\* refresh_running_processes of every monitored GPU:
\* swap_process_cache_for_next_update
Swap ==
    /\ last' = [g \in Gpu |-> IF g \in active THEN current[g] ELSE last[g]]
    /\ current' = [g \in Gpu |-> IF g \in active THEN {} ELSE current[g]]

EndSweep ==
    /\ pc = "sweep" /\ pid = NoPid /\ pids = {}
    /\ Swap
    /\ pc' = "idle"
    /\ UNCHANGED <<system, active, processes, loop, refresh, refreshed>>

Next ==
    \/ \E p \in Pid, fd \in Fd, f \in File \cup {NoFile} : ChangeFd(p, fd, f)
    \/ \E set \in SUBSET Range(Callbacks) : EnableDisable(set)
    \/ BeginSweep \/ EndSweep
    \/ \E p \in Pid : NextPid(p)
    \/ NextFd \/ PidDone \/ Parse

Spec == Init /\ [][Next]_vars

-----------------------------------------------------------------------------
(* Properties                                                              *)

Held(p, g) == {f \in Range(fds[p]) \ {NoFile} : FileGpu[f] = g}

\* A process has one row on a GPU, however many files it has open there and
\* however the sweep and its opens interleave.
\* (And every variable has its type.)
OneRowPerProcess ==
    /\ TypeOK
    /\ \A g \in Gpu : \A i, k \in DOMAIN processes[g] :
          processes[g][i].pid = processes[g][k].pid => i = k

\* "We only care about unique opens": the row of a process on a GPU counts
\* every file it has open there once, under however many descriptors, and
\* there is no row without one; for every process whose descriptors have not
\* changed since the sweep came to it.
UniqueOpens ==
    pc = "idle" =>
        \A g \in refreshed, p \in Pid \ changed :
            LET rows == {i \in DOMAIN processes[g] : processes[g][i].pid = p}
            IN  IF Held(p, g) = {} THEN rows = {}
                ELSE \E i \in rows : processes[g][i].counted =
                                        [f \in File |-> IF f \in Held(p, g) THEN 1 ELSE 0]

\* A usage is never measured within one refresh, where the time elapsed is
\* next to nothing, also for a client that is open in several files.
UsageAcrossRefreshes ==
    \A g \in refreshed : \A i \in DOMAIN processes[g] :
        \A s \in processes[g][i].since : s < refresh

\* Between refreshes a GPU remembers one measurement per client and process,
\* all taken by the GPU's latest refresh: nothing piles up and nothing old is
\* measured against.
CacheIsLatest ==
    pc = "idle" =>
        \A g \in Gpu :
            /\ current[g] = {}
            /\ \A d, e \in last[g] : /\ d.stamp = e.stamp
                                     /\ d.client = e.client /\ d.pid = e.pid => d = e
            /\ g \in refreshed => \A e \in last[g] : e.stamp = refresh
=============================================================================
