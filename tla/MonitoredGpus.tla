--------------------------- MODULE MonitoredGpus ---------------------------
(***************************************************************************)
(* Which GPUs are monitored.  The program keeps two linked lists, the      *)
(* monitored and the non monitored GPUs, and one array of per-GPU options  *)
(* whose entries name their GPU (linkedGpu) and say doNotMonitor.  The     *)
(* whole interface indexes the array by the position of a GPU in the lists *)
(* (save_current_data_to_ring, populate_plot_data_from_ring_buffer, the    *)
(* setup window, save_interface_options_to_config_file), so both have to   *)
(* be reordered together:                                                  *)
(* interface_check_and_fix_monitored_gpus (src/interface_options.c) does   *)
(* that in two loops over the lists.                                       *)
(*                                                                         *)
(* One action is one iteration of a loop; nothing else happens in between  *)
(* (the program has one thread), which pc enforces.  Positions count from  *)
(* 1 here and from 0 in the code: opts[idx + 1] is gpu_specific_opts[idx]. *)
(***************************************************************************)
EXTENDS Integers, Sequences

CONSTANTS
    Gpu,            \* the GPUs
    Order,          \* the order gpuinfo_init_info_extraction found them in
    FdinfoGpu       \* those whose driver registered a fdinfo callback

ASSUME GpuAssumption ==
    /\ Order \in Seq(Gpu)
    /\ Len(Order) # 0
    /\ \A i, j \in 1 .. Len(Order) : Order[i] = Order[j] => i = j
    /\ FdinfoGpu \subseteq {Order[i] : i \in 1 .. Len(Order)}

NumDevices == Len(Order)

VARIABLES
    monitored,      \* monitoredGpus
    nonMonitored,   \* nonMonitoredGpus
    opts,           \* gpu_specific_opts
    idx, numMonitored,
    pc,             \* "idle" outside interface_check_and_fix_monitored_gpus
    active,         \* the GPUs whose fdinfo callback is enabled
    setupVisible,   \* interface->setup_win.visible
    changed,        \* has_monitored_set_changed
    before          \* the monitored GPUs before the call (history variable)

vars == <<monitored, nonMonitored, opts, idx, numMonitored, pc, active,
          setupVisible, changed, before>>
lists == <<monitored, nonMonitored>>
screen == <<setupVisible, changed>>

Opt == [gpu : Gpu, doNotMonitor : BOOLEAN]

\* The types of the lists, the array and the counters.
TypeOK ==
    /\ monitored \in Seq(Gpu)
    /\ nonMonitored \in Seq(Gpu)
    /\ opts \in [1 .. NumDevices -> Opt]
    /\ idx \in 0 .. NumDevices
    /\ numMonitored \in 0 .. NumDevices
    /\ pc \in {"idle", "demote", "promote", "keepone", "callbacks"}
    /\ active \subseteq FdinfoGpu
    /\ setupVisible \in BOOLEAN
    /\ changed \in BOOLEAN
    /\ before \in Seq(Gpu)

\* main: all GPUs are monitored, the options come from the configuration
\* file, and interface_check_and_fix_monitored_gpus is called.  A callback is
\* registered enabled.
Init ==
    /\ monitored = Order /\ nonMonitored = <<>>
    /\ \E skip \in [1 .. NumDevices -> BOOLEAN] :
          opts = [i \in 1 .. NumDevices |-> [gpu |-> Order[i], doNotMonitor |-> skip[i]]]
    /\ idx = 0 /\ numMonitored = 0
    /\ pc = "demote"
    /\ active = FdinfoGpu
    /\ setupVisible = FALSE /\ changed = FALSE
    /\ before = Order

-----------------------------------------------------------------------------
(* Lists and arrays                                                        *)

\* Fault: the last element takes the place of the removed one.
WithoutBySwap(s, i) == [k \in 1 .. Len(s) - 1 |-> IF k = i THEN s[Len(s)] ELSE s[k]]

\* list_del of the i-th element
Without(s, i) == [k \in 1 .. Len(s) - 1 |-> IF k < i THEN s[k] ELSE s[k + 1]]

\* saveInfo, memmove of the entries behind i, saveInfo to the last place
RotateToEnd(a, i) ==
    [k \in 1 .. NumDevices |-> IF k < i THEN a[k]
                               ELSE IF k < NumDevices THEN a[k + 1] ELSE a[i]]

\* saveInfo, the entries to .. from - 1 one place up, saveInfo to place to
RotateDown(a, from, to) ==
    [k \in 1 .. NumDevices |-> IF k = to THEN a[from]
                               ELSE IF to < k /\ k <= from THEN a[k - 1] ELSE a[k]]

-----------------------------------------------------------------------------
(* The setup window                                                        *)

\* A change of the last visit has been applied before the next key is read.
OpenSetup ==
    /\ pc = "idle" /\ ~setupVisible /\ ~changed
    /\ setupVisible' = TRUE
    /\ UNCHANGED <<lists, opts, idx, numMonitored, pc, active, changed, before>>

\* Enter on a line of the GPU list
ToggleMonitored(i) ==
    /\ pc = "idle" /\ setupVisible
    /\ opts' = [opts EXCEPT ![i].doNotMonitor = ~opts[i].doNotMonitor]
    /\ changed' = TRUE
    /\ UNCHANGED <<lists, idx, numMonitored, pc, active, setupVisible, before>>

\* F2, Escape, or a resize of the terminal
CloseSetup ==
    /\ pc = "idle" /\ setupVisible
    /\ setupVisible' = FALSE
    /\ UNCHANGED <<lists, opts, idx, numMonitored, pc, active, changed, before>>

-----------------------------------------------------------------------------
(* interface_check_monitored_gpu_change and                                *)
(* interface_check_and_fix_monitored_gpus                                  *)

CheckChange ==
    /\ pc = "idle" /\ ~setupVisible /\ changed
    /\ changed' = FALSE
    /\ idx' = 0
    /\ before' = monitored
    /\ pc' = "demote"
    /\ UNCHANGED <<lists, opts, numMonitored, active, setupVisible>>

\* Fault: the options entry is left where it was.
DemoteListOnly ==
    /\ pc = "demote" /\ idx < Len(monitored)
    /\ IF opts[idx + 1].doNotMonitor
       THEN /\ nonMonitored' = Append(nonMonitored, monitored[idx + 1])
            /\ monitored' = Without(monitored, idx + 1)
            /\ UNCHANGED <<opts, idx>>
       ELSE /\ idx' = idx + 1
            /\ UNCHANGED <<lists, opts>>
    /\ UNCHANGED <<numMonitored, pc, active, screen, before>>

\* First loop, one monitored GPU: it leaves the list if its options say so.
Demote ==
    /\ pc = "demote" /\ idx < Len(monitored)
    /\ IF opts[idx + 1].doNotMonitor
       THEN /\ nonMonitored' = Append(nonMonitored, monitored[idx + 1])
            /\ monitored' = Without(monitored, idx + 1)
            /\ opts' = RotateToEnd(opts, idx + 1)
            /\ UNCHANGED idx
       ELSE /\ idx' = idx + 1
            /\ UNCHANGED <<lists, opts>>
    /\ UNCHANGED <<numMonitored, pc, active, screen, before>>

DemoteEnd ==
    /\ pc = "demote" /\ idx = Len(monitored)
    /\ numMonitored' = idx
    /\ pc' = "promote"
    /\ UNCHANGED <<lists, opts, idx, active, screen, before>>

\* Second loop, one non monitored GPU (those the first loop moved included):
\* it joins the monitored ones unless its options say otherwise.  The GPU
\* under the cursor is the one behind those the loop has left in the list.
Promote ==
    /\ pc = "promote" /\ idx - numMonitored < Len(nonMonitored)
    /\ LET here == idx - numMonitored + 1 IN
       IF ~opts[idx + 1].doNotMonitor
       THEN /\ monitored' = Append(monitored, nonMonitored[here])
            /\ nonMonitored' = Without(nonMonitored, here)
            /\ opts' = RotateDown(opts, idx + 1, numMonitored + 1)
            /\ numMonitored' = numMonitored + 1
       ELSE UNCHANGED <<lists, opts, numMonitored>>
    /\ idx' = idx + 1
    /\ UNCHANGED <<pc, active, screen, before>>

PromoteEnd ==
    /\ pc = "promote" /\ idx - numMonitored = Len(nonMonitored)
    /\ pc' = "keepone"
    /\ UNCHANGED <<lists, opts, idx, numMonitored, active, screen, before>>

\* Fault: the GPU that is kept stays marked as not to be monitored.
KeepOneMarked ==
    /\ pc = "keepone"
    /\ IF numMonitored = 0
       THEN /\ monitored' = <<nonMonitored[1]>>
            /\ nonMonitored' = Tail(nonMonitored)
            /\ numMonitored' = 1
       ELSE UNCHANGED <<lists, numMonitored>>
    /\ pc' = "callbacks"
    /\ UNCHANGED <<opts, idx, active, screen, before>>

\* "We keep at least one monitored gpu at all times"
KeepOne ==
    /\ pc = "keepone"
    /\ IF numMonitored = 0
       THEN /\ monitored' = <<nonMonitored[1]>>
            /\ nonMonitored' = Tail(nonMonitored)
            /\ opts' = [opts EXCEPT ![1].doNotMonitor = FALSE]
            /\ numMonitored' = 1
       ELSE UNCHANGED <<lists, opts, numMonitored>>
    /\ pc' = "callbacks"
    /\ UNCHANGED <<idx, active, screen, before>>

Members(s) == {s[k] : k \in 1 .. Len(s)}

\* Fault: nothing is disabled.
SetCallbacksOnlyOn ==
    /\ pc = "callbacks"
    /\ active' = active \cup (Members(monitored) \cap FdinfoGpu)
    /\ pc' = "idle"
    /\ UNCHANGED <<lists, opts, idx, numMonitored, screen, before>>

\* processinfo_enable_disable_callback_for, true for the monitored GPUs and
\* false for the others
SetCallbacks ==
    /\ pc = "callbacks"
    /\ active' = (active \cup (Members(monitored) \cap FdinfoGpu)) \ Members(nonMonitored)
    /\ pc' = "idle"
    /\ UNCHANGED <<lists, opts, idx, numMonitored, screen, before>>

Next ==
    \/ OpenSetup \/ CloseSetup \/ CheckChange
    \/ \E i \in 1 .. NumDevices : ToggleMonitored(i)
    \/ Demote \/ DemoteEnd \/ Promote \/ PromoteEnd \/ KeepOne \/ SetCallbacks

Spec == Init /\ [][Next]_vars

-----------------------------------------------------------------------------
(* Properties                                                              *)

\* "The array in options->gpu_specifi_opts is kept in sync with the lists":
\* entry k of the array always belongs to the k-th GPU of the monitored list
\* followed by the non monitored list, at every iteration of both loops.
OptsInSync ==
    /\ Len(monitored) + Len(nonMonitored) = NumDevices
    /\ \A k \in 1 .. Len(monitored) : opts[k].gpu = monitored[k]
    /\ \A k \in 1 .. Len(nonMonitored) : opts[Len(monitored) + k].gpu = nonMonitored[k]

\* When no change is pending, exactly the GPUs whose options do not exclude
\* them are monitored, there is at least one, and the count handed to the
\* interface (monitored_dev_count) is the length of the list.
MonitoredAsAsked ==
    pc = "idle" /\ ~changed =>
        /\ monitored # <<>>
        /\ numMonitored = Len(monitored)
        /\ \A k \in 1 .. NumDevices : opts[k].doNotMonitor <=> k > Len(monitored)

\* The sweep over /proc calls exactly the drivers of the monitored GPUs.  (And
\* every variable has its type.)
CallbacksFollowList ==
    /\ TypeOK
    /\ pc = "idle" => active = Members(monitored) \cap FdinfoGpu

\* GPUs that stay monitored keep their order.
KeepsOrder(s, t) ==
    \A i, j \in 1 .. Len(s) : \A a, b \in 1 .. Len(t) :
        s[i] = t[a] /\ s[j] = t[b] /\ i < j => a < b

\* A GPU that stays monitored keeps its place relative to the others that do:
\* the loops move entries past one another, but never past one that stays.
StayersKeepOrder == pc = "idle" => KeepsOrder(monitored, before)
=============================================================================
