---------------------------- MODULE ChartHistory ----------------------------
(***************************************************************************)
(* What the charts show.  Each refresh saves one sample for every metric   *)
(* drawn for every monitored GPU (save_current_data_to_ring), in the line  *)
(* of the sample store with the metric's rank among the metrics drawn for  *)
(* that GPU; drawing finds a line the same way                             *)
(* (populate_plot_data_from_ring_buffer).  Neither the GPU nor the metric  *)
(* is stored with a sample, while the setup window changes both the        *)
(* metrics drawn and, by way of the monitored list, the GPU at a position. *)
(*                                                                         *)
(* This module composes MonitoredGpus, which orders the GPUs, with the     *)
(* sample store, seen as the bounded histories that RingBuffer implements. *)
(* to_draw is a field of the options entry and moves with it; it is kept   *)
(* here by the GPU the entry is linked to.  SetupWindow adds the keys that *)
(* cause the steps.                                                        *)
(***************************************************************************)
EXTENDS MonitoredGpus, FiniteSets

CONSTANTS
    NumMetric,      \* plot_information_count
    MaxLines,       \* MAX_LINES_PER_PLOT, also the lines kept per device
    Capacity,       \* samples a line can hold
    Configured,     \* the metrics a configuration file or the command line asks for
    MaxRefresh      \* bound: refreshes of the display

Metric == 0 .. NumMetric - 1
Drawable == {s \in SUBSET Metric : Cardinality(s) <= MaxLines}

ASSUME ChartAssumption ==
    /\ NumMetric \in Nat \ {0} /\ MaxLines \in Nat \ {0}
    /\ Capacity \in Nat \ {0} /\ MaxRefresh \in Nat
    /\ Configured \subseteq [Gpu -> Drawable]

Line == 0 .. MaxLines - 1

VARIABLES
    toDraw,         \* to_draw of the options entry linked to a GPU
    hist,           \* hist[p][w]: the samples of line w of the p-th device
    refresh         \* refreshes made so far (history variable)

chart == <<toDraw, hist, refresh>>

\* A sample remembers where it came from; the code stores its value only.
Sample == [gpu : Gpu, metric : Metric, at : 1 .. MaxRefresh]

\* A GPU never draws more metrics than the store has lines for it.
ChartTypeOK ==
    /\ toDraw \in [Gpu -> Drawable]
    /\ hist \in Seq([Line -> Seq(Sample)])
    /\ refresh \in 0 .. MaxRefresh

-----------------------------------------------------------------------------
(* The metrics drawn for a device, and their lines                         *)

\* plot_add_draw_info
PlotAddDrawInfo(metric, draw) ==
    IF Cardinality(draw) < MaxLines THEN draw \cup {metric} ELSE draw

\* options.gpu_specific_opts[dev_id].to_draw
ToDrawAt(p) == toDraw[opts[p].gpu]

\* data_index, data_ring_index: the metrics drawn before this one
DataIndex(metric, draw) == Cardinality({x \in draw : x < metric})

NoSamples == [w \in Line |-> <<>>]
Newest(s) == IF Len(s) > Capacity THEN Tail(s) ELSE s

-----------------------------------------------------------------------------
(* Steps                                                                   *)

\* The store is allocated once the lists are in order.
ChartInit ==
    /\ Init
    /\ toDraw \in Configured
    /\ hist = <<>>
    /\ refresh = 0

\* Fault: a field without a valid value gets no sample.
SaveCurrentDataValidOnly(valid) ==
    /\ pc = "idle" /\ (changed => setupVisible)
    /\ refresh < MaxRefresh
    /\ refresh' = refresh + 1
    /\ hist' = [p \in DOMAIN hist |-> [w \in Line |->
          IF \E m \in ToDrawAt(p) : DataIndex(m, ToDrawAt(p)) = w /\ <<monitored[p], m>> \in valid
          THEN LET m == CHOOSE m \in ToDrawAt(p) : DataIndex(m, ToDrawAt(p)) = w
               IN  Newest(Append(hist[p][w],
                                 [gpu |-> monitored[p], metric |-> m, at |-> refresh']))
          ELSE hist[p][w]]]
    /\ UNCHANGED <<vars, toDraw>>

\* save_current_data_to_ring.  The main loop has applied a change of the
\* monitored GPUs by then.  A sample is pushed whether or not the driver
\* found a valid value (a field that is not valid counts as 0), so valid does
\* not matter.
SaveCurrentData(valid) ==
    /\ pc = "idle" /\ (changed => setupVisible)
    /\ refresh < MaxRefresh
    /\ refresh' = refresh + 1
    /\ hist' = [p \in DOMAIN hist |-> [w \in Line |->
          IF \E m \in ToDrawAt(p) : DataIndex(m, ToDrawAt(p)) = w
          THEN LET m == CHOOSE m \in ToDrawAt(p) : DataIndex(m, ToDrawAt(p)) = w
               IN  Newest(Append(hist[p][w],
                                 [gpu |-> monitored[p], metric |-> m, at |-> refresh']))
          ELSE hist[p][w]]]
    /\ UNCHANGED <<vars, toDraw>>

\* Fault: the samples of the other metrics are kept.
ToggleChartKeepSamples(p, metric) ==
    /\ pc = "idle" /\ setupVisible /\ p \in DOMAIN hist
    /\ toDraw' = [toDraw EXCEPT ![opts[p].gpu] =
                     IF metric \in @ THEN @ \ {metric} ELSE PlotAddDrawInfo(metric, @)]
    /\ UNCHANGED <<vars, hist, refresh>>

\* Enter on a metric of one GPU
ToggleChart(p, metric) ==
    /\ pc = "idle" /\ setupVisible /\ p \in DOMAIN hist
    /\ toDraw' = [toDraw EXCEPT ![opts[p].gpu] =
                     IF metric \in @ THEN @ \ {metric} ELSE PlotAddDrawInfo(metric, @)]
    /\ hist' = [hist EXCEPT ![p] = NoSamples]
    /\ UNCHANGED <<vars, refresh>>

\* Enter on a metric of all GPUs: it is removed if all of them draw it,
\* otherwise it is added where there is room.
ToggleChartAll(metric) ==
    /\ pc = "idle" /\ setupVisible
    /\ LET all   == \A p \in DOMAIN hist : metric \in ToDrawAt(p)
           shown == {opts[p].gpu : p \in DOMAIN hist}
       IN  toDraw' = [g \in Gpu |->
                         IF g \notin shown THEN toDraw[g]
                         ELSE IF all THEN toDraw[g] \ {metric}
                         ELSE PlotAddDrawInfo(metric, toDraw[g])]
    /\ hist' = [p \in DOMAIN hist |-> NoSamples]
    /\ UNCHANGED <<vars, refresh>>

\* Fault: the store of the old monitored list is kept as far as it reaches.
ReinitializeKeepSamples ==
    /\ SetCallbacks
    /\ hist' = [p \in 1 .. Len(monitored) |-> IF p \in DOMAIN hist THEN hist[p] ELSE NoSamples]
    /\ UNCHANGED <<toDraw, refresh>>

\* interface_check_and_fix_monitored_gpus returns; clean_ncurses frees the
\* store and initialize_curses allocates one for the new monitored GPUs.
Reinitialize ==
    /\ SetCallbacks
    /\ hist' = [p \in 1 .. Len(monitored) |-> NoSamples]
    /\ UNCHANGED <<toDraw, refresh>>

\* interface_check_monitored_gpu_change up to the new store
Loops ==
    /\ CheckChange \/ Demote \/ DemoteEnd \/ Promote \/ PromoteEnd \/ KeepOne
    /\ UNCHANGED chart

-----------------------------------------------------------------------------
(* Properties                                                              *)

\* draw_plots runs
Drawing == pc = "idle" /\ ~setupVisible /\ ~changed

\* The samples populate_plot_data_from_ring_buffer draws under the legend of
\* a metric of the p-th device
Drawn(p, metric) == hist[p][DataIndex(metric, ToDrawAt(p))]

\* Every sample drawn under the legend of a GPU and a metric was taken from
\* that GPU for that metric, whatever was toggled and reordered in between, and
\* there is a line for each metric.
PlotShowsOwnMetric ==
    /\ ChartTypeOK
    /\ Drawing =>
          \A p \in DOMAIN hist : \A m \in ToDrawAt(p) : \A k \in 1 .. Len(Drawn(p, m)) :
              /\ Drawn(p, m)[k].gpu = monitored[p]
              /\ Drawn(p, m)[k].metric = m

\* The columns of a chart are points in time: the k-th newest samples of any
\* two lines were taken by the same refresh, also when a line was emptied or
\* a driver reported nothing for a while, and the newest by the last one.
ColumnsAligned ==
    Drawing =>
        \A p \in DOMAIN hist : \A m \in ToDrawAt(p) : \A k \in 1 .. Len(Drawn(p, m)) :
            Drawn(p, m)[k].at = refresh - (Len(Drawn(p, m)) - k)
=============================================================================
