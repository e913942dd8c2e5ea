# A TLA+ verification of nvtop and its web sidecar

nvtop shows the load of GPUs and the processes that use them in a terminal;
`web/` holds a sidecar, `nvtop-web`, that runs nvtop as a child and serves its
output over HTTP.  This directory holds TLA+ modules of the parts that keep
state, TLC configurations that check them, and TLAPS proofs of every safety property
those configurations check, for every value of the constants.

Every module names the functions it models; `PROJECT.json` gives the lines of
every definition.  Definitions keep the names of the code where they can.  A
definition whose comment begins with `Fault:` is a plausible mistake in the code;
replacing the definition it imitates must make a property fail.

    tlc -workers 2 -config MCLayout.cfg MCLayout      # a run
    tlapm Charts_proofs.tla                           # a proof

## 1. Inventory

| Component | State | Operations | What makes it correct |
|---|---|---|---|
| Sample ring buffer (`interface_ring_buffer.[ch]`) | one ring per device and line | alloc, push, pop, get, empty | a line is the newest samples, in order |
| Charts (`interface.c`) | metrics drawn per GPU, the rings | save a sample per metric, toggle a metric, re-create, read | a sample is shown under its own GPU and metric; columns are instants |
| Monitored lists (`interface_options.c`, `interface.c`) | two lists, one options array indexed by position | toggle in the setup window, the two loops that move GPUs | entry k belongs to the k-th GPU; exactly the chosen GPUs, and one at least, are monitored |
| Process cache (`extract_gpuinfo.c`) | old and new hash table, pointers from the lists into it | refresh, populate, clean, clear | names point to live entries; a usage spans one refresh |
| Process list and menus (`interface.c`) | cursor, offset, menu, options | draw, every key, resize | a signal goes to the process chosen; the cursor is visible |
| fdinfo sweep (`extract_processinfo_fdinfo.c`) and client caches (drivers) | descriptors seen, rows, two caches per GPU | sweep, compare, offer, aggregate, swap | one row per process, each open file once, usage from refresh to refresh |
| Layout (`interface_layout_selection.c`) | charts, stacks, rows | place, merge, compact, spread, balance, cut | nothing lost, nothing overlaps, it ends |
| Main loop (`nvtop.c`) | signals, interval | refresh, draw, key | order of the above |
| Setup window (`interface_setup_win.c`) | section, indentation, rows, options | keys, drawing (which cuts the rows down) | a key acts on the entry that is highlighted |
| Options file (`interface_options.c`) | the options | load, save | what is saved is loaded |
| Drivers (`extract_gpuinfo_*.c`, `extract_gcuinfo_enflame.c`, `extract_npuinfo_rockchip.c`) | library, devices, validity bits, last readings | `struct gpu_vendor`: init, list, static, dynamic, processes, shutdown | a failed call leaves a value missing, never an old one |
| Missing GPU values (`extract_gpuinfo.c`) | validity bits, memory amounts | derive from processes | nothing reported is lost, nothing impossible is added |
| Device windows, snapshot (`interface.c`, `nvtop.c`) | none | show what is valid; refresh twice for a snapshot | what is shown was read in this refresh |
| nvtop child (`web/.../exec.go`) | child, pipes, channels | start, Next, Kill, Terminate, three goroutines per child | one child, nothing lost, restarted |
| Collector loop (`source.go`, `main.go`) | backoff, failures, status | run, restart, shut down | recovers; stops what it started |
| Store (`store.go`) | latest, metadata, ring of points | SetLatest, SetMeta, Latest, History | queries exact, date belongs to the snapshot |
| Framer, parser (`framer.go`, `parser.go`) | scanner: depth, string, escape, frame | per byte | frames are the arrays nvtop printed |
| HTTP server, filter, replay (`web/internal`) | none | per request, per frame | |

**How they interact.**  nvtop is one thread.  A pass of the main loop reacts to a
resize, applies a changed set of monitored GPUs (the lists, the options, the
callbacks of the sweep, the charts), refreshes the GPUs and their processes when
the interval has passed and no signal is being chosen, saves one sample per
metric, draws, and handles one key.  Parts communicate through shared arrays and
lists that are indexed by *position* (the options array, the lines of the store,
the charts' windows) or by *pointer* (the names in the process lists); most
hazards come from a position or a pointer that outlives the list it refers to.
The rest of the system changes while nvtop reads it: processes and their
descriptors come and go during a sweep.  The sidecar is concurrent: the collector
goroutine, three goroutines per child, the child itself, the HTTP handlers and
`main` share the source and the store, and `main` shuts down while all of them
run.

**What is hard.**  Interleavings (sidecar; sweep against the system), arrays
permuted while they are indexed (monitored lists, layout), caches of two
generations (processes, DRM clients), rings at their limit, a menu open while the
list behind it changes, rows that move under a cursor, calls of seventeen vendor
libraries each of which can fail at any refresh, rates that need two readings, byte
streams cut off anywhere, timeouts that race a late frame, restart with backoff,
search loops that must end.  `PROJECT.json` lists each as a hazard at its line
with the properties that would catch it, or with the reason why none does yet.

## 2. The modules

| Module | Models | Notes |
|---|---|---|
| `BoundedHistory` | abstract: lines that keep the newest samples | what a sample store promises |
| `Ring`, `RingBuffer` | the ring and the store of rings | implements `BoundedHistory` |
| `MonitoredGpus` | lists, options, callbacks | one action per iteration of each loop |
| `ChartHistory` | charts | composes `MonitoredGpus` with the lines of the store |
| `SetupWindow` | the setup window | composes the cursor and every key with `ChartHistory` and the main loop |
| `ProcessCache` | process lists and cache | the loop over processes is split so that processes exit within it |
| `ProcessPane` | list, cursor, menus, main loop | two steps per pass: refresh and draw, then a key |
| `FdinfoSweep` | sweep and client caches | compare and open are two steps |
| `Layout` | the screen | one step per turn of a loop |
| `GpuInfo` | fields with a validity bit, what a driver's call hands back | vocabulary of the drivers |
| `DriverLibraries` | nvidia, ixml, metax, enflame, ascend | drivers that load a vendor library |
| `DriverDrm` | amdgpu, radeon, i915, xe, msm, panfrost, panthor, v3d | drivers over DRM, with their fdinfo callbacks |
| `DriverSysfs` | tenstorrent, tpu, rknpu, apple | drivers that read files or an operating system registry |
| `GpuVendor` | `struct gpu_vendor` | chooses the driver's operator |
| `DeviceRefresh` | a vendor's devices from start to end | refreshes, derivation, device window and snapshot |
| `ExecSource`, `Sidecar` | child and goroutines; collector and shutdown | `Sidecar` composes them |
| `Store` | store, its writer and readers | implements `BoundedHistory` too |
| `Framer` | `Framer.Next`, `sanitizeFrame` | operators over classes of bytes |
| `Telemetry` | nvtop's output, framer, parser, store | composes `Framer` with `Store` |

`MC*` modules give constants values; the `*_proofs` modules hold the theorems, each
about the module it is named after; `SetupWindow_proofs` is also about `MonitoredGpus`
and `ChartHistory`, `Telemetry_proofs` about `Store` and `Framer`, and `Charts_proofs`
about `RingBuffer` and `Layout`.  In `Layout` the initial state, the specification and the
like have names of their own (`LayoutInit`, `LayoutSpec`), so that it can stand beside
`RingBuffer` in one module.

**State and actions.**  In `RingBuffer` the variable `ring` is the pair of indices
and the cells of `interface_ring_buffer`; `PushSample`, `PopSample`, `EmptySelect`
and `Empty` are its functions.  In `MonitoredGpus`, `monitored` and `nonMonitored` are the two lists,
`opts` is `gpu_specific_opts`, `idx` and `numMonitored` are the locals of
`interface_check_and_fix_monitored_gpus`; `Demote`/`Promote` are the bodies of its
two loops, `KeepOne` the last `if`, `SetCallbacks` the switching of callbacks.  In
`ChartHistory` a sample carries the GPU, the metric and the refresh it was taken
for, which the code does not store: that is what lets a property say that it is
shown in the right place.  `ProcessCache` names a cache entry by its pid and the
refresh that created it, so a dangling pointer differs from a pointer to a later
entry of the same pid.  `ProcessPane` keeps, beside the state of the code, the pid
that was selected when the signal menu opened.  `FdinfoSweep` represents the
amounts a file adds to a row by how often it was added, and a usage by the refresh
it is measured since.  `Layout` keeps the arguments (`in`), the locals and the
windows (`win`); sizes are exact and subtraction is that of unsigned integers; it
was compared with the compiled function, window by window, on all inputs of its
run.

In `SetupWindow`, `cursor` is `selected_section`, `indentation_level` and
`options_selected`; the `draw_setup_window_*` operators are the cuts that drawing
makes, which every key action ends with because the main loop draws before the next
key.  A write behind an array or a read of an uninitialised pointer may end the
program (`ended`) or go unnoticed.  A driver is not a state machine of its own:
what it keeps between calls is in `DeviceRefresh` (`valid`, `sampled`, `last`,
`row`), and each of its functions is an operator from the facts found true during
the call (a symbol resolved, a file read, a check passed) to the fields it leaves
valid, named after the function.  `gpuinfo_refresh_dynamic_info` and the other actions of
`DeviceRefresh` then are the passes over all devices, for one of them.  Two history
variables remember which fields were written in this refresh (`fresh`) and which
counters were read in it and before (`counted`, `countedBefore`).  In `Telemetry`
a byte is printed, goes through the framer and, when it ends a frame, stops the
stream until the collector has parsed it and called `OnSnapshot` or `OnStatus`.

In `Sidecar` the channels, the two pipes, the child's state and the signals
sent to it, `e.cmd` as each goroutine read it, the backoff and the phases of `main`
are state; every channel operation, lock section and timer is a step.

Left out of the modules: texts, colours, formats, the sideways scrolling of the
list, the values of metrics (memory amounts excepted).  External parts (the kernel's
descriptors, the vendors' libraries, nvtop as seen by the sidecar) are modelled from
how the code uses them and are marked so in `PROJECT.json`.  `Telemetry` assumes of
nvtop that it prints no control byte after a backslash in a string and no bracket
between two arrays; both follow from its escaping and its messages.

## 3. The runs

| Run | Shows | Bounds |
|---|---|---|
| `ring_buffer` | indices stay inside; the ring implements `BoundedHistory` | 2 lines of 4 cells, 2 samples: every position of start and end |
| `setup` | of the lists: `OptsInSync`, `MonitoredAsAsked`, `CallbacksFollowList`, `StayersKeepOrder`; of the charts: `PlotShowsOwnMetric` (no sample under the legend of another GPU or metric), `ColumnsAligned` (column k is the same refresh on all lines of a device); of the window: `CursorOnEntry`, `KeysActOnHighlighted`, `DefinedWhileAlike` | 3 GPUs, one without callback, 3 metrics of which 2 drawn, 2 samples per line, 2 refreshes, 2 fields, 2 changed options, GPUs that start alike or with different metrics and any of them excluded |
| `drivers` | `NoStaleReadings`, `DerivationSound`, `RatesNeedTwoReadings`, `SnapshotHasRates`, `FaultsAreContained` | all 17 drivers, 2 devices, 3 units of memory, processes that claim 1, 2 + 2 or 4 units, 3 refreshes, 1 call that finds none or all but one of what it looks for |
| `process_cache` | `CacheIsListed`: no leak, no missing entry; `RefreshedNamesLive`; `UsageIsRecent` | 2 GPUs, 2 pids, 2 rows, 3 refreshes: shared pids, reuse of a pid, a gap of a refresh |
| `process_pane` | `SignalGoesToHighlighted`, `CursorVisible`, `SortFieldKept` | nvtop and 2 pids, 2 rows of which 1 fits, 2 fields, 10 signals (two digits) |
| `fdinfo_sweep` | `OneRowPerProcess`, `UniqueOpens`, `UsageAcrossRefreshes`, `CacheIsLatest` | 2 processes with 3 descriptors, 3 files (2 share a client, 1 names none), 2 GPUs, 2 refreshes, 4 changes |
| `layout` | `ChartsHoldEveryLine`, `WindowsDisjoint`, `ChartsBigEnough`, `LayoutEnds` | up to 3 GPUs with 0 to 4 metrics, 35 terminal sizes around the thresholds, with and without list |
| `sidecar_safety` | `OneChild`, `NoGpuReported`, `BackoffForgiven` | 2 child identities, 1 frame in the pipe and in the channel, 2 doublings of the backoff, kill after 2 refused frames |
| `sidecar_liveness` | `Restarts`, `Recovers` | the same with 2 frames in the channel, no shutdown |
| `telemetry` | `FramesAreArrays`: the frames are the arrays printed, each once; `RefinesPoints`, `HistorySinceIsExact`, `MetaDatesLatest` of the store behind it | ring of 2, 4 snapshots, 2 seconds in any order, frames of 5 bytes, arrays of 7 |
| `sidecar_stop_doc` | violated: see finding 1 | |
| `layout_columns` | violated: see finding 2 | |

Why the bounds are enough: two of anything that can be confused (GPUs, lines, pids,
children), three where an order among the rest matters (charts, files), one more
refresh or snapshot than a cache or ring holds, terminal sizes on both sides of
every threshold of the layout.  In `setup` two options are changed because one change
can move the rows or the entries of the other; an option no row depends on is changed
last, which loses no behaviour of the rest.  In `drivers` the third refresh is the
first that has both a failed and an earlier good one before it, and a single fault
shows whatever one value leaves behind.  The store of `setup` holds as many samples as
there are refreshes, so that it never evicts one there; `ring_buffer` evicts, and
`ColumnsAreRefreshes` (section 4) is proved for every size.  Five bytes hold a string with an escaped
quote, or a nested array; seven hold an array that is over the limit.  Symmetry is used in safety runs only, over sets
whose elements no definition orders.

Every run checks the types of its module: by itself in `ring_buffer` (`TypeOK`) and
`layout` (`LayoutTypeOK`), where it is what keeps the indices and the windows inside, and as the first
conjunct of a safety invariant in the others (`OneChild`, `HistorySinceIsExact`,
`CallbacksFollowList`, `PlotShowsOwnMetric`, `CursorOnEntry`, `CacheIsListed`,
`CursorVisible`, `OneRowPerProcess`, `FaultsAreContained`).

Deadlock is checked everywhere except where the program ends: in the runs that let
the sidecar stop, and in `setup`, where undefined behaviour may end it.

**Exceptions the properties name.**  `NoStaleReadings` leaves out ixml, tpu and rknpu,
which never clear the validity bits of a device, and ascend, whose rows start
uninitialised (`KeepingVendors`).  `FaultsAreContained` leaves out panfrost, whose
list and count can differ, panthor, whose second device fails an assertion, and metax,
which ends the program when it cannot list processes.  `DefinedWhileAlike` states
the condition under which the setup window stays inside its arrays.

**Fairness.**  `Sidecar` assumes weak fairness of the collector, of each goroutine
of a child and of the shutdown: the Go scheduler runs what can run, and timers fire.
It assumes that a running child in the mood to print does print and that SIGKILL
ends a process.  It does not assume that SIGTERM works, that a child recovers, or
that a start succeeds, nor that a signal comes or the server fails; `Recovers` takes as its hypothesis that from some time on
starts do not fail and children behave.  `Layout` assumes weak fairness of the
steps of one function, which nothing interrupts.  The other modules state safety
only and assume none.

**Findings.**

1. `sidecar_stop_doc`: "Terminate gives nvtop an orderly SIGTERM before the final
   SIGKILL fallback" (`exec.go:160`).  If the collector is waiting out a backoff,
   Terminate finds no child; a backoff that ends before `cancel` starts one, and
   `main` returns without waiting for the collector.  That nvtop gets no signal.
   (The claim is about the way of a signal.  When the HTTP server fails, `log.Fatal` ends
   the sidecar without any Terminate, `main.go:107`, and an nvtop that runs then gets no
   signal either: `ServerFails`.)
2. `layout_columns`: the balancing is meant to "keep the plot order of apparition"
   (`interface_layout_selection.c:299`).  When the last chart cannot move down but
   an earlier one can, the earlier one moves below it.  Windows are numbered in the
   order they are cut, charts by device, so charts get each other's windows, and
   the assertion that columns divide by lines (`interface.c:1765`) fails: three GPUs
   drawing 1, 2 and 2 metrics, no process field, 24 rows and 43 columns.

**Observed while modelling, without a run.**

- A GPU switched off keeps its process list; switched on again it can be drawn
  before the next refresh with names `gpuinfo_clean_old_cache` freed
  (`extract_gpuinfo.c:271`, `nvtop.c:352`).  `RefreshedNamesLive` is the part that holds.
- A frame that arrives as the watchdog kills its child is published as current after
  the backoff (`exec.go:132`); `Pid` (`exec.go:140`) returns a dead child's pid until
  `Next` receives its end.
- Sorted by type in ascending order, the process list is sorted by command line instead
  (`interface.c:1029`), and the comparison for descending order says of two rows of
  different type that each follows the other (`:1026`).  A row without a value compares
  as equal to every other, so that the order depends on where it stands.  `ProcessPane` has
  comparisons that are orders, with ties.
- `filter_out_nvtop_pid` removes the first row of nvtop only (`interface.c:1176`).
- With a configuration file that names no field, the sort field is corrected
  (`interface_options.c:360`) before the default fields are put in (`nvtop.c:284`): the
  list starts unsorted.  `SortFieldKept` is the part that holds.
- A device that draws nothing keeps its number in `map_device_to_plot`, so a merged
  chart can list more devices than `devices_ids` holds, with five GPUs or more.
- Setup window: the rows of colours are labelled after the metrics of the first GPU
  only, so the label is an uninitialised pointer when another monitored GPU draws more
  (`interface_setup_win.c:387`), and Enter on a row beyond the last slot writes behind
  `gpu_plot_color_idx` (`:841`).  Switching a metric moves the rows under the cursor.
- The arrays of charts hold `MAX_CHARTS` (64) and the number of monitored GPUs is not
  compared with that (`interface_layout_selection.c:113`): the layout is modelled up to it.
- `update_interval` is not bounded when it is read from the file
  (`interface_options.c:221`), only by the keys of the window.
- When NVML, the enflame or the metax library loads but does not initialise, it stays
  loaded (`extract_gpuinfo_nvidia.c:473`).  tpu never closes its library; intel does not
  reset its count at the shutdown.
- metax ends nvtop when a query of processes fails (`extract_gpuinfo_metax.c:583`).
- panthor aborts with a second GPU, because the version is written to the first slot only
  (`extract_gpuinfo_mali_common.c:241`) and asserted of each (`extract_gpuinfo_panthor.c:121`);
  nvtop's own `README.markdown:8` promises multiple GPUs.  A panfrost device whose profile cannot be opened
  stays in the list uncounted (`extract_gpuinfo_mali_common.c:285`).
- ixml, tpu and rknpu show the last value of a sensor that fails; amdgpu uses the device
  information after the query for it failed (`extract_gpuinfo_amdgpu.c:528`).
- A maximal power or clock of zero, which intel, radeon and rknpu can report as valid,
  divides by zero in `save_current_data_to_ring` (`interface.c:1712`); the effective
  load looks for it, the chart does not.  radeon, msm and mali divide by a memory
  total that may be zero.
- `gpuinfo_refresh_utilisation_rate` uses the maximal clock without its validity bit
  (`extract_gpuinfo.c:402`), and wraps above 4294 MHz.  A slowdown threshold below five
  degrees wraps too (`interface.c:541`).
- While the process list is frozen, the values derived from it vanish from the device
  windows, because they are derived anew from nothing.
- v3d does not look for a client met twice in one refresh (`extract_gpuinfo_v3d.c:168`).
- After a backslash and a raw control byte `sanitizeFrame` still takes the next byte for
  an escaped one (`parser.go:123`); nvtop does not print that.
- `FilterPID` is given the pid of the current child, though the frame may be from the
  one before it.

## 4. The proofs

Every theorem is about the specification TLC runs, for every value of the constants
that the named assumption of its module admits; TLC evaluates those assumptions in the
run.  In each module an inductive invariant is shown to hold at first and to survive
every action, one lemma per action, and the properties follow from it.  The conjuncts
that make it inductive are what is worth reading:

**`Charts_proofs`, the sample store**: any buffer size, devices, lines and samples.

- `RingTypeCorrect`: the indices of every line stay inside its array.
- `RingRefinesHistory`: the store implements `BoundedHistory`.  The mapping reads the
  cells from start to end, modulo the size, as a sequence.  The type invariant is
  inductive and enough; the work is in `PushSamples`, `PopSamples` and `ClearSamples`,
  which say what each operation does to that sequence, by cases on whether the ring
  is full and on where it wraps.  That start = end means empty, never full, is what
  the eviction in `Push` preserves.

**`Charts_proofs`, the layout**: up to `MAX_CHARTS` devices, which is what the code's arrays
hold, any number of lines per chart, any terminal, any size of the header of a device
(`LayoutAssumption`: all positive, and the terminal's sizes fit an `unsigned`).  The least
rows and columns of a chart are the code's (7, and 5 for its frame).  `LayoutInv` says what the function has reached at each step:

- while charts are placed, each has exactly the lines of the devices on it, a chart
  with lines is that of its first device, and the order of the devices is kept (`Merged`).
  A merge moves all devices of one chart at once; without the second part, that could
  empty the chart of a device before them;
- the pass over the charts renumbers them without gap and puts them on stacks that are
  no wider than the screen and that all have their rows (`Placed`, by number of charts
  passed); from then on the charts stay so (`ChartsPlaced`), because balancing moves a
  chart to another stack only if it fits;
- a chart is shown only below all the headers (`HeadersShown`), and the rows of headers,
  charts and processes add up to those of the screen (`SharedOut`).

Cutting the windows is one step, with lemmas of its own.  The sort by stack gives every
chart one place (`CutOrder`: the rank is an injection of a finite set into itself).  The
columns of a stack are shared in proportion to the lines: the floors add up to no more
than the whole, and the whole has ten columns a line, so each part has too.  Hence no
unsigned difference wraps, on which the types of the windows rest.

- `LayoutTypeCorrect`: every index is inside its array, every window inside `unsigned`.
- `ChartsLoseNoLine`: every device that draws is on a chart, in order, and each chart has
  the lines of its devices, at most `MAX_LINES_PER_PLOT`.
- `WindowsShareNoCell`, `ChartsHaveRoom`: headers and charts overlap nowhere and lie
  between the headers and the process list; each chart has ten columns per line and the
  rows it needs.
- `EveryTurnIsNearer`: each turn of a loop lowers a natural number that bounds the turns
  left (`TurnsLeft`).  A turn of the search that goes on leaves one chart less.  The
  balancing starts again from the last chart after each move, so the number of charts it
  has still to look at does not fall; but charts only move down, and there are only so many
  stacks below them in all.  With fairness, and with a next step from every
  state (TLC finds no deadlock), that gives `LayoutEnds`.

**`SetupWindow_proofs`, the monitored lists**: any number of GPUs, any choices.
Assumption: the GPUs are in a nonempty list without repetition, and those with an fdinfo
callback are among them (`GpuAssumption`), as `gpuinfo_init_info_extraction` builds it.

- `OptionsFollowLists`, `MonitoredSetCorrect`: entry k of the options belongs to the k-th
  GPU at every iteration of both loops; exactly the GPUs not excluded are monitored, and
  one at least.  `OptsInSync` alone says nothing about which entries are still to be
  visited; `LoopInv` adds what the loops have established (entries before `idx` are to be
  monitored in the first loop; in the second, those before `numMonitored` are and those
  up to `idx` are not), without which neither the end of the loops nor `KeepOne` can be
  shown right.
- `CallbacksReachMonitored`: no GPU is lost from the two lists or in them twice
  (`PlaceInv`), so that the enabled callbacks are those of the monitored GPUs.
- `StayersOrdered`: GPUs that stay monitored keep their order.  `OrderInv` adds that the
  monitored list keeps the order it had before the call, and that a GPU moved out by the
  first loop is marked, so that the second loop brings back only newcomers.

**`SetupWindow_proofs`, charts and window**: any number of GPUs, metrics, lines, samples, fields, colours.
`SetupInv` joins the list invariant above, `ChartInv` (a line that is drawn holds samples
of its own GPU and metric only, of the latest refreshes without a gap) and `WindowInv`
(while the window is shown the cursor is on an entry that drawing left).

- `SetupTakesListSteps`: window, charts and main loop together implement `MonitoredGpus`,
  so that its theorems hold of the whole.
- `SamplesUnderOwnLegend`, `ColumnsAreRefreshes`: of the charts, whatever is toggled and
  moved between two refreshes.  The rank of a metric among those drawn is its line; that
  toggling one changes the ranks of the others is why the lines are emptied.
- `EnterFindsEntry`, `OnlyHighlightedChanges`, `LabelsDefinedWhileAlike`: of the window.

**`DeviceRefresh_proofs`**: any of the seventeen drivers, any outcome of the calls each
makes, any number of devices, amounts of memory, refreshes and faults.  Assumptions:
the vendors are among those modelled (`VendorsAssumption`); devices have positive numbers,
finitely many, and there may be a first one, which is all rknpu can have
(`DeviceIdsAssumption`); amounts and bounds are numbers (`MemoryAssumption`,
`BoundsAssumption`).  One lemma per kind of call (`GoodReading` and its like) says what
all drivers have in common, and the lemmas about the actions rest on those.

- `NothingStaleIsShown`: every bit that the window of a device shows was set in this
  refresh, for the thirteen drivers that clear their bits: all but ixml, tpu, rknpu and
  ascend (`KeepingVendors`).
  The property is about the screen; `FreshInv` is about every step between the driver
  and the screen, and `HaveInv` bounds what was found at the start.
- `NothingImpossibleIsDerived`: nothing a driver reported is lost, the effective load is
  there only with its parts, derived memory is within the total.  `DerivationInv` says so
  of the half derived state also, except for the effective load, which is out of date
  between the change of the rate and the end of the derivation.
- `RatesHaveTwoReadings`: `RateInv` ties the reading a driver remembers to the counter
  having been read in this refresh or before, and a rate to both; `ClientInv` does the
  same for the usage of a client.
- `FirstSnapshotHasRates`: if no call failed, the snapshot shows the rates and the usage.
  `SnapshotInv` counts the refreshes: nothing is shown before the second, and what the
  first has read is still remembered then.
- `NoFaultSpreads`: a failed call leaves a value missing and the list of devices right.

The total of the processes' memory is a recursive function over the prefixes of the list;
that each has a sum, and that it is a number, is shown at the least prefix without one.

**`ProcessCache_proofs`**: any GPUs, pids, lists and refreshes.

- `CacheMatchesLists`, `NamesOfRefreshedGpusLive`, `UsageMeasuredRecently`.  The invariant
  follows the loop: a pid is in one of the two tables and once (`UniquePids`); the entries
  met so far are those of the processes populated so far, the processes yet to come point
  nowhere (`ListInv`); a usage in the new table was measured in this refresh, one in the
  old table no earlier than in the refresh before (`UsageInv`).

**`FdinfoSweep_proofs`**: any processes, descriptors, files, GPUs and refreshes, and
any opening and closing of files in between.

- `RowsOfProcessUnique`, `UsageBetweenRefreshes`, `CacheOfLatestRefresh`.  The row of the
  process that is visited is the last one of its list, because a process is visited once
  and no other adds a row meanwhile (`RowInv`); what is in the cache being filled was
  measured in this refresh, what is in the other one before it (`CacheInv`).
- `FilesCountedOnce`: with kcmp, a process that keeps its descriptors has every open file
  counted once.  `SeenInv`: one of the descriptors behind the position is remembered for
  every file met there; `CountInv`: the row counts exactly those files.  Without the system
  call the sweep takes every further descriptor for one it has seen, and counts one only.

**`ProcessPane_proofs`**: any processes in lists of any length, fields, values,
signals, heights of the windows.

- `SignalsReachChosen`: a signal goes to the process that was highlighted when the menu was
  opened.  That needs four facts of the states before: a pid is highlighted on the screen
  or behind the setup window only (`HighlightInv`); when a key is read, the list that was
  drawn is the present one and names the highlighted pid (`DrawnInv`); while the menu is
  open, the list does not change and redrawing it finds the same pid in the same row
  (`ChosenInv`); the menu was cut down to the signals there are.
- `CursorsOnScreen`: the highlighted row and entry are inside windows that are kept full.
- `SortFieldStays`: no choice takes the sort field away from the displayed ones.

That rows can be sorted at all (`OrderExists`), on which the types rest, is shown by a
shortest list that could not be and the insertion of its last row.

**`Sidecar_proofs`**: any number of children, sizes of the pipe and the channel, limits
of the backoff; every interleaving of the goroutines.

- `SingleChild`: at most one nvtop that was not waited for.  A child stays the current one
  until the collector has received its end, which is sent after it was waited for, which
  is after the reader met the end of an empty pipe (`ChildOk`, `OnlyCurrent`, `FlowInv`).
- `NoGpuLineKept`: a child that printed the no-GPU line and exited is reported so: until
  its end is received the line is in the pipe or has been kept.
- `BackoffForgivenAfterMinute`: the delay shrinks only after a minute without an error.

`TypeOK` is not inductive: that the phase after an error has an error is part of `FlowInv`.

**`Telemetry_proofs`**: any capacity, snapshots, dates, limit of a frame, length of an array.

- `StoreRefinesPoints`, `HistoryInOrder`: the ring of points implements `BoundedHistory`;
  what `History` walks over are the points of the newest snapshots in order
  (`KeptInOrder`).  `CellIsRemainder` rids the two nested remainders of the code of `%`.
- `MetaAlwaysDatesLatest`: needs that the metadata in the hands of `OnStatus` dates the
  latest snapshot too, while it is between its read and its write.
- `TelemetryUsesStore`: the composition implements `Store`, so that the store's theorems
  hold of the store in use.
- `HistoryAnswersExactly`: `History` returns exactly the points that are not older than
  asked, in order.  The walk is right by `HistoryInOrder`; that the filter keeps what it
  should is shown for every prefix of the walk (`ExactAnswer`).
- `FramerFindsArrays`: the frames are the arrays nvtop printed, each once and in order,
  those above the limit left out.  The invariant `Follows` ties the depth, the string and
  the escape of the scanner to what was printed, byte by byte.
- `FramesAlwaysParse`: the frame handed to the parser parses once `sanitizeFrame` has
  rewritten it, given that nvtop prints no control byte after a backslash.  `Scanned`
  follows its scanner along the array as it is printed: because no control byte follows a
  backslash, it is in a string exactly when JSON is, so every raw control byte in a string
  is escaped and no other byte is touched.  `ParserInv` carries that to the frames that
  wait for the parser.

Where an element has to be *found* by the code (the next descriptor, the first row of
nvtop, the preferred field), the proofs use `LeastElement`: a set of numbers has a least
one, by the well-foundedness of `<`.  The same stands in for induction: what a recursive
function does for all arguments is shown at the least argument where it would not
(`AllNumbers` in `Charts_proofs`).

**What the proofs changed in the model.**  `CASE` expressions whose arms overlapped were
made exclusive (`Layout`, `GpuInfo`, `DeviceRefresh`): TLC takes the first arm, TLA+ any.
What was computed by a fold, by `SelectSeq` or by a recursive operator is now a recursive
function or a set over positions: the sums and the pass of `Layout`, the sum over processes
and `populate_process_info` in `DeviceRefresh`, `History`, `sanitizeFrame`, the search for a
control byte in a string.  The assumptions on vendors and devices were not written down.
The sort of the process list was defined by a strict order, which no list with two rows of
the same process satisfies; it is now some order of the rows that the comparison allows.
`StayersKeepOrder` was restated over positions, without `SelectSeq`.  The type of the menu's
offset did not hold with more fields than signals.

**Model-checked only.**  Liveness is out of the prover's reach: `Restarts`, `Recovers` and
`LayoutEnds` are checked on the bounds above; of the last, `EveryTurnIsNearer` is the
part that needs no fairness.  Every other property of a passing run is a
theorem (`UniqueOpens` where the system has kcmp, as in its run).  The two findings are counterexamples and need no proof.

## 5. Plan

The model covers the parts of nvtop and of the sidecar that keep state, and its safety
properties are proved.  What would come next, in this order:

1. For `Recovers`, what `EveryTurnIsNearer` is for `LayoutEnds`: a number that bounds what a
   restart still has to do.
2. The merge of process lists by pid in the drivers that ask a library once per kind of
   process, and several clients in the caches of the drivers other than amdgpu.
3. Properties of the hazards that `PROJECT.json` lists with a note: the usage measured over
   the microseconds between two GPUs, a frame that arrives as the watchdog fires.

## 6. Not modelled

- The options file and the command line: one pass over text into variables that
  nothing else touches yet.  Their results are the initial states of the modules
  that use them.
- The values of metrics, except memory amounts: percentages, temperatures, units.
  TLC would enumerate numbers no property tells apart; the divisions by zero that were
  met are listed above.
- Several clients in the caches of the drivers other than amdgpu, and two GPUs of one
  such driver: they differ from amdgpu in what they compare, which `DriverDrm` has for
  one device and one client.
- The merge of process lists by pid in the drivers that ask a library once per kind of
  process (nvidia, ixml, enflame): a loop over two arrays within one call.
- Drawing: bars, texts and colours (`plot.c`, the rest of `interface.c`), the JSON text
  of the snapshot.  Calls of ncurses or printf without state; what is shown is in
  `DeviceRefresh`, `ProcessPane`, `ChartHistory` and `Layout`.
- Discovery, information messages, `time.c`, the reads of `/proc`: one query each,
  without state.  They are outcomes that may fail in the modules that use them.
- `healthz`, the pid filter, the replay source, the dashboard: functions of one frame
  or one date, a development aid, a page.
- Vendored `ini.c`, `uthash.h`, `list.h` and the DRM headers: hash tables and lists are
  functions and sequences in the modules.
