---------------------------- MODULE SetupWindow ----------------------------
(***************************************************************************)
(* The setup window (src/interface_setup_win.c): the cursor, the keys and  *)
(* the options they change.  The cursor is a section, an indentation       *)
(* level and two row numbers that the keys count up and down; only drawing *)
(* the window cuts them down to the rows there are, and the number of rows *)
(* depends on the options: the charts section has one row of colours for   *)
(* every metric that a monitored GPU draws, the sort list one row for      *)
(* every displayed field.  The main loop draws before it reads a key, so   *)
(* each key here ends with the drawing that follows it.                    *)
(*                                                                         *)
(* The module composes the window with MonitoredGpus and ChartHistory,     *)
(* whose steps the Enter key takes.  The sort field is in ProcessPane.     *)
(***************************************************************************)
EXTENDS ChartHistory, TLC

CONSTANTS
    NumField,       \* process_field_count
    NumColour,      \* chart_color_names_count
    MaxInterval,    \* the largest update interval, in steps of 100 ms
    MaxChanges      \* bound: options changed by Enter, + and -

ASSUME SetupAssumption ==
    /\ NumField \in Nat \ {0} /\ NumColour \in Nat \ {0} /\ MaxInterval \in Nat \ {0}
    /\ MaxChanges \in Nat

VARIABLES
    cursor,         \* selected_section, indentation_level, options_selected
    fields,         \* process_fields_displayed
    switched,       \* the two-valued options that differ from the configuration
    interval,       \* update_interval, in steps of 100 ms
    timer,          \* encode_decode_hiding_timer, in steps of 5 s
    colour,         \* gpu_plot_color_idx
    ended,          \* the program ended by undefined behaviour
    changes         \* options changed so far (bound)

values == <<fields, switched, interval, timer, colour>>
setupVars == <<vars, chart, cursor, values, ended, changes>>

Sections == <<"general", "header", "chart", "process", "gpus">>
Field == 0 .. NumField - 1

\* The rows of a section that switch one option
Switches ==
    [general |-> (0 :> "use_color" @@ 1 :> "show_startup_messages"),
     header  |-> (0 :> "temperature_in_fahrenheit" @@ 2 :> "has_gpu_info_bar"),
     chart   |-> (0 :> "plot_left_to_right"),
     process |-> (0 :> "hide_processes_list" @@ 1 :> "filter_nvtop_pid"
                  @@ 2 :> "sort_descending_order"),
     gpus    |-> <<>>]
UpdateInterval == 2
EncDecTimer == 1
SortBy == 3
Display == 4

\* Types; the update interval stays between 100 ms and 99.9 s.
SetupTypeOK ==
    /\ cursor.section \in 1 .. Len(Sections) /\ cursor.level \in 0 .. 2
    /\ cursor.row \in Nat /\ cursor.item \in Nat
    /\ fields \subseteq Field
    /\ interval \in 1 .. MaxInterval /\ timer \in Nat
    /\ colour \in [Line -> 0 .. NumColour - 1]
    /\ ended \in BOOLEAN /\ changes \in 0 .. MaxChanges

-----------------------------------------------------------------------------
(* The window as it is drawn: the cursor is cut down to the rows           *)

AtMost(n, bound) == IF n > bound THEN bound ELSE n
Section(c) == Sections[c.section]

\* Fault: the GPUs that are not monitored count as well.
RefDrawAll(draw) == UNION {draw[opts[p].gpu] : p \in 1 .. NumDevices}

\* The metrics that any of the monitored GPUs draws (ref_draw), and the row
\* behind their colours
RefDraw(draw) == UNION {draw[opts[p].gpu] : p \in DOMAIN hist}
AllGpuRow(draw) == 1 + Cardinality(RefDraw(draw))

OneLevel(c) == [c EXCEPT !.level = AtMost(@, 1)]
RowsUpTo(c, bound) == [c EXCEPT !.row = AtMost(@, bound)]
ItemsUpTo(c, bound) == [c EXCEPT !.item = AtMost(@, bound)]

draw_setup_window_general(c) ==
    IF c.level = 0 THEN c ELSE RowsUpTo(OneLevel(c), 2)

draw_setup_window_header(c) == RowsUpTo(OneLevel(c), 2)

\* Fault: the row is not cut down to the list.
ChartKeepsRow(c, draw) ==
    IF c.row < AllGpuRow(draw) THEN OneLevel(c) ELSE ItemsUpTo(c, NumMetric - 1)

draw_setup_window_chart(c, draw) ==
    LET drawn == RowsUpTo(c, AllGpuRow(draw) + Len(hist))
    IN  IF drawn.row < AllGpuRow(draw) THEN OneLevel(drawn) ELSE ItemsUpTo(drawn, NumMetric - 1)

draw_setup_window_proc_list(c, shown) ==
    LET drawn == RowsUpTo(c, Display)
    IN  CASE drawn.row < SortBy                     -> OneLevel(drawn)
          [] drawn.row = SortBy /\ shown = {}       -> OneLevel(drawn)
          [] drawn.row = SortBy /\ shown # {}       -> ItemsUpTo(drawn, Cardinality(shown) - 1)
          [] drawn.row = Display                    -> ItemsUpTo(drawn, NumField - 1)

draw_setup_window_gpu_select(c) ==
    IF c.level = 0 THEN c ELSE RowsUpTo(OneLevel(c), NumDevices - 1)

draw_setup_window(c, draw, shown) ==
    CASE Section(c) = "general" -> draw_setup_window_general(c)
      [] Section(c) = "header"  -> draw_setup_window_header(c)
      [] Section(c) = "chart"   -> draw_setup_window_chart(c, draw)
      [] Section(c) = "process" -> draw_setup_window_proc_list(c, shown)
      [] Section(c) = "gpus"    -> draw_setup_window_gpu_select(c)

\* The rows of colours that are drawn take their labels from the metrics of
\* the first GPU (get_plot_slot_labels); where it draws fewer, the label is
\* an uninitialised pointer.
LabelMissing(c, draw) ==
    /\ Section(c) = "chart"
    /\ AtMost(Cardinality(RefDraw(draw)), MaxLines) > Cardinality(draw[opts[1].gpu])

\* Undefined behaviour may end the program or go unnoticed.
MayEnd(undefined) == ended' \in IF undefined THEN BOOLEAN ELSE {FALSE}

\* The window after a key, drawn.
Redraw(c, undefined) ==
    /\ cursor' = draw_setup_window(c, toDraw', fields')
    /\ MayEnd(undefined \/ LabelMissing(c, toDraw'))

-----------------------------------------------------------------------------
(* Keys                                                                    *)

Key == pc = "idle" /\ setupVisible /\ ~ended

\* Bound: at most MaxChanges options are changed, and one that no row depends on
\* is changed last.
Change == Key /\ changes < MaxChanges /\ changes' = changes + 1
LastChange == Key /\ changes < MaxChanges /\ changes' = MaxChanges

\* show_setup_window
Top == [section |-> 1, level |-> 0, row |-> 0, item |-> 0]

show_setup_window ==
    /\ ~ended /\ OpenSetup
    /\ cursor' = Top
    /\ UNCHANGED <<chart, values, ended, changes>>

KEY_RIGHT(c) == [c EXCEPT !.level = AtMost(@ + 1, 2)]
KEY_LEFT(c) == [c EXCEPT !.level = IF @ > 0 THEN @ - 1 ELSE 0]

AtSection(c, s) ==
    IF s \in 1 .. Len(Sections) THEN [c EXCEPT !.section = s, !.row = 0, !.item = 0] ELSE c

\* Up is by = -1, Down is by = 1: Up stops at 0, Down is left to the drawing.
UpDown(c, by) ==
    LET moved(n) == IF n + by < 0 THEN 0 ELSE n + by
    IN  CASE c.level = 0 -> AtSection(c, c.section + by)
          [] c.level = 1 -> [c EXCEPT !.row = moved(@), !.item = 0]
          [] c.level = 2 -> [c EXCEPT !.item = moved(@)]

Arrow ==
    /\ Key
    /\ UNCHANGED <<vars, chart, values, changes>>
    /\ \E c \in {KEY_RIGHT(cursor), KEY_LEFT(cursor), UpDown(cursor, -1), UpDown(cursor, 1)} :
          Redraw(c, FALSE)

\* + and - on the update interval, whatever the level
ChangeInterval(by) ==
    /\ LastChange /\ Section(cursor) = "general" /\ cursor.row = UpdateInterval
    /\ interval + by \in 1 .. MaxInterval
    /\ interval' = interval + by
    /\ UNCHANGED <<vars, chart, fields, switched, timer, colour>>
    /\ Redraw(cursor, FALSE)

\* + and - on the timer of the meters
ChangeTimer(by) ==
    /\ LastChange /\ Section(cursor) = "header" /\ cursor.level = 1 /\ cursor.row = EncDecTimer
    /\ timer' = IF timer + by < 0 THEN 0 ELSE timer + by
    /\ UNCHANGED <<vars, chart, fields, switched, interval, colour>>
    /\ Redraw(cursor, FALSE)

\* Enter where it opens what Right opens: on a section, on a GPU whose
\* metrics are listed, on the list of fields to sort by.
EnterRight ==
    /\ Key
    /\ \/ cursor.level = 0
       \/ cursor.level = 1 /\ Section(cursor) = "chart" /\ cursor.row >= AllGpuRow(toDraw)
       \/ cursor.level = 1 /\ Section(cursor) = "process" /\ cursor.row = SortBy
    /\ UNCHANGED <<vars, chart, values, changes>>
    /\ Redraw(KEY_RIGHT(cursor), FALSE)

Toggled(set, x) == IF x \in set THEN set \ {x} ELSE set \cup {x}

EnterSwitch ==
    /\ LastChange /\ cursor.level = 1 /\ cursor.row \in DOMAIN Switches[Section(cursor)]
    /\ switched' = Toggled(switched, Switches[Section(cursor)][cursor.row])
    /\ UNCHANGED <<vars, chart, fields, interval, timer, colour>>
    /\ Redraw(cursor, FALSE)

\* Off, or half a minute
EnterTimer ==
    /\ LastChange /\ cursor.level = 1 /\ Section(cursor) = "header" /\ cursor.row = EncDecTimer
    /\ timer' = IF timer > 0 THEN 0 ELSE 6
    /\ UNCHANGED <<vars, chart, fields, switched, interval, colour>>
    /\ Redraw(cursor, FALSE)

\* The next colour of a slot; a slot behind the last one is written all the
\* same.
EnterColour ==
    /\ LastChange /\ cursor.level = 1 /\ Section(cursor) = "chart"
    /\ cursor.row \in 1 .. AllGpuRow(toDraw) - 1
    /\ LET slot == cursor.row - 1 IN
       /\ colour' = IF slot \in Line THEN [colour EXCEPT ![slot] = (@ + 1) % NumColour] ELSE colour
       /\ UNCHANGED <<vars, chart, fields, switched, interval, timer>>
       /\ Redraw(cursor, slot \notin Line)

\* Fault: the list of GPUs is taken to start at the row for all of them.
EnterMetricRowOff ==
    /\ Change /\ cursor.level = 2 /\ Section(cursor) = "chart"
    /\ IF cursor.row = AllGpuRow(toDraw)
       THEN ToggleChartAll(cursor.item)
       ELSE ToggleChart(cursor.row - AllGpuRow(toDraw) + 1, cursor.item)
    /\ UNCHANGED values
    /\ Redraw(cursor, FALSE)

EnterMetric ==
    /\ Change /\ cursor.level = 2 /\ Section(cursor) = "chart"
    /\ IF cursor.row = AllGpuRow(toDraw)
       THEN ToggleChartAll(cursor.item)
       ELSE ToggleChart(cursor.row - AllGpuRow(toDraw), cursor.item)
    /\ UNCHANGED values
    /\ Redraw(cursor, FALSE)

\* A displayed field; on the sort list it becomes the sort field.
EnterField ==
    /\ Change /\ cursor.level = 2 /\ Section(cursor) = "process"
    /\ fields' = IF cursor.row = Display THEN Toggled(fields, cursor.item) ELSE fields
    /\ UNCHANGED <<vars, chart, switched, interval, timer, colour>>
    /\ Redraw(cursor, FALSE)

EnterGpu ==
    /\ Change /\ cursor.level = 1 /\ Section(cursor) = "gpus"
    /\ ToggleMonitored(cursor.row + 1)
    /\ UNCHANGED <<chart, values>>
    /\ Redraw(cursor, FALSE)

\* The cursor is forgotten here: the next show_setup_window sets it anew.
Close ==
    /\ ~ended /\ CloseSetup
    /\ cursor' = Top
    /\ UNCHANGED <<chart, values, ended, changes>>

-----------------------------------------------------------------------------
\* The drivers give a value for every metric, or for the first one only.
Validities == {Gpu \X Metric, Gpu \X {0}}

\* The rest of the main loop.
MainLoop ==
    /\ ~ended
    /\ Loops \/ Reinitialize \/ \E valid \in Validities : SaveCurrentData(valid)
    /\ UNCHANGED <<cursor, values, ended, changes>>

\* The options are those of the configuration file: all fields displayed, the
\* smallest interval and a timer one step above its end.
SetupInit ==
    /\ ChartInit
    /\ cursor = Top
    /\ fields = Field
    /\ switched = {}
    /\ interval = 1 /\ timer = 1
    /\ colour = [s \in Line |-> 0]
    /\ ended = FALSE /\ changes = 0

SetupNext ==
    \/ show_setup_window \/ Close \/ Arrow
    \/ \E by \in {-1, 1} : ChangeInterval(by) \/ ChangeTimer(by)
    \/ EnterRight \/ EnterSwitch \/ EnterTimer \/ EnterColour \/ EnterMetric \/ EnterField
    \/ EnterGpu
    \/ MainLoop

SetupSpec == SetupInit /\ [][SetupNext]_setupVars

-----------------------------------------------------------------------------
(* Properties                                                              *)

LastRow ==
    [general |-> 2, header |-> 2, chart |-> AllGpuRow(toDraw) + Len(hist),
     process |-> Display, gpus |-> NumDevices - 1]
LastItem ==
    CASE Section(cursor) = "chart"                             -> NumMetric - 1
      [] Section(cursor) = "process" /\ cursor.row = SortBy    -> Cardinality(fields) - 1
      [] Section(cursor) = "process" /\ cursor.row = Display   -> NumField - 1
      [] OTHER                                                 -> -1

\* Whatever was switched before, and however often Down was pressed, the next
\* Enter finds the cursor on an entry there is: the row numbers index the
\* options of the GPUs, the metrics and the fields without another check.
CursorOnEntry ==
    /\ SetupTypeOK
    /\ Key /\ cursor.level > 0 => cursor.row \in 0 .. LastRow[Section(cursor)]
    /\ Key /\ cursor.level = 2 => cursor.item \in 0 .. LastItem

\* The GPUs named on the highlighted row: in the charts section by their
\* place in the monitored list, in the list of GPUs by the options entry
Highlighted ==
    CASE Section(cursor) = "chart" /\ cursor.row = AllGpuRow(toDraw) -> Members(monitored)
      [] Section(cursor) = "chart" /\ cursor.row > AllGpuRow(toDraw) ->
            {monitored[cursor.row - AllGpuRow(toDraw)]}
      [] Section(cursor) = "gpus" /\ cursor.level = 1 -> {opts[cursor.row + 1].gpu}
      [] OTHER -> {}

Excluded == {opts[k].gpu : k \in {i \in 1 .. NumDevices : opts[i].doNotMonitor}}

\* A key changes the options of no other GPU than the one whose name is
\* highlighted, although drawing goes through the list of devices and the key
\* through the array of options, in rows that move when a metric is switched.
KeysActOnHighlighted ==
    [][setupVisible =>
          /\ toDraw' # toDraw => \A g \in Gpu \ Highlighted : toDraw'[g] = toDraw[g]
          /\ opts' # opts => Excluded \ Highlighted = Excluded' \ Highlighted]_setupVars

\* The setup window is safe to use as long as the first monitored GPU draws
\* every metric that any other does: then each row of colours has a label and
\* a slot ("Dynamic color rows - one per active plot slot").
DefinedWhileAlike ==
    [][ended' => \E p \in DOMAIN hist :
                    ~(toDraw'[opts[p].gpu] \subseteq toDraw'[opts[1].gpu])]_setupVars
=============================================================================
