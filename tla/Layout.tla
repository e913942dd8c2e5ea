------------------------------- MODULE Layout -------------------------------
(***************************************************************************)
(* How the screen is shared out (compute_sizes_from_layout): a header per  *)
(* monitored device, the charts under the headers, in stacks, and the      *)
(* process list at the bottom.  It runs at start, at every change of the   *)
(* terminal's size and whenever the setup window closes.                   *)
(*                                                                         *)
(* A chart starts as one device's.  Charts are put side by side until a    *)
(* stack is full; when there is no row left for another stack, two         *)
(* neighbours are merged and the search starts again.  Once a              *)
(* configuration is found the charts are renumbered, left-over rows are    *)
(* turned into more stacks, charts move down to balance the stacks, and    *)
(* the windows are cut out.  Each of these is a step here, one per pass of *)
(* the code's loops.                                                       *)
(*                                                                         *)
(* Devices, charts and stacks are numbered from 0, as in the code.         *)
(***************************************************************************)
EXTENDS Integers, Sequences, FiniteSets, FiniteSetsExt

CONSTANTS
    MaxDevices,     \* bound: monitored devices, at most MAX_CHARTS
    MaxLines,       \* MAX_LINES_PER_PLOT
    Rows, Cols,     \* bound: the terminal sizes tried (rows without the last)
    HeaderRows,     \* device_header_rows
    HeaderCols,     \* device_length()
    UintMod         \* 2 ^ the width of unsigned

\* The size of the arrays of charts, which the code does not compare with the
\* number of devices.
MAX_CHARTS == 64

ASSUME LayoutAssumption ==
    /\ MaxDevices \in Nat \ {0} /\ MaxDevices <= MAX_CHARTS /\ MaxLines \in Nat \ {0}
    /\ Rows \subseteq Nat \ {0} /\ Cols \subseteq Nat \ {0}
    /\ HeaderRows \in Nat \ {0} /\ HeaderCols \in Nat \ {0}
    /\ UintMod \in Nat \ {0} /\ \A s \in Rows \cup Cols : s < UintMod

cols_needed_box_drawing == 5
min_plot_rows == 7

VARIABLES
    in,         \* the arguments: draw counts, rows, cols, fields, hide
    pc,         \* the step to take next
    info,       \* num_info_per_plot
    map,        \* map_device_to_plot
    stackOf,    \* plot_in_stack, of the charts placed
    stacks,     \* num_plot_stacks
    share,      \* rows_for_header, rows_for_process, rows_for_plots, and
                \* space_between_header_stack
    mover,      \* moving_plot_id
    win         \* the positions computed

layoutVars == <<in, pc, info, map, stackOf, stacks, share, mover, win>>

\* Unsigned subtraction, addition being exact for the sizes of a terminal.
Minus(a, b) == (a - b) % UintMod

N == Len(in.draw)
Devices == 0 .. N - 1
Draw(d) == in.draw[d + 1]
Plots == DOMAIN stackOf
num_plots == Cardinality(Plots)

\* The sum of f over the numbers below n, in a loop.
Total(f, n) ==
    LET sum[k \in 0 .. n] == IF k = 0 THEN 0 ELSE sum[k - 1] + f[k - 1]
    IN  sum[n]

Input ==
    [draw : UNION {[1 .. n -> 0 .. MaxLines] : n \in 1 .. MaxDevices},
     rows : Rows, cols : Cols, fields : BOOLEAN, hide : BOOLEAN]

Window == [x : Nat, y : Nat, w : Nat, h : Nat]
NoWindows == [device |-> <<>>, plot |-> <<>>, process |-> <<>>, setup |-> <<>>]

\* Every index stays inside its array, and no unsigned size wraps around.
LayoutTypeOK ==
    /\ in \in Input
    /\ pc \in {"start", "place", "spread", "balance", "cut", "done"}
    /\ info \in [Devices -> 0 .. N * MaxLines]
    /\ map \in [Devices -> Devices]
    /\ \E k \in 0 .. N : stackOf \in [0 .. k - 1 -> 0 .. stacks - 1]
    /\ stacks \in 0 .. N
    /\ share \in [header : 0 .. in.rows, process : 0 .. in.rows,
                  plots : 0 .. in.rows, spaced : BOOLEAN]
    /\ mover \in Nat
    /\ pc = "done" =>
        /\ DOMAIN win.device = Devices /\ DOMAIN win.plot = Plots
        /\ \A k \in Plots : win.plot[k] \in Window
        /\ win.process \in Window /\ win.setup \in Window

-----------------------------------------------------------------------------
(* Rows for the headers, the process list and the charts                   *)

min_rows_taken_by_process == 1 + Max({5, Min({in.rows \div 4, N * 3})})
min_plot_cols(lines) == cols_needed_box_drawing + 10 * lines

PerRowAtMost == Max({1, in.cols \div HeaderCols})
header_stacks ==
    Max({1, N \div PerRowAtMost + (IF N % PerRowAtMost > 0 THEN 1 ELSE 0)})
num_device_per_row ==
    IF N % header_stacks = 0 THEN N \div header_stacks ELSE PerRowAtMost

\* The rows before the charts are placed.
FirstShare ==
    LET header == header_stacks * HeaderRows
        wanted == IF in.fields THEN min_rows_taken_by_process ELSE 0
        short == in.rows < header + wanted
        shrink == short /\ in.rows >= header + 2 /\ in.fields
        headerRows == IF short /\ ~shrink THEN in.rows ELSE header
        processRows == IF in.hide \/ (short /\ ~shrink) THEN 0
                       ELSE IF shrink THEN in.rows - header ELSE wanted
    IN  [header |-> headerRows, process |-> processRows,
         plots |-> in.rows - headerRows - processRows, spaced |-> FALSE]

-----------------------------------------------------------------------------
(* Placing the charts                                                      *)

\* Fault: the columns the stack has already given out are forgotten.
PlaceOneIgnoresUsed(pass, k) ==
    IF pass.out # "ok" \/ info[k] = 0 THEN pass
    ELSE IF in.cols >= min_plot_cols(info[k]) THEN [pass EXCEPT !.at = Append(@, pass.stacks - 1)]
    ELSE [pass EXCEPT !.out = "abort"]

\* One chart of a pass.  A chart that does not fit beside the others opens a
\* stack; "abort": it is wider than the screen; "merge": no row for a stack.
PlaceOne(pass, k) ==
    LET lines == info[k]
        cols == min_plot_cols(lines)
    IN  IF pass.out # "ok" \/ lines = 0 THEN pass
        ELSE IF in.cols >= cols + pass.used
             THEN [pass EXCEPT !.used = @ + cols,
                               !.at = Append(@, pass.stacks - 1)]
        ELSE IF pass.used = 0 \/ (pass.left >= min_plot_rows /\ in.cols < cols)
             THEN [pass EXCEPT !.out = "abort"]
        ELSE IF pass.left >= min_plot_rows
             THEN [pass EXCEPT !.left = @ - min_plot_rows, !.used = cols,
                               !.stacks = @ + 1, !.at = Append(@, pass.stacks)]
        ELSE [pass EXCEPT !.out = "merge"]

\* One turn of the search loop, over the devices in order.
Pass ==
    LET first == [out |-> "ok", stacks |-> 1, used |-> 0, at |-> <<>>,
                  left |-> share.plots - min_plot_rows]
        pass[k \in 0 .. N] == IF k = 0 THEN first ELSE PlaceOne(pass[k - 1], k - 1)
    IN  pass[N]

\* Chart j is the closest chart before i that has lines.
Neighbours(j, i) ==
    /\ j < i /\ info[j] > 0 /\ info[i] > 0
    /\ \A k \in j + 1 .. i - 1 : info[k] = 0

\* Fault: the result of a merge may have any number of lines.
MergeableAny == {p \in Devices \X Devices : Neighbours(p[1], p[2])}

\* Pairs that fit on one chart.
Mergeable ==
    {p \in Devices \X Devices : /\ Neighbours(p[1], p[2])
                              /\ info[p[1]] + info[p[2]] <= MaxLines}

\* The two charts with the fewest lines together, of those the last.
who_to_merge ==
    CHOOSE p \in Mergeable : \A q \in Mergeable :
        LET lp == info[p[1]] + info[p[2]]
            lq == info[q[1]] + info[q[2]]
        IN  lp < lq \/ (lp = lq /\ q[2] <= p[2])

\* Fault: the lines are not moved to the chart they are merged into.
MergeMapOnly(p) ==
    /\ UNCHANGED info
    /\ map' = [d \in Devices |-> IF map[d] = map[p[2]] THEN map[p[1]] ELSE map[d]]

Merge(p) ==
    /\ info' = [info EXCEPT ![p[1]] = @ + info[p[2]], ![p[2]] = 0]
    /\ map' = [d \in Devices |-> IF map[d] = map[p[2]] THEN map[p[1]] ELSE map[d]]

\* The number of a chart once the empty ones are moved over.
Renumbered(k) == Cardinality({j \in 0 .. k - 1 : info[j] > 0})

\* A device that draws nothing keeps its own number, even if a chart moved there.
Compact ==
    map' = [d \in Devices |-> IF info[map[d]] > 0 THEN Renumbered(map[d]) ELSE map[d]]

\* The entry of the function: the rows, and one chart per device.
Start ==
    /\ pc = "start"
    /\ share' = FirstShare
    /\ info' = [d \in Devices |-> Draw(d)]
    /\ map' = [d \in Devices |-> d]
    /\ pc' = "place"
    /\ UNCHANGED <<in, stackOf, stacks, mover, win>>

NoPlots ==
    /\ stackOf' = [k \in {} |-> 0] /\ stacks' = 0
    /\ pc' = "spread"
    /\ UNCHANGED <<info, map>>

\* One turn of the loop of preliminary_plot_positioning.
Place ==
    /\ pc = "place"
    /\ IF (\E d \in Devices : info[d] > 0) /\ share.plots >= min_plot_rows
       THEN LET pass == Pass IN
            \/ /\ pass.out = "ok"
               /\ Compact
               /\ stackOf' = [k \in 0 .. Len(pass.at) - 1 |-> pass.at[k + 1]]
               /\ stacks' = pass.stacks
               /\ pc' = "spread"
               /\ UNCHANGED info
            \/ /\ pass.out = "merge" /\ Mergeable # {}
               /\ Merge(who_to_merge)
               /\ UNCHANGED <<pc, stackOf, stacks>>
            \/ /\ pass.out = "abort" \/ (pass.out = "merge" /\ Mergeable = {})
               /\ NoPlots
       ELSE NoPlots
    /\ UNCHANGED <<in, share, mover, win>>

-----------------------------------------------------------------------------
(* Spreading the charts over the stacks                                    *)

\* info_in_plot
InfoInPlot(p) == Total([d \in Devices |-> IF map[d] = p THEN Draw(d) ELSE 0], N)

\* Fault: the number of charts does not bound the stacks.
MoreStacksUncapped(rows) ==
    Max({stacks} \cup {s \in stacks + 1 .. rows :
                          rows \div s >= 11 /\ s * min_plot_rows <= rows})

\* Stacks added while they are at least 11 rows high and there are charts for them.
MoreStacks(rows) ==
    Max({stacks} \cup {s \in stacks + 1 .. num_plots :
                          rows \div s >= 11 /\ s * min_plot_rows <= rows})

\* Rows to separate the headers, then more stacks, then the lines of each chart.
Spread ==
    /\ pc = "spread"
    /\ LET space == header_stacks - 1
           spaced == share.plots - stacks * min_plot_rows >= space
           rows == IF spaced THEN share.plots - space ELSE share.plots
       IN  /\ share' = [share EXCEPT !.header = IF spaced THEN @ + space ELSE @,
                                     !.plots = rows, !.spaced = spaced]
           /\ stacks' = IF stacks = 0 THEN 0 ELSE MoreStacks(rows)
    /\ info' = [k \in Devices |-> IF k \in Plots THEN InfoInPlot(k) ELSE 0]
    /\ mover' = num_plots
    /\ pc' = "balance"
    /\ UNCHANGED <<in, map, stackOf, win>>

ColsAt(at, s) ==
    Total([p \in Plots |-> IF at[p] = s THEN min_plot_cols(info[p]) ELSE 0], num_plots)

AbsDiff(a, b) == IF a > b THEN a - b ELSE b - a

\* size_differences_between_stacks
Differences(at, count) ==
    LET diff(s, t) == IF s < t THEN AbsDiff(ColsAt(at, s), ColsAt(at, t)) ELSE 0
    IN  Total([s \in 0 .. count - 1 |-> Total([t \in 0 .. count - 1 |-> diff(s, t)], count)], count)

\* move_plot_to_stack, kept if the stacks are not less balanced than before.
Moves(p) ==
    LET count == Min({stacks, num_plots})
        at == [stackOf EXCEPT ![p] = @ + 1]
    IN  /\ stackOf[p] + 1 < count
        /\ ColsAt(stackOf, stackOf[p] + 1) + min_plot_cols(info[p]) <= in.cols
        /\ Differences(at, count) <= Differences(stackOf, count)

\* One turn of the loop of balance_info_on_stacks_preserving_plot_order, which
\* starts again from the last chart after a move.
Balance ==
    /\ pc = "balance"
    /\ IF mover > 0
       THEN LET p == mover - 1 IN
            /\ IF Moves(p)
               THEN stackOf' = [stackOf EXCEPT ![p] = @ + 1] /\ mover' = num_plots
               ELSE mover' = p /\ UNCHANGED stackOf
            /\ UNCHANGED pc
       ELSE pc' = "cut" /\ UNCHANGED <<stackOf, mover>>
    /\ UNCHANGED <<in, info, map, stacks, share, win>>

-----------------------------------------------------------------------------
(* Cutting out the windows                                                 *)

DeviceWindow(d) ==
    LET left == Minus(in.cols, num_device_per_row * HeaderCols)
        between == IF left > num_device_per_row THEN 1 ELSE 0
        rest == IF between = 1 THEN left - (num_device_per_row - 1) ELSE left
        before == IF rest > 0 THEN 1 ELSE 0
    IN  [x |-> before + (d % num_device_per_row) * (HeaderCols + between),
         y |-> (d \div num_device_per_row)
                   * (HeaderRows + IF share.spaced THEN 1 ELSE 0),
         w |-> HeaderCols, h |-> HeaderRows]

rows_per_stack ==
    LET rows == share.plots \div stacks
    IN  IF ~in.hide /\ rows > 23 THEN 23 ELSE rows

\* max_plot_cols: the columns a chart is given, in proportion to its lines.
MaxPlotCols(p) ==
    LET beside == [q \in Plots |-> IF stackOf[q] = stackOf[p] THEN 1 ELSE 0]
        lines == [q \in Plots |-> beside[q] * info[q]]
        forLines == Minus(in.cols, Total(beside, num_plots) * cols_needed_box_drawing)
    IN  cols_needed_box_drawing + (forLines * info[p]) \div Total(lines, num_plots)

\* The window cut for chart p: a whole number of columns per line.
CutFor(p) ==
    LET cols == MaxPlotCols(p)
        before == [q \in Plots |-> IF stackOf[q] = stackOf[p] THEN MaxPlotCols(q) ELSE 0]
    IN  [x |-> Total(before, p),
         y |-> share.header + stackOf[p] * rows_per_stack,
         w |-> cols - ((cols - cols_needed_box_drawing) % info[p]),
         h |-> rows_per_stack]

\* Charts are cut stack by stack, and the k-th window cut goes to chart k
\* (plot_positions is indexed by num_plot_done).
CutOrder(k) ==
    CHOOSE p \in Plots :
        k = Cardinality({q \in Plots : \/ stackOf[q] < stackOf[p]
                                       \/ stackOf[q] = stackOf[p] /\ q < p})

\* Fault: the rows the charts leave are given out whether or not a field is shown.
ProcessWindowOver ==
    [x |-> 0, y |-> in.rows - share.process - share.plots, w |-> in.cols,
     h |-> share.process + share.plots]

ProcessWindow ==
    LET spare == CASE in.fields /\ Plots # {} -> share.plots - rows_per_stack * stacks
                   [] in.fields /\ Plots = {} /\ share.plots > 0 -> share.plots - 1
                   [] OTHER -> 0
    IN  [x |-> 0, y |-> in.rows - share.process - spare, w |-> in.cols,
         h |-> share.process + spare]

Cut ==
    /\ pc = "cut"
    /\ win' = [device |-> [d \in Devices |-> DeviceWindow(d)],
               plot |-> [k \in Plots |-> CutFor(CutOrder(k))],
               process |-> ProcessWindow,
               setup |-> [x |-> 0, y |-> share.header,
                          w |-> in.cols, h |-> in.rows - share.header]]
    /\ pc' = "done"
    /\ UNCHANGED <<in, info, map, stackOf, stacks, share, mover>>

-----------------------------------------------------------------------------
(* The terminal and the options change                                     *)

Restart(i) ==
    /\ in' = i
    /\ pc' = "start"
    /\ info' = [d \in 0 .. Len(i.draw) - 1 |-> 0]
    /\ map' = [d \in 0 .. Len(i.draw) - 1 |-> d]
    /\ stackOf' = [k \in {} |-> 0] /\ stacks' = 0 /\ mover' = 0
    /\ share' = [header |-> 0, process |-> 0, plots |-> 0, spaced |-> FALSE]
    /\ win' = NoWindows

\* update_window_size_to_terminal_size after a change of the terminal's size.
Resize ==
    /\ pc = "done"
    /\ \/ \E r \in Rows : Restart([in EXCEPT !.rows = r])
       \/ \E c \in Cols : Restart([in EXCEPT !.cols = c])

\* The same when the setup window, where all of these options are chosen,
\* closes.
ChangeOptions ==
    /\ pc = "done"
    /\ \/ \E d \in 1 .. N, k \in 0 .. MaxLines : Restart([in EXCEPT !.draw[d] = k])
       \/ \E b \in BOOLEAN : Restart([in EXCEPT !.fields = b])
       \/ Restart([in EXCEPT !.hide = ~@])

LayoutInit ==
    /\ in \in Input
    /\ pc = "start"
    /\ info = [d \in Devices |-> 0] /\ map = [d \in Devices |-> d]
    /\ stackOf = [k \in {} |-> 0] /\ stacks = 0 /\ mover = 0
    /\ share = [header |-> 0, process |-> 0, plots |-> 0, spaced |-> FALSE]
    /\ win = NoWindows

Compute == Start \/ Place \/ Spread \/ Balance \/ Cut
LayoutNext == Compute \/ Resize \/ ChangeOptions

\* The function runs to its end: nothing else runs meanwhile.
LayoutSpec == LayoutInit /\ [][LayoutNext]_layoutVars /\ WF_layoutVars(Compute)

-----------------------------------------------------------------------------
(* Properties                                                              *)

Done == pc = "done"

\* Merging and renumbering (preliminary_plot_positioning) lose no line and keep
\* the devices in order: if charts are shown at all, every device that draws
\* something is on one of them, a later device never on an earlier chart, and
\* a chart has exactly the lines of its devices, at least one and at most
\* MAX_LINES_PER_PLOT (plot.c asserts it).
ChartsHoldEveryLine ==
    (Done /\ Plots # {}) =>
        /\ \A p \in Plots : info[p] \in 1 .. MaxLines /\ info[p] = InfoInPlot(p)
        /\ \A d \in Devices : Draw(d) > 0 => map[d] \in Plots
        /\ \A d, e \in Devices :
              (d < e /\ Draw(d) > 0 /\ Draw(e) > 0) => map[d] <= map[e]

\* Two windows share a cell of the screen.
Overlap(v, w) ==
    /\ v.x < w.x + w.w /\ w.x < v.x + v.w
    /\ v.y < w.y + w.h /\ w.y < v.y + v.h

Below(v, w) == v.y >= w.y + w.h

\* What check_layout of the repository's tests asks for the default metrics, for
\* every choice of metrics, of fields and of a hidden list: the charts lie below
\* the headers, inside the screen, above the process list, and none of them or
\* of the headers overlaps another.
WindowsDisjoint ==
    Done =>
        /\ \A d, e \in Devices : d # e => ~Overlap(win.device[d], win.device[e])
        /\ \A k \in Plots :
              /\ win.plot[k].x + win.plot[k].w <= in.cols
              /\ win.plot[k].y + win.plot[k].h <= in.rows
              /\ win.plot[k].w > 0 /\ win.plot[k].h > 0
              /\ \A d \in Devices : Below(win.plot[k], win.device[d])
              /\ Below(win.process, win.plot[k])
              /\ \A j \in Plots : j # k => ~Overlap(win.plot[j], win.plot[k])
        /\ win.process.y + win.process.h <= in.rows

\* However charts are merged, spread and moved between the stacks, the window
\* cut for a chart has the columns min_plot_cols asks for its lines and the rows
\* min_plot_rows asks.
ChartsBigEnough ==
    Done => \A k \in Plots :
        /\ win.plot[k].w >= min_plot_cols(info[CutOrder(k)])
        /\ win.plot[k].h >= min_plot_rows

\* The search for a configuration and the balancing end (the test FixInfiniteLoop).
LayoutEnds == (pc = "start") ~> Done

\* populate_plot_data_from_ring_buffer asserts that the columns of a chart's
\* window are a multiple of the lines it draws; the window is the one at the
\* chart's number.
ColumnsPerLineWhole ==
    Done => \A k \in Plots :
        (win.plot[k].w - cols_needed_box_drawing) % info[k] = 0
====
