---------------------------- MODULE ProcessPane ----------------------------
(***************************************************************************)
(* The process list of the screen with its cursor, and the menus for       *)
(* sending a signal (F9) and for sorting (F6): draw_processes,             *)
(* interface_key and update_window_size_to_terminal_size of                *)
(* src/interface.c, the part of handle_setup_win_keypress that concerns    *)
(* the list, and the order in which the main loop calls them.              *)
(*                                                                         *)
(* One pass of the main loop is two steps: Iterate refreshes and draws,    *)
(* then one key (or a timeout) is handled.  While the signal menu is open  *)
(* the processes are not refreshed (interface_freeze_processes), so that   *)
(* the signal goes to the process the user chose.                          *)
(*                                                                         *)
(* A row of the list is named by its pid; a process that uses several GPUs *)
(* has several rows.  Rank[f][p] is the value of field f for the process   *)
(* p; the sideways scrolling of the text (offset_column) is left out.      *)
(***************************************************************************)
EXTENDS Integers, Sequences, FiniteSets, TLC

CONSTANTS
    Pid, NvtopPid, NoPid,
    NumField,       \* process_field_count
    Rank,           \* Rank[f][p]: the value of a field for a process
    DefaultFields,  \* process_default_displayed_field()
    Preference,     \* the order in which process_default_sort_by_from tries fields
    NumSignals,     \* nvtop_num_signals
    WinRows,        \* rows of the list and of the menu
    Digit,          \* the digit keys that are pressed
    MaxProcs,       \* bound: rows of the list
    MaxRow          \* bound: rows a cursor that is not drawn can go down

Field == 0 .. NumField - 1

ASSUME PaneAssumption ==
    /\ NvtopPid \in Pid /\ NoPid \notin Pid
    /\ NumField \in Nat \ {0} /\ WinRows \in Nat \ {0}
    /\ MaxProcs \in Nat /\ MaxRow \in Nat /\ MaxRow > MaxProcs
    /\ NumSignals \in Nat \ {0} /\ MaxRow > NumSignals
    /\ Digit \subseteq 0 .. 9 /\ \A d \in Digit : d <= NumSignals
    /\ Rank \in [Field -> [Pid -> Nat]]
    /\ DefaultFields \in (SUBSET Field) \ {{}}
    /\ Preference \in [Field -> Nat]
    /\ \A f, g \in Field : Preference[f] = Preference[g] => f = g

VARIABLES
    procs,          \* the processes of the monitored GPUs, in the order listed
    turn,           \* "loop": refresh and draw are next, "key": a key is read
    opt,            \* options: hide, filter, desc, sortBy, fields
    room,           \* the layout has room for the list (process_win # NULL)
    setup,          \* setup_win.visible
    sel,            \* process: selected_row, selected_pid, offset
    menu,           \* process.option_window
    opened,         \* the pid selected when the signal menu was opened, and
                    \* whether the sort order was changed since (history)
    sent            \* the signal sent by the last key, and opened (history)

vars == <<procs, turn, opt, room, setup, sel, menu, opened, sent>>

NoSignal == [pid |-> NoPid, row |-> 0, chosen |-> NoPid, resorted |-> FALSE]
Lists == UNION {[1 .. n -> Pid] : n \in 0 .. MaxProcs}
Options == [hide : BOOLEAN, filter : BOOLEAN, desc : BOOLEAN,
            sortBy : Field \cup {NumField}, fields : SUBSET Field]

\* The cursors and the menu stay within their bounds.
TypeOK ==
    /\ procs \in Lists
    /\ turn \in {"loop", "key"}
    /\ opt \in Options
    /\ room \in BOOLEAN /\ setup \in BOOLEAN
    /\ sel \in [row : 0 .. MaxRow, pid : Pid \cup {NoPid}, offset : 0 .. MaxProcs]
    /\ menu \in [state : {"hidden", "kill", "sort_by"}, row : 0 .. MaxRow,
                 offset : 0 .. MaxRow, lastNum : BOOLEAN, number : 0 .. NumSignals]
    /\ opened \in [pid : Pid \cup {NoPid}, resorted : BOOLEAN]
    /\ sent \in [pid : Pid \cup {NoPid}, row : 0 .. MaxRow,
                 chosen : Pid \cup {NoPid}, resorted : BOOLEAN]

\* alloc_process_with_option
NewSel == [row |-> 0, pid |-> NoPid, offset |-> 0]
NewMenu == [state |-> "hidden", row |-> 0, offset |-> 0, lastNum |-> FALSE, number |-> 0]
NotOpened == [pid |-> NoPid, resorted |-> FALSE]

\* process_default_sort_by_from; process_field_count if nothing is displayed
DefaultSortBy(fields) ==
    IF fields = {} THEN NumField
    ELSE CHOOSE f \in fields : \A g \in fields : Preference[f] <= Preference[g]

\* The fields displayed and the sort field when the options have been read
\* (load_interface_options_from_config_file, then main).  A file that names
\* fields: the sort field is one of them.  A file that names none: the sort
\* field is corrected before main puts the default fields in their place.
\* No file: the defaults of alloc_interface_options_internals.
LoadedFields ==
    {l \in [fields : SUBSET Field, sortBy : Field] : l.sortBy \in l.fields}
        \cup {[fields |-> fs, sortBy |-> DefaultSortBy({})] : fs \in {{}, DefaultFields}}

Init ==
    /\ procs = <<>>
    /\ turn = "loop"
    /\ \E hide, filter, desc \in BOOLEAN, loaded \in LoadedFields :
          opt = [hide |-> hide, filter |-> filter, desc |-> desc,
                 sortBy |-> loaded.sortBy, fields |-> loaded.fields]
    /\ room \in BOOLEAN
    /\ setup = FALSE
    /\ sel = NewSel /\ menu = NewMenu
    /\ opened = NotOpened /\ sent = NoSignal

-----------------------------------------------------------------------------
(* The rows on the screen                                                  *)

Min2(a, b) == IF a < b THEN a ELSE b
Max2(a, b) == IF a > b THEN a ELSE b

\* filter_out_nvtop_pid: the first row of nvtop
FilterOutNvtop(list, o) ==
    IF o.filter /\ \E k \in DOMAIN list : list[k] = NvtopPid
    THEN LET first == CHOOSE k \in DOMAIN list :
                         list[k] = NvtopPid /\ \A i \in 1 .. k - 1 : list[i] # NvtopPid
         IN  [k \in 1 .. Len(list) - 1 |-> list[IF k < first THEN k ELSE k + 1]]
    ELSE list

\* What the comparison of the sort field and direction allows: as
\* compare_pid_desc and compare_pid_asc do.  That a process may lack a value,
\* and that the type is compared otherwise, is left out.
Before(p, q, o) ==
    IF o.desc THEN Rank[o.sortBy][p] >= Rank[o.sortBy][q]
              ELSE Rank[o.sortBy][p] <= Rank[o.sortBy][q]

Orders(n) == {order \in [1 .. n -> 1 .. n] :
                 \A i, k \in 1 .. n : order[i] = order[k] => i = k}

IsSorted(list, o) == \A i, k \in DOMAIN list : i < k => Before(list[i], list[k], o)

Reordered(list, order) == [k \in DOMAIN list |-> list[order[k]]]

\* sort_process.  Of rows with equal values qsort makes some order, always the
\* same one for the same list.
SortProcess(list, o) ==
    IF o.sortBy = NumField THEN list
    ELSE Reordered(list, CHOOSE order \in Orders(Len(list)) : IsSorted(Reordered(list, order), o))

Shown(list, o) == SortProcess(FilterOutNvtop(list, o), o)

\* Fault: a cursor below the window scrolls one row too few.
UpdateSelectedOffsetShort(row, offset, rows, num) ==
    IF num = 0 THEN <<row, offset>>
    ELSE LET r  == Min2(row, num - 1)
             o1 == Min2(offset, r)
             o2 == IF o1 + rows - 1 < r THEN r - rows ELSE o1
         IN  <<r, Min2(o2, Max2(num - rows, 0))>>

\* update_selected_offset_with_window_size: <<selected_row, offset>>.  The
\* loop at its end takes the offset back while rows at the bottom are unused.
UpdateSelectedOffset(row, offset, rows, num) ==
    IF num = 0 THEN <<row, offset>>
    ELSE LET r  == Min2(row, num - 1)
             o1 == Min2(offset, r)
             o2 == IF o1 + rows - 1 < r THEN r - rows + 1 ELSE o1
         IN  <<r, Min2(o2, Max2(num - rows, 0))>>

\* draw_processes returns early when the list is not shown, and is not called
\* while the setup window is.
PaneDrawn == ~setup /\ ~opt.hide /\ room

\* update_process_option_win
NumOptions == IF menu.state = "kill" THEN NumSignals + 1 ELSE Cardinality(opt.fields) + 1

DrawMenu ==
    IF menu.state = "hidden" THEN menu
    ELSE LET u == UpdateSelectedOffset(menu.row, menu.offset, WinRows, NumOptions)
         IN  [menu EXCEPT !.row = u[1], !.offset = u[2]]

\* draw_processes and print_processes_on_screen
DrawSel(list) ==
    LET shown == Shown(list, opt)
        u     == UpdateSelectedOffset(sel.row, sel.offset, WinRows, Len(shown))
    IN  IF shown = <<>> THEN [sel EXCEPT !.row = 0, !.pid = NoPid]
        ELSE [row |-> u[1], pid |-> shown[u[1] + 1], offset |-> u[2]]

-----------------------------------------------------------------------------
(* The main loop                                                           *)

\* Fault: the processes are always refreshed.
RefreshIfDueNeverFrozen(list) == TRUE

\* interface_freeze_processes: with the signal menu open the list stays.
RefreshIfDue(list) == menu.state = "kill" => list = procs

\* Refresh, if it is time for it, and draw.
Iterate ==
    /\ turn = "loop"
    /\ \E list \in Lists :
          /\ RefreshIfDue(list)
          /\ procs' = list
          /\ IF PaneDrawn THEN sel' = DrawSel(list) /\ menu' = DrawMenu
             ELSE UNCHANGED <<sel, menu>>
    /\ turn' = "key"
    /\ sent' = NoSignal
    /\ UNCHANGED <<opt, room, setup, opened>>

\* update_window_size_to_terminal_size: the terminal was resized, the program
\* was continued, F5 or Ctrl-L.  The layout decides anew whether the list has
\* room; the setup window and the menus are closed.
UpdateWindowSize ==
    /\ room' \in BOOLEAN
    /\ setup' = FALSE
    /\ sel' = NewSel /\ menu' = NewMenu
    /\ opened' = NotOpened

Resize ==
    /\ turn = "key"
    /\ UpdateWindowSize
    /\ turn' = "loop"
    /\ UNCHANGED <<procs, opt, sent>>

\* getch times out, or an unknown key
Timeout ==
    /\ turn = "key"
    /\ turn' = "loop"
    /\ UNCHANGED <<procs, opt, room, setup, sel, menu, opened, sent>>

-----------------------------------------------------------------------------
(* interface_key                                                           *)

Key == turn = "key" /\ ~setup /\ turn' = "loop"
Same == UNCHANGED <<procs, room>>

\* F2.  last_key_was_number is written at the end of interface_key whatever
\* the key was.
KeySetup ==
    /\ Key /\ menu.state = "hidden"
    /\ setup' = TRUE
    /\ menu' = [menu EXCEPT !.lastNum = FALSE]
    /\ Same /\ UNCHANGED <<opt, sel, opened, sent>>

\* F9
KeyKill ==
    /\ Key /\ opt.fields # {} /\ menu.state = "hidden"
    /\ menu' = [menu EXCEPT !.state = "kill", !.row = 0, !.lastNum = FALSE, !.number = 0]
    /\ opened' = [pid |-> sel.pid, resorted |-> FALSE]
    /\ Same /\ UNCHANGED <<opt, setup, sel, sent>>

\* F6
KeySort ==
    /\ Key /\ opt.fields # {} /\ menu.state = "hidden"
    /\ menu' = [menu EXCEPT !.state = "sort_by", !.row = 0, !.lastNum = FALSE]
    /\ Same /\ UNCHANGED <<opt, setup, sel, opened, sent>>

\* The arrows move the cursor of the menu if one is open.
KeyUp ==
    /\ Key
    /\ menu' = [menu EXCEPT !.lastNum = FALSE,
                            !.row = IF menu.state # "hidden" /\ menu.row # 0 THEN @ - 1 ELSE @]
    /\ sel' = [sel EXCEPT !.row = IF menu.state = "hidden" /\ sel.row # 0 THEN @ - 1 ELSE @]
    /\ Same /\ UNCHANGED <<opt, setup, opened, sent>>

KeyDown ==
    /\ Key
    /\ sel.row < MaxRow /\ menu.row < MaxRow
    /\ menu' = [menu EXCEPT !.lastNum = FALSE,
                            !.row = IF menu.state # "hidden" THEN @ + 1 ELSE @]
    /\ sel' = [sel EXCEPT !.row = IF menu.state = "hidden" THEN @ + 1 ELSE @]
    /\ Same /\ UNCHANGED <<opt, setup, opened, sent>>

\* + and -, also in a menu
KeyOrder(desc) ==
    /\ Key
    /\ opt' = [opt EXCEPT !.desc = desc]
    /\ opened' = [opened EXCEPT !.resorted = @ \/ (menu.state = "kill" /\ desc # opt.desc)]
    /\ menu' = [menu EXCEPT !.lastNum = FALSE]
    /\ Same /\ UNCHANGED <<setup, sel, sent>>

\* The menu is closed.  Its row and number are written when a menu is opened
\* and not read before that, so they are forgotten here.
Closed == [menu EXCEPT !.state = "hidden", !.row = 0, !.number = 0, !.lastNum = FALSE]

\* Enter in the signal menu: option_do_kill
KeySend ==
    /\ Key /\ menu.state = "kill"
    /\ sent' = IF menu.row # 0 /\ sel.pid # NoPid
               THEN [pid |-> sel.pid, row |-> menu.row,
                     chosen |-> opened.pid, resorted |-> opened.resorted]
               ELSE NoSignal
    /\ menu' = Closed
    /\ opened' = NotOpened
    /\ Same /\ UNCHANGED <<opt, setup, sel>>

\* The displayed field with that many displayed ones before it, if any
FieldAt(fields, index) ==
    {f \in fields : Cardinality({g \in fields : g < f}) = index}

\* Enter in the sort menu: option_change_sort
KeySortChosen ==
    /\ Key /\ menu.state = "sort_by"
    /\ LET chosen == FieldAt(opt.fields, menu.row - 1)
       IN  opt' = IF chosen = {} THEN opt ELSE [opt EXCEPT !.sortBy = CHOOSE f \in chosen : TRUE]
    /\ menu' = Closed
    /\ Same /\ UNCHANGED <<setup, sel, opened, sent>>

\* Escape closes a menu (without one it ends the program).
KeyEscape ==
    /\ Key /\ menu.state # "hidden"
    /\ menu' = Closed
    /\ opened' = NotOpened
    /\ Same /\ UNCHANGED <<opt, setup, sel, sent>>

\* The number of a signal is typed.
KeyDigit(d) ==
    /\ Key
    /\ menu' = IF menu.state # "kill" THEN [menu EXCEPT !.lastNum = TRUE]
               ELSE LET both == menu.number * 10 + d
                        val  == IF menu.lastNum /\ both <= NumSignals THEN both ELSE d
                    IN  [menu EXCEPT !.row = val, !.number = val, !.lastNum = TRUE]
    /\ Same /\ UNCHANGED <<opt, setup, sel, opened, sent>>

-----------------------------------------------------------------------------
(* handle_setup_win_keypress: the options of the process list              *)

SetupKey == turn = "key" /\ setup /\ turn' = "loop"

SetupToggle(option) ==
    /\ SetupKey
    /\ opt' = [opt EXCEPT ![option] = ~opt[option]]
    /\ Same /\ UNCHANGED <<setup, sel, menu, opened, sent>>

SetupSortBy(f) ==
    /\ SetupKey /\ f \in opt.fields
    /\ opt' = [opt EXCEPT !.sortBy = f]
    /\ Same /\ UNCHANGED <<setup, sel, menu, opened, sent>>

\* Fault: the list stays sorted by a field that is no longer displayed.
SetupToggleFieldKeepSort(f) ==
    /\ SetupKey
    /\ opt' = [opt EXCEPT !.fields = IF f \in @ THEN @ \ {f} ELSE @ \cup {f}]
    /\ Same /\ UNCHANGED <<setup, sel, menu, opened, sent>>

SetupToggleField(f) ==
    /\ SetupKey
    /\ LET fields == IF f \in opt.fields THEN opt.fields \ {f} ELSE opt.fields \cup {f}
       IN  opt' = [opt EXCEPT !.fields = fields,
                              !.sortBy = IF @ \in fields THEN @ ELSE DefaultSortBy(fields)]
    /\ Same /\ UNCHANGED <<setup, sel, menu, opened, sent>>

SetupClose ==
    /\ SetupKey
    /\ UpdateWindowSize
    /\ UNCHANGED <<procs, opt, sent>>

Next ==
    \/ Iterate \/ Resize \/ Timeout
    \/ KeySetup \/ KeyKill \/ KeySort \/ KeyUp \/ KeyDown \/ KeySend \/ KeySortChosen \/ KeyEscape
    \/ \E desc \in BOOLEAN : KeyOrder(desc)
    \/ \E d \in Digit : KeyDigit(d)
    \/ \E option \in {"hide", "filter", "desc"} : SetupToggle(option)
    \/ \E f \in Field : SetupSortBy(f) \/ SetupToggleField(f)
    \/ SetupClose

Spec == Init /\ [][Next]_vars

-----------------------------------------------------------------------------
(* Properties                                                              *)

\* "Select a signal to send to the highlighted process": a signal goes to the
\* process that was highlighted when the menu was opened, although processes
\* come and go meanwhile (unless the user reversed the order in the menu), it
\* is one of the table, and nothing is sent while the list is not on screen.
SignalGoesToHighlighted ==
    sent # NoSignal =>
        /\ sent.pid = sent.chosen \/ sent.resorted
        /\ sent.row \in 1 .. NumSignals
        /\ PaneDrawn

\* The highlighted row and the highlighted menu entry are inside the window,
\* and no row is left empty while rows above it are scrolled out.  (And every
\* variable has its type.)
CursorVisible ==
    /\ TypeOK
    /\ turn = "key" /\ PaneDrawn =>
          /\ sel.pid # NoPid =>
                /\ sel.offset <= sel.row /\ sel.row < sel.offset + WinRows
                /\ sel.offset = 0 \/ sel.offset + WinRows <= Len(Shown(procs, opt))
          /\ menu.state # "hidden" => menu.offset <= menu.row /\ menu.row < menu.offset + WinRows

SortedByShown == opt.fields # {} => opt.sortBy \in opt.fields

\* "The current sort field is highlighted inside the header bar": no choice
\* made in a menu or in the setup window takes the sort field away from the
\* displayed ones, nor does showing a field when none was shown.
SortFieldKept == [][SortedByShown => SortedByShown']_vars
=============================================================================
