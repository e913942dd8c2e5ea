------------------------- MODULE ProcessPane_proofs -------------------------
(***************************************************************************)
(* The process list and its menus, for any processes in lists of any       *)
(* length, any fields and values, any number of signals and any height of  *)
(* the windows: a signal goes to the process that was chosen, the cursors  *)
(* are on the screen, the sort field stays a displayed one.                *)
(***************************************************************************)
EXTENDS ProcessPane, FiniteSetTheorems, WellFoundedInduction, TLAPS

-----------------------------------------------------------------------------
(* The inductive invariant                                                 *)

\* What is drawn: the highlighted pid is the one in the selected row.
Synced(list, o, s) ==
    LET shown == Shown(list, o)
    IN  IF shown = <<>> THEN s.pid = NoPid
        ELSE /\ s.row \in 0 .. Len(shown) - 1
             /\ s.pid = shown[s.row + 1]

\* A process is highlighted on the screen only, except behind the setup
\* window, which resets the cursor when it is closed.
HighlightInv == setup \/ sel.pid = NoPid \/ PaneDrawn

\* When a key is read everything was just drawn, and nothing was sent yet.
DrawnInv ==
    turn = "key" =>
        /\ sent = NoSignal
        /\ PaneDrawn => Synced(procs, opt, sel)
        /\ PaneDrawn /\ menu.state = "kill" => menu.row <= NumSignals

\* While the signal menu is open, the cursor stays on the process chosen.
ChosenInv ==
    menu.state = "kill" =>
        /\ ~setup
        /\ ~opened.resorted => sel.pid = opened.pid
        /\ ~opened.resorted /\ PaneDrawn => Synced(procs, opt, sel)

IInv == TypeOK /\ HighlightInv /\ DrawnInv /\ ChosenInv /\ SignalGoesToHighlighted

-----------------------------------------------------------------------------
(* The rows on the screen                                                  *)

\* A set of natural numbers has a least element: the order of the numbers is
\* well-founded.
LEMMA LeastElement ==
    ASSUME NEW T \in SUBSET Nat, T # {}
    PROVE  \E x \in T : \A y \in T : x <= y
<1> DEFINE Less == OpToRel(<, Nat)
<1>1. IsWellFoundedOn(Less, Nat)
  BY NatLessThanWellFounded
<1>2. \A x, y \in Nat : <<y, x>> \in Less <=> y < x
  BY DEF OpToRel
<1> HIDE DEF Less
<1>3. PICK x \in T : \A y \in T : <<y, x>> \notin Less
  BY <1>1, WFMin
<1>4. x \in Nat /\ \A y \in T : y \in Nat
  OBVIOUS
<1>5. \A y \in T : ~(y < x)
  BY <1>2, <1>3, <1>4
<1> QED BY <1>4, <1>5

\* The comparison of two processes: one may precede the other or the other
\* way round, and what precedes what precedes a third precedes it too.
LEMMA BeforeIsOrder ==
    ASSUME NEW o \in Options, o.sortBy # NumField
    PROVE  /\ \A p, q \in Pid : Before(p, q, o) \/ Before(q, p, o)
           /\ \A p, q, r \in Pid : Before(p, q, o) /\ Before(q, r, o) => Before(p, r, o)
<1>1. o.sortBy \in Field
  BY DEF Options
<1>2. \A p \in Pid : Rank[o.sortBy][p] \in Nat
  BY <1>1, PaneAssumption
<1> QED BY <1>2 DEF Before

\* An order of the first m - 1 rows that sorts them, and a place for the last
\* row between those that may precede it and those that may not, sort all.
InsertAt(order, j, m) ==
    [k \in 1 .. m |-> IF k < j THEN order[k] ELSE IF k = j THEN m ELSE order[k - 1]]

\* The row put in its place is there once, and so is every other.
LEMMA InsertionOrders ==
    ASSUME NEW m \in Nat \ {0}, NEW order \in Orders(m - 1), NEW j \in 1 .. m
    PROVE  InsertAt(order, j, m) \in Orders(m)
<1> DEFINE new == InsertAt(order, j, m)
<1>1. /\ \A k \in 1 .. m - 1 : order[k] \in 1 .. m - 1
      /\ \A i, k \in 1 .. m - 1 : order[i] = order[k] => i = k
  BY DEF Orders
<1>2. \A k \in 1 .. m : /\ k < j => k \in 1 .. m - 1 /\ new[k] = order[k]
                        /\ k = j => new[k] = m
                        /\ k > j => k - 1 \in 1 .. m - 1 /\ new[k] = order[k - 1]
  BY DEF InsertAt
<1>3. new \in [1 .. m -> 1 .. m]
  <2>1. \A k \in 1 .. m : new[k] \in 1 .. m
    BY <1>1, <1>2
  <2> QED BY <2>1 DEF InsertAt
<1> HIDE DEF new
<1>4. ASSUME NEW i \in 1 .. m, NEW k \in 1 .. m, new[i] = new[k], i < k PROVE FALSE
  <2>1. CASE k < j
    BY <1>1, <1>2, <1>4, <2>1
  <2>2. CASE k = j
    BY <1>1, <1>2, <1>4, <2>2
  <2>3. CASE k > j /\ i < j
    BY <1>1, <1>2, <1>4, <2>3
  <2>4. CASE k > j /\ i = j
    BY <1>1, <1>2, <1>4, <2>4
  <2>5. CASE k > j /\ i > j
    BY <1>1, <1>2, <1>4, <2>5
  <2> QED BY <2>1, <2>2, <2>3, <2>4, <2>5
<1>5. \A i, k \in 1 .. m : new[i] = new[k] => i = k
  BY <1>4
<1> QED BY <1>3, <1>5 DEF Orders, new

\* Sorting by insertion, from the order of the rows before the last one.
LEMMA InsertionSorts ==
    ASSUME NEW o \in Options, o.sortBy # NumField,
           NEW m \in Nat \ {0}, NEW list \in [1 .. m -> Pid],
           NEW order \in Orders(m - 1),
           \A i, k \in 1 .. m - 1 : i < k => Before(list[order[i]], list[order[k]], o)
    PROVE  \E new \in Orders(m) :
              \A i, k \in 1 .. m : i < k => Before(list[new[i]], list[new[k]], o)
<1>1. /\ \A p, q \in Pid : Before(p, q, o) \/ Before(q, p, o)
      /\ \A p, q, r \in Pid : Before(p, q, o) /\ Before(q, r, o) => Before(p, r, o)
  BY BeforeIsOrder
<1>2. \A k \in 1 .. m - 1 : order[k] \in 1 .. m - 1 /\ order[k] \in 1 .. m
  BY DEF Orders
<1> DEFINE places == {k \in 1 .. m : k = m \/ ~Before(list[order[k]], list[m], o)}
<1>3. PICK j \in places : \A k \in places : j <= k
  <2>1. places \in SUBSET Nat /\ m \in places
    OBVIOUS
  <2> HIDE DEF places
  <2> QED BY <2>1, LeastElement
<1>4. j \in 1 .. m /\ (j = m \/ ~Before(list[order[j]], list[m], o))
  BY <1>3
<1>5. \A k \in 1 .. m - 1 : k < j => Before(list[order[k]], list[m], o)
  BY <1>3, <1>4
<1>6. \A k \in 1 .. m - 1 : k >= j => Before(list[m], list[order[k]], o)
  <2> SUFFICES ASSUME NEW k \in 1 .. m - 1, k >= j PROVE Before(list[m], list[order[k]], o)
    OBVIOUS
  <2>1. j \in 1 .. m - 1 /\ list[m] \in Pid /\ list[order[j]] \in Pid /\ list[order[k]] \in Pid
    BY <1>2, <1>4
  <2>2. Before(list[m], list[order[j]], o)
    BY <1>1, <1>4, <2>1
  <2>3. j = k \/ Before(list[order[j]], list[order[k]], o)
    BY <2>1
  <2> QED BY <1>1, <2>1, <2>2, <2>3
<1> HIDE DEF places
<1> DEFINE new == InsertAt(order, j, m)
<1>7. \A k \in 1 .. m : /\ k < j => k \in 1 .. m - 1 /\ new[k] = order[k]
                        /\ k = j => new[k] = m
                        /\ k > j => k - 1 \in 1 .. m - 1 /\ k - 1 >= j /\ new[k] = order[k - 1]
  BY <1>4 DEF InsertAt
<1>8. new \in Orders(m)
  BY <1>4, InsertionOrders
<1> HIDE DEF new
<1>9. ASSUME NEW i \in 1 .. m, NEW k \in 1 .. m, i < k PROVE Before(list[new[i]], list[new[k]], o)
  <2>1. CASE k < j
    <3>1. i < j
      BY <1>4, <1>9, <2>1
    <3> QED BY <1>7, <1>9, <2>1, <3>1
  <2>2. CASE k = j
    <3>1. i < j
      BY <1>9, <2>2
    <3> QED BY <1>5, <1>7, <2>2, <3>1
  <2>3. CASE k > j /\ i < j
    <3>1. i < k - 1
      BY <1>4, <2>3
    <3> QED BY <1>7, <2>3, <3>1
  <2>4. CASE k > j /\ i = j
    BY <1>6, <1>7, <2>4
  <2>5. CASE k > j /\ i > j
    <3>1. i - 1 < k - 1
      BY <1>9
    <3> QED BY <1>7, <2>5, <3>1
  <2> QED BY <1>4, <2>1, <2>2, <2>3, <2>4, <2>5
<1> QED BY <1>8, <1>9

\* Every list of rows can be sorted: the shortest that could not would be a
\* row longer than one that can.
LEMMA OrderExists ==
    ASSUME NEW o \in Options, o.sortBy # NumField,
           NEW n \in Nat, NEW list \in [1 .. n -> Pid]
    PROVE  \E order \in Orders(n) :
              \A i, k \in 1 .. n : i < k => Before(list[order[i]], list[order[k]], o)
<1> DEFINE Sortable(m) ==
              \A l \in [1 .. m -> Pid] : \E order \in Orders(m) :
                 \A i, k \in 1 .. m : i < k => Before(l[order[i]], l[order[k]], o)
           bad == {m \in Nat : ~Sortable(m)}
<1>1. Sortable(0)
  <2> SUFFICES ASSUME NEW l \in [1 .. 0 -> Pid]
               PROVE \E order \in Orders(0) :
                        \A i, k \in 1 .. 0 : i < k => Before(l[order[i]], l[order[k]], o)
    OBVIOUS
  <2> DEFINE order == [k \in 1 .. 0 |-> k]
  <2>1. order \in Orders(0)
    BY DEF Orders
  <2> QED BY <2>1
<1>2. ASSUME NEW m \in Nat \ {0}, Sortable(m - 1) PROVE Sortable(m)
  <2> SUFFICES ASSUME NEW l \in [1 .. m -> Pid]
               PROVE \E order \in Orders(m) :
                        \A i, k \in 1 .. m : i < k => Before(l[order[i]], l[order[k]], o)
    OBVIOUS
  <2> DEFINE short == [k \in 1 .. m - 1 |-> l[k]]
  <2>1. short \in [1 .. m - 1 -> Pid]
    OBVIOUS
  <2>2. PICK order \in Orders(m - 1) :
           \A i, k \in 1 .. m - 1 : i < k => Before(short[order[i]], short[order[k]], o)
    BY <1>2, <2>1
  <2>3. \A k \in 1 .. m - 1 : order[k] \in 1 .. m - 1
    BY DEF Orders
  <2>4. \A k \in 1 .. m - 1 : short[order[k]] = l[order[k]]
    BY <2>3
  <2> HIDE DEF short
  <2>5. \A i, k \in 1 .. m - 1 : i < k => Before(l[order[i]], l[order[k]], o)
    BY <2>2, <2>4
  <2> QED BY <2>5, InsertionSorts
<1> HIDE DEF Sortable
<1>3. bad = {}
  <2> SUFFICES ASSUME bad # {} PROVE FALSE
    OBVIOUS
  <2>1. PICK m \in bad : \A k \in bad : m <= k
    <3>1. bad \in SUBSET Nat
      OBVIOUS
    <3> HIDE DEF bad
    <3> QED BY <3>1, LeastElement
  <2>2. m \in Nat /\ ~Sortable(m)
    OBVIOUS
  <2>3. m # 0
    BY <1>1, <2>2
  <2>4. m - 1 \in Nat /\ m - 1 \notin bad
    BY <2>1, <2>2, <2>3
  <2>5. Sortable(m - 1)
    BY <2>4
  <2> QED BY <1>2, <2>2, <2>3, <2>5
<1>4. Sortable(n)
  BY <1>3
<1> QED BY <1>4 DEF Sortable

\* Rows of a list in another order are a list as long.
LEMMA SortedList ==
    ASSUME NEW o \in Options, NEW n \in Nat, NEW list \in [1 .. n -> Pid]
    PROVE  SortProcess(list, o) \in [1 .. n -> Pid]
<1>1. CASE o.sortBy = NumField
  BY <1>1 DEF SortProcess
<1>2. CASE o.sortBy # NumField
  <2> DEFINE order == CHOOSE order \in Orders(Len(list)) : IsSorted(Reordered(list, order), o)
  <2>1. Len(list) = n /\ DOMAIN list = 1 .. n
    OBVIOUS
  <2>2. PICK good \in Orders(n) :
           \A i, k \in 1 .. n : i < k => Before(list[good[i]], list[good[k]], o)
    BY <1>2, OrderExists
  <2>3. IsSorted(Reordered(list, good), o)
    BY <2>1, <2>2 DEF IsSorted, Reordered
  <2>4. order \in Orders(n)
    BY <2>1, <2>3
  <2> HIDE DEF order
  <2>5. \A k \in 1 .. n : list[order[k]] \in Pid
    BY <2>4 DEF Orders
  <2>6. Reordered(list, order) \in [1 .. n -> Pid]
    BY <2>1, <2>5 DEF Reordered
  <2>7. SortProcess(list, o) = Reordered(list, order)
    BY <1>2 DEF SortProcess, order
  <2> QED BY <2>6, <2>7
<1> QED BY <1>1, <1>2

\* The first row of nvtop is one of the list.
LEMMA FilteredList ==
    ASSUME NEW o \in Options, NEW n \in Nat, NEW list \in [1 .. n -> Pid]
    PROVE  \E m \in 0 .. n : FilterOutNvtop(list, o) \in [1 .. m -> Pid]
<1>1. Len(list) = n /\ DOMAIN list = 1 .. n
  OBVIOUS
<1>2. CASE o.filter /\ \E k \in DOMAIN list : list[k] = NvtopPid
  <2> DEFINE first == CHOOSE k \in DOMAIN list :
                         list[k] = NvtopPid /\ \A i \in 1 .. k - 1 : list[i] # NvtopPid
             own == {k \in 1 .. n : list[k] = NvtopPid}
  <2>1. PICK k \in own : \A i \in own : k <= i
    <3>1. own \in SUBSET Nat /\ own # {}
      BY <1>1, <1>2
    <3> HIDE DEF own
    <3> QED BY <3>1, LeastElement
  <2>2. k \in 1 .. n /\ list[k] = NvtopPid
    OBVIOUS
  <2>3. \A i \in 1 .. k - 1 : list[i] # NvtopPid
    BY <2>1, <2>2
  <2>4. first \in 1 .. n
    BY <1>1, <2>2, <2>3
  <2> HIDE DEF first
  <2>5. \A i \in 1 .. n - 1 : list[IF i < first THEN i ELSE i + 1] \in Pid
    BY <2>4
  <2>6. FilterOutNvtop(list, o) = [i \in 1 .. n - 1 |-> list[IF i < first THEN i ELSE i + 1]]
    BY <1>1, <1>2 DEF FilterOutNvtop, first
  <2>7. n - 1 \in 0 .. n
    BY <2>4
  <2> QED BY <2>5, <2>6, <2>7
<1>3. CASE ~(o.filter /\ \E k \in DOMAIN list : list[k] = NvtopPid)
  BY <1>3 DEF FilterOutNvtop
<1> QED BY <1>2, <1>3

\* What is shown of a list are processes, no more than the list has.
LEMMA ShownRows ==
    ASSUME NEW list \in Lists, NEW o \in Options
    PROVE  /\ Len(Shown(list, o)) \in 0 .. MaxProcs
           /\ Shown(list, o) = <<>> <=> Len(Shown(list, o)) = 0
           /\ \A k \in 1 .. Len(Shown(list, o)) : Shown(list, o)[k] \in Pid
<1>1. PICK n \in 0 .. MaxProcs : list \in [1 .. n -> Pid]
  BY DEF Lists
<1>2. n \in Nat /\ MaxProcs \in Nat
  BY PaneAssumption
<1>3. PICK m \in 0 .. n : FilterOutNvtop(list, o) \in [1 .. m -> Pid]
  BY <1>1, <1>2, FilteredList
<1>4. m \in Nat /\ m \in 0 .. MaxProcs
  BY <1>2
<1>5. Shown(list, o) \in [1 .. m -> Pid]
  BY <1>3, <1>4, SortedList DEF Shown
<1> DEFINE shown == Shown(list, o)
<1> HIDE DEF shown
<1>6. shown \in Seq(Pid) /\ Len(shown) = m /\ \A k \in 1 .. m : shown[k] \in Pid
  BY <1>4, <1>5 DEF shown
<1>7. shown = <<>> <=> Len(shown) = 0
  BY <1>6
<1> QED BY <1>4, <1>6, <1>7 DEF shown
-----------------------------------------------------------------------------
(* Drawing                                                                 *)

\* Of num rows the one at u[1] is in a window that starts at u[2].
Fits(u, row, rows, num) ==
    /\ u[1] \in 0 .. num - 1 /\ u[1] <= row
    /\ u[2] \in 0 .. u[1] /\ u[1] < u[2] + rows
    /\ u[2] = 0 \/ u[2] + rows <= num
    /\ row <= num - 1 => u[1] = row

\* The cursor is brought into the window, the window is kept full.
LEMMA OffsetFits ==
    ASSUME NEW row \in Nat, NEW offset \in Nat, NEW rows \in Nat \ {0}, NEW num \in Nat \ {0}
    PROVE  Fits(UpdateSelectedOffset(row, offset, rows, num), row, rows, num)
<1> DEFINE r  == Min2(row, num - 1)
           o1 == Min2(offset, r)
           o2 == IF o1 + rows - 1 < r THEN r - rows + 1 ELSE o1
           o  == Min2(o2, Max2(num - rows, 0))
<1>1. UpdateSelectedOffset(row, offset, rows, num) = <<r, o>>
  BY DEF UpdateSelectedOffset
<1>2. r \in 0 .. num - 1 /\ r <= row /\ (row <= num - 1 => r = row)
  BY DEF Min2
<1> HIDE DEF r
<1>3. o1 \in 0 .. r
  BY <1>2 DEF Min2
<1> HIDE DEF o1
<1>4. o2 \in 0 .. r /\ r < o2 + rows
  BY <1>2, <1>3
<1> HIDE DEF o2
<1>5. o \in 0 .. r /\ r < o + rows /\ (o = 0 \/ o + rows <= num)
  <2>1. CASE num - rows > 0
    BY <1>2, <1>4, <2>1 DEF Min2, Max2
  <2>2. CASE ~(num - rows > 0)
    BY <1>2, <1>4, <2>2 DEF Min2, Max2
  <2> QED BY <2>1, <2>2
<1> HIDE DEF o
<1> QED BY <1>1, <1>2, <1>5 DEF Fits

\* The number of entries of a menu: a signal each, or a displayed field each,
\* below the entry to cancel.
LEMMA OptionsCounted ==
    ASSUME TypeOK
    PROVE  NumOptions \in Nat \ {0} /\ (menu.state = "kill" => NumOptions = NumSignals + 1)
<1>1. IsFiniteSet(Field)
  BY FS_Interval, PaneAssumption DEF Field
<1>2. opt.fields \in SUBSET Field
  BY DEF TypeOK, Options
<1>3. Cardinality(opt.fields) \in Nat
  BY <1>1, <1>2, FS_Subset, FS_CardinalityType
<1> QED BY <1>3, PaneAssumption DEF NumOptions

Menus == [state : {"hidden", "kill", "sort_by"}, row : 0 .. MaxRow,
          offset : 0 .. MaxRow, lastNum : BOOLEAN, number : 0 .. NumSignals]
Sels == [row : 0 .. MaxRow, pid : Pid \cup {NoPid}, offset : 0 .. MaxProcs]

\* The menu is drawn with its highlighted entry inside.
LEMMA MenuDrawn ==
    ASSUME TypeOK
    PROVE  /\ DrawMenu \in Menus /\ DrawMenu.state = menu.state
           /\ menu.state # "hidden" =>
                 /\ DrawMenu.row <= NumOptions - 1
                 /\ DrawMenu.offset <= DrawMenu.row /\ DrawMenu.row < DrawMenu.offset + WinRows
<1>1. menu \in Menus
  BY DEF TypeOK, Menus
<1>2. CASE menu.state = "hidden"
  BY <1>1, <1>2 DEF DrawMenu
<1>3. CASE menu.state # "hidden"
  <2> DEFINE u == UpdateSelectedOffset(menu.row, menu.offset, WinRows, NumOptions)
  <2>1. /\ menu.row \in Nat /\ menu.row <= MaxRow /\ menu.offset \in Nat
        /\ WinRows \in Nat \ {0} /\ NumOptions \in Nat \ {0} /\ MaxRow \in Nat
    BY <1>1, OptionsCounted, PaneAssumption DEF Menus
  <2>2. /\ u[1] \in 0 .. NumOptions - 1 /\ u[1] <= menu.row
        /\ u[2] \in 0 .. u[1] /\ u[1] < u[2] + WinRows
    <3>1. Fits(u, menu.row, WinRows, NumOptions)
      BY <2>1, OffsetFits
    <3> HIDE DEF u
    <3> QED BY <3>1 DEF Fits
  <2>3. DrawMenu = [menu EXCEPT !.row = u[1], !.offset = u[2]]
    BY <1>3 DEF DrawMenu
  <2> HIDE DEF u
  <2>4. u[1] \in 0 .. MaxRow /\ u[2] \in 0 .. MaxRow /\ u[1] <= NumOptions - 1 /\ u[2] <= u[1]
    BY <2>1, <2>2
  <2> QED BY <1>1, <1>3, <2>2, <2>3, <2>4 DEF Menus
<1> QED BY <1>2, <1>3

\* The list is drawn with its highlighted row inside, which names its process;
\* a cursor that was inside stays on its row.
LEMMA SelDrawn ==
    ASSUME TypeOK, NEW list \in Lists
    PROVE  /\ DrawSel(list) \in Sels
           /\ Synced(list, opt, DrawSel(list))
           /\ Synced(list, opt, sel) => DrawSel(list).pid = sel.pid
           /\ DrawSel(list).pid # NoPid =>
                 /\ DrawSel(list).offset <= DrawSel(list).row
                 /\ DrawSel(list).row < DrawSel(list).offset + WinRows
                 /\ \/ DrawSel(list).offset = 0
                    \/ DrawSel(list).offset + WinRows <= Len(Shown(list, opt))
<1> DEFINE shown == Shown(list, opt)
           n == Len(shown)
           u == UpdateSelectedOffset(sel.row, sel.offset, WinRows, n)
           d == DrawSel(list)
<1>1. sel \in Sels /\ opt \in Options /\ MaxProcs \in Nat /\ MaxRow \in Nat /\ MaxRow > MaxProcs
  BY PaneAssumption DEF TypeOK, Sels
<1>2. n \in 0 .. MaxProcs /\ (shown = <<>> <=> n = 0) /\ \A k \in 1 .. n : shown[k] \in Pid
  BY <1>1, ShownRows
<1>3. CASE shown = <<>>
  <2>1. d = [sel EXCEPT !.row = 0, !.pid = NoPid]
    BY <1>3 DEF DrawSel
  <2> HIDE DEF d
  <2>2. d \in Sels /\ d.pid = NoPid
    <3> DEFINE e == [sel EXCEPT !.row = 0]
    <3>1. e \in Sels
      BY <1>1 DEF Sels
    <3>2. d = [e EXCEPT !.pid = NoPid]
      BY <2>1
    <3> HIDE DEF e
    <3> QED BY <3>1, <3>2 DEF Sels
  <2>3. Synced(list, opt, d)
    BY <1>3, <2>2 DEF Synced
  <2>4. Synced(list, opt, sel) => sel.pid = NoPid
    BY <1>3 DEF Synced
  <2> QED BY <2>2, <2>3, <2>4 DEF d
<1>4. CASE shown # <<>>
  <2>1. n \in Nat \ {0}
    BY <1>1, <1>2, <1>4
  <2>2. sel.row \in Nat /\ sel.offset \in Nat /\ WinRows \in Nat \ {0}
    BY <1>1, PaneAssumption DEF Sels
  <2>3. /\ u[1] \in 0 .. n - 1 /\ u[2] \in 0 .. u[1] /\ u[1] < u[2] + WinRows
        /\ u[2] = 0 \/ u[2] + WinRows <= n
        /\ sel.row <= n - 1 => u[1] = sel.row
    <3>1. Fits(u, sel.row, WinRows, n)
      <4> HIDE DEF n
      <4> QED BY <2>1, <2>2, OffsetFits
    <3> HIDE DEF u, n
    <3> QED BY <3>1 DEF Fits
  <2>4. d = [row |-> u[1], pid |-> shown[u[1] + 1], offset |-> u[2]]
    BY <1>4 DEF DrawSel
  <2> HIDE DEF u
  <2>5. d.row = u[1] /\ d.pid = shown[u[1] + 1] /\ d.offset = u[2]
    BY <2>4
  <2>6. u[1] \in 0 .. MaxRow /\ u[2] \in 0 .. MaxProcs /\ u[1] + 1 \in 1 .. n
    BY <1>1, <1>2, <2>1, <2>3
  <2>7. d \in Sels
    BY <1>2, <2>4, <2>6 DEF Sels
  <2> HIDE DEF d
  <2>8. Synced(list, opt, d)
    BY <1>4, <2>3, <2>5 DEF Synced
  <2>9. Synced(list, opt, sel) => d.pid = sel.pid
    <3> SUFFICES ASSUME Synced(list, opt, sel) PROVE d.pid = sel.pid
      OBVIOUS
    <3>1. sel.row \in 0 .. n - 1 /\ sel.pid = shown[sel.row + 1]
      BY <1>4 DEF Synced
    <3> QED BY <2>1, <2>3, <2>5, <3>1
  <2>10. d.offset <= d.row /\ d.row < d.offset + WinRows /\ (d.offset = 0 \/ d.offset + WinRows <= n)
    BY <2>1, <2>3, <2>5
  <2> QED BY <2>7, <2>8, <2>9, <2>10 DEF d
<1> QED BY <1>3, <1>4
-----------------------------------------------------------------------------
(* The steps                                                               *)

\* A drawable list is on the screen as long as nothing of this changes.
LEMMA PaneStays ==
    UNCHANGED <<opt, room, setup>> => PaneDrawn' = PaneDrawn
BY DEF PaneDrawn

\* Before a key is read nothing was sent since the last draw: a key that
\* sends nothing owes three parts of the invariant.
LEMMA KeyKeeps ==
    ASSUME IInv, turn = "key", turn' = "loop", sent' = sent,
           TypeOK', HighlightInv', ChosenInv'
    PROVE  IInv'
<1>1. sent' = NoSignal
  BY DEF IInv, DrawnInv
<1>2. DrawnInv'
  BY DEF DrawnInv
<1>3. SignalGoesToHighlighted'
  BY <1>1 DEF SignalGoesToHighlighted, NoSignal
<1> QED BY <1>2, <1>3 DEF IInv

\* No list is drawn yet.
LEMMA InitIInv == Init => IInv
<1> SUFFICES ASSUME Init PROVE IInv
  OBVIOUS
<1>1. /\ procs = <<>> /\ turn = "loop" /\ room \in BOOLEAN /\ setup = FALSE
      /\ sel = NewSel /\ menu = NewMenu /\ opened = NotOpened /\ sent = NoSignal
  BY DEF Init
<1>2. MaxProcs \in Nat /\ MaxRow \in Nat /\ NumSignals \in Nat /\ NumField \in Nat
  BY PaneAssumption
<1>3. opt \in Options
  <2>1. PICK hide \in BOOLEAN, filter \in BOOLEAN, desc \in BOOLEAN, loaded \in LoadedFields :
           opt = [hide |-> hide, filter |-> filter, desc |-> desc,
                  sortBy |-> loaded.sortBy, fields |-> loaded.fields]
    BY DEF Init
  <2>2. loaded.fields \in SUBSET Field /\ loaded.sortBy \in Field \cup {NumField}
    BY PaneAssumption DEF LoadedFields, DefaultSortBy
  <2> QED BY <2>1, <2>2 DEF Options
<1>4. procs \in Lists
  <2>1. <<>> \in [1 .. 0 -> Pid] /\ 0 \in 0 .. MaxProcs
    BY <1>2
  <2> QED BY <1>1, <2>1 DEF Lists
<1>5. sel \in Sels /\ menu \in Menus
  BY <1>1, <1>2 DEF NewSel, NewMenu, Sels, Menus
<1>6. sent \in [pid : Pid \cup {NoPid}, row : 0 .. MaxRow, chosen : Pid \cup {NoPid}, resorted : BOOLEAN]
  BY <1>1, <1>2 DEF NoSignal
<1>7. TypeOK
  BY <1>1, <1>3, <1>4, <1>5, <1>6 DEF TypeOK, Sels, Menus, NotOpened
<1>8. HighlightInv /\ DrawnInv /\ ChosenInv /\ SignalGoesToHighlighted
  BY <1>1 DEF HighlightInv, DrawnInv, ChosenInv, SignalGoesToHighlighted, NewSel, NewMenu
<1> QED BY <1>7, <1>8 DEF IInv

\* Refreshing and drawing: with the signal menu open the list is the same, so
\* that the cursor keeps its process.
LEMMA IterateIInv == IInv /\ Iterate => IInv'
<1> SUFFICES ASSUME IInv, Iterate PROVE IInv'
  OBVIOUS
<1>1. PICK list \in Lists :
         /\ menu.state = "kill" => list = procs
         /\ procs' = list
         /\ IF PaneDrawn THEN sel' = DrawSel(list) /\ menu' = DrawMenu
            ELSE UNCHANGED <<sel, menu>>
  BY DEF Iterate, RefreshIfDue
<1>2. /\ turn' = "key" /\ sent' = NoSignal /\ UNCHANGED <<opt, room, setup, opened>>
      /\ TypeOK /\ HighlightInv /\ ChosenInv
  BY DEF Iterate, IInv
<1>3. PaneDrawn' = PaneDrawn
  BY <1>2, PaneStays
<1>4. menu \in Menus /\ sel \in Sels
  BY <1>2 DEF TypeOK, Sels, Menus
<1>5. menu' \in Menus /\ sel' \in Sels /\ menu'.state = menu.state
  BY <1>1, <1>2, <1>4, MenuDrawn, SelDrawn
<1>6. TypeOK'
  <2>1. sent' \in [pid : Pid \cup {NoPid}, row : 0 .. MaxRow,
                   chosen : Pid \cup {NoPid}, resorted : BOOLEAN]
    BY <1>2, PaneAssumption DEF NoSignal
  <2> QED BY <1>1, <1>2, <1>5, <2>1 DEF TypeOK, Sels, Menus
<1>7. PaneDrawn => Synced(procs', opt', sel')
  BY <1>1, <1>2, SelDrawn
<1>8. PaneDrawn /\ menu.state = "kill" => menu'.row <= NumSignals
  <2> SUFFICES ASSUME PaneDrawn, menu.state = "kill" PROVE menu'.row <= NumSignals
    OBVIOUS
  <2>1. DrawMenu.row <= NumOptions - 1 /\ NumOptions = NumSignals + 1
    BY <1>2, MenuDrawn, OptionsCounted
  <2>2. menu' = DrawMenu /\ NumSignals \in Nat
    BY <1>1, PaneAssumption
  <2>3. NumOptions - 1 = NumSignals
    BY <2>1, <2>2
  <2> QED BY <2>1, <2>2, <2>3
<1>9. HighlightInv'
  BY <1>1, <1>2, <1>3 DEF HighlightInv
<1>10. DrawnInv'
  <2>1. PaneDrawn' => Synced(procs', opt', sel')
    BY <1>3, <1>7
  <2> QED BY <1>2, <1>3, <1>5, <1>8, <2>1 DEF DrawnInv
<1>11. ChosenInv'
  <2> SUFFICES ASSUME menu'.state = "kill"
               PROVE  /\ ~setup'
                      /\ ~opened'.resorted => sel'.pid = opened'.pid
                      /\ ~opened'.resorted /\ PaneDrawn' => Synced(procs', opt', sel')
    BY DEF ChosenInv
  <2>1. /\ ~setup /\ procs' = procs
        /\ ~opened.resorted => sel.pid = opened.pid
        /\ ~opened.resorted /\ PaneDrawn => Synced(procs, opt, sel)
    BY <1>1, <1>2, <1>5 DEF ChosenInv
  <2>2. ~opened.resorted => sel'.pid = sel.pid
    <3>1. CASE PaneDrawn
      BY <1>1, <1>2, <2>1, <3>1, SelDrawn
    <3>2. CASE ~PaneDrawn
      BY <1>1, <3>2
    <3> QED BY <3>1, <3>2
  <2> QED BY <1>2, <1>3, <1>7, <2>1, <2>2
<1>12. SignalGoesToHighlighted'
  BY <1>2 DEF SignalGoesToHighlighted, NoSignal
<1> QED BY <1>6, <1>9, <1>10, <1>11, <1>12 DEF IInv

\* The windows made anew: no menu, no cursor.
LEMMA ResetIInv ==
    ASSUME IInv, turn = "key", turn' = "loop", UpdateWindowSize, UNCHANGED <<procs, opt, sent>>
    PROVE  IInv'
<1>1. /\ room' \in BOOLEAN /\ setup' = FALSE
      /\ sel' = NewSel /\ menu' = NewMenu /\ opened' = NotOpened
  BY DEF UpdateWindowSize
<1>2. MaxProcs \in Nat /\ MaxRow \in Nat /\ NumSignals \in Nat
  BY PaneAssumption
<1>3. sel' \in Sels /\ menu' \in Menus
  BY <1>1, <1>2 DEF NewSel, NewMenu, Sels, Menus
<1>4. TypeOK'
  BY <1>1, <1>3 DEF IInv, TypeOK, Sels, Menus, NotOpened
<1>5. HighlightInv' /\ ChosenInv'
  BY <1>1 DEF HighlightInv, ChosenInv, NewSel, NewMenu
<1> QED BY <1>4, <1>5, KeyKeeps

\* Nothing but the turn.
LEMMA TimeoutIInv == IInv /\ Timeout => IInv'
<1> SUFFICES ASSUME IInv, Timeout PROVE IInv'
  OBVIOUS
<1>1. /\ turn = "key" /\ turn' = "loop"
      /\ UNCHANGED <<procs, opt, room, setup, sel, menu, opened, sent>>
  BY DEF Timeout
<1>2. TypeOK'
  BY <1>1 DEF IInv, TypeOK
<1>3. HighlightInv'
  BY <1>1, PaneStays DEF IInv, HighlightInv
<1>4. ChosenInv'
  BY <1>1, PaneStays DEF IInv, ChosenInv, Synced
<1> QED BY <1>1, <1>2, <1>3, <1>4, KeyKeeps
\* A key of the list or of a menu.  While a signal is being chosen it leaves
\* the cursor alone, and either the options or the promise too.
LEMMA KeyStep ==
    ASSUME IInv, Key, UNCHANGED <<procs, room, setup, sent>>,
           menu' \in Menus, sel' \in Sels, opt' \in Options,
           opened' \in [pid : Pid \cup {NoPid}, resorted : BOOLEAN],
           sel'.pid = sel.pid, opt'.hide = opt.hide,
           menu'.state = "kill" =>
               /\ menu.state = "kill" /\ sel' = sel
               /\ opened'.resorted \/ (opt' = opt /\ opened' = opened)
    PROVE  IInv'
<1>1. turn = "key" /\ turn' = "loop" /\ ~setup /\ ~setup'
  BY DEF Key
<1>2. TypeOK'
  BY <1>1 DEF IInv, TypeOK, Sels, Menus
<1>3. PaneDrawn' = PaneDrawn
  BY DEF PaneDrawn
<1>4. HighlightInv'
  BY <1>1, <1>3 DEF IInv, HighlightInv
<1>5. ChosenInv'
  <2> SUFFICES ASSUME menu'.state = "kill", ~opened'.resorted
               PROVE  /\ sel'.pid = opened'.pid
                      /\ PaneDrawn' => Synced(procs', opt', sel')
    BY <1>1 DEF ChosenInv
  <2>1. /\ menu.state = "kill" /\ sel' = sel /\ opt' = opt /\ opened' = opened /\ procs' = procs
    OBVIOUS
  <2>2. ~opened.resorted
    BY <2>1
  <2>3. sel.pid = opened.pid /\ (PaneDrawn => Synced(procs, opt, sel))
    BY <2>1, <2>2 DEF IInv, ChosenInv
  <2> QED BY <1>3, <2>1, <2>3
<1> QED BY <1>1, <1>2, <1>4, <1>5, KeyKeeps

\* The types a step starts from
LEMMA Typed ==
    ASSUME IInv
    PROVE  /\ menu \in Menus /\ sel \in Sels /\ opt \in Options
           /\ opened \in [pid : Pid \cup {NoPid}, resorted : BOOLEAN]
           /\ MaxRow \in Nat /\ NumSignals \in Nat \ {0} /\ NumSignals <= MaxRow
           /\ Closed \in Menus /\ Closed.state = "hidden"
<1>1. /\ menu \in Menus /\ sel \in Sels /\ opt \in Options
      /\ opened \in [pid : Pid \cup {NoPid}, resorted : BOOLEAN]
  BY DEF IInv, TypeOK, Menus, Sels
<1>2. MaxRow \in Nat /\ NumSignals \in Nat \ {0} /\ NumSignals <= MaxRow
  BY PaneAssumption
<1>3. Closed = [state |-> "hidden", row |-> 0, offset |-> menu.offset, lastNum |-> FALSE, number |-> 0]
  <2> DEFINE m1 == [menu EXCEPT !.state = "hidden"]
             m2 == [m1 EXCEPT !.row = 0]
             m3 == [m2 EXCEPT !.number = 0]
  <2>1. m1 = [state |-> "hidden", row |-> menu.row, offset |-> menu.offset,
              lastNum |-> menu.lastNum, number |-> menu.number]
    BY <1>1 DEF Menus
  <2> HIDE DEF m1
  <2>2. m2 = [state |-> "hidden", row |-> 0, offset |-> menu.offset,
              lastNum |-> menu.lastNum, number |-> menu.number]
    BY <2>1
  <2> HIDE DEF m2
  <2>3. m3 = [state |-> "hidden", row |-> 0, offset |-> menu.offset,
              lastNum |-> menu.lastNum, number |-> 0]
    BY <2>2
  <2> HIDE DEF m3
  <2>4. Closed = [m3 EXCEPT !.lastNum = FALSE]
    BY DEF Closed, m1, m2, m3
  <2> QED BY <2>3, <2>4
<1>4. Closed \in Menus /\ Closed.state = "hidden"
  BY <1>1, <1>2, <1>3 DEF Menus
<1> QED BY <1>1, <1>2, <1>4

\* F2: no menu is open.
LEMMA KeySetupIInv == IInv /\ KeySetup => IInv'
<1> SUFFICES ASSUME IInv, KeySetup PROVE IInv'
  OBVIOUS
<1>1. /\ turn = "key" /\ turn' = "loop" /\ menu.state = "hidden" /\ setup' = TRUE
      /\ menu' = [menu EXCEPT !.lastNum = FALSE]
      /\ UNCHANGED <<procs, room, opt, sel, opened, sent>>
  BY DEF KeySetup, Key, Same
<1>2. menu \in Menus
  BY Typed
<1>3. menu' \in Menus /\ menu'.state = "hidden"
  BY <1>1, <1>2 DEF Menus
<1>4. TypeOK'
  BY <1>1, <1>3 DEF IInv, TypeOK, Menus
<1>5. HighlightInv' /\ ChosenInv'
  BY <1>1, <1>3 DEF HighlightInv, ChosenInv
<1> QED BY <1>1, <1>4, <1>5, KeyKeeps

\* F9: the process that is highlighted, on the screen, is the one chosen.
LEMMA KeyKillIInv == IInv /\ KeyKill => IInv'
<1> SUFFICES ASSUME IInv, KeyKill PROVE IInv'
  OBVIOUS
<1>1. /\ turn = "key" /\ turn' = "loop" /\ ~setup
      /\ menu' = [menu EXCEPT !.state = "kill", !.row = 0, !.lastNum = FALSE, !.number = 0]
      /\ opened' = [pid |-> sel.pid, resorted |-> FALSE]
      /\ UNCHANGED <<procs, room, opt, setup, sel, sent>>
  BY DEF KeyKill, Key, Same
<1>2. menu \in Menus /\ sel \in Sels /\ MaxRow \in Nat /\ NumSignals \in Nat
  BY Typed
<1>3. menu' = [state |-> "kill", row |-> 0, offset |-> menu.offset, lastNum |-> FALSE, number |-> 0]
  BY <1>1, <1>2 DEF Menus
<1>4. menu' \in Menus
  <2>1. menu.offset \in 0 .. MaxRow /\ 0 \in 0 .. MaxRow /\ 0 \in 0 .. NumSignals
    BY <1>2 DEF Menus
  <2> QED BY <1>3, <2>1 DEF Menus
<1>5. TypeOK'
  BY <1>1, <1>2, <1>4 DEF IInv, TypeOK, Menus, Sels
<1>6. PaneDrawn' = PaneDrawn
  BY <1>1, PaneStays
<1>7. HighlightInv'
  BY <1>1, <1>6 DEF IInv, HighlightInv
<1>8. ChosenInv'
  <2>1. opened'.pid = sel'.pid /\ ~setup'
    BY <1>1
  <2>2. PaneDrawn' => Synced(procs', opt', sel')
    BY <1>1, <1>6 DEF IInv, DrawnInv
  <2> QED BY <2>1, <2>2 DEF ChosenInv
<1> QED BY <1>1, <1>5, <1>7, <1>8, KeyKeeps

\* F6
LEMMA KeySortIInv == IInv /\ KeySort => IInv'
<1> SUFFICES ASSUME IInv, KeySort PROVE IInv'
  OBVIOUS
<1>1. /\ Key /\ menu' = [menu EXCEPT !.state = "sort_by", !.row = 0, !.lastNum = FALSE]
      /\ UNCHANGED <<procs, room, opt, setup, sel, opened, sent>>
  BY DEF KeySort, Same
<1>2. menu \in Menus /\ MaxRow \in Nat
  BY Typed
<1>3. menu' = [state |-> "sort_by", row |-> 0, offset |-> menu.offset,
               lastNum |-> FALSE, number |-> menu.number]
  BY <1>1, <1>2 DEF Menus
<1>4. menu' \in Menus /\ menu'.state = "sort_by"
  BY <1>2, <1>3 DEF Menus
<1> QED BY <1>1, <1>4, Typed, KeyStep

\* The arrows: in a menu the cursor of the list stays.
LEMMA ArrowIInv ==
    ASSUME IInv, Key, NEW up \in 0 .. MaxRow, NEW down \in 0 .. MaxRow,
           menu' = [menu EXCEPT !.lastNum = FALSE, !.row = IF menu.state # "hidden" THEN up ELSE @],
           sel' = [sel EXCEPT !.row = IF menu.state = "hidden" THEN down ELSE @],
           UNCHANGED <<procs, room, opt, setup, opened, sent>>
    PROVE  IInv'
<1>1. menu \in Menus /\ sel \in Sels /\ MaxRow \in Nat
  BY Typed
<1>2. menu' = [state |-> menu.state, row |-> IF menu.state # "hidden" THEN up ELSE menu.row,
               offset |-> menu.offset, lastNum |-> FALSE, number |-> menu.number]
  BY <1>1 DEF Menus
<1>3. menu' \in Menus /\ menu'.state = menu.state
  <2> DEFINE row == IF menu.state # "hidden" THEN up ELSE menu.row
  <2>1. row \in 0 .. MaxRow
    BY <1>1 DEF Menus
  <2>2. menu' = [state |-> menu.state, row |-> row, offset |-> menu.offset,
                 lastNum |-> FALSE, number |-> menu.number]
    BY <1>2
  <2> HIDE DEF row
  <2> QED BY <1>1, <2>1, <2>2 DEF Menus
<1>4. sel' = [row |-> IF menu.state = "hidden" THEN down ELSE sel.row,
              pid |-> sel.pid, offset |-> sel.offset]
  BY <1>1 DEF Sels
<1>5. sel' \in Sels /\ sel'.pid = sel.pid
  BY <1>1, <1>4 DEF Sels
<1>6. menu.state # "hidden" => sel' = sel
  BY <1>1, <1>4 DEF Sels
<1> QED BY <1>3, <1>5, <1>6, Typed, KeyStep

\* The arrow up stops at the first row.
LEMMA KeyUpIInv == IInv /\ KeyUp => IInv'
<1> SUFFICES ASSUME IInv, KeyUp PROVE IInv'
  OBVIOUS
<1>1. /\ Key /\ UNCHANGED <<procs, room, opt, setup, opened, sent>>
      /\ menu' = [menu EXCEPT !.lastNum = FALSE,
                              !.row = IF menu.state # "hidden" /\ menu.row # 0 THEN @ - 1 ELSE @]
      /\ sel' = [sel EXCEPT !.row = IF menu.state = "hidden" /\ sel.row # 0 THEN @ - 1 ELSE @]
  BY DEF KeyUp, Same
<1> DEFINE up   == IF menu.row # 0 THEN menu.row - 1 ELSE menu.row
           down == IF sel.row # 0 THEN sel.row - 1 ELSE sel.row
<1>2. menu \in Menus /\ sel \in Sels /\ MaxRow \in Nat
  BY Typed
<1>3. menu.row \in 0 .. MaxRow /\ sel.row \in 0 .. MaxRow
  BY <1>2 DEF Menus, Sels
<1>4. up \in 0 .. MaxRow /\ down \in 0 .. MaxRow
  BY <1>2, <1>3
<1>5. menu' = [menu EXCEPT !.lastNum = FALSE, !.row = IF menu.state # "hidden" THEN up ELSE @]
  <2>1. (IF menu.state # "hidden" /\ menu.row # 0 THEN menu.row - 1 ELSE menu.row)
           = IF menu.state # "hidden" THEN up ELSE menu.row
    OBVIOUS
  <2> HIDE DEF up
  <2> QED BY <1>1, <1>2, <2>1 DEF Menus
<1>6. sel' = [sel EXCEPT !.row = IF menu.state = "hidden" THEN down ELSE @]
  <2>1. (IF menu.state = "hidden" /\ sel.row # 0 THEN sel.row - 1 ELSE sel.row)
           = IF menu.state = "hidden" THEN down ELSE sel.row
    OBVIOUS
  <2> HIDE DEF down
  <2> QED BY <1>1, <1>2, <2>1 DEF Sels
<1> HIDE DEF up, down
<1> QED BY <1>1, <1>4, <1>5, <1>6, ArrowIInv

\* The arrow down goes on; the next draw takes it back.
LEMMA KeyDownIInv == IInv /\ KeyDown => IInv'
<1> SUFFICES ASSUME IInv, KeyDown PROVE IInv'
  OBVIOUS
<1>1. /\ Key /\ UNCHANGED <<procs, room, opt, setup, opened, sent>>
      /\ sel.row < MaxRow /\ menu.row < MaxRow
      /\ menu' = [menu EXCEPT !.lastNum = FALSE,
                              !.row = IF menu.state # "hidden" THEN @ + 1 ELSE @]
      /\ sel' = [sel EXCEPT !.row = IF menu.state = "hidden" THEN @ + 1 ELSE @]
  BY DEF KeyDown, Same
<1>2. menu.row \in 0 .. MaxRow /\ sel.row \in 0 .. MaxRow /\ MaxRow \in Nat
  BY Typed DEF Menus, Sels
<1>3. menu.row + 1 \in 0 .. MaxRow /\ sel.row + 1 \in 0 .. MaxRow
  BY <1>1, <1>2
<1> QED BY <1>1, <1>3, ArrowIInv
\* + and -: the order reversed while a signal is chosen is remembered.
LEMMA KeyOrderIInv ==
    ASSUME IInv, NEW desc \in BOOLEAN, KeyOrder(desc)
    PROVE  IInv'
<1>1. /\ Key /\ UNCHANGED <<procs, room, setup, sel, sent>>
      /\ opt' = [opt EXCEPT !.desc = desc]
      /\ opened' = [opened EXCEPT !.resorted = @ \/ (menu.state = "kill" /\ desc # opt.desc)]
      /\ menu' = [menu EXCEPT !.lastNum = FALSE]
  BY DEF KeyOrder, Same
<1>2. menu \in Menus /\ opt \in Options /\ sel \in Sels
      /\ opened \in [pid : Pid \cup {NoPid}, resorted : BOOLEAN]
  BY Typed
<1>3. menu' \in Menus /\ menu'.state = menu.state
  BY <1>1, <1>2 DEF Menus
<1>4. opt' \in Options /\ opt'.hide = opt.hide
  BY <1>1, <1>2, Zenon DEF Options
<1>5. opened' \in [pid : Pid \cup {NoPid}, resorted : BOOLEAN]
  <2> DEFINE more == opened.resorted \/ (menu.state = "kill" /\ desc # opt.desc)
  <2>1. more \in BOOLEAN
    OBVIOUS
  <2>2. opened' = [opened EXCEPT !.resorted = more]
    BY <1>1
  <2> HIDE DEF more
  <2> QED BY <1>2, <2>1, <2>2, Zenon
<1>6. ASSUME menu'.state = "kill", ~opened'.resorted PROVE opt' = opt /\ opened' = opened
  <2>1. opened'.resorted <=> opened.resorted \/ (menu.state = "kill" /\ desc # opt.desc)
    BY <1>1, <1>2, Zenon
  <2>2. menu.state = "kill" /\ ~opened.resorted /\ desc = opt.desc
    BY <1>3, <1>6, <2>1
  <2>3. opt' = opt
    BY <1>1, <1>2, <2>2 DEF Options
  <2>4. opened' = opened
    <3>1. (opened.resorted \/ (menu.state = "kill" /\ desc # opt.desc)) = opened.resorted
      BY <1>2, <2>2, Zenon
    <3>2. opened' = [opened EXCEPT !.resorted = opened.resorted]
      BY <1>1, <3>1, Zenon
    <3> QED BY <1>2, <3>2
  <2> QED BY <2>3, <2>4
<1> QED BY <1>1, <1>2, <1>3, <1>4, <1>5, <1>6, KeyStep

\* Enter in the signal menu: the process that is highlighted is the one
\* chosen, on the screen, and the entry was drawn.
LEMMA KeySendIInv == IInv /\ KeySend => IInv'
<1> SUFFICES ASSUME IInv, KeySend PROVE IInv'
  OBVIOUS
<1>1. /\ turn = "key" /\ turn' = "loop" /\ ~setup /\ menu.state = "kill"
      /\ sent' = IF menu.row # 0 /\ sel.pid # NoPid
                 THEN [pid |-> sel.pid, row |-> menu.row,
                       chosen |-> opened.pid, resorted |-> opened.resorted]
                 ELSE NoSignal
      /\ menu' = Closed /\ opened' = NotOpened
      /\ UNCHANGED <<procs, room, opt, setup, sel>>
  BY DEF KeySend, Key, Same
<1>2. /\ menu \in Menus /\ sel \in Sels /\ MaxRow \in Nat /\ NumSignals \in Nat
      /\ opened \in [pid : Pid \cup {NoPid}, resorted : BOOLEAN]
      /\ Closed \in Menus /\ Closed.state = "hidden"
  BY Typed
<1>3. PaneDrawn' = PaneDrawn
  BY <1>1, PaneStays
<1>4. TypeOK'
  <2>1. sel.pid \in Pid \cup {NoPid} /\ menu.row \in 0 .. MaxRow /\ opened.pid \in Pid \cup {NoPid}
    BY <1>2 DEF Menus, Sels
  <2>2. opened.resorted \in BOOLEAN
    BY <1>2
  <2>3. NoSignal \in [pid : Pid \cup {NoPid}, row : 0 .. MaxRow,
                      chosen : Pid \cup {NoPid}, resorted : BOOLEAN]
    BY <1>2 DEF NoSignal
  <2>4. sent' \in [pid : Pid \cup {NoPid}, row : 0 .. MaxRow,
                   chosen : Pid \cup {NoPid}, resorted : BOOLEAN]
    BY <1>1, <2>1, <2>2, <2>3, Zenon
  <2> QED BY <1>1, <1>2, <2>4 DEF IInv, TypeOK, Menus, Sels, NotOpened
<1>5. HighlightInv'
  BY <1>1, <1>3 DEF IInv, HighlightInv
<1>6. DrawnInv' /\ ChosenInv'
  BY <1>1, <1>2 DEF DrawnInv, ChosenInv
<1>7. SignalGoesToHighlighted'
  <2> SUFFICES ASSUME menu.row # 0, sel.pid # NoPid
               PROVE  /\ sent'.pid = sent'.chosen \/ sent'.resorted
                      /\ sent'.row \in 1 .. NumSignals
                      /\ PaneDrawn'
    BY <1>1 DEF SignalGoesToHighlighted
  <2>1. PaneDrawn
    BY <1>1 DEF IInv, HighlightInv
  <2>2. menu.row <= NumSignals
    BY <1>1, <2>1 DEF IInv, DrawnInv
  <2>3. menu.row \in 1 .. NumSignals
    BY <1>2, <2>2 DEF Menus
  <2>4. sel.pid = opened.pid \/ opened.resorted
    BY <1>1 DEF IInv, ChosenInv
  <2>5. sent' = [pid |-> sel.pid, row |-> menu.row,
                 chosen |-> opened.pid, resorted |-> opened.resorted]
    BY <1>1
  <2>6. sent'.pid = sel.pid /\ sent'.row = menu.row /\ sent'.chosen = opened.pid
        /\ (sent'.resorted <=> opened.resorted)
    BY <2>5, Zenon
  <2> QED BY <1>3, <2>1, <2>3, <2>4, <2>6
<1> QED BY <1>4, <1>5, <1>6, <1>7 DEF IInv

\* The fields that process_default_sort_by_from looks at: if any is displayed,
\* one that is displayed comes out.
LEMMA DefaultIsDisplayed ==
    ASSUME NEW fields \in SUBSET Field
    PROVE  IF fields = {} THEN DefaultSortBy(fields) = NumField
                          ELSE DefaultSortBy(fields) \in fields
<1>1. CASE fields = {}
  BY <1>1 DEF DefaultSortBy
<1>2. CASE fields # {}
  <2> DEFINE ranks == {Preference[f] : f \in fields}
  <2>1. ranks \in SUBSET Nat /\ ranks # {}
    BY <1>2, PaneAssumption
  <2>2. PICK x \in ranks : \A y \in ranks : x <= y
    <3> HIDE DEF ranks
    <3> QED BY <2>1, LeastElement
  <2>3. \E f \in fields : \A g \in fields : Preference[f] <= Preference[g]
    BY <2>2
  <2>4. DefaultSortBy(fields) = CHOOSE f \in fields : \A g \in fields : Preference[f] <= Preference[g]
    BY <1>2 DEF DefaultSortBy
  <2> QED BY <1>2, <2>3, <2>4
<1> QED BY <1>1, <1>2

\* The sort menu names displayed fields.
LEMMA ChosenIsDisplayed ==
    ASSUME TypeOK, KeySortChosen
    PROVE  /\ opt' \in Options /\ opt'.hide = opt.hide /\ opt'.fields = opt.fields
           /\ opt'.sortBy = opt.sortBy \/ opt'.sortBy \in opt.fields
<1> DEFINE chosen == FieldAt(opt.fields, menu.row - 1)
           f == CHOOSE x \in chosen : TRUE
<1>1. opt \in Options /\ opt.fields \in SUBSET Field
  BY DEF TypeOK, Options
<1>2. opt' = IF chosen = {} THEN opt ELSE [opt EXCEPT !.sortBy = f]
  BY DEF KeySortChosen
<1>3. chosen # {} => f \in opt.fields
  BY DEF FieldAt
<1> HIDE DEF chosen, f
<1>4. CASE chosen = {}
  BY <1>1, <1>2, <1>4
<1>5. CASE chosen # {}
  <2>1. opt' = [opt EXCEPT !.sortBy = f] /\ f \in Field /\ f \in opt.fields
    BY <1>1, <1>2, <1>3, <1>5
  <2>2. opt' \in Options
    BY <1>1, <2>1, Zenon DEF Options
  <2>3. opt'.hide = opt.hide /\ opt'.fields = opt.fields /\ opt'.sortBy = f
    BY <1>1, <2>1 DEF Options
  <2> QED BY <2>1, <2>2, <2>3
<1> QED BY <1>4, <1>5

\* Enter in the sort menu
LEMMA KeySortChosenIInv == IInv /\ KeySortChosen => IInv'
<1> SUFFICES ASSUME IInv, KeySortChosen PROVE IInv'
  OBVIOUS
<1>1. Key /\ menu' = Closed /\ UNCHANGED <<procs, room, setup, sel, opened, sent>>
  BY DEF KeySortChosen, Same
<1>2. opt' \in Options /\ opt'.hide = opt.hide
  BY ChosenIsDisplayed DEF IInv
<1> QED BY <1>1, <1>2, Typed, KeyStep

\* Escape
LEMMA KeyEscapeIInv == IInv /\ KeyEscape => IInv'
<1> SUFFICES ASSUME IInv, KeyEscape PROVE IInv'
  OBVIOUS
<1>1. /\ Key /\ menu' = Closed /\ opened' = NotOpened
      /\ UNCHANGED <<procs, room, opt, setup, sel, sent>>
  BY DEF KeyEscape, Same
<1>2. opened' \in [pid : Pid \cup {NoPid}, resorted : BOOLEAN]
  BY <1>1 DEF NotOpened
<1> QED BY <1>1, <1>2, Typed, KeyStep

\* A digit: the number is one of the table, or starts over.
LEMMA KeyDigitIInv ==
    ASSUME IInv, NEW d \in Digit, KeyDigit(d)
    PROVE  IInv'
<1>1. /\ Key /\ UNCHANGED <<procs, room, opt, setup, sel, opened, sent>>
      /\ menu' = IF menu.state # "kill" THEN [menu EXCEPT !.lastNum = TRUE]
                 ELSE LET both == menu.number * 10 + d
                          val  == IF menu.lastNum /\ both <= NumSignals THEN both ELSE d
                      IN  [menu EXCEPT !.row = val, !.number = val, !.lastNum = TRUE]
  BY DEF KeyDigit, Same
<1>2. menu \in Menus /\ MaxRow \in Nat /\ NumSignals \in Nat /\ NumSignals <= MaxRow
  BY Typed
<1>3. menu.state # "kill" => menu' \in Menus /\ menu'.state = menu.state
  BY <1>1, <1>2 DEF Menus
<1>4. CASE menu.state = "kill"
  <2> DEFINE both == menu.number * 10 + d
             val  == IF menu.lastNum /\ both <= NumSignals THEN both ELSE d
  <2>1. d \in Nat /\ d <= NumSignals /\ menu.number \in Nat
    BY <1>2, PaneAssumption DEF Menus
  <2>2. both \in Nat
    BY <2>1
  <2>3. val \in Nat /\ val <= NumSignals
    <3> HIDE DEF both
    <3> QED BY <2>1, <2>2
  <2>4. menu' = [menu EXCEPT !.row = val, !.number = val, !.lastNum = TRUE]
    BY <1>1, <1>4
  <2> HIDE DEF val
  <2>5. menu' = [state |-> "kill", row |-> val, offset |-> menu.offset,
                 lastNum |-> TRUE, number |-> val]
    BY <1>2, <1>4, <2>4 DEF Menus
  <2>6. val \in 0 .. MaxRow /\ val \in 0 .. NumSignals /\ menu.offset \in 0 .. MaxRow
    BY <1>2, <2>3 DEF Menus
  <2>7. menu' \in Menus
    BY <2>5, <2>6 DEF Menus
  <2> QED BY <1>1, <1>4, <2>7, Typed, KeyStep
<1> QED BY <1>1, <1>3, <1>4, Typed, KeyStep
\* A key of the setup window: the list is not on the screen, no menu is open.
LEMMA SetupStep ==
    ASSUME IInv, SetupKey, opt' \in Options,
           UNCHANGED <<procs, room, setup, sel, menu, opened, sent>>
    PROVE  IInv'
<1>1. turn = "key" /\ turn' = "loop" /\ setup /\ setup'
  BY DEF SetupKey
<1>2. TypeOK'
  BY <1>1 DEF IInv, TypeOK
<1>3. HighlightInv' /\ ChosenInv'
  BY <1>1 DEF IInv, HighlightInv, ChosenInv
<1> QED BY <1>1, <1>2, <1>3, KeyKeeps

\* The options the setup window writes
LEMMA SetupOptions ==
    ASSUME TypeOK
    PROVE  /\ \A option \in {"hide", "filter", "desc"} :
                 SetupToggle(option) => /\ opt' \in Options
                                        /\ opt'.fields = opt.fields /\ opt'.sortBy = opt.sortBy
           /\ \A f \in Field : SetupSortBy(f) =>
                 opt' \in Options /\ opt'.fields = opt.fields /\ opt'.sortBy \in opt'.fields
           /\ \A f \in Field : SetupToggleField(f) =>
                 opt' \in Options /\ (opt'.fields # {} => opt'.sortBy \in opt'.fields)
<1>1. opt \in Options
  BY DEF TypeOK
<1>2. ASSUME NEW option \in {"hide", "filter", "desc"}, SetupToggle(option)
      PROVE  opt' \in Options /\ opt'.fields = opt.fields /\ opt'.sortBy = opt.sortBy
  <2> DEFINE b == ~opt[option]
  <2>1. opt' = [opt EXCEPT ![option] = b] /\ b \in BOOLEAN
    BY <1>2 DEF SetupToggle
  <2> HIDE DEF b
  <2>2. CASE option = "hide"
    <3>1. opt' = [opt EXCEPT !.hide = b]
      BY <2>1, <2>2
    <3> QED BY <1>1, <2>1, <3>1, Zenon DEF Options
  <2>3. CASE option = "filter"
    <3>1. opt' = [opt EXCEPT !.filter = b]
      BY <2>1, <2>3
    <3> QED BY <1>1, <2>1, <3>1, Zenon DEF Options
  <2>4. CASE option = "desc"
    <3>1. opt' = [opt EXCEPT !.desc = b]
      BY <2>1, <2>4
    <3> QED BY <1>1, <2>1, <3>1, Zenon DEF Options
  <2> QED BY <1>2, <2>2, <2>3, <2>4
<1>3. ASSUME NEW f \in Field, SetupSortBy(f)
      PROVE  opt' \in Options /\ opt'.fields = opt.fields /\ opt'.sortBy \in opt'.fields
  <2>1. opt' = [opt EXCEPT !.sortBy = f] /\ f \in opt.fields /\ f \in Field \cup {NumField}
    BY <1>3 DEF SetupSortBy
  <2>2. opt' \in Options
    BY <1>1, <2>1, Zenon DEF Options
  <2>3. opt'.fields = opt.fields /\ opt'.sortBy = f
    BY <1>1, <2>1 DEF Options
  <2> QED BY <2>1, <2>2, <2>3
<1>4. ASSUME NEW f \in Field, SetupToggleField(f)
      PROVE  opt' \in Options /\ (opt'.fields # {} => opt'.sortBy \in opt'.fields)
  <2> DEFINE fields == IF f \in opt.fields THEN opt.fields \ {f} ELSE opt.fields \cup {f}
             by == IF opt.sortBy \in fields THEN opt.sortBy ELSE DefaultSortBy(fields)
             o == [opt EXCEPT !.fields = fields]
  <2>1. opt.fields \in SUBSET Field /\ opt.sortBy \in Field \cup {NumField}
    BY <1>1 DEF Options
  <2>2. fields \in SUBSET Field
    BY <2>1
  <2>3. opt' = [o EXCEPT !.sortBy = by]
    BY <1>4 DEF SetupToggleField
  <2> HIDE DEF fields
  <2>4. by \in Field \cup {NumField} /\ (fields # {} => by \in fields)
    BY <2>1, <2>2, DefaultIsDisplayed
  <2> HIDE DEF by
  <2>5. o \in Options /\ o.fields = fields
    BY <1>1, <2>2, Zenon DEF Options
  <2> HIDE DEF o
  <2>6. opt' \in Options /\ opt'.fields = o.fields /\ opt'.sortBy = by
    BY <2>3, <2>4, <2>5, Zenon DEF Options
  <2> QED BY <2>4, <2>5, <2>6
<1> QED BY <1>2, <1>3, <1>4

-----------------------------------------------------------------------------
(* The theorems                                                            *)

\* Every step keeps the invariant.
LEMMA NextIInv == IInv /\ [Next]_vars => IInv'
<1> SUFFICES ASSUME IInv, [Next]_vars PROVE IInv'
  OBVIOUS
<1>1. CASE Iterate
  BY <1>1, IterateIInv
<1>2. CASE Resize
  BY <1>2, ResetIInv DEF Resize
<1>3. CASE Timeout
  BY <1>3, TimeoutIInv
<1>4. CASE KeySetup
  BY <1>4, KeySetupIInv
<1>5. CASE KeyKill
  BY <1>5, KeyKillIInv
<1>6. CASE KeySort
  BY <1>6, KeySortIInv
<1>7. CASE KeyUp
  BY <1>7, KeyUpIInv
<1>8. CASE KeyDown
  BY <1>8, KeyDownIInv
<1>9. CASE KeySend
  BY <1>9, KeySendIInv
<1>10. CASE KeySortChosen
  BY <1>10, KeySortChosenIInv
<1>11. CASE KeyEscape
  BY <1>11, KeyEscapeIInv
<1>12. CASE \E desc \in BOOLEAN : KeyOrder(desc)
  BY <1>12, KeyOrderIInv
<1>13. CASE \E d \in Digit : KeyDigit(d)
  BY <1>13, KeyDigitIInv
<1>14. CASE \E option \in {"hide", "filter", "desc"} : SetupToggle(option)
  <2>1. PICK option \in {"hide", "filter", "desc"} : SetupToggle(option)
    BY <1>14
  <2>2. SetupKey /\ UNCHANGED <<procs, room, setup, sel, menu, opened, sent>>
    BY <2>1 DEF SetupToggle, Same
  <2> QED BY <2>1, <2>2, SetupOptions, SetupStep DEF IInv
<1>15. ASSUME NEW f \in Field, SetupSortBy(f) \/ SetupToggleField(f) PROVE IInv'
  <2>1. SetupKey /\ UNCHANGED <<procs, room, setup, sel, menu, opened, sent>>
    BY <1>15 DEF SetupSortBy, SetupToggleField, Same
  <2>2. opt' \in Options
    BY <1>15, SetupOptions DEF IInv
  <2> QED BY <2>1, <2>2, SetupStep
<1>16. CASE SetupClose
  BY <1>16, ResetIInv DEF SetupClose, SetupKey
<1>17. CASE UNCHANGED vars
  <2>1. UNCHANGED <<procs, turn, opt, room, setup, sel, menu, opened, sent>>
    BY <1>17 DEF vars
  <2>2. PaneDrawn' = PaneDrawn
    BY <2>1, PaneStays
  <2>3. TypeOK' /\ HighlightInv'
    BY <2>1, <2>2 DEF IInv, TypeOK, HighlightInv
  <2>4. DrawnInv' /\ ChosenInv'
    BY <2>1, <2>2 DEF IInv, DrawnInv, ChosenInv, Synced
  <2>5. SignalGoesToHighlighted'
    BY <2>1, <2>2 DEF IInv, SignalGoesToHighlighted
  <2> QED BY <2>3, <2>4, <2>5 DEF IInv
<1> QED BY <1>1, <1>2, <1>3, <1>4, <1>5, <1>6, <1>7, <1>8, <1>9, <1>10, <1>11, <1>12, <1>13,
           <1>14, <1>15, <1>16, <1>17 DEF Next

\* The invariant holds in every state.
THEOREM PaneInvariant == Spec => []IInv
<1>1. Init => IInv
  BY InitIInv
<1>2. IInv /\ [Next]_vars => IInv'
  BY NextIInv
<1> QED BY <1>1, <1>2, PTL DEF Spec

\* A signal goes to the process that was highlighted when the signal menu was
\* opened, unless the order was reversed in the menu, and only while the list
\* is on the screen (interface_freeze_processes, option_do_kill).
THEOREM SignalsReachChosen == Spec => []SignalGoesToHighlighted
<1>1. IInv => SignalGoesToHighlighted
  BY DEF IInv
<1> QED BY <1>1, PaneInvariant, PTL

\* Where a draw puts the cursors they stay until the key is handled: no other
\* step ends with a key to be read.
LEMMA CursorStep == IInv /\ CursorVisible /\ [Next]_vars => CursorVisible'
<1> SUFFICES ASSUME IInv, CursorVisible, [Next]_vars PROVE CursorVisible'
  OBVIOUS
<1>1. TypeOK /\ TypeOK'
  BY NextIInv DEF IInv
<1>2. CASE Iterate
  <2>1. /\ turn' = "key" /\ procs' \in Lists /\ UNCHANGED <<opt, room, setup>>
        /\ PaneDrawn => sel' = DrawSel(procs') /\ menu' = DrawMenu
    BY <1>2 DEF Iterate
  <2>2. PaneDrawn' = PaneDrawn
    BY <2>1, PaneStays
  <2> SUFFICES ASSUME PaneDrawn
               PROVE  /\ sel'.pid # NoPid =>
                            /\ sel'.offset <= sel'.row /\ sel'.row < sel'.offset + WinRows
                            /\ sel'.offset = 0 \/ sel'.offset + WinRows <= Len(Shown(procs', opt'))
                      /\ menu'.state # "hidden" =>
                            menu'.offset <= menu'.row /\ menu'.row < menu'.offset + WinRows
    BY <1>1, <2>2 DEF CursorVisible
  <2>3. sel' = DrawSel(procs') /\ menu' = DrawMenu /\ opt' = opt
    BY <2>1
  <2>4. sel'.pid # NoPid =>
           /\ sel'.offset <= sel'.row /\ sel'.row < sel'.offset + WinRows
           /\ sel'.offset = 0 \/ sel'.offset + WinRows <= Len(Shown(procs', opt'))
    BY <1>1, <2>1, <2>3, SelDrawn
  <2>5. menu'.state # "hidden" =>
           menu'.offset <= menu'.row /\ menu'.row < menu'.offset + WinRows
    BY <1>1, <2>3, MenuDrawn
  <2> QED BY <2>4, <2>5
<1>3. CASE UNCHANGED vars
  <2>1. UNCHANGED <<procs, turn, opt, room, setup, sel, menu>>
    BY <1>3 DEF vars
  <2>2. PaneDrawn' = PaneDrawn /\ Shown(procs', opt') = Shown(procs, opt)
    BY <2>1, PaneStays
  <2> QED BY <1>1, <2>1, <2>2 DEF CursorVisible
<1>4. CASE Next /\ ~Iterate
  <2>1. turn' = "loop"
    BY <1>4 DEF Next, Resize, Timeout, Key, SetupKey, KeySetup, KeyKill, KeySort, KeyUp, KeyDown,
                KeyOrder, KeySend, KeySortChosen, KeyEscape, KeyDigit,
                SetupToggle, SetupSortBy, SetupToggleField, SetupClose
  <2> QED BY <1>1, <2>1 DEF CursorVisible
<1> QED BY <1>2, <1>3, <1>4

\* The highlighted row and menu entry are inside the window, which is kept
\* full (update_selected_offset_with_window_size).
THEOREM CursorsOnScreen == Spec => []CursorVisible
<1>1. Init => CursorVisible
  BY InitIInv DEF Init, CursorVisible, IInv
<1>2. IInv /\ IInv' /\ CursorVisible /\ [Next]_vars => CursorVisible'
  BY CursorStep
<1> QED BY <1>1, <1>2, PaneInvariant, PTL DEF Spec

\* The sort field is taken away from the displayed ones by no choice made in
\* a menu or in the setup window (option_change_sort, process_default_sort_by_from).
THEOREM SortFieldStays == Spec => SortFieldKept
<1>1. IInv /\ [Next]_vars => [SortedByShown => SortedByShown']_vars
  <2> SUFFICES ASSUME IInv, Next, SortedByShown PROVE SortedByShown'
    BY DEF vars, SortedByShown
  <2>1. TypeOK
    BY DEF IInv
  <2>2. CASE UNCHANGED opt
    BY <2>2 DEF SortedByShown
  <2>3. CASE KeySortChosen
    BY <2>1, <2>3, ChosenIsDisplayed DEF SortedByShown
  <2>4. ASSUME NEW desc \in BOOLEAN, KeyOrder(desc) PROVE SortedByShown'
    <3>1. opt' = [opt EXCEPT !.desc = desc] /\ opt \in Options
      BY <2>1, <2>4 DEF KeyOrder, TypeOK
    <3>2. opt'.fields = opt.fields /\ opt'.sortBy = opt.sortBy
      BY <3>1, Zenon DEF Options
    <3> QED BY <3>2 DEF SortedByShown
  <2>5. ASSUME NEW option \in {"hide", "filter", "desc"}, SetupToggle(option) PROVE SortedByShown'
    <3>1. opt'.fields = opt.fields /\ opt'.sortBy = opt.sortBy
      BY <2>1, <2>5, SetupOptions
    <3> QED BY <3>1 DEF SortedByShown
  <2>6. ASSUME NEW f \in Field, SetupSortBy(f) \/ SetupToggleField(f) PROVE SortedByShown'
    BY <2>1, <2>6, SetupOptions DEF SortedByShown
  <2> QED BY <2>2, <2>3, <2>4, <2>5, <2>6
          DEF Next, Iterate, Resize, Timeout, KeySetup, KeyKill, KeySort, KeyUp, KeyDown, KeySend,
              KeyEscape, KeyDigit, SetupClose
<1> QED BY <1>1, PaneInvariant, PTL DEF Spec, SortFieldKept
=============================================================================
