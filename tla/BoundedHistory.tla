--------------------------- MODULE BoundedHistory ---------------------------
(***************************************************************************)
(* What the sample store promises its users: for every line the sequence   *)
(* of the last Capacity samples pushed since the line was last emptied,    *)
(* oldest first.  No index, no cell, no wrap-around.                       *)
(***************************************************************************)
EXTENDS Integers, Sequences

CONSTANTS Device, Which, Sample, Capacity

VARIABLE hist       \* hist[d][w]: the samples kept, oldest first

\* The newest Capacity elements of s.
Newest(s) == IF Len(s) > Capacity THEN Tail(s) ELSE s

HistInit == hist = [d \in Device |-> [w \in Which |-> <<>>]]

HistPush(d, w, v) ==
    hist' = [hist EXCEPT ![d][w] = Newest(Append(hist[d][w], v))]

\* Popping a line that has no sample does nothing.
HistPop(d, w) ==
    hist' = [hist EXCEPT ![d][w] = IF @ = <<>> THEN <<>> ELSE Tail(@)]

HistEmptySelect(d, w) == hist' = [hist EXCEPT ![d][w] = <<>>]

HistEmpty(d) == hist' = [hist EXCEPT ![d] = [w \in Which |-> <<>>]]

HistNext ==
    \E d \in Device :
        \/ \E w \in Which :
              \/ \E v \in Sample : HistPush(d, w, v)
              \/ HistPop(d, w)
              \/ HistEmptySelect(d, w)
        \/ HistEmpty(d)

HistSpec == HistInit /\ [][HistNext]_hist
=============================================================================
