-------------------------------- MODULE Ring --------------------------------
(***************************************************************************)
(* One line of the sample store of the interface                           *)
(* (include/nvtop/interface_ring_buffer.h).  The C structure keeps, for    *)
(* every pair (device, data), two indices start and end and an array of    *)
(* BufferSize cells; every inline function works on one such pair, so the  *)
(* functions are operators on the record of one pair.                      *)
(*                                                                         *)
(* start = end means "empty", so the array holds at most BufferSize - 1    *)
(* samples: a push that makes end meet start gives up the oldest one.      *)
(***************************************************************************)
EXTENDS Integers, Sequences

CONSTANTS
    BufferSize,     \* buffer_size: 10 * 60 * 1000 in initialize_curses
    Sample          \* the values that can be stored

ASSUME BufferSizeAssumption == BufferSize \in Nat \ {0}

Index == 0 .. BufferSize - 1

RingState == [start : Index, end : Index, data : [Index -> Sample]]

\* Fault: the index is compared with the last cell and may leave the array.
WrapLate(i) == IF i = BufferSize + 1 THEN 0 ELSE i

\* The wrap-around of an index that was just incremented.
Wrap(i) == IF i = BufferSize THEN i - BufferSize ELSE i

\* interface_ring_buffer_data_stored
Stored(r) == IF r.end < r.start THEN r.end - r.start + BufferSize
                                ELSE r.end - r.start

\* interface_index_in_ring: the cell of the index-th oldest sample.  The
\* assertion of the C code is the precondition index < Stored(r).
IndexInRing(r, index) ==
    IF r.start + index >= BufferSize THEN r.start + index - BufferSize
                                     ELSE r.start + index

\* interface_ring_buffer_get
Get(r, index) == r.data[IndexInRing(r, index)]

\* Fault: the oldest sample is given up one push too late.
PushNoEvict(r, value) ==
    [data  |-> [r.data EXCEPT ![r.end] = value],
     start |-> r.start,
     end   |-> Wrap(r.end + 1)]

\* interface_ring_buffer_push
Push(r, value) ==
    LET end == Wrap(r.end + 1)
    IN  [data  |-> [r.data EXCEPT ![r.end] = value],
         start |-> IF end = r.start THEN Wrap(r.start + 1) ELSE r.start,
         end   |-> end]

\* interface_ring_buffer_pop
Pop(r) ==
    IF r.start # r.end THEN [r EXCEPT !.start = Wrap(r.start + 1)] ELSE r

\* interface_ring_buffer_empty_select
Clear(r) == [start |-> 0, end |-> 0, data |-> r.data]

\* The samples a reader of the ring can get, oldest first.
Samples(r) == [i \in 1 .. Stored(r) |-> Get(r, i - 1)]
=============================================================================
