----------------------------- MODULE RingBuffer -----------------------------
(***************************************************************************)
(* The whole sample store: one ring per monitored device and per metric    *)
(* drawn for it, with the operations of interface_ring_buffer.h as         *)
(* actions.  interface_alloc_ring_buffer callocs the indices and mallocs   *)
(* the cells, so the cells start with arbitrary contents.                  *)
(***************************************************************************)
EXTENDS Ring

CONSTANTS Device,   \* 0 .. monitored_dev_count - 1
          Which     \* 0 .. per_device_data_saved - 1

VARIABLE ring       \* ring[d][w] \in RingState

\* Both indices of every line stay inside its array (the C code relies on
\* this without checking it: data[device][which_data][end] = value).
TypeOK == ring \in [Device -> [Which -> RingState]]

\* interface_alloc_ring_buffer
Init ==
    \E garbage \in [Device -> [Which -> [Index -> Sample]]] :
        ring = [d \in Device |-> [w \in Which |->
                   [start |-> 0, end |-> 0, data |-> garbage[d][w]]]]

PushSample(d, w, value) == ring' = [ring EXCEPT ![d][w] = Push(ring[d][w], value)]

PopSample(d, w) == ring' = [ring EXCEPT ![d][w] = Pop(ring[d][w])]

EmptySelect(d, w) == ring' = [ring EXCEPT ![d][w] = Clear(ring[d][w])]

\* interface_ring_buffer_empty: every line of one device
Empty(d) == ring' = [ring EXCEPT ![d] = [w \in Which |-> Clear(ring[d][w])]]

Next ==
    \E d \in Device :
        \/ \E w \in Which :
              \/ \E value \in Sample : PushSample(d, w, value)
              \/ PopSample(d, w)
              \/ EmptySelect(d, w)
        \/ Empty(d)

Spec == Init /\ [][Next]_ring

-----------------------------------------------------------------------------
(***************************************************************************)
(* The rings implement the bounded histories.                              *)
(***************************************************************************)
Abstract == INSTANCE BoundedHistory WITH
    Capacity <- BufferSize - 1,
    hist     <- [d \in Device |-> [w \in Which |-> Samples(ring[d][w])]]

\* Each operation on the rings is the operation of the same name on the
\* histories.  (Without this a push that empties a full line would pass for
\* an Empty.)
OperationsCorrespond ==
    \A d \in Device :
        /\ \A w \in Which :
              /\ \A value \in Sample :
                    PushSample(d, w, value) => Abstract!HistPush(d, w, value)
              /\ PopSample(d, w) => Abstract!HistPop(d, w)
              /\ EmptySelect(d, w) => Abstract!HistEmptySelect(d, w)
        /\ Empty(d) => Abstract!HistEmpty(d)

\* Whatever sequence of pushes, pops and clears is made on whichever lines,
\* what interface_ring_buffer_get returns for 0 .. stored - 1 is the sequence
\* of the newest BufferSize - 1 samples pushed to that line since it was last
\* emptied, in push order: no wrap-around loses, repeats or reorders a sample,
\* and no operation disturbs another line.
RefinesHistory == Abstract!HistSpec /\ [][OperationsCorrespond]_ring
=============================================================================
