------------------------------- MODULE Store -------------------------------
(***************************************************************************)
(* The in-memory store of the web sidecar (web/internal/store/store.go)    *)
(* with its one writer, the callbacks OnSnapshot and OnStatus that main.go *)
(* gives the collector, and its readers, the HTTP handlers of              *)
(* web/internal/api/server.go.  Every method holds the store's lock, so it *)
(* is one step; OnStatus calls two methods, Latest and SetMeta, and is two *)
(* steps between which the handlers may run.                               *)
(*                                                                         *)
(* A snapshot is named by its number, a point of the history by the        *)
(* number of its snapshot and by its time stamp in whole seconds.  The     *)
(* wall clock the time stamps come from may be set back.                   *)
(***************************************************************************)
EXTENDS Integers, Sequences, SequencesExt

CONSTANTS
    Capacity,       \* len(s.history), at least 1
    MaxSnapshot,    \* bound: snapshots numbered 1 .. MaxSnapshot
    NoMeta,         \* no Meta in the hands of OnStatus
    Second          \* the whole seconds a time stamp can be

ASSUME StoreAssumption ==
    /\ Capacity \in Nat \ {0}
    /\ MaxSnapshot \in Nat
    /\ Second \subseteq Nat

VARIABLES
    latest,         \* s.latest, 0 before the first snapshot
    meta,           \* s.meta: which snapshot LastUpdate dates, and Status
    history,        \* s.history
    next, count,    \* s.next, s.count
    pending         \* the Meta OnStatus read and will write back, or NoMeta

vars == <<latest, meta, history, next, count, pending>>

Status == {"starting", "ok", "stale", "no_gpu"}
Meta == [lastUpdate : 0 .. MaxSnapshot, status : Status]
Point == [ts : Second, snapshot : 1 .. MaxSnapshot]
ZeroPoint == [ts |-> 0, snapshot |-> 0]

\* The ring's index and count stay within the slice History walks.
TypeOK ==
    /\ latest \in 0 .. MaxSnapshot
    /\ meta \in Meta
    /\ history \in [0 .. Capacity - 1 -> Point \cup {ZeroPoint}]
    /\ next \in 0 .. Capacity - 1
    /\ count \in 0 .. Capacity
    /\ pending \in Meta \cup {NoMeta}

\* store.New
Init ==
    /\ latest = 0
    /\ meta = [lastUpdate |-> 0, status |-> "starting"]
    /\ history = [i \in 0 .. Capacity - 1 |-> ZeroPoint]
    /\ next = 0 /\ count = 0
    /\ pending = NoMeta

\* Fault: the point is written at the index that was already advanced.
SetLatestSkips(snapshot, ts) ==
    /\ latest' = snapshot
    /\ meta' = [lastUpdate |-> snapshot, status |-> "ok"]
    /\ next' = (next + 1) % Capacity
    /\ history' = [history EXCEPT ![next'] = [ts |-> ts, snapshot |-> snapshot]]
    /\ count' = IF count < Capacity THEN count + 1 ELSE count

\* Store.SetLatest with the Meta OnSnapshot gives it
SetLatest(snapshot, ts) ==
    /\ latest' = snapshot
    /\ meta' = [lastUpdate |-> snapshot, status |-> "ok"]
    /\ history' = [history EXCEPT ![next] = [ts |-> ts, snapshot |-> snapshot]]
    /\ next' = (next + 1) % Capacity
    /\ count' = IF count < Capacity THEN count + 1 ELSE count

\* OnSnapshot: a new snapshot is published.
OnSnapshot ==
    /\ pending = NoMeta
    /\ latest < MaxSnapshot
    /\ \E ts \in Second : SetLatest(latest + 1, ts)
    /\ UNCHANGED pending

\* Fault: the status is written with a new Meta, without LastUpdate.
OnStatusReadNothing ==
    /\ pending = NoMeta
    /\ \E status \in {"stale", "no_gpu"} :
          pending' = [lastUpdate |-> 0, status |-> status]
    /\ UNCHANGED <<latest, meta, history, next, count>>

\* OnStatus, first half: Latest, and the two fields it changes.
OnStatusRead ==
    /\ pending = NoMeta
    /\ \E status \in {"stale", "no_gpu"} :
          pending' = [meta EXCEPT !.status = status]
    /\ UNCHANGED <<latest, meta, history, next, count>>

\* OnStatus, second half: SetMeta.
OnStatusWrite ==
    /\ pending # NoMeta
    /\ meta' = pending
    /\ pending' = NoMeta
    /\ UNCHANGED <<latest, history, next, count>>

Next == OnSnapshot \/ OnStatusRead \/ OnStatusWrite

Spec == Init /\ [][Next]_vars

-----------------------------------------------------------------------------
(* What the handlers read                                                  *)

\* The points the loop of History walks over, from the oldest to the newest.
KeptPoints ==
    LET start == (next - count + Capacity) % Capacity
    IN  [i \in 1 .. count |-> history[(start + i - 1) % Capacity]]

\* Store.History: the points that are not older than since.
History(since) ==
    LET points == KeptPoints
        out[i \in 0 .. count] ==
            IF i = 0 THEN <<>>
            ELSE IF points[i].ts >= since THEN Append(out[i - 1], points[i]) ELSE out[i - 1]
    IN  out[count]

-----------------------------------------------------------------------------
(* Properties                                                              *)

Points == INSTANCE BoundedHistory WITH
    Device <- {"store"}, Which <- {"points"}, Sample <- Point,
    hist   <- [d \in {"store"} |-> [w \in {"points"} |-> KeptPoints]]

\* The ring of points behaves as the bounded history of the newest Capacity
\* snapshots: publishing pushes one point and gives up at most the oldest one,
\* a change of status leaves the points alone.
RefinesPoints ==
    /\ Points!HistInit
    /\ [][IF latest' # latest
          THEN \E ts \in Second :
                  Points!HistPush("store", "points", [ts |-> ts, snapshot |-> latest'])
          ELSE UNCHANGED KeptPoints]_vars

\* /api/history?since=t gives exactly the kept points that are not older
\* than t, each once and in the order they were published, also when the
\* clock was set back between them.  (And every variable has its type.)
HistorySinceIsExact ==
    /\ TypeOK
    /\ \A since \in Second :
          LET answer == History(since) IN
          /\ \A i, j \in 1 .. Len(answer) :
                i < j => answer[i].snapshot < answer[j].snapshot
          /\ ToSet(answer) = {p \in ToSet(KeptPoints) : p.ts >= since}
          /\ count > 0 => KeptPoints[count].snapshot = latest

\* /api/metrics reports the age of the snapshot it shows: LastUpdate always
\* dates the latest snapshot, although OnStatus writes back a Meta it read in
\* an earlier step.
MetaDatesLatest == meta.lastUpdate = latest
=============================================================================
