--------------------------- MODULE Sidecar_proofs ---------------------------
(***************************************************************************)
(* Proofs about the sidecar's child process and its collector, for any     *)
(* number of process identifiers, any capacity of the pipe and of the      *)
(* channel, and any limits of the backoff.                                 *)
(***************************************************************************)
EXTENDS Sidecar, TLAPS

-----------------------------------------------------------------------------
(* The inductive invariant                                                 *)

\* What was made for one child: done is sent after the child was waited for,
\* and it is waited for after the readers have met the end of an empty pipe;
\* until then the no-GPU line is in the pipe or has been kept.
ChildOk(c) ==
    /\ c.done # "none" => c.proc = "none"
    /\ c.proc = "none" => c.reader = "eof"
    /\ c.reader = "eof" => c.pipe = <<>> /\ c.proc # "run"
    /\ c.said => c.output \/ \E i \in 1 .. Len(c.pipe) : c.pipe[i] = "nogpu"

\* A process that was not waited for is the current one.
OnlyCurrent == \A p \in Pid : child[p].proc # "none" => p = cmd

\* Where the goroutines are, and what they have established by then.
FlowInv ==
    /\ pc \in {"select", "deliver", "reap"} => cmd # NoPid
    /\ pc = "reap" => child[cmd].done = "taken"
    /\ pc = "error" => err # "none"
    /\ main \in {"sigterm", "grace"} => target # NoPid
    /\ healthySince = "minute" => lastError = "minute"

ChildrenInv == ExecTypeOK /\ (\A p \in Pid : ChildOk(child[p])) /\ OnlyCurrent

IInv == TypeOK /\ ChildrenInv /\ FlowInv

-----------------------------------------------------------------------------
(* Children                                                                *)

\* The steps of a child and of its goroutines replace one record, and the
\* new record is a child again that lives on only if the old one did.
Succeeds(old, c) ==
    /\ c \in Child /\ ChildOk(c)
    /\ c.proc # "none" => old.proc # "none"
    /\ old.done # "none" => c.done # "none"
    /\ old.done = "taken" => c.done = "taken"

\* A signal that is delivered takes nothing of the child's history back.
LEMMA SucceedsSignal ==
    ASSUME NEW c \in Child, ChildOk(c), NEW s \in {"term", "kill"}
    PROVE  Succeeds(c, [c EXCEPT !.signal = @ \cup {s}])
BY DEF Succeeds, Child, ChildOk, Mood

\* Nor does a frame that is printed or read.
LEMMA SucceedsFrames ==
    ASSUME NEW c \in Child, ChildOk(c), NEW f \in Seq({"ok", "bad", "late"})
    PROVE  Succeeds(c, [c EXCEPT !.frames = f])
BY DEF Succeeds, Child, ChildOk, Mood

\* Next receives the end of a child after the child was waited for.
LEMMA SucceedsTaken ==
    ASSUME NEW c \in Child, ChildOk(c), c.done = "ready"
    PROVE  Succeeds(c, [c EXCEPT !.done = "taken"])
BY DEF Succeeds, Child, ChildOk, Mood

\* A longer pipe still holds the no-GPU line the shorter one held.
Printed(old, new) ==
    (\E i \in 1 .. Len(old) : old[i] = "nogpu") => \E i \in 1 .. Len(new) : new[i] = "nogpu"

\* What a child prints goes behind what the pipe holds.
LEMMA PipeAppend ==
    ASSUME NEW c \in Child, NEW item \in {"ok", "bad", "nogpu"}
    PROVE  LET s == Append(c.pipe, item)
           IN  /\ s \in Seq({"ok", "bad", "nogpu"})
               /\ Printed(c.pipe, s)
               /\ item = "nogpu" => \E i \in 1 .. Len(s) : s[i] = "nogpu"
<1>1. c.pipe \in Seq({"ok", "bad", "nogpu"})
  BY DEF Child
<1> DEFINE s == Append(c.pipe, item)
<1>2. /\ s \in Seq({"ok", "bad", "nogpu"})
      /\ Len(s) = Len(c.pipe) + 1 /\ Len(c.pipe) \in Nat
      /\ s[Len(s)] = item /\ \A i \in 1 .. Len(c.pipe) : s[i] = c.pipe[i]
  BY <1>1
<1> HIDE DEF s
<1>3. Printed(c.pipe, s)
  BY <1>2 DEF Printed
<1>4. item = "nogpu" => \E i \in 1 .. Len(s) : s[i] = "nogpu"
  BY <1>2
<1> QED BY <1>2, <1>3, <1>4 DEF s

\* What the child itself does.
LEMMA SucceedsChild ==
    ASSUME IInv, NEW p \in Pid,
           Emit(p) \/ PrintNoGpu(p) \/ ChangeMood(p) \/ Exit(p) \/ DieOf(p, "term") \/ DieOf(p, "kill")
    PROVE  cmd' = cmd /\ \E c : Succeeds(child[p], c) /\ child' = [child EXCEPT ![p] = c]
<1>1. child[p] \in Child /\ ChildOk(child[p])
  BY DEF IInv, ChildrenInv, ExecTypeOK
<1>2. CASE Emit(p)
  <2> DEFINE item == IF child[p].mood = "good" THEN "ok" ELSE "bad"
             s == Append(child[p].pipe, item)
             c == [child[p] EXCEPT !.pipe = s]
  <2>1. child[p].proc = "run" /\ child' = [child EXCEPT ![p] = c] /\ cmd' = cmd
    BY <1>2 DEF Emit, Running
  <2>2. item \in {"ok", "bad", "nogpu"}
    OBVIOUS
  <2> HIDE DEF item
  <2>3. s \in Seq({"ok", "bad", "nogpu"}) /\ Printed(child[p].pipe, s)
    BY <1>1, <2>2, PipeAppend
  <2> HIDE DEF s
  <2>4. Succeeds(child[p], c)
    BY <1>1, <2>1, <2>3 DEF Succeeds, Child, ChildOk, Printed
  <2> QED BY <2>1, <2>4
<1>3. CASE PrintNoGpu(p)
  <2> DEFINE s == Append(child[p].pipe, "nogpu")
             c == [child[p] EXCEPT !.pipe = s, !.said = TRUE]
  <2>1. child[p].proc = "run" /\ child' = [child EXCEPT ![p] = c] /\ cmd' = cmd
    BY <1>3 DEF PrintNoGpu, Running
  <2>2. s \in Seq({"ok", "bad", "nogpu"}) /\ \E i \in 1 .. Len(s) : s[i] = "nogpu"
    BY <1>1, PipeAppend
  <2> HIDE DEF s
  <2>3. Succeeds(child[p], c)
    BY <1>1, <2>1, <2>2 DEF Succeeds, Child, ChildOk
  <2> QED BY <2>1, <2>3
<1>4. CASE ChangeMood(p)
  <2>1. PICK m \in Mood : child' = [child EXCEPT ![p].mood = m]
    BY <1>4 DEF ChangeMood
  <2> DEFINE c == [child[p] EXCEPT !.mood = m]
  <2>2. child' = [child EXCEPT ![p] = c] /\ cmd' = cmd
    BY <1>4, <2>1 DEF ChangeMood
  <2>3. Succeeds(child[p], c)
    BY <1>1 DEF Succeeds, Child, ChildOk
  <2> QED BY <2>2, <2>3
<1>5. CASE Exit(p) \/ DieOf(p, "term") \/ DieOf(p, "kill")
  <2>1. child[p].proc = "run" /\ child' = [child EXCEPT ![p] = Dead(p)] /\ cmd' = cmd
    BY <1>5 DEF Exit, DieOf, Running
  <2>2. Succeeds(child[p], Dead(p))
    BY <1>1, <2>1 DEF Succeeds, Child, ChildOk, Dead, Mood
  <2> QED BY <2>1, <2>2
<1> QED BY <1>2, <1>3, <1>4, <1>5

\* What its goroutines do.
LEMMA SucceedsGoroutine ==
    ASSUME IInv, NEW p \in Pid, ReadPipe(p) \/ ReadEof(p) \/ Wait(p)
    PROVE  cmd' = cmd /\ \E c : Succeeds(child[p], c) /\ child' = [child EXCEPT ![p] = c]
<1>1. child[p] \in Child /\ ChildOk(child[p])
  BY DEF IInv, ChildrenInv, ExecTypeOK
<1>2. CASE ReadPipe(p)
  <2> DEFINE item == Head(child[p].pipe)
             room == Len(child[p].frames) < FramesCap
             c == [child[p] EXCEPT
                      !.pipe   = Tail(@),
                      !.output = @ \/ item = "nogpu",
                      !.frames = IF item # "nogpu" /\ room THEN Append(@, item) ELSE @]
  <2>1. /\ child[p].reader = "on" /\ child[p].pipe # <<>>
        /\ child' = [child EXCEPT ![p] = c] /\ cmd' = cmd
    BY <1>2 DEF ReadPipe
  <2>2. c \in Child
    <3>1. item \in {"ok", "bad", "nogpu"} /\ Tail(child[p].pipe) \in Seq({"ok", "bad", "nogpu"})
      BY <1>1, <2>1 DEF Child
    <3>2. child[p].frames \in Seq({"ok", "bad", "late"})
      BY <1>1 DEF Child
    <3> HIDE DEF item
    <3>3. (IF item # "nogpu" /\ room THEN Append(child[p].frames, item) ELSE child[p].frames)
              \in Seq({"ok", "bad", "late"})
      BY <3>1, <3>2
    <3>4. (child[p].output \/ item = "nogpu") \in BOOLEAN
      BY <1>1, Zenon DEF Child
    <3> HIDE DEF room
    <3> QED BY <1>1, <3>1, <3>3, <3>4 DEF Child
  <2>3. c.said = child[p].said /\ c.pipe = Tail(child[p].pipe) /\ c.proc = child[p].proc
        /\ c.reader = child[p].reader /\ c.done = child[p].done
    BY <1>1 DEF Child
  <2>4. (child[p].output \/ item = "nogpu") => c.output
    BY <1>1, Zenon DEF Child
  <2> HIDE DEF c
  <2>5. c.said => c.output \/ \E i \in 1 .. Len(c.pipe) : c.pipe[i] = "nogpu"
    <3>1. ASSUME c.said, ~c.output PROVE \E i \in 1 .. Len(c.pipe) : c.pipe[i] = "nogpu"
      <4>1. ~child[p].output /\ item # "nogpu" /\ child[p].said
        BY <2>3, <2>4, <3>1
      <4>2. PICK i \in 1 .. Len(child[p].pipe) : child[p].pipe[i] = "nogpu"
        BY <1>1, <4>1 DEF ChildOk
      <4>3. child[p].pipe \in Seq({"ok", "bad", "nogpu"})
        BY <1>1 DEF Child
      <4>4. i # 1
        BY <2>1, <4>1, <4>2, <4>3
      <4>5. i - 1 \in 1 .. Len(Tail(child[p].pipe)) /\ Tail(child[p].pipe)[i - 1] = "nogpu"
        BY <2>1, <4>2, <4>3, <4>4
      <4> QED BY <2>3, <4>5
    <3> QED BY <3>1
  <2>6. Succeeds(child[p], c)
    BY <1>1, <2>1, <2>2, <2>3, <2>5 DEF Succeeds, ChildOk
  <2> QED BY <2>1, <2>6
<1>3. CASE ReadEof(p)
  <2> DEFINE c == [child[p] EXCEPT !.reader = "eof"]
  <2>1. /\ child[p].pipe = <<>> /\ child[p].proc = "dead"
        /\ child' = [child EXCEPT ![p] = c] /\ cmd' = cmd
    BY <1>3 DEF ReadEof
  <2>2. Succeeds(child[p], c)
    BY <1>1, <2>1 DEF Succeeds, Child, ChildOk
  <2> QED BY <2>1, <2>2
<1>4. CASE Wait(p)
  <2> DEFINE c == [child[p] EXCEPT !.proc = "none", !.done = "ready"]
  <2>1. /\ child[p].proc = "dead" /\ child[p].reader = "eof"
        /\ child' = [child EXCEPT ![p] = c] /\ cmd' = cmd
    BY <1>4 DEF Wait
  <2>2. Succeeds(child[p], c)
    BY <1>1, <2>1 DEF Succeeds, Child, ChildOk
  <2> QED BY <2>1, <2>2
<1> QED BY <1>2, <1>3, <1>4

-----------------------------------------------------------------------------
(* All children                                                            *)

\* What a step that keeps the current child leaves true of the children.
ChildrenKept ==
    /\ cmd' = cmd
    /\ ChildrenInv'
    /\ \A q \in Pid : child[q].done = "taken" => child'[q].done = "taken"

\* A step of one child, or of a goroutine of it, keeps the facts about all.
LEMMA KeptByUpdate ==
    ASSUME ChildrenInv, NEW p \in Pid, NEW c, Succeeds(child[p], c),
           child' = [child EXCEPT ![p] = c], cmd' = cmd
    PROVE  ChildrenKept
<1>1. child \in [Pid -> Child] /\ child' \in [Pid -> Child]
  BY DEF ChildrenInv, ExecTypeOK, Succeeds
<1>2. \A q \in Pid : child'[q] = child[q] \/ (q = p /\ child'[q] = c)
  BY <1>1
<1>3. ExecTypeOK'
  BY <1>1 DEF ChildrenInv, ExecTypeOK
<1>4. \A q \in Pid : ChildOk(child'[q])
  BY <1>2 DEF ChildrenInv, Succeeds
<1>5. OnlyCurrent'
  BY <1>2 DEF ChildrenInv, OnlyCurrent, Succeeds
<1>6. \A q \in Pid : child[q].done = "taken" => child'[q].done = "taken"
  BY <1>2 DEF Succeeds
<1> QED BY <1>3, <1>4, <1>5, <1>6 DEF ChildrenKept, ChildrenInv

\* A step of the collector or of main that leaves the children alone.
LEMMA KeptByStutter ==
    ASSUME ChildrenInv, UNCHANGED execVars
    PROVE  ChildrenKept
BY DEF ChildrenKept, ChildrenInv, ExecTypeOK, OnlyCurrent, execVars

\* A signal goes to the process if it still runs, and to nobody otherwise.
LEMMA KeptBySignal ==
    ASSUME ChildrenInv, NEW p \in Pid \cup {NoPid}, NEW s \in {"term", "kill"},
           child' = Signalled(child, p, s), cmd' = cmd
    PROVE  ChildrenKept
<1>1. CASE p # NoPid /\ child[p].proc = "run"
  <2> DEFINE c == [child[p] EXCEPT !.signal = @ \cup {s}]
  <2>1. p \in Pid /\ child[p] \in Child /\ ChildOk(child[p])
    BY <1>1 DEF ChildrenInv, ExecTypeOK
  <2>2. child' = [child EXCEPT ![p] = c]
    BY <1>1 DEF Signalled
  <2>3. Succeeds(child[p], c)
    BY <2>1, SucceedsSignal
  <2> HIDE DEF c
  <2> QED BY <2>1, <2>2, <2>3, KeptByUpdate
<1>2. CASE ~(p # NoPid /\ child[p].proc = "run")
  BY <1>2, KeptByStutter DEF Signalled, execVars
<1> QED BY <1>1, <1>2

\* done is received by one of the two who wait for it.
LEMMA KeptByReceive ==
    ASSUME ChildrenInv, NEW p \in Pid, child[p].done = "ready",
           child' = [child EXCEPT ![p].done = "taken"], cmd' = cmd
    PROVE  ChildrenKept /\ child'[p].done = "taken"
<1> DEFINE c == [child[p] EXCEPT !.done = "taken"]
<1>1. child[p] \in Child /\ ChildOk(child[p]) /\ child \in [Pid -> Child]
  BY DEF ChildrenInv, ExecTypeOK
<1>2. child' = [child EXCEPT ![p] = c]
  OBVIOUS
<1>3. Succeeds(child[p], c) /\ c.done = "taken"
  BY <1>1, SucceedsTaken DEF Child
<1> HIDE DEF c
<1> QED BY <1>1, <1>2, <1>3, KeptByUpdate

\* A wait makes the frames in the channels old and nothing else.
LEMMA KeptByAging ==
    ASSUME ChildrenInv, cmd' = cmd,
           child' = [p \in Pid |-> [child[p] EXCEPT !.frames =
                        [i \in DOMAIN @ |-> IF @[i] = "ok" THEN "late" ELSE @[i]]]]
    PROVE  ChildrenKept
<1> DEFINE aged(s) == [i \in DOMAIN s |-> IF s[i] = "ok" THEN "late" ELSE s[i]]
<1>1. \A s \in Seq({"ok", "bad", "late"}) : aged(s) \in Seq({"ok", "bad", "late"})
  <2>1. SUFFICES ASSUME NEW s \in Seq({"ok", "bad", "late"})
                 PROVE  aged(s) \in Seq({"ok", "bad", "late"})
    OBVIOUS
  <2>2. Len(s) \in Nat /\ DOMAIN s = 1 .. Len(s)
    OBVIOUS
  <2>3. aged(s) \in [1 .. Len(s) -> {"ok", "bad", "late"}]
    BY <2>2
  <2> QED BY <2>2, <2>3
<1>2. \A p \in Pid : child'[p] = [child[p] EXCEPT !.frames = aged(child[p].frames)]
  OBVIOUS
<1>3. \A p \in Pid : child[p] \in Child /\ ChildOk(child[p]) /\ aged(child[p].frames) \in Seq({"ok", "bad", "late"})
  BY <1>1 DEF ChildrenInv, ExecTypeOK, Child
<1> HIDE DEF aged
<1>4. \A p \in Pid : Succeeds(child[p], child'[p])
  BY <1>2, <1>3, SucceedsFrames
<1>5. child' \in [Pid -> Child]
  BY <1>4 DEF Succeeds
<1> QED BY <1>4, <1>5 DEF ChildrenKept, ChildrenInv, ExecTypeOK, OnlyCurrent, Succeeds

-----------------------------------------------------------------------------
(* The collector and main                                                  *)

\* The types of what only the two goroutines write.
GoTypeOK ==
    /\ pc \in {"next", "select", "deliver", "reap", "error", "backoff", "returned"}
    /\ frame \in {NoFrame, "ok", "bad", "late"}
    /\ err \in {"none", "stale", "no_gpu"}
    /\ failures \in 0 .. MaxFailures - 1
    /\ backoff \in MinBackoff .. MaxBackoff
    /\ wait \in MinBackoff .. MaxBackoff
    /\ healthySince \in {"zero", "recent", "minute"}
    /\ status \in {"starting", "ok", "stale", "no_gpu"}
    /\ main \in {"serve", "terminate", "sigterm", "grace", "kill", "killing", "cancel", "shutdown", "exited", "failed"}
    /\ target \in Pid \cup {NoPid}
    /\ cancelled \in BOOLEAN
    /\ lastError \in {"recent", "minute"}

\* The sidecar starts without a child.
LEMMA InitIInv == Init => IInv
<1>1. ASSUME Init PROVE GoTypeOK
  <2>1. 0 \in 0 .. MaxFailures - 1 /\ MinBackoff \in MinBackoff .. MaxBackoff
    BY SidecarAssumption
  <2>2. cancelled \in BOOLEAN
    BY <1>1 DEF Init
  <2> QED BY <1>1, <2>1, <2>2 DEF Init, GoTypeOK, NoFrame
<1>2. ASSUME Init PROVE ChildrenInv
  <2>1. NoChild \in Child /\ ChildOk(NoChild)
    BY DEF NoChild, Child, ChildOk, Mood
  <2>2. cmd = NoPid /\ child = [p \in Pid |-> NoChild]
    BY <1>2 DEF Init, ExecInit
  <2>3. \A p \in Pid : child[p].proc = "none"
    BY <2>2 DEF NoChild
  <2> QED BY <2>1, <2>2, <2>3 DEF ChildrenInv, ExecTypeOK, OnlyCurrent
<1>3. ASSUME Init PROVE FlowInv
  BY <1>3 DEF Init, FlowInv
<1> QED BY <1>1, <1>2, <1>3 DEF IInv, TypeOK, GoTypeOK, ChildrenInv

\* A step that keeps the children and the current one need only say where it
\* takes the goroutines.
LEMMA StepKept ==
    ASSUME IInv, ChildrenKept, GoTypeOK',
           pc' \in {"select", "deliver", "reap"} => cmd # NoPid,
           pc' = "reap" => child'[cmd].done = "taken",
           pc' = "error" => err' # "none",
           main' \in {"sigterm", "grace"} => target' # NoPid,
           healthySince' = "minute" => lastError' = "minute"
    PROVE  IInv'
<1>1. FlowInv'
  BY DEF FlowInv, ChildrenKept
<1>2. TypeOK'
  BY DEF TypeOK, GoTypeOK, ChildrenKept, ChildrenInv
<1> QED BY <1>1, <1>2 DEF IInv, ChildrenKept

\* The record of an identifier without a process.
LEMMA NoChildOk ==
    /\ NoChild \in Child /\ ChildOk(NoChild)
    /\ NoChild.proc = "none" /\ NoChild.done = "none" /\ ~NoChild.said
<1>1. NoChild.proc = "none" /\ NoChild.done = "none" /\ NoChild.said = FALSE
  BY DEF NoChild
<1> QED BY <1>1 DEF NoChild, Child, ChildOk, Mood

\* The source: every outcome of Next.
LEMMA SourceKeepsIInv ==
    ASSUME IInv, SourceNext
    PROVE  IInv'
<1>1. ChildrenInv /\ GoTypeOK /\ FlowInv /\ cmd \in Pid \cup {NoPid}
  BY DEF IInv, TypeOK, GoTypeOK, ExecTypeOK
<1>2. CASE NextStart
  <2>1. GoTypeOK' /\ pc' = "select" /\ UNCHANGED <<main, target, healthySince, lastError>>
    BY <1>1, <1>2 DEF NextStart, GoTypeOK, mainVars
  <2>2. CASE cmd # NoPid /\ UNCHANGED execVars
    <3>1. ChildrenKept
      BY <1>1, <2>2, KeptByStutter
    <3> QED BY <1>1, <2>1, <2>2, <3>1, StepKept DEF FlowInv
  <2>3. CASE cmd = NoPid
    <3>1. PICK p \in Pid, m \in Mood : cmd' = p /\ child' = Started(p, m)
      BY <1>2, <2>3 DEF NextStart
    <3> DEFINE c == [NoChild EXCEPT !.proc = "run", !.mood = m, !.reader = "on"]
    <3>2. c \in Child /\ ChildOk(c)
      BY NoChildOk DEF Child, ChildOk
    <3> HIDE DEF c
    <3>3. child' = [child EXCEPT ![p] = c]
      BY <3>1 DEF Started, c
    <3>4. child' \in [Pid -> Child] /\ \A q \in Pid : q # p => child'[q] = child[q]
      BY <1>1, <3>2, <3>3 DEF ChildrenInv, ExecTypeOK
    <3>5. child'[p] = c
      BY <1>1, <3>2, <3>3 DEF ChildrenInv, ExecTypeOK
    <3>6. \A q \in Pid : child[q].proc = "none"
      BY <1>1, <2>3, ExecAssumption DEF ChildrenInv, OnlyCurrent
    <3>7. ChildrenInv'
      BY <1>1, <3>1, <3>2, <3>4, <3>5, <3>6 DEF ChildrenInv, ExecTypeOK, OnlyCurrent
    <3>8. FlowInv'
      BY <1>1, <2>1, <3>1, ExecAssumption DEF FlowInv
    <3> QED BY <2>1, <3>7, <3>8 DEF IInv, TypeOK, GoTypeOK, ChildrenInv
  <2> QED BY <1>2, <2>2, <2>3 DEF NextStart
<1>3. CASE StartFails
  <2>1. GoTypeOK' /\ pc' = "error" /\ err' # "none" /\ UNCHANGED <<main, target, healthySince, lastError, execVars>>
    BY <1>1, <1>3 DEF StartFails, GoTypeOK, mainVars
  <2>2. ChildrenKept
    BY <1>1, <2>1, KeptByStutter
  <2> QED BY <1>1, <2>1, <2>2, StepKept DEF FlowInv
<1>4. CASE SelectFrame
  <2>1. cmd \in Pid /\ child[cmd] \in Child /\ ChildOk(child[cmd])
    BY <1>1, <1>4 DEF SelectFrame, FlowInv, ChildrenInv, ExecTypeOK
  <2>2. /\ Head(child[cmd].frames) \in {"ok", "bad", "late"}
        /\ Tail(child[cmd].frames) \in Seq({"ok", "bad", "late"})
    BY <1>4, <2>1 DEF SelectFrame, Child
  <2>3. GoTypeOK' /\ pc' = "deliver" /\ UNCHANGED <<main, target, healthySince, lastError, cmd>>
    BY <1>1, <1>4, <2>2 DEF SelectFrame, GoTypeOK, mainVars
  <2> DEFINE c == [child[cmd] EXCEPT !.frames = Tail(child[cmd].frames)]
  <2>4. child' = [child EXCEPT ![cmd] = c]
    BY <1>4 DEF SelectFrame
  <2>5. Succeeds(child[cmd], c)
    BY <2>1, <2>2, SucceedsFrames
  <2> HIDE DEF c
  <2>6. ChildrenKept
    BY <1>1, <2>1, <2>3, <2>4, <2>5, KeptByUpdate
  <2> QED BY <1>1, <2>1, <2>3, <2>6, StepKept, ExecAssumption DEF FlowInv
<1>5. CASE SelectDone
  <2>1. cmd \in Pid
    BY <1>1, <1>5 DEF SelectDone, FlowInv
  <2>2. GoTypeOK' /\ pc' = "reap" /\ UNCHANGED <<main, target, healthySince, lastError, cmd>>
    BY <1>1, <1>5 DEF SelectDone, GoTypeOK, mainVars
  <2>3. ChildrenKept /\ child'[cmd].done = "taken"
    BY <1>1, <1>5, <2>1, KeptByReceive DEF SelectDone
  <2> QED BY <1>1, <2>1, <2>2, <2>3, StepKept, ExecAssumption DEF FlowInv
<1>6. CASE ReapChild
  <2>1. cmd \in Pid /\ child[cmd].done = "taken" /\ child[cmd].proc = "none" /\ child \in [Pid -> Child]
    BY <1>1, <1>6 DEF ReapChild, FlowInv, ChildrenInv, ExecTypeOK, ChildOk
  <2>2. GoTypeOK' /\ pc' = "error" /\ err' # "none" /\ cmd' = NoPid /\ UNCHANGED <<main, target, healthySince, lastError>>
    BY <1>1, <1>6 DEF ReapChild, GoTypeOK, mainVars
  <2>3. NoChild \in Child /\ ChildOk(NoChild) /\ NoChild.proc = "none"
    BY NoChildOk
  <2>4. child' \in [Pid -> Child] /\ \A q \in Pid : child'[q] \in {child[q], NoChild}
    BY <1>6, <2>1, <2>3 DEF ReapChild
  <2>5. \A q \in Pid : child[q].proc = "none"
    BY <1>1, <2>1 DEF ChildrenInv, OnlyCurrent
  <2>6. ChildrenInv'
    BY <1>1, <2>2, <2>3, <2>4, <2>5 DEF ChildrenInv, ExecTypeOK, OnlyCurrent
  <2>7. FlowInv'
    BY <1>1, <2>2 DEF FlowInv
  <2> QED BY <2>2, <2>6, <2>7 DEF IInv, TypeOK, GoTypeOK, ChildrenInv
<1>7. CASE SelectTimer \/ SelectCancelled
  <2>1. /\ GoTypeOK' /\ pc' = "error" /\ err' # "none" /\ UNCHANGED <<main, target, healthySince, lastError, cmd>>
        /\ child' = Signalled(child, cmd, "kill")
    BY <1>1, <1>7 DEF SelectTimer, SelectCancelled, GoTypeOK, mainVars
  <2>2. ChildrenKept
    BY <1>1, <2>1, KeptBySignal
  <2> QED BY <1>1, <2>1, <2>2, StepKept DEF FlowInv
<1> QED BY <1>2, <1>3, <1>4, <1>5, <1>6, <1>7 DEF SourceNext

\* The doubled backoff stays between its limits and never shrinks.
LEMMA BackoffGrows ==
    ASSUME GoTypeOK, BackoffElapsed
    PROVE  backoff' \in MinBackoff .. MaxBackoff /\ backoff' >= backoff
BY SidecarAssumption DEF GoTypeOK, BackoffElapsed

\* The collector: what Run makes of a frame, an error and the end of a wait.
LEMMA RunnerKeepsIInv ==
    ASSUME IInv, HandleError \/ BackoffElapsed \/ BackoffCancelled \/ Publish \/ Refuse \/ Minute
    PROVE  IInv'
<1>1. ChildrenInv /\ GoTypeOK /\ FlowInv /\ cmd \in Pid \cup {NoPid}
  BY DEF IInv, TypeOK, GoTypeOK, ExecTypeOK
<1>2. MinBackoff \in MinBackoff .. MaxBackoff /\ MaxBackoff \in MinBackoff .. MaxBackoff
  BY SidecarAssumption
<1>3. CASE HandleError
  <2>1. ChildrenKept /\ pc' \in {"returned", "backoff"} /\ UNCHANGED <<main, target>>
    BY <1>1, <1>3, KeptByStutter DEF HandleError, mainVars
  <2>2. GoTypeOK'
    <3>1. status' \in {"starting", "ok", "stale", "no_gpu"}
      BY <1>1, <1>3 DEF HandleError, GoTypeOK, FlowInv
    <3>2. wait' \in MinBackoff .. MaxBackoff
      BY <1>1, <1>2, <1>3 DEF HandleError, GoTypeOK
    <3> QED BY <1>1, <1>3, <3>1, <3>2 DEF HandleError, GoTypeOK, mainVars
  <2>3. healthySince' = "minute" => lastError' = "minute"
    BY <1>1, <1>3 DEF HandleError, FlowInv
  <2> QED BY <1>1, <2>1, <2>2, <2>3, StepKept DEF FlowInv
<1>4. CASE BackoffElapsed
  <2>1. /\ cmd' = cmd /\ pc' = "next" /\ UNCHANGED <<main, target, healthySince, lastError>>
        /\ child' = [p \in Pid |-> [child[p] EXCEPT !.frames =
                        [i \in DOMAIN @ |-> IF @[i] = "ok" THEN "late" ELSE @[i]]]]
    BY <1>4 DEF BackoffElapsed, mainVars
  <2>2. ChildrenKept
    BY <1>1, <2>1, KeptByAging
  <2>3. backoff' \in MinBackoff .. MaxBackoff
    BY <1>1, <1>4, BackoffGrows
  <2>4. GoTypeOK'
    BY <1>1, <1>2, <1>4, <2>3 DEF BackoffElapsed, GoTypeOK, mainVars
  <2> QED BY <1>1, <2>1, <2>2, <2>4, StepKept DEF FlowInv
<1>5. CASE BackoffCancelled
  <2>1. ChildrenKept /\ GoTypeOK' /\ pc' = "returned" /\ UNCHANGED <<main, target, healthySince, lastError>>
    BY <1>1, <1>5, KeptByStutter DEF BackoffCancelled, GoTypeOK, mainVars
  <2> QED BY <1>1, <2>1, StepKept DEF FlowInv
<1>6. CASE Publish
  <2>1. ChildrenKept /\ pc' = "next" /\ UNCHANGED <<main, target, lastError>>
    BY <1>1, <1>6, KeptByStutter DEF Publish, mainVars
  <2>2. 0 \in 0 .. MaxFailures - 1
    BY SidecarAssumption
  <2>3. GoTypeOK'
    <3>1. backoff' \in MinBackoff .. MaxBackoff /\ wait' = wait
      BY <1>1, <1>2, <1>6 DEF Publish, GoTypeOK
    <3>2. failures' \in 0 .. MaxFailures - 1
      BY <1>6, <2>2 DEF Publish
    <3>3. healthySince' \in {"zero", "recent", "minute"}
      BY <1>1, <1>6 DEF Publish, GoTypeOK
    <3> QED BY <1>1, <1>6, <3>1, <3>2, <3>3 DEF Publish, GoTypeOK, mainVars
  <2>4. healthySince' = "minute" => lastError' = "minute"
    BY <1>1, <1>6 DEF Publish, FlowInv
  <2> QED BY <1>1, <2>1, <2>3, <2>4, StepKept DEF FlowInv
<1>7. CASE Refuse
  <2>1. cmd' = cmd /\ pc' = "next" /\ UNCHANGED <<main, target, healthySince, lastError>>
    BY <1>7 DEF Refuse, mainVars
  <2>2. ChildrenKept
    <3>1. child' = Signalled(child, cmd, "kill") \/ child' = child
      BY <1>7 DEF Refuse
    <3> QED BY <1>1, <2>1, <3>1, KeptBySignal, KeptByStutter DEF execVars
  <2>3. failures' \in 0 .. MaxFailures - 1
    BY <1>1, <1>7, SidecarAssumption DEF Refuse, GoTypeOK
  <2>4. GoTypeOK'
    BY <1>1, <1>7, <2>3 DEF Refuse, GoTypeOK, mainVars
  <2> QED BY <1>1, <2>1, <2>2, <2>4, StepKept DEF FlowInv
<1>8. CASE Minute
  <2>1. ChildrenKept /\ lastError' = "minute" /\ UNCHANGED <<pc, err, main, target>>
    BY <1>1, <1>8, KeptByStutter DEF Minute, mainVars
  <2>2. GoTypeOK'
    BY <1>1, <1>8 DEF Minute, GoTypeOK, mainVars
  <2>3. pc = "reap" => cmd \in Pid /\ child[cmd].done = "taken"
    BY <1>1 DEF FlowInv
  <2> QED BY <1>1, <2>1, <2>2, <2>3, StepKept DEF FlowInv, ChildrenKept
<1> QED BY <1>3, <1>4, <1>5, <1>6, <1>7, <1>8

\* main: the signal, the failure of the server, and what Terminate, Kill and cancel do.
LEMMA MainKeepsIInv ==
    ASSUME IInv, GetSignal \/ ServerFails \/ Shutdown
    PROVE  IInv'
<1>1. ChildrenInv /\ GoTypeOK /\ FlowInv /\ cmd \in Pid \cup {NoPid} /\ target \in Pid \cup {NoPid}
  BY DEF IInv, TypeOK, GoTypeOK, ExecTypeOK
<1>2. UNCHANGED runnerVars
  BY DEF GetSignal, ServerFails, Shutdown, TerminateRead, SendTerm, TerminateDone, GraceOver,
         KillRead, KillSend, Cancel, ExitMain
<1>3. UNCHANGED <<pc, err, healthySince, lastError>>
  BY <1>2 DEF runnerVars
<1>4. pc = "reap" => cmd \in Pid /\ child[cmd].done = "taken"
  BY <1>1 DEF FlowInv
<1>5. ASSUME main' \in {"terminate", "sigterm", "grace", "kill", "killing", "cancel", "shutdown", "exited", "failed"},
             target' \in Pid \cup {NoPid}, cancelled' \in BOOLEAN
      PROVE  GoTypeOK'
  BY <1>1, <1>2, <1>5 DEF GoTypeOK, runnerVars
<1>6. ASSUME ChildrenKept, GoTypeOK', main' \in {"sigterm", "grace"} => target' # NoPid
      PROVE  IInv'
  BY <1>1, <1>3, <1>4, <1>6, StepKept DEF FlowInv, ChildrenKept
<1>7. CASE GetSignal \/ ServerFails \/ GraceOver \/ ExitMain
  <2>1. UNCHANGED <<execVars, target, cancelled>> /\ main' \in {"terminate", "kill", "exited", "failed"}
    BY <1>7 DEF GetSignal, ServerFails, GraceOver, ExitMain
  <2>2. GoTypeOK'
    BY <1>1, <1>5, <2>1 DEF GoTypeOK
  <2> QED BY <1>1, <1>6, <2>1, <2>2, KeptByStutter
<1>8. CASE TerminateRead \/ KillRead
  <2>1. /\ UNCHANGED <<execVars, cancelled>> /\ target' = cmd
        /\ main' \in {"cancel", "sigterm", "killing"} /\ (main' = "sigterm" => cmd # NoPid)
    BY <1>8 DEF TerminateRead, KillRead
  <2>2. GoTypeOK'
    BY <1>1, <1>5, <2>1 DEF GoTypeOK
  <2> QED BY <1>1, <1>6, <2>1, <2>2, KeptByStutter
<1>9. CASE SendTerm
  <2>1. /\ UNCHANGED <<cmd, target, cancelled>> /\ main = "sigterm" /\ main' = "grace"
        /\ child' = Signalled(child, target, "term")
    BY <1>9 DEF SendTerm
  <2>2. GoTypeOK' /\ target # NoPid
    BY <1>1, <1>5, <2>1 DEF GoTypeOK, FlowInv
  <2>3. ChildrenKept
    BY <1>1, <2>1, KeptBySignal
  <2> QED BY <1>6, <2>1, <2>2, <2>3
<1>10. CASE TerminateDone
  <2>1. /\ UNCHANGED <<cmd, target, cancelled>> /\ main = "grace" /\ main' = "cancel"
        /\ child[target].done = "ready" /\ child' = [child EXCEPT ![target].done = "taken"]
    BY <1>10 DEF TerminateDone
  <2>2. GoTypeOK' /\ target \in Pid
    BY <1>1, <1>5, <2>1 DEF GoTypeOK, FlowInv
  <2>3. ChildrenKept
    BY <1>1, <2>1, <2>2, KeptByReceive
  <2> QED BY <1>6, <2>1, <2>2, <2>3
<1>11. CASE KillSend
  <2>1. /\ UNCHANGED <<cmd, target, cancelled>> /\ main' = "cancel"
        /\ child' = Signalled(child, target, "kill")
    BY <1>11 DEF KillSend
  <2>2. GoTypeOK'
    BY <1>1, <1>5, <2>1 DEF GoTypeOK
  <2>3. ChildrenKept
    BY <1>1, <2>1, KeptBySignal
  <2> QED BY <1>6, <2>1, <2>2, <2>3
<1>12. CASE Cancel
  <2>1. UNCHANGED execVars /\ target' = NoPid /\ cancelled' = TRUE /\ main' = "shutdown"
    BY <1>12 DEF Cancel
  <2>2. GoTypeOK'
    BY <1>1, <1>5, <2>1
  <2> QED BY <1>1, <1>6, <2>1, <2>2, KeptByStutter
<1> QED BY <1>7, <1>8, <1>9, <1>10, <1>11, <1>12 DEF Shutdown

-----------------------------------------------------------------------------
(* The results                                                             *)

\* Every step of every goroutine keeps the invariant.
LEMMA NextIInv ==
    ASSUME IInv, [Next]_vars
    PROVE  IInv'
<1>1. ASSUME NEW p \in Pid, Goroutines(p) \/ ChildStep(p)
      PROVE  IInv'
  <2>1. cmd' = cmd /\ \E c : Succeeds(child[p], c) /\ child' = [child EXCEPT ![p] = c]
    BY <1>1, SucceedsChild, SucceedsGoroutine DEF Goroutines, ChildStep
  <2>2. ChildrenKept
    BY <2>1, KeptByUpdate DEF IInv
  <2>3. UNCHANGED <<runnerVars, mainVars>>
    BY <1>1 DEF Goroutines, ChildStep
  <2>4. GoTypeOK' /\ UNCHANGED <<pc, err, main, target, healthySince, lastError>>
    BY <2>3 DEF IInv, TypeOK, GoTypeOK, runnerVars, mainVars
  <2>5. pc = "reap" => cmd \in Pid /\ child[cmd].done = "taken"
    BY DEF IInv, FlowInv, TypeOK, ExecTypeOK
  <2> QED BY <2>2, <2>4, <2>5, StepKept DEF IInv, FlowInv, ChildrenKept
<1>2. ASSUME UNCHANGED vars PROVE IInv'
  BY <1>2 DEF vars, runnerVars, mainVars, IInv, TypeOK, ExecTypeOK, ChildrenInv, OnlyCurrent, FlowInv
<1> QED BY <1>1, <1>2, SourceKeepsIInv, RunnerKeepsIInv, MainKeepsIInv DEF Next, Run

\* The invariant of the source, the collector loop and main holds in every
\* interleaving of them.
THEOREM SidecarInvariant == Spec => []IInv
<1>1. Init => IInv
  BY InitIInv
<1>2. IInv /\ [Next]_vars => IInv'
  BY NextIInv
<1> QED BY <1>1, <1>2, PTL DEF Spec

\* There is at most one nvtop that was not waited for, whatever crashes, is
\* killed by the watchdog, refuses its frames or is being shut down, for any
\* number of process identifiers and any capacity of the pipe and channel.
THEOREM SingleChild == Spec => []OneChild
<1>1. IInv => OneChild
  BY DEF IInv, ChildrenInv, OnlyCurrent, OneChild
<1> QED BY <1>1, SidecarInvariant, PTL

\* The no-GPU line of a child is never lost between the pipe, the goroutine
\* that reads it, the one that waits and the collector: its end is reported
\* as no_gpu.
THEOREM NoGpuLineKept == Spec => NoGpuReported
<1>1. ASSUME IInv, [Next]_vars
      PROVE  [pc = "reap" /\ pc' = "error" /\ child[cmd].said => err' = "no_gpu"]_vars
  <2>1. SUFFICES ASSUME ~UNCHANGED vars, pc = "reap", pc' = "error", child[cmd].said
                 PROVE  err' = "no_gpu"
    OBVIOUS
  <2>2. Next
    BY <1>1, <2>1
  <2>3. cmd \in Pid /\ child[cmd].done = "taken" /\ ChildOk(child[cmd])
    BY <1>1, <2>1 DEF IInv, FlowInv, ChildrenInv, ExecTypeOK
  <2>4. child[cmd].output
    BY <2>1, <2>3 DEF ChildOk
  <2>5. ReapChild
    <3>1. ~(Minute \/ GetSignal \/ ServerFails \/ Shutdown \/ \E p \in Pid : Goroutines(p) \/ ChildStep(p))
      BY <2>1 DEF Minute, GetSignal, ServerFails, Shutdown, TerminateRead, SendTerm, TerminateDone, GraceOver,
                  KillRead, KillSend, Cancel, ExitMain, Goroutines, ChildStep, runnerVars
    <3>2. ~(HandleError \/ BackoffElapsed \/ BackoffCancelled \/ Publish \/ Refuse)
      BY <2>1 DEF HandleError, BackoffElapsed, BackoffCancelled, Publish, Refuse
    <3>3. ~(NextStart \/ StartFails \/ SelectFrame \/ SelectDone \/ SelectTimer \/ SelectCancelled)
      BY <2>1 DEF NextStart, StartFails, SelectFrame, SelectDone, SelectTimer, Wedged, SelectCancelled
    <3> QED BY <2>2, <3>1, <3>2, <3>3 DEF Next, Run, SourceNext
  <2> QED BY <2>4, <2>5 DEF ReapChild
<1> QED BY <1>1, SidecarInvariant, PTL DEF Spec, NoGpuReported

\* The restart delay shrinks only when no error was seen for a minute: the
\* healthy period that forgives it started after the last error.
THEOREM BackoffForgivenAfterMinute == Spec => BackoffForgiven
<1>1. ASSUME IInv, [Next]_vars
      PROVE  [backoff' < backoff => lastError = "minute"]_vars
  <2>1. GoTypeOK /\ FlowInv /\ backoff \in Int
    BY <1>1, SidecarAssumption DEF IInv, TypeOK, GoTypeOK
  <2>2. CASE Publish
    BY <2>1, <2>2 DEF Publish, FlowInv
  <2>3. CASE BackoffElapsed
    <3>1. backoff' >= backoff /\ backoff' \in Int
      BY <2>1, <2>3, BackoffGrows, SidecarAssumption
    <3> QED BY <2>1, <3>1
  <2>4. CASE backoff' = backoff
    BY <2>1, <2>4
  <2>5. Publish \/ BackoffElapsed \/ backoff' = backoff
    <3>1. CASE UNCHANGED vars
      BY <3>1 DEF vars, runnerVars
    <3>2. CASE Minute \/ GetSignal \/ ServerFails \/ Shutdown \/ \E p \in Pid : Goroutines(p) \/ ChildStep(p)
      BY <3>2 DEF Minute, GetSignal, ServerFails, Shutdown, TerminateRead, SendTerm, TerminateDone, GraceOver,
                  KillRead, KillSend, Cancel, ExitMain, Goroutines, ChildStep, runnerVars
    <3>3. CASE HandleError \/ BackoffCancelled \/ Refuse
      BY <3>3 DEF HandleError, BackoffCancelled, Refuse
    <3>4. CASE SourceNext
      BY <3>4 DEF SourceNext, NextStart, StartFails, SelectFrame, SelectDone, ReapChild, SelectTimer, SelectCancelled
    <3> QED BY <1>1, <3>1, <3>2, <3>3, <3>4 DEF Next, Run
  <2> QED BY <2>2, <2>3, <2>4, <2>5
<1> QED BY <1>1, SidecarInvariant, PTL DEF Spec, BackoffForgiven
=============================================================================
