----------------------------- MODULE ExecSource -----------------------------
(***************************************************************************)
(* The live source of the web sidecar (web/internal/collector/exec.go): an *)
(* nvtop child process, the pipe its output goes through, the goroutine    *)
(* that cuts the pipe into frames, the goroutine that waits for the child, *)
(* and the two channels the collector selects on.                          *)
(*                                                                         *)
(* The Go code allocates the channels anew for every child and its         *)
(* goroutines capture them, so all of this is one record per process.      *)
(* A process is named by its PID; a PID is free once its child was waited  *)
(* for and nobody refers to it.                                            *)
(*                                                                         *)
(* Frames are abstracted to what Parse makes of them: "ok" or "bad".  The  *)
(* lines of standard error only end up in the wording of an error, so the  *)
(* reader of that pipe is merged with the reader of standard output.       *)
(***************************************************************************)
EXTENDS Integers, Sequences

CONSTANTS
    Pid,            \* process identifiers
    NoPid,          \* what Pid() returns, and cmd holds, without a child
    PipeCap,        \* writes the pipe holds before the child blocks
    FramesCap       \* make(chan []byte, 2)

ASSUME ExecAssumption ==
    /\ NoPid \notin Pid
    /\ PipeCap \in Nat \ {0}
    /\ FramesCap \in Nat \ {0}

VARIABLES
    cmd,            \* e.cmd: the current child, or NoPid
    child           \* child[p]: the process p and what was made for it

execVars == <<cmd, child>>

\* How a child behaves: it prints valid frames, frames Parse refuses, nothing
\* that makes a frame, or that there is no GPU.
Mood == {"good", "bad", "mute", "nogpu"}

Child == [proc   : {"none", "run", "dead"}, \* dead: exited, not waited for
          mood   : Mood,
          said   : BOOLEAN,                 \* it printed "No GPU to monitor."
          pipe   : Seq({"ok", "bad", "nogpu"}),
          signal : SUBSET {"term", "kill"}, \* signals sent to it
          reader : {"on", "eof"},           \* the framing goroutine
          frames : Seq({"ok", "bad", "late"}),
          output : BOOLEAN,                 \* e.output holds the no-GPU line
          done   : {"none", "ready", "taken"}]

ExecTypeOK == cmd \in Pid \cup {NoPid} /\ child \in [Pid -> Child]

NoChild == [proc |-> "none", mood |-> "mute", said |-> FALSE, pipe |-> <<>>,
            signal |-> {}, reader |-> "eof", frames |-> <<>>,
            output |-> FALSE, done |-> "none"]

ExecInit == cmd = NoPid /\ child = [p \in Pid |-> NoChild]

Running(p) == child[p].proc = "run"

-----------------------------------------------------------------------------
(* The nvtop process                                                       *)

\* "nvtop -s -l" prints one array per interval; a full pipe blocks it.
Emit(p) ==
    /\ Running(p)
    /\ child[p].mood \in {"good", "bad"}
    /\ Len(child[p].pipe) < PipeCap
    /\ child' = [child EXCEPT ![p].pipe =
                    Append(@, IF child[p].mood = "good" THEN "ok" ELSE "bad")]
    /\ UNCHANGED cmd

PrintNoGpu(p) ==
    /\ Running(p)
    /\ child[p].mood = "nogpu" /\ ~child[p].said
    /\ child' = [child EXCEPT ![p].pipe = Append(@, "nogpu"), ![p].said = TRUE]
    /\ UNCHANGED cmd

\* A driver call hangs or comes back, a frame gets corrupted or not.
ChangeMood(p) ==
    /\ Running(p)
    /\ child[p].mood # "nogpu"
    /\ \E m \in Mood \ {"nogpu", child[p].mood} :
          child' = [child EXCEPT ![p].mood = m]
    /\ UNCHANGED cmd

\* What is left of a process that ended: its mood and its signals are void.
Dead(p) == [child[p] EXCEPT !.proc = "dead", !.mood = "mute", !.signal = {}]

\* It crashes, or ends after saying that it has no GPU.
Exit(p) ==
    /\ Running(p)
    /\ child[p].mood = "nogpu" => child[p].said
    /\ child' = [child EXCEPT ![p] = Dead(p)]
    /\ UNCHANGED cmd

\* A signal takes effect some time after it was sent.
DieOf(p, signal) ==
    /\ Running(p)
    /\ signal \in child[p].signal
    /\ child' = [child EXCEPT ![p] = Dead(p)]
    /\ UNCHANGED cmd

-----------------------------------------------------------------------------
(* The goroutines startLocked leaves behind                                *)

\* The framing goroutine takes the next output of the pipe: the tee keeps the
\* no-GPU line, a frame is sent unless the channel is full.
ReadPipe(p) ==
    /\ child[p].reader = "on"
    /\ child[p].pipe # <<>>
    /\ LET item == Head(child[p].pipe)
           room == Len(child[p].frames) < FramesCap
       IN  child' = [child EXCEPT
                        ![p].pipe   = Tail(@),
                        ![p].output = @ \/ item = "nogpu",
                        ![p].frames = IF item # "nogpu" /\ room THEN Append(@, item) ELSE @]
    /\ UNCHANGED cmd

\* Both readers meet the end of the file once the child is gone.
ReadEof(p) ==
    /\ child[p].reader = "on"
    /\ child[p].pipe = <<>>
    /\ child[p].proc = "dead"
    /\ child' = [child EXCEPT ![p].reader = "eof"]
    /\ UNCHANGED cmd

\* Fault: cmd.Wait runs as soon as the child is gone, closing the pipes
\* under the readers.
WaitEarly(p) ==
    /\ child[p].proc = "dead"
    /\ child' = [child EXCEPT ![p].proc = "none", ![p].done = "ready",
                              ![p].reader = "eof", ![p].pipe = <<>>]
    /\ UNCHANGED cmd

\* <-stdoutDone; <-stderrDone; done <- cmd.Wait()
Wait(p) ==
    /\ child[p].proc = "dead"
    /\ child[p].reader = "eof"
    /\ child' = [child EXCEPT ![p].proc = "none", ![p].done = "ready"]
    /\ UNCHANGED cmd

-----------------------------------------------------------------------------
(* The methods of the source                                               *)

\* startLocked: a new process with new channels and an empty output buffer.
Started(p, m) ==
    [child EXCEPT ![p] = [NoChild EXCEPT !.proc = "run", !.mood = m, !.reader = "on"]]

\* cmd.Process.Signal, cmd.Process.Kill: nothing happens to a process that
\* already ended.
Signalled(c, p, signal) ==
    IF p # NoPid /\ c[p].proc = "run"
    THEN [c EXCEPT ![p].signal = @ \cup {signal}]
    ELSE c

\* Pid
PidOf == cmd
=============================================================================
