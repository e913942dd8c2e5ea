------------------------------ MODULE Sidecar ------------------------------
(***************************************************************************)
(* The web sidecar as a whole: the collector goroutine                     *)
(* (web/internal/collector/source.go, Runner.Run) that calls the methods   *)
(* of the live source, publishes snapshots and statuses, restarts nvtop    *)
(* with a backoff and kills it when it wedges, and the main goroutine      *)
(* (web/cmd/nvtop-web/main.go) that shuts everything down on a signal.     *)
(*                                                                         *)
(* Time is abstract: a timer may fire whenever the code waits for it, with *)
(* one exception, the watchdog of Next, which stays quiet while a child    *)
(* prints valid frames at its interval (see SelectTimer).                  *)
(***************************************************************************)
EXTENDS ExecSource

CONSTANTS
    MinBackoff,     \* 1 s
    MaxBackoff,     \* 30 s, also the wait after no_gpu
    MaxFailures,    \* 3 refused frames in a row
    Stoppable       \* whether a signal or a failing server may end the sidecar

ASSUME SidecarAssumption ==
    /\ MinBackoff \in Nat \ {0}
    /\ MaxBackoff \in Nat /\ MinBackoff < MaxBackoff
    /\ MaxFailures \in Nat \ {0}
    /\ Stoppable \in BOOLEAN

VARIABLES
    pc,             \* where the collector goroutine is
    frame,          \* the frame Next returned
    err,            \* the error Next returned, as the status it leads to
    failures, backoff, wait,
    healthySince,   \* "zero", or how long ago: "recent", "minute" (>= 60 s)
    status,         \* store.meta.Status
    main,           \* where the main goroutine is
    target,         \* cmd, as Terminate read it
    cancelled,      \* ctx is done
    lastError       \* how long ago Next last failed (history variable)

runnerVars == <<pc, frame, err, failures, backoff, wait, healthySince, status, lastError>>
mainVars == <<main, target, cancelled>>
vars == <<cmd, child, runnerVars, mainVars>>

NoFrame == "none"

\* The states of the collector, its source and main.
TypeOK ==
    /\ ExecTypeOK
    /\ pc \in {"next", "select", "deliver", "reap", "error", "backoff", "returned"}
    /\ frame \in {NoFrame, "ok", "bad", "late"}
    /\ err \in {"none", "stale", "no_gpu"}
    /\ failures \in 0 .. MaxFailures - 1
    /\ backoff \in MinBackoff .. MaxBackoff
    /\ wait \in MinBackoff .. MaxBackoff
    /\ healthySince \in {"zero", "recent", "minute"}
    /\ status \in {"starting", "ok", "stale", "no_gpu"}
    /\ main \in {"serve", "terminate", "sigterm", "grace", "kill", "killing", "cancel", "shutdown", "exited", "failed"}
    /\ target \in Pid \cup {NoPid}
    /\ cancelled \in BOOLEAN
    /\ lastError \in {"recent", "minute"}

Init ==
    /\ ExecInit
    /\ pc = "next" /\ frame = NoFrame /\ err = "none"
    /\ failures = 0 /\ backoff = MinBackoff /\ wait = MinBackoff
    /\ healthySince = "zero" /\ lastError = "minute"
    /\ status = "starting"          \* store.New
    /\ main = "serve" /\ target = NoPid /\ cancelled = FALSE

-----------------------------------------------------------------------------
(* ExecSource.Next, called by the collector                                *)

\* A PID nobody uses or refers to.
Free(p) == child[p].proc = "none" /\ p # cmd /\ p # target

\* startLocked keeps the child there is, or starts one.
NextStart ==
    /\ pc = "next"
    /\ \/ cmd # NoPid /\ UNCHANGED execVars
       \/ /\ cmd = NoPid
          /\ \E p \in Pid, m \in Mood :
                /\ Free(p)
                /\ cmd' = p
                /\ child' = Started(p, m)
    /\ pc' = "select"
    /\ UNCHANGED <<frame, err, failures, backoff, wait, healthySince, status, lastError, mainVars>>

\* cmd.Start (or one of the pipes) fails.
StartFails ==
    /\ pc = "next"
    /\ cmd = NoPid
    /\ pc' = "error" /\ err' = "stale"
    /\ UNCHANGED <<execVars, frame, failures, backoff, wait, healthySince, status, lastError, mainVars>>

SelectFrame ==
    /\ pc = "select"
    /\ child[cmd].frames # <<>>
    /\ frame' = Head(child[cmd].frames)
    /\ child' = [child EXCEPT ![cmd].frames = Tail(@)]
    /\ pc' = "deliver"
    /\ UNCHANGED <<cmd, err, failures, backoff, wait, healthySince, status, lastError, mainVars>>

SelectDone ==
    /\ pc = "select"
    /\ child[cmd].done = "ready"
    /\ child' = [child EXCEPT ![cmd].done = "taken"]
    /\ pc' = "reap"
    /\ UNCHANGED <<cmd, frame, err, failures, backoff, wait, healthySince, status, lastError, mainVars>>

\* The locked section after done: which error it was, and no child any more.
\* Nothing refers to the channels of the old child, except Terminate if it read
\* them before.
ReapChild ==
    /\ pc = "reap"
    /\ err' = IF child[cmd].output THEN "no_gpu" ELSE "stale"
    /\ cmd' = NoPid
    /\ child' = IF target = cmd THEN child ELSE [child EXCEPT ![cmd] = NoChild]
    /\ pc' = "error"
    /\ UNCHANGED <<frame, failures, backoff, wait, healthySince, status, lastError, mainVars>>

\* Five intervals without anything on the two channels: Next kills the child
\* and fails.  A child that prints valid frames prints one per interval, so
\* the timer does not fire on it.
Wedged ==
    /\ pc = "select"
    /\ child[cmd].frames = <<>> /\ child[cmd].done # "ready"
    /\ ~(Running(cmd) /\ child[cmd].mood = "good")

\* Fault: the watchdog forgets the child it kills instead of waiting for it.
SelectTimerForget ==
    /\ Wedged
    /\ child' = Signalled(child, cmd, "kill")
    /\ cmd' = NoPid
    /\ pc' = "error" /\ err' = "stale"
    /\ UNCHANGED <<frame, failures, backoff, wait, healthySince, status, lastError, mainVars>>

\* Fault: the watchdog reports the wedged child but leaves it alone.
SelectTimerNoKill ==
    /\ Wedged
    /\ pc' = "error" /\ err' = "stale"
    /\ UNCHANGED <<execVars, frame, failures, backoff, wait, healthySince, status, lastError, mainVars>>

SelectTimer ==
    /\ Wedged
    /\ child' = Signalled(child, cmd, "kill")
    /\ pc' = "error" /\ err' = "stale"
    /\ UNCHANGED <<cmd, frame, failures, backoff, wait, healthySince, status, lastError, mainVars>>

SelectCancelled ==
    /\ pc = "select"
    /\ cancelled
    /\ child' = Signalled(child, cmd, "kill")
    /\ pc' = "error" /\ err' = "stale"
    /\ UNCHANGED <<cmd, frame, failures, backoff, wait, healthySince, status, lastError, mainVars>>

-----------------------------------------------------------------------------
(* Runner.Run                                                              *)

\* Fault: the healthy period is not ended by an error.
HandleErrorKeepHealthy ==
    /\ pc = "error"
    /\ IF cancelled
       THEN /\ pc' = "returned"
            /\ UNCHANGED <<status, wait, lastError>>
       ELSE /\ status' = err
            /\ wait' = IF err = "no_gpu" THEN MaxBackoff ELSE backoff
            /\ lastError' = "recent"
            /\ pc' = "backoff"
    /\ err' = "none"
    /\ UNCHANGED <<execVars, frame, failures, backoff, healthySince, mainVars>>

HandleError ==
    /\ pc = "error"
    /\ IF cancelled
       THEN /\ pc' = "returned"
            /\ UNCHANGED <<status, wait, healthySince, lastError>>
       ELSE /\ status' = err        \* OnStatus
            /\ wait' = IF err = "no_gpu" THEN MaxBackoff ELSE backoff
            /\ healthySince' = "zero"
            /\ lastError' = "recent"
            /\ pc' = "backoff"
    /\ err' = "none"
    /\ UNCHANGED <<execVars, frame, failures, backoff, mainVars>>

\* The wait is over.  A frame still in a channel has become old by then.
BackoffElapsed ==
    /\ pc = "backoff"
    /\ backoff' = IF wait # MaxBackoff /\ backoff < MaxBackoff
                  THEN IF 2 * backoff > MaxBackoff THEN MaxBackoff ELSE 2 * backoff
                  ELSE backoff
    /\ child' = [p \in Pid |-> [child[p] EXCEPT !.frames =
                    [i \in DOMAIN @ |-> IF @[i] = "ok" THEN "late" ELSE @[i]]]]
    /\ wait' = MinBackoff
    /\ pc' = "next"
    /\ UNCHANGED <<cmd, frame, err, failures, healthySince, status, lastError, mainVars>>

BackoffCancelled ==
    /\ pc = "backoff"
    /\ cancelled
    /\ pc' = "returned"
    /\ UNCHANGED <<execVars, frame, err, failures, backoff, wait, healthySince, status, lastError, mainVars>>

\* Fault: the snapshot is stored with the status it had before.
PublishKeepsStatus ==
    /\ pc = "deliver"
    /\ frame # "bad"
    /\ failures' = 0
    /\ healthySince' = IF healthySince = "zero" THEN "recent" ELSE healthySince
    /\ backoff' = IF healthySince = "minute" THEN MinBackoff ELSE backoff
    /\ frame' = NoFrame
    /\ pc' = "next"
    /\ UNCHANGED <<execVars, err, wait, status, lastError, mainVars>>

\* OnSnapshot succeeds: the snapshot is published.
Publish ==
    /\ pc = "deliver"
    /\ frame # "bad"
    /\ status' = "ok"
    /\ failures' = 0
    /\ healthySince' = IF healthySince = "zero" THEN "recent" ELSE healthySince
    /\ backoff' = IF healthySince = "minute" THEN MinBackoff ELSE backoff
    /\ frame' = NoFrame
    /\ pc' = "next"
    /\ UNCHANGED <<execVars, err, wait, lastError, mainVars>>

\* OnSnapshot fails: Parse refused the frame.
Refuse ==
    /\ pc = "deliver"
    /\ frame = "bad"
    /\ status' = "stale"
    /\ IF failures + 1 >= MaxFailures
       THEN child' = Signalled(child, cmd, "kill") /\ failures' = 0
       ELSE UNCHANGED child /\ failures' = failures + 1
    /\ frame' = NoFrame
    /\ pc' = "next"
    /\ UNCHANGED <<cmd, err, backoff, wait, healthySince, lastError, mainVars>>

\* Sixty seconds pass.
Minute ==
    /\ healthySince' = IF healthySince = "recent" THEN "minute" ELSE healthySince
    /\ lastError' = "minute"
    /\ UNCHANGED <<execVars, pc, frame, err, failures, backoff, wait, status, mainVars>>

-----------------------------------------------------------------------------
(* main                                                                    *)

GetSignal ==
    /\ Stoppable
    /\ main = "serve"
    /\ main' = "terminate"
    /\ UNCHANGED <<execVars, runnerVars, target, cancelled>>

\* ListenAndServe returns an error (the address is taken, say) and log.Fatal
\* ends the process: nothing is terminated or cancelled.  It is never
\* ErrServerClosed, because only the other case of the select calls Shutdown.
ServerFails ==
    /\ Stoppable
    /\ main = "serve"
    /\ main' = "failed"
    /\ UNCHANGED <<execVars, runnerVars, target, cancelled>>

\* Terminate reads cmd and done under the lock.
TerminateRead ==
    /\ main = "terminate"
    /\ target' = cmd
    /\ main' = IF cmd = NoPid THEN "cancel" ELSE "sigterm"
    /\ UNCHANGED <<execVars, runnerVars, cancelled>>

SendTerm ==
    /\ main = "sigterm"
    /\ child' = Signalled(child, target, "term")
    /\ main' = "grace"
    /\ UNCHANGED <<cmd, runnerVars, target, cancelled>>

TerminateDone ==
    /\ main = "grace"
    /\ child[target].done = "ready"
    /\ child' = [child EXCEPT ![target].done = "taken"]
    /\ main' = "cancel"
    /\ UNCHANGED <<cmd, runnerVars, target, cancelled>>

GraceOver ==
    /\ main = "grace"
    /\ main' = "kill"
    /\ UNCHANGED <<execVars, runnerVars, target, cancelled>>

\* Kill reads cmd again: the child may be another one by now.
KillRead ==
    /\ main = "kill"
    /\ target' = cmd
    /\ main' = "killing"
    /\ UNCHANGED <<execVars, runnerVars, cancelled>>

KillSend ==
    /\ main = "killing"
    /\ child' = Signalled(child, target, "kill")
    /\ main' = "cancel"
    /\ UNCHANGED <<cmd, runnerVars, target, cancelled>>

Cancel ==
    /\ main = "cancel"
    /\ cancelled' = TRUE
    /\ main' = "shutdown"
    /\ target' = NoPid
    /\ UNCHANGED <<execVars, runnerVars>>

\* server.Shutdown returns and main with it; the process ends.
ExitMain ==
    /\ main = "shutdown"
    /\ main' = "exited"
    /\ UNCHANGED <<execVars, runnerVars, target, cancelled>>

-----------------------------------------------------------------------------
ChildStep(p) ==
    /\ Emit(p) \/ PrintNoGpu(p) \/ ChangeMood(p) \/ Exit(p) \/ DieOf(p, "term") \/ DieOf(p, "kill")
    /\ UNCHANGED <<runnerVars, mainVars>>

Goroutines(p) ==
    /\ ReadPipe(p) \/ ReadEof(p) \/ Wait(p)
    /\ UNCHANGED <<runnerVars, mainVars>>

SourceNext == NextStart \/ StartFails \/ SelectFrame \/ SelectDone \/ ReapChild
            \/ SelectTimer \/ SelectCancelled

Run == SourceNext \/ HandleError \/ BackoffElapsed \/ BackoffCancelled \/ Publish \/ Refuse

Shutdown == TerminateRead \/ SendTerm \/ TerminateDone \/ GraceOver \/ KillRead
                \/ KillSend \/ Cancel \/ ExitMain

\* The process of the sidecar, with its goroutines, is there.
Alive == main \notin {"exited", "failed"}

Next ==
    \/ Alive /\ (Run \/ Minute \/ \E p \in Pid : Goroutines(p))
    \/ GetSignal \/ ServerFails \/ Shutdown
    \/ \E p \in Pid : ChildStep(p)

\* The Go scheduler lets every goroutine that can run do so, timers fire, a
\* running nvtop prints, and SIGKILL works.  Nothing makes SIGTERM work, a
\* child crash or recover, a signal reach the sidecar or its server fail.
Fairness ==
    /\ WF_vars(Alive /\ Run)
    /\ WF_vars(Shutdown)
    /\ \A p \in Pid :
          /\ WF_vars(Alive /\ Goroutines(p))
          /\ WF_vars(Emit(p) /\ UNCHANGED <<runnerVars, mainVars>>)
          /\ WF_vars(DieOf(p, "kill") /\ UNCHANGED <<runnerVars, mainVars>>)

Spec == Init /\ [][Next]_vars /\ Fairness

-----------------------------------------------------------------------------
(* Properties                                                              *)

\* There is never a second nvtop before the first one was waited for: every
\* restart, after a crash, a watchdog kill or three refused frames, comes
\* after the old child's done.  (And every variable has its type.)
OneChild ==
    /\ TypeOK
    /\ \A p, q \in Pid :
          child[p].proc # "none" /\ child[q].proc # "none" => p = q

\* A child that printed "No GPU to monitor." and exited is reported as
\* no_gpu, however fast it exits: Wait runs after the readers saw everything.
NoGpuReported ==
    [][pc = "reap" /\ pc' = "error" /\ child[cmd].said => err' = "no_gpu"]_vars

\* A restart delay that grew is forgiven only after a minute without any
\* error of the source, not by the first good frame of a crashing child.
BackoffForgiven == [][backoff' < backoff => lastError = "minute"]_vars

Serving(p) == Running(p) /\ child[p].mood = "good"

\* "restarts nvtop with backoff if it dies or wedges" (web/README.md): a
\* child that died, prints nothing or prints what Parse refuses does not stay
\* the current child, unless it comes back by itself or the sidecar stops.
Restarts ==
    \A p \in Pid :
        (cmd = p /\ ~Serving(p)) ~> (cmd # p \/ Serving(p) \/ main # "serve")

\* Once nvtop can be started and every child keeps printing valid frames,
\* the published status becomes and stays ok: no leftover of an earlier child
\* (a buffered frame, a kill that is still on its way, a failure count, a
\* pending done) makes the sidecar stale for ever.
Recovers ==
    <>[][~StartFails]_vars /\ <>[](cmd # NoPid => Serving(cmd))
        => <>[](status = "ok") \/ <>(main # "serve")

-----------------------------------------------------------------------------
(* What the sources say and the code does not do                           *)

\* exec.go: "Terminate gives nvtop an orderly SIGTERM before the final
\* SIGKILL fallback."
ChildToldToStop ==
    main = "exited" => \A p \in Pid : Running(p) => child[p].signal # {}
=============================================================================
