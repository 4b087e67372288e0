------------------------------ MODULE PluginRun ------------------------------
(***************************************************************************)
(* One run of a script: Plugin.run of plugin.go with util.Exec and         *)
(* util.Kill of exec_unix.go.  Five goroutines take part: the caller, the  *)
(* two readers of the pipes, the goroutine that kills the process group    *)
(* when the deadline passes, and the one of os/exec that kills the process *)
(* when the context is done.  The script is a process that writes, may     *)
(* fork a child, and exits.                                                *)
(***************************************************************************)
EXTENDS Integers, FiniteSets, FiniteSetsExt

CONSTANTS PipeCap,              \* what a pipe holds before a write blocks
          BufferBytes,          \* maxCustomPluginBufferBytes
          MaxOutputLength,      \* PluginGlobalConfig.MaxOutputLength
          TimeoutText           \* length of "Timeout when running plugin ..."
ASSUME RunAssumption == /\ PipeCap \in Nat \ {0} /\ BufferBytes \in Nat \ {0}
                        /\ MaxOutputLength \in Nat /\ TimeoutText \in Nat

VARIABLES
    plan,       \* what the script will do: [deadline, faulty, writes, forks]
    runner,     \* the caller of run
    ctx,        \* the context with the timeout
    main,       \* the script's process: "none", "running", "exited", "killed", "reaped"
    code,       \* its wait status; -1 after a signal
    child,      \* a descendant: [state, escaped, holds]
    written,    \* bytes written to each pipe so far
    pipe,       \* bytes in each pipe
    taken,      \* bytes each reader has kept
    reader,     \* "off", "reading", "done" or "failed"
    killer,     \* the goroutine of run that waits for the deadline
    execWatch,  \* the goroutine of os/exec: "off", "watching", "killed" or "reported"
    timeout,    \* the flag the killer sets
    result      \* what run returned: [status, message, length]
runVars == <<plan, runner, ctx, main, code, child, written, pipe, taken, reader,
             killer, execWatch, timeout, result>>

Pipes == {"stdout", "stderr"}
OK == 0
NonOK == 1
Unknown == 2
NoResult == [status |-> -1, message |-> "none", length |-> 0]
Error == [status |-> Unknown, message |-> "error", length |-> 0]
NoChild == [state |-> "none", escaped |-> FALSE, holds |-> FALSE]
Each(v) == [p \in Pipes |-> v]

RunInit ==
    /\ runner = "idle" /\ ctx = "none" /\ main = "none" /\ code = 0 /\ child = NoChild
    /\ written = Each(0) /\ pipe = Each(0) /\ taken = Each(0) /\ reader = Each("off")
    /\ killer = "off" /\ execWatch = "off" /\ timeout = FALSE /\ result = NoResult

\* The deferred close of waitChan and cancel of the context.
Return(r) ==
    /\ runner' = "returned" /\ result' = r
    /\ ctx' = IF ctx = "live" THEN "cancelled" ELSE ctx

-----------------------------------------------------------------------------
(* The caller *)

\* The pipes and the process exist, the goroutines are started.
StartRun ==
    /\ runner = "idle"
    /\ runner' = "reading" /\ ctx' = "live" /\ main' = "running" /\ code' = 0
    /\ reader' = Each("reading") /\ killer' = "waiting" /\ execWatch' = "watching"
    /\ UNCHANGED <<plan, child, written, pipe, taken, timeout, result>>

\* StdoutPipe, StderrPipe or Start fails.
StartFails ==
    /\ runner = "idle" /\ plan.faulty
    /\ runner' = "returned" /\ result' = Error /\ ctx' = "cancelled"
    /\ UNCHANGED <<plan, main, code, child, written, pipe, taken, reader, killer,
                   execWatch, timeout>>

\* Mutant of Gathered: the caller waits for the process without its output.
GatheredEarly ==
    /\ runner = "reading"
    /\ runner' = "waiting"
    /\ UNCHANGED <<plan, ctx, main, code, child, written, pipe, taken, reader, killer,
                   execWatch, timeout, result>>

\* wg.Wait returns.  After a failed read the process is not waited for.
Gathered ==
    /\ runner = "reading" /\ \A p \in Pipes : reader[p] \in {"done", "failed"}
    /\ IF \E p \in Pipes : reader[p] = "failed" THEN Return(Error)
       ELSE runner' = "waiting" /\ UNCHANGED <<ctx, result>>
    /\ UNCHANGED <<plan, main, code, child, written, pipe, taken, reader, killer,
                   execWatch, timeout>>

\* cmd.Wait, first half: the process is reaped.
Reap ==
    /\ runner = "waiting" /\ main \in {"exited", "killed"}
    /\ runner' = "reaped" /\ main' = "reaped"
    /\ UNCHANGED <<plan, ctx, code, child, written, pipe, taken, reader, killer,
                   execWatch, timeout, result>>

\* Mutant of WaitResult: what os/exec says of the context is not looked at.
WaitIgnored ==
    /\ runner = "reaped"
    /\ runner' = "judging" /\ execWatch' = IF execWatch = "watching" THEN "reported" ELSE execWatch
    /\ UNCHANGED <<plan, ctx, main, code, child, written, pipe, taken, reader, killer,
                   timeout, result>>

\* cmd.Wait, second half.  An exit code other than 0 wins over the context's error.
WaitResult ==
    /\ runner = "reaped"
    /\ IF execWatch = "killed" /\ code = 0 THEN Return(Error)
       ELSE runner' = "judging" /\ UNCHANGED <<ctx, result>>
    /\ execWatch' = IF execWatch = "watching" THEN "reported" ELSE execWatch
    /\ UNCHANGED <<plan, main, code, child, written, pipe, taken, reader, killer, timeout>>

\* The flag is read, the output cut and the exit code turned into a status.
Judge ==
    /\ runner = "judging"
    /\ Return([status |-> IF code \in {OK, NonOK} THEN code ELSE Unknown,
               message |-> IF timeout THEN "timeout" ELSE "output",
               length |-> Min({MaxOutputLength,
                               taken["stdout"] + IF timeout THEN TimeoutText ELSE 0})])
    /\ UNCHANGED <<plan, main, code, child, written, pipe, taken, reader, killer,
                   execWatch, timeout>>

-----------------------------------------------------------------------------
(* The readers *)

\* readFromReader keeps the first bytes and drops the others.
ReadPipe(p) ==
    /\ reader[p] = "reading" /\ pipe[p] > 0
    /\ pipe' = [pipe EXCEPT ![p] = @ - 1]
    /\ taken' = [taken EXCEPT ![p] = Min({@ + 1, BufferBytes})]
    /\ UNCHANGED <<plan, runner, ctx, main, code, child, written, reader, killer,
                   execWatch, timeout, result>>

\* A pipe ends when no process holds its write side.
Held == main = "running" \/ (child.state = "running" /\ child.holds)
ReadEnds(p) ==
    /\ reader[p] = "reading"
    /\ \/ /\ pipe[p] = 0 /\ ~Held
          /\ reader' = [reader EXCEPT ![p] = "done"]
       \/ /\ plan.faulty
          /\ reader' = [reader EXCEPT ![p] = "failed"]
    /\ UNCHANGED <<plan, runner, ctx, main, code, child, written, pipe, taken, killer,
                   execWatch, timeout, result>>

-----------------------------------------------------------------------------
(* The deadline *)

DeadlinePasses ==
    /\ plan.deadline /\ ctx = "live"
    /\ ctx' = "expired"
    /\ UNCHANGED <<plan, runner, main, code, child, written, pipe, taken, reader, killer,
                   execWatch, timeout, result>>

Signalled == IF main = "running" THEN main' = "killed" /\ code' = -1
             ELSE UNCHANGED <<main, code>>

\* os/exec kills the process when the deadline passed, or when run returned without a
\* Wait; a process that was reaped has no error to report.
ExecKills ==
    /\ execWatch = "watching" /\ ctx \in {"expired", "cancelled"}
    /\ execWatch' = IF main = "reaped" THEN "reported" ELSE "killed"
    /\ Signalled
    /\ UNCHANGED <<plan, runner, ctx, child, written, pipe, taken, reader, killer, timeout, result>>

\* The killer's select, and its lines up to the unlock of m.
KillerWakes ==
    /\ killer = "waiting"
    /\ \/ ctx = "expired" /\ killer' = "killing" /\ timeout' = TRUE
       \/ /\ runner = "returned" \/ ctx = "cancelled"
          /\ killer' = "done" /\ UNCHANGED timeout
    /\ UNCHANGED <<plan, runner, ctx, main, code, child, written, pipe, taken, reader,
                   execWatch, result>>

\* Mutant of Kill: the process, not its group.
KillProcess ==
    /\ killer = "killing" /\ killer' = "done"
    /\ Signalled
    /\ UNCHANGED <<plan, runner, ctx, child, written, pipe, taken, reader, execWatch,
                   timeout, result>>

\* SIGKILL to the process group.
Kill ==
    /\ killer = "killing" /\ killer' = "done"
    /\ Signalled
    /\ child' = IF child.state = "running" /\ ~child.escaped
                THEN [child EXCEPT !.state = "gone"] ELSE child
    /\ UNCHANGED <<plan, runner, ctx, written, pipe, taken, reader, execWatch, timeout, result>>

-----------------------------------------------------------------------------
(* The script *)

Write(p) ==
    /\ main = "running" /\ written[p] < plan.writes[p] /\ pipe[p] < PipeCap
    /\ written' = [written EXCEPT ![p] = @ + 1]
    /\ pipe' = [pipe EXCEPT ![p] = @ + 1]
    /\ UNCHANGED <<plan, runner, ctx, main, code, child, taken, reader, killer, execWatch,
                   timeout, result>>

\* The child keeps the pipes open or not, and may leave the process group.
Fork(escaped, holds) ==
    /\ main = "running" /\ plan.forks /\ child.state = "none"
    /\ child' = [state |-> "running", escaped |-> escaped, holds |-> holds]
    /\ UNCHANGED <<plan, runner, ctx, main, code, written, pipe, taken, reader, killer,
                   execWatch, timeout, result>>

ExitWith(c) ==
    /\ main = "running" /\ written = plan.writes
    /\ main' = "exited" /\ code' = c
    /\ UNCHANGED <<plan, runner, ctx, child, written, pipe, taken, reader, killer, execWatch,
                   timeout, result>>

ChildExits ==
    /\ child.state = "running"
    /\ child' = [child EXCEPT !.state = "gone"]
    /\ UNCHANGED <<plan, runner, ctx, main, code, written, pipe, taken, reader, killer,
                   execWatch, timeout, result>>

\* The next tick of the plugin runs the rule again.
RunAgain ==
    /\ runner = "returned" /\ killer \in {"off", "done"}
    /\ runner' = "idle" /\ ctx' = "none" /\ main' = "none" /\ code' = 0
    /\ written' = Each(0) /\ pipe' = Each(0) /\ taken' = Each(0) /\ reader' = Each("off")
    /\ killer' = "off" /\ execWatch' = "off" /\ timeout' = FALSE /\ result' = NoResult
    /\ UNCHANGED <<plan, child>>

RunStep ==
    \/ StartRun \/ StartFails \/ Gathered \/ Reap \/ WaitResult \/ Judge
    \/ \E p \in Pipes : ReadPipe(p) \/ ReadEnds(p) \/ Write(p)
    \/ DeadlinePasses \/ ExecKills \/ KillerWakes \/ Kill
=============================================================================
