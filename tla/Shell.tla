------------------------------- MODULE Shell -------------------------------
(***************************************************************************)
(* The shell executor, backend/worker/executors/shell.py, and the log      *)
(* buffer that it writes to (LogBuffer of backend/worker/runner.py): the   *)
(* command, a process it may leave in the background, the two pumps that   *)
(* read their pipes to the end, the timeout, cancellation, the threads     *)
(* that insert log lines, and the last flush in process_run.               *)
(*                                                                         *)
(* Nothing makes a process end.  The timeout may come at any time while    *)
(* proc.wait() is awaited; cancellation, at any await.  The event loop     *)
(* learns of an exit after the command was reaped, so either may also come *)
(* between the two.  proc.wait() returns when the command has exited, as   *)
(* it does from Python 3.12.4 on, and not only when its pipes are closed.  *)
(***************************************************************************)
EXTENDS Naturals, Sequences

CONSTANTS
    Background,     \* the command may leave a process in the background
    FlushEvery,     \* _FLUSH_EVERY
    MaxLines,       \* bound: lines that the command writes
    MaxFaults,      \* bound: INSERTs of log lines that raise
    MaxCancels      \* bound: cancellations of the task

ASSUME ShellAssumption ==
    /\ Background \in BOOLEAN
    /\ FlushEvery \in Nat \ {0, 1}
    /\ {MaxLines, MaxFaults, MaxCancels} \subseteq Nat

Stream == {"stdout", "stderr"}

VARIABLES
    pc,
    proc,           \* the command
    child,          \* the process in the background: same group, same pipes
    written,        \* how many lines they wrote to each stream
    pump, read,     \* the pumps, and how many lines they have read
    buf,            \* LogBuffer._buf
    inserts,        \* the calls of append_logs under way, and for whom
    stored,         \* the lines in job_run_logs, by ts and id
    script,         \* the directory of the uploaded script
    cancels, faults,
    result

vars == <<pc, proc, child, written, pump, read, buf, inserts, stored, script,
          cancels, faults, result>>
processes == <<proc, child>>
pumpVars == <<pump, read>>
logVars == <<buf, inserts, stored>>

(* A line is known by its stream and its number there; of those that the   *)
(* worker adds only the number matters.                                    *)
System == <<"system", 0>>
Line == (Stream \X (1..MaxLines)) \union {System}

TypeOK ==
    /\ pc \in {"start", "wait", "cancel", "drain", "finally", "done", "write", "last", "flush", "over"}
    /\ proc \in {"none", "running", "exit 0", "exit 1", "killed"}
    /\ child \in {"none", "alive", "gone"}
    /\ written \in [Stream -> 0..MaxLines] /\ read \in [Stream -> 0..MaxLines]
    /\ pump \in [Stream -> {"none", "reads", "waits", "eof", "raised"}]
    /\ buf \in Seq(Line) /\ Len(buf) < FlushEvery
    /\ inserts \subseteq [by : Stream \union {"cancel", "end"}, lines : Seq(Line)]
    /\ stored \in Seq(Line)
    /\ script \in {"none", "there", "removed"}
    /\ cancels \in 0..MaxCancels
    /\ faults \in 0..MaxFaults
    /\ result \in {"none", "succeeded", "failed", "timed_out", "canceled", "crashed"}

Init ==
    /\ pc = "start"
    /\ proc = "none" /\ child = "none" /\ script = "none"
    /\ written = [s \in Stream |-> 0] /\ read = written
    /\ pump = [s \in Stream |-> "none"]
    /\ buf = <<>> /\ inserts = {} /\ stored = <<>>
    /\ cancels = 0 /\ faults = 0
    /\ result = "none"

-----------------------------------------------------------------------------
(* LogBuffer.                                                              *)

(* The next line makes write() flush. *)
Full == Len(buf) + 1 >= FlushEvery

(* flush(): the buffer is swapped for an empty one before the await. *)
Flush(by, lines) ==
    /\ buf' = <<>>
    /\ inserts' = inserts \union {[by |-> by, lines |-> lines]}

(* write() *)
Write(by, line) ==
    IF Full THEN Flush(by, Append(buf, line))
    ELSE buf' = Append(buf, line) /\ UNCHANGED inserts

-----------------------------------------------------------------------------
(* The processes, and the pumps.                                           *)

(* The command cannot be parsed or started; or it runs, with the uploaded  *)
(* script beside it if there is one.                                       *)
Start ==
    /\ pc = "start"
    /\ \/ /\ pc' = "done" /\ result' = "failed"
          /\ buf' \in {<<>>, <<System>>}
          /\ UNCHANGED <<proc, pump, script>>
       \/ /\ pc' = "wait" /\ proc' = "running"
          /\ pump' = [s \in Stream |-> "reads"]
          /\ script' \in {"none", "there"}
          /\ buf' = <<System>>
          /\ UNCHANGED result
    /\ UNCHANGED <<child, written, read, inserts, stored, cancels, faults>>

Exit(code) ==
    /\ proc = "running"
    /\ proc' = code
    /\ UNCHANGED <<pc, child, written, pumpVars, logVars, script, cancels, faults, result>>

Fork ==
    /\ Background /\ proc = "running" /\ child = "none"
    /\ child' = "alive"
    /\ UNCHANGED <<pc, proc, written, pumpVars, logVars, script, cancels, faults, result>>

ChildExits ==
    /\ child = "alive"
    /\ child' = "gone"
    /\ UNCHANGED <<pc, proc, written, pumpVars, logVars, script, cancels, faults, result>>

PipeHeld == proc = "running" \/ child = "alive"

WriteLine(s) ==
    /\ PipeHeld /\ written["stdout"] + written["stderr"] < MaxLines
    /\ written' = [written EXCEPT ![s] = @ + 1]
    /\ UNCHANGED <<pc, processes, pumpVars, logVars, script, cancels, faults, result>>

(* _pump: a line is read and logged; if that flushes, the pump waits. *)
PumpReads(s) ==
    LET line == <<s, read[s] + 1>>
    IN /\ pump[s] = "reads" /\ read[s] < written[s]
       /\ read' = [read EXCEPT ![s] = @ + 1]
       /\ Write(s, line)
       /\ pump' = [pump EXCEPT ![s] = IF Full THEN "waits" ELSE @]
       /\ UNCHANGED <<pc, processes, written, stored, script, cancels, faults, result>>

(* The pipe ends when it is empty and no process holds it. *)
PumpEnds(s) ==
    /\ pump[s] = "reads" /\ read[s] = written[s] /\ ~PipeHeld
    /\ pump' = [pump EXCEPT ![s] = "eof"]
    /\ UNCHANGED <<pc, processes, written, read, logVars, script, cancels, faults, result>>

(* readline raises on a line longer than the limit of the stream. *)
PumpRaises(s) ==
    /\ pump[s] = "reads" /\ read[s] < written[s]
    /\ pump' = [pump EXCEPT ![s] = "raised"]
    /\ UNCHANGED <<pc, processes, written, read, logVars, script, cancels, faults, result>>

(* pumps.done(): gather is done with the first exception, and leaves the   *)
(* other pump to run on.                                                   *)
PumpsDone ==
    \/ \A s \in Stream : pump[s] = "eof"
    \/ \E s \in Stream : pump[s] = "raised"

(* gather is canceled, if it is not done, and with it both pumps. *)
CancelPumps ==
    pump' = [s \in Stream |-> IF PumpsDone \/ pump[s] = "eof" THEN pump[s] ELSE "raised"]

-----------------------------------------------------------------------------
(* execute()                                                               *)

(* _terminate: the group is found through the command, if that has not     *)
(* been reaped.                                                            *)
terminate ==
    IF proc = "running"
    THEN proc' = "killed" /\ child' = IF child = "alive" THEN "gone" ELSE child
    ELSE UNCHANGED processes

Waited ==
    /\ pc = "wait" /\ proc \in {"exit 0", "exit 1"}
    /\ pc' = "finally"
    /\ UNCHANGED <<processes, written, pumpVars, logVars, script, cancels, faults, result>>

(* Mutant of Timeout: nothing is killed. *)
Timeout_no_kill ==
    /\ pc = "wait"
    /\ pc' = "drain" /\ result' = "timed_out"
    /\ UNCHANGED <<processes, written, pumpVars, logVars, script, cancels, faults>>

Timeout ==
    /\ pc = "wait"
    /\ terminate
    /\ pc' = "drain" /\ result' = "timed_out"
    /\ UNCHANGED <<written, pumpVars, logVars, script, cancels, faults>>

Drained ==
    /\ pc = "drain" /\ PumpsDone
    /\ pc' = "finally"
    /\ UNCHANGED <<processes, written, pumpVars, logVars, script, cancels, faults, result>>

(* Mutant of Finally: the pumps are not awaited. *)
Finally_no_wait ==
    /\ pc = "finally"
    /\ pc' = "done"
    /\ script' = IF script = "there" THEN "removed" ELSE script
    /\ result' = IF result # "none" THEN result
                 ELSE IF proc = "exit 0" THEN "succeeded" ELSE "failed"
    /\ UNCHANGED <<processes, written, pumpVars, logVars, cancels, faults>>

(* The finally block, and the result of a command that was waited for. *)
Finally ==
    /\ pc = "finally" /\ PumpsDone
    /\ pc' = "done"
    /\ script' = IF script = "there" THEN "removed" ELSE script
    /\ result' = IF result # "none" THEN result
                 ELSE IF proc = "exit 0" THEN "succeeded" ELSE "failed"
    /\ UNCHANGED <<processes, written, pumpVars, logVars, cancels, faults>>

(* process_run, when the executor has returned, or raised: that is logged. *)
LastLine ==
    /\ pc = "done"
    /\ IF result \in {"canceled", "crashed"}
       THEN Write("end", System) /\ pc' = IF Full THEN "write" ELSE "last"
       ELSE pc' = "last" /\ UNCHANGED <<buf, inserts>>
    /\ UNCHANGED <<processes, written, pumpVars, stored, script, cancels, faults, result>>

LastFlush ==
    /\ pc = "last"
    /\ IF buf = <<>> THEN pc' = "over" /\ UNCHANGED <<buf, inserts>>
       ELSE pc' = "flush" /\ Flush("end", buf)
    /\ UNCHANGED <<processes, written, pumpVars, stored, script, cancels, faults, result>>

(* Mutant of Canceled: the CancelledError ends the call at every await. *)
Canceled_no_branch ==
    /\ pc \notin {"done", "last", "over"} /\ cancels < MaxCancels
    /\ cancels' = cancels + 1 /\ result' = "canceled"
    /\ pc' = "done"
    /\ UNCHANGED <<processes, written, pumpVars, logVars, script, faults>>

(* task.cancel(): at each await, what the CancelledError leads to.  The    *)
(* branch for it logs first, and kills at once only if that does not       *)
(* flush.  To cancel who awaits the pumps is to cancel them; a thread runs *)
(* on.                                                                     *)
Canceled ==
    /\ cancels < MaxCancels
    /\ cancels' = cancels + 1
    /\ result' = IF pc \in {"write", "flush"} THEN result ELSE "canceled"
    /\ \/ /\ pc = "start" /\ pc' = "done"
          /\ buf' = <<System>> /\ script' \in {"none", "there"}
          /\ UNCHANGED <<processes, pump, inserts>>
       \/ /\ pc = "wait" /\ Write("cancel", System)
          /\ IF Full THEN pc' = "cancel" /\ UNCHANGED processes
             ELSE pc' = "drain" /\ terminate
          /\ UNCHANGED <<pump, script>>
       \/ /\ pc = "cancel" /\ pc' = "finally"
          /\ UNCHANGED <<processes, pump, buf, inserts, script>>
       \/ /\ pc \in {"drain", "finally"}
          /\ pc' = IF pc = "drain" THEN "finally" ELSE "done"
          /\ CancelPumps
          /\ UNCHANGED <<processes, buf, inserts, script>>
       \/ /\ pc \in {"write", "flush"} /\ pc' = "over"
          /\ UNCHANGED <<processes, pump, buf, inserts, script>>
    /\ UNCHANGED <<written, read, stored, faults>>

-----------------------------------------------------------------------------
(* append_logs, in a thread.                                               *)

(* Mutant of Resume: the command is not killed once that is logged. *)
Resume_no_kill(by) ==
    /\ pump' = [s \in Stream |-> IF by = s /\ pump[s] = "waits" THEN "reads" ELSE pump[s]]
    /\ pc' = CASE by = "cancel" /\ pc = "cancel" -> "drain"
               [] by = "end" /\ pc = "write" -> "last"
               [] by = "end" /\ pc = "flush" -> "over"
               [] OTHER -> pc
    /\ UNCHANGED <<processes, written, read, script, cancels, faults, result>>

(* Whoever awaits the thread, if it still does, goes on. *)
Resume(by) ==
    /\ pump' = [s \in Stream |-> IF by = s /\ pump[s] = "waits" THEN "reads" ELSE pump[s]]
    /\ pc' = CASE by = "cancel" /\ pc = "cancel" -> "drain"
               [] by = "end" /\ pc = "write" -> "last"
               [] by = "end" /\ pc = "flush" -> "over"
               [] OTHER -> pc
    /\ IF by = "cancel" /\ pc = "cancel" THEN terminate ELSE UNCHANGED processes
    /\ UNCHANGED <<written, read, script, cancels, faults, result>>

(* Mutant of Insert: flush() clears the buffer after the await, not before. *)
Insert_clears(i) ==
    /\ inserts' = inserts \ {i} /\ buf' = <<>>
    /\ stored' = stored \o i.lines
    /\ Resume(i.by)

(* The lines of one call get their times, and their ids, together. *)
Insert(i) ==
    /\ inserts' = inserts \ {i} /\ UNCHANGED buf
    /\ stored' = stored \o i.lines
    /\ Resume(i.by)

(* The lines are lost, and who awaits the thread, if it still does, gets   *)
(* the exception.                                                          *)
InsertRaises(i) ==
    /\ faults < MaxFaults /\ faults' = faults + 1
    /\ inserts' = inserts \ {i}
    /\ pump' = [s \in Stream |-> IF i.by = s /\ pump[s] = "waits" THEN "raised" ELSE pump[s]]
    /\ LET logs == i.by = "cancel" /\ pc = "cancel"
           ends == i.by = "end" /\ pc \in {"write", "flush"}
       IN /\ pc' = CASE logs -> "finally" [] ends -> "over" [] OTHER -> pc
          /\ result' = IF logs THEN "crashed" ELSE result
    /\ UNCHANGED <<processes, written, read, buf, stored, script, cancels>>

-----------------------------------------------------------------------------
Execute == Start \/ Waited \/ Drained \/ Finally \/ LastLine \/ LastFlush

Next ==
    \/ Execute \/ Timeout \/ Canceled
    \/ \E s \in Stream : WriteLine(s) \/ PumpReads(s) \/ PumpEnds(s) \/ PumpRaises(s)
    \/ \E i \in inserts : Insert(i) \/ InsertRaises(i)
    \/ Fork \/ ChildExits
    \/ \E code \in {"exit 0", "exit 1"} : Exit(code)

(* The event loop runs what is ready, a pump reads its pipe and notices    *)
(* its end, threads run and the timer fires.  No process is assumed to end *)
(* by itself.                                                              *)
Spec ==
    /\ Init /\ [][Next]_vars
    /\ WF_vars(Execute) /\ WF_vars(Timeout)
    /\ WF_vars(\E s \in Stream : PumpReads(s) \/ PumpEnds(s))
    /\ WF_vars(\E i \in inserts : Insert(i))

-----------------------------------------------------------------------------
(* Properties.                                                             *)

(* One cancellation at most, and no INSERT that raises while the branch    *)
(* for a cancellation logs.  An INSERT for a pump or at the end may raise. *)
Orderly == cancels <= 1 /\ result # "crashed"

(* shell.py: "On timeout the process group is terminated".  The executor   *)
(* does not return, or raise, over a running command, nor over the         *)
(* background process of one that it killed, and it does not remove an     *)
(* uploaded script while the command may read it.                          *)
NoCommandLeft ==
    Orderly =>
        /\ pc \in {"done", "write", "last", "flush", "over"} =>
              proc # "running" /\ (proc = "killed" => child # "alive")
        /\ proc = "running" => script # "removed"

(* "stdout/stderr are streamed line-by-line into job_run_logs": unless a   *)
(* pump or an INSERT raised or was canceled, every line that was written   *)
(* is stored once, although two pumps fill one buffer and flush it while   *)
(* the other writes, and through timeout and cancellation.  The lines of   *)
(* a stream are stored in order if nobody else logs at the same time; if   *)
(* the other pump or the branch for a cancellation does, two flushes may   *)
(* overtake each other.                                                    *)
LinesKept ==
    (faults = 0 /\ pc = "over" /\ inserts = {} /\ \A s \in Stream : pump[s] = "eof") =>
        \A s \in Stream :
            LET mine == {i \in DOMAIN stored : stored[i][1] = s}
            IN /\ {stored[i] : i \in mine} = {s} \X (1..written[s])
               /\ \A i, k \in mine : stored[i] = stored[k] => i = k
               /\ (cancels = 0 /\ \A o \in Stream \ {s} : written[o] = 0) =>
                     \A i, k \in mine : i < k => stored[i][2] < stored[k][2]

(* The executor returns, unless the command has left a process in the      *)
(* background that keeps the pipe, also when a pump has given up and the   *)
(* command blocks on its full pipe: this is what the worker's capacity and *)
(* drain, and the fairness of module Dispatch, rely on.                    *)
ShellReturns == []Orderly /\ <>[](child # "alive") => <>(pc = "over")

(* "cancellation requested; terminating process": a canceled command stops *)
(* running.                                                                *)
CancelTerminates == []Orderly => ((result = "canceled") ~> (proc # "running"))
=============================================================================
