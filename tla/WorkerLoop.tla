----------------------------- MODULE WorkerLoop -----------------------------
(***************************************************************************)
(* run() of backend/worker/main.py: the loop of one worker process around  *)
(* its tasks, from its start to its end.  Capacity and batches, reclaiming *)
(* and reading, messages that cannot be parsed, the cancel listener, the   *)
(* drain at SIGTERM, and what becomes of the tasks if the loop itself      *)
(* fails.                                                                  *)
(*                                                                         *)
(* What a task does to its run is in Dispatch; here it claims the run,     *)
(* runs until its executor returns or is canceled, and acks.  A message is *)
(* named by its id in the stream: the older, the smaller.  Each has a run  *)
(* of its own, named by the message.  The calls of process_run that raise  *)
(* are in Dispatch; here those of the loop, of the listener, of handle()   *)
(* and of the API's cancel_run do.  When a Redis command raises, it was    *)
(* executed and its reply lost, or it was not.                             *)
(***************************************************************************)
EXTENDS Naturals, FiniteSets

CONSTANTS
    Concurrency,        \* settings.worker_concurrency
    ReadBatch,          \* settings.worker_read_batch
    Stale,              \* messages pending for a worker that is dead
    Fresh,              \* messages that were never delivered
    Malformed,          \* the messages without a readable run_id
    MaxIdle,            \* bound: times that a message of a live task becomes idle
    MaxCancels,         \* bound: runs that users cancel
    MaxFaults           \* bound: calls that raise, and cancel messages lost

Msg == Stale \union Fresh
Run == Msg \ Malformed

(* A message is delivered again after it was idle, and each becomes idle   *)
(* at most once more for every reply or ack that is lost.                  *)
MaxDeliveries == MaxIdle + MaxFaults + 2

(* A task is named by its message and by which delivery of it this is. *)
Task == Run \X (1..MaxDeliveries)

ASSUME WorkerLoopAssumption ==
    /\ {Concurrency, ReadBatch} \subseteq Nat \ {0}
    /\ {MaxIdle, MaxCancels, MaxFaults} \subseteq Nat
    /\ Msg \subseteq Nat /\ IsFiniteSet(Msg)
    /\ Stale \intersect Fresh = {}
    /\ Malformed \subseteq Msg

VARIABLES
    fresh,              \* the undelivered messages
    pending,            \* the group's pending messages
    idle,               \* those idle for claim_min_idle_ms
    mine,               \* those delivered to this worker
    forgotten,          \* history: those of them with a lost reply or ack
    deliveries,         \* how often each message was delivered
    status,             \* the status of each run
    task,               \* where each task is
    inflight_by_run,    \* the delivery whose task is registered, 0 for none
    pc, count, batch,   \* where the loop is, and its locals
    stop,               \* the Event that SIGTERM sets
    listener,           \* where _cancel_listener is
    signals,            \* the cancel messages it has yet to read
    canceling,          \* canceled runs whose message is yet to be published
    missed,             \* history: runs whose cancel message it will never read
    idles, cancels, faults

streamVars == <<fresh, pending, idle, mine, forgotten, deliveries>>
taskVars == <<status, task, inflight_by_run>>
loopVars == <<pc, count, batch>>
listenerVars == <<listener, signals, canceling, missed>>
bounds == <<idles, cancels, faults>>
vars == <<streamVars, taskVars, loopVars, stop, listenerVars, bounds>>

TasksAt(S) == {t \in Task : task[t] \in S}

(* Mutant of inflight: a task that is done is not discarded. *)
inflight_kept == TasksAt({"waits", "claims", "executes", "acks", "done"})

(* The tasks that spawn() added and that are not done. *)
inflight == TasksAt({"waits", "claims", "executes", "acks"})

(* A message that was delivered before is spawned by _reclaim_stale. *)
allow_running(t) == t[2] > 1

(* run() has not ended; what others do after that is left out. *)
Running == pc \notin {"stopped", "dead"}

TypeOK ==
    /\ fresh \subseteq Msg /\ pending \subseteq Msg /\ batch \subseteq Msg
    /\ idle \subseteq pending /\ mine \subseteq pending /\ forgotten \subseteq mine
    /\ deliveries \in [Msg -> 0..MaxDeliveries]
    /\ status \in [Run -> {"queued", "running", "finished", "canceled"}]
    /\ task \in [Task -> {"none", "waits", "claims", "executes", "acks", "done"}]
    /\ inflight_by_run \in [Run -> 0..MaxDeliveries]
    /\ pc \in {"top", "reclaim", "reclaimed", "read", "received",
              "drain", "stopped", "dying", "dead"}
    /\ count \in 0..ReadBatch
    /\ stop \in BOOLEAN /\ listener \in {"starting", "subscribed", "ended"}
    /\ signals \subseteq Run /\ canceling \subseteq Run /\ missed \subseteq Run
    /\ idles \in 0..MaxIdle /\ cancels \in 0..MaxCancels /\ faults \in 0..MaxFaults

Init ==
    /\ fresh = Fresh /\ pending = Stale
    /\ idle = Stale /\ mine = {} /\ forgotten = {}
    /\ deliveries = [m \in Msg |-> IF m \in idle THEN 1 ELSE 0]
    /\ status = [r \in Run |-> IF r \in idle THEN "running" ELSE "queued"]
    /\ task = [t \in Task |-> "none"]
    /\ inflight_by_run = [r \in Run |-> 0]
    /\ pc = "top" /\ count = 0 /\ batch = {}
    /\ stop = FALSE
    /\ listener = "starting" /\ signals = {} /\ canceling = {} /\ missed = {}
    /\ idles = 0 /\ cancels = 0 /\ faults = 0

-----------------------------------------------------------------------------
(* The loop.                                                               *)

Smaller(a, b) == IF a < b THEN a ELSE b

(* The n oldest of a set of messages, or all if there are no more. *)
Oldest(S, n) ==
    {T \in SUBSET S : /\ Cardinality(T) = Smaller(n, Cardinality(S))
                      /\ \A m \in T, o \in S \ T : m < o}

capacity == Concurrency - Cardinality(inflight)

(* A turn of "while not stop.is_set()".  With no capacity the loop sleeps  *)
(* and comes back.                                                         *)
Turn ==
    /\ pc = "top" /\ ~stop /\ capacity > 0
    /\ count' = Smaller(capacity, ReadBatch)
    /\ pc' = "reclaim"
    /\ UNCHANGED <<streamVars, taskVars, batch, stop, listenerVars, bounds>>

Deliver(messages) ==
    /\ mine' = mine \union messages
    /\ deliveries' = [m \in Msg |-> IF m \in messages THEN deliveries[m] + 1 ELSE deliveries[m]]

(* XAUTOCLAIM: this worker's own messages may be among them. *)
Xautoclaim(messages) ==
    /\ Deliver(messages)
    /\ idle' = idle \ messages
    /\ UNCHANGED <<fresh, pending>>

(* XREADGROUP: there are none when it times out. *)
Xreadgroup(messages) ==
    /\ Deliver(messages)
    /\ fresh' = fresh \ messages
    /\ pending' = pending \union messages
    /\ UNCHANGED idle

Received(messages) == batch' = messages /\ forgotten' = forgotten \ messages

(* The reply got lost: the messages are pending for this worker, which has *)
(* no task for them.                                                       *)
Lost(messages) == forgotten' = forgotten \union messages /\ UNCHANGED batch

Reclaim ==
    /\ pc = "reclaim" /\ pc' = "reclaimed"
    /\ \E messages \in Oldest(idle, count) : Xautoclaim(messages) /\ Received(messages)
    /\ UNCHANGED <<taskVars, count, stop, listenerVars, bounds>>

(* What XREADGROUP returns after SIGTERM is spawned all the same. *)
Read ==
    /\ pc = "read" /\ pc' = "received"
    /\ \E messages \in Oldest(fresh, count) : Xreadgroup(messages) /\ Received(messages)
    /\ count' = 0
    /\ UNCHANGED <<taskVars, stop, listenerVars, bounds>>

Fault == faults < MaxFaults /\ faults' = faults + 1 /\ UNCHANGED <<idles, cancels>>

(* XAUTOCLAIM raises, and the loop reads on. *)
ReclaimRaises ==
    /\ pc = "reclaim" /\ pc' = "read"
    /\ Fault
    /\ \/ UNCHANGED <<streamVars, batch>>
       \/ \E messages \in Oldest(idle, count) : Xautoclaim(messages) /\ Lost(messages)
    /\ UNCHANGED <<taskVars, count, stop, listenerVars>>

(* XREADGROUP raises, and the loop starts over. *)
ReadRaises ==
    /\ pc = "read" /\ pc' = "top"
    /\ Fault
    /\ \/ UNCHANGED <<streamVars, batch>>
       \/ \E messages \in Oldest(fresh, count) : Xreadgroup(messages) /\ Lost(messages)
    /\ count' = 0
    /\ UNCHANGED <<taskVars, stop, listenerVars>>

(* The messages before the first one without a run_id. *)
Readable == {m \in batch : \A o \in batch \intersect Malformed : m < o}

(* What is left of the batch, and where the loop goes when that is nothing. *)
Remaining(messages) ==
    /\ batch' = messages
    /\ pc' = CASE messages # {} -> pc
               [] messages = {} /\ pc = "reclaimed" -> "read"
               [] messages = {} /\ pc = "received" -> "top"

(* spawn() does not wait: these tasks start together. *)
Spawn ==
    /\ pc \in {"reclaimed", "received"} /\ (Readable # {} \/ batch = {})
    /\ task' = [t \in Task |->
                  IF t[1] \in Readable /\ t[2] = deliveries[t[1]]
                  THEN "waits" ELSE task[t]]
    /\ Remaining(batch \ Readable)
    /\ UNCHANGED <<streamVars, status, inflight_by_run, count, stop, listenerVars, bounds>>

(* The next message of the batch has no run_id. *)
AtMalformed(m) ==
    /\ pc \in {"reclaimed", "received"}
    /\ m \in batch \intersect Malformed /\ \A o \in batch : m <= o

Settle(m) ==
    /\ pending' = pending \ {m}
    /\ idle' = idle \ {m}
    /\ mine' = mine \ {m}
    /\ forgotten' = forgotten \ {m}
    /\ UNCHANGED <<fresh, deliveries>>

(* A message without a run_id is acked and deleted. *)
Drop ==
    /\ \E m \in Malformed : AtMalformed(m) /\ Settle(m) /\ Remaining(batch \ {m})
    /\ UNCHANGED <<taskVars, count, stop, listenerVars, bounds>>

(* It unsubscribes, or is gone: what it has not read it never reads. *)
ListenerEnds ==
    /\ listener' = "ended" /\ signals' = {}
    /\ missed' = missed \union signals

(* Mutant of Drain: the tasks in flight are canceled. *)
Drain_cancels ==
    /\ pc = "top" /\ stop /\ pc' = "drain"
    /\ ListenerEnds
    /\ task' = [t \in Task |-> IF t \in TasksAt({"executes"}) THEN "acks" ELSE task[t]]
    /\ UNCHANGED <<streamVars, status, inflight_by_run, count, batch, stop, canceling, bounds>>

(* After the loop: the listener is canceled first. *)
Drain ==
    /\ pc = "top" /\ stop /\ pc' = "drain"
    /\ ListenerEnds
    /\ UNCHANGED <<streamVars, taskVars, count, batch, stop, canceling, bounds>>

(* Mutant of Stopped: the tasks in flight are not waited for. *)
Stopped_at_once ==
    /\ pc = "drain" /\ pc' = "stopped"
    /\ UNCHANGED <<streamVars, taskVars, count, batch, stop, listenerVars, bounds>>

(* The gather over inflight, and run() returns. *)
Stopped ==
    /\ pc = "drain" /\ inflight = {} /\ pc' = "stopped"
    /\ UNCHANGED <<streamVars, taskVars, count, batch, stop, listenerVars, bounds>>

Claimable(t) ==
    \/ status[t[1]] = "queued"
    \/ status[t[1]] = "running" /\ allow_running(t)

(* The ack of a malformed message raises, which ends run(), and            *)
(* asyncio.run cancels what is left: a task that waits for the semaphore   *)
(* ends there; one that holds it goes on to its ack, its claim made by     *)
(* then or not; one at its ack ends with the ack received or lost.         *)
LoopRaises ==
    /\ \E m \in Malformed : AtMalformed(m) /\ (Settle(m) \/ UNCHANGED streamVars)
    /\ Fault /\ pc' = "dying"
    /\ ListenerEnds
    /\ \E claimed \in SUBSET TasksAt({"claims"}), lost \in SUBSET TasksAt({"acks"}) :
         /\ status' = [r \in Run |->
                         IF \E t \in claimed : t[1] = r /\ Claimable(t)
                         THEN "running" ELSE status[r]]
         /\ task' = [t \in Task |->
                       IF t \in lost \union TasksAt({"waits"}) THEN "done"
                       ELSE IF t \in inflight THEN "acks" ELSE task[t]]
    /\ inflight_by_run' = [r \in Run |-> 0]
    /\ UNCHANGED <<count, batch, stop, canceling>>

Dead ==
    /\ pc = "dying" /\ inflight = {} /\ pc' = "dead"
    /\ UNCHANGED <<streamVars, taskVars, count, batch, stop, listenerVars, bounds>>

LoopStep == Turn \/ Reclaim \/ Read \/ Spawn \/ Drop \/ Drain \/ Stopped \/ Dead

-----------------------------------------------------------------------------
(* handle(): the tasks.                                                    *)

Holders == TasksAt({"claims", "executes", "acks"})

(* Mutant of Enter: the semaphore is not waited for. *)
Enter_without_sem(t) ==
    /\ task[t] = "waits"
    /\ task' = [task EXCEPT ![t] = "claims"]
    /\ inflight_by_run' = [inflight_by_run EXCEPT ![t[1]] = t[2]]
    /\ UNCHANGED <<streamVars, status, loopVars, stop, listenerVars, bounds>>

(* Mutant of Enter: the task is not registered for the listener. *)
Enter_unregistered(t) ==
    /\ task[t] = "waits" /\ Cardinality(Holders) < Concurrency
    /\ task' = [task EXCEPT ![t] = "claims"]
    /\ UNCHANGED <<streamVars, status, inflight_by_run, loopVars, stop, listenerVars, bounds>>

(* Mutant of Enter: nothing starts after SIGTERM. *)
Enter_unless_stop(t) ==
    /\ task[t] = "waits" /\ Cardinality(Holders) < Concurrency /\ ~stop
    /\ task' = [task EXCEPT ![t] = "claims"]
    /\ inflight_by_run' = [inflight_by_run EXCEPT ![t[1]] = t[2]]
    /\ UNCHANGED <<streamVars, status, loopVars, stop, listenerVars, bounds>>

(* "async with sem", and the task is registered under its run. *)
Enter(t) ==
    /\ task[t] = "waits" /\ Cardinality(Holders) < Concurrency
    /\ task' = [task EXCEPT ![t] = "claims"]
    /\ inflight_by_run' = [inflight_by_run EXCEPT ![t[1]] = t[2]]
    /\ UNCHANGED <<streamVars, status, loopVars, stop, listenerVars, bounds>>

(* The "finally" of handle(): the registration goes if it is still its     *)
(* own, and the ack is sent.                                               *)
Finally(t) ==
    /\ task' = [task EXCEPT ![t] = "acks"]
    /\ inflight_by_run' = [inflight_by_run EXCEPT ![t[1]] = IF @ = t[2] THEN 0 ELSE @]
    /\ UNCHANGED <<streamVars, loopVars, stop, bounds>>

Claim(t) ==
    /\ task[t] = "claims" /\ Claimable(t)
    /\ status' = [status EXCEPT ![t[1]] = "running"]
    /\ task' = [task EXCEPT ![t] = "executes"]
    /\ UNCHANGED <<streamVars, inflight_by_run, loopVars, stop, listenerVars, bounds>>

Skip(t) ==
    /\ task[t] = "claims" /\ ~Claimable(t)
    /\ Finally(t)
    /\ UNCHANGED <<status, listenerVars>>

(* The executor returns, and the run is finished unless it was canceled. *)
Return(t) ==
    /\ task[t] = "executes"
    /\ status' = [status EXCEPT ![t[1]] = IF @ = "canceled" THEN @ ELSE "finished"]
    /\ Finally(t)
    /\ UNCHANGED listenerVars

(* XACK and XDEL.  After the first nothing can go wrong: the entry that    *)
(* stays in the stream if XDEL raises is never delivered.                  *)
Ack(t) ==
    /\ task[t] = "acks"
    /\ Settle(t[1])
    /\ task' = [task EXCEPT ![t] = "done"]
    /\ UNCHANGED <<status, inflight_by_run, loopVars, stop, listenerVars, bounds>>

(* XACK raises and was not executed: the task ends, the message stays. *)
AckRaises(t) ==
    /\ task[t] = "acks" /\ Fault
    /\ task' = [task EXCEPT ![t] = "done"]
    /\ forgotten' = forgotten \union (mine \intersect {t[1]})
    /\ UNCHANGED <<fresh, pending, idle, mine, deliveries, status, inflight_by_run,
                   loopVars, stop, listenerVars>>

TaskStep(t) == Enter(t) \/ Claim(t) \/ Skip(t) \/ Ack(t)

-----------------------------------------------------------------------------
(* _cancel_listener, users and signals.                                    *)

(* The listener is a task beside the loop, which does not wait for it. *)
Subscribe ==
    /\ listener = "starting" /\ listener' = "subscribed"
    /\ UNCHANGED <<streamVars, taskVars, loopVars, stop, signals, missed, canceling, bounds>>

(* It reads a cancel message, and cancels the task of that run. *)
Listen(r) ==
    /\ listener = "subscribed" /\ r \in signals
    /\ signals' = signals \ {r}
    /\ IF inflight_by_run[r] = 0
       THEN UNCHANGED <<streamVars, task, inflight_by_run, loopVars, stop, bounds>>
       ELSE Finally(<<r, inflight_by_run[r]>>)
    /\ UNCHANGED <<status, listener, canceling, missed>>

(* "while not stop.is_set()" of the listener. *)
ListenerStops ==
    /\ listener = "subscribed" /\ stop
    /\ ListenerEnds
    /\ UNCHANGED <<streamVars, taskVars, loopVars, stop, canceling, bounds>>

(* subscribe or get_message raises: the task ends, nobody looks at it, and *)
(* no other listener is started.                                           *)
ListenerRaises ==
    /\ listener # "ended" /\ Fault
    /\ ListenerEnds
    /\ UNCHANGED <<streamVars, taskVars, loopVars, stop, canceling>>

(* cancel_run of the API commits the row.  A second request for the run    *)
(* ends here, for the run is terminal.                                     *)
Cancel(r) ==
    /\ Running /\ cancels < MaxCancels
    /\ status[r] \in {"queued", "running"}
    /\ status' = [status EXCEPT ![r] = "canceled"]
    /\ canceling' = canceling \union {r}
    /\ cancels' = cancels + 1
    /\ UNCHANGED <<streamVars, task, inflight_by_run, loopVars, stop, listener, signals, missed,
                   idles, faults>>

(* publish_cancel: who is not subscribed does not get the message. *)
Publish(r) ==
    /\ Running /\ r \in canceling
    /\ canceling' = canceling \ {r}
    /\ \/ listener = "subscribed" /\ signals' = signals \union {r} /\ UNCHANGED missed
       \/ listener # "subscribed" /\ missed' = missed \union {r} /\ UNCHANGED signals
    /\ UNCHANGED <<streamVars, taskVars, loopVars, stop, listener, bounds>>

(* The API dies before it publishes, publish raises, or the message gets   *)
(* lost while the listener's connection is down.                           *)
PublishFails(r) ==
    /\ Running /\ r \in canceling /\ Fault
    /\ canceling' = canceling \ {r}
    /\ missed' = missed \union {r}
    /\ UNCHANGED <<streamVars, taskVars, loopVars, stop, listener, signals>>

(* A message of this worker has been pending for claim_min_idle_ms. *)
GoesIdle(m) ==
    /\ Running
    /\ m \in mine \ idle /\ m \notin batch
    /\ m \in forgotten \/ idles < MaxIdle
    /\ idle' = idle \union {m}
    /\ idles' = IF m \in forgotten THEN idles ELSE idles + 1
    /\ UNCHANGED <<fresh, pending, mine, forgotten, deliveries, taskVars, loopVars, stop,
                   listenerVars, cancels, faults>>

(* SIGTERM or SIGINT. *)
Signal ==
    /\ Running /\ ~stop /\ stop' = TRUE
    /\ UNCHANGED <<streamVars, taskVars, loopVars, listenerVars, bounds>>

Next ==
    \/ LoopStep \/ ReclaimRaises \/ ReadRaises \/ LoopRaises
    \/ \E t \in Task : TaskStep(t) \/ Return(t) \/ AckRaises(t)
    \/ Subscribe \/ ListenerStops \/ ListenerRaises \/ Signal
    \/ \E r \in Run : Listen(r) \/ Cancel(r) \/ Publish(r) \/ PublishFails(r)
    \/ \E m \in Msg : GoesIdle(m)

Returns == \E t \in Task : Return(t)

(* The event loop runs the loop and every task that can go on, and time    *)
(* passes for a message nobody works on.  Executors may take any time, so  *)
(* that Return is not fair here.                                           *)
Spec ==
    /\ Init /\ [][Next]_vars
    /\ WF_vars(LoopStep)
    /\ WF_vars(\E t \in Task : TaskStep(t))
    /\ WF_vars(\E m \in forgotten : GoesIdle(m))

-----------------------------------------------------------------------------
(* capacity is computed once per turn and used twice, for what is          *)
(* reclaimed and for what is read: the tasks in flight may exceed          *)
(* worker_concurrency by one more batch, never by more, and of them no     *)
(* more than worker_concurrency hold the semaphore.                        *)
InflightBounded ==
    /\ Cardinality(inflight) <= Concurrency + Smaller(Concurrency, ReadBatch)
    /\ Cardinality(Holders) <= Concurrency

(* "Ack only after reaching a terminal state": while run() has not raised, *)
(* a run that is not settled still has its message, in the stream for      *)
(* another worker to get, or a task of this worker executes it.  This      *)
(* holds through SIGTERM and the drain, with a message delivered twice and *)
(* with calls of the loop, of the listener and of handle() that raise; a   *)
(* call of process_run that raises does strand a run (RunningIsRecoverable *)
(* of Dispatch).                                                           *)
NoRunStranded ==
    pc \notin {"dying", "dead"} =>
      \A r \in Run :
         status[r] \in {"queued", "running"} =>
           \/ r \in fresh \union pending
           \/ \E t \in TasksAt({"executes"}) : t[1] = r

(* "on SIGTERM we stop reading and let in-flight runs finish": when run()  *)
(* returns, also after the last XREADGROUP returned messages that it reads *)
(* past the signal, the only messages left pending for this worker are     *)
(* those it has no task for: the reply that delivered them was lost, or    *)
(* their ack raised, and they were not delivered to it again since.        *)
GracefulStop == pc = "stopped" => mine \subseteq forgotten

(* If executors return, a worker that gets SIGTERM ends: no task is left   *)
(* waiting for the semaphore of those that are gone.                       *)
DrainEnds == WF_vars(Returns) => (stop ~> ~Running)

(* Is t the only task of its run that this worker has had? *)
OnlyTask(t) == \A u \in Task : u[1] = t[1] /\ task[u] # "none" => u = t

(* A canceled run that executes has its cancel message under way, and the  *)
(* listener will find the task: each message finds the registered task or  *)
(* comes before the claim, which then fails.  missed are the runs for      *)
(* which there is none any more: nothing was published, the message came   *)
(* before subscribe or got lost, or the listener ended (SIGTERM, or a call *)
(* of it that raises) before it read it.  A message delivered twice to     *)
(* this worker is excluded as well: inflight_by_run knows only the later   *)
(* task.                                                                   *)
CancelIsHeard ==
    \A t \in TasksAt({"executes"}) :
        status[t[1]] = "canceled" /\ t[1] \notin missed /\ OnlyTask(t) =>
            /\ t[1] \in canceling \union signals
            /\ inflight_by_run[t[1]] = t[2]

(* If executors return, the loop never runs out of capacity for good: but  *)
(* for SIGTERM and a loop that raises, every message is read and acked,    *)
(* those of the dead worker, those with a lost reply or ack, which it      *)
(* reclaims from itself, and malformed ones as well.                       *)
ReadsGoOn ==
    WF_vars(Returns) => <>(stop \/ pc \in {"dying", "dead"} \/ fresh \union pending = {})
=============================================================================
