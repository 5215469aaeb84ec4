---------------------------- MODULE WorkerProofs ----------------------------
(***************************************************************************)
(* Proofs about the loop of one worker, for any number of messages, any    *)
(* worker_concurrency and worker_read_batch, and any bounds on idle        *)
(* messages, cancellations and faults: the tasks in flight are bounded, no *)
(* run is stranded, a graceful stop leaves only messages behind whose      *)
(* reply or ack was lost, and a cancel message finds its task.             *)
(***************************************************************************)
EXTENDS WorkerLoop, FiniteSetTheorems, TLAPS

USE ZenonT(60)

(* The loop goes through what XAUTOCLAIM or XREADGROUP returned. *)
Spawning == pc \in {"reclaimed", "received"}

(* run() has not raised. *)
Sound == pc \notin {"dying", "dead"}

(* The batch is empty but between a delivery and the last spawn of it, and *)
(* run() returns with no task in flight.                                   *)
BatchInv ==
    /\ pc \in {"top", "reclaim", "read", "drain", "stopped"} => batch = {}
    /\ pc = "stopped" => inflight = {}

(* How often a message was delivered: never while it is fresh, and again   *)
(* only after it went idle, for which there is one idle of a live task or  *)
(* one fault each.                                                         *)
DeliveryInv ==
    \A m \in Msg :
       /\ m \in fresh => deliveries[m] = 0 /\ m \notin pending
       /\ deliveries[m] <= idles + faults + 2
       /\ m \in idle \union forgotten => deliveries[m] <= idles + faults + 1
       /\ m \in Stale => deliveries[m] >= 1
       /\ m \in batch => deliveries[m] >= 1 /\ (m \in Stale => deliveries[m] >= 2)

(* A task is of a delivery that has been made; the next one to be spawned  *)
(* is new, and a message of the dead worker is never spawned as a first    *)
(* delivery.                                                               *)
TaskInv ==
    \A t \in Task :
       /\ task[t] # "none" => t[2] <= deliveries[t[1]] /\ (t[1] \in Stale => allow_running(t))
       /\ Spawning /\ t[1] \in batch /\ t[2] = deliveries[t[1]] => task[t] = "none"

(* A registered task holds the semaphore and is not at its ack. *)
RegisteredInv ==
    \A r \in Run :
       inflight_by_run[r] # 0 => task[<<r, inflight_by_run[r]>>] \in {"claims", "executes"}

(* What the one capacity of a turn still allows at each await of the loop. *)
CountInv ==
    /\ pc = "reclaim" => Cardinality(inflight) + count <= Concurrency
    /\ pc = "reclaimed" => Cardinality(inflight) + Cardinality(batch) <= Concurrency
    /\ pc = "read" => Cardinality(inflight) <= Concurrency
    /\ pc \in {"reclaim", "reclaimed", "read"} => count <= Concurrency
    /\ pc = "received" =>
         Cardinality(inflight) + Cardinality(batch) <= Concurrency + Smaller(Concurrency, ReadBatch)
    /\ InflightBounded

(* A task executes the run. *)
Executed(r) == \E t \in TasksAt({"executes"}) : t[1] = r

(* A run whose message may be acked: it is over, or a task will end it. *)
Settled(r) == status[r] \in {"finished", "canceled"} \/ Executed(r)

(* A task acks a settled run, and a run of a fresh message that runs has a *)
(* task; the listener hears only of canceled runs.                         *)
AckInv ==
    Sound =>
      /\ \A t \in TasksAt({"acks"}) : Settled(t[1])
      /\ \A r \in Run \ Stale : status[r] = "running" => Executed(r)
      /\ \A r \in signals \union canceling : status[r] = "canceled"

(* What was delivered to this worker and is neither acked nor forgotten is *)
(* in the batch or has a task in flight.                                   *)
MineInv == Sound => \A m \in mine \ forgotten : m \in batch \/ \E t \in inflight : t[1] = m

(* The only task of a run is registered while it claims or executes. *)
OnlyInv ==
    \A t \in TasksAt({"claims", "executes"}) : OnlyTask(t) => inflight_by_run[t[1]] = t[2]

(* The types, in parts: the messages, *)
StreamTypes ==
    /\ fresh \subseteq Msg /\ pending \subseteq Msg /\ batch \subseteq Msg
    /\ idle \subseteq pending /\ mine \subseteq pending /\ forgotten \subseteq mine

(* the runs and their tasks, *)
TaskTypes ==
    /\ status \in [Run -> {"queued", "running", "finished", "canceled"}]
    /\ task \in [Task -> {"none", "waits", "claims", "executes", "acks", "done"}]

(* and the loop, the flags and the bounds. *)
LoopTypes ==
    /\ inflight_by_run \in [Run -> 0..MaxDeliveries]
    /\ pc \in {"top", "reclaim", "reclaimed", "read", "received",
              "drain", "stopped", "dying", "dead"}
    /\ count \in 0..ReadBatch
    /\ stop \in BOOLEAN /\ listener \in {"starting", "subscribed", "ended"}
    /\ signals \subseteq Run /\ canceling \subseteq Run /\ missed \subseteq Run
    /\ idles \in 0..MaxIdle /\ cancels \in 0..MaxCancels /\ faults \in 0..MaxFaults

(* The inductive invariant. *)
WorkerInv ==
    /\ StreamTypes /\ TaskTypes /\ LoopTypes /\ deliveries \in [Msg -> Nat]
    /\ BatchInv /\ DeliveryInv /\ TaskInv /\ RegisteredInv /\ CountInv
    /\ AckInv /\ NoRunStranded /\ MineInv /\ OnlyInv /\ CancelIsHeard

-----------------------------------------------------------------------------
(* Frames: which actions change which variables.                           *)

(* A call that delivers messages returns or raises. *)
Delivery == Reclaim \/ Read \/ ReclaimRaises \/ ReadRaises

(* The streams and the locals of the loop. *)
LEMMA StreamFrame ==
  ASSUME Next
  PROVE  /\ UNCHANGED <<fresh, deliveries>> \/ Delivery
         /\ \/ UNCHANGED <<pending, idle, mine, forgotten>>
            \/ Delivery \/ Drop \/ LoopRaises
            \/ (\E t \in Task : Ack(t) \/ AckRaises(t)) \/ (\E m \in Msg : GoesIdle(m))
         /\ UNCHANGED batch \/ Reclaim \/ Read \/ Spawn \/ Drop
         /\ UNCHANGED count \/ Turn \/ Read \/ ReadRaises
         /\ \/ UNCHANGED pc
            \/ Turn \/ Delivery \/ Spawn \/ Drop \/ Drain \/ Stopped \/ LoopRaises \/ Dead
<1>1. CASE LoopStep
  BY <1>1 DEF LoopStep, Turn, Reclaim, Read, Spawn, Drop, Drain, Stopped, Dead, Delivery,
              Settle, Remaining, streamVars, taskVars, bounds
<1>2. CASE ReclaimRaises \/ ReadRaises \/ LoopRaises
  BY <1>2 DEF ReclaimRaises, ReadRaises, LoopRaises, Settle, Lost, Delivery, streamVars
<1>3. ASSUME NEW t \in Task, TaskStep(t) \/ Return(t) \/ AckRaises(t)
      PROVE  /\ UNCHANGED <<fresh, deliveries, batch, count, pc>>
             /\ UNCHANGED <<pending, idle, mine, forgotten>> \/ Ack(t) \/ AckRaises(t)
  BY <1>3 DEF TaskStep, Enter, Claim, Skip, Return, Ack, AckRaises, Settle, Finally, streamVars, loopVars
<1>4. CASE Subscribe \/ ListenerStops \/ ListenerRaises \/ Signal
  BY <1>4 DEF Subscribe, ListenerStops, ListenerRaises, Signal, streamVars, loopVars
<1>5. ASSUME NEW r \in Run, Listen(r) \/ Cancel(r) \/ Publish(r) \/ PublishFails(r)
      PROVE  UNCHANGED <<streamVars, loopVars>>
  BY <1>5 DEF Listen, Cancel, Publish, PublishFails, Finally
<1>6. ASSUME NEW m \in Msg, GoesIdle(m) PROVE UNCHANGED <<fresh, deliveries, loopVars>>
  BY <1>6 DEF GoesIdle
<1> QED
  BY <1>1, <1>2, <1>3, <1>4, <1>5, <1>6 DEF Next, streamVars, loopVars

(* The runs, the tasks, the listener and the bounds. *)
LEMMA TaskFrame ==
  ASSUME Next
  PROVE  /\ \/ UNCHANGED status
            \/ LoopRaises \/ (\E t \in Task : Claim(t) \/ Return(t)) \/ (\E r \in Run : Cancel(r))
         /\ \/ UNCHANGED task
            \/ Spawn \/ LoopRaises \/ (\E r \in Run : Listen(r))
            \/ (\E t \in Task : Enter(t) \/ Claim(t) \/ Skip(t) \/ Ack(t) \/ AckRaises(t) \/ Return(t))
         /\ \/ UNCHANGED inflight_by_run
            \/ LoopRaises \/ (\E r \in Run : Listen(r))
            \/ (\E t \in Task : Enter(t) \/ Skip(t) \/ Return(t))
         /\ \/ UNCHANGED <<listener, signals, missed>>
            \/ Drain \/ LoopRaises \/ Subscribe \/ ListenerStops \/ ListenerRaises
            \/ (\E r \in Run : Listen(r) \/ Publish(r) \/ PublishFails(r))
         /\ \/ UNCHANGED canceling
            \/ (\E r \in Run : Cancel(r) \/ Publish(r) \/ PublishFails(r))
         /\ UNCHANGED stop \/ Signal
         /\ UNCHANGED idles \/ (\E m \in Msg : GoesIdle(m))
         /\ UNCHANGED cancels \/ (\E r \in Run : Cancel(r))
         /\ UNCHANGED faults \/ Fault
<1>1. CASE LoopStep
  BY <1>1 DEF LoopStep, Turn, Reclaim, Read, Spawn, Drop, Drain, Stopped, Dead,
              taskVars, listenerVars, bounds
<1>2. CASE ReclaimRaises \/ ReadRaises \/ LoopRaises
  BY <1>2 DEF ReclaimRaises, ReadRaises, LoopRaises, Fault, taskVars, listenerVars
<1>3. ASSUME NEW t \in Task, Enter(t) \/ Claim(t) \/ Skip(t) \/ Ack(t) \/ AckRaises(t) \/ Return(t)
      PROVE  /\ UNCHANGED status \/ Claim(t) \/ Return(t)
             /\ UNCHANGED inflight_by_run \/ Enter(t) \/ Skip(t) \/ Return(t)
             /\ UNCHANGED <<stop, listenerVars, idles, cancels>>
             /\ UNCHANGED faults \/ Fault
  BY <1>3 DEF Enter, Claim, Skip, Return, Ack, AckRaises, Finally, Fault, bounds
<1>4. CASE Subscribe \/ ListenerStops \/ ListenerRaises \/ Signal
  BY <1>4 DEF Subscribe, ListenerStops, ListenerRaises, Signal, Fault, taskVars, listenerVars, bounds
<1>5. ASSUME NEW r \in Run, Listen(r) PROVE UNCHANGED <<status, canceling, stop, bounds>>
  BY <1>5 DEF Listen, Finally
<1>6. ASSUME NEW r \in Run, Cancel(r) \/ Publish(r) \/ PublishFails(r)
      PROVE  /\ UNCHANGED <<task, inflight_by_run, stop, idles>>
             /\ UNCHANGED status \/ Cancel(r)
             /\ UNCHANGED <<listener, signals, missed>> \/ Publish(r) \/ PublishFails(r)
             /\ UNCHANGED cancels \/ Cancel(r)
             /\ UNCHANGED faults \/ Fault
  BY <1>6 DEF Cancel, Publish, PublishFails, Fault, taskVars, bounds
<1>7. ASSUME NEW m \in Msg, GoesIdle(m) PROVE UNCHANGED <<taskVars, stop, listenerVars, cancels, faults>>
  BY <1>7 DEF GoesIdle
<1> QED
  BY <1>1, <1>2, <1>3, <1>4, <1>5, <1>6, <1>7 DEF Next, TaskStep, taskVars, listenerVars, bounds

-----------------------------------------------------------------------------
(* Types, and deliveries.                                                  *)

(* What the assumption says of the constants. *)
LEMMA Constants ==
  /\ Concurrency \in Nat /\ Concurrency > 0 /\ ReadBatch \in Nat /\ ReadBatch > 0
  /\ MaxIdle \in Nat /\ MaxCancels \in Nat /\ MaxFaults \in Nat
  /\ Msg \subseteq Nat /\ IsFiniteSet(Msg)
  /\ Run \subseteq Msg /\ Stale \subseteq Msg /\ Fresh \subseteq Msg
  /\ MaxDeliveries \in Nat /\ MaxDeliveries = MaxIdle + MaxFaults + 2
BY WorkerLoopAssumption, SMTT(60) DEF Run, Msg, MaxDeliveries

(* A finite set is split by its oldest messages. *)
LEMMA OldestFacts ==
  ASSUME NEW S, NEW n, NEW T \in Oldest(S, n)
  PROVE  T \subseteq S /\ Cardinality(T) = Smaller(n, Cardinality(S))
BY DEF Oldest

(* What a call that delivers does to the streams. *)
LEMMA DeliveryFacts ==
  ASSUME Delivery
  PROVE  /\ UNCHANGED <<taskVars, stop, listenerVars, idles, cancels>>
         /\ \/ UNCHANGED <<streamVars, batch>> /\ Fault
            \/ \E S \in Oldest(idle, count) :
                 Xautoclaim(S) /\ ((Received(S) /\ UNCHANGED faults) \/ (Lost(S) /\ Fault))
            \/ \E S \in Oldest(fresh, count) :
                 Xreadgroup(S) /\ ((Received(S) /\ UNCHANGED faults) \/ (Lost(S) /\ Fault))
<1>1. UNCHANGED <<taskVars, stop, listenerVars, idles, cancels>>
  BY DEF Delivery, Reclaim, Read, ReclaimRaises, ReadRaises, Fault, bounds
<1>2. CASE Reclaim \/ Read
  BY <1>1, <1>2 DEF Reclaim, Read, bounds
<1>3. CASE ReclaimRaises \/ ReadRaises
  BY <1>1, <1>3 DEF ReclaimRaises, ReadRaises
<1> QED
  BY <1>1, <1>2, <1>3 DEF Delivery

(* Where the loop goes with what is left of the batch. *)
LEMMA RemainingFacts ==
  ASSUME NEW S, Spawning, Remaining(S)
  PROVE  /\ batch' = S
         /\ S # {} => pc' = pc
         /\ S = {} /\ pc = "reclaimed" => pc' = "read"
         /\ S = {} /\ pc = "received" => pc' = "top"
BY DEF Spawning, Remaining

(* What is dropped is a message of the batch that has no run. *)
LEMMA DropFacts ==
  ASSUME Drop
  PROVE  /\ Spawning
         /\ \E m \in batch \ Run : Settle(m) /\ Remaining(batch \ {m})
BY DEF Drop, AtMalformed, Spawning, Run

(* The sets of messages keep their types. *)
LEMMA StreamTypesStep ==
  ASSUME StreamTypes, Next
  PROVE  StreamTypes'
<1>1. ASSUME NEW S \in Oldest(idle, count), Xautoclaim(S), Received(S) \/ Lost(S) PROVE StreamTypes'
  BY <1>1, OldestFacts DEF Xautoclaim, Deliver, Received, Lost, StreamTypes
<1>2. ASSUME NEW S \in Oldest(fresh, count), Xreadgroup(S), Received(S) \/ Lost(S) PROVE StreamTypes'
  BY <1>2, OldestFacts DEF Xreadgroup, Deliver, Received, Lost, StreamTypes
<1>3. CASE Spawn
  BY <1>3 DEF Spawn, Remaining, StreamTypes, streamVars
<1>4. CASE Drop
  BY <1>4 DEF Drop, Remaining, Settle, StreamTypes
<1>5. ASSUME NEW t \in Task, Ack(t) \/ AckRaises(t) PROVE StreamTypes'
  BY <1>5 DEF Ack, AckRaises, Settle, StreamTypes, loopVars
<1>6. ASSUME NEW m \in Msg, GoesIdle(m) PROVE StreamTypes'
  BY <1>6 DEF GoesIdle, StreamTypes, loopVars
<1>7. CASE LoopRaises
  BY <1>7 DEF LoopRaises, Settle, StreamTypes, streamVars
<1>8. CASE UNCHANGED <<fresh, pending, idle, mine, forgotten, batch>>
  BY <1>8 DEF StreamTypes
<1>9. CASE Delivery
  BY <1>1, <1>2, <1>8, <1>9, DeliveryFacts DEF streamVars
<1> QED
  BY <1>3, <1>4, <1>5, <1>6, <1>7, <1>8, <1>9, StreamFrame DEF Delivery

(* The runs and the tasks keep their types. *)
LEMMA TaskTypesStep ==
  ASSUME TaskTypes, Next
  PROVE  TaskTypes'
<1>1. CASE Spawn
  BY <1>1 DEF Spawn, TaskTypes
<1>2. CASE LoopRaises
  BY <1>2 DEF LoopRaises, TaskTypes
<1>3. ASSUME NEW t \in Task, Enter(t) \/ Claim(t) \/ Skip(t) \/ Ack(t) \/ AckRaises(t) \/ Return(t)
      PROVE  TaskTypes'
  <2>1. t[1] \in Run
    BY DEF Task
  <2> QED
    BY <1>3, <2>1 DEF Enter, Claim, Skip, Ack, AckRaises, Return, Finally, TaskTypes
<1>4. ASSUME NEW r \in Run, Listen(r) PROVE TaskTypes'
  BY <1>4 DEF Listen, Finally, TaskTypes
<1>5. ASSUME NEW r \in Run, Cancel(r) PROVE TaskTypes'
  BY <1>5 DEF Cancel, TaskTypes
<1>6. CASE UNCHANGED <<status, task>>
  BY <1>6 DEF TaskTypes
<1> QED
  BY <1>1, <1>2, <1>3, <1>4, <1>5, <1>6, TaskFrame

(* Smaller(a, b) is a or b, and no more than either. *)
LEMMA SmallerFacts ==
  ASSUME NEW a \in Nat, NEW b \in Nat
  PROVE  Smaller(a, b) \in Nat /\ Smaller(a, b) <= a /\ Smaller(a, b) <= b
BY SMTT(60) DEF Smaller

(* The set of tasks is finite, and so is every set of tasks or messages. *)
LEMMA FiniteTasks == IsFiniteSet(Task)
<1>1. IsFiniteSet(Run)
  BY Constants, FS_Subset
<1>2. 1 \in Int /\ MaxDeliveries \in Int
  BY Constants, SMTT(60)
<1>3. IsFiniteSet(1..MaxDeliveries)
  BY <1>2, FS_Interval
<1> QED
  BY <1>1, <1>3, FS_Product DEF Task

(* The cardinality of a set of tasks, and of a smaller one. *)
LEMMA TaskCardinality ==
  ASSUME NEW S, S \subseteq Task, NEW T, T \subseteq S
  PROVE  /\ IsFiniteSet(S) /\ Cardinality(S) \in Nat
         /\ IsFiniteSet(T) /\ Cardinality(T) \in Nat
         /\ Cardinality(T) <= Cardinality(S)
<1>1. IsFiniteSet(S)
  BY FiniteTasks, FS_Subset
<1>2. IsFiniteSet(T) /\ Cardinality(T) <= Cardinality(S)
  BY <1>1, FS_Subset
<1> QED
  BY <1>1, <1>2, FS_CardinalityType

(* The same of sets of messages. *)
LEMMA MsgCardinality ==
  ASSUME NEW S, S \subseteq Msg, NEW T, T \subseteq S
  PROVE  /\ IsFiniteSet(S) /\ Cardinality(S) \in Nat
         /\ IsFiniteSet(T) /\ Cardinality(T) \in Nat
         /\ Cardinality(T) <= Cardinality(S)
<1>1. IsFiniteSet(S)
  BY Constants, FS_Subset
<1>2. IsFiniteSet(T) /\ Cardinality(T) <= Cardinality(S)
  BY <1>1, FS_Subset
<1> QED
  BY <1>1, <1>2, FS_CardinalityType

(* The loop's position and its batch size, the flags and the bounds keep   *)
(* their types.                                                             *)
LEMMA LoopTypesStep ==
  ASSUME LoopTypes, Next
  PROVE  LoopTypes'
<1>1. (inflight_by_run \in [Run -> 0..MaxDeliveries])'
  <2> inflight_by_run \in [Run -> 0..MaxDeliveries] /\ 0 \in 0..MaxDeliveries
    BY Constants, SMTT(60) DEF LoopTypes
  <2>1. CASE LoopRaises
    BY <2>1 DEF LoopRaises
  <2>2. ASSUME NEW t \in Task, Enter(t) \/ Skip(t) \/ Return(t)
        PROVE  (inflight_by_run \in [Run -> 0..MaxDeliveries])'
    <3>1. t[1] \in Run /\ t[2] \in 0..MaxDeliveries
      BY Constants, SMTT(60) DEF Task
    <3> QED
      BY <2>2, <3>1 DEF Enter, Skip, Return, Finally
  <2>3. ASSUME NEW r \in Run, Listen(r)
        PROVE  (inflight_by_run \in [Run -> 0..MaxDeliveries])'
    BY <2>3 DEF Listen, Finally
  <2> QED
    BY <2>1, <2>2, <2>3, TaskFrame
<1>2. (count \in 0..ReadBatch)'
  <2> count \in 0..ReadBatch /\ 0 \in 0..ReadBatch
    BY Constants, SMTT(60) DEF LoopTypes
  <2>1. CASE Turn
    <3>1. inflight \subseteq Task
      BY DEF inflight, TasksAt
    <3>2. Cardinality(inflight) \in Nat
      BY <3>1, TaskCardinality
    <3> QED
      BY <2>1, <3>2, Constants, SMTT(60) DEF Turn, capacity, Smaller
  <2> QED
    BY <2>1, StreamFrame DEF Read, ReadRaises
<1>3. /\ pc' \in {"top", "reclaim", "reclaimed", "read", "received",
                 "drain", "stopped", "dying", "dead"}
  <2>1. pc \in {"top", "reclaim", "reclaimed", "read", "received",
               "drain", "stopped", "dying", "dead"}
    BY DEF LoopTypes
  <2>2. CASE Spawn \/ Drop
    <3>1. Spawning /\ \E S : Remaining(S)
      BY <2>2, DropFacts DEF Spawn, Spawning
    <3>2. PICK S : Remaining(S)
      BY <3>1
    <3>3. pc' \in {pc, "read", "top"}
      BY <3>1, <3>2, RemainingFacts, SMTT(20) DEF Spawning
    <3> QED
      BY <2>1, <3>3
  <2> QED
    BY <2>1, <2>2, StreamFrame
    DEF Turn, Delivery, Reclaim, Read, ReclaimRaises, ReadRaises, Drain, Stopped, LoopRaises, Dead
<1>4. /\ (stop \in BOOLEAN /\ listener \in {"starting", "subscribed", "ended"})'
      /\ (signals \subseteq Run /\ canceling \subseteq Run /\ missed \subseteq Run)'
  <2>1. (stop \in BOOLEAN)'
    BY TaskFrame DEF LoopTypes, Signal
  <2>2. (canceling \subseteq Run)'
    BY TaskFrame DEF LoopTypes, Cancel, Publish, PublishFails
  <2>3. (listener \in {"starting", "subscribed", "ended"} /\ signals \subseteq Run /\ missed \subseteq Run)'
    BY TaskFrame
    DEF LoopTypes, Drain, LoopRaises, Subscribe, ListenerStops, ListenerRaises, ListenerEnds, Listen,
        Publish, PublishFails
  <2> QED
    BY <2>1, <2>2, <2>3
<1>5. (idles \in 0..MaxIdle)'
  <2>1. idles \in 0..MaxIdle
    BY DEF LoopTypes
  <2>2. UNCHANGED idles \/ (idles < MaxIdle /\ idles' = idles + 1)
    BY TaskFrame DEF GoesIdle
  <2> QED
    BY <2>1, <2>2, Constants, SMTT(60)
<1>6. (cancels \in 0..MaxCancels)'
  <2>1. cancels \in 0..MaxCancels
    BY DEF LoopTypes
  <2>2. UNCHANGED cancels \/ (cancels < MaxCancels /\ cancels' = cancels + 1)
    BY TaskFrame DEF Cancel
  <2> QED
    BY <2>1, <2>2, Constants, SMTT(60)
<1>7. (faults \in 0..MaxFaults)'
  <2>1. faults \in 0..MaxFaults
    BY DEF LoopTypes
  <2>2. UNCHANGED faults \/ (faults < MaxFaults /\ faults' = faults + 1)
    BY TaskFrame DEF Fault
  <2> QED
    BY <2>1, <2>2, Constants, SMTT(60)
<1> QED
  BY <1>1, <1>2, <1>3, <1>4, <1>5, <1>6, <1>7 DEF LoopTypes

(* A message is delivered when it is fresh, or when it went idle. *)
LEMMA DeliveryStep ==
  ASSUME StreamTypes, LoopTypes, deliveries \in [Msg -> Nat], DeliveryInv, Next
  PROVE  DeliveryInv' /\ deliveries' \in [Msg -> Nat]
<1> DEFINE Good(m) ==
      /\ m \in fresh => deliveries[m] = 0 /\ m \notin pending
      /\ deliveries[m] <= idles + faults + 2
      /\ m \in idle \union forgotten => deliveries[m] <= idles + faults + 1
      /\ m \in Stale => deliveries[m] >= 1
      /\ m \in batch => deliveries[m] >= 1 /\ (m \in Stale => deliveries[m] >= 2)
<1> SUFFICES deliveries' \in [Msg -> Nat] /\ \A m \in Msg : Good(m)'
  BY DEF DeliveryInv
<1>0. /\ \A m \in Msg : Good(m) /\ deliveries[m] \in Nat
      /\ idles \in Nat /\ faults \in Nat
  BY Constants, SMTT(60) DEF DeliveryInv, LoopTypes
<1>1. ASSUME NEW S, S \subseteq Msg, Deliver(S), UNCHANGED idles,
             \/ S \subseteq fresh /\ fresh' = fresh \ S /\ pending' = pending \union S /\ idle' = idle
             \/ S \subseteq idle /\ fresh' = fresh /\ pending' = pending /\ idle' = idle \ S,
             \/ Received(S) /\ faults' = faults
             \/ Lost(S) /\ faults' = faults + 1
      PROVE  deliveries' \in [Msg -> Nat] /\ \A m \in Msg : Good(m)'
  <2>1. /\ \A m \in S : deliveries'[m] = deliveries[m] + 1
        /\ \A m \in Msg \ S : deliveries'[m] = deliveries[m]
    BY <1>1 DEF Deliver
  <2>2. deliveries' \in [Msg -> Nat]
    BY <1>1, SMTT(60) DEF Deliver
  <2>3. \/ batch' = S /\ forgotten' = forgotten \ S /\ faults' = faults
        \/ batch' = batch /\ forgotten' = forgotten \union S /\ faults' = faults + 1
    BY <1>1 DEF Received, Lost
  <2>4. ASSUME NEW m \in Msg PROVE Good(m)'
    <3>1. Good(m) /\ deliveries[m] \in Nat /\ idles \in Nat /\ faults \in Nat
      BY <1>0
    <3>2. m \in idle \union forgotten => m \in pending
      BY DEF StreamTypes
    <3>3. ASSUME m \in S PROVE Good(m)'
      BY <1>1, <2>1, <2>3, <3>1, <3>2, <3>3, SMTT(60)
    <3>4. ASSUME m \notin S PROVE Good(m)'
      BY <1>1, <2>1, <2>3, <3>1, <3>2, <3>4, SMTT(60)
    <3> QED
      BY <3>3, <3>4
  <2> QED
    BY <2>2, <2>4
<1>2. ASSUME NEW S \in Oldest(idle, count), Xautoclaim(S), UNCHANGED idles,
             (Received(S) /\ UNCHANGED faults) \/ (Lost(S) /\ Fault)
      PROVE  deliveries' \in [Msg -> Nat] /\ \A m \in Msg : Good(m)'
  BY <1>1, <1>2, OldestFacts DEF Xautoclaim, Fault, StreamTypes
<1>3. ASSUME NEW S \in Oldest(fresh, count), Xreadgroup(S), UNCHANGED idles,
             (Received(S) /\ UNCHANGED faults) \/ (Lost(S) /\ Fault)
      PROVE  deliveries' \in [Msg -> Nat] /\ \A m \in Msg : Good(m)'
  BY <1>1, <1>3, OldestFacts DEF Xreadgroup, Fault, StreamTypes
<1>4. ASSUME fresh' = fresh, deliveries' = deliveries, pending' \subseteq pending, batch' \subseteq batch,
             idles' \in {idles, idles + 1}, faults' \in {faults, faults + 1},
             \A m \in idle' \union forgotten' :
                m \in idle \union forgotten \/ idles' = idles + 1 \/ faults' = faults + 1
      PROVE  deliveries' \in [Msg -> Nat] /\ \A m \in Msg : Good(m)'
  <2>1. ASSUME NEW m \in Msg PROVE Good(m)'
    BY <1>0, <1>4, SMTT(60)
  <2> QED
    BY <1>4, <2>1
<1>5. CASE Delivery
  <2>1. CASE UNCHANGED <<streamVars, batch>> /\ Fault
    BY <1>4, <2>1 DEF Fault, streamVars
  <2> QED
    BY <1>2, <1>3, <1>5, <2>1, DeliveryFacts
<1>6. CASE ~ Delivery
  <2>1. fresh' = fresh /\ deliveries' = deliveries
    BY <1>6, StreamFrame
  <2>2. idles' \in {idles, idles + 1} /\ faults' \in {faults, faults + 1}
    BY TaskFrame DEF GoesIdle, Fault
  <2>3. batch' \subseteq batch
    BY <1>6, StreamFrame, DropFacts, RemainingFacts DEF Spawn, Remaining, Delivery
  <2>4. ASSUME NEW m, Settle(m)
        PROVE  pending' \subseteq pending /\ idle' \subseteq idle /\ forgotten' \subseteq forgotten
    BY <2>4 DEF Settle
  <2>5. ASSUME NEW m \in Msg, GoesIdle(m)
        PROVE  /\ pending' \subseteq pending
               /\ \A o \in idle' \union forgotten' : o \in idle \union forgotten \/ idles' = idles + 1
    BY <2>5 DEF GoesIdle
  <2>6. ASSUME NEW t \in Task, AckRaises(t)
        PROVE  pending' \subseteq pending /\ faults' = faults + 1
    BY <2>6 DEF AckRaises, Fault
  <2>7. CASE Drop \/ LoopRaises \/ \E t \in Task : Ack(t)
    <3>1. pending' \subseteq pending /\ idle' \subseteq idle /\ forgotten' \subseteq forgotten
      BY <2>4, <2>7, DropFacts DEF LoopRaises, Ack, streamVars
    <3> QED
      BY <1>4, <2>1, <2>2, <2>3, <3>1
  <2>8. CASE UNCHANGED <<pending, idle, mine, forgotten>>
    BY <1>4, <2>1, <2>2, <2>3, <2>8
  <2> QED
    BY <1>4, <1>6, <2>1, <2>2, <2>3, <2>5, <2>6, <2>7, <2>8, StreamFrame
<1> QED
  BY <1>5, <1>6

-----------------------------------------------------------------------------
(* Tasks: which there are, and which are registered.                       *)

(* A task is a pair of a run and the number of a delivery. *)
LEMMA TaskPair ==
  /\ \A t \in Task : t = <<t[1], t[2]>> /\ t[1] \in Run /\ t[2] \in 1..MaxDeliveries
  /\ \A r \in Run, k \in 1..MaxDeliveries : <<r, k>> \in Task
  /\ \A r, k : <<r, k>>[1] = r /\ <<r, k>>[2] = k
BY SMTT(60) DEF Task

(* The registration of a run names a task. *)
LEMMA RegisteredTask ==
  ASSUME LoopTypes, NEW r \in Run, inflight_by_run[r] # 0
  PROVE  <<r, inflight_by_run[r]>> \in Task
<1>1. inflight_by_run[r] \in 0..MaxDeliveries
  BY DEF LoopTypes
<1>2. inflight_by_run[r] \in 1..MaxDeliveries
  BY <1>1, Constants, SMTT(60)
<1> QED
  BY <1>2, TaskPair

(* But for spawn(), no task is new, and the tasks in flight become fewer. *)
LEMMA TaskMoves ==
  ASSUME TaskTypes, LoopTypes, RegisteredInv, Next, ~ Spawn
  PROVE  /\ \A t \in Task : task'[t] # "none" => task[t] # "none"
         /\ inflight' \subseteq inflight
<1> USE DEF inflight, TasksAt
<1>1. CASE LoopRaises
  BY <1>1 DEF LoopRaises, TaskTypes
<1>2. ASSUME NEW t \in Task, NEW s \in {"claims", "executes", "acks", "done"},
             task' = [task EXCEPT ![t] = s], t \in inflight
      PROVE  /\ \A u \in Task : task'[u] # "none" => task[u] # "none"
             /\ inflight' \subseteq inflight
  BY <1>2 DEF TaskTypes
<1>3. ASSUME NEW t \in Task, Enter(t) \/ Claim(t) \/ Skip(t) \/ Ack(t) \/ AckRaises(t) \/ Return(t)
      PROVE  \E s \in {"claims", "executes", "acks", "done"} :
                 task' = [task EXCEPT ![t] = s] /\ t \in inflight
  BY <1>3 DEF Enter, Claim, Skip, Ack, AckRaises, Return, Finally
<1>4. ASSUME NEW r \in Run, Listen(r), ~ UNCHANGED task
      PROVE  \E t \in Task : task' = [task EXCEPT ![t] = "acks"] /\ t \in inflight
  <2>1. inflight_by_run[r] # 0 /\ task' = [task EXCEPT ![<<r, inflight_by_run[r]>>] = "acks"]
    BY <1>4 DEF Listen, Finally
  <2>2. <<r, inflight_by_run[r]>> \in Task
    BY <2>1, RegisteredTask
  <2> QED
    BY <2>1, <2>2 DEF RegisteredInv
<1>5. CASE UNCHANGED task
  BY <1>5
<1> QED
  BY <1>1, <1>2, <1>3, <1>4, <1>5, TaskFrame

(* spawn() starts tasks that there were not. *)
LEMMA SpawnFacts ==
  ASSUME TaskInv, Spawn
  PROVE  /\ Spawning /\ Remaining(batch \ Readable)
         /\ \A t \in Task :
              \/ t[1] \in Readable /\ t[2] = deliveries[t[1]] /\ task[t] = "none" /\ task'[t] = "waits"
              \/ ~(t[1] \in Readable /\ t[2] = deliveries[t[1]]) /\ task'[t] = task[t]
         /\ UNCHANGED <<streamVars, status, inflight_by_run, count, stop, listenerVars, bounds>>
BY DEF Spawn, Spawning, TaskInv, Readable

(* The registered tasks are those that hold the semaphore. *)
LEMMA RegisteredStep ==
  ASSUME TaskTypes, LoopTypes, TaskInv, RegisteredInv, Next
  PROVE  RegisteredInv'
<1> SUFFICES ASSUME NEW r \in Run, inflight_by_run'[r] # 0
             PROVE  task'[<<r, inflight_by_run'[r]>>] \in {"claims", "executes"}
  BY DEF RegisteredInv
<1> DEFINE Good == task'[<<r, inflight_by_run'[r]>>] \in {"claims", "executes"}
<1>1. CASE LoopRaises
  BY <1>1 DEF LoopRaises
<1>2. ASSUME UNCHANGED inflight_by_run
      PROVE  /\ <<r, inflight_by_run[r]>> \in Task
             /\ task[<<r, inflight_by_run[r]>>] \in {"claims", "executes"}
             /\ inflight_by_run'[r] = inflight_by_run[r]
  BY <1>2, RegisteredTask DEF RegisteredInv
<1>3. CASE Spawn
  <2>1. UNCHANGED inflight_by_run
    BY <1>3 DEF Spawn
  <2> QED
    BY <1>2, <1>3, <2>1, SpawnFacts
<1>4. ASSUME NEW t \in Task, Enter(t) PROVE Good
  <2>1. t[1] \in Run /\ t = <<t[1], t[2]>>
    BY TaskPair
  <2>2. /\ inflight_by_run' = [inflight_by_run EXCEPT ![t[1]] = t[2]]
        /\ task' = [task EXCEPT ![t] = "claims"]
        /\ inflight_by_run \in [Run -> 0..MaxDeliveries]
    BY <1>4 DEF Enter, LoopTypes
  <2>3. ASSUME r = t[1] PROVE Good
    BY <2>1, <2>2, <2>3 DEF TaskTypes
  <2>4. ASSUME r # t[1] PROVE Good
    <3>1. inflight_by_run'[r] = inflight_by_run[r] /\ inflight_by_run[r] # 0
      BY <2>1, <2>2, <2>4
    <3>2. <<r, inflight_by_run[r]>> \in Task /\ task[<<r, inflight_by_run[r]>>] \in {"claims", "executes"}
      BY <3>1, RegisteredTask DEF RegisteredInv
    <3> QED
      BY <2>2, <3>1, <3>2 DEF TaskTypes
  <2> QED
    BY <2>3, <2>4
<1>5. ASSUME NEW t \in Task, Claim(t) PROVE Good
  BY <1>2, <1>5 DEF Claim, TaskTypes
<1>6. ASSUME NEW t \in Task, Ack(t) \/ AckRaises(t) PROVE Good
  <2>1. UNCHANGED inflight_by_run /\ task[t] = "acks" /\ task' = [task EXCEPT ![t] = "done"]
    BY <1>6 DEF Ack, AckRaises
  <2> QED
    BY <1>2, <2>1 DEF TaskTypes
<1>7. ASSUME NEW t \in Task, Finally(t) PROVE Good
  <2>1. /\ inflight_by_run' = [inflight_by_run EXCEPT ![t[1]] = IF @ = t[2] THEN 0 ELSE @]
        /\ task' = [task EXCEPT ![t] = "acks"]
        /\ inflight_by_run \in [Run -> 0..MaxDeliveries]
    BY <1>7 DEF Finally, LoopTypes
  <2>2. inflight_by_run'[r] = inflight_by_run[r] /\ inflight_by_run[r] # 0
    BY <2>1
  <2>3. <<r, inflight_by_run[r]>> # t
    <3> SUFFICES ASSUME <<r, inflight_by_run[r]>> = t PROVE FALSE
      OBVIOUS
    <3>1. t[1] = r /\ t[2] = inflight_by_run[r]
      BY TaskPair
    <3> QED
      BY <2>1, <3>1
  <2>4. <<r, inflight_by_run[r]>> \in Task /\ task[<<r, inflight_by_run[r]>>] \in {"claims", "executes"}
    BY <2>2, RegisteredTask DEF RegisteredInv
  <2> QED
    BY <2>1, <2>2, <2>3, <2>4 DEF TaskTypes
<1>8. ASSUME NEW q \in Run, Listen(q) PROVE Good
  <2>1. ASSUME inflight_by_run[q] = 0 PROVE Good
    <3>1. UNCHANGED <<task, inflight_by_run>>
      BY <1>8, <2>1 DEF Listen
    <3> QED
      BY <1>2, <3>1
  <2>2. ASSUME inflight_by_run[q] # 0 PROVE Good
    BY <1>7, <1>8, <2>2, RegisteredTask DEF Listen
  <2> QED
    BY <2>1, <2>2
<1>9. CASE UNCHANGED <<task, inflight_by_run>>
  BY <1>2, <1>9
<1> QED
  BY <1>1, <1>3, <1>4, <1>5, <1>6, <1>7, <1>8, <1>9, TaskFrame DEF Skip, Return

(* While the loop goes through a batch it does not get another. *)
LEMMA SpawningStep ==
  ASSUME Next, Spawning', ~ Reclaim, ~ Read
  PROVE  Spawning /\ UNCHANGED deliveries /\ batch' \subseteq batch
<1>1. UNCHANGED deliveries
  BY StreamFrame DEF Delivery, ReclaimRaises, ReadRaises, Spawning
<1>2. CASE Spawn
  BY <1>1, <1>2 DEF Spawn, Spawning, Remaining
<1>3. CASE Drop
  <2>1. Spawning /\ \E m \in batch \ Run : Remaining(batch \ {m})
    BY <1>3, DropFacts
  <2> QED
    BY <1>1, <2>1 DEF Remaining
<1>4. CASE ~ Spawn /\ ~ Drop
  <2>1. UNCHANGED pc
    BY <1>4, StreamFrame
    DEF Spawning, Turn, Delivery, ReclaimRaises, ReadRaises, Drain, Stopped, LoopRaises, Dead
  <2> QED
    BY <1>1, <1>4, <2>1, StreamFrame DEF Spawning
<1> QED
  BY <1>2, <1>3, <1>4

(* A task is of a delivery that has been made, and the next one is new. *)
LEMMA TaskInvStep ==
  ASSUME StreamTypes, TaskTypes, LoopTypes, deliveries \in [Msg -> Nat], DeliveryInv, TaskInv, RegisteredInv,
         Next
  PROVE  TaskInv'
<1> SUFFICES ASSUME NEW t \in Task
             PROVE  /\ task'[t] # "none" =>
                         t[2] <= deliveries'[t[1]] /\ (t[1] \in Stale => allow_running(t))
                    /\ Spawning' /\ t[1] \in batch' /\ t[2] = deliveries'[t[1]] => task'[t] = "none"
  BY DEF TaskInv, allow_running
<1>0. t[1] \in Msg /\ t[2] \in Nat /\ deliveries[t[1]] \in Nat
  BY TaskPair, Constants, SMTT(60)
<1>1. /\ task[t] # "none" => t[2] <= deliveries[t[1]] /\ (t[1] \in Stale => allow_running(t))
      /\ Spawning /\ t[1] \in batch /\ t[2] = deliveries[t[1]] => task[t] = "none"
  BY DEF TaskInv
<1>2. CASE Delivery
  <2>1. task' = task
    BY <1>2, DeliveryFacts DEF taskVars
  <2>2. deliveries'[t[1]] \in Nat /\ deliveries[t[1]] <= deliveries'[t[1]]
    <3>1. UNCHANGED deliveries \/ \E S : Deliver(S)
      BY <1>2, DeliveryFacts DEF Xautoclaim, Xreadgroup, streamVars
    <3>2. deliveries'[t[1]] \in {deliveries[t[1]], deliveries[t[1]] + 1}
      BY <1>0, <3>1 DEF Deliver
    <3> QED
      BY <1>0, <3>2, SMTT(60)
  <2>3. ASSUME Spawning', t[1] \in batch', t[2] = deliveries'[t[1]] PROVE task'[t] = "none"
    <3>1. Reclaim \/ Read
      BY <1>2, <2>3 DEF Delivery, Spawning, ReclaimRaises, ReadRaises
    <3>2. PICK S : Deliver(S) /\ batch' = S
      BY <3>1 DEF Reclaim, Read, Xautoclaim, Xreadgroup, Received
    <3>3. deliveries'[t[1]] = deliveries[t[1]] + 1
      BY <1>0, <2>3, <3>2 DEF Deliver
    <3> QED
      BY <1>0, <1>1, <2>1, <2>3, <3>3, SMTT(60)
  <2> QED
    BY <1>0, <1>1, <2>1, <2>2, <2>3, SMTT(60)
<1>3. CASE Spawn
  <2>1. UNCHANGED deliveries /\ batch' = batch \ Readable /\ Spawning
    BY <1>3, SpawnFacts DEF Remaining, streamVars
  <2>2. ASSUME t[1] \in Readable, t[2] = deliveries[t[1]]
        PROVE  t[2] <= deliveries[t[1]] /\ (t[1] \in Stale => allow_running(t))
    <3>1. t[1] \in batch
      BY <2>2 DEF Readable
    <3>2. t[1] \in Stale => deliveries[t[1]] >= 2
      BY <1>0, <3>1 DEF DeliveryInv
    <3> QED
      BY <1>0, <2>2, <3>2, SMTT(60) DEF allow_running
  <2> QED
    BY <1>1, <1>3, <2>1, <2>2, SpawnFacts
<1>4. CASE ~ Delivery /\ ~ Spawn
  <2>1. UNCHANGED deliveries /\ (task'[t] # "none" => task[t] # "none")
    BY <1>4, StreamFrame, TaskMoves
  <2> QED
    BY <1>1, <1>4, <2>1, SpawningStep DEF Delivery
<1> QED
  BY <1>2, <1>3, <1>4

-----------------------------------------------------------------------------
(* The batch, and the number of tasks.                                     *)

(* run() returns with no task in flight, and the batch is empty where the  *)
(* loop is not going through it.                                           *)
LEMMA BatchStep ==
  ASSUME StreamTypes, TaskTypes, LoopTypes, RegisteredInv, BatchInv, Next
  PROVE  BatchInv'
<1> DEFINE Idle == {"top", "reclaim", "read", "drain", "stopped"}
<1>1. ASSUME pc' \in Idle PROVE batch' = {}
  <2>1. CASE Spawn \/ Drop
    <3>1. Spawning /\ \E S : Remaining(S)
      BY <2>1, DropFacts DEF Spawn, Spawning
    <3>2. PICK S : Remaining(S)
      BY <3>1
    <3>3. batch' = S /\ (S # {} => pc' = pc)
      BY <3>1, <3>2, RemainingFacts
    <3> QED
      BY <1>1, <3>1, <3>3 DEF Spawning
  <2>2. CASE ~ Spawn /\ ~ Drop
    <3>1. pc \in Idle
      BY <1>1, <2>2, StreamFrame
      DEF Turn, Delivery, Reclaim, Read, ReclaimRaises, ReadRaises, Drain, Stopped, LoopRaises, Dead
    <3>2. ~ Reclaim /\ ~ Read
      BY <1>1 DEF Reclaim, Read
    <3> QED
      BY <2>2, <3>1, <3>2, StreamFrame DEF BatchInv
  <2> QED
    BY <2>1, <2>2
<1>2. ASSUME pc' = "stopped" PROVE inflight' = {}
  <2>1. ~ Spawn
    <3> SUFFICES ASSUME Spawn PROVE FALSE
      OBVIOUS
    <3>1. Spawning /\ Remaining(batch \ Readable)
      BY DEF Spawn, Spawning
    <3>2. pc' \in {pc, "read", "top"}
      BY <3>1, RemainingFacts, SMTT(20) DEF Spawning
    <3> QED
      BY <1>2, <3>1, <3>2 DEF Spawning
  <2>2. ~ Drop
    <3> SUFFICES ASSUME Drop PROVE FALSE
      OBVIOUS
    <3>1. PICK m \in batch \ Run : Spawning /\ Remaining(batch \ {m})
      BY DropFacts
    <3>2. pc' \in {pc, "read", "top"}
      BY <3>1, RemainingFacts, SMTT(20) DEF Spawning
    <3> QED
      BY <1>2, <3>1, <3>2 DEF Spawning
  <2>3. inflight = {}
    BY <1>2, <2>1, <2>2, StreamFrame
    DEF BatchInv, Turn, Delivery, Reclaim, Read, ReclaimRaises, ReadRaises, Drain, Stopped, LoopRaises, Dead
  <2> QED
    BY <2>1, <2>3, TaskMoves
<1> QED
  BY <1>1, <1>2 DEF BatchInv

(* But for a task that enters, the holders of the semaphore become fewer. *)
LEMMA HolderMoves ==
  ASSUME TaskTypes, LoopTypes, TaskInv, RegisteredInv, Next, \A t \in Task : ~ Enter(t)
  PROVE  Holders' \subseteq Holders
<1> USE DEF Holders, TasksAt
<1>1. CASE LoopRaises
  BY <1>1 DEF LoopRaises, inflight, TaskTypes
<1>2. CASE Spawn
  BY <1>2, SpawnFacts
<1>3. ASSUME NEW t \in Task, Claim(t) \/ Skip(t) \/ Ack(t) \/ AckRaises(t) \/ Return(t)
      PROVE  Holders' \subseteq Holders
  BY <1>3 DEF Claim, Skip, Ack, AckRaises, Return, Finally, TaskTypes
<1>4. ASSUME NEW r \in Run, Listen(r), ~ UNCHANGED task PROVE Holders' \subseteq Holders
  <2>1. inflight_by_run[r] # 0 /\ task' = [task EXCEPT ![<<r, inflight_by_run[r]>>] = "acks"]
    BY <1>4 DEF Listen, Finally
  <2>2. <<r, inflight_by_run[r]>> \in Holders
    BY <2>1, RegisteredTask DEF RegisteredInv
  <2> QED
    BY <2>1, <2>2 DEF TaskTypes
<1>5. CASE UNCHANGED task
  BY <1>5
<1> QED
  BY <1>1, <1>2, <1>3, <1>4, <1>5, TaskFrame

(* spawn() adds at most one task for each message that it takes from the   *)
(* batch: each message is delivered to one task.                           *)
LEMMA SpawnCount ==
  ASSUME StreamTypes, TaskTypes, TaskInv, Spawn
  PROVE  Cardinality(inflight') + Cardinality(batch') <= Cardinality(inflight) + Cardinality(batch)
<1> DEFINE New == {t \in Task : t[1] \in Readable /\ t[2] = deliveries[t[1]]}
           Msgof == [t \in New |-> t[1]]
<1>1. /\ Readable \subseteq batch /\ batch \subseteq Msg
      /\ batch' = batch \ Readable
  BY SpawnFacts DEF Readable, Remaining, StreamTypes
<1>2. /\ IsFiniteSet(batch) /\ Cardinality(batch) \in Nat
      /\ IsFiniteSet(Readable) /\ Cardinality(Readable) \in Nat
  BY <1>1, MsgCardinality
<1>3. Cardinality(batch') = Cardinality(batch) - Cardinality(Readable)
  <2>1. batch \cap Readable = Readable
    BY <1>1
  <2>2. Cardinality(batch \ Readable) = Cardinality(batch) - Cardinality(batch \cap Readable)
    BY <1>2, FS_Difference
  <2> QED
    BY <1>1, <2>1, <2>2
<1>4. New \subseteq Task /\ inflight \subseteq Task /\ inflight' \subseteq inflight \union New
  BY SpawnFacts DEF inflight, TasksAt
<1>5. Cardinality(New) <= Cardinality(Readable)
  <2>1. ASSUME NEW t \in New, NEW u \in New, t[1] = u[1] PROVE t = u
    <3>1. t = <<t[1], t[2]>> /\ u = <<u[1], u[2]>>
      BY TaskPair
    <3>2. t[2] = u[2]
      BY <2>1
    <3> QED
      BY <2>1, <3>1, <3>2
  <2>2. Msgof \in Injection(New, Readable)
    BY <2>1 DEF Injection, IsInjective
  <2> QED
    BY <1>2, <2>2, FS_Injection
<1>6. /\ IsFiniteSet(New) /\ Cardinality(New) \in Nat
      /\ IsFiniteSet(inflight) /\ Cardinality(inflight) \in Nat
  BY <1>4, TaskCardinality
<1>7. inflight \union New \subseteq Task /\ inflight \cap New \subseteq Task
  BY <1>4
<1>8. /\ Cardinality(inflight \union New) =
            Cardinality(inflight) + Cardinality(New) - Cardinality(inflight \cap New)
      /\ Cardinality(inflight \cap New) \in Nat
      /\ Cardinality(inflight') \in Nat
      /\ Cardinality(inflight') <= Cardinality(inflight \union New)
  BY <1>4, <1>6, <1>7, FS_Union, TaskCardinality
<1> QED
  BY <1>2, <1>3, <1>5, <1>6, <1>8, SMTT(60)

(* CountInv of the numbers alone: n tasks in flight, b messages in the      *)
(* batch, k to be asked for, and the loop at p.                             *)
Room(p, n, b, k) ==
    /\ p = "reclaim" => n + k <= Concurrency
    /\ p = "reclaimed" => n + b <= Concurrency
    /\ p = "read" => n <= Concurrency
    /\ p \in {"reclaim", "reclaimed", "read"} => k <= Concurrency
    /\ p = "received" => n + b <= Concurrency + Smaller(Concurrency, ReadBatch)
    /\ n <= Concurrency + Smaller(Concurrency, ReadBatch)

(* Messages of the batch become tasks or are dropped. *)
LEMMA RoomKept ==
  ASSUME NEW p, NEW q, NEW n \in Nat, NEW b \in Nat, NEW k \in Nat, NEW n2 \in Nat, NEW b2 \in Nat,
         Room(p, n, b, k), n2 + b2 <= n + b,
         \/ p \in {"reclaimed", "received"} /\ q = p
         \/ p = "reclaimed" /\ q = "read"
         \/ p = "received" /\ q = "top"
  PROVE  Room(q, n2, b2, k)
<1>1. Smaller(Concurrency, ReadBatch) \in Nat /\ Concurrency \in Nat
  BY Constants, SmallerFacts
<1> QED
  BY <1>1, SMTT(60) DEF Room

(* Tasks end, and the loop stays where it is or ends. *)
LEMMA RoomShrinks ==
  ASSUME NEW p, NEW q, NEW n \in Nat, NEW b \in Nat, NEW k \in Nat, NEW n2 \in Nat,
         Room(p, n, b, k), n2 <= n, q \in {p, "drain", "stopped", "dying", "dead"}
  PROVE  Room(q, n2, b, k)
<1>1. Smaller(Concurrency, ReadBatch) \in Nat /\ Concurrency \in Nat
  BY Constants, SmallerFacts
<1> QED
  BY <1>1, SMTT(60) DEF Room

(* capacity is computed once per turn: what is reclaimed and spawned by it *)
(* stays within worker_concurrency, and what is read after that adds one   *)
(* more batch.                                                             *)
LEMMA CountStep ==
  ASSUME StreamTypes, TaskTypes, LoopTypes, BatchInv, TaskInv, RegisteredInv, CountInv, Next
  PROVE  CountInv'
<1> DEFINE n == Cardinality(inflight)
           b == Cardinality(batch)
           Least == Smaller(Concurrency, ReadBatch)
<1>0. /\ n \in Nat /\ b \in Nat /\ n' \in Nat /\ b' \in Nat
      /\ count \in Nat /\ count <= ReadBatch /\ count' \in Nat
      /\ Concurrency \in Nat /\ ReadBatch \in Nat /\ Least \in Nat
      /\ Concurrency > 0
  <2>1. inflight \subseteq Task /\ inflight' \subseteq Task
    BY DEF inflight, TasksAt
  <2>2. StreamTypes' /\ LoopTypes'
    BY StreamTypesStep, LoopTypesStep
  <2>3. batch \subseteq Msg /\ batch' \subseteq Msg
    BY <2>2 DEF StreamTypes
  <2>4. n \in Nat /\ n' \in Nat /\ b \in Nat /\ b' \in Nat
    BY <2>1, <2>3, TaskCardinality, MsgCardinality
  <2>5. count \in 0..ReadBatch /\ count' \in 0..ReadBatch
    BY <2>2 DEF LoopTypes
  <2>6. count \in Nat /\ count <= ReadBatch /\ count' \in Nat
    BY <2>5, Constants, SMTT(60)
  <2>7. Least \in Nat
    BY Constants, SmallerFacts
  <2> QED
    BY <2>4, <2>6, <2>7, Constants
<1>1. Room(pc, n, b, count) /\ Cardinality(Holders) <= Concurrency
  BY DEF CountInv, InflightBounded, Room
<1>2. ASSUME NEW S, S \subseteq Msg, NEW k \in Nat, NEW T \in Oldest(S, k)
      PROVE  Cardinality(T) <= k
  <2>1. Cardinality(T) = Smaller(k, Cardinality(S)) /\ Cardinality(S) \in Nat
    BY <1>2, OldestFacts, MsgCardinality
  <2> QED
    BY <2>1, SmallerFacts
<1>3. ~ Spawn => n' <= n
  <2>1. inflight \subseteq Task
    BY DEF inflight, TasksAt
  <2> QED
    BY <2>1, TaskMoves, TaskCardinality
<1>4. (Cardinality(Holders) <= Concurrency)'
  <2>1. Holders \subseteq Task
    BY DEF Holders, TasksAt
  <2>2. ASSUME NEW t \in Task, Enter(t) PROVE Cardinality(Holders') <= Concurrency
    <3>1. Holders' = Holders \union {t} /\ Cardinality(Holders) < Concurrency
      BY <2>2 DEF Enter, Holders, TasksAt, TaskTypes
    <3>2. IsFiniteSet(Holders) /\ Cardinality(Holders) \in Nat
      BY <2>1, TaskCardinality
    <3>3. Cardinality(Holders \union {t}) =
            IF t \in Holders THEN Cardinality(Holders) ELSE Cardinality(Holders) + 1
      BY <3>2, FS_AddElement
    <3> QED
      BY <1>0, <3>1, <3>2, <3>3, SMTT(60)
  <2>3. CASE \A t \in Task : ~ Enter(t)
    <3>1. /\ Cardinality(Holders') <= Cardinality(Holders)
          /\ Cardinality(Holders') \in Nat /\ Cardinality(Holders) \in Nat
      BY <2>1, <2>3, HolderMoves, TaskCardinality
    <3> QED
      BY <1>0, <1>1, <3>1, SMTT(60)
  <2> QED
    BY <2>2, <2>3
<1>5. ASSUME Turn PROVE Room(pc, n, b, count)'
  <2>1. pc' = "reclaim" /\ n' = n /\ capacity > 0 /\ count' = Smaller(capacity, ReadBatch)
    BY <1>5 DEF Turn, taskVars, inflight, TasksAt
  <2> QED
    BY <1>0, <2>1, SMTT(60) DEF capacity, Smaller, Room
<1>6. ASSUME Reclaim PROVE Room(pc, n, b, count)'
  <2>1. pc = "reclaim" /\ pc' = "reclaimed" /\ n' = n /\ count' = count
    BY <1>6 DEF Reclaim, taskVars, inflight, TasksAt
  <2>2. PICK T \in Oldest(idle, count) : Received(T)
    BY <1>6 DEF Reclaim
  <2>3. b' <= count
    BY <1>0, <1>2, <2>2 DEF StreamTypes, Received
  <2> QED
    BY <1>0, <1>1, <2>1, <2>3, SMTT(60) DEF Room
<1>7. ASSUME Read PROVE Room(pc, n, b, count)'
  <2>1. pc = "read" /\ pc' = "received" /\ n' = n
    BY <1>7 DEF Read, taskVars, inflight, TasksAt
  <2>2. PICK T \in Oldest(fresh, count) : Received(T)
    BY <1>7 DEF Read
  <2>3. b' <= count
    BY <1>0, <1>2, <2>2 DEF StreamTypes, Received
  <2>4. count <= Least
    BY <1>0, <1>1, <2>1, SMTT(60) DEF Smaller, Room
  <2> QED
    BY <1>0, <1>1, <2>1, <2>3, <2>4, SMTT(60) DEF Room
<1>8. ASSUME ReclaimRaises \/ ReadRaises PROVE Room(pc, n, b, count)'
  <2>1. /\ (pc = "reclaim" /\ pc' = "read" /\ count' = count) \/ (pc = "read" /\ pc' = "top")
        /\ n' = n
    BY <1>8 DEF ReclaimRaises, ReadRaises, taskVars, inflight, TasksAt
  <2> QED
    BY <1>0, <1>1, <2>1, SMTT(60) DEF Room
<1>9. ASSUME NEW S, Spawning, Remaining(S), UNCHANGED count, n' + b' <= n + b PROVE Room(pc, n, b, count)'
  <2>1. /\ batch' = S
        /\ S # {} => pc' = pc
        /\ S = {} /\ pc = "reclaimed" => pc' = "read"
        /\ S = {} /\ pc = "received" => pc' = "top"
    BY <1>9, RemainingFacts
  <2>2. \/ pc \in {"reclaimed", "received"} /\ pc' = pc
        \/ pc = "reclaimed" /\ pc' = "read"
        \/ pc = "received" /\ pc' = "top"
    BY <1>9, <2>1, SMTT(60) DEF Spawning
  <2> QED
    BY <1>0, <1>1, <1>9, <2>2, RoomKept
<1>10. ASSUME Spawn PROVE Room(pc, n, b, count)'
  BY <1>9, <1>10, SpawnFacts, SpawnCount
<1>11. ASSUME Drop PROVE Room(pc, n, b, count)'
  <2>1. PICK m \in batch \ Run : Spawning /\ Remaining(batch \ {m})
    BY <1>11, DropFacts
  <2>2. UNCHANGED count /\ n' = n
    BY <1>11 DEF Drop, taskVars, inflight, TasksAt
  <2>3. b' <= b
    <3>1. batch \ {m} \subseteq batch /\ batch \subseteq Msg
      BY DEF StreamTypes
    <3> QED
      BY <2>1, <3>1, MsgCardinality DEF Remaining
  <2>4. n' + b' <= n + b
    BY <1>0, <2>2, <2>3, SMTT(60)
  <2> QED
    BY <1>9, <2>1, <2>2, <2>4
<1>12. ASSUME ~ Turn, ~ Delivery, ~ Spawn, ~ Drop PROVE Room(pc, n, b, count)'
  <2>1. /\ UNCHANGED <<batch, count>>
        /\ UNCHANGED pc \/ pc' \in {"drain", "stopped", "dying", "dead"}
    BY <1>12, StreamFrame DEF Delivery, Drain, Stopped, LoopRaises, Dead
  <2>2. b' = b /\ n' <= n
    BY <1>3, <1>12, <2>1
  <2> QED
    BY <1>0, <1>1, <2>1, <2>2, RoomShrinks
<1> QED
  BY <1>4, <1>5, <1>6, <1>7, <1>8, <1>10, <1>11, <1>12 DEF CountInv, InflightBounded, Room, Delivery

-----------------------------------------------------------------------------
(* Runs: none is acked before it is settled.                               *)

(* run() does not come back from the exception that ended it. *)
LEMMA SoundStep ==
  ASSUME Next, Sound'
  PROVE  Sound /\ ~ LoopRaises
<1>1. ~ LoopRaises /\ ~ Dead
  BY DEF LoopRaises, Dead, Sound
<1>2. CASE Spawn \/ Drop
  BY <1>1, <1>2, DropFacts DEF Spawn, Spawning, Sound
<1>3. CASE ~ Spawn /\ ~ Drop
  BY <1>1, <1>3, StreamFrame
  DEF Sound, Turn, Delivery, Reclaim, Read, ReclaimRaises, ReadRaises, Drain, Stopped
<1> QED
  BY <1>1, <1>2, <1>3

(* A run that is over stays as it is. *)
LEMMA FinalStep ==
  ASSUME TaskTypes, Next, ~ LoopRaises, NEW r \in Run, status[r] \in {"finished", "canceled"}
  PROVE  status'[r] \in {"finished", "canceled"} /\ (status[r] = "canceled" => status'[r] = "canceled")
<1>1. ASSUME NEW t \in Task, Claim(t) PROVE status'[r] = status[r]
  BY <1>1 DEF Claim, Claimable, TaskTypes
<1>2. ASSUME NEW t \in Task, Return(t)
      PROVE  status'[r] \in {"finished", "canceled"} /\ (status[r] = "canceled" => status'[r] = "canceled")
  BY <1>2 DEF Return, TaskTypes
<1>3. ASSUME NEW q \in Run, Cancel(q)
      PROVE  status'[r] \in {"finished", "canceled"} /\ (status[r] = "canceled" => status'[r] = "canceled")
  BY <1>3 DEF Cancel, TaskTypes
<1> QED
  BY <1>1, <1>2, <1>3, TaskFrame

(* A task that executes a run goes on until the run is over. *)
LEMMA ExecutedStep ==
  ASSUME TaskTypes, LoopTypes, TaskInv, RegisteredInv, AckInv, Next, Sound',
         NEW r \in Run, Executed(r)
  PROVE  Executed(r)' \/ status'[r] \in {"finished", "canceled"}
<1>0. Sound /\ ~ LoopRaises
  BY SoundStep
<1>1. PICK t \in Task : task[t] = "executes" /\ t[1] = r
  BY DEF Executed, TasksAt
<1> SUFFICES ASSUME task'[t] # "executes" PROVE status'[r] \in {"finished", "canceled"}
  BY <1>1 DEF Executed, TasksAt
<1>2. CASE Spawn
  BY <1>1, <1>2, SpawnFacts
<1>3. ASSUME NEW u \in Task, Enter(u) \/ Claim(u) \/ Skip(u) \/ Ack(u) \/ AckRaises(u) PROVE FALSE
  BY <1>1, <1>3 DEF Enter, Claim, Skip, Ack, AckRaises, Finally, TaskTypes
<1>4. ASSUME NEW u \in Task, Return(u) PROVE status'[r] \in {"finished", "canceled"}
  <2>1. u = t
    BY <1>1, <1>4 DEF Return, Finally, TaskTypes
  <2> QED
    BY <1>1, <1>4, <2>1 DEF Return, TaskTypes
<1>5. ASSUME NEW q \in Run, Listen(q) PROVE status'[r] \in {"finished", "canceled"}
  <2>1. /\ inflight_by_run[q] # 0 /\ status' = status /\ q \in signals
        /\ task' = [task EXCEPT ![<<q, inflight_by_run[q]>>] = "acks"]
    BY <1>1, <1>5 DEF Listen, Finally
  <2>2. <<q, inflight_by_run[q]>> = t
    BY <1>1, <2>1 DEF TaskTypes
  <2>3. q = r
    BY <1>1, <2>2, TaskPair
  <2> QED
    BY <1>0, <2>1, <2>3 DEF AckInv
<1>6. CASE UNCHANGED task
  BY <1>1, <1>6
<1> QED
  BY <1>0, <1>2, <1>3, <1>4, <1>5, <1>6, TaskFrame

(* A settled run stays settled. *)
LEMMA SettledStep ==
  ASSUME TaskTypes, LoopTypes, TaskInv, RegisteredInv, AckInv, Next, Sound',
         NEW r \in Run, Settled(r)
  PROVE  Settled(r)'
BY SoundStep, FinalStep, ExecutedStep DEF Settled

(* A task goes to its ack only when its run is settled: the claim failed   *)
(* because the run is over or because another task executes it, or the     *)
(* task has ended it, or its cancellation was heard.                       *)
LEMMA AckStep ==
  ASSUME TaskTypes, LoopTypes, TaskInv, RegisteredInv, AckInv, Next
  PROVE  AckInv'
<1> SUFFICES ASSUME Sound'
             PROVE  /\ \A t \in TasksAt({"acks"})' : Settled(t[1])'
                    /\ \A r \in Run \ Stale : status'[r] = "running" => Executed(r)'
                    /\ \A r \in signals' \union canceling' : status'[r] = "canceled"
  BY DEF AckInv
<1>0. Sound /\ ~ LoopRaises
  BY SoundStep
<1>1. ASSUME NEW t \in Task, task'[t] = "acks" PROVE Settled(t[1])'
  <2>0. t[1] \in Run
    BY TaskPair
  <2>1. CASE task[t] = "acks"
    BY <1>0, <2>0, <2>1, SettledStep DEF AckInv, TasksAt
  <2>2. ASSUME task[t] # "acks", Skip(t) PROVE Settled(t[1])'
    <3>1. /\ task[t] = "claims" /\ ~ Claimable(t)
          /\ status[t[1]] \in {"queued", "running", "finished", "canceled"}
      BY <2>0, <2>2 DEF Skip, TaskTypes
    <3>2. ASSUME status[t[1]] = "running" PROVE Executed(t[1])
      <4>1. ~ allow_running(t)
        BY <3>1, <3>2 DEF Claimable
      <4>2. t[1] \notin Stale
        BY <3>1, <4>1 DEF TaskInv
      <4> QED
        BY <1>0, <2>0, <3>2, <4>2 DEF AckInv
    <3>3. Settled(t[1])
      BY <3>1, <3>2 DEF Settled, Claimable
    <3> QED
      BY <2>0, <3>3, SettledStep
  <2>3. ASSUME task[t] # "acks", Return(t) PROVE Settled(t[1])'
    BY <2>0, <2>3 DEF Return, TaskTypes, Settled
  <2>4. ASSUME task[t] # "acks", NEW r \in Run, Listen(r) PROVE Settled(t[1])'
    <3>1. /\ inflight_by_run[r] # 0 /\ r \in signals
          /\ task' = [task EXCEPT ![<<r, inflight_by_run[r]>>] = "acks"]
      BY <1>1, <2>4 DEF Listen, Finally
    <3>2. <<r, inflight_by_run[r]>> = t
      BY <1>1, <2>4, <3>1 DEF TaskTypes
    <3>3. t[1] = r
      BY <3>2, TaskPair
    <3>4. Settled(t[1])
      BY <1>0, <3>1, <3>3 DEF AckInv, Settled
    <3> QED
      BY <2>0, <3>4, SettledStep
  <2>5. CASE task[t] # "acks" /\ Spawn
    BY <1>1, <2>5, SpawnFacts
  <2>6. ASSUME task[t] # "acks", NEW u \in Task, Enter(u) \/ Claim(u) \/ Ack(u) \/ AckRaises(u) PROVE FALSE
    BY <1>1, <2>6 DEF Enter, Claim, Ack, AckRaises, TaskTypes
  <2>7. ASSUME task[t] # "acks", NEW u \in Task, Skip(u) \/ Return(u) PROVE u = t
    BY <1>1, <2>7 DEF Skip, Return, Finally, TaskTypes
  <2> QED
    BY <1>0, <1>1, <2>1, <2>2, <2>3, <2>4, <2>5, <2>6, <2>7, TaskFrame
<1>2. ASSUME NEW r \in Run \ Stale, status'[r] = "running" PROVE Executed(r)'
  <2>1. CASE status[r] = "running"
    <3>1. Executed(r)
      BY <1>0, <2>1 DEF AckInv
    <3> QED
      BY <1>2, <3>1, ExecutedStep
  <2>2. ASSUME status[r] # "running" PROVE \E t \in Task : Claim(t) /\ t[1] = r
    <3>1. ASSUME NEW t \in Task, Return(t) PROVE FALSE
      <4>1. t[1] \in Run
        BY TaskPair
      <4> QED
        BY <1>2, <2>2, <3>1, <4>1 DEF Return, TaskTypes
    <3>2. ASSUME NEW q \in Run, Cancel(q) PROVE FALSE
      BY <1>2, <2>2, <3>2 DEF Cancel, TaskTypes
    <3>3. ASSUME NEW t \in Task, Claim(t) PROVE t[1] = r
      BY <1>2, <2>2, <3>3 DEF Claim, TaskTypes
    <3> QED
      BY <1>0, <1>2, <2>2, <3>1, <3>2, <3>3, TaskFrame
  <2>3. ASSUME NEW t \in Task, Claim(t), t[1] = r PROVE Executed(r)'
    BY <2>3 DEF Claim, Executed, TasksAt, TaskTypes
  <2> QED
    BY <2>1, <2>2, <2>3
<1>3. ASSUME NEW r \in signals' \union canceling' PROVE status'[r] = "canceled"
  <2>1. r \in Run
    BY LoopTypesStep DEF LoopTypes
  <2>2. CASE r \in signals \union canceling
    BY <1>0, <2>1, <2>2, FinalStep DEF AckInv
  <2>3. CASE r \notin signals \union canceling
    <3>1. ASSUME NEW q \in Run, Publish(q) \/ PublishFails(q) PROVE FALSE
      BY <1>3, <2>3, <3>1 DEF Publish, PublishFails
    <3>2. r \notin signals'
      BY <1>0, <2>3, <3>1, TaskFrame
      DEF Drain, Subscribe, ListenerStops, ListenerRaises, ListenerEnds, Listen
    <3>3. PICK q \in Run : Cancel(q)
      BY <1>3, <2>3, <3>1, <3>2, TaskFrame
    <3> QED
      BY <1>3, <2>1, <2>3, <3>2, <3>3 DEF Cancel, TaskTypes
  <2> QED
    BY <2>2, <2>3
<1> QED
  BY <1>1, <1>2, <1>3 DEF TasksAt

(* A message leaves the stream with the ack of a settled run, or because   *)
(* it has none.                                                            *)
LEMMA StrandedStep ==
  ASSUME StreamTypes, TaskTypes, LoopTypes, TaskInv, RegisteredInv, AckInv, NoRunStranded, Next
  PROVE  NoRunStranded'
<1> SUFFICES ASSUME Sound', NEW r \in Run, status'[r] \in {"queued", "running"}
             PROVE  (r \in fresh \union pending)' \/ Executed(r)'
  BY DEF NoRunStranded, Sound, Executed
<1>0. Sound /\ ~ LoopRaises
  BY SoundStep
<1>1. status[r] \in {"queued", "running"}
  BY <1>0, FinalStep DEF TaskTypes
<1>2. CASE Settled(r)
  <2>1. Settled(r)'
    BY <1>2, SettledStep
  <2> QED
    BY <2>1 DEF Settled
<1>3. CASE ~ Settled(r)
  <2>1. r \in fresh \union pending
    BY <1>0, <1>1, <1>3 DEF NoRunStranded, Settled, Executed, Sound
  <2>2. ASSUME NEW t \in Task, Ack(t) PROVE t[1] # r
    BY <1>0, <1>3, <2>2 DEF Ack, AckInv, TasksAt
  <2>3. CASE Drop
    <3>1. PICK m \in batch \ Run : Settle(m)
      BY <2>3, DropFacts
    <3> QED
      BY <2>1, <3>1 DEF Settle
  <2>4. CASE ~ Drop
    <3>1. CASE Delivery
      BY <2>1, <3>1, DeliveryFacts, OldestFacts DEF Xautoclaim, Xreadgroup, streamVars
    <3>2. CASE ~ Delivery
      BY <1>0, <2>1, <2>2, <2>4, <3>2, StreamFrame DEF Ack, AckRaises, Settle, GoesIdle
    <3> QED
      BY <3>1, <3>2
  <2> QED
    BY <2>3, <2>4
<1> QED
  BY <1>2, <1>3

(* A task in flight stays so until it has acked its message. *)
LEMMA InflightStep ==
  ASSUME TaskTypes, LoopTypes, TaskInv, RegisteredInv, Next, ~ LoopRaises, NEW t \in inflight, ~ Ack(t), ~ AckRaises(t)
  PROVE  t \in inflight'
<1> USE DEF inflight, TasksAt
<1>1. CASE Spawn
  BY <1>1, SpawnFacts
<1>2. ASSUME NEW u \in Task, Enter(u) \/ Claim(u) \/ Skip(u) \/ Return(u) PROVE t \in inflight'
  BY <1>2 DEF Enter, Claim, Skip, Return, Finally, TaskTypes
<1>3. ASSUME NEW u \in Task, Ack(u) \/ AckRaises(u) PROVE t \in inflight'
  BY <1>3 DEF Ack, AckRaises, TaskTypes
<1>4. ASSUME NEW r \in Run, Listen(r) PROVE t \in inflight'
  BY <1>4 DEF Listen, Finally, TaskTypes
<1>5. CASE UNCHANGED task
  BY <1>5
<1> QED
  BY <1>1, <1>2, <1>3, <1>4, <1>5, TaskFrame

(* A message that can be read and is spawned has a task of its own. *)
LEMMA SpawnedHasTask ==
  ASSUME StreamTypes, TaskTypes, LoopTypes, deliveries \in [Msg -> Nat], DeliveryInv, TaskInv, Spawn,
         NEW m \in Readable
  PROVE  \E t \in inflight' : t[1] = m
<1>1. m \in batch /\ m \in Msg
  BY DEF Readable, StreamTypes
<1>2. m \in Run
  <2>1. m \in Malformed => m < m
    BY <1>1 DEF Readable
  <2>2. ~(m < m)
    BY <1>1, Constants, SMTT(60)
  <2> QED
    BY <1>1, <2>1, <2>2 DEF Run
<1>3. deliveries[m] \in 1..MaxDeliveries
  <2>1. /\ deliveries[m] \in Nat /\ deliveries[m] >= 1 /\ deliveries[m] <= idles + faults + 2
        /\ idles \in 0..MaxIdle /\ faults \in 0..MaxFaults
    BY <1>1 DEF DeliveryInv, LoopTypes
  <2> QED
    BY <2>1, Constants, SMTT(60)
<1>4. <<m, deliveries[m]>> \in Task /\ <<m, deliveries[m]>>[1] = m /\ <<m, deliveries[m]>>[2] = deliveries[m]
  BY <1>2, <1>3, TaskPair
<1>5. task'[<<m, deliveries[m]>>] = "waits"
  BY <1>4, SpawnFacts
<1> QED
  BY <1>4, <1>5 DEF inflight, TasksAt

(* What a message of this worker is waiting for: it is in the batch, or a  *)
(* task will ack it, or its reply or ack was lost.                         *)
LEMMA MineStep ==
  ASSUME StreamTypes, TaskTypes, LoopTypes, BatchInv, deliveries \in [Msg -> Nat], DeliveryInv, TaskInv,
         RegisteredInv, MineInv, Next
  PROVE  MineInv'
<1> SUFFICES ASSUME Sound', NEW m \in mine', m \notin forgotten'
             PROVE  m \in batch' \/ \E t \in inflight' : t[1] = m
  BY DEF MineInv
<1>0. Sound /\ ~ LoopRaises
  BY SoundStep
<1>1. CASE m \notin mine \/ m \in forgotten
  <2>1. ASSUME NEW o, Settle(o) PROVE FALSE
    BY <1>1, <2>1 DEF Settle
  <2>2. ~ Drop /\ \A t \in Task : ~ Ack(t)
    BY <2>1, DropFacts DEF Ack
  <2>3. Delivery
    BY <1>0, <1>1, <2>2, StreamFrame DEF AckRaises, GoesIdle
  <2>4. PICK S : Deliver(S) /\ (Received(S) \/ Lost(S))
    BY <1>1, <2>3, DeliveryFacts DEF Xautoclaim, Xreadgroup, streamVars
  <2> QED
    BY <1>1, <2>4 DEF Deliver, Received, Lost
<1>2. ASSUME NEW t \in inflight, t[1] = m PROVE \E u \in inflight' : u[1] = m
  <2>1. ~ Ack(t)
    BY <1>2 DEF Ack, Settle
  <2>2. ~ AckRaises(t)
    BY <1>2 DEF AckRaises
  <2> QED
    BY <1>0, <1>2, <2>1, <2>2, InflightStep
<1>3. ASSUME m \in batch PROVE m \in batch' \/ \E t \in inflight' : t[1] = m
  <2>1. ~ Reclaim /\ ~ Read
    BY <1>3 DEF BatchInv, Reclaim, Read
  <2>2. CASE Spawn
    BY <1>3, <2>2, SpawnedHasTask, SpawnFacts DEF Remaining
  <2>3. CASE Drop
    <3>1. PICK o \in batch \ Run : Settle(o) /\ batch' = batch \ {o}
      BY <2>3, DropFacts, RemainingFacts
    <3> QED
      BY <1>3, <3>1 DEF Settle
  <2>4. CASE ~ Spawn /\ ~ Drop
    BY <1>3, <2>1, <2>4, StreamFrame
  <2> QED
    BY <2>2, <2>3, <2>4
<1> QED
  BY <1>0, <1>1, <1>2, <1>3 DEF MineInv

-----------------------------------------------------------------------------
(* Cancel messages.                                                        *)

(* A task that is the only one of its run was so before. *)
LEMMA OnlyBefore ==
  ASSUME TaskTypes, LoopTypes, TaskInv, RegisteredInv, Next, NEW t \in Task, OnlyTask(t)'
  PROVE  OnlyTask(t)
<1> SUFFICES ASSUME NEW u \in Task, u[1] = t[1], task[u] # "none" PROVE u = t
  BY DEF OnlyTask
<1>1. task'[u] # "none"
  <2>1. CASE Spawn
    BY <2>1, SpawnFacts
  <2>2. CASE LoopRaises
    BY <2>2 DEF LoopRaises, TaskTypes
  <2>3. ASSUME NEW o \in Task, Enter(o) \/ Claim(o) \/ Skip(o) \/ Ack(o) \/ AckRaises(o) \/ Return(o)
        PROVE  task'[u] # "none"
    BY <2>3 DEF Enter, Claim, Skip, Ack, AckRaises, Return, Finally, TaskTypes
  <2>4. ASSUME NEW r \in Run, Listen(r) PROVE task'[u] # "none"
    BY <2>4 DEF Listen, Finally, TaskTypes
  <2> QED
    BY <2>1, <2>2, <2>3, <2>4, TaskFrame
<1> QED
  BY <1>1 DEF OnlyTask

(* A task that claims or executes was at that before, or enters now; the   *)
(* listener has not canceled it.                                           *)
LEMMA BusyBefore ==
  ASSUME TaskTypes, LoopTypes, TaskInv, RegisteredInv, Next,
         NEW t \in Task, task'[t] \in {"claims", "executes"}
  PROVE  /\ ~ LoopRaises
         /\ Enter(t) \/ Claim(t) \/ task[t] = task'[t]
         /\ \A r \in Run : Listen(r) => r # t[1] \/ inflight_by_run[r] # t[2]
<1>1. ~ LoopRaises
  BY DEF LoopRaises, TaskTypes, inflight, TasksAt
<1>2. ASSUME NEW r \in Run, Listen(r), r = t[1], inflight_by_run[r] = t[2] PROVE FALSE
  <2>1. t[2] # 0 /\ <<r, inflight_by_run[r]>> = t
    <3>1. t = <<t[1], t[2]>> /\ t[2] \in 1..MaxDeliveries
      BY TaskPair
    <3> QED
      BY <1>2, <3>1, Constants, SMTT(60)
  <2> QED
    BY <1>2, <2>1 DEF Listen, Finally, TaskTypes
<1>3. ASSUME Spawn PROVE task[t] = task'[t]
  BY <1>3, SpawnFacts
<1>4. ASSUME NEW u \in Task, Enter(u) \/ Claim(u) \/ Skip(u) \/ Ack(u) \/ AckRaises(u) \/ Return(u)
      PROVE  Enter(t) \/ Claim(t) \/ task[t] = task'[t]
  BY <1>4 DEF Enter, Claim, Skip, Ack, AckRaises, Return, Finally, TaskTypes
<1>5. ASSUME NEW r \in Run, Listen(r) PROVE task[t] = task'[t]
  BY <1>5 DEF Listen, Finally, TaskTypes
<1> QED
  BY <1>1, <1>2, <1>3, <1>4, <1>5, TaskFrame

(* The registration of the only task of a run stays until the task acks. *)
LEMMA OnlyStep ==
  ASSUME TaskTypes, LoopTypes, TaskInv, RegisteredInv, OnlyInv, Next
  PROVE  OnlyInv'
<1> SUFFICES ASSUME NEW t \in Task, task'[t] \in {"claims", "executes"}, OnlyTask(t)'
             PROVE  inflight_by_run'[t[1]] = t[2]
  BY DEF OnlyInv, TasksAt
<1>1. OnlyTask(t) /\ t[1] \in Run
  BY OnlyBefore, TaskPair
<1>2. CASE Enter(t)
  BY <1>1, <1>2 DEF Enter, LoopTypes
<1>3. CASE ~ Enter(t)
  <2>1. inflight_by_run[t[1]] = t[2] /\ task[t] \in {"claims", "executes"}
    BY <1>1, <1>3, BusyBefore DEF OnlyInv, TasksAt, Claim
  <2>2. ASSUME NEW u \in Task, Enter(u) \/ Skip(u) \/ Return(u) PROVE inflight_by_run'[t[1]] = t[2]
    <3>1. task[u] # "none" /\ task'[u] # task[u]
      BY <2>2 DEF Enter, Skip, Return, Finally, TaskTypes
    <3>2. u # t
      BY <1>3, <2>2 DEF Enter, Skip, Return, Finally, TaskTypes
    <3>3. u[1] # t[1]
      BY <1>1, <3>1, <3>2 DEF OnlyTask
    <3> QED
      BY <1>1, <2>1, <2>2, <3>3 DEF Enter, Skip, Return, Finally, LoopTypes
  <2>3. ASSUME NEW r \in Run, Listen(r) PROVE inflight_by_run'[t[1]] = t[2]
    <3>1. r # t[1]
      BY <2>1, <2>3, BusyBefore
    <3>2. <<r, inflight_by_run[r]>>[1] = r
      BY TaskPair
    <3> QED
      BY <1>1, <2>1, <2>3, <3>1, <3>2 DEF Listen, Finally, LoopTypes
  <2> QED
    BY <2>1, <2>2, <2>3, BusyBefore, TaskFrame
<1> QED
  BY <1>2, <1>3

(* A cancel message is under way from the commit until the listener reads  *)
(* it, or is missed.                                                       *)
LEMMA HeardStep ==
  ASSUME TaskTypes, LoopTypes, TaskInv, RegisteredInv, OnlyInv, CancelIsHeard, Next
  PROVE  CancelIsHeard'
<1> SUFFICES ASSUME NEW t \in Task, task'[t] = "executes", status'[t[1]] = "canceled",
                    t[1] \notin missed', OnlyTask(t)'
             PROVE  t[1] \in canceling' \union signals' /\ inflight_by_run'[t[1]] = t[2]
  BY DEF CancelIsHeard, TasksAt
<1>1. OnlyTask(t) /\ t[1] \in Run
  BY OnlyBefore, TaskPair
<1>2. inflight_by_run'[t[1]] = t[2]
  BY OnlyStep DEF OnlyInv, TasksAt
<1>3. task[t] = "executes" /\ ~ LoopRaises
  <2>1. ~ Enter(t)
    BY DEF Enter, TaskTypes
  <2>2. ~ Claim(t)
    BY <1>1 DEF Claim, TaskTypes
  <2> QED
    BY <2>1, <2>2, BusyBefore
<1>4. CASE status[t[1]] # "canceled"
  <2>1. ASSUME NEW u \in Task, Claim(u) \/ Return(u) PROVE FALSE
    BY <1>1, <1>4, <2>1 DEF Claim, Return, TaskTypes
  <2>2. PICK r \in Run : Cancel(r)
    BY <1>3, <1>4, <2>1, TaskFrame
  <2>3. r = t[1]
    BY <1>1, <1>4, <2>2 DEF Cancel, TaskTypes
  <2> QED
    BY <1>2, <2>2, <2>3 DEF Cancel
<1>5. CASE status[t[1]] = "canceled"
  <2>1. missed \subseteq missed'
    BY <1>3, TaskFrame DEF Drain, Subscribe, ListenerStops, ListenerRaises, ListenerEnds,
                           Listen, Publish, PublishFails
  <2>2. t[1] \in canceling \union signals /\ inflight_by_run[t[1]] = t[2]
    BY <1>1, <1>3, <1>5, <2>1 DEF CancelIsHeard, TasksAt
  <2>3. CASE t[1] \in canceling /\ t[1] \notin canceling'
    BY <1>2, <2>3, TaskFrame DEF Cancel, Publish, PublishFails
  <2>4. CASE t[1] \in signals
    <3>1. ASSUME NEW r \in Run, Listen(r) PROVE t[1] \in signals'
      BY <2>2, <2>4, <3>1, BusyBefore DEF Listen
    <3> QED
      BY <1>2, <1>3, <2>4, <3>1, TaskFrame
      DEF Drain, Subscribe, ListenerStops, ListenerRaises, ListenerEnds, Publish, PublishFails
  <2> QED
    BY <1>2, <2>2, <2>3, <2>4
<1> QED
  BY <1>4, <1>5

-----------------------------------------------------------------------------
(* The theorems.                                                           *)

(* At the start: the messages of the dead worker are pending and idle, and *)
(* no task is in flight.                                                   *)
LEMMA WorkerInit == Init => WorkerInv
<1> SUFFICES ASSUME Init PROVE WorkerInv
  OBVIOUS
<1>1. StreamTypes
  BY Constants DEF Init, StreamTypes
<1>2. TaskTypes
  BY DEF Init, TaskTypes
<1>3. LoopTypes
  <2>1. 0 \in 0..MaxDeliveries /\ 0 \in 0..ReadBatch /\ 0 \in 0..MaxIdle /\ 0 \in 0..MaxCancels /\ 0 \in 0..MaxFaults
    BY Constants, SMTT(60)
  <2> QED
    BY <2>1 DEF Init, LoopTypes
<1>4. deliveries \in [Msg -> Nat] /\ DeliveryInv
  <2>1. Stale \intersect Fresh = {}
    BY WorkerLoopAssumption
  <2> QED
    BY <2>1, Constants, SMTT(60) DEF Init, DeliveryInv
<1>5. inflight = {} /\ Holders = {}
  BY DEF Init, inflight, Holders, TasksAt
<1>6. BatchInv /\ MineInv
  BY <1>5 DEF Init, BatchInv, MineInv
<1>7. TaskInv
  BY DEF Init, TaskInv, Spawning
<1>8. RegisteredInv
  BY DEF Init, RegisteredInv
<1>9. CountInv
  <2>1. Cardinality(inflight) = 0 /\ Cardinality(Holders) = 0
    BY <1>5, FS_EmptySet
  <2>2. Smaller(Concurrency, ReadBatch) \in Nat
    BY Constants, SmallerFacts
  <2>3. pc = "top"
    BY DEF Init
  <2> QED
    BY <2>1, <2>2, <2>3, Constants, SMTT(60) DEF CountInv, InflightBounded
<1>10. AckInv
  BY DEF Init, AckInv, TasksAt
<1>11. NoRunStranded
  BY DEF Init, NoRunStranded, Run, Msg
<1>12. OnlyInv /\ CancelIsHeard
  BY DEF Init, OnlyInv, CancelIsHeard, TasksAt
<1> QED
  BY <1>1, <1>2, <1>3, <1>4, <1>6, <1>7, <1>8, <1>9, <1>10, <1>11, <1>12 DEF WorkerInv

(* Every step preserves the invariant. *)
LEMMA WorkerInductive == WorkerInv /\ [Next]_vars => WorkerInv'
<1> SUFFICES ASSUME WorkerInv, [Next]_vars PROVE WorkerInv'
  OBVIOUS
<1>1. CASE Next
  <2>1. /\ StreamTypes' /\ TaskTypes' /\ LoopTypes'
        /\ deliveries' \in [Msg -> Nat] /\ DeliveryInv'
    BY <1>1, StreamTypesStep, TaskTypesStep, LoopTypesStep, DeliveryStep DEF WorkerInv
  <2>2. BatchInv' /\ TaskInv' /\ RegisteredInv' /\ CountInv'
    BY <1>1, BatchStep, TaskInvStep, RegisteredStep, CountStep DEF WorkerInv
  <2>3. AckInv' /\ NoRunStranded' /\ MineInv'
    BY <1>1, AckStep, StrandedStep, MineStep DEF WorkerInv
  <2>4. OnlyInv' /\ CancelIsHeard'
    BY <1>1, OnlyStep, HeardStep DEF WorkerInv
  <2> QED
    BY <2>1, <2>2, <2>3, <2>4 DEF WorkerInv
<1>2. CASE UNCHANGED vars
  <2> USE <1>2 DEF vars, streamVars, taskVars, loopVars, listenerVars, bounds
  <2>1. inflight' = inflight /\ Holders' = Holders /\ Spawning' = Spawning /\ Sound' = Sound
    BY DEF inflight, Holders, TasksAt, Spawning, Sound
  <2>2. \A r : (Executed(r)' <=> Executed(r)) /\ (Settled(r)' <=> Settled(r))
    BY DEF Executed, Settled, TasksAt
  <2>3. /\ StreamTypes' /\ TaskTypes' /\ LoopTypes' /\ deliveries' \in [Msg -> Nat]
        /\ BatchInv' /\ DeliveryInv'
    BY <2>1 DEF WorkerInv, StreamTypes, TaskTypes, LoopTypes, BatchInv, DeliveryInv
  <2>4. TaskInv' /\ RegisteredInv' /\ CountInv'
    BY <2>1 DEF WorkerInv, TaskInv, RegisteredInv, CountInv, InflightBounded
  <2>5. AckInv' /\ NoRunStranded' /\ MineInv'
    BY <2>1, <2>2 DEF WorkerInv, AckInv, NoRunStranded, MineInv, TasksAt
  <2>6. OnlyInv' /\ CancelIsHeard'
    BY DEF WorkerInv, OnlyInv, CancelIsHeard, OnlyTask, TasksAt
  <2> QED
    BY <2>3, <2>4, <2>5, <2>6 DEF WorkerInv
<1> QED
  BY <1>1, <1>2

(* Every variable keeps its type; a message is delivered once and once     *)
(* more for each time that it went idle, which a lost reply or ack can     *)
(* bring about as well.                                                    *)
THEOREM WorkerTypes == Spec => []TypeOK
<1>1. WorkerInv => TypeOK
  <2> SUFFICES ASSUME WorkerInv PROVE TypeOK
    OBVIOUS
  <2>1. deliveries \in [Msg -> 0..MaxDeliveries]
    <3>1. idles \in 0..MaxIdle /\ faults \in 0..MaxFaults
      BY DEF WorkerInv, LoopTypes
    <3>2. ASSUME NEW m \in Msg PROVE deliveries[m] \in 0..MaxDeliveries
      <4>1. deliveries[m] \in Nat /\ deliveries[m] <= idles + faults + 2
        BY DEF WorkerInv, DeliveryInv
      <4> QED
        BY <3>1, <4>1, Constants, SMTT(60)
    <3> QED
      BY <3>2 DEF WorkerInv
  <2> QED
    BY <2>1 DEF WorkerInv, StreamTypes, TaskTypes, LoopTypes, TypeOK
<1> QED
  BY <1>1, WorkerInit, WorkerInductive, PTL DEF Spec

(* capacity is computed once per turn and used for what is reclaimed and   *)
(* for what is read: in every worker, with any settings, the tasks in      *)
(* flight exceed worker_concurrency by at most one batch, and at most      *)
(* worker_concurrency of them hold the semaphore.                          *)
THEOREM InflightIsBounded == Spec => []InflightBounded
<1>1. WorkerInv => InflightBounded
  BY DEF WorkerInv, CountInv
<1> QED
  BY <1>1, WorkerInit, WorkerInductive, PTL DEF Spec

(* "Ack only after reaching a terminal state": while run() has not raised, *)
(* a run that is not over has its message in the stream or a task that     *)
(* executes it, for any number of messages, deliveries and faults.         *)
THEOREM RunsAreNotStranded == Spec => []NoRunStranded
<1>1. WorkerInv => NoRunStranded
  BY DEF WorkerInv
<1> QED
  BY <1>1, WorkerInit, WorkerInductive, PTL DEF Spec

(* After SIGTERM run() returns, and every message still pending for this   *)
(* worker is one whose reply or ack was lost: each of the others was in    *)
(* the batch or had a task in flight until it was acked, and at the end    *)
(* there is neither.                                                       *)
THEOREM StopIsGraceful == Spec => []GracefulStop
<1>1. WorkerInv => GracefulStop
  BY DEF WorkerInv, BatchInv, MineInv, GracefulStop, Sound
<1> QED
  BY <1>1, WorkerInit, WorkerInductive, PTL DEF Spec

(* While a canceled run executes, its cancel message is still to be        *)
(* published or read and will find the task, unless it is missed or the    *)
(* run's message was delivered twice, in every order of commit, publish,   *)
(* subscribe, delivery, claim and SIGTERM.                                 *)
THEOREM CancelsAreHeard == Spec => []CancelIsHeard
<1>1. WorkerInv => CancelIsHeard
  BY DEF WorkerInv
<1> QED
  BY <1>1, WorkerInit, WorkerInductive, PTL DEF Spec
=============================================================================
