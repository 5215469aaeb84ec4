----------------------------- MODULE RedisQueue -----------------------------
(***************************************************************************)
(* The Redis side of dispatch (backend/common/redis_queue.py and the Redis *)
(* commands of backend/worker/main.py): the stream jobs:stream with its    *)
(* consumer group, and the sorted set jobs:delayed.  Each operator is one  *)
(* Redis command or Lua script, which the server runs atomically.          *)
(*                                                                         *)
(* A message id of Redis is never used twice.  Here ids come from the      *)
(* finite set Msg and may be used again once nothing refers to them; the   *)
(* caller of xadd chooses the id among those (FreshMsg in Dispatch).       *)
(* Scores of the sorted set are times; a member may fall due at any time.  *)
(***************************************************************************)
EXTENDS Naturals, Sequences

CONSTANTS
    Msg,        \* bound: message ids that may be in use at once
    NoMsg       \* not a message id

ASSUME RedisQueueAssumption == NoMsg \notin Msg

VARIABLES
    stream,     \* the entries XLEN counts: added and not yet XDELed
    queue,      \* the entries after the group's last-delivered id, in order
    pel,        \* the pending entries list: delivered and not yet XACKed
    run_of,     \* the run_id field of each entry (0: no entry)
    delayed     \* the members of the sorted set

redisVars == <<stream, queue, pel, run_of, delayed>>

RedisTypeOK(RunIds) ==
    /\ stream \in SUBSET Msg
    /\ queue \in Seq(Msg)
    /\ pel \in SUBSET Msg
    /\ run_of \in [Msg -> RunIds \union {0}]
    /\ delayed \in SUBSET RunIds

RedisInit ==
    /\ stream = {}
    /\ queue = <<>>
    /\ pel = {}
    /\ run_of = [m \in Msg |-> 0]
    /\ delayed = {}

xadd(m, r) ==
    /\ stream' = stream \union {m}
    /\ queue' = Append(queue, m)
    /\ run_of' = [run_of EXCEPT ![m] = r]

(* Mutant of xreadgroup: the NOACK option is given. *)
xreadgroup_noack(m) ==
    /\ queue # <<>>
    /\ m = Head(queue)
    /\ queue' = Tail(queue)
    /\ UNCHANGED pel

(* XREADGROUP with id ">" hands out the next entry never delivered. *)
xreadgroup(m) ==
    /\ queue # <<>>
    /\ m = Head(queue)
    /\ queue' = Tail(queue)
    /\ pel' = pel \union {m}

(* XACK removes the entry from the pending list whoever its consumer is. *)
xack(m) == pel' = pel \ {m}

xdel(m) ==
    /\ stream' = stream \ {m}
    /\ run_of' = [run_of EXCEPT ![m] = 0]

schedule_delayed(r) == delayed' = delayed \union {r}

(* One turn of the loop of _PROMOTE_LUA: a due member leaves the sorted set *)
(* and enters the stream in the same step.  The script promotes every due  *)
(* member; a behaviour with several is several of these steps in a row.    *)
promote_due_delayed(m, r) ==
    /\ r \in delayed
    /\ delayed' = delayed \ {r}
    /\ xadd(m, r)
=============================================================================
