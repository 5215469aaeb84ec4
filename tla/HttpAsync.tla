----------------------------- MODULE HttpAsync -----------------------------
(***************************************************************************)
(* The submit and poll executor, backend/worker/executors/http_async.py,   *)
(* against a remote task that ends at some time or never.                  *)
(*                                                                         *)
(* Time is discrete and passes only while the executor awaits a reply or   *)
(* sleeps.  httpx applies request_timeout to each phase of a request (the  *)
(* connection, the write, every read), so a reply takes up to Phases times *)
(* request_timeout.  It shows the remote state of some moment between      *)
(* request and reply.  Cancellation ends the call at any await and leaves  *)
(* nothing behind, so it is not an action here.                            *)
(***************************************************************************)
EXTENDS Naturals

CONSTANTS
    MaxTimeout,     \* bound: Job.timeout_sec
    MaxInterval,    \* bound: poll_interval_sec
    RequestCap,     \* the 30 seconds of request_timeout
    Phases,         \* bound: phases of a request that may each take that long
    MaxErrors,      \* bound: polls that fail
    MaxClock        \* bound: time at which the clock stops

ASSUME HttpAsyncAssumption ==
    /\ MaxTimeout \in Nat \ {0}
    /\ MaxInterval \in Nat
    /\ RequestCap \in Nat \ {0}
    /\ Phases \in Nat \ {0}
    /\ MaxErrors \in Nat
    /\ MaxClock \in Nat

VARIABLES
    deadline, poll_interval,    \* locals of execute, which starts at time 0
    clock,
    http_pc, since, wake,       \* where it is; its last request; end of its sleep
    remote, ended_at,           \* the remote state, and since when it is final
    seen,                       \* the remote state when the last poll started
    errors, http_result

httpVars ==
    <<deadline, poll_interval, clock, http_pc, since, wake, remote, ended_at, seen, errors, http_result>>
job == <<deadline, poll_interval>>

ExecResult == {"succeeded", "failed", "timed_out"}
Final == {"succeeded", "failed"}

HttpTypeOK ==
    /\ deadline \in 1..MaxTimeout
    /\ poll_interval \in 0..MaxInterval
    /\ clock \in 0..MaxClock
    /\ http_pc \in {"submit", "check", "poll", "sleep", "done"}
    /\ since \in Nat /\ wake \in Nat /\ ended_at \in Nat
    /\ remote \in Final \union {"running"}
    /\ seen \in Final \union {"running"}
    /\ errors \in 0..MaxErrors
    /\ http_result \in ExecResult \union {"none"}

HttpInit ==
    /\ deadline \in 1..MaxTimeout
    /\ poll_interval \in 0..MaxInterval
    /\ clock = 0
    /\ http_pc = "submit"
    /\ since = 0 /\ wake = 0 /\ ended_at = 0
    /\ remote = "running" /\ seen = "running"
    /\ errors = 0
    /\ http_result = "none"

request_timeout == IF RequestCap < deadline THEN RequestCap ELSE deadline
MaxRequest == Phases * request_timeout

Return(r) == http_pc' = "done" /\ http_result' = r

(* The submission is answered, with a status_url or not; or it fails. *)
Submit ==
    /\ http_pc = "submit"
    /\ \/ http_pc' = "check" /\ UNCHANGED http_result
       \/ Return("failed")
    /\ UNCHANGED <<job, clock, since, wake, remote, ended_at, seen, errors>>

(* Mutant of CheckDeadline: the deadline is not looked at. *)
CheckDeadline_never ==
    /\ http_pc = "check"
    /\ http_pc' = "poll" /\ since' = clock /\ seen' = remote
    /\ UNCHANGED <<job, clock, wake, remote, ended_at, errors, http_result>>

(* The top of the loop: time out, or send the next poll. *)
CheckDeadline ==
    /\ http_pc = "check"
    /\ \/ clock >= deadline /\ Return("timed_out") /\ UNCHANGED <<since, seen>>
       \/ /\ clock < deadline
          /\ http_pc' = "poll" /\ since' = clock /\ seen' = remote
          /\ UNCHANGED http_result
    /\ UNCHANGED <<job, clock, wake, remote, ended_at, errors>>

(* Mutant of Pause: the sleep is not capped. *)
Pause_uncapped ==
    /\ UNCHANGED http_result
    /\ http_pc' = "sleep" /\ wake' = clock + poll_interval

(* Mutant of Pause: the sleep lasts to the deadline. *)
Pause_to_deadline ==
    /\ UNCHANGED http_result
    /\ http_pc' = "sleep" /\ wake' = deadline

(* The bottom of the loop: sleep, but not past the deadline. *)
Pause ==
    /\ UNCHANGED http_result
    /\ \/ clock >= deadline /\ http_pc' = "check" /\ UNCHANGED wake
       \/ /\ clock < deadline
          /\ http_pc' = "sleep"
          /\ wake' = IF clock + poll_interval < deadline THEN clock + poll_interval ELSE deadline

(* A poll is answered, or fails and is as good as unanswered. *)
PollReply ==
    /\ http_pc = "poll"
    /\ \/ /\ \E state \in {seen, remote} :
                \/ state \in Final /\ Return(state) /\ UNCHANGED wake
                \/ state \notin Final /\ Pause
          /\ UNCHANGED errors
       \/ /\ errors < MaxErrors
          /\ errors' = errors + 1
          /\ Pause
    /\ UNCHANGED <<job, clock, since, remote, ended_at, seen>>

Wake ==
    /\ http_pc = "sleep" /\ clock >= wake
    /\ http_pc' = "check"
    /\ UNCHANGED <<job, clock, since, wake, remote, ended_at, seen, errors, http_result>>

RemoteEnds(state) ==
    /\ remote = "running" /\ http_pc # "done"
    /\ remote' = state /\ ended_at' = clock
    /\ UNCHANGED <<job, clock, http_pc, since, wake, seen, errors, http_result>>

ClockTick ==
    /\ clock < MaxClock
    /\ \/ http_pc \in {"submit", "poll"} /\ clock < since + MaxRequest
       \/ http_pc = "sleep" /\ clock < wake
    /\ clock' = clock + 1
    /\ UNCHANGED <<job, http_pc, since, wake, remote, ended_at, seen, errors, http_result>>

HttpExecute == Submit \/ CheckDeadline \/ PollReply \/ Wake

HttpNext == HttpExecute \/ ClockTick \/ \E state \in Final : RemoteEnds(state)

(* Requests end and sleeps are over; and time passes even if poll_interval *)
(* is 0 and every reply is there before the next tick.                     *)
HttpSpec ==
    /\ HttpInit /\ [][HttpNext]_httpVars
    /\ WF_httpVars(HttpExecute) /\ SF_httpVars(ClockTick)

-----------------------------------------------------------------------------
(* Properties.                                                             *)

(* http_async.py: "The overall deadline is the job's timeout_sec".  The    *)
(* executor goes on for at most one request after it: no request is sent   *)
(* at or after the deadline, and no sleep lasts past it.                   *)
OverrunBounded == http_pc # "done" => clock <= deadline + MaxRequest

(* A timeout is not reported for a remote task that ended in good time:    *)
(* one poll interval and one request before the deadline, if no poll       *)
(* failed.                                                                 *)
NoFalseTimeout ==
    (http_result = "timed_out" /\ errors = 0 /\ remote \in Final) =>
        ended_at + poll_interval + MaxRequest >= deadline

(* The executor returns, whatever the remote task does. *)
PollingEnds == <>(http_pc = "done")
=============================================================================
