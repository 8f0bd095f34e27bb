---------------------------- MODULE LmnRequestQueue ----------------------------
(***************************************************************************)
(* LmnApiRequestQueue: a request to the linuxmuster API is a BullMQ job    *)
(* with three attempts; the caller waits for the end of the job.  The jobs *)
(* are in Redis and outlive the API process, the callers do not.  A        *)
(* request that timed out may still reach the server.                      *)
(***************************************************************************)
EXTENDS Naturals

CONSTANTS
  Requests,     \* calls of enqueue under way
  MaxAttempts,  \* attempts of a job
  MaxStalls     \* times BullMQ runs a job again whose worker died

ASSUME LmnQueueAssumption == MaxAttempts \in Nat \ {0} /\ MaxStalls \in Nat

VARIABLES
  job,      \* the job of a request
  http,     \* the HTTP requests sent for it, one per attempt
  outcome   \* what enqueue returned

queueVars == <<job, http, outcome>>

-----------------------------------------------------------------------------
(* Types.  made: attempts that failed; stalls: attempts whose worker died.   *)

Attempts == 1..(MaxAttempts + MaxStalls)

Job == [state: {"none", "queued", "active"}, made: 0..(MaxAttempts - 1), stalls: 0..MaxStalls]

NoJob == [state |-> "none", made |-> 0, stalls |-> 0]

QueueTypeOK ==
  /\ job \in [Requests -> Job]
  /\ http \in [Requests -> [Attempts -> {"unsent", "travelling", "performed"}]]
  /\ outcome \in [Requests -> {"none", "waiting", "done", "failed", "lost"}]

\* The attempt at a request that is queued or active.
Attempt(r) == job[r].made + job[r].stalls + 1

Travelling(r) == \E a \in Attempts : http[r][a] = "travelling"

\* Nothing of an earlier use of the request is left.
Unused(r) == job[r].state = "none" /\ ~Travelling(r)

QueueInit ==
  /\ job = [r \in Requests |-> NoJob]
  /\ http = [r \in Requests |-> [a \in Attempts |-> "unsent"]]
  /\ outcome = [r \in Requests |-> "none"]

-----------------------------------------------------------------------------
(* Operations *)

\* enqueue: the job is added and awaited.
Enqueue(r) ==
  /\ Unused(r)
  /\ outcome[r] # "waiting"
  /\ job' = [job EXCEPT ![r] = [NoJob EXCEPT !.state = "queued"]]
  /\ http' = [http EXCEPT ![r] = [a \in Attempts |-> "unsent"]]
  /\ outcome' = [outcome EXCEPT ![r] = "waiting"]

\* A worker takes the job, or its backoff is over, and sends the request.
Send(r) ==
  /\ job[r].state = "queued"
  /\ job' = [job EXCEPT ![r].state = "active"]
  /\ http' = [http EXCEPT ![r][Attempt(r)] = "travelling"]
  /\ UNCHANGED outcome

\* The server performs a request, whether or not anybody still waits for it.
PerformRequest(r, a) ==
  /\ http[r][a] = "travelling"
  /\ http' = [http EXCEPT ![r][a] = "performed"]
  /\ UNCHANGED <<job, outcome>>

\* A request nobody waits for any more never reaches the server.
LoseRequest(r, a) ==
  /\ http[r][a] = "travelling"
  /\ job[r].state = "active" => a # Attempt(r)
  /\ http' = [http EXCEPT ![r][a] = "unsent"]
  /\ UNCHANGED <<job, outcome>>

\* What the caller is told at the end of its job, if it is still there.
Told(r, result) == [outcome EXCEPT ![r] = IF @ = "waiting" THEN result ELSE @]

\* Faulty variant: the handler swallows errors, so that every attempt completes the job.
AnsweredOrSwallowed(r) ==
  /\ job[r].state = "active"
  /\ job' = [job EXCEPT ![r] = NoJob]
  /\ outcome' = Told(r, "done")
  /\ UNCHANGED http

\* The answer of the server ends the job.
Answered(r) ==
  /\ job[r].state = "active"
  /\ http[r][Attempt(r)] = "performed"
  /\ job' = [job EXCEPT ![r] = NoJob]
  /\ outcome' = Told(r, "done")
  /\ UNCHANGED http

\* Faulty variant: the failed attempt is counted after the comparison.
AttemptFailedLate(r) ==
  IF job[r].made < MaxAttempts
  THEN /\ job' = [job EXCEPT ![r].state = "queued", ![r].made = @ + 1]
       /\ UNCHANGED outcome
  ELSE /\ job' = [job EXCEPT ![r] = NoJob]
       /\ outcome' = Told(r, "failed")

\* The attempt failed: the job waits for the next one or is over.
AttemptFailed(r) ==
  IF job[r].made + 1 < MaxAttempts
  THEN /\ job' = [job EXCEPT ![r].state = "queued", ![r].made = @ + 1]
       /\ UNCHANGED outcome
  ELSE /\ job' = [job EXCEPT ![r] = NoJob]
       /\ outcome' = Told(r, "failed")

\* The server cannot be reached, or answers with an error and does nothing.
Refused(r) ==
  /\ job[r].state = "active"
  /\ http[r][Attempt(r)] = "travelling"
  /\ http' = [http EXCEPT ![r][Attempt(r)] = "unsent"]
  /\ AttemptFailed(r)

\* No answer within the timeout, though the request may be, or be going to be, performed.
TimedOut(r) ==
  /\ job[r].state = "active"
  /\ AttemptFailed(r)
  /\ UNCHANGED http

\* The API process restarts: nobody waits any more; the jobs that were active
\* have stalled and are run again, or dropped when they stalled before.
QueueRestart ==
  /\ job' = [r \in Requests |->
       IF job[r].state # "active" THEN job[r]
       ELSE IF job[r].stalls < MaxStalls
            THEN [job[r] EXCEPT !.state = "queued", !.stalls = @ + 1]
            ELSE NoJob]
  /\ outcome' = [r \in Requests |-> IF outcome[r] = "waiting" THEN "lost" ELSE outcome[r]]
  /\ UNCHANGED http

\* The steps that neither a caller nor a restart takes and that have no effect yet.
QueueStep(r) ==
  \/ Send(r)
  \/ Answered(r)
  \/ Refused(r)
  \/ TimedOut(r)
  \/ \E a \in Attempts : LoseRequest(r, a)

QueueNext ==
  \/ \E r \in Requests : Enqueue(r) \/ QueueStep(r) \/ \E a \in Attempts : PerformRequest(r, a)
  \/ QueueRestart

QueueSpec == QueueInit /\ [][QueueNext]_queueVars

-----------------------------------------------------------------------------
(* Properties *)

Performed == [r \in Requests |-> {a \in Attempts : http[r][a] = "performed"}]

Promise == INSTANCE RequestPromise WITH performed <- Performed

\* The queue implements the promise its callers rely on, across retries, lost
\* answers and restarts: a result means that the request was performed, and one
\* job is performed at most once per attempt (handleJob, enqueue).
KeepsPromise == Promise!PromiseSpec
=============================================================================
