----------------------------- MODULE ServiceProofs -----------------------------
(***************************************************************************)
(* Theorems about the services that wait for other systems: the two        *)
(* request queues, pairings and their codes, conferences, the permissions  *)
(* of bulletin categories, the images of bulletins, the positions of apps, *)
(* the access to them, and the announcement of new mails.  The services    *)
(* share no variables; each part has an inductive invariant of its own.    *)
(***************************************************************************)
EXTENDS MCServices, Conferences, FiniteSetTheorems, TLAPS

(***************************************************************************)
(* The queue of requests to the LMN API keeps its promise.  The attempts a *)
(* job has yet to make have left no request behind, so a new request never *)
(* hides one that was performed; and a request nobody enqueued has none.   *)
(***************************************************************************)

QueueInv ==
  /\ QueueTypeOK
  /\ \A r \in Requests :
       /\ job[r].state = "queued" => \A a \in Attempts : a >= Attempt(r) => http[r][a] = "unsent"
       /\ job[r].state = "active" => \A a \in Attempts : a > Attempt(r) => http[r][a] = "unsent"
       /\ outcome[r] = "none" => job[r].state = "none" /\ \A a \in Attempts : http[r][a] = "unsent"
       /\ outcome[r] = "done" => \E a \in Attempts : http[r][a] = "performed"

\* The attempt under way is one of those counted.
LEMMA AttemptInRange ==
  ASSUME QueueTypeOK, NEW r \in Requests
  PROVE  /\ Attempt(r) \in Attempts
         /\ job[r] \in Job
         /\ job[r].made \in 0..(MaxAttempts - 1) /\ job[r].stalls \in 0..MaxStalls
BY LmnQueueAssumption DEF QueueTypeOK, Attempt, Attempts, Job

\* The end of a failed attempt: the job is queued for the next one, or over.
LEMMA AttemptFailedEffect ==
  ASSUME QueueInv, NEW r \in Requests, AttemptFailed(r)
  PROVE  /\ job' \in [Requests -> Job]
         /\ \A q \in Requests \ {r} : job'[q] = job[q]
         /\ \/ /\ outcome' = outcome
               /\ job'[r].state = "queued" /\ Attempt(r)' = Attempt(r) + 1
            \/ /\ outcome' = Told(r, "failed")
               /\ job'[r].state = "none"
<1>1. job \in [Requests -> Job] /\ job[r] \in Job
  BY DEF QueueInv, QueueTypeOK
<1>2. CASE job[r].made + 1 < MaxAttempts
  <2>1. job' = [job EXCEPT ![r].state = "queued", ![r].made = @ + 1] /\ outcome' = outcome
    BY <1>2 DEF AttemptFailed
  <2>2. job'[r] = [state |-> "queued", made |-> job[r].made + 1, stalls |-> job[r].stalls]
    BY <1>1, <2>1 DEF Job
  <2>3. job'[r] \in Job
    BY <1>1, <1>2, <2>2, LmnQueueAssumption DEF Job
  <2>4. Attempt(r)' = Attempt(r) + 1
    BY <1>1, <2>2 DEF Attempt, Job
  <2> QED BY <1>1, <2>1, <2>2, <2>3, <2>4
<1>3. CASE ~(job[r].made + 1 < MaxAttempts)
  <2>1. NoJob \in Job
    BY LmnQueueAssumption DEF NoJob, Job
  <2>2. job' = [job EXCEPT ![r] = NoJob] /\ outcome' = Told(r, "failed")
    BY <1>3 DEF AttemptFailed
  <2> QED BY <1>1, <2>1, <2>2 DEF NoJob
<1> QED BY <1>2, <1>3

\* What the callers are told when the job of r ends.
LEMMA ToldOthersKeep ==
  ASSUME QueueInv, NEW r \in Requests, NEW result \in {"done", "failed"}, outcome' = Told(r, result)
  PROVE  /\ outcome' \in [Requests -> {"none", "waiting", "done", "failed", "lost"}]
         /\ \A q \in Requests \ {r} : outcome'[q] = outcome[q]
         /\ outcome'[r] = IF outcome[r] = "waiting" THEN result ELSE outcome[r]
BY DEF QueueInv, QueueTypeOK, Told

LEMMA EnqueueKeeps == ASSUME QueueInv, NEW r \in Requests, Enqueue(r) PROVE QueueInv'
<1>1. NoJob \in Job /\ [NoJob EXCEPT !.state = "queued"] \in Job
  BY LmnQueueAssumption DEF NoJob, Job
<1>2. QueueTypeOK'
  BY <1>1 DEF Enqueue, QueueInv, QueueTypeOK
<1>3. /\ \A q \in Requests \ {r} : job'[q] = job[q] /\ http'[q] = http[q] /\ outcome'[q] = outcome[q]
      /\ outcome'[r] = "waiting" /\ job'[r].state = "queued"
      /\ \A a \in Attempts : http'[r][a] = "unsent"
  BY DEF Enqueue, QueueInv, QueueTypeOK, NoJob
<1>4. \A q \in Requests \ {r} : Attempt(q)' = Attempt(q)
  BY <1>3 DEF Attempt
<1> QED BY <1>2, <1>3, <1>4 DEF QueueInv

LEMMA SendKeeps == ASSUME QueueInv, NEW r \in Requests, Send(r) PROVE QueueInv'
<1>1. QueueTypeOK /\ Attempt(r) \in Attempts /\ job[r] \in Job
  BY AttemptInRange DEF QueueInv
<1>2. job'[r] = [state |-> "active", made |-> job[r].made, stalls |-> job[r].stalls]
  BY <1>1 DEF Send, QueueTypeOK, Job
<1>3. QueueTypeOK'
  BY <1>1, <1>2 DEF Send, QueueTypeOK, Job
<1>4. /\ \A q \in Requests \ {r} : job'[q] = job[q] /\ http'[q] = http[q]
      /\ \A a \in Attempts \ {Attempt(r)} : http'[r][a] = http[r][a]
      /\ http'[r][Attempt(r)] = "travelling"
      /\ outcome' = outcome
  BY <1>1 DEF Send, QueueTypeOK
<1>5. \A q \in Requests : Attempt(q)' = Attempt(q)
  BY <1>2, <1>4 DEF Attempt
<1>6. \A q \in Requests \ {r} :
        /\ job'[q].state = "queued" => \A a \in Attempts : a >= Attempt(q)' => http'[q][a] = "unsent"
        /\ job'[q].state = "active" => \A a \in Attempts : a > Attempt(q)' => http'[q][a] = "unsent"
        /\ outcome'[q] = "none" => job'[q].state = "none" /\ \A a \in Attempts : http'[q][a] = "unsent"
        /\ outcome'[q] = "done" => \E a \in Attempts : http'[q][a] = "performed"
  BY <1>4, <1>5 DEF QueueInv
<1>7. \A a \in Attempts : a > Attempt(r)' => http'[r][a] = "unsent"
  BY <1>1, <1>4, <1>5 DEF QueueInv, Send, Attempts
<1>8. outcome'[r] # "none"
  BY <1>4 DEF QueueInv, Send
<1>9. outcome'[r] = "done" => \E a \in Attempts : http'[r][a] = "performed"
  <2>1. http[r][Attempt(r)] = "unsent"
    BY <1>1, LmnQueueAssumption DEF QueueInv, Send, Attempts
  <2> QED BY <1>4, <2>1 DEF QueueInv
<1> QED BY <1>2, <1>3, <1>6, <1>7, <1>8, <1>9 DEF QueueInv

\* A request to LMN is performed, lost or refused: one that was not performed changes.
LEMMA SlotKeeps ==
  ASSUME QueueInv, NEW r \in Requests, NEW a \in Attempts, NEW mark \in {"unsent", "performed"},
         http[r][a] = "travelling", http' = [http EXCEPT ![r][a] = mark], UNCHANGED <<job, outcome>>
  PROVE  QueueInv'
<1>1. QueueTypeOK'
  BY DEF QueueInv, QueueTypeOK
<1>2. \A q \in Requests : Attempt(q)' = Attempt(q)
  BY DEF Attempt
<1>3. \A q \in Requests : \A b \in Attempts :
        /\ http[q][b] = "unsent" => http'[q][b] = "unsent"
        /\ http[q][b] = "performed" => http'[q][b] = "performed"
  BY DEF QueueInv, QueueTypeOK
<1> QED BY <1>1, <1>2, <1>3 DEF QueueInv

LEMMA AnsweredKeeps == ASSUME QueueInv, NEW r \in Requests, Answered(r) PROVE QueueInv'
<1>1. NoJob \in Job
  BY LmnQueueAssumption DEF NoJob, Job
<1>2. /\ outcome' \in [Requests -> {"none", "waiting", "done", "failed", "lost"}]
      /\ \A q \in Requests \ {r} : outcome'[q] = outcome[q]
      /\ outcome'[r] = IF outcome[r] = "waiting" THEN "done" ELSE outcome[r]
  BY ToldOthersKeep DEF Answered
<1>3. QueueTypeOK'
  BY <1>1, <1>2 DEF QueueInv, QueueTypeOK, Answered
<1>4. \A q \in Requests \ {r} : job'[q] = job[q] /\ Attempt(q)' = Attempt(q)
  BY DEF Answered, QueueInv, QueueTypeOK, Attempt
<1>5. job'[r].state = "none" /\ http' = http
  BY DEF Answered, QueueInv, QueueTypeOK, NoJob
<1>6. \E a \in Attempts : http[r][a] = "performed"
  BY AttemptInRange DEF Answered, QueueInv
<1>7. outcome'[r] # "none"
  BY <1>2 DEF QueueInv, Answered
<1> QED BY <1>2, <1>3, <1>4, <1>5, <1>6, <1>7 DEF QueueInv

LEMMA FailedKeeps ==
  ASSUME QueueInv, NEW r \in Requests, job[r].state = "active", AttemptFailed(r),
         \/ http' = http
         \/ /\ http[r][Attempt(r)] = "travelling"
            /\ http' = [http EXCEPT ![r][Attempt(r)] = "unsent"]
  PROVE  QueueInv'
<1>1. QueueTypeOK /\ Attempt(r) \in Attempts
  BY AttemptInRange DEF QueueInv
<1>2. \A q \in Requests : \A b \in Attempts :
        /\ http[q][b] = "unsent" => http'[q][b] = "unsent"
        /\ http[q][b] = "performed" => http'[q][b] = "performed"
  BY <1>1 DEF QueueTypeOK
<1>3. http' \in [Requests -> [Attempts -> {"unsent", "travelling", "performed"}]]
  BY <1>1, SMTT(40) DEF QueueTypeOK
<1>4. /\ job' \in [Requests -> Job]
      /\ \A q \in Requests \ {r} : job'[q] = job[q] /\ Attempt(q)' = Attempt(q)
      /\ \/ /\ outcome' = outcome
            /\ job'[r].state = "queued" /\ Attempt(r)' = Attempt(r) + 1
         \/ /\ outcome' = Told(r, "failed")
            /\ job'[r].state = "none"
  BY AttemptFailedEffect DEF Attempt
<1>5. /\ outcome' \in [Requests -> {"none", "waiting", "done", "failed", "lost"}]
      /\ \A q \in Requests \ {r} : outcome'[q] = outcome[q]
      /\ outcome'[r] \in {outcome[r], "failed"}
  BY <1>1, <1>4, ToldOthersKeep DEF QueueTypeOK
<1>6. QueueTypeOK'
  BY <1>3, <1>4, <1>5 DEF QueueTypeOK
<1>7. outcome'[r] # "none"
  BY <1>5 DEF QueueInv
<1>8. job'[r].state = "queued" => \A a \in Attempts : a >= Attempt(r)' => http'[r][a] = "unsent"
  BY <1>1, <1>2, <1>4 DEF QueueInv, Attempts
<1>9. \A q \in Requests \ {r} :
        /\ job'[q].state = "queued" => \A a \in Attempts : a >= Attempt(q)' => http'[q][a] = "unsent"
        /\ job'[q].state = "active" => \A a \in Attempts : a > Attempt(q)' => http'[q][a] = "unsent"
        /\ outcome'[q] = "none" => job'[q].state = "none" /\ \A a \in Attempts : http'[q][a] = "unsent"
        /\ outcome'[q] = "done" => \E a \in Attempts : http'[q][a] = "performed"
  BY <1>2, <1>4, <1>5 DEF QueueInv
<1>10. outcome'[r] = "done" => \E a \in Attempts : http'[r][a] = "performed"
  BY <1>2, <1>5 DEF QueueInv
<1>11. job'[r].state # "active"
  BY <1>4
<1> QED BY <1>6, <1>7, <1>8, <1>9, <1>10, <1>11 DEF QueueInv

LEMMA QueueRestartKeeps == ASSUME QueueInv, QueueRestart PROVE QueueInv'
<1>1. NoJob \in Job
  BY LmnQueueAssumption DEF NoJob, Job
<1>2. ASSUME NEW r \in Requests
      PROVE  /\ job'[r] \in Job
             /\ \/ job'[r] = job[r] /\ job[r].state # "active"
                \/ job[r].state = "active" /\ job'[r].state = "queued" /\ Attempt(r)' = Attempt(r) + 1
                \/ job'[r].state = "none"
  <2>1. job[r] \in Job
    BY AttemptInRange DEF QueueInv
  <2>2. CASE job[r].state # "active"
    BY <2>1, <2>2 DEF QueueRestart
  <2>3. CASE job[r].state = "active" /\ job[r].stalls < MaxStalls
    <3>1. job'[r] = [state |-> "queued", made |-> job[r].made, stalls |-> job[r].stalls + 1]
      BY <2>1, <2>3 DEF QueueRestart, Job
    <3> QED BY <2>1, <2>3, <3>1, LmnQueueAssumption DEF Job, Attempt
  <2>4. CASE job[r].state = "active" /\ ~(job[r].stalls < MaxStalls)
    BY <1>1, <2>4 DEF QueueRestart, NoJob
  <2> QED BY <2>2, <2>3, <2>4
<1>3. http' = http /\ \A r \in Requests : outcome'[r] = IF outcome[r] = "waiting" THEN "lost" ELSE outcome[r]
  BY DEF QueueRestart
<1>4. QueueTypeOK'
  BY <1>2 DEF QueueInv, QueueTypeOK, QueueRestart
<1>5. ASSUME NEW r \in Requests
      PROVE  /\ job'[r].state = "queued" => \A a \in Attempts : a >= Attempt(r)' => http'[r][a] = "unsent"
             /\ job'[r].state = "active" => \A a \in Attempts : a > Attempt(r)' => http'[r][a] = "unsent"
             /\ outcome'[r] = "none" => job'[r].state = "none" /\ \A a \in Attempts : http'[r][a] = "unsent"
             /\ outcome'[r] = "done" => \E a \in Attempts : http'[r][a] = "performed"
  <2>1. CASE job'[r] = job[r] /\ job[r].state # "active"
    BY <1>3, <2>1 DEF QueueInv, Attempt
  <2>2. CASE job[r].state = "active" /\ job'[r].state = "queued" /\ Attempt(r)' = Attempt(r) + 1
    <3>1. QueueTypeOK /\ Attempt(r) \in Attempts
      BY AttemptInRange DEF QueueInv
    <3> QED BY <1>3, <2>2, <3>1 DEF QueueInv, Attempts
  <2>3. CASE job'[r].state = "none"
    BY <1>3, <2>3 DEF QueueInv
  <2> QED BY <1>2, <2>1, <2>2, <2>3
<1> QED BY <1>4, <1>5 DEF QueueInv

LEMMA QueueInitHolds == QueueInit => QueueInv
<1>1. QueueInit => QueueTypeOK
  BY LmnQueueAssumption DEF QueueInit, QueueTypeOK, NoJob, Job
<1> QED BY <1>1 DEF QueueInit, QueueInv, NoJob

LEMMA QueueInvKept == ASSUME QueueInv, [QueueNext]_queueVars PROVE QueueInv'
<1>1. ASSUME NEW r \in Requests, Enqueue(r) PROVE QueueInv'
  BY <1>1, EnqueueKeeps
<1>2. ASSUME NEW r \in Requests, NEW a \in Attempts, PerformRequest(r, a) PROVE QueueInv'
  BY <1>2, SlotKeeps DEF PerformRequest
<1>3. ASSUME NEW r \in Requests, NEW a \in Attempts, LoseRequest(r, a) PROVE QueueInv'
  BY <1>3, SlotKeeps DEF LoseRequest
<1>4. ASSUME NEW r \in Requests, Send(r) PROVE QueueInv'
  BY <1>4, SendKeeps
<1>5. ASSUME NEW r \in Requests, Answered(r) PROVE QueueInv'
  BY <1>5, AnsweredKeeps
<1>6. ASSUME NEW r \in Requests, Refused(r) \/ TimedOut(r) PROVE QueueInv'
  BY <1>6, FailedKeeps DEF Refused, TimedOut
<1>7. CASE QueueRestart
  BY <1>7, QueueRestartKeeps
<1>8. CASE UNCHANGED queueVars
  BY <1>8 DEF queueVars, QueueInv, QueueTypeOK, Attempt
<1> QED BY <1>1, <1>2, <1>3, <1>4, <1>5, <1>6, <1>7, <1>8 DEF QueueNext, QueueStep

-----------------------------------------------------------------------------
\* What changed in a step of the queue decides what the promise sees of it.
LEMMA PerformedUnchanged ==
  ASSUME QueueInv, http' \in [Requests -> [Attempts -> {"unsent", "travelling", "performed"}]],
         \A r \in Requests, a \in Attempts : http'[r][a] = "performed" <=> http[r][a] = "performed"
  PROVE  Performed' = Performed
BY DEF Performed

\* The job of a request ends, and the caller is told if it is still there.
LEMMA ToldSeen ==
  ASSUME QueueInv, NEW r \in Requests, Performed' = Performed,
         \/ outcome' = Told(r, "done") /\ \E a \in Attempts : http[r][a] = "performed"
         \/ outcome' = Told(r, "failed")
  PROVE  [Promise!PromiseNext]_(Promise!promiseVars)
<1>1. outcome \in [Requests -> {"none", "waiting", "done", "failed", "lost"}]
  BY DEF QueueInv, QueueTypeOK
<1>2. CASE outcome[r] # "waiting"
  BY <1>1, <1>2 DEF Told, Promise!promiseVars
<1>3. CASE outcome[r] = "waiting" /\ outcome' = Told(r, "failed")
  BY <1>1, <1>3 DEF Told, Promise!PromiseNext, Promise!Fail
<1>4. CASE /\ outcome[r] = "waiting" /\ outcome' = Told(r, "done")
           /\ \E a \in Attempts : http[r][a] = "performed"
  <2>1. Performed[r] # {}
    BY <1>4 DEF Performed
  <2> QED BY <1>1, <1>4, <2>1 DEF Told, Promise!PromiseNext, Promise!Succeed
<1> QED BY <1>2, <1>3, <1>4

LEMMA FailedSeen ==
  ASSUME QueueInv, NEW r \in Requests, Performed' = Performed, AttemptFailed(r)
  PROVE  [Promise!PromiseNext]_(Promise!promiseVars)
<1>1. CASE outcome' = outcome
  BY <1>1 DEF Promise!promiseVars
<1>2. CASE outcome' = Told(r, "failed")
  BY <1>2, ToldSeen
<1> QED BY <1>1, <1>2 DEF AttemptFailed

\* Every step of the queue is a step of the promise, or none.
LEMMA QueueStepsKeepPromise ==
  ASSUME QueueInv, [QueueNext]_queueVars
  PROVE  [Promise!PromiseNext]_(Promise!promiseVars)
<1> USE DEF QueueInv, QueueTypeOK
<1>0. QueueInv'
  BY QueueInvKept
<1>1. ASSUME NEW r \in Requests, Enqueue(r) PROVE Promise!Accept(r)
  <2>1. Performed' = [Performed EXCEPT ![r] = {}]
    BY <1>1, ZenonT(40) DEF Enqueue, Performed
  <2> QED BY <1>1, <2>1 DEF Enqueue, Promise!Accept
<1>2. ASSUME NEW r \in Requests, NEW a \in Attempts, PerformRequest(r, a) PROVE Promise!Perform(r)
  <2>1. http[r][a] = "travelling" /\ http' = [http EXCEPT ![r][a] = "performed"] /\ outcome' = outcome
    BY <1>2 DEF PerformRequest
  <2>2. outcome[r] # "none"
    BY <2>1
  <2>3. Performed' = [Performed EXCEPT ![r] = @ \cup {a}]
    <3>1. \A q \in Requests, b \in Attempts :
            http'[q][b] = IF q = r /\ b = a THEN "performed" ELSE http[q][b]
      BY <2>1
    <3>2. \A q \in Requests : Performed'[q] = IF q = r THEN Performed[q] \cup {a} ELSE Performed[q]
      BY <3>1 DEF Performed
    <3>3. /\ Performed' = [q \in Requests |-> Performed'[q]]
          /\ Performed = [q \in Requests |-> Performed[q]]
      BY DEF Performed
    <3> QED BY <3>2, <3>3
  <2>4. a \in Attempts \ Performed[r]
    BY <2>1 DEF Performed
  <2> QED BY <2>1, <2>2, <2>3, <2>4 DEF Promise!Perform
<1>3. ASSUME NEW r \in Requests, NEW a \in Attempts, LoseRequest(r, a) PROVE UNCHANGED Promise!promiseVars
  <2>1. Performed' = Performed
    BY <1>0, <1>3, PerformedUnchanged DEF LoseRequest
  <2> QED BY <1>3, <2>1 DEF LoseRequest, Promise!promiseVars
<1>4. ASSUME NEW r \in Requests, Send(r) PROVE UNCHANGED Promise!promiseVars
  <2>1. http[r][Attempt(r)] = "unsent" /\ Attempt(r) \in Attempts
    BY <1>4, AttemptInRange, LmnQueueAssumption DEF Send, Attempts
  <2>2. Performed' = Performed
    BY <1>0, <1>4, <2>1, PerformedUnchanged DEF Send
  <2> QED BY <1>4, <2>2 DEF Send, Promise!promiseVars
<1>5. ASSUME NEW r \in Requests, Answered(r) PROVE [Promise!PromiseNext]_(Promise!promiseVars)
  <2>1. \E a \in Attempts : http[r][a] = "performed"
    BY <1>5, AttemptInRange DEF Answered
  <2>2. Performed' = Performed
    BY <1>5 DEF Answered, Performed
  <2> QED BY <1>5, <2>1, <2>2, ToldSeen DEF Answered
<1>6. ASSUME NEW r \in Requests, Refused(r) PROVE [Promise!PromiseNext]_(Promise!promiseVars)
  <2>1. Performed' = Performed
    BY <1>0, <1>6, PerformedUnchanged DEF Refused
  <2> QED BY <1>6, <2>1, FailedSeen DEF Refused
<1>7. ASSUME NEW r \in Requests, TimedOut(r) PROVE [Promise!PromiseNext]_(Promise!promiseVars)
  <2>1. Performed' = Performed
    BY <1>7 DEF TimedOut, Performed
  <2> QED BY <1>7, <2>1, FailedSeen DEF TimedOut
<1>8. ASSUME QueueRestart PROVE Promise!Forget
  BY <1>8 DEF QueueRestart, Promise!Forget, Performed
<1>9. CASE UNCHANGED queueVars
  BY <1>9 DEF queueVars, Promise!promiseVars, Performed
<1> QED BY <1>1, <1>2, <1>3, <1>4, <1>5, <1>6, <1>7, <1>8, <1>9
        DEF QueueNext, QueueStep, Promise!PromiseNext

LEMMA QueueInitIsPromiseInit == QueueInit => Promise!PromiseInit
BY DEF QueueInit, Promise!PromiseInit, Performed

\* A result of the LMN queue means that the request was performed, and a job is
\* performed at most once per attempt, for any number of requests, attempts and
\* restarts (enqueue, handleJob).
THEOREM LmnQueueKeepsPromise == QueueSpec => KeepsPromise
<1>1. QueueInv /\ [QueueNext]_queueVars => QueueInv'
  BY QueueInvKept
<1>2. QueueInv /\ [QueueNext]_queueVars => [Promise!PromiseNext]_(Promise!promiseVars)
  BY QueueStepsKeepPromise
<1> QED BY <1>1, <1>2, QueueInitHolds, QueueInitIsPromiseInit, PTL
        DEF QueueSpec, KeepsPromise, Promise!PromiseSpec

\* The pairings use the queue as its steps allow.
LEMMA PairingStepIsQueueStep == ASSUME [PairingNext]_vars PROVE [QueueNext]_queueVars
<1>1. ASSUME NEW c \in Requests, NEW p \in Pairs, NEW want \in Status, UpdateStatus(c, p, want)
      PROVE  [QueueNext]_queueVars
  BY <1>1 DEF UpdateStatus, QueueNext, queueVars
<1>2. ASSUME NEW c \in Requests, NEW a \in Attempts, LmnPerforms(c, a) PROVE QueueNext
  BY <1>2 DEF LmnPerforms, QueueNext
<1>3. ASSUME NEW c \in Requests, LmnStep(c) PROVE QueueNext
  BY <1>3 DEF LmnStep, QueueNext
<1>4. ASSUME NEW c \in Requests, LmnSucceeded(c) \/ LmnFailed(c) \/ SaveStatus(c) \/ SaveFails(c)
      PROVE  UNCHANGED queueVars
  BY <1>4 DEF LmnSucceeded, LmnFailed, SaveStatus, SaveFails
<1>5. CASE Restart
  BY <1>5 DEF Restart, QueueNext
<1>6. CASE (\E p \in Pairs : CreatePairing(p)) \/ UNCHANGED vars
  BY <1>6 DEF CreatePairing, vars
<1> QED BY <1>1, <1>2, <1>3, <1>4, <1>5, <1>6 DEF PairingNext

\* The queue keeps its promise while pairings use it.
THEOREM PairingsKeepPromise == PairingSpec => KeepsPromise
<1>1. PairingInit => QueueInit
  BY DEF PairingInit
<1>2. QueueInv /\ [QueueNext]_queueVars => QueueInv'
  BY QueueInvKept
<1>3. QueueInv /\ [QueueNext]_queueVars => [Promise!PromiseNext]_(Promise!promiseVars)
  BY QueueStepsKeepPromise
<1>4. [PairingNext]_vars => [QueueNext]_queueVars
  BY PairingStepIsQueueStep
<1> QED BY <1>1, <1>2, <1>3, <1>4, QueueInitHolds, QueueInitIsPromiseInit, PTL
        DEF PairingSpec, KeepsPromise, Promise!PromiseSpec

-----------------------------------------------------------------------------
(***************************************************************************)
(* The status of a pairing and LMN agree unless the pair was disturbed.    *)
(* A call that is alone knows the status, and whether LMN has the relation *)
(* once its request was performed; what is left of a request after its     *)
(* call only repeats what was already done.                                *)
(***************************************************************************)

Asks(c) == AsksLmn(calls[c].want, calls[c].read)

Accepts(c) == calls[c].want = "accepted"

Linked(c) == calls[c].pair \in related

WasPerformed(c) == \E a \in Attempts : http[c][a] = "performed"

\* A call that is under way and alone.
AloneInv(c) ==
  calls[c].pc # "idle" /\ calls[c].alone =>
    /\ \A d \in Requests \ {c} : calls[d].pair = calls[c].pair => ~Working(d)
    /\ status[calls[c].pair] = calls[c].read
    /\ calls[c].pc = "lmn" /\ WasPerformed(c) => (Linked(c) <=> Accepts(c))
    /\ calls[c].pc = "save" /\ Asks(c) => (Linked(c) <=> Accepts(c))

\* A call whose pair is not disturbed, and what is left of one that is over.
CalmInv(c) ==
  calls[c].pair \notin disturbed =>
    /\ calls[c].pc # "idle" => calls[c].alone
    /\ calls[c].pc = "save" /\ ~Asks(c) => Agree(calls[c].pair, calls[c].read)
    /\ calls[c].pc = "idle" /\ Working(c) =>
         /\ status[calls[c].pair] = "accepted" <=> Accepts(c)
         /\ Linked(c) <=> Accepts(c)

CallInv(c) ==
  /\ calls[c].pc = "lmn" => Asks(c)
  /\ calls[c].pc = "save" /\ ~Asks(c) => Unused(c)
  /\ AloneInv(c)
  /\ CalmInv(c)

NoCallFor(p) == \A c \in Requests : calls[c].pair = p => calls[c].pc = "idle"

PairInv(p) == p \notin disturbed /\ NoCallFor(p) => Agree(p, status[p])

PairingInv ==
  /\ QueueInv /\ PairingTypeOK
  /\ \A c \in Requests : CallInv(c)
  /\ \A p \in Pairs : PairInv(p)

-----------------------------------------------------------------------------

LEMMA PairingTypesKept == ASSUME PairingInv, [PairingNext]_vars PROVE PairingTypeOK' /\ QueueInv'
<1> USE DEF PairingTypeOK
<1>0. QueueInv' /\ QueueTypeOK'
  BY QueueInvKept, PairingStepIsQueueStep DEF PairingInv, QueueInv
<1>1. CASE \E p \in Pairs : CreatePairing(p)
  BY <1>0, <1>1 DEF PairingInv, CreatePairing, Status
<1>2. ASSUME NEW c \in Requests, NEW p \in Pairs, NEW want \in Status, UpdateStatus(c, p, want)
      PROVE  PairingTypeOK'
  <2>1. status[p] \in Status
    BY <1>2 DEF UpdateStatus, PairingInv
  <2>2. [pc |-> IF AsksLmn(want, status[p]) THEN "lmn" ELSE "save",
         pair |-> p, want |-> want, read |-> status[p], alone |-> ~Busy(p)] \in Call
    BY <1>2, <2>1 DEF Call, Busy
  <2>3. \A d \in Requests : [calls[d] EXCEPT !.alone = FALSE] \in Call
    BY DEF PairingInv, Call
  <2>4. calls' \in [Requests -> Call]
    BY <1>2, <2>2, <2>3 DEF UpdateStatus, WithCall, PairingInv
  <2> QED BY <1>0, <1>2, <2>4 DEF UpdateStatus, PairingInv
<1>3. ASSUME NEW c \in Requests, NEW a \in Attempts, LmnPerforms(c, a) PROVE PairingTypeOK'
  BY <1>0, <1>3 DEF LmnPerforms, PairingInv, Call
<1>4. ASSUME NEW c \in Requests, LmnStep(c) PROVE PairingTypeOK'
  BY <1>0, <1>4 DEF LmnStep, pairingVars, PairingInv
<1>5. ASSUME NEW c \in Requests, LmnSucceeded(c) \/ LmnFailed(c) \/ SaveFails(c) PROVE PairingTypeOK'
  <2>1. [calls[c] EXCEPT !.pc = "save"] \in Call /\ Ended(c) \in Call
    BY DEF PairingInv, Call, Ended, Status
  <2>2. \/ calls' = [calls EXCEPT ![c] = [calls[c] EXCEPT !.pc = "save"]]
        \/ calls' = [calls EXCEPT ![c] = Ended(c)]
    BY <1>5 DEF LmnSucceeded, LmnFailed, SaveFails
  <2>3. calls' \in [Requests -> Call]
    BY <2>1, <2>2 DEF PairingInv
  <2>4. /\ status' = status /\ related' = related /\ reopened' = reopened
        /\ disturbed' = disturbed \/ disturbed' = disturbed \cup {calls[c].pair}
    BY <1>5 DEF LmnSucceeded, LmnFailed, SaveFails
  <2>5. disturbed' \in SUBSET Pairs
    BY <2>4 DEF PairingInv, Call
  <2> QED BY <1>0, <2>3, <2>4, <2>5 DEF PairingInv
<1>6. ASSUME NEW c \in Requests, SaveStatus(c) PROVE PairingTypeOK'
  <2>1. calls' \in [Requests -> Call] /\ status' \in [Pairs -> Status \cup {"none"}] /\ related' = related
    BY <1>6 DEF SaveStatus, Saved, Ended, PairingInv, Call, Status
  <2>2. calls[c].pair \in Pairs
    BY DEF PairingInv, Call
  <2>3. disturbed' \in SUBSET Pairs /\ reopened' \in SUBSET Pairs
    BY <1>6, <2>2 DEF SaveStatus, PairingInv
  <2> QED BY <1>0, <2>1, <2>3 DEF PairingInv
<1>7. CASE Restart
  <2>1. \A c \in Requests : Ended(c) \in Call
    BY DEF PairingInv, Call, Ended, Status
  <2>2. calls' \in [Requests -> Call]
    BY <1>7, <2>1 DEF Restart
  <2>3. status' = status /\ related' = related /\ reopened' = reopened
    BY <1>7, Zenon DEF Restart
  <2>4. disturbed' \in SUBSET Pairs
    BY <1>7 DEF Restart, PairingInv
  <2> QED BY <1>0, <2>2, <2>3, <2>4 DEF PairingInv
<1>8. CASE UNCHANGED vars
  BY <1>0, <1>8 DEF vars, pairingVars, PairingInv
<1> QED BY <1>0, <1>1, <1>2, <1>3, <1>4, <1>5, <1>6, <1>7, <1>8 DEF PairingNext

\* The parts of the invariant that a step has to restore.
Coherent == (\A c \in Requests : CallInv(c)) /\ (\A p \in Pairs : PairInv(p))

\* What a step of the queue for c leaves of the requests.
LEMMA QueueStepShrinks ==
  ASSUME PairingInv, NEW c \in Requests, QueueStep(c)
  PROVE  \A d \in Requests : /\ Unused(d) => Unused(d)'
                             /\ WasPerformed(d)' => WasPerformed(d)
<1> USE DEF Unused, Travelling, WasPerformed
<1>1. QueueTypeOK /\ Attempt(c) \in Attempts
  BY AttemptInRange DEF PairingInv, QueueInv
<1>2. ~Unused(c)
  BY <1>1 DEF QueueStep, Send, Answered, Refused, TimedOut, LoseRequest
<1>3. \A d \in Requests \ {c} : job'[d] = job[d] /\ http'[d] = http[d]
  BY <1>1 DEF QueueStep, Send, Answered, Refused, TimedOut, LoseRequest, AttemptFailed, QueueTypeOK
<1>4. \A a \in Attempts : http'[c][a] = "performed" => http[c][a] = "performed"
  BY <1>1 DEF QueueStep, Send, Answered, Refused, TimedOut, LoseRequest, AttemptFailed, QueueTypeOK
<1> QED BY <1>2, <1>3, <1>4

LEMMA QueueStepCoherent ==
  ASSUME PairingInv, UNCHANGED pairingVars,
         \A d \in Requests : /\ Unused(d) => Unused(d)'
                             /\ WasPerformed(d)' => WasPerformed(d)
  PROVE  Coherent'
<1>1. ASSUME NEW c \in Requests PROVE CallInv(c)'
  <2>1. CallInv(c)
    BY DEF PairingInv
  <2>2. \A d \in Requests : Working(d)' => Working(d)
    BY DEF Working, pairingVars
  <2>3. AloneInv(c)'
    BY <2>1, <2>2 DEF CallInv, AloneInv, Asks, Accepts, Linked, pairingVars
  <2>4. CalmInv(c)'
    BY <2>1, <2>2 DEF CallInv, CalmInv, Asks, Accepts, Linked, Agree, pairingVars
  <2> QED BY <2>1, <2>3, <2>4 DEF CallInv, Asks, pairingVars
<1>2. ASSUME NEW p \in Pairs PROVE PairInv(p)'
  BY DEF PairingInv, PairInv, NoCallFor, Agree, pairingVars
<1> QED BY <1>1, <1>2 DEF Coherent

LEMMA CreatePairingCoherent ==
  ASSUME PairingInv, NEW p \in Pairs, CreatePairing(p)
  PROVE  Coherent'
<1>1. /\ UNCHANGED <<queueVars, related, calls, disturbed, reopened>>
      /\ \A q \in Pairs : status'[q] = IF q = p THEN "pending" ELSE status[q]
      /\ status[p] = "none"
  BY DEF CreatePairing, PairingInv, PairingTypeOK
<1>2. ASSUME NEW c \in Requests PROVE CallInv(c)'
  <2>1. CallInv(c) /\ calls[c] \in Call
    BY DEF PairingInv, PairingTypeOK
  <2>2. /\ \A d \in Requests : Working(d)' = Working(d)
        /\ Unused(c)' = Unused(c) /\ WasPerformed(c)' = WasPerformed(c)
    BY <1>1 DEF Working, Unused, Travelling, WasPerformed, queueVars
  <2>3. AloneInv(c)'
    BY <1>1, <2>1, <2>2 DEF CallInv, AloneInv, Asks, Accepts, Linked, Call, Status
  <2>4. CalmInv(c)'
    BY <1>1, <2>1, <2>2 DEF CallInv, CalmInv, Asks, Accepts, Linked, Agree, Call
  <2> QED BY <1>1, <2>1, <2>2, <2>3, <2>4 DEF CallInv, Asks
<1>3. ASSUME NEW q \in Pairs PROVE PairInv(q)'
  BY <1>1 DEF PairingInv, PairInv, NoCallFor, Agree
<1> QED BY <1>2, <1>3 DEF Coherent

LEMMA UpdateStatusCoherent ==
  ASSUME PairingInv, NEW c \in Requests, NEW p \in Pairs, NEW want \in Status, UpdateStatus(c, p, want)
  PROVE  Coherent'
<1>1. /\ ~Working(c)
      /\ status' = status /\ related' = related /\ reopened' = reopened
      /\ disturbed' = IF Busy(p) THEN disturbed \cup {p} ELSE disturbed
      /\ calls'[c].pair = p /\ calls'[c].want = want /\ calls'[c].read = status[p]
      /\ calls'[c].alone = ~Busy(p)
      /\ calls'[c].pc = IF AsksLmn(want, status[p]) THEN "lmn" ELSE "save"
  BY DEF UpdateStatus, WithCall
<1>2. ASSUME NEW d \in Requests \ {c}
      PROVE  /\ calls'[d].pc = calls[d].pc /\ calls'[d].pair = calls[d].pair
             /\ calls'[d].want = calls[d].want /\ calls'[d].read = calls[d].read
             /\ calls[d].pair = p => calls'[d].alone = FALSE
             /\ calls[d].pair # p => calls'[d].alone = calls[d].alone
  <2>1. calls[d] \in Call
    BY DEF PairingInv, PairingTypeOK
  <2>2. calls'[d] = IF calls[d].pair = p THEN [calls[d] EXCEPT !.alone = FALSE] ELSE calls[d]
    BY DEF UpdateStatus, WithCall
  <2> QED BY <2>1, <2>2 DEF Call
<1>3. \A d \in Requests \ {c} : job'[d] = job[d] /\ http'[d] = http[d]
  BY DEF UpdateStatus, Enqueue, queueVars, PairingInv, QueueInv, QueueTypeOK
<1>4. \A d \in Requests \ {c} :
        /\ Working(d)' = Working(d) /\ Unused(d)' = Unused(d) /\ WasPerformed(d)' = WasPerformed(d)
  BY <1>2, <1>3, ZenonT(40) DEF Working, Unused, Travelling, WasPerformed
<1>5. AsksLmn(want, status[p]) => ~WasPerformed(c)'
  BY DEF UpdateStatus, Enqueue, WasPerformed, PairingInv, QueueInv, QueueTypeOK
<1>6. ~AsksLmn(want, status[p]) => Unused(c)'
  BY <1>1 DEF UpdateStatus, queueVars, Working, Unused, Travelling
<1>7. ASSUME NEW d \in Requests \ {c} PROVE CallInv(d)'
  <2>1. CallInv(d)
    BY DEF PairingInv
  <2>2. AloneInv(d)'
    BY <1>1, <1>2, <1>4, <2>1, ZenonT(40) DEF CallInv, AloneInv, Asks, Accepts, Linked
  <2>3. CASE calls[d].pair = p
    <3>1. calls'[d].pair \notin disturbed' => ~Working(d)
      BY <1>1, <1>2, <2>3 DEF Busy
    <3>2. CalmInv(d)'
      BY <1>2, <1>4, <3>1 DEF CalmInv, Working
    <3> QED BY <1>2, <1>4, <2>1, <2>2, <3>2 DEF CallInv, Asks
  <2>4. CASE calls[d].pair # p
    <3>1. CalmInv(d)'
      BY <1>1, <1>2, <1>4, <2>1, <2>4 DEF CallInv, CalmInv, Asks, Accepts, Linked, Agree
    <3> QED BY <1>2, <1>4, <2>1, <2>2, <3>1 DEF CallInv, Asks
  <2> QED BY <2>3, <2>4
<1>8. CallInv(c)'
  <2>1. AloneInv(c)'
    BY <1>1, <1>2, <1>4, <1>5, ZenonT(40) DEF AloneInv, Busy, Asks
  <2>2. p \notin disturbed' => Agree(p, status[p])
    BY <1>1 DEF PairingInv, PairInv, NoCallFor, Busy, Working
  <2>3. CalmInv(c)'
    BY <1>1, <2>2 DEF CalmInv, Asks, Agree
  <2> QED BY <1>1, <1>6, <2>1, <2>3 DEF CallInv, Asks
<1>9. ASSUME NEW q \in Pairs PROVE PairInv(q)'
  <2>1. CASE q = p
    BY <1>1, <2>1 DEF PairInv, NoCallFor
  <2>2. CASE q # p
    <3>1. calls[c].pc = "idle"
      BY <1>1 DEF Working
    <3>2. NoCallFor(q)' => NoCallFor(q)
      BY <1>1, <1>2, <2>2, <3>1 DEF NoCallFor
    <3> QED BY <1>1, <2>2, <3>2 DEF PairingInv, PairInv, Agree
  <2> QED BY <2>1, <2>2
<1> QED BY <1>7, <1>8, <1>9 DEF Coherent

LEMMA LmnPerformsCoherent ==
  ASSUME PairingInv, NEW c \in Requests, NEW a \in Attempts, LmnPerforms(c, a)
  PROVE  Coherent'
<1>1. /\ UNCHANGED <<job, outcome, status, calls, disturbed, reopened>>
      /\ http[c][a] = "travelling"
      /\ http' = [http EXCEPT ![c][a] = "performed"]
      /\ related' = IF Accepts(c) THEN related \cup {calls[c].pair} ELSE related \ {calls[c].pair}
  BY DEF LmnPerforms, PerformRequest, Accepts
<1>2. Working(c) /\ ~Unused(c)
  BY <1>1 DEF Working, Unused, Travelling
<1>3. \A d \in Requests : (Unused(d) => Unused(d)') /\ (Working(d)' => Working(d))
  BY <1>1 DEF Working, Unused, Travelling, PairingInv, QueueInv, QueueTypeOK
<1>4. \A d \in Requests \ {c} : WasPerformed(d)' = WasPerformed(d)
  BY <1>1 DEF WasPerformed, PairingInv, QueueInv, QueueTypeOK
<1>5. Linked(c)' <=> Accepts(c)
  BY <1>1 DEF Linked
<1>6. \A q \in Pairs \ {calls[c].pair} : q \in related' <=> q \in related
  BY <1>1
<1>7. CallInv(c)'
  BY <1>1, <1>2, <1>3, <1>5 DEF PairingInv, CallInv, AloneInv, CalmInv, Asks, Accepts, Agree
<1>8. ASSUME NEW d \in Requests \ {c} PROVE CallInv(d)'
  <2>1. CallInv(d) /\ CallInv(c) /\ calls[d] \in Call
    BY DEF PairingInv, PairingTypeOK
  <2>2. CASE calls[d].pair # calls[c].pair
    <3>1. Linked(d)' = Linked(d)
      BY <1>1, <1>6, <2>1, <2>2 DEF Linked, Call
    <3>2. AloneInv(d)' /\ CalmInv(d)'
      BY <1>1, <1>3, <1>4, <2>1, <3>1 DEF CallInv, AloneInv, CalmInv, Asks, Accepts, Agree, Linked
    <3> QED BY <1>1, <1>3, <2>1, <3>2 DEF CallInv, Asks
  <2>3. CASE calls[d].pair = calls[c].pair
    <3>1. ~(calls[d].pc # "idle" /\ calls[d].alone)
      BY <1>2, <2>1, <2>3 DEF CallInv, AloneInv
    <3>2. AloneInv(d)'
      BY <1>1, <3>1 DEF AloneInv
    <3>3. ASSUME calls[d].pair \notin disturbed, calls[d].pc = "idle", Working(d)
          PROVE  Linked(d)' <=> Accepts(d)
      <4>1. calls[c].pc = "idle"
        BY <2>1, <2>3, <3>3 DEF CallInv, AloneInv, CalmInv
      <4>2. status[calls[d].pair] = "accepted" <=> Accepts(c)
        BY <1>2, <2>1, <2>3, <3>3, <4>1 DEF CallInv, CalmInv
      <4>3. status[calls[d].pair] = "accepted" <=> Accepts(d)
        BY <2>1, <3>3 DEF CallInv, CalmInv
      <4> QED BY <1>1, <1>5, <2>3, <4>2, <4>3 DEF Linked
    <3>4. CalmInv(d)'
      BY <1>1, <1>3, <2>1, <3>1, <3>3 DEF CallInv, CalmInv, Asks, Accepts, Agree
    <3> QED BY <1>1, <1>3, <2>1, <3>2, <3>4 DEF CallInv, Asks
  <2> QED BY <2>2, <2>3
<1>9. ASSUME NEW q \in Pairs PROVE PairInv(q)'
  <2>1. CASE q # calls[c].pair
    BY <1>1, <1>6, <2>1 DEF PairingInv, PairInv, NoCallFor, Agree
  <2>2. CASE q = calls[c].pair
    BY <1>1, <1>2, <1>5, <2>2 DEF PairingInv, PairInv, NoCallFor, Agree, CallInv, CalmInv, Linked
  <2> QED BY <2>1, <2>2
<1> QED BY <1>7, <1>8, <1>9 DEF Coherent

LEMMA LmnSucceededCoherent ==
  ASSUME PairingInv, NEW c \in Requests, LmnSucceeded(c)
  PROVE  Coherent'
<1>1. /\ UNCHANGED <<queueVars, status, related, disturbed, reopened>>
      /\ calls[c].pc = "lmn" /\ outcome[c] = "done"
      /\ calls' = [calls EXCEPT ![c].pc = "save"]
  BY DEF LmnSucceeded
<1>2. /\ \A d \in Requests \ {c} : calls'[d] = calls[d]
      /\ calls'[c].pair = calls[c].pair /\ calls'[c].want = calls[c].want
      /\ calls'[c].read = calls[c].read /\ calls'[c].alone = calls[c].alone
      /\ calls'[c].pc = "save"
  BY <1>1 DEF PairingInv, PairingTypeOK, Call
<1>3. \A d \in Requests : /\ Unused(d)' = Unused(d) /\ Working(d)' = Working(d)
                          /\ WasPerformed(d)' = WasPerformed(d)
  BY <1>1, <1>2 DEF Working, Unused, Travelling, WasPerformed, queueVars
<1>4. WasPerformed(c)
  BY <1>1 DEF PairingInv, QueueInv, WasPerformed
<1>5. CallInv(c)'
  BY <1>1, <1>2, <1>3, <1>4 DEF PairingInv, CallInv, AloneInv, CalmInv, Asks, Accepts, Agree, Linked
<1>6. ASSUME NEW d \in Requests \ {c} PROVE CallInv(d)'
  BY <1>1, <1>2, <1>3 DEF PairingInv, CallInv, AloneInv, CalmInv, Asks, Accepts, Agree, Linked
<1>7. ASSUME NEW p \in Pairs PROVE PairInv(p)'
  BY <1>1, <1>2 DEF PairingInv, PairInv, NoCallFor, Agree
<1> QED BY <1>5, <1>6, <1>7 DEF Coherent

LEMMA CallFailsCoherent ==
  ASSUME PairingInv, NEW c \in Requests, LmnFailed(c) \/ SaveFails(c)
  PROVE  Coherent'
<1>1. /\ UNCHANGED <<queueVars, status, related, reopened>>
      /\ calls' = [calls EXCEPT ![c] = Ended(c)]
      /\ disturbed' = disturbed \cup {calls[c].pair}
  BY DEF LmnFailed, SaveFails
<1>2. /\ \A d \in Requests \ {c} : calls'[d] = calls[d]
      /\ calls'[c].pair = calls[c].pair /\ calls'[c].want = calls[c].want
      /\ calls'[c].pc = "idle"
  BY <1>1 DEF PairingInv, PairingTypeOK, Call, Ended
<1>3. \A d \in Requests : /\ Unused(d)' = Unused(d) /\ (Working(d)' => Working(d))
                          /\ WasPerformed(d)' = WasPerformed(d)
  BY <1>1, <1>2 DEF Working, Unused, Travelling, WasPerformed, queueVars
<1>4. CallInv(c)'
  BY <1>1, <1>2 DEF CallInv, AloneInv, CalmInv
<1>5. ASSUME NEW d \in Requests \ {c} PROVE CallInv(d)'
  BY <1>1, <1>2, <1>3 DEF PairingInv, CallInv, AloneInv, CalmInv, Asks, Accepts, Agree, Linked
<1>6. ASSUME NEW p \in Pairs PROVE PairInv(p)'
  BY <1>1, <1>2 DEF PairingInv, PairInv, NoCallFor, Agree
<1> QED BY <1>4, <1>5, <1>6 DEF Coherent

\* A call that is alone, or whose pair is not disturbed, leaves status and LMN in agreement.
LEMMA SaveAgrees ==
  ASSUME PairingInv, NEW c \in Requests, SaveStatus(c), calls[c].pair \notin disturbed'
  PROVE  /\ calls[c].alone
         /\ Agree(calls[c].pair, status[calls[c].pair])'
         /\ Asks(c) => (Linked(c) <=> Accepts(c)) /\ (status'[calls[c].pair] = "accepted" <=> Accepts(c))
         /\ ~Asks(c) => Unused(c)
<1>1. CallInv(c) /\ calls[c] \in Call
  BY DEF PairingInv, PairingTypeOK
<1>2. calls[c].pc = "save"
  BY DEF SaveStatus
<1>3. calls[c].alone
  BY <1>1, <1>2 DEF SaveStatus, SettlesBoth, CallInv, CalmInv
<1>4. status[calls[c].pair] = calls[c].read
  BY <1>1, <1>2, <1>3 DEF CallInv, AloneInv
<1>5. status'[calls[c].pair] = calls[c].want
  BY <1>1, <1>4 DEF SaveStatus, Saved, PairingInv, PairingTypeOK, Call
<1>6. PICK p : p = calls[c].pair
  OBVIOUS
<1>7. status'[p] = calls[c].want /\ related' = related /\ calls'[c].pair = p
  BY <1>5, <1>6 DEF SaveStatus, PairingInv, PairingTypeOK, Call, Ended
<1>8. CASE Asks(c)
  <2>1. Linked(c) <=> Accepts(c)
    BY <1>1, <1>2, <1>3, <1>8 DEF CallInv, AloneInv
  <2>2. p \notin reopened'
    BY <1>3, <1>6, <1>8 DEF SaveStatus, SettlesBoth, Asks, AsksLmn
  <2> QED BY <1>3, <1>6, <1>7, <1>8, <2>1, <2>2 DEF Agree, Linked, Accepts
<1>9. CASE ~Asks(c)
  <2>1. Agree(p, calls[c].read)
    BY <1>1, <1>2, <1>6, <1>9 DEF SaveStatus, SettlesBoth, CallInv, CalmInv, Asks
  <2>2. /\ calls[c].want # "accepted" /\ (calls[c].read = "accepted" => calls[c].want = "pending")
        /\ reopened' = IF calls[c].read = "accepted" THEN reopened \cup {p} ELSE reopened
    BY <1>1, <1>6, <1>9 DEF SaveStatus, SettlesBoth, Asks, AsksLmn, Call, Status
  <2>3. Agree(p, status[p])'
    BY <1>7, <2>1, <2>2 DEF Agree
  <2> QED BY <1>1, <1>2, <1>3, <1>6, <1>7, <1>9, <2>3 DEF CallInv, Agree
<1> QED BY <1>3, <1>8, <1>9

LEMMA SaveStatusCoherent ==
  ASSUME PairingInv, NEW c \in Requests, SaveStatus(c)
  PROVE  Coherent'
<1>1. /\ UNCHANGED <<queueVars, related>>
      /\ calls[c].pc = "save"
      /\ calls' = [calls EXCEPT ![c] = Ended(c)]
      /\ \A q \in Pairs \ {calls[c].pair} :
           /\ status'[q] = status[q]
           /\ q \in disturbed' <=> q \in disturbed
           /\ q \in reopened' <=> q \in reopened
  BY DEF SaveStatus, Saved, PairingInv, PairingTypeOK
<1>2. /\ \A d \in Requests \ {c} : calls'[d] = calls[d]
      /\ calls'[c].pair = calls[c].pair /\ calls'[c].want = calls[c].want
      /\ calls'[c].pc = "idle"
  BY <1>1 DEF PairingInv, PairingTypeOK, Call, Ended
<1>3. \A d \in Requests : /\ Unused(d)' = Unused(d) /\ (Working(d)' => Working(d))
                          /\ WasPerformed(d)' = WasPerformed(d)
  BY <1>1, <1>2 DEF Working, Unused, Travelling, WasPerformed, queueVars
<1>4. CallInv(c)'
  <2>1. calls[c].pair \notin disturbed' /\ Working(c)' => Asks(c)
    BY <1>2, <1>3, SaveAgrees DEF Working
  <2>2. CalmInv(c)'
    BY <1>1, <1>2, <2>1, SaveAgrees DEF CalmInv, Accepts, Linked
  <2> QED BY <1>2, <2>2 DEF CallInv, AloneInv
<1>5. ASSUME NEW d \in Requests \ {c} PROVE CallInv(d)'
  <2>1. CallInv(d) /\ CallInv(c) /\ calls[d] \in Call
    BY DEF PairingInv, PairingTypeOK
  <2>2. CASE calls[d].pair # calls[c].pair
    <3>1. /\ status'[calls[d].pair] = status[calls[d].pair]
          /\ calls[d].pair \in disturbed' <=> calls[d].pair \in disturbed
          /\ calls[d].pair \in reopened' <=> calls[d].pair \in reopened
      BY <1>1, <2>1, <2>2 DEF Call
    <3>2. AloneInv(d)' /\ CalmInv(d)'
      BY <1>1, <1>2, <1>3, <2>1, <3>1 DEF CallInv, AloneInv, CalmInv, Asks, Accepts, Linked, Agree
    <3> QED BY <1>2, <1>3, <2>1, <3>2 DEF CallInv, Asks
  <2>3. CASE calls[d].pair = calls[c].pair
    <3>1. ~(calls[d].pc # "idle" /\ calls[d].alone)
      BY <1>1, <2>1, <2>3 DEF CallInv, AloneInv, Working
    <3>2. AloneInv(d)'
      BY <1>2, <3>1 DEF AloneInv
    <3>3. calls[d].pair \notin disturbed' => ~Working(d)
      BY <1>1, <2>1, <2>3, SaveAgrees DEF CallInv, AloneInv
    <3>4. CalmInv(d)'
      BY <1>2, <1>3, <3>3 DEF CalmInv, Working
    <3> QED BY <1>2, <1>3, <2>1, <3>2, <3>4 DEF CallInv, Asks
  <2> QED BY <2>2, <2>3
<1>6. ASSUME NEW q \in Pairs PROVE PairInv(q)'
  <2>1. CASE q = calls[c].pair
    BY <1>1, <1>2, <2>1, SaveAgrees DEF PairInv, Agree
  <2>2. CASE q # calls[c].pair
    BY <1>1, <1>2, <2>2 DEF PairingInv, PairInv, NoCallFor, Agree
  <2> QED BY <2>1, <2>2
<1> QED BY <1>4, <1>5, <1>6 DEF Coherent

LEMMA RestartCoherent == ASSUME PairingInv, Restart PROVE Coherent'
<1>1. /\ UNCHANGED <<status, related, reopened, http>>
      /\ disturbed' = disturbed \cup {p \in Pairs : Busy(p)}
  BY Zenon DEF Restart, QueueRestart
<1>2. \A c \in Requests : /\ calls'[c].pc = "idle" /\ calls'[c].pair = calls[c].pair
                          /\ calls[c].pair \in Pairs
  BY DEF Restart, PairingInv, PairingTypeOK, Call, Ended
<1>3. \A c \in Requests : job[c].state = "none" => job'[c].state = "none"
  BY DEF Restart, QueueRestart
<1>4. \A c \in Requests : Working(c)' => Working(c)
  BY <1>1, <1>2, <1>3 DEF Working, Unused, Travelling
<1>5. ASSUME NEW c \in Requests PROVE CallInv(c)'
  BY <1>1, <1>2, <1>4 DEF CallInv, AloneInv, CalmInv, Busy
<1>6. ASSUME NEW p \in Pairs PROVE PairInv(p)'
  BY <1>1, <1>2 DEF PairingInv, PairInv, NoCallFor, Agree, Busy, Working
<1> QED BY <1>5, <1>6 DEF Coherent

LEMMA PairingInitHolds == PairingInit => PairingInv
<1> SUFFICES ASSUME PairingInit PROVE PairingInv
  OBVIOUS
<1>1. QueueInv
  BY QueueInitHolds DEF PairingInit
<1>2. ASSUME NEW c \in Requests
      PROVE  /\ calls[c] \in Call
             /\ calls[c].pc = "idle" /\ ~Working(c)
  <2>1. PICK p \in Pairs : calls[c] = [pc |-> "idle", pair |-> p, want |-> "accepted",
                                      read |-> "pending", alone |-> FALSE]
    BY DEF PairingInit
  <2>2. calls[c] \in Call
    BY <2>1 DEF Call, Status
  <2> QED BY <2>1, <2>2 DEF PairingInit, Working, Unused, Travelling, QueueInit, NoJob
<1>3. calls \in [Requests -> Call]
  BY <1>2 DEF PairingInit
<1>4. PairingTypeOK
  BY <1>1, <1>3 DEF PairingInit, PairingTypeOK, QueueInv
<1>5. \A c \in Requests : CallInv(c)
  BY <1>2 DEF CallInv, AloneInv, CalmInv
<1>6. \A p \in Pairs : PairInv(p)
  BY DEF PairingInit, PairInv, Agree
<1> QED BY <1>1, <1>4, <1>5, <1>6 DEF PairingInv

LEMMA PairingInvKept == ASSUME PairingInv, [PairingNext]_vars PROVE PairingInv'
<1>0. PairingTypeOK' /\ QueueInv'
  BY PairingTypesKept
<1>1. CASE \E p \in Pairs : CreatePairing(p)
  BY <1>0, <1>1, CreatePairingCoherent DEF Coherent, PairingInv
<1>2. CASE \E c \in Requests, p \in Pairs, want \in Status : UpdateStatus(c, p, want)
  BY <1>0, <1>2, UpdateStatusCoherent DEF Coherent, PairingInv
<1>3. ASSUME NEW c \in Requests, NEW a \in Attempts, LmnPerforms(c, a) PROVE PairingInv'
  BY <1>0, <1>3, LmnPerformsCoherent DEF Coherent, PairingInv
<1>4. ASSUME NEW c \in Requests, LmnStep(c) PROVE PairingInv'
  <2>1. Coherent'
    BY <1>4, QueueStepShrinks, QueueStepCoherent DEF LmnStep
  <2> QED BY <1>0, <2>1 DEF Coherent, PairingInv
<1>5. ASSUME NEW c \in Requests, LmnSucceeded(c) \/ LmnFailed(c) \/ SaveFails(c) \/ SaveStatus(c)
      PROVE  PairingInv'
  BY <1>0, <1>5, LmnSucceededCoherent, CallFailsCoherent, SaveStatusCoherent DEF Coherent, PairingInv
<1>6. CASE Restart
  BY <1>0, <1>6, RestartCoherent DEF Coherent, PairingInv
<1>7. CASE UNCHANGED vars
  <2>1. \A d \in Requests : Unused(d)' = Unused(d) /\ WasPerformed(d)' = WasPerformed(d)
    BY <1>7 DEF vars, queueVars, Unused, Travelling, WasPerformed
  <2>2. Coherent'
    BY <1>7, <2>1, QueueStepCoherent DEF vars
  <2> QED BY <1>0, <2>2 DEF Coherent, PairingInv
<1> QED BY <1>1, <1>2, <1>3, <1>4, <1>5, <1>6, <1>7 DEF PairingNext

LEMMA PairingInvImplies == PairingInv => AgreeUnlessDisturbed
BY DEF PairingInv, PairInv, NoCallFor, AgreeUnlessDisturbed, Busy, Working

\* With nothing under way for a pair, its pairing is accepted exactly if LMN has the
\* relation, unless updates overlapped, one failed or the process restarted; one made
\* pending from accepted keeps it.  For any number of pairs, calls and attempts
\* (updateParentChildPairingStatus).
THEOREM PairingsAgree == PairingSpec => []AgreeUnlessDisturbed
<1>1. PairingInv /\ [PairingNext]_vars => PairingInv'
  BY PairingInvKept
<1> QED BY <1>1, PairingInitHolds, PairingInvImplies, PTL DEF PairingSpec

-----------------------------------------------------------------------------
(***************************************************************************)
(* The codes of a user whose calls do not overlap are tidy: one call at a  *)
(* time, which knows the user's code and, before it stores a new one, that *)
(* no code resolves to the user any more.                                  *)
(***************************************************************************)

\* No code resolves to the user.
Codeless(u) == \A k \in Codes : userOf[k] # u

CallTidy(c, u) ==
  /\ codeCalls[c].pc \in {"check", "dropCode", "storeUser"} => codeOf[u] = codeCalls[c].code
  /\ codeCalls[c].pc = "dropUser" => codeOf[u] = None
  /\ codeCalls[c].pc \in {"store", "storeUser"} => Codeless(u)

Tidy(u) ==
  /\ \A c, d \in Asking(u) : c = d
  /\ \A c \in Asking(u) : CallTidy(c, u)
  /\ \A k \in Codes : userOf[k] = u =>
       \/ codeOf[u] = k
       \/ \E c \in Asking(u) : codeCalls[c].pc = "dropUser" /\ codeCalls[c].code = k

\* The fields a step relies on are there.
Filled(c) ==
  /\ codeCalls[c].pc # "idle" => codeCalls[c].user \in CodeUsers
  /\ codeCalls[c].pc \in {"check", "dropCode", "dropUser", "storeUser"} => codeCalls[c].code \in Codes

CodesInv ==
  /\ CodesTypeOK
  /\ \A c \in CodeCalls : Filled(c)
  /\ \A u \in CodeUsers \ overlapped : Tidy(u)

LEMMA CodesInitHolds == CodesInit => CodesInv
<1> SUFFICES ASSUME CodesInit PROVE CodesInv
  OBVIOUS
<1>1. IdleCall \in CodeCall
  BY DEF IdleCall, CodeCall
<1>2. CodesTypeOK
  BY <1>1 DEF CodesInit, CodesTypeOK
<1>3. \A c \in CodeCalls : Filled(c)
  BY DEF CodesInit, Filled, IdleCall
<1>4. \A u \in CodeUsers : Tidy(u)
  BY CodesAssumption DEF CodesInit, Tidy, Asking, IdleCall
<1> QED BY <1>2, <1>3, <1>4 DEF CodesInv

LEMMA CodesTypesKept == ASSUME CodesInv, [CodesNext]_codeVars PROVE CodesTypeOK' /\ \A c \in CodeCalls : Filled(c)'
<1> USE DEF CodesTypeOK
<1>0. CodesTypeOK /\ (\A c \in CodeCalls : Filled(c)) /\ IdleCall \in CodeCall
  BY DEF CodesInv, IdleCall, CodeCall
<1>1. ASSUME NEW c \in CodeCalls, NEW u \in CodeUsers, NEW refresh \in BOOLEAN, AskCode(c, u, refresh)
      PROVE  CodesTypeOK' /\ \A d \in CodeCalls : Filled(d)'
  <2>1. [pc |-> "read", user |-> u, code |-> None, refresh |-> refresh] \in CodeCall
    BY DEF CodeCall
  <2>2. overlapped' \in SUBSET CodeUsers
    BY <1>0, <1>1 DEF AskCode, OverlappedOnAsk
  <2> QED BY <1>0, <1>1, <2>1, <2>2 DEF AskCode, Filled
<1>2. ASSUME NEW c \in CodeCalls, ReadCode(c) \/ DropCode(c)
      PROVE  CodesTypeOK' /\ \A d \in CodeCalls : Filled(d)'
  BY <1>0, <1>2 DEF ReadCode, DropCode, Filled, CodeCall
<1>3. ASSUME NEW c \in CodeCalls, CheckCode(c)
      PROVE  CodesTypeOK' /\ \A d \in CodeCalls : Filled(d)'
  <2>1. [codeCalls[c] EXCEPT !.pc = "store", !.code = None] \in CodeCall
    BY <1>0 DEF CodeCall
  <2>2. codeCalls'[c] \in {IdleCall, [codeCalls[c] EXCEPT !.pc = "store", !.code = None]}
    BY <1>0, <1>3 DEF CheckCode
  <2>3. CodesTypeOK' /\ \A d \in CodeCalls \ {c} : codeCalls'[d] = codeCalls[d]
    BY <1>0, <1>3, <2>1 DEF CheckCode
  <2>4. Filled(c)'
    BY <1>0, <1>3, <2>2 DEF CheckCode, Filled, CodeCall, IdleCall
  <2> QED BY <1>0, <2>3, <2>4 DEF Filled
<1>4. ASSUME NEW c \in CodeCalls, DropUser(c)
      PROVE  CodesTypeOK' /\ \A d \in CodeCalls : Filled(d)'
  BY <1>0, <1>4 DEF DropUser, UserDropped, Filled, CodeCall
<1>5. ASSUME NEW c \in CodeCalls, StoreCode(c)
      PROVE  CodesTypeOK' /\ \A d \in CodeCalls : Filled(d)'
  <2>1. PICK k \in Codes : /\ codeOf' = [codeOf EXCEPT ![codeCalls[c].user] = k]
                           /\ codeCalls' = [codeCalls EXCEPT ![c].pc = "storeUser", ![c].code = k]
    BY <1>5 DEF StoreCode, NewCodes
  <2> QED BY <1>0, <1>5, <2>1, ZenonT(40) DEF StoreCode, Filled, CodeCall
<1>6. ASSUME NEW c \in CodeCalls, StoreUser(c) \/ CallEnds(c)
      PROVE  CodesTypeOK' /\ \A d \in CodeCalls : Filled(d)'
  <2>1. codeCalls' = [codeCalls EXCEPT ![c] = IdleCall]
    BY <1>6 DEF StoreUser, CallEnds
  <2>2. userOf' \in [Codes -> CodeUsers \cup {None}] /\ overlapped' \in SUBSET CodeUsers
    BY <1>0, <1>6 DEF StoreUser, CallEnds, Filled
  <2>3. \A d \in CodeCalls : Filled(d)'
    BY <1>0, <2>1 DEF Filled, IdleCall
  <2> QED BY <1>0, <1>6, <2>1, <2>2, <2>3 DEF StoreUser, CallEnds
<1>7. CASE \/ \E u \in CodeUsers : CodeExpires(u)
           \/ \E k \in Codes : UserExpires(k)
           \/ UNCHANGED codeVars
  BY <1>0, <1>7 DEF CodeExpires, UserExpires, codeVars, Filled
<1> QED BY <1>1, <1>2, <1>3, <1>4, <1>5, <1>6, <1>7 DEF CodesNext

\* Nothing of the user changed but that a code may not resolve any more.
LEMMA TidyKept ==
  ASSUME CodesInv, NEW v \in CodeUsers, Tidy(v),
         codeOf'[v] = codeOf[v],
         \A c \in CodeCalls : codeCalls'[c] = codeCalls[c] \/ (c \notin Asking(v) /\ c \notin Asking(v)'),
         \A k \in Codes : userOf'[k] = v => userOf[k] = v
  PROVE  Tidy(v)'
<1>1. \A c \in CodeCalls : c \in Asking(v)' <=> c \in Asking(v)
  BY DEF Asking
<1>2. \A c \in Asking(v) : codeCalls'[c] = codeCalls[c]
  BY DEF Asking
<1>3. \A c, d \in Asking(v)' : c = d
  BY <1>1 DEF Tidy, Asking
<1>4. \A c \in Asking(v)' : CallTidy(c, v)'
  BY <1>1, <1>2 DEF Tidy, Asking, CallTidy, Codeless
<1>5. \A k \in Codes : userOf'[k] = v =>
        \/ codeOf'[v] = k
        \/ \E c \in Asking(v)' : codeCalls'[c].pc = "dropUser" /\ codeCalls'[c].code = k
  BY <1>1, <1>2 DEF Tidy, Asking
<1> QED BY <1>3, <1>4, <1>5 DEF Tidy

\* The user of the call that made the step.
LEMMA TidyOfCaller ==
  ASSUME CodesInv, NEW c \in CodeCalls, NEW u \in CodeUsers, codeCalls[c].user = u, codeCalls[c].pc # "idle",
         \A d \in CodeCalls \ {c} : codeCalls'[d] = codeCalls[d],
         codeCalls'[c].pc = "idle" \/ codeCalls'[c].user = u,
         Tidy(u),
         codeCalls'[c].pc # "idle" => CallTidy(c, u)',
         \A k \in Codes : userOf'[k] = u =>
           \/ codeOf'[u] = k
           \/ codeCalls'[c].user = u /\ codeCalls'[c].pc = "dropUser" /\ codeCalls'[c].code = k
  PROVE  Tidy(u)'
<1>1. Asking(u) = {c}
  BY DEF Tidy, Asking
<1>2. Asking(u)' \subseteq {c} /\ (codeCalls'[c].user = u /\ codeCalls'[c].pc # "idle" => c \in Asking(u)')
  BY <1>1 DEF Asking
<1>3. \A d \in Asking(u)' : d = c /\ codeCalls'[c].pc # "idle"
  BY <1>2 DEF Asking
<1> QED BY <1>2, <1>3 DEF Tidy

LEMMA AskCodeTidy ==
  ASSUME CodesInv, NEW c \in CodeCalls, NEW u \in CodeUsers, NEW refresh \in BOOLEAN, AskCode(c, u, refresh)
  PROVE  \A v \in CodeUsers \ overlapped' : Tidy(v)'
<1>1. /\ codeCalls[c].pc = "idle" /\ codeOf' = codeOf /\ userOf' = userOf
      /\ codeCalls'[c] = [pc |-> "read", user |-> u, code |-> None, refresh |-> refresh]
      /\ \A d \in CodeCalls \ {c} : codeCalls'[d] = codeCalls[d]
  BY DEF AskCode, CodesInv, CodesTypeOK
<1>2. ASSUME NEW v \in CodeUsers \ overlapped', v # u PROVE Tidy(v)'
  <2>1. Tidy(v)
    BY <1>2 DEF CodesInv, AskCode, OverlappedOnAsk
  <2> QED BY <1>1, <1>2, <2>1, TidyKept DEF Asking
<1>3. ASSUME u \notin overlapped' PROVE Tidy(u)'
  <2>1. Asking(u) = {}
    BY <1>3 DEF AskCode, OverlappedOnAsk
  <2>2. Asking(u)' = {c}
    BY <1>1, <2>1 DEF Asking
  <2>3. Codeless(u) \/ u \notin overlapped
    BY <1>3, <2>1 DEF AskCode, OverlappedOnAsk, Codeless
  <2>4. \A k \in Codes : userOf[k] = u => codeOf[u] = k
    BY <2>1, <2>3 DEF CodesInv, Tidy, Codeless
  <2> QED BY <1>1, <2>2, <2>4 DEF Tidy, CallTidy
<1> QED BY <1>2, <1>3

\* A step of a call leaves the other users tidy.
LEMMA OthersTidy ==
  ASSUME CodesInv, NEW c \in CodeCalls, NEW u \in CodeUsers, codeCalls[c].user = u, codeCalls[c].pc # "idle",
         \A d \in CodeCalls \ {c} : codeCalls'[d] = codeCalls[d],
         codeCalls'[c].pc = "idle" \/ codeCalls'[c].user = u,
         \A v \in CodeUsers \ {u} : /\ codeOf'[v] = codeOf[v]
                                    /\ v \notin overlapped' => v \notin overlapped
                                    /\ \A k \in Codes : userOf'[k] = v => userOf[k] = v
  PROVE  \A v \in CodeUsers \ overlapped' : v # u => Tidy(v)'
<1> SUFFICES ASSUME NEW v \in CodeUsers \ overlapped', v # u PROVE Tidy(v)'
  OBVIOUS
<1>1. Tidy(v)
  BY DEF CodesInv
<1>2. \A d \in CodeCalls : codeCalls'[d] = codeCalls[d] \/ (d \notin Asking(v) /\ d \notin Asking(v)')
  BY DEF Asking
<1> QED BY <1>1, <1>2, TidyKept

LEMMA CallStepTidy ==
  ASSUME CodesInv, NEW c \in CodeCalls,
         \/ ReadCode(c) \/ CheckCode(c) \/ DropCode(c) \/ DropUser(c)
         \/ StoreCode(c) \/ StoreUser(c) \/ CallEnds(c)
  PROVE  \A v \in CodeUsers \ overlapped' : Tidy(v)'
<1>0. CodesTypeOK /\ Filled(c) /\ codeCalls[c] \in CodeCall
  BY DEF CodesInv, CodesTypeOK
<1>pc. codeCalls[c].pc # "idle"
  BY DEF ReadCode, CheckCode, DropCode, DropUser, StoreCode, StoreUser, CallEnds
<1>u. PICK u \in CodeUsers : u = codeCalls[c].user
  BY <1>0, <1>pc DEF Filled
<1>1. codeCalls[c].pc # "idle" /\ u = codeCalls[c].user
  BY <1>pc, <1>u
<1>2. \A d \in CodeCalls \ {c} : codeCalls'[d] = codeCalls[d]
  BY <1>0 DEF ReadCode, CheckCode, DropCode, DropUser, StoreCode, StoreUser, CallEnds, CodesTypeOK
<1>3. codeCalls'[c].pc = "idle" \/ codeCalls'[c].user = u
  <2>1. CASE ReadCode(c) \/ DropCode(c) \/ DropUser(c)
    BY <1>0, <1>1, <2>1 DEF ReadCode, DropCode, DropUser, CodesTypeOK, CodeCall
  <2>2. CASE StoreUser(c) \/ CallEnds(c)
    BY <1>0, <1>1, <2>2 DEF StoreUser, CallEnds, CodesTypeOK, CodeCall, IdleCall
  <2>3. CASE CheckCode(c)
    <3>1. codeCalls'[c] = IF userOf[codeCalls[c].code] # None THEN IdleCall
                          ELSE [codeCalls[c] EXCEPT !.pc = "store", !.code = None]
      BY <1>0, <2>3 DEF CheckCode, CodesTypeOK
    <3> QED BY <1>0, <1>1, <3>1 DEF CodeCall, IdleCall
  <2>4. CASE StoreCode(c)
    <3>1. PICK k \in Codes : codeCalls' = [codeCalls EXCEPT ![c].pc = "storeUser", ![c].code = k]
      BY <2>4 DEF StoreCode, NewCodes
    <3> QED BY <1>0, <1>1, <3>1 DEF CodesTypeOK, CodeCall
  <2> QED BY <2>1, <2>2, <2>3, <2>4
<1>4. \A v \in CodeUsers \ {u} :
        /\ codeOf'[v] = codeOf[v]
        /\ v \notin overlapped' => v \notin overlapped
        /\ \A k \in Codes : userOf'[k] = v => userOf[k] = v
  BY <1>0, <1>1, CodesAssumption
     DEF ReadCode, CheckCode, DropCode, DropUser, UserDropped, StoreCode, StoreUser, CallEnds, CodesTypeOK, Filled
<1>5. \A v \in CodeUsers \ overlapped' : v # u => Tidy(v)'
  BY <1>1, <1>2, <1>3, <1>4, OthersTidy
<1>6. ASSUME u \notin overlapped' PROVE Tidy(u)'
  <2>0. Tidy(u) /\ CallTidy(c, u) /\ Asking(u) = {c} /\ u \notin overlapped
    <3>1. u \notin overlapped
      BY <1>6 DEF ReadCode, CheckCode, DropCode, DropUser, StoreCode, StoreUser, CallEnds
    <3> QED BY <1>1, <3>1 DEF CodesInv, Tidy, Asking
  <2>1. \A k \in Codes : userOf[k] = u =>
          codeOf[u] = k \/ (codeCalls[c].pc = "dropUser" /\ codeCalls[c].code = k)
    BY <2>0 DEF Tidy
  <2> SUFFICES /\ codeCalls'[c].pc # "idle" => CallTidy(c, u)'
               /\ \A k \in Codes : userOf'[k] = u =>
                    \/ codeOf'[u] = k
                    \/ codeCalls'[c].user = u /\ codeCalls'[c].pc = "dropUser" /\ codeCalls'[c].code = k
    BY <1>1, <1>2, <1>3, <2>0, TidyOfCaller
  <2>2. CASE ReadCode(c)
    <3>1. /\ codeOf' = codeOf /\ userOf' = userOf
          /\ codeCalls'[c].code = codeOf[u]
          /\ codeCalls'[c].pc = IF codeOf[u] = None THEN "store"
                                ELSE IF codeCalls[c].refresh THEN "dropCode" ELSE "check"
          /\ codeCalls[c].pc = "read"
      BY <1>0, <1>1, <2>2 DEF ReadCode, CodesTypeOK, CodeCall
    <3>2. codeOf[u] = None => Codeless(u)
      BY <2>1, <3>1, CodesAssumption DEF Codeless
    <3>3. CallTidy(c, u)'
      BY <3>1, <3>2 DEF CallTidy, Codeless
    <3> QED BY <2>1, <3>1, <3>3
  <2>3. CASE CheckCode(c)
    <3>1. /\ codeOf' = codeOf /\ userOf' = userOf /\ codeCalls[c].pc = "check"
          /\ \/ codeCalls'[c].pc = "idle"
             \/ codeCalls'[c].pc = "store" /\ userOf[codeCalls[c].code] = None
      BY <1>0, <1>1, <2>3 DEF CheckCode, CodesTypeOK, CodeCall, IdleCall
    <3>2. userOf[codeCalls[c].code] = None => Codeless(u)
      BY <1>1, <2>0, <2>1, <3>1, CodesAssumption DEF Codeless, CallTidy
    <3>3. codeCalls'[c].pc # "idle" => CallTidy(c, u)'
      BY <3>1, <3>2 DEF CallTidy, Codeless
    <3> QED BY <2>1, <3>1, <3>3
  <2>4. CASE DropCode(c)
    <3>1. /\ codeOf'[u] = None /\ userOf' = userOf /\ codeCalls[c].pc = "dropCode"
          /\ codeCalls'[c].pc = "dropUser" /\ codeCalls'[c].code = codeCalls[c].code /\ codeCalls'[c].user = u
      BY <1>0, <1>1, <2>4 DEF DropCode, CodesTypeOK, CodeCall
    <3>2. CallTidy(c, u)'
      BY <3>1 DEF CallTidy
    <3> QED BY <2>0, <2>1, <3>1, <3>2 DEF CallTidy
  <2>5. CASE DropUser(c)
    <3>1. /\ codeOf' = codeOf /\ codeCalls[c].pc = "dropUser" /\ codeCalls'[c].pc = "store"
          /\ codeCalls[c].code \in Codes /\ userOf' = [userOf EXCEPT ![codeCalls[c].code] = None]
      BY <1>0, <1>1, <2>5 DEF DropUser, UserDropped, CodesTypeOK, CodeCall, Filled
    <3>2. Codeless(u)'
      BY <1>0, <1>1, <2>0, <2>1, <3>1, CodesAssumption DEF Codeless, CallTidy, CodesTypeOK
    <3>3. CallTidy(c, u)'
      BY <3>1, <3>2 DEF CallTidy
    <3> QED BY <3>2, <3>3 DEF Codeless
  <2>6. CASE StoreCode(c)
    <3>1. /\ userOf' = userOf /\ codeCalls[c].pc = "store" /\ codeCalls'[c].pc = "storeUser"
          /\ codeOf'[u] = codeCalls'[c].code
      <4>1. PICK k \in Codes : /\ codeOf' = [codeOf EXCEPT ![codeCalls[c].user] = k]
                               /\ codeCalls' = [codeCalls EXCEPT ![c].pc = "storeUser", ![c].code = k]
        BY <2>6 DEF StoreCode, NewCodes
      <4> QED BY <1>0, <1>1, <2>6, <4>1 DEF StoreCode, CodesTypeOK, CodeCall
    <3>2. Codeless(u)'
      BY <2>0, <3>1 DEF Codeless, CallTidy
    <3>3. CallTidy(c, u)'
      BY <3>1, <3>2 DEF CallTidy
    <3> QED BY <3>2, <3>3 DEF Codeless
  <2>7. CASE StoreUser(c)
    <3>1. /\ codeOf' = codeOf /\ codeCalls[c].pc = "storeUser" /\ codeCalls'[c].pc = "idle"
          /\ userOf' = [userOf EXCEPT ![codeCalls[c].code] = u]
      BY <1>0, <1>1, <2>7 DEF StoreUser, CodesTypeOK, CodeCall, IdleCall
    <3> QED BY <1>0, <1>1, <2>0, <2>1, <3>1 DEF CallTidy, CodesTypeOK
  <2>8. CASE CallEnds(c)
    BY <1>1, <1>6, <2>8 DEF CallEnds
  <2> QED BY <2>2, <2>3, <2>4, <2>5, <2>6, <2>7, <2>8
<1> QED BY <1>5, <1>6

LEMMA CodesInvKept == ASSUME CodesInv, [CodesNext]_codeVars PROVE CodesInv'
<1>0. CodesTypeOK' /\ \A c \in CodeCalls : Filled(c)'
  BY CodesTypesKept
<1>1. CASE \E c \in CodeCalls, u \in CodeUsers, refresh \in BOOLEAN : AskCode(c, u, refresh)
  BY <1>0, <1>1, AskCodeTidy DEF CodesInv
<1>2. CASE \E c \in CodeCalls :
             \/ ReadCode(c) \/ CheckCode(c) \/ DropCode(c) \/ DropUser(c)
             \/ StoreCode(c) \/ StoreUser(c) \/ CallEnds(c)
  BY <1>0, <1>2, CallStepTidy DEF CodesInv
<1>3. CASE \/ \E u \in CodeUsers : CodeExpires(u)
           \/ \E k \in Codes : UserExpires(k)
           \/ UNCHANGED codeVars
  <2>1. ASSUME NEW v \in CodeUsers \ overlapped' PROVE Tidy(v)'
    <3>1. v \notin overlapped /\ codeOf'[v] = codeOf[v] /\ codeCalls' = codeCalls
      BY <1>3 DEF CodeExpires, UserExpires, codeVars, CodesInv, CodesTypeOK
    <3>2. \A k \in Codes : userOf'[k] = v => userOf[k] = v
      BY <1>3, CodesAssumption DEF CodeExpires, UserExpires, codeVars, CodesInv, CodesTypeOK
    <3> QED BY <3>1, <3>2, TidyKept DEF CodesInv
  <2> QED BY <1>0, <1>1, <2>1 DEF CodesInv
<1> QED BY <1>1, <1>2, <1>3 DEF CodesNext

LEMMA CodesInvImplies == CodesInv => OldCodesOnlyByOverlap
BY CodesAssumption DEF CodesInv, CodesTypeOK, Tidy, OldCodesOnlyByOverlap

\* A code that is not the user's current one no longer resolves, unless calls of the
\* user overlapped, one died or its first entry expired, for any number of users,
\* codes and calls (refreshCode, resolveCode).
THEOREM OldCodesGone == CodesSpec => []OldCodesOnlyByOverlap
<1>1. CodesInv /\ [CodesNext]_codeVars => CodesInv'
  BY CodesInvKept
<1> QED BY <1>1, CodesInitHolds, CodesInvImplies, PTL DEF CodesSpec

-----------------------------------------------------------------------------
(***************************************************************************)
(* The notification of a removed conference.  Whoever starts a conference  *)
(* that was removed meanwhile was noticed when it was removed.             *)
(***************************************************************************)

\* The passes of the interval never get to the steps of requests.
PassOnly(m) ==
  /\ confCalls[m].kind \in {"list", "pass"}
  /\ confCalls[m].pc \in {"idle", "ask", "update"}
  /\ confCalls[m].pc # "idle" => confCalls[m].kind = "pass"

StartNoticed(c) ==
  confCalls[c].kind = "start" /\ confCalls[c].pc # "idle" /\ conferences[confCalls[c].meeting] = "removed"
    => confCalls[c].meeting \in unswept

ConfInv ==
  /\ ConfTypeOK
  /\ \A m \in Meetings : PassOnly(m)
  /\ \A c \in ConfCalls : StartNoticed(c)
  /\ OrphanOnlyByOverlap

LEMMA IdleConfTyped == IdleConf \in ConfCall
BY DEF IdleConf, ConfCall

LEMMA ConfInitHolds == ConfInit => ConfInv
<1> SUFFICES ASSUME ConfInit PROVE ConfInv
  OBVIOUS
<1>1. ConfTypeOK
  BY IdleConfTyped, ConfAssumption DEF ConfInit, ConfTypeOK, IdleConf
<1>2. (\A m \in Meetings : PassOnly(m)) /\ (\A c \in ConfCalls : StartNoticed(c))
  BY DEF ConfInit, PassOnly, StartNoticed, IdleConf, AllCalls
<1>3. OrphanOnlyByOverlap
  BY DEF ConfInit, OrphanOnlyByOverlap
<1> QED BY <1>1, <1>2, <1>3 DEF ConfInv

\* Only the call c changes, to a step of its own.
Moves(c, pc) ==
  /\ \A d \in AllCalls \ {c} : confCalls'[d] = confCalls[d]
  /\ confCalls'[c].pc = pc /\ confCalls'[c].kind = confCalls[c].kind
  /\ confCalls'[c].meeting = confCalls[c].meeting
  /\ confCalls' \in [AllCalls -> ConfCall]

LEMMA GoesToMoves ==
  ASSUME ConfTypeOK, NEW c \in AllCalls,
         NEW pc \in {"idle", "ask", "bbb", "update", "notify", "delete", "cascade"}, GoesTo(c, pc)
  PROVE  Moves(c, pc)
BY DEF ConfTypeOK, GoesTo, Moves, ConfCall

\* The call c is over.
IsOver(c) ==
  /\ \A d \in AllCalls \ {c} : confCalls'[d] = confCalls[d]
  /\ confCalls'[c] = IdleConf
  /\ confCalls' \in [AllCalls -> ConfCall]

LEMMA EndsIsOver == ASSUME ConfTypeOK, NEW c \in AllCalls, Ends(c) PROVE IsOver(c)
BY IdleConfTyped DEF ConfTypeOK, Ends, IsOver

\* A call begins.
HasBegun(c, kind, m, pc) ==
  /\ confCalls[c].pc = "idle"
  /\ \A d \in AllCalls \ {c} : confCalls'[d] = confCalls[d]
  /\ confCalls'[c] = [pc |-> pc, kind |-> kind, meeting |-> m, seen |-> FALSE]
  /\ confCalls' \in [AllCalls -> ConfCall]

LEMMA BeginsHasBegun ==
  ASSUME ConfTypeOK, NEW c \in AllCalls, NEW m \in Meetings,
         NEW kind \in {"start", "stop", "list", "pass", "remove"}, NEW pc \in {"ask", "delete"},
         Begins(c, kind, m, pc)
  PROVE  HasBegun(c, kind, m, pc)
<1>1. [pc |-> pc, kind |-> kind, meeting |-> m, seen |-> FALSE] \in ConfCall
  BY DEF ConfCall
<1> QED BY <1>1 DEF ConfTypeOK, Begins, HasBegun, At

\* What is left to show of a step that changes neither the documents nor the notifications.
LEMMA QuietStep ==
  ASSUME ConfInv, NEW c \in AllCalls, UNCHANGED <<conferences, notified, unswept>>,
         confCalls[c].pc # "cascade",
         \A d \in AllCalls \ {c} : confCalls'[d] = confCalls[d],
         confCalls'[c].kind = "start" /\ confCalls'[c].pc # "idle" =>
           \/ conferences[confCalls'[c].meeting] # "removed"
           \/ confCalls'[c].meeting \in unswept
  PROVE  (\A d \in ConfCalls : StartNoticed(d)') /\ OrphanOnlyByOverlap'
<1>1. \A d \in ConfCalls : StartNoticed(d)'
  BY DEF ConfInv, StartNoticed, AllCalls
<1>2. OrphanOnlyByOverlap'
  BY DEF ConfInv, OrphanOnlyByOverlap, At, AllCalls
<1> QED BY <1>1, <1>2

LEMMA BeginningsKeep ==
  ASSUME ConfInv,
         \/ \E m \in Meetings : BeginPass(m)
         \/ \E c \in ConfCalls, m \in Meetings :
              (\E kind \in {"start", "stop", "list"} : Request(c, m, kind)) \/ BeginRemove(c, m)
  PROVE  ConfInv'
<1>1. PICK c \in AllCalls, m \in Meetings, kind \in {"start", "stop", "list", "pass", "remove"}, pc \in {"ask", "delete"} :
        /\ Begins(c, kind, m, pc)
        /\ \/ c \in ConfCalls /\ Stored(m)
           \/ c = m /\ kind = "pass" /\ pc = "ask"
        /\ UNCHANGED <<conferences, bbb, notified, confRestarts, unswept>>
  BY DEF BeginPass, Request, BeginRemove, AllCalls
<1>2. HasBegun(c, kind, m, pc)
  BY <1>1, BeginsHasBegun DEF ConfInv
<1>3. ConfTypeOK'
  BY <1>1, <1>2 DEF ConfInv, ConfTypeOK, HasBegun
<1>4. \A n \in Meetings : PassOnly(n)'
  BY <1>1, <1>2, ConfAssumption DEF ConfInv, PassOnly, HasBegun, AllCalls
<1>5. (\A d \in ConfCalls : StartNoticed(d)') /\ OrphanOnlyByOverlap'
  BY <1>1, <1>2, QuietStep DEF HasBegun, Stored
<1> QED BY <1>3, <1>4, <1>5 DEF ConfInv

LEMMA AskBbbKeeps == ASSUME ConfInv, NEW c \in AllCalls, AskBbb(c) PROVE ConfInv'
<1>1. ConfTypeOK /\ confCalls[c] \in ConfCall /\ confCalls[c].pc = "ask"
  BY DEF ConfInv, ConfTypeOK, AskBbb, At
<1>2. PICK runs \in BOOLEAN :
        confCalls' = [confCalls EXCEPT ![c].seen = runs, ![c].pc = NextAfterAsk(confCalls[c].kind, runs)]
  BY DEF AskBbb
<1>3. NextAfterAsk(confCalls[c].kind, runs) \in {"idle", "update", "bbb"}
  BY DEF NextAfterAsk
<1>4. Moves(c, NextAfterAsk(confCalls[c].kind, runs))
  BY <1>1, <1>2, <1>3 DEF ConfTypeOK, Moves, ConfCall
<1>5. UNCHANGED <<conferences, bbb, notified, confRestarts, unswept>>
  BY DEF AskBbb
<1>6. ConfTypeOK'
  BY <1>1, <1>4, <1>5 DEF ConfTypeOK, Moves
<1>7. \A m \in Meetings : PassOnly(m)'
  BY <1>1, <1>4 DEF ConfInv, PassOnly, Moves, AllCalls, NextAfterAsk
<1>8. (\A d \in ConfCalls : StartNoticed(d)') /\ OrphanOnlyByOverlap'
  <2>1. confCalls[c].kind = "start" => c \in ConfCalls
    BY DEF ConfInv, PassOnly, AllCalls
  <2>2. confCalls[c].kind = "start" =>
          conferences[confCalls[c].meeting] # "removed" \/ confCalls[c].meeting \in unswept
    BY <1>1, <2>1 DEF ConfInv, StartNoticed
  <2> QED BY <1>1, <1>4, <1>5, <2>2, QuietStep DEF Moves
<1> QED BY <1>6, <1>7, <1>8 DEF ConfInv

LEMMA ChangeBbbKeeps == ASSUME ConfInv, NEW c \in AllCalls, ChangeBbb(c) PROVE ConfInv'
<1>1. ConfTypeOK /\ confCalls[c] \in ConfCall /\ confCalls[c].pc = "bbb" /\ confCalls[c].meeting \in Meetings
  BY DEF ConfInv, ConfTypeOK, ChangeBbb, At
<1>2. PICK pc \in {"update", "notify"} : GoesTo(c, pc)
  BY DEF ChangeBbb
<1>3. Moves(c, pc)
  BY <1>1, <1>2, GoesToMoves
<1>4. UNCHANGED <<conferences, notified, confRestarts, unswept>> /\ bbb' \in SUBSET Meetings
  BY <1>1 DEF ChangeBbb, ConfTypeOK
<1>5. ConfTypeOK'
  BY <1>1, <1>3, <1>4 DEF ConfTypeOK, Moves
<1>6. c \in ConfCalls
  BY <1>1 DEF ConfInv, PassOnly, AllCalls
<1>7. \A m \in Meetings : PassOnly(m)'
  BY <1>3, <1>6, ConfAssumption DEF ConfInv, PassOnly, Moves, AllCalls
<1>8. (\A d \in ConfCalls : StartNoticed(d)') /\ OrphanOnlyByOverlap'
  <2>1. confCalls[c].kind = "start" =>
          conferences[confCalls[c].meeting] # "removed" \/ confCalls[c].meeting \in unswept
    BY <1>1, <1>6 DEF ConfInv, StartNoticed
  <2> QED BY <1>1, <1>3, <1>4, <2>1, QuietStep DEF Moves
<1> QED BY <1>5, <1>7, <1>8 DEF ConfInv

\* The flag is written, or the conference is not there any more.
LEMMA UpdateFlagKeeps == ASSUME ConfInv, NEW c \in AllCalls, UpdateFlag(c) PROVE ConfInv'
<1>1. ConfTypeOK /\ confCalls[c] \in ConfCall /\ confCalls[c].pc = "update" /\ confCalls[c].meeting \in Meetings
  BY DEF ConfInv, ConfTypeOK, UpdateFlag, At
<1>2. /\ UNCHANGED <<bbb, notified, confRestarts, unswept>>
      /\ conferences' \in [Meetings -> {"none", "stopped", "running", "removed"}]
      /\ \A m \in Meetings : conferences'[m] = "removed" <=> conferences[m] = "removed"
  BY <1>1 DEF UpdateFlag, ConfTypeOK, Stored, Written
<1>3. \/ IsOver(c)
      \/ Moves(c, "notify") /\ confCalls[c].kind \in {"start", "stop"}
  BY <1>1, GoesToMoves, EndsIsOver DEF UpdateFlag
<1>4. ConfTypeOK'
  BY <1>1, <1>2, <1>3 DEF ConfTypeOK, Moves, IsOver, IdleConf
<1>5. \A m \in Meetings : PassOnly(m)'
  BY <1>1, <1>3 DEF ConfInv, PassOnly, Moves, IsOver, IdleConf, AllCalls
<1>6. \A d \in ConfCalls : StartNoticed(d)'
  <2>1. ASSUME NEW d \in ConfCalls, confCalls'[d].kind = "start", confCalls'[d].pc # "idle"
        PROVE  /\ confCalls[d].kind = "start" /\ confCalls[d].pc # "idle"
               /\ confCalls'[d].meeting = confCalls[d].meeting /\ confCalls[d].meeting \in Meetings
    BY <1>1, <1>3, <2>1 DEF Moves, IsOver, IdleConf, AllCalls, ConfTypeOK
  <2> QED BY <1>2, <2>1 DEF ConfInv, StartNoticed
<1>7. OrphanOnlyByOverlap'
  BY <1>1, <1>2, <1>3 DEF ConfInv, ConfTypeOK, OrphanOnlyByOverlap, At, Moves, IsOver, AllCalls
<1> QED BY <1>4, <1>5, <1>6, <1>7 DEF ConfInv

LEMMA NotifyKeeps == ASSUME ConfInv, NEW c \in AllCalls, Notify(c) PROVE ConfInv'
<1>1. ConfTypeOK /\ confCalls[c] \in ConfCall /\ confCalls[c].pc = "notify" /\ confCalls[c].meeting \in Meetings
  BY DEF ConfInv, ConfTypeOK, Notify, At
<1>2. /\ UNCHANGED <<conferences, bbb, confRestarts, unswept>>
      /\ \/ notified' = notified
         \/ confCalls[c].kind = "start" /\ notified' = notified \cup {confCalls[c].meeting}
  BY DEF Notify
<1>3. IsOver(c)
  BY <1>1, EndsIsOver DEF Notify
<1>4. ConfTypeOK'
  BY <1>1, <1>2, <1>3 DEF ConfTypeOK, IsOver, IdleConf
<1>5. \A m \in Meetings : PassOnly(m)'
  BY <1>3 DEF ConfInv, PassOnly, IsOver, IdleConf, AllCalls
<1>6. \A d \in ConfCalls : StartNoticed(d)'
  BY <1>2, <1>3 DEF ConfInv, StartNoticed, IsOver, IdleConf, AllCalls
<1>7. ASSUME NEW m \in notified', conferences'[m] = "removed"
      PROVE  m \in unswept \/ \E d \in ConfCalls : confCalls'[d].meeting = m /\ confCalls'[d].pc = "cascade"
  <2>1. CASE m \in notified
    BY <1>1, <1>2, <1>3, <1>7, <2>1 DEF ConfInv, OrphanOnlyByOverlap, At, IsOver, AllCalls
  <2>2. CASE m = confCalls[c].meeting /\ confCalls[c].kind = "start"
    <3>1. c \in ConfCalls
      BY <2>2 DEF ConfInv, PassOnly, AllCalls
    <3> QED BY <1>1, <1>2, <1>7, <2>2, <3>1 DEF ConfInv, StartNoticed
  <2> QED BY <1>2, <1>7, <2>1, <2>2
<1> QED BY <1>2, <1>4, <1>5, <1>6, <1>7 DEF ConfInv, OrphanOnlyByOverlap, At

LEMMA DeleteConferenceKeeps == ASSUME ConfInv, NEW c \in AllCalls, DeleteConference(c) PROVE ConfInv'
<1> DEFINE m == confCalls[c].meeting
<1>1. ConfTypeOK /\ confCalls[c] \in ConfCall /\ confCalls[c].pc = "delete" /\ m \in Meetings
  BY DEF ConfInv, ConfTypeOK, DeleteConference, At
<1>2. c \in ConfCalls
  BY <1>1 DEF ConfInv, PassOnly, AllCalls
<1>3. UNCHANGED <<bbb, notified, confRestarts>>
  BY DEF DeleteConference
<1>4. CASE Stored(m)
  <2>1. /\ conferences' = [conferences EXCEPT ![m] = "removed"]
        /\ unswept' = IF Starting(m) THEN unswept \cup {m} ELSE unswept
        /\ GoesTo(c, "cascade")
    BY <1>4 DEF DeleteConference
  <2>2. Moves(c, "cascade")
    BY <1>1, <2>1, GoesToMoves
  <2>3. ConfTypeOK'
    BY <1>1, <1>3, <2>1, <2>2 DEF ConfTypeOK, Moves
  <2>4. \A n \in Meetings : PassOnly(n)'
    BY <1>2, <2>2, ConfAssumption DEF ConfInv, PassOnly, Moves, AllCalls
  <2>5. ASSUME NEW d \in ConfCalls PROVE StartNoticed(d)'
    <3>1. CASE d = c
      <4>1. confCalls[c].kind = "start" => Starting(m)
        BY <1>1, <1>2 DEF Starting
      <4> QED BY <1>1, <2>1, <2>2, <3>1, <4>1 DEF StartNoticed, Moves
    <3>2. CASE d # c
      <4>1. confCalls'[d] = confCalls[d]
        BY <2>2, <3>2 DEF Moves, AllCalls
      <4>2. CASE confCalls[d].meeting = m
        <5>1. confCalls[d].kind = "start" /\ confCalls[d].pc # "idle" => Starting(m)
          BY <4>2 DEF Starting
        <5> QED BY <2>1, <4>1, <4>2, <5>1 DEF StartNoticed
      <4>3. CASE confCalls[d].meeting # m
        BY <1>1, <2>1, <4>1, <4>3 DEF ConfInv, StartNoticed, ConfTypeOK
      <4> QED BY <4>2, <4>3
    <3> QED BY <3>1, <3>2
  <2>6. ASSUME NEW n \in notified, conferences'[n] = "removed"
        PROVE  n \in unswept' \/ \E d \in ConfCalls : confCalls'[d].meeting = n /\ confCalls'[d].pc = "cascade"
    <3>1. CASE n = m
      BY <1>2, <2>2, <3>1 DEF Moves
    <3>2. CASE n # m
      <4>1. conferences[n] = "removed"
        BY <1>1, <2>1, <2>6, <3>2 DEF ConfTypeOK
      <4> QED BY <1>1, <2>1, <2>2, <3>2, <4>1 DEF ConfInv, OrphanOnlyByOverlap, At, Moves, AllCalls
    <3> QED BY <3>1, <3>2
  <2> QED BY <1>3, <2>3, <2>4, <2>5, <2>6 DEF ConfInv, OrphanOnlyByOverlap, At
<1>5. CASE ~Stored(m)
  <2>1. IsOver(c) /\ UNCHANGED <<conferences, unswept>>
    BY <1>1, <1>5, EndsIsOver DEF DeleteConference
  <2>2. ConfTypeOK'
    BY <1>1, <1>3, <2>1 DEF ConfTypeOK, IsOver, IdleConf
  <2>3. \A n \in Meetings : PassOnly(n)'
    BY <2>1 DEF ConfInv, PassOnly, IsOver, IdleConf, AllCalls
  <2>4. (\A d \in ConfCalls : StartNoticed(d)') /\ OrphanOnlyByOverlap'
    BY <1>1, <1>3, <2>1, QuietStep DEF IsOver, IdleConf
  <2> QED BY <2>2, <2>3, <2>4 DEF ConfInv
<1> QED BY <1>4, <1>5

LEMMA CascadeKeeps == ASSUME ConfInv, NEW c \in AllCalls, Cascade(c) PROVE ConfInv'
<1> DEFINE m == confCalls[c].meeting
<1>1. ConfTypeOK /\ confCalls[c] \in ConfCall /\ confCalls[c].pc = "cascade" /\ m \in Meetings
  BY DEF ConfInv, ConfTypeOK, Cascade, At
<1>2. /\ UNCHANGED <<conferences, bbb, confRestarts>>
      /\ \/ notified' = notified \ {m} /\ unswept' = unswept
         \/ unswept' = unswept \cup {m} /\ notified' = notified
  BY DEF Cascade, Cascaded
<1>3. IsOver(c)
  BY <1>1, EndsIsOver DEF Cascade
<1>4. ConfTypeOK'
  BY <1>1, <1>2, <1>3 DEF ConfTypeOK, IsOver, IdleConf
<1>5. \A n \in Meetings : PassOnly(n)'
  BY <1>3 DEF ConfInv, PassOnly, IsOver, IdleConf, AllCalls
<1>6. \A d \in ConfCalls : StartNoticed(d)'
  BY <1>2, <1>3 DEF ConfInv, StartNoticed, IsOver, IdleConf, AllCalls
<1>7. ASSUME NEW n \in notified', conferences'[n] = "removed"
      PROVE  n \in unswept' \/ \E d \in ConfCalls : confCalls'[d].meeting = n /\ confCalls'[d].pc = "cascade"
  <2>1. CASE n = m
    BY <1>2, <1>7, <2>1
  <2>2. CASE n # m
    BY <1>2, <1>3, <1>7, <2>2 DEF ConfInv, OrphanOnlyByOverlap, At, IsOver, AllCalls
  <2> QED BY <2>1, <2>2
<1> QED BY <1>4, <1>5, <1>6, <1>7 DEF ConfInv, OrphanOnlyByOverlap, At

LEMMA ConfRestartKeeps == ASSUME ConfInv, ConfRestart PROVE ConfInv'
<1>1. ConfTypeOK'
  BY IdleConfTyped, ConfAssumption DEF ConfInv, ConfTypeOK, ConfRestart, IdleConf
<1>2. (\A m \in Meetings : PassOnly(m)') /\ (\A c \in ConfCalls : StartNoticed(c)')
  BY DEF ConfRestart, PassOnly, StartNoticed, IdleConf, AllCalls
<1>3. OrphanOnlyByOverlap'
  BY DEF ConfInv, ConfTypeOK, ConfRestart, OrphanOnlyByOverlap, At
<1> QED BY <1>1, <1>2, <1>3 DEF ConfInv

LEMMA ConfInvKept == ASSUME ConfInv, [ConfNext]_confVars PROVE ConfInv'
<1>1. ASSUME NEW m \in Meetings, CreateConference(m) \/ MeetingEnds(m) PROVE ConfInv'
  <2>1. /\ UNCHANGED <<notified, confCalls, confRestarts, unswept>>
        /\ conferences' \in [Meetings -> {"none", "stopped", "running", "removed"}]
        /\ \A n \in Meetings : conferences'[n] = "removed" => conferences[n] = "removed"
        /\ bbb' \in SUBSET Meetings
    BY <1>1 DEF CreateConference, MeetingEnds, ConfInv, ConfTypeOK
  <2>2. ConfTypeOK'
    BY <2>1 DEF ConfInv, ConfTypeOK
  <2>3. \A n \in Meetings : PassOnly(n)'
    BY <2>1 DEF ConfInv, PassOnly
  <2>4. \A c \in ConfCalls : StartNoticed(c)'
    BY <2>1 DEF ConfInv, ConfTypeOK, StartNoticed, AllCalls
  <2>5. OrphanOnlyByOverlap'
    BY <2>1 DEF ConfInv, ConfTypeOK, OrphanOnlyByOverlap, At
  <2> QED BY <2>2, <2>3, <2>4, <2>5 DEF ConfInv
<1>2. CASE \/ \E m \in Meetings : BeginPass(m)
           \/ \E c \in ConfCalls, m \in Meetings :
                (\E kind \in {"start", "stop", "list"} : Request(c, m, kind)) \/ BeginRemove(c, m)
  BY <1>2, BeginningsKeep
<1>3. ASSUME NEW c \in AllCalls, CallStep(c) PROVE ConfInv'
  BY <1>3, AskBbbKeeps, ChangeBbbKeeps, UpdateFlagKeeps, NotifyKeeps, DeleteConferenceKeeps, CascadeKeeps DEF CallStep
<1>4. CASE ConfRestart
  BY <1>4, ConfRestartKeeps
<1>5. CASE UNCHANGED confVars
  BY <1>5 DEF confVars, ConfInv, ConfTypeOK, PassOnly, StartNoticed, OrphanOnlyByOverlap, At
<1> QED BY <1>1, <1>2, <1>3, <1>4, <1>5 DEF ConfNext

\* The calls of conferences always have a meeting, and the flag one of its values.
THEOREM ConferencesTyped == ConfSpec => []ConfTypeOK
<1>1. ConfInv /\ [ConfNext]_confVars => ConfInv'
  BY ConfInvKept
<1>2. ConfInv => ConfTypeOK
  BY DEF ConfInv
<1> QED BY <1>1, <1>2, ConfInitHolds, PTL DEF ConfSpec

\* A removed conference keeps no notification, unless somebody was starting it when it
\* was removed, the deletion failed or the process restarted before it, for any number
\* of conferences and requests (remove, startConference).
THEOREM OrphansOnlyByOverlap == ConfSpec => []OrphanOnlyByOverlap
<1>1. ConfInv /\ [ConfNext]_confVars => ConfInv'
  BY ConfInvKept
<1>2. ConfInv => OrphanOnlyByOverlap
  BY DEF ConfInv
<1> QED BY <1>1, <1>2, ConfInitHolds, PTL DEF ConfSpec

-----------------------------------------------------------------------------
(***************************************************************************)
(* The queue of requests to Keycloak keeps the same promise: the requests  *)
(* of the attempts to come have left nothing behind.                       *)
(***************************************************************************)

KcMarks == {"unsent", "travelling", "performed"}

\* The requests to come have left nothing behind, and the caller knows no more than is so.
KcFresh(r) ==
  /\ kcJob[r].state \in {"queued", "refresh"} =>
       \A a \in Sends : a >= SendNumber(r) => kcHttp[r][a] = "unsent"
  /\ Awaiting(r) => \A a \in Sends : a > SendNumber(r) => kcHttp[r][a] = "unsent"
  /\ kcOutcome[r] = "none" => kcJob[r].state = "none" /\ \A a \in Sends : kcHttp[r][a] = "unsent"
  /\ kcOutcome[r] = "done" => \E a \in Sends : kcHttp[r][a] = "performed"

KcInv == KcTypeOK /\ \A r \in KcRequests : KcFresh(r)

\* The number of the request under way is one of those counted.
LEMMA SendNumberInRange ==
  ASSUME KcTypeOK, NEW r \in KcRequests
  PROVE  /\ SendNumber(r) \in Sends
         /\ kcJob[r] \in KcJob
         /\ kcJob[r].made \in 0..(KcAttempts - 1) /\ kcJob[r].stalls \in 0..KcStalls
BY KcAssumption DEF KcTypeOK, SendNumber, Sends, KcJob

LEMMA NoKcJobTyped == NoKcJob \in KcJob /\ [NoKcJob EXCEPT !.state = "queued"] \in KcJob
BY KcAssumption DEF NoKcJob, KcJob

\* Only r is touched: what holds of the other requests still does.
LEMMA KcOthersFresh ==
  ASSUME KcInv, NEW r \in KcRequests,
         \A q \in KcRequests \ {r} :
           kcJob'[q] = kcJob[q] /\ kcHttp'[q] = kcHttp[q] /\ kcOutcome'[q] = kcOutcome[q]
  PROVE  \A q \in KcRequests \ {r} : KcFresh(q)'
BY DEF KcInv, KcFresh, Awaiting, SendNumber

\* What is performed stays so, and what was not sent stays so.
KcHttpKept(r) ==
  /\ kcHttp' \in [KcRequests -> [Sends -> KcMarks]]
  /\ \A q \in KcRequests \ {r} : kcHttp'[q] = kcHttp[q]
  /\ \A a \in Sends : /\ kcHttp[r][a] = "unsent" => kcHttp'[r][a] = "unsent"
                      /\ kcHttp[r][a] = "performed" <=> kcHttp'[r][a] = "performed"

LEMMA KcErrorsKeepHttp ==
  ASSUME KcTypeOK, NEW r \in KcRequests, TurnedDown(r) \/ ErrorAnswer(r) \/ UNCHANGED kcHttp
  PROVE  KcHttpKept(r)
<1> USE DEF KcTypeOK, KcHttpKept, KcMarks
<1>1. SendNumber(r) \in Sends
  BY SendNumberInRange
<1>2. CASE UNCHANGED kcHttp
  BY <1>2
<1>3. CASE /\ kcHttp[r][SendNumber(r)] # "performed"
           /\ kcHttp' = [kcHttp EXCEPT ![r][SendNumber(r)] = "unsent"]
  BY <1>1, <1>3
<1>4. CASE ErrorAnswer(r)
  <2>1. CASE kcHttp[r][SendNumber(r)] = "performed"
    <3>1. kcHttp' = kcHttp
      BY <1>1, <1>4, <2>1 DEF ErrorAnswer
    <3> QED BY <3>1
  <2>2. CASE kcHttp[r][SendNumber(r)] # "performed"
    <3>1. kcHttp' = [kcHttp EXCEPT ![r][SendNumber(r)] = "unsent"]
      BY <1>4, <2>2 DEF ErrorAnswer
    <3> QED BY <1>1, <2>2, <3>1
  <2> QED BY <2>1, <2>2
<1> QED BY <1>2, <1>3, <1>4 DEF TurnedDown

\* The end of a failed attempt.
LEMMA KcAttemptFailsEffect ==
  ASSUME KcTypeOK, NEW r \in KcRequests, KcAttemptFails(r)
  PROVE  /\ kcJob' \in [KcRequests -> KcJob]
         /\ \A q \in KcRequests \ {r} : kcJob'[q] = kcJob[q]
         /\ \/ /\ kcOutcome' = kcOutcome
               /\ kcJob'[r].state = "queued" /\ SendNumber(r)' > SendNumber(r)
            \/ /\ kcOutcome' = KcTold(r, "failed")
               /\ kcJob'[r].state = "none"
<1>1. kcJob \in [KcRequests -> KcJob] /\ kcJob[r] \in KcJob
  BY DEF KcTypeOK
<1>2. CASE kcJob[r].made + 1 < KcAttempts
  <2>1. kcJob' = [kcJob EXCEPT ![r].state = "queued", ![r].made = @ + 1] /\ kcOutcome' = kcOutcome
    BY <1>2 DEF KcAttemptFails
  <2>2. kcJob'[r] = [state |-> "queued", made |-> kcJob[r].made + 1, stalls |-> kcJob[r].stalls]
    BY <1>1, <2>1 DEF KcJob
  <2>3. kcJob'[r] \in KcJob
    BY <1>1, <1>2, <2>2, KcAssumption DEF KcJob
  <2>4. SendNumber(r)' > SendNumber(r)
    BY <1>1, <2>2 DEF SendNumber, KcJob
  <2> QED BY <1>1, <2>1, <2>2, <2>3, <2>4
<1>3. CASE ~(kcJob[r].made + 1 < KcAttempts)
  <2>1. kcJob' = [kcJob EXCEPT ![r] = NoKcJob] /\ kcOutcome' = KcTold(r, "failed")
    BY <1>3 DEF KcAttemptFails
  <2> QED BY <1>1, <2>1, NoKcJobTyped DEF NoKcJob
<1> QED BY <1>2, <1>3

LEMMA KcToldOthersKeep ==
  ASSUME KcTypeOK, NEW r \in KcRequests, NEW result \in {"done", "failed"}, kcOutcome' = KcTold(r, result)
  PROVE  /\ kcOutcome' \in [KcRequests -> {"none", "waiting", "done", "failed", "lost"}]
         /\ \A q \in KcRequests \ {r} : kcOutcome'[q] = kcOutcome[q]
         /\ kcOutcome'[r] = IF kcOutcome[r] = "waiting" THEN result ELSE kcOutcome[r]
BY DEF KcTypeOK, KcTold

LEMMA KcEnqueueKeeps == ASSUME KcInv, NEW r \in KcRequests, KcEnqueue(r) PROVE KcInv'
<1>1. KcTypeOK'
  BY NoKcJobTyped DEF KcEnqueue, KcInv, KcFresh, KcTypeOK
<1>2. \A q \in KcRequests \ {r} :
        kcJob'[q] = kcJob[q] /\ kcHttp'[q] = kcHttp[q] /\ kcOutcome'[q] = kcOutcome[q]
  BY DEF KcEnqueue, KcInv, KcFresh, KcTypeOK
<1>3. KcFresh(r)'
  BY DEF KcEnqueue, KcInv, KcTypeOK, NoKcJob, KcFresh, Awaiting
<1> QED BY <1>1, <1>2, <1>3, KcOthersFresh DEF KcInv

\* A request is sent, first or again.
LEMMA KcSentKeeps ==
  ASSUME KcInv, NEW r \in KcRequests, NEW mark \in {"unsent", "travelling"}, NEW state \in {"sent", "resent"},
         kcJob[r].state = (IF state = "sent" THEN "queued" ELSE "refresh"),
         kcJob' = [kcJob EXCEPT ![r].state = state],
         kcHttp' = [kcHttp EXCEPT ![r][SendNumber(r)] = mark],
         kcOutcome' = kcOutcome, ready' \in BOOLEAN, token' \in BOOLEAN
  PROVE  KcInv'
<1>1. KcTypeOK /\ SendNumber(r) \in Sends /\ kcJob[r] \in KcJob
  BY SendNumberInRange DEF KcInv, KcFresh
<1>2. kcJob'[r] = [state |-> state, made |-> kcJob[r].made, stalls |-> kcJob[r].stalls]
  BY <1>1 DEF KcTypeOK, KcJob
<1>3. KcTypeOK'
  BY <1>1, <1>2 DEF KcTypeOK, KcJob
<1>4. \A q \in KcRequests \ {r} :
        kcJob'[q] = kcJob[q] /\ kcHttp'[q] = kcHttp[q] /\ kcOutcome'[q] = kcOutcome[q]
  BY <1>1 DEF KcTypeOK
<1>5. SendNumber(r)' = SendNumber(r)
  BY <1>1, <1>2 DEF SendNumber, KcJob
<1>6. \A a \in Sends : kcHttp'[r][a] = IF a = SendNumber(r) THEN mark ELSE kcHttp[r][a]
  BY <1>1 DEF KcTypeOK
<1>7. kcHttp[r][SendNumber(r)] = "unsent" /\ kcOutcome[r] # "none"
  BY <1>1 DEF KcInv, KcFresh, Sends
<1>8. \A a \in Sends : a > SendNumber(r)' => kcHttp'[r][a] = "unsent"
  BY <1>1, <1>5, <1>6 DEF KcInv, KcFresh, Sends
<1>9. kcOutcome'[r] = "done" => \E a \in Sends : kcHttp'[r][a] = "performed"
  BY <1>6, <1>7 DEF KcInv, KcFresh
<1>10. KcFresh(r)'
  BY <1>2, <1>7, <1>8, <1>9 DEF KcFresh
<1> QED BY <1>3, <1>4, <1>10, KcOthersFresh DEF KcInv

\* A request that was under way is performed or lost.
LEMMA KcSlotKeeps ==
  ASSUME KcInv, NEW r \in KcRequests, NEW a \in Sends, NEW mark \in {"unsent", "performed"},
         kcHttp[r][a] = "travelling", kcHttp' = [kcHttp EXCEPT ![r][a] = mark],
         UNCHANGED <<ready, token, kcJob, kcOutcome>>
  PROVE  KcInv'
<1>1. KcTypeOK'
  BY DEF KcInv, KcFresh, KcTypeOK
<1>2. \A q \in KcRequests \ {r} : kcHttp'[q] = kcHttp[q]
  BY DEF KcInv, KcFresh, KcTypeOK
<1>3. \A b \in Sends : kcHttp'[r][b] = IF b = a THEN mark ELSE kcHttp[r][b]
  BY DEF KcInv, KcFresh, KcTypeOK
<1>4. KcFresh(r)'
  BY <1>3 DEF KcInv, KcFresh, Awaiting, SendNumber
<1> QED BY <1>1, <1>2, <1>4, KcOthersFresh DEF KcInv

LEMMA KcAnsweredKeeps == ASSUME KcInv, NEW r \in KcRequests, KcAnswered(r) PROVE KcInv'
<1>1. KcTypeOK
  BY DEF KcInv
<1>2. /\ kcOutcome' \in [KcRequests -> {"none", "waiting", "done", "failed", "lost"}]
      /\ \A q \in KcRequests \ {r} : kcOutcome'[q] = kcOutcome[q]
      /\ kcOutcome'[r] = IF kcOutcome[r] = "waiting" THEN "done" ELSE kcOutcome[r]
  BY <1>1, KcToldOthersKeep DEF KcAnswered
<1>3. KcTypeOK'
  BY <1>1, <1>2, NoKcJobTyped DEF KcTypeOK, KcAnswered
<1>4. \A q \in KcRequests \ {r} : kcJob'[q] = kcJob[q] /\ kcHttp'[q] = kcHttp[q]
  BY <1>1 DEF KcAnswered, KcTypeOK
<1>5. kcJob'[r].state = "none" /\ kcHttp' = kcHttp
  BY <1>1 DEF KcAnswered, KcTypeOK, NoKcJob
<1>6. (\E a \in Sends : kcHttp[r][a] = "performed") /\ kcOutcome'[r] # "none"
  BY <1>1, <1>2, SendNumberInRange DEF KcAnswered, KcInv, KcFresh, Awaiting
<1>7. KcFresh(r)'
  BY <1>5, <1>6 DEF KcFresh, Awaiting
<1> QED BY <1>2, <1>3, <1>4, <1>7, KcOthersFresh DEF KcInv

LEMMA KcWantsTokenKeeps == ASSUME KcInv, NEW r \in KcRequests, WantsToken(r) PROVE KcInv'
<1>1. KcTypeOK /\ SendNumber(r) \in Sends /\ kcJob[r] \in KcJob
  BY SendNumberInRange DEF KcInv, KcFresh
<1>2. KcHttpKept(r)
  BY <1>1, KcErrorsKeepHttp DEF WantsToken
<1>3. kcJob'[r] = [state |-> "refresh", made |-> kcJob[r].made, stalls |-> kcJob[r].stalls]
  BY <1>1 DEF WantsToken, KcTypeOK, KcJob
<1>4. KcTypeOK'
  BY <1>1, <1>2, <1>3 DEF WantsToken, KcTypeOK, KcJob, KcHttpKept, KcMarks
<1>5. \A q \in KcRequests \ {r} :
        kcJob'[q] = kcJob[q] /\ kcHttp'[q] = kcHttp[q] /\ kcOutcome'[q] = kcOutcome[q]
  BY <1>1, <1>2 DEF WantsToken, KcTypeOK, KcHttpKept
<1>6. SendNumber(r)' > SendNumber(r)
  BY <1>1, <1>3 DEF WantsToken, SendNumber, KcJob
<1>7. SendNumber(r)' \in Sends
  BY <1>4, KcAssumption DEF KcTypeOK, SendNumber, Sends, KcJob
<1>8. \A a \in Sends : a >= SendNumber(r)' => kcHttp'[r][a] = "unsent"
  BY <1>1, <1>2, <1>6, <1>7 DEF WantsToken, KcInv, KcFresh, Awaiting, Sends, KcHttpKept
<1>9. kcOutcome'[r] # "none"
  BY DEF WantsToken, KcInv, KcFresh
<1>10. kcOutcome'[r] = "done" => \E a \in Sends : kcHttp'[r][a] = "performed"
  BY <1>2 DEF WantsToken, KcInv, KcFresh, KcHttpKept
<1>11. KcFresh(r)'
  BY <1>3, <1>8, <1>9, <1>10 DEF KcFresh, Awaiting
<1> QED BY <1>4, <1>5, <1>11, KcOthersFresh DEF KcInv

LEMMA KcFailsKeeps == ASSUME KcInv, NEW r \in KcRequests, KcFails(r) PROVE KcInv'
<1>1. KcTypeOK /\ SendNumber(r) \in Sends /\ kcJob[r] \in KcJob
  BY SendNumberInRange DEF KcInv, KcFresh
<1>2. KcHttpKept(r)
  BY <1>1, KcErrorsKeepHttp DEF KcFails
<1>3. /\ kcJob' \in [KcRequests -> KcJob]
      /\ \A q \in KcRequests \ {r} : kcJob'[q] = kcJob[q]
      /\ \/ /\ kcOutcome' = kcOutcome
            /\ kcJob'[r].state = "queued" /\ SendNumber(r)' > SendNumber(r)
         \/ /\ kcOutcome' = KcTold(r, "failed")
            /\ kcJob'[r].state = "none"
  BY <1>1, KcAttemptFailsEffect DEF KcFails
<1>4. /\ kcOutcome' \in [KcRequests -> {"none", "waiting", "done", "failed", "lost"}]
      /\ \A q \in KcRequests \ {r} : kcOutcome'[q] = kcOutcome[q]
      /\ kcOutcome'[r] \in {kcOutcome[r], "failed"}
  BY <1>1, <1>3, KcToldOthersKeep DEF KcTypeOK
<1>5. KcTypeOK'
  BY <1>1, <1>2, <1>3, <1>4 DEF KcFails, KcTypeOK, KcHttpKept, KcMarks
<1>6. SendNumber(r)' \in Sends
  BY <1>5, KcAssumption DEF KcTypeOK, SendNumber, Sends, KcJob
<1>7. kcJob'[r].state = "queued" => \A a \in Sends : a >= SendNumber(r)' => kcHttp'[r][a] = "unsent"
  <2>1. \A a \in Sends : a > SendNumber(r) => kcHttp[r][a] = "unsent"
    BY <1>1 DEF KcFails, KcInv, KcFresh, Awaiting, Sends
  <2> QED BY <1>1, <1>2, <1>3, <1>6, <2>1 DEF Sends, KcHttpKept
<1>8. kcOutcome'[r] # "none"
  BY <1>4 DEF KcFails, KcInv, KcFresh
<1>9. kcOutcome'[r] = "done" => \E a \in Sends : kcHttp'[r][a] = "performed"
  BY <1>2, <1>4 DEF KcInv, KcFresh, KcHttpKept
<1>10. KcFresh(r)'
  BY <1>3, <1>7, <1>8, <1>9 DEF KcFresh, Awaiting
<1>11. \A q \in KcRequests \ {r} :
        kcJob'[q] = kcJob[q] /\ kcHttp'[q] = kcHttp[q] /\ kcOutcome'[q] = kcOutcome[q]
  BY <1>2, <1>3, <1>4 DEF KcHttpKept
<1> QED BY <1>5, <1>10, <1>11, KcOthersFresh DEF KcInv

LEMMA KcRestartKeeps == ASSUME KcInv, KcRestart PROVE KcInv'
<1>1. KcTypeOK
  BY DEF KcInv
<1>2. ASSUME NEW r \in KcRequests
      PROVE  /\ kcJob'[r] \in KcJob
             /\ \/ kcJob'[r] = kcJob[r] /\ kcJob[r].state \in {"none", "queued"}
                \/ /\ kcJob[r].state \notin {"none", "queued"}
                   /\ kcJob'[r].state = "queued" /\ SendNumber(r)' > SendNumber(r)
                \/ kcJob'[r].state = "none"
  <2>1. kcJob[r] \in KcJob
    BY <1>1, SendNumberInRange
  <2>2. CASE kcJob[r].state \in {"none", "queued"}
    BY <2>1, <2>2 DEF KcRestart
  <2>3. CASE kcJob[r].state \notin {"none", "queued"} /\ kcJob[r].stalls < KcStalls
    <3>1. kcJob'[r] = [state |-> "queued", made |-> kcJob[r].made, stalls |-> kcJob[r].stalls + 1]
      BY <2>1, <2>3 DEF KcRestart, KcJob
    <3> QED BY <2>1, <2>3, <3>1, KcAssumption DEF KcJob, SendNumber
  <2>4. CASE kcJob[r].state \notin {"none", "queued"} /\ ~(kcJob[r].stalls < KcStalls)
    BY <2>4, NoKcJobTyped DEF KcRestart, NoKcJob
  <2> QED BY <2>2, <2>3, <2>4
<1>3. kcHttp' = kcHttp /\ \A r \in KcRequests : kcOutcome'[r] = IF kcOutcome[r] = "waiting" THEN "lost" ELSE kcOutcome[r]
  BY DEF KcRestart
<1>4. KcTypeOK'
  BY <1>1, <1>2 DEF KcTypeOK, KcRestart
<1>5. ASSUME NEW r \in KcRequests PROVE KcFresh(r)'
  <2>0. KcFresh(r)
    BY DEF KcInv
  <2>1. CASE kcJob'[r] = kcJob[r] /\ kcJob[r].state \in {"none", "queued"}
    BY <1>3, <2>0, <2>1 DEF KcFresh, Awaiting, SendNumber
  <2>2. CASE /\ kcJob[r].state \notin {"none", "queued"}
             /\ kcJob'[r].state = "queued" /\ SendNumber(r)' > SendNumber(r)
    <3>0. SendNumber(r)' \in Sends
      BY <1>4, KcAssumption DEF KcTypeOK, SendNumber, Sends, KcJob
    <3>1. SendNumber(r) \in Sends /\ SendNumber(r)' \in Sends /\ kcJob[r] \in KcJob
      BY <1>1, <3>0, SendNumberInRange
    <3>2. \A a \in Sends : a > SendNumber(r) => kcHttp[r][a] = "unsent"
      BY <2>0, <2>2, <3>1 DEF KcFresh, Awaiting, Sends, KcJob
    <3>3. \A a \in Sends : a >= SendNumber(r)' => kcHttp'[r][a] = "unsent"
      BY <1>3, <2>2, <3>1, <3>2 DEF Sends
    <3> QED BY <1>3, <2>0, <2>2, <3>3 DEF KcFresh, Awaiting
  <2>3. CASE kcJob'[r].state = "none"
    BY <1>3, <2>0, <2>3 DEF KcFresh, Awaiting
  <2> QED BY <1>2, <2>1, <2>2, <2>3
<1> QED BY <1>4, <1>5 DEF KcInv

LEMMA KcInitHolds == KcInit => KcInv
<1>1. NoKcJob \in KcJob
  BY NoKcJobTyped
<1>2. KcInit => KcTypeOK
  <2>1. KcInit => kcJob \in [KcRequests -> KcJob]
    BY <1>1 DEF KcInit
  <2>2. KcInit => kcHttp \in [KcRequests -> [Sends -> {"unsent", "travelling", "performed"}]]
    BY DEF KcInit
  <2>3. KcInit => kcOutcome \in [KcRequests -> {"none", "waiting", "done", "failed", "lost"}]
    BY DEF KcInit
  <2>4. KcInit => ready \in BOOLEAN /\ token \in BOOLEAN
    BY DEF KcInit
  <2> QED BY <2>1, <2>2, <2>3, <2>4 DEF KcTypeOK
<1> QED BY <1>2 DEF KcInit, KcInv, KcFresh, NoKcJob, Awaiting

LEMMA KcInvKept == ASSUME KcInv, [KcNext]_kcVars PROVE KcInv'
<1>1. ASSUME NEW r \in KcRequests, KcEnqueue(r) PROVE KcInv'
  BY <1>1, KcEnqueueKeeps
<1>2. ASSUME NEW r \in KcRequests, KcSend(r) PROVE KcInv'
  BY <1>2, KcSentKeeps DEF KcSend, KcInv, KcFresh, KcTypeOK
<1>3. ASSUME NEW r \in KcRequests, Resend(r) PROVE KcInv'
  BY <1>3, KcSentKeeps DEF Resend, KcInv, KcFresh, KcTypeOK
<1>4. ASSUME NEW r \in KcRequests, NEW a \in Sends, KcPerform(r, a) \/ KcLose(r, a) PROVE KcInv'
  BY <1>4, KcSlotKeeps DEF KcPerform, KcLose
<1>5. ASSUME NEW r \in KcRequests, KcAnswered(r) PROVE KcInv'
  BY <1>5, KcAnsweredKeeps
<1>6. ASSUME NEW r \in KcRequests, WantsToken(r) PROVE KcInv'
  BY <1>6, KcWantsTokenKeeps
<1>7. ASSUME NEW r \in KcRequests, KcFails(r) PROVE KcInv'
  BY <1>7, KcFailsKeeps
<1>8. CASE KcRestart
  BY <1>8, KcRestartKeeps
<1>9. CASE Bootstrap \/ TokenExpires \/ UNCHANGED kcVars
  <2>1. UNCHANGED <<kcJob, kcHttp, kcOutcome>>
    BY <1>9 DEF Bootstrap, TokenExpires, kcVars
  <2>2. ready' \in BOOLEAN /\ token' \in BOOLEAN
    BY <1>9 DEF Bootstrap, TokenExpires, kcVars, KcInv, KcTypeOK
  <2>3. KcTypeOK'
    BY <2>1, <2>2 DEF KcInv, KcTypeOK
  <2>4. \A r \in KcRequests : KcFresh(r)'
    BY <2>1 DEF KcInv, KcFresh, Awaiting, SendNumber
  <2> QED BY <2>3, <2>4 DEF KcInv
<1> QED BY <1>1, <1>2, <1>3, <1>4, <1>5, <1>6, <1>7, <1>8, <1>9 DEF KcNext

-----------------------------------------------------------------------------

LEMMA KcPerformedUnchanged ==
  ASSUME NEW r \in KcRequests, KcHttpKept(r)
  PROVE  KcPerformed' = KcPerformed
BY DEF KcPerformed, KcHttpKept

LEMMA KcToldSeen ==
  ASSUME KcInv, NEW r \in KcRequests, KcPerformed' = KcPerformed,
         \/ kcOutcome' = KcTold(r, "done") /\ \E a \in Sends : kcHttp[r][a] = "performed"
         \/ kcOutcome' = KcTold(r, "failed")
  PROVE  [KcPromise!PromiseNext]_(KcPromise!promiseVars)
<1>1. kcOutcome \in [KcRequests -> {"none", "waiting", "done", "failed", "lost"}]
  BY DEF KcInv, KcFresh, KcTypeOK
<1>2. CASE kcOutcome[r] # "waiting"
  BY <1>1, <1>2 DEF KcTold, KcPromise!promiseVars
<1>3. CASE kcOutcome[r] = "waiting" /\ kcOutcome' = KcTold(r, "failed")
  BY <1>1, <1>3 DEF KcTold, KcPromise!PromiseNext, KcPromise!Fail
<1>4. CASE /\ kcOutcome[r] = "waiting" /\ kcOutcome' = KcTold(r, "done")
           /\ \E a \in Sends : kcHttp[r][a] = "performed"
  <2>1. KcPerformed[r] # {}
    BY <1>4 DEF KcPerformed
  <2> QED BY <1>1, <1>4, <2>1 DEF KcTold, KcPromise!PromiseNext, KcPromise!Succeed
<1> QED BY <1>2, <1>3, <1>4

\* A request that was not performed is sent, or does not arrive.
LEMMA KcSlotUnseen ==
  ASSUME KcInv, NEW r \in KcRequests, NEW a \in Sends, NEW mark \in {"unsent", "travelling"},
         kcHttp[r][a] # "performed", kcHttp' = [kcHttp EXCEPT ![r][a] = mark], kcOutcome' = kcOutcome
  PROVE  UNCHANGED KcPromise!promiseVars
<1>1. \A q \in KcRequests, b \in Sends : kcHttp'[q][b] = "performed" <=> kcHttp[q][b] = "performed"
  BY DEF KcInv, KcFresh, KcTypeOK
<1>2. KcPerformed' = KcPerformed
  BY <1>1 DEF KcPerformed
<1> QED BY <1>2 DEF KcPromise!promiseVars

LEMMA KcPerformSeen ==
  ASSUME KcInv, NEW r \in KcRequests, NEW a \in Sends, KcPerform(r, a)
  PROVE  KcPromise!Perform(r)
<1> USE DEF KcInv, KcFresh, KcTypeOK
<1>1. kcHttp[r][a] = "travelling" /\ kcHttp' = [kcHttp EXCEPT ![r][a] = "performed"] /\ kcOutcome' = kcOutcome
  BY DEF KcPerform
<1>2. kcOutcome[r] # "none"
  BY <1>1
<1>3. \A q \in KcRequests, b \in Sends :
        kcHttp'[q][b] = IF q = r /\ b = a THEN "performed" ELSE kcHttp[q][b]
  BY <1>1
<1>4. \A q \in KcRequests : KcPerformed'[q] = IF q = r THEN KcPerformed[q] \cup {a} ELSE KcPerformed[q]
  BY <1>3 DEF KcPerformed
<1>5. /\ KcPerformed' = [q \in KcRequests |-> KcPerformed'[q]]
      /\ KcPerformed = [q \in KcRequests |-> KcPerformed[q]]
  BY DEF KcPerformed
<1>6. KcPerformed' = [KcPerformed EXCEPT ![r] = @ \cup {a}]
  BY <1>4, <1>5
<1>7. a \in Sends \ KcPerformed[r]
  BY <1>1 DEF KcPerformed
<1> QED BY <1>1, <1>2, <1>6, <1>7 DEF KcPromise!Perform

\* Every step of the queue is a step of the promise, or none.
LEMMA KcStepsKeepPromise ==
  ASSUME KcInv, [KcNext]_kcVars
  PROVE  [KcPromise!PromiseNext]_(KcPromise!promiseVars)
<1>1. ASSUME NEW r \in KcRequests, KcEnqueue(r) PROVE KcPromise!Accept(r)
  <2>1. KcPerformed' = [KcPerformed EXCEPT ![r] = {}]
    BY <1>1, ZenonT(40) DEF KcEnqueue, KcPerformed, KcInv, KcFresh, KcTypeOK
  <2> QED BY <1>1, <2>1 DEF KcEnqueue, KcPromise!Accept
<1>2. ASSUME NEW r \in KcRequests, KcSend(r) \/ Resend(r) PROVE UNCHANGED KcPromise!promiseVars
  <2>1. SendNumber(r) \in Sends /\ kcHttp[r][SendNumber(r)] = "unsent"
    <3>1. SendNumber(r) \in Sends
      BY SendNumberInRange DEF KcInv, KcFresh
    <3> QED BY <1>2, <3>1 DEF KcSend, Resend, KcInv, KcFresh, Sends
  <2> QED BY <1>2, <2>1, KcSlotUnseen DEF KcSend, Resend
<1>3. ASSUME NEW r \in KcRequests, NEW a \in Sends, KcPerform(r, a) PROVE KcPromise!Perform(r)
  BY <1>3, KcPerformSeen
<1>4. ASSUME NEW r \in KcRequests, NEW a \in Sends, KcLose(r, a) PROVE UNCHANGED KcPromise!promiseVars
  BY <1>4, KcSlotUnseen DEF KcLose
<1>5. ASSUME NEW r \in KcRequests, KcAnswered(r) PROVE [KcPromise!PromiseNext]_(KcPromise!promiseVars)
  <2>1. \E a \in Sends : kcHttp[r][a] = "performed"
    BY <1>5, SendNumberInRange DEF KcAnswered, KcInv, KcFresh
  <2>2. KcPerformed' = KcPerformed
    BY <1>5 DEF KcAnswered, KcPerformed
  <2> QED BY <1>5, <2>1, <2>2, KcToldSeen DEF KcAnswered
<1>6. ASSUME NEW r \in KcRequests, WantsToken(r) PROVE UNCHANGED KcPromise!promiseVars
  <2>1. KcPerformed' = KcPerformed
    BY <1>6, KcErrorsKeepHttp, KcPerformedUnchanged DEF WantsToken, KcInv, KcFresh
  <2> QED BY <1>6, <2>1 DEF WantsToken, KcPromise!promiseVars
<1>7. ASSUME NEW r \in KcRequests, KcFails(r) PROVE [KcPromise!PromiseNext]_(KcPromise!promiseVars)
  <2>1. KcPerformed' = KcPerformed
    BY <1>7, KcErrorsKeepHttp, KcPerformedUnchanged DEF KcFails, KcInv, KcFresh
  <2>2. CASE kcOutcome' = kcOutcome
    BY <2>1, <2>2 DEF KcPromise!promiseVars
  <2>3. CASE kcOutcome' = KcTold(r, "failed")
    BY <2>1, <2>3, KcToldSeen
  <2> QED BY <1>7, <2>2, <2>3 DEF KcFails, KcAttemptFails
<1>8. ASSUME KcRestart PROVE KcPromise!Forget
  BY <1>8 DEF KcRestart, KcPromise!Forget, KcPerformed
<1>9. CASE Bootstrap \/ TokenExpires \/ UNCHANGED kcVars
  BY <1>9 DEF Bootstrap, TokenExpires, kcVars, KcPromise!promiseVars, KcPerformed
<1> QED BY <1>1, <1>2, <1>3, <1>4, <1>5, <1>6, <1>7, <1>8, <1>9
        DEF KcNext, KcPromise!PromiseNext

\* A result of the Keycloak queue means that the request was performed, and every
\* request sent is one of the two an attempt may send, for any number of requests,
\* attempts and restarts (enqueue, handleJob).
THEOREM KeycloakQueueKeepsPromise == KcSpec => KcKeepsPromise
<1>1. KcInv /\ [KcNext]_kcVars => KcInv'
  BY KcInvKept
<1>2. KcInv /\ [KcNext]_kcVars => [KcPromise!PromiseNext]_(KcPromise!promiseVars)
  BY KcStepsKeepPromise
<1>3. KcInit => KcPromise!PromiseInit
  BY DEF KcInit, KcPromise!PromiseInit, KcPerformed
<1> QED BY <1>1, <1>2, <1>3, KcInitHolds, PTL DEF KcSpec, KcKeepsPromise, KcPromise!PromiseSpec

-----------------------------------------------------------------------------
(***************************************************************************)
(* The cached lists of a category.  What a call is about to store is       *)
(* current unless a change was noticed since it read.                      *)
(***************************************************************************)

ReadCurrent(c) ==
  permCalls[c].pc = "store" /\ ~permCalls[c].raced /\ permCalls[c].category \in categories
    => permCalls[c].users = permitted[permCalls[c].category]

PermInv ==
  /\ PermTypeOK
  /\ \A c \in PermCalls : ReadCurrent(c)
  /\ ListCurrentUnlessOutdated

LEMMA PermInitHolds == PermInit => PermInv
<1> SUFFICES ASSUME PermInit PROVE PermInv
  OBVIOUS
<1>1. IdlePerm \in PermCall
  BY DEF IdlePerm, PermCall
<1>2. PermTypeOK
  BY <1>1 DEF PermInit, PermTypeOK, IdlePerm
<1>3. (\A c \in PermCalls : ReadCurrent(c)) /\ ListCurrentUnlessOutdated
  BY DEF PermInit, ReadCurrent, IdlePerm, ListCurrentUnlessOutdated
<1> QED BY <1>2, <1>3 DEF PermInv

\* A call goes on, or is over.
PermMoves(c, call) ==
  /\ permCalls' \in [PermCalls -> PermCall]
  /\ permCalls'[c] = call
  /\ \A d \in PermCalls \ {c} : permCalls'[d] = permCalls[d]

LEMMA PermGoesMoves ==
  ASSUME PermTypeOK, NEW c \in PermCalls, NEW g \in Categories, NEW pc \in {"save", "drop", "read", "store"},
         PermGoes(c, g, pc)
  PROVE  PermMoves(c, [pc |-> pc, category |-> g, users |-> {}, raced |-> FALSE])
<1>1. [pc |-> pc, category |-> g, users |-> {}, raced |-> FALSE] \in PermCall
  BY DEF PermCall
<1> QED BY <1>1 DEF PermTypeOK, PermGoes, PermMoves

LEMMA PermIdleMoves ==
  ASSUME PermTypeOK, NEW c \in PermCalls, permCalls' = [permCalls EXCEPT ![c] = IdlePerm]
  PROVE  PermMoves(c, IdlePerm)
<1>1. IdlePerm \in PermCall
  BY DEF IdlePerm, PermCall
<1> QED BY <1>1 DEF PermTypeOK, PermMoves

\* The calls that hold a list read before the change are marked.
LEMMA RacedMarks ==
  ASSUME PermTypeOK, NEW g \in Categories
  PROVE  /\ Raced(g) \in [PermCalls -> PermCall]
         /\ \A c \in PermCalls :
              /\ Raced(g)[c].pc = permCalls[c].pc /\ Raced(g)[c].category = permCalls[c].category
              /\ Raced(g)[c].users = permCalls[c].users
              /\ permCalls[c].pc = "store" /\ permCalls[c].category = g => Raced(g)[c].raced
              /\ permCalls[c].category # g => Raced(g)[c] = permCalls[c]
<1>1. ASSUME NEW c \in PermCalls
      PROVE  /\ [permCalls[c] EXCEPT !.raced = TRUE] \in PermCall
             /\ [permCalls[c] EXCEPT !.raced = TRUE].pc = permCalls[c].pc
             /\ [permCalls[c] EXCEPT !.raced = TRUE].category = permCalls[c].category
             /\ [permCalls[c] EXCEPT !.raced = TRUE].users = permCalls[c].users
             /\ [permCalls[c] EXCEPT !.raced = TRUE].raced
             /\ permCalls[c] \in PermCall
  BY DEF PermTypeOK, PermCall
<1>2. ASSUME NEW c \in PermCalls
      PROVE  Raced(g)[c] =
               IF permCalls[c].pc = "store" /\ permCalls[c].category = g
               THEN [permCalls[c] EXCEPT !.raced = TRUE]
               ELSE permCalls[c]
  BY DEF Raced
<1>3. Raced(g) = [c \in PermCalls |-> Raced(g)[c]]
  BY DEF Raced
<1>4. \A c \in PermCalls : Raced(g)[c] \in PermCall
  BY <1>1, <1>2
<1>5. Raced(g) \in [PermCalls -> PermCall]
  BY <1>3, <1>4
<1> QED BY <1>1, <1>2, <1>5

LEMMA BeginsKeep ==
  ASSUME PermInv, NEW c \in PermCalls, NEW g \in Categories,
         \/ \E users \in SUBSET Members : CreateCategory(c, g, users)
         \/ CheckPermission(c, g)
         \/ UpdateCategory(c, g)
  PROVE  PermInv'
<1>1. PICK pc \in {"read", "save"} : PermGoes(c, g, pc) /\ permCalls[c].pc = "idle" /\ UNCHANGED <<listCache, outdated>>
  BY DEF CreateCategory, CheckPermission, UpdateCategory
<1>2. PermMoves(c, [pc |-> pc, category |-> g, users |-> {}, raced |-> FALSE])
  BY <1>1, PermGoesMoves DEF PermInv
<1>3. \/ UNCHANGED <<categories, permitted>>
      \/ /\ categories' = categories \cup {g} /\ g \notin categories
         /\ permitted' \in [Categories -> SUBSET Members]
         /\ \A h \in Categories \ {g} : permitted'[h] = permitted[h]
         /\ listCache[g] = {} /\ \A d \in PermCalls : permCalls[d].category # g
  BY DEF CreateCategory, CheckPermission, UpdateCategory, PermInv, PermTypeOK
<1>4. PermTypeOK'
  BY <1>1, <1>2, <1>3 DEF PermInv, PermTypeOK, PermMoves
<1>5. \A d \in PermCalls : ReadCurrent(d)'
  BY <1>2, <1>3 DEF PermInv, PermTypeOK, ReadCurrent, PermMoves
<1>6. ListCurrentUnlessOutdated'
  BY <1>1, <1>2, <1>3 DEF PermInv, ListCurrentUnlessOutdated, PermMoves
<1> QED BY <1>4, <1>5, <1>6 DEF PermInv

LEMMA SaveCategoryKeeps ==
  ASSUME PermInv, NEW c \in PermCalls, NEW users \in SUBSET Members, SaveCategory(c, users)
  PROVE  PermInv'
<1> DEFINE g == permCalls[c].category
<1>1. PermTypeOK /\ permCalls[c] \in PermCall /\ permCalls[c].pc = "save" /\ g \in Categories
      /\ UNCHANGED <<categories, listCache, outdated>>
  BY DEF PermInv, PermTypeOK, SaveCategory
<1>2. CASE g \in categories
  <2>1. permitted' = [permitted EXCEPT ![g] = users] /\ permCalls' = [Raced(g) EXCEPT ![c].pc = "drop"]
    BY <1>2 DEF SaveCategory
  <2>2. /\ permCalls' \in [PermCalls -> PermCall]
        /\ \A d \in PermCalls \ {c} : permCalls'[d] = Raced(g)[d]
        /\ permCalls'[c].pc = "drop" /\ permCalls'[c].category = g
    BY <1>1, <2>1, RacedMarks DEF PermCall
  <2>3. PermTypeOK'
    BY <1>1, <2>1, <2>2, RacedMarks DEF PermTypeOK
  <2>4. ASSUME NEW d \in PermCalls PROVE ReadCurrent(d)'
    <3>1. CASE d = c
      BY <2>2, <3>1 DEF ReadCurrent
    <3>2. CASE d # c /\ permCalls[d].category = g
      BY <1>1, <2>2, <3>2, RacedMarks DEF ReadCurrent
    <3>3. CASE d # c /\ permCalls[d].category # g
      BY <1>1, <2>1, <2>2, <3>3, RacedMarks DEF PermInv, PermTypeOK, ReadCurrent
    <3> QED BY <3>1, <3>2, <3>3
  <2>5. ASSUME NEW h \in Categories, h \in categories, listCache[h] # {}
        PROVE  \/ listCache[h] = permitted'[h] \/ h \in outdated
               \/ \E d \in PermCalls : permCalls'[d].pc = "drop" /\ permCalls'[d].category = h
    <3>1. CASE h = g
      BY <2>2, <3>1
    <3>2. CASE h # g
      <4>1. permitted'[h] = permitted[h]
        BY <1>1, <2>1, <3>2 DEF PermTypeOK
      <4>2. \A d \in PermCalls : permCalls[d].pc = "drop" /\ permCalls[d].category = h =>
              permCalls'[d].pc = "drop" /\ permCalls'[d].category = h
        BY <1>1, <2>2, RacedMarks
      <4> QED BY <2>5, <4>1, <4>2 DEF PermInv, ListCurrentUnlessOutdated
    <3> QED BY <3>1, <3>2
  <2> QED BY <1>1, <2>3, <2>4, <2>5 DEF PermInv, ListCurrentUnlessOutdated
<1>3. CASE g \notin categories
  <2>1. PermMoves(c, IdlePerm) /\ UNCHANGED permitted
    BY <1>1, <1>3, PermIdleMoves DEF SaveCategory
  <2>2. PermTypeOK'
    BY <1>1, <2>1 DEF PermTypeOK, PermMoves, IdlePerm
  <2>3. \A d \in PermCalls : ReadCurrent(d)'
    BY <1>1, <2>1 DEF PermInv, ReadCurrent, PermMoves, IdlePerm
  <2>4. ListCurrentUnlessOutdated'
    BY <1>1, <2>1 DEF PermInv, ListCurrentUnlessOutdated, PermMoves
  <2> QED BY <2>2, <2>3, <2>4 DEF PermInv
<1> QED BY <1>2, <1>3

\* The steps by which a list is dropped, read and stored, and the end of a call.
LEMMA ListStepsKeep ==
  ASSUME PermInv, NEW c \in PermCalls, DropList(c) \/ ReadMembers(c) \/ StoreList(c) \/ PermCallEnds(c)
  PROVE  PermInv'
<1> DEFINE g == permCalls[c].category
<1>1. /\ PermTypeOK /\ permCalls[c] \in PermCall /\ permCalls[c].pc # "idle" /\ g \in Categories
      /\ UNCHANGED <<categories, permitted>>
  BY DEF PermInv, PermTypeOK, DropList, ReadMembers, StoreList, PermCallEnds
<1>2. CASE DropList(c)
  <2>1. /\ PermMoves(c, [pc |-> "read", category |-> g, users |-> {}, raced |-> FALSE])
        /\ listCache' = [listCache EXCEPT ![g] = {}] /\ outdated' = outdated \ {g}
    BY <1>1, <1>2, PermGoesMoves DEF DropList, Dropped
  <2>2. PermTypeOK'
    BY <1>1, <2>1 DEF PermTypeOK, PermMoves
  <2>3. \A d \in PermCalls : ReadCurrent(d)'
    BY <1>1, <2>1 DEF PermInv, ReadCurrent, PermMoves
  <2>4. ListCurrentUnlessOutdated'
    BY <1>1, <2>1 DEF PermInv, PermTypeOK, ListCurrentUnlessOutdated, PermMoves
  <2> QED BY <2>2, <2>3, <2>4 DEF PermInv
<1>3. CASE ReadMembers(c)
  <2>1. /\ permCalls[c].pc = "read" /\ UNCHANGED <<listCache, outdated>>
        /\ \/ PermMoves(c, IdlePerm)
           \/ PermMoves(c, [pc |-> "store", category |-> g, users |-> permitted[g], raced |-> FALSE])
    <3>1. [pc |-> "store", category |-> g, users |-> permitted[g], raced |-> FALSE] \in PermCall
      BY <1>1 DEF PermTypeOK, PermCall
    <3>2. IdlePerm \in PermCall
      BY DEF IdlePerm, PermCall
    <3> QED BY <1>1, <1>3, <3>1, <3>2 DEF ReadMembers, PermTypeOK, PermMoves
  <2>2. PermTypeOK'
    BY <1>1, <2>1 DEF PermTypeOK, PermMoves, IdlePerm
  <2>3. \A d \in PermCalls : ReadCurrent(d)'
    BY <1>1, <2>1 DEF PermInv, ReadCurrent, PermMoves, IdlePerm
  <2>4. ListCurrentUnlessOutdated'
    BY <1>1, <2>1 DEF PermInv, ListCurrentUnlessOutdated, PermMoves
  <2> QED BY <2>2, <2>3, <2>4 DEF PermInv
<1>4. CASE StoreList(c)
  <2>1. /\ permCalls[c].pc = "store" /\ PermMoves(c, IdlePerm)
        /\ listCache' = [listCache EXCEPT ![g] = permCalls[c].users]
        /\ outdated' = IF permCalls[c].raced THEN outdated \cup {g} ELSE outdated \ {g}
    BY <1>1, <1>4, PermIdleMoves DEF StoreList
  <2>2. PermTypeOK'
    BY <1>1, <2>1 DEF PermTypeOK, PermMoves, IdlePerm, PermCall
  <2>3. \A d \in PermCalls : ReadCurrent(d)'
    BY <1>1, <2>1 DEF PermInv, ReadCurrent, PermMoves, IdlePerm
  <2>4. ListCurrentUnlessOutdated'
    BY <1>1, <2>1 DEF PermInv, PermTypeOK, ReadCurrent, ListCurrentUnlessOutdated, PermMoves
  <2> QED BY <2>2, <2>3, <2>4 DEF PermInv
<1>5. CASE PermCallEnds(c)
  <2>1. /\ PermMoves(c, IdlePerm) /\ UNCHANGED listCache
        /\ outdated' = IF permCalls[c].pc = "drop" THEN outdated \cup {g} ELSE outdated
    BY <1>1, <1>5, PermIdleMoves DEF PermCallEnds
  <2>2. PermTypeOK'
    BY <1>1, <2>1 DEF PermTypeOK, PermMoves, IdlePerm
  <2>3. \A d \in PermCalls : ReadCurrent(d)'
    BY <1>1, <2>1 DEF PermInv, ReadCurrent, PermMoves, IdlePerm
  <2>4. ListCurrentUnlessOutdated'
    BY <1>1, <2>1 DEF PermInv, ListCurrentUnlessOutdated, PermMoves
  <2> QED BY <2>2, <2>3, <2>4 DEF PermInv
<1> QED BY <1>2, <1>3, <1>4, <1>5

LEMMA GroupsChangeKeeps ==
  ASSUME PermInv, NEW g \in Categories, NEW users \in SUBSET Members, GroupsChange(g, users)
  PROVE  PermInv'
<1>1. /\ PermTypeOK /\ UNCHANGED <<categories, listCache>> /\ permCalls' = Raced(g)
      /\ permitted' = [permitted EXCEPT ![g] = users]
      /\ outdated' = IF listCache[g] = {} THEN outdated ELSE outdated \cup {g}
  BY DEF PermInv, GroupsChange
<1>2. PermTypeOK'
  BY <1>1, RacedMarks DEF PermTypeOK
<1>3. ASSUME NEW d \in PermCalls PROVE ReadCurrent(d)'
  <2>1. CASE permCalls[d].category = g
    BY <1>1, <2>1, RacedMarks DEF ReadCurrent
  <2>2. CASE permCalls[d].category # g
    BY <1>1, <2>2, RacedMarks DEF PermInv, PermTypeOK, ReadCurrent
  <2> QED BY <2>1, <2>2
<1>4. ListCurrentUnlessOutdated'
  <2>1. \A d \in PermCalls : permCalls'[d].pc = permCalls[d].pc /\ permCalls'[d].category = permCalls[d].category
    BY <1>1, RacedMarks
  <2> QED BY <1>1, <2>1 DEF PermInv, PermTypeOK, ListCurrentUnlessOutdated
<1> QED BY <1>2, <1>3, <1>4 DEF PermInv

LEMMA PermInvKept == ASSUME PermInv, [PermNext]_permVars PROVE PermInv'
<1>1. CASE \E c \in PermCalls, g \in Categories :
             \/ \E users \in SUBSET Members : CreateCategory(c, g, users)
             \/ CheckPermission(c, g)
             \/ UpdateCategory(c, g)
  BY <1>1, BeginsKeep
<1>2. CASE \E c \in PermCalls, users \in SUBSET Members : SaveCategory(c, users)
  BY <1>2, SaveCategoryKeeps
<1>3. CASE \E c \in PermCalls : DropList(c) \/ ReadMembers(c) \/ StoreList(c) \/ PermCallEnds(c)
  BY <1>3, ListStepsKeep
<1>4. CASE \E g \in Categories, users \in SUBSET Members : GroupsChange(g, users)
  BY <1>4, GroupsChangeKeeps
<1>5. CASE (\E g \in Categories : ListExpires(g) \/ RemoveCategory(g)) \/ UNCHANGED permVars
  <2>1. /\ UNCHANGED <<permitted, permCalls>> /\ categories' \subseteq categories
        /\ listCache' \in [Categories -> SUBSET Members] /\ outdated' \subseteq outdated
        /\ \A h \in Categories : listCache'[h] # {} => listCache'[h] = listCache[h] /\ (h \in outdated' <=> h \in outdated)
    BY <1>5 DEF ListExpires, RemoveCategory, permVars, PermInv, PermTypeOK
  <2>2. PermTypeOK'
    BY <2>1 DEF PermInv, PermTypeOK
  <2>3. \A d \in PermCalls : ReadCurrent(d)'
    BY <2>1 DEF PermInv, ReadCurrent
  <2>4. ListCurrentUnlessOutdated'
    BY <2>1 DEF PermInv, ListCurrentUnlessOutdated
  <2> QED BY <2>2, <2>3, <2>4 DEF PermInv
<1> QED BY <1>1, <1>2, <1>3, <1>4, <1>5 DEF PermNext

\* A cached list is the one that would be worked out now, but for the exceptions the
\* invariant names, for any number of categories, users and requests (update,
\* resolveUsersWithPermission, invalidatePermissionCache).
THEOREM ListsCurrent == PermSpec => []ListCurrentUnlessOutdated
<1>1. PermInv /\ [PermNext]_permVars => PermInv'
  BY PermInvKept
<1>2. PermInv => ListCurrentUnlessOutdated
  BY DEF PermInv
<1> QED BY <1>1, <1>2, PermInitHolds, PTL DEF PermSpec

-----------------------------------------------------------------------------
(***************************************************************************)
(* The images of bulletins.  An image belongs to one bulletin; what a      *)
(* dialog has in its content is in one of the folders or known to be       *)
(* taken; and when all files were gone through nothing of it is left in    *)
(* the temporary folder.                                                   *)
(***************************************************************************)

\* The bulletin lists the image, or somebody at work on it has it.
Owns(b, f) ==
  \/ f \in listed[b]
  \/ \E e \in Editors : /\ editors[e].pc # "idle" /\ editors[e].bulletin = b
                        /\ f \in editors[e].names \cup editors[e].former

OwnersDiffer ==
  \A b \in Bulletins : \A f \in Files : Owns(b, f) =>
    f \in uploaded /\ \A other \in Bulletins : Owns(other, f) => other = b

EditorInv(e) ==
  editors[e].pc # "idle" =>
    /\ editors[e].names \subseteq permanent \cup temporary \cup taken
    /\ editors[e].pc \in {"sort", "store"} => editors[e].names \cap temporary \subseteq editors[e].left
    /\ editors[e].pc = "store" => editors[e].left = {}
    /\ editors[e].pc \in {"wipe", "erase"} => editors[e].names = {}

\* Why an image of the bulletin may be missing.
Excused(b, f) ==
  \/ f \in taken
  \/ \E e \in Editors :
       /\ editors[e].bulletin = b
       /\ \/ editors[e].pc \in {"scan", "sort", "store"} /\ f \in Disused(e)
          \/ editors[e].pc = "erase" /\ f \in editors[e].former

NoneMissing == \A b \in stored : \A f \in listed[b] : f \in permanent \/ Excused(b, f)

ImagesInv ==
  /\ AttachmentTypeOK
  /\ OwnersDiffer
  /\ \A e \in Editors : EditorInv(e)
  /\ NoneMissing

LEMMA ImagesInitHolds == AttachmentInit => ImagesInv
<1> SUFFICES ASSUME AttachmentInit PROVE ImagesInv
  OBVIOUS
<1>1. NoEditor \in Editor
  BY DEF NoEditor, Editor
<1>2. AttachmentTypeOK
  BY <1>1 DEF AttachmentInit, AttachmentTypeOK, NoEditor
<1>3. OwnersDiffer
  BY DEF AttachmentInit, OwnersDiffer, Owns, NoEditor
<1>4. \A e \in Editors : EditorInv(e)
  BY DEF AttachmentInit, EditorInv, NoEditor
<1> QED BY <1>2, <1>3, <1>4 DEF AttachmentInit, NoneMissing, ImagesInv

\* Editor e, and nobody else, takes a step.
Turns(e, pc, b, names, former, left) ==
  /\ editors' \in [Editors -> Editor]
  /\ editors'[e].pc = pc /\ editors'[e].bulletin = b /\ editors'[e].names = names
  /\ editors'[e].former = former /\ editors'[e].left = left
  /\ \A d \in Editors \ {e} : editors'[d] = editors[d]

LEMMA GoesTurns ==
  ASSUME AttachmentTypeOK, NEW e \in Editors,
         NEW pc \in {"edit", "clean", "scan", "sort", "store", "wipe", "erase"}, Goes(e, pc)
  PROVE  Turns(e, pc, editors[e].bulletin, editors[e].names, editors[e].former, editors[e].left)
BY DEF AttachmentTypeOK, Goes, Turns, Editor

LEMMA ClosesTurns ==
  ASSUME AttachmentTypeOK, NEW e \in Editors, Closes(e)
  PROVE  Turns(e, "idle", NoBulletin, {}, {}, {})
<1>1. NoEditor \in Editor
  BY DEF NoEditor, Editor
<1>2. /\ NoEditor.pc = "idle" /\ NoEditor.bulletin = NoBulletin /\ NoEditor.names = {}
      /\ NoEditor.former = {} /\ NoEditor.left = {}
  BY DEF NoEditor
<1>3. editors' = [editors EXCEPT ![e] = NoEditor]
  BY DEF Closes
<1> QED BY <1>1, <1>2, <1>3 DEF AttachmentTypeOK, Turns

\* No image gets a second owner as long as nobody has one that its bulletin did not own.
LEMMA OwnersKept ==
  ASSUME ImagesInv, NEW e \in Editors, NEW pc, NEW b, NEW names, NEW former, NEW left,
         Turns(e, pc, b, names, former, left), uploaded' = uploaded,
         pc # "idle" => \A f \in names \cup former : Owns(b, f),
         \A c \in Bulletins : \A f \in listed'[c] : Owns(c, f)
  PROVE  OwnersDiffer'
<1>1. ASSUME NEW c \in Bulletins, NEW f \in Files, Owns(c, f)' PROVE Owns(c, f)
  <2>1. CASE f \in listed'[c]
    BY <2>1
  <2>2. ASSUME NEW d \in Editors, editors'[d].pc # "idle", editors'[d].bulletin = c,
               f \in editors'[d].names \cup editors'[d].former
        PROVE  Owns(c, f)
    BY <2>2 DEF Turns, Owns
  <2> QED BY <1>1, <2>1, <2>2 DEF Owns
<1> QED BY <1>1 DEF ImagesInv, OwnersDiffer

\* The excuses of the others remain.
LEMMA ExcusesKept ==
  ASSUME ImagesInv, NEW e \in Editors, NEW pc, NEW c, NEW names, NEW former, NEW left,
         Turns(e, pc, c, names, former, left), taken \subseteq taken',
         NEW b \in Bulletins, NEW f, Excused(b, f),
         editors[e].bulletin = b =>
           /\ editors[e].pc \in {"scan", "sort", "store"} /\ f \in Disused(e) => Excused(b, f)'
           /\ editors[e].pc = "erase" /\ f \in editors[e].former => Excused(b, f)'
  PROVE  Excused(b, f)'
<1>1. CASE f \in taken
  BY <1>1 DEF Excused
<1>2. ASSUME NEW d \in Editors, editors[d].bulletin = b,
             \/ editors[d].pc \in {"scan", "sort", "store"} /\ f \in Disused(d)
             \/ editors[d].pc = "erase" /\ f \in editors[d].former
      PROVE  Excused(b, f)'
  <2>1. CASE d = e
    BY <1>2, <2>1
  <2>2. CASE d # e
    <3>1. editors'[d] = editors[d] /\ Disused(d)' = Disused(d)
      BY <2>2 DEF Turns, Disused
    <3> QED BY <1>2, <3>1 DEF Excused
  <2> QED BY <2>1, <2>2
<1> QED BY <1>1, <1>2 DEF Excused

\* Nothing is deleted, and the step excused nothing that could be missing.
LEMMA MissingKept ==
  ASSUME ImagesInv, NEW e \in Editors, NEW pc, NEW c, NEW names, NEW former, NEW left,
         Turns(e, pc, c, names, former, left), taken \subseteq taken', permanent \subseteq permanent',
         stored' \subseteq stored, listed' = listed,
         \A b \in stored', f \in Files : editors[e].bulletin = b =>
           /\ editors[e].pc \in {"scan", "sort", "store"} /\ f \in Disused(e) => Excused(b, f)'
           /\ editors[e].pc = "erase" /\ f \in editors[e].former => Excused(b, f)'
  PROVE  NoneMissing'
<1> SUFFICES ASSUME NEW b \in stored', NEW f \in listed'[b], f \notin permanent' PROVE Excused(b, f)'
  BY DEF NoneMissing
<1>1. b \in Bulletins /\ f \in Files
  BY DEF ImagesInv, AttachmentTypeOK
<1>2. Excused(b, f)
  BY DEF ImagesInv, NoneMissing
<1> QED BY <1>1, <1>2, ExcusesKept

-----------------------------------------------------------------------------

LEMMA OpenKeeps ==
  ASSUME ImagesInv, NEW e \in Editors, NEW b \in Bulletins,
         OpenNew(e, b) \/ OpenStored(e, b) \/ BeginRemoval(e, b)
  PROVE  ImagesInv'
<1>1. /\ AttachmentTypeOK /\ editors[e].pc = "idle" /\ NoEditor \in Editor
      /\ UNCHANGED <<stored, listed, temporary, permanent, uploaded>>
  BY DEF ImagesInv, OpenNew, OpenStored, BeginRemoval, Doing, NoEditor, Editor
<1>2. PICK pc \in {"edit", "wipe"}, names \in {{}, listed[b]}, former \in {{}, listed[b]} :
        /\ Turns(e, pc, b, names, former, {})
        /\ pc = "wipe" => names = {}
        /\ names # {} => OpenStored(e, b)
  <2>1. CASE OpenNew(e, b)
    <3>1. editors'[e] = [NoEditor EXCEPT !.pc = "edit", !.bulletin = b]
      BY <1>1, <2>1 DEF OpenNew, AttachmentTypeOK
    <3>2. Turns(e, "edit", b, {}, {}, {})
      BY <1>1, <2>1, <3>1 DEF OpenNew, Turns, AttachmentTypeOK, NoEditor, Editor
    <3> QED BY <3>2
  <2>2. CASE OpenStored(e, b)
    <3>1. editors'[e] = [NoEditor EXCEPT !.pc = "edit", !.bulletin = b, !.names = listed[b]]
      BY <1>1, <2>2 DEF OpenStored, AttachmentTypeOK
    <3>2. Turns(e, "edit", b, listed[b], {}, {})
      BY <1>1, <2>2, <3>1 DEF OpenStored, Turns, AttachmentTypeOK, NoEditor, Editor
    <3> QED BY <2>2, <3>2
  <2>3. CASE BeginRemoval(e, b)
    <3>1. editors'[e] = [NoEditor EXCEPT !.pc = "wipe", !.bulletin = b, !.former = listed[b]]
      BY <1>1, <2>3 DEF BeginRemoval, AttachmentTypeOK
    <3>2. Turns(e, "wipe", b, {}, listed[b], {})
      BY <1>1, <2>3, <3>1 DEF BeginRemoval, Turns, AttachmentTypeOK, NoEditor, Editor
    <3> QED BY <3>2
  <2> QED BY <2>1, <2>2, <2>3
<1>3. taken \subseteq taken' /\ taken' \in SUBSET Files
  BY <1>1 DEF OpenNew, OpenStored, BeginRemoval, AttachmentTypeOK
<1>4. AttachmentTypeOK'
  BY <1>1, <1>2, <1>3 DEF AttachmentTypeOK, Turns
<1>5. OwnersDiffer'
  BY <1>1, <1>2, OwnersKept DEF Owns
<1>6. EditorInv(e)'
  <2>1. OpenStored(e, b) => listed[b] \subseteq permanent \cup taken'
    <3> SUFFICES ASSUME OpenStored(e, b), NEW f \in listed[b], f \notin permanent PROVE f \in taken'
      OBVIOUS
    <3>1. Excused(b, f)
      BY DEF ImagesInv, NoneMissing, OpenStored
    <3>2. CASE f \in taken
      BY <1>3, <3>2
    <3>3. CASE f \notin taken
      <4>1. AtWork(b)
        BY <3>1, <3>3 DEF Excused, AtWork
      <4> QED BY <4>1 DEF OpenStored
    <3> QED BY <3>2, <3>3
  <2> QED BY <1>1, <1>2, <2>1 DEF EditorInv, Turns
<1>7. \A d \in Editors \ {e} : EditorInv(d)'
  BY <1>1, <1>2, <1>3 DEF ImagesInv, EditorInv, Turns
<1>8. NoneMissing'
  BY <1>1, <1>2, <1>3, MissingKept
<1> QED BY <1>4, <1>5, <1>6, <1>7, <1>8 DEF ImagesInv

LEMMA UploadKeeps == ASSUME ImagesInv, NEW e \in Editors, NEW f \in Files, Upload(e, f) PROVE ImagesInv'
<1>1. /\ AttachmentTypeOK /\ editors[e].pc = "edit" /\ f \notin uploaded
      /\ uploaded' = uploaded \cup {f} /\ temporary' = temporary \cup {f}
      /\ UNCHANGED <<stored, listed, permanent, taken>>
  BY DEF ImagesInv, Upload, Doing
<1>2. Turns(e, "edit", editors[e].bulletin, editors[e].names \cup {f}, editors[e].former, editors[e].left)
  BY <1>1 DEF Upload, Turns, AttachmentTypeOK, Editor
<1>3. AttachmentTypeOK'
  BY <1>1, <1>2 DEF AttachmentTypeOK, Turns
<1>4. \A b \in Bulletins : ~Owns(b, f)
  BY <1>1 DEF ImagesInv, OwnersDiffer
<1>5. ASSUME NEW b \in Bulletins, NEW g \in Files
      PROVE  Owns(b, g)' => Owns(b, g) \/ (g = f /\ b = editors[e].bulletin)
  BY <1>1, <1>2 DEF Owns, Turns
<1>6. OwnersDiffer'
  BY <1>1, <1>4, <1>5 DEF ImagesInv, OwnersDiffer
<1>7. ASSUME NEW d \in Editors PROVE EditorInv(d)'
  <2>1. CASE d = e
    BY <1>1, <1>2, <2>1 DEF ImagesInv, EditorInv, Turns
  <2>2. CASE d # e
    <3>1. editors[d].pc # "idle" => f \notin editors[d].names
      BY <1>1, <1>4 DEF AttachmentTypeOK, Owns
    <3> QED BY <1>1, <1>2, <2>2, <3>1 DEF ImagesInv, EditorInv, Turns
  <2> QED BY <2>1, <2>2
<1>8. NoneMissing'
  BY <1>1, <1>2, MissingKept
<1> QED BY <1>3, <1>6, <1>7, <1>8 DEF ImagesInv

\* The steps that change no folder: the content, and where a save begins.
LEMMA DialogKeeps ==
  ASSUME ImagesInv, NEW e \in Editors,
         (\E f \in Files : DropImage(e, f)) \/ CloseDialog(e) \/ BeginSave(e) \/ ScanTemporary(e)
  PROVE  ImagesInv'
<1>1. /\ AttachmentTypeOK /\ editors[e].pc \in {"edit", "scan"}
      /\ UNCHANGED <<stored, listed, temporary, permanent, uploaded, taken>>
  BY DEF ImagesInv, DropImage, CloseDialog, BeginSave, ScanTemporary, Doing
<1>2. CASE \E f \in Files : DropImage(e, f)
  <2>1. PICK f \in Files : DropImage(e, f)
    BY <1>2
  <2>2. /\ Turns(e, "edit", editors[e].bulletin, editors[e].names \ {f}, editors[e].former, editors[e].left)
        /\ editors[e].pc = "edit"
    BY <1>1, <2>1 DEF DropImage, Doing, Turns, AttachmentTypeOK, Editor
  <2>3. AttachmentTypeOK'
    BY <1>1, <2>2 DEF AttachmentTypeOK, Turns
  <2>4. OwnersDiffer'
    BY <1>1, <2>2, OwnersKept DEF Owns
  <2>5. \A d \in Editors : EditorInv(d)'
    BY <1>1, <2>2 DEF ImagesInv, EditorInv, Turns
  <2>6. NoneMissing'
    BY <1>1, <2>2, MissingKept
  <2> QED BY <2>3, <2>4, <2>5, <2>6 DEF ImagesInv
<1>3. CASE CloseDialog(e)
  <2>1. Turns(e, "idle", NoBulletin, {}, {}, {}) /\ editors[e].pc = "edit"
    BY <1>1, <1>3, ClosesTurns DEF CloseDialog, Doing
  <2>2. AttachmentTypeOK'
    BY <1>1, <2>1 DEF AttachmentTypeOK, Turns
  <2>3. OwnersDiffer'
    BY <1>1, <2>1, OwnersKept DEF Owns
  <2>4. \A d \in Editors : EditorInv(d)'
    BY <1>1, <2>1 DEF ImagesInv, EditorInv, Turns
  <2>5. NoneMissing'
    BY <1>1, <2>1, MissingKept
  <2> QED BY <2>2, <2>3, <2>4, <2>5 DEF ImagesInv
<1>4. CASE BeginSave(e)
  <2>1. editors[e].pc = "edit" /\ editors[e].bulletin \in Bulletins
    BY <1>1, <1>4 DEF BeginSave, Doing, AttachmentTypeOK
  <2>2. Turns(e, "clean", editors[e].bulletin, editors[e].names, listed[editors[e].bulletin], editors[e].left)
    BY <1>1, <1>4, <2>1, ZenonT(40) DEF BeginSave, Turns, AttachmentTypeOK, Editor
  <2>3. AttachmentTypeOK'
    BY <1>1, <2>1, <2>2 DEF AttachmentTypeOK, Turns
  <2>4. OwnersDiffer'
    BY <1>1, <2>1, <2>2, OwnersKept DEF Owns
  <2>5. \A d \in Editors : EditorInv(d)'
    BY <1>1, <2>1, <2>2 DEF ImagesInv, EditorInv, Turns
  <2>6. NoneMissing'
    BY <1>1, <2>1, <2>2, MissingKept
  <2> QED BY <2>3, <2>4, <2>5, <2>6 DEF ImagesInv
<1>5. CASE ScanTemporary(e)
  <2>1. editors[e].pc = "scan" /\ editors[e].bulletin \in Bulletins
    BY <1>1, <1>5 DEF ScanTemporary, Doing, AttachmentTypeOK
  <2>2. Turns(e, "sort", editors[e].bulletin, editors[e].names, editors[e].former, temporary)
    BY <1>1, <1>5, <2>1, ZenonT(40) DEF ScanTemporary, Turns, AttachmentTypeOK, Editor
  <2>3. AttachmentTypeOK'
    BY <1>1, <2>1, <2>2 DEF AttachmentTypeOK, Turns
  <2>4. OwnersDiffer'
    BY <1>1, <2>1, <2>2, OwnersKept DEF Owns
  <2>5. \A d \in Editors : EditorInv(d)'
    BY <1>1, <2>1, <2>2 DEF ImagesInv, EditorInv, Turns
  <2>6. NoneMissing'
    <3>1. \A b \in stored', f \in Files : editors[e].bulletin = b /\ f \in Disused(e) => Excused(b, f)'
      BY <2>2 DEF Excused, Disused, Turns
    <3> QED BY <1>1, <2>1, <2>2, <3>1, MissingKept
  <2> QED BY <2>3, <2>4, <2>5, <2>6 DEF ImagesInv
<1> QED BY <1>2, <1>3, <1>4, <1>5

\* Images are deleted by e: from both folders or one, and whoever else had them is noticed.
LEMMA DeletionKeeps ==
  ASSUME ImagesInv, NEW e \in Editors, DeleteUnused(e) \/ WipeFiles(e)
  PROVE  ImagesInv'
<1>1. PICK gone \in SUBSET Files, pc \in {"scan", "erase"} :
        /\ Turns(e, pc, editors[e].bulletin, editors[e].names, editors[e].former, editors[e].left)
        /\ permanent' = permanent \ gone /\ temporary' \in {temporary, temporary \ gone}
        /\ taken' = taken \cup {f \in gone : UsedElsewhere(e, f)}
        /\ gone \subseteq editors[e].former
        /\ pc = "scan" => gone = Disused(e) /\ editors[e].pc = "clean"
        /\ pc = "erase" => gone = editors[e].former /\ editors[e].pc = "wipe"
  <2>1. AttachmentTypeOK /\ editors[e] \in Editor
    BY DEF ImagesInv, AttachmentTypeOK
  <2>2. CASE DeleteUnused(e)
    <3>1. Turns(e, "scan", editors[e].bulletin, editors[e].names, editors[e].former, editors[e].left)
      BY <2>1, <2>2, GoesTurns DEF DeleteUnused
    <3>2. Disused(e) \in SUBSET Files /\ Disused(e) \subseteq editors[e].former
      BY <2>1 DEF Disused, Editor
    <3> QED BY <2>2, <3>1, <3>2 DEF DeleteUnused, Doing
  <2>3. CASE WipeFiles(e)
    <3>1. Turns(e, "erase", editors[e].bulletin, editors[e].names, editors[e].former, editors[e].left)
      BY <2>1, <2>3, GoesTurns DEF WipeFiles
    <3>2. editors[e].former \in SUBSET Files
      BY <2>1 DEF Editor
    <3> QED BY <2>3, <3>1, <3>2 DEF WipeFiles, Doing
  <2> QED BY <2>2, <2>3
<1>2. AttachmentTypeOK /\ editors[e].pc \in {"clean", "wipe"} /\ editors[e].bulletin \in Bulletins
      /\ UNCHANGED <<stored, listed, uploaded>>
  BY DEF ImagesInv, AttachmentTypeOK, DeleteUnused, WipeFiles, Doing
<1>3. AttachmentTypeOK'
  BY <1>1, <1>2 DEF AttachmentTypeOK, Turns
<1>4. OwnersDiffer'
  BY <1>1, <1>2, OwnersKept DEF Owns
<1>5. EditorInv(e)'
  BY <1>1, <1>2 DEF ImagesInv, EditorInv, Turns, Disused
<1>6. ASSUME NEW d \in Editors \ {e} PROVE EditorInv(d)'
  <2>1. \A f \in gone : editors[d].pc # "idle" /\ f \in editors[d].names => f \in taken'
    BY <1>1 DEF UsedElsewhere
  <2> QED BY <1>1, <2>1 DEF ImagesInv, EditorInv, Turns
<1>7. NoneMissing'
  <2> SUFFICES ASSUME NEW b \in stored, NEW f \in listed[b], f \notin permanent' PROVE Excused(b, f)'
    BY <1>2 DEF NoneMissing
  <2>1. b \in Bulletins /\ f \in Files
    BY <1>2 DEF AttachmentTypeOK
  <2>2. CASE f \in gone
    <3>1. Owns(b, f) /\ Owns(editors[e].bulletin, f)
      BY <1>1, <1>2, <2>2 DEF Owns
    <3>2. editors[e].bulletin = b
      BY <1>2, <2>1, <3>1 DEF ImagesInv, OwnersDiffer
    <3> QED BY <1>1, <2>2, <3>2 DEF Excused, Turns, Disused
  <2>3. CASE f \notin gone
    <3>1. Excused(b, f)
      BY <1>1, <2>3 DEF ImagesInv, NoneMissing
    <3> QED BY <1>1, <1>2, <2>1, <3>1, ExcusesKept
  <2> QED BY <2>2, <2>3
<1> QED BY <1>3, <1>4, <1>5, <1>6, <1>7 DEF ImagesInv

LEMMA SortFileKeeps == ASSUME ImagesInv, NEW e \in Editors, NEW f \in Files, SortFile(e, f) PROVE ImagesInv'
<1>1. /\ AttachmentTypeOK /\ editors[e].pc = "sort"
      /\ UNCHANGED <<stored, listed, uploaded>>
      /\ temporary' = temporary \ {f}
      /\ permanent' = IF f \in editors[e].names /\ f \in temporary THEN permanent \cup {f} ELSE permanent
      /\ taken' = IF f \notin editors[e].names /\ f \in temporary /\ UsedElsewhere(e, f) THEN taken \cup {f} ELSE taken
  BY DEF ImagesInv, SortFile, Doing
<1>2. Turns(e, "sort", editors[e].bulletin, editors[e].names, editors[e].former, editors[e].left \ {f})
  <2>1. PICK new : new = [editors[e] EXCEPT !.left = @ \ {f}, !.failed = @ \/ f \notin temporary]
    OBVIOUS
  <2>2. editors[e] \in Editor
    BY <1>1 DEF AttachmentTypeOK
  <2>3. /\ new \in Editor
        /\ new.pc = "sort" /\ new.bulletin = editors[e].bulletin /\ new.names = editors[e].names
        /\ new.former = editors[e].former /\ new.left = editors[e].left \ {f}
    BY <1>1, <2>1, <2>2 DEF Editor
  <2>4. editors' = [editors EXCEPT ![e] = new]
    BY <2>1 DEF SortFile
  <2> QED BY <1>1, <2>3, <2>4 DEF Turns, AttachmentTypeOK
<1>3. AttachmentTypeOK'
  BY <1>1, <1>2 DEF AttachmentTypeOK, Turns
<1>4. OwnersDiffer'
  BY <1>1, <1>2, OwnersKept DEF Owns
<1>5. EditorInv(e)'
  BY <1>1, <1>2 DEF ImagesInv, EditorInv, Turns
<1>6. ASSUME NEW d \in Editors \ {e} PROVE EditorInv(d)'
  <2>1. editors[d].pc # "idle" /\ f \in editors[d].names /\ f \in temporary => f \in permanent' \cup taken'
    BY <1>1 DEF UsedElsewhere
  <2> QED BY <1>1, <1>2, <2>1 DEF ImagesInv, EditorInv, Turns
<1>7. NoneMissing'
  <2>1. \A b \in stored', g \in Files : editors[e].bulletin = b /\ g \in Disused(e) => Excused(b, g)'
    BY <1>2 DEF Excused, Disused, Turns
  <2> QED BY <1>1, <1>2, <2>1, MissingKept
<1> QED BY <1>3, <1>4, <1>5, <1>6, <1>7 DEF ImagesInv

\* The folder was gone through, or the document could not be saved.
LEMMA SaveGoesOnKeeps == ASSUME ImagesInv, NEW e \in Editors, SortEnds(e) \/ StoreFails(e) PROVE ImagesInv'
<1>1. /\ AttachmentTypeOK /\ editors[e].pc \in {"sort", "store"}
      /\ UNCHANGED <<stored, listed, temporary, permanent, uploaded>>
  BY DEF ImagesInv, SortEnds, StoreFails, Doing
<1>2. PICK pc \in {"edit", "store"} :
        /\ Turns(e, pc, editors[e].bulletin, editors[e].names, editors[e].former, editors[e].left)
        /\ pc = "edit" => taken' = taken \cup Disused(e)
        /\ pc = "store" => taken' = taken /\ editors[e].left = {} /\ editors[e].pc = "sort"
  <2>1. CASE StoreFails(e)
    BY <1>1, <2>1, GoesTurns DEF StoreFails
  <2>2. CASE SortEnds(e) /\ editors[e].failed
    <3>1. editors' = [editors EXCEPT ![e].pc = "edit", ![e].failed = FALSE] /\ taken' = taken \cup Disused(e)
      BY <2>2 DEF SortEnds
    <3>2. Turns(e, "edit", editors[e].bulletin, editors[e].names, editors[e].former, editors[e].left)
      BY <1>1, <3>1, ZenonT(40) DEF Turns, AttachmentTypeOK, Editor
    <3> QED BY <3>1, <3>2
  <2>3. CASE SortEnds(e) /\ ~editors[e].failed
    BY <1>1, <2>3, GoesTurns DEF SortEnds, Doing
  <2> QED BY <2>1, <2>2, <2>3
<1>3. taken \subseteq taken' /\ taken' \in SUBSET Files
  BY <1>1, <1>2 DEF Disused, AttachmentTypeOK, Editor
<1>4. AttachmentTypeOK'
  BY <1>1, <1>2, <1>3 DEF AttachmentTypeOK, Turns
<1>5. OwnersDiffer'
  BY <1>1, <1>2, OwnersKept DEF Owns
<1>6. \A d \in Editors : EditorInv(d)'
  BY <1>1, <1>2, <1>3 DEF ImagesInv, EditorInv, Turns
<1>7. NoneMissing'
  <2>1. \A b \in stored', f \in Files : editors[e].bulletin = b /\ f \in Disused(e) => Excused(b, f)'
    BY <1>2 DEF Excused, Disused, Turns
  <2> QED BY <1>1, <1>2, <1>3, <2>1, MissingKept
<1> QED BY <1>4, <1>5, <1>6, <1>7 DEF ImagesInv

\* What is listed now was gone through: it is in the permanent folder or was taken.
LEMMA StoreBulletinKeeps == ASSUME ImagesInv, NEW e \in Editors, StoreBulletin(e) PROVE ImagesInv'
<1> DEFINE b == editors[e].bulletin
           names == editors[e].names
<1>1. /\ AttachmentTypeOK /\ editors[e].pc = "store" /\ b \in Bulletins /\ editors[e] \in Editor
      /\ b \in stored \/ (editors[e].former = {} /\ listed[b] = {})
      /\ stored' = stored \cup {b}
      /\ listed' = IF names # editors[e].former THEN [listed EXCEPT ![b] = names] ELSE listed
      /\ UNCHANGED <<temporary, permanent, uploaded, taken>>
  BY DEF ImagesInv, AttachmentTypeOK, StoreBulletin, Doing
<1>2. Turns(e, "idle", NoBulletin, {}, {}, {})
  BY <1>1, ClosesTurns DEF StoreBulletin
<1>3. AttachmentTypeOK'
  BY <1>1, <1>2 DEF AttachmentTypeOK, Turns, Editor
<1>4. OwnersDiffer'
  <2>1. \A c \in Bulletins : \A f \in listed'[c] : Owns(c, f)
    BY <1>1 DEF Owns, AttachmentTypeOK
  <2> QED BY <1>1, <1>2, <2>1, OwnersKept
<1>5. \A d \in Editors : EditorInv(d)'
  BY <1>1, <1>2 DEF ImagesInv, EditorInv, Turns
<1>6. NoneMissing'
  <2> SUFFICES ASSUME NEW c \in stored', NEW f \in listed'[c], f \notin permanent PROVE Excused(c, f)'
    BY <1>1 DEF NoneMissing
  <2>1. c \in Bulletins /\ f \in Files
    BY <1>3 DEF AttachmentTypeOK
  <2>2. CASE c = b /\ names # editors[e].former
    <3>1. f \in names
      BY <1>1, <2>2 DEF AttachmentTypeOK
    <3>2. f \in taken
      BY <1>1, <3>1 DEF ImagesInv, EditorInv
    <3> QED BY <1>1, <3>2 DEF Excused
  <2>3. CASE c = b /\ names = editors[e].former
    <3>1. Excused(c, f)
      BY <1>1, <2>3 DEF ImagesInv, NoneMissing
    <3>2. f \notin Disused(e)
      BY <2>3 DEF Disused
    <3> QED BY <1>1, <1>2, <2>1, <3>1, <3>2, ExcusesKept
  <2>4. CASE c # b
    <3>1. c \in stored /\ listed'[c] = listed[c]
      BY <1>1, <2>1, <2>4 DEF AttachmentTypeOK
    <3>2. Excused(c, f)
      BY <3>1 DEF ImagesInv, NoneMissing
    <3> QED BY <1>1, <1>2, <2>1, <2>4, <3>2, ExcusesKept
  <2> QED BY <2>2, <2>3, <2>4
<1> QED BY <1>3, <1>4, <1>5, <1>6 DEF ImagesInv

LEMMA EraseBulletinKeeps == ASSUME ImagesInv, NEW e \in Editors, EraseBulletin(e) PROVE ImagesInv'
<1>1. /\ AttachmentTypeOK /\ editors[e].pc = "erase" /\ editors[e] \in Editor
      /\ UNCHANGED <<listed, temporary, permanent, uploaded>>
      /\ \/ stored' = stored \ {editors[e].bulletin} /\ taken' = taken
         \/ taken' = taken \cup editors[e].former /\ stored' = stored
  BY DEF ImagesInv, AttachmentTypeOK, EraseBulletin, Doing
<1>2. Turns(e, "idle", NoBulletin, {}, {}, {})
  BY <1>1, ClosesTurns DEF EraseBulletin
<1>3. AttachmentTypeOK' /\ taken \subseteq taken'
  BY <1>1, <1>2 DEF AttachmentTypeOK, Turns, Editor
<1>4. OwnersDiffer'
  BY <1>1, <1>2, OwnersKept DEF Owns
<1>5. \A d \in Editors : EditorInv(d)'
  BY <1>1, <1>2, <1>3 DEF ImagesInv, EditorInv, Turns
<1>6. NoneMissing'
  <2>1. \A b \in stored', f \in Files : editors[e].bulletin = b /\ f \in editors[e].former => Excused(b, f)'
    BY <1>1 DEF Excused
  <2> QED BY <1>1, <1>2, <1>3, <2>1, MissingKept
<1> QED BY <1>3, <1>4, <1>5, <1>6 DEF ImagesInv

LEMMA ImagesInvKept == ASSUME ImagesInv, [AttachmentNext]_attachmentVars PROVE ImagesInv'
<1>1. CASE \E e \in Editors, b \in Bulletins : OpenNew(e, b) \/ OpenStored(e, b) \/ BeginRemoval(e, b)
  BY <1>1, OpenKeeps
<1>2. CASE \E e \in Editors, f \in Files : Upload(e, f) \/ SortFile(e, f)
  BY <1>2, UploadKeeps, SortFileKeeps
<1>3. CASE \E e \in Editors : (\E f \in Files : DropImage(e, f)) \/ CloseDialog(e) \/ BeginSave(e) \/ ScanTemporary(e)
  BY <1>3, DialogKeeps
<1>4. CASE \E e \in Editors :
             DeleteUnused(e) \/ WipeFiles(e) \/ SortEnds(e) \/ StoreFails(e) \/ StoreBulletin(e) \/ EraseBulletin(e)
  BY <1>4, DeletionKeeps, SaveGoesOnKeeps, StoreBulletinKeeps, EraseBulletinKeeps
<1>5. CASE UNCHANGED attachmentVars
  BY <1>5 DEF attachmentVars, ImagesInv, AttachmentTypeOK, OwnersDiffer, Owns, EditorInv, NoneMissing, Excused, Disused
<1> QED BY <1>1, <1>2, <1>3, <1>4, <1>5 DEF AttachmentNext

\* Every image a bulletin lists is in the permanent folder, but for the exceptions the
\* invariant names, for any number of bulletins, editors and files
\* (updateBulletinAttachments, updateBulletin, removeBulletins).
THEOREM ImagesLostOnly == AttachmentSpec => []ImagesLostOnlyByOthers
<1>1. ImagesInv /\ [AttachmentNext]_attachmentVars => ImagesInv'
  BY ImagesInvKept
<1>2. ImagesInv => ImagesLostOnlyByOthers
  BY DEF ImagesInv, NoneMissing, Excused, ImagesLostOnlyByOthers
<1> QED BY <1>1, <1>2, ImagesInitHolds, PTL DEF AttachmentSpec

-----------------------------------------------------------------------------
(***************************************************************************)
(* The positions of apps.  A call that has begun to move or delete an app  *)
(* leaves the positions as they should be once its last command was served; *)
(* everybody else finds them so.                                           *)
(***************************************************************************)

Placed(p) == {a \in AppNames : p[a] # 0}

\* Every position up to the number of apps is that of one app.
Arranged(p) ==
  /\ \A a \in AppNames : p[a] <= Cardinality(Placed(p))
  /\ \A i \in 1..Cardinality(Placed(p)) : \E a \in AppNames : p[a] = i
  /\ \A a, b \in AppNames : p[a] = p[b] /\ p[a] # 0 => a = b

\* The positions after the last command of a call.
ClosedUp(p, old) == [a \in AppNames |-> IF p[a] > old THEN p[a] - 1 ELSE p[a]]

After(c) ==
  IF posCalls[c].pc = "close" THEN ClosedUp(position, posCalls[c].old)
  ELSE [position EXCEPT ![posCalls[c].app] = posCalls[c].pos]

\* What a call has read is still so.
StillSo(c) ==
  LET a == posCalls[c].app IN
  /\ posCalls[c].pc = "insert" => posCalls[c].pos = Count + 1
  /\ posCalls[c].pc \in {"shift", "write", "erase"} => position[a] = posCalls[c].old
  /\ posCalls[c].pc = "shift" => posCalls[c].old \notin {0, posCalls[c].pos}
  /\ posCalls[c].pc \in {"shift", "write"} =>
       IF posCalls[c].old = 0 THEN posCalls[c].pos = Count + 1 ELSE posCalls[c].pos \in 1..Count

Orderly ==
  /\ \A c, d \in PosCalls : Acting(c) /\ Acting(d) => c = d
  /\ (\A c \in PosCalls : ~Halfway(c)) => Arranged(position)
  /\ \A c \in PosCalls : Halfway(c) => Arranged(After(c))
  /\ \A c \in PosCalls : Acting(c) => StillSo(c)

\* A page for the settings of an app has a position chosen.
Chosen(c) == posCalls[c].pc = "read" /\ posCalls[c].kind = "update" => posCalls[c].pos # 0

PosInv ==
  /\ PosTypeOK
  /\ \A c \in PosCalls : Chosen(c)
  /\ disarranged \/ Orderly

LEMMA PlacedFinite ==
  ASSUME NEW p \in [AppNames -> Nat]
  PROVE  IsFiniteSet(Placed(p)) /\ Cardinality(Placed(p)) \in Nat
BY AppNamesAssumption, FS_Subset, FS_CardinalityType DEF Placed

\* A new app at the end.
LEMMA EndArranged ==
  ASSUME NEW p \in [AppNames -> Nat], Arranged(p), NEW a \in AppNames, p[a] = 0
  PROVE  Arranged([p EXCEPT ![a] = Cardinality(Placed(p)) + 1])
<1> DEFINE n == Cardinality(Placed(p))
           q == [p EXCEPT ![a] = n + 1]
<1>1. n \in Nat /\ IsFiniteSet(Placed(p))
  BY PlacedFinite
<1>2. Placed(q) = Placed(p) \cup {a}
  BY <1>1 DEF Placed
<1>3. Cardinality(Placed(q)) = n + 1
  BY <1>1, <1>2, FS_AddElement DEF Placed
<1>4. q[a] = n + 1 /\ \A b \in AppNames \ {a} : q[b] = p[b] /\ q[b] \in Nat /\ q[b] <= n
  BY DEF Arranged
<1>5. \A b \in AppNames : q[b] <= n + 1
  BY <1>1, <1>4
<1>6. \A i \in 1..(n + 1) : \E b \in AppNames : q[b] = i
  <2> TAKE i \in 1..(n + 1)
  <2>1. CASE i = n + 1
    BY <2>1, <1>4
  <2>2. CASE i # n + 1
    <3>1. i \in 1..n
      BY <2>2, <1>1
    <3>2. PICK b \in AppNames : p[b] = i
      BY <3>1 DEF Arranged
    <3> QED BY <3>1, <3>2, <1>1, <1>4
  <2> QED BY <2>1, <2>2
<1>7. \A b, d \in AppNames : q[b] = q[d] /\ q[b] # 0 => b = d
  BY <1>1, <1>4 DEF Arranged
<1> HIDE DEF n, q
<1>8. Arranged(q)
  BY <1>3, <1>5, <1>6, <1>7 DEF Arranged
<1> QED BY <1>8 DEF n, q

ShiftOf(p, old, new) ==
  [a \in AppNames |->
    IF p[a] > old /\ p[a] <= new THEN p[a] - 1
    ELSE IF p[a] >= new /\ p[a] < old THEN p[a] + 1
    ELSE p[a]]

\* An app moves and those in between make room.
LEMMA MoveArranged ==
  ASSUME NEW p \in [AppNames -> Nat], Arranged(p), NEW a \in AppNames,
         NEW old, p[a] = old, old # 0,
         NEW new \in 1..Cardinality(Placed(p)), new # old
  PROVE  /\ ShiftOf(p, old, new) \in [AppNames -> Nat]
         /\ ShiftOf(p, old, new)[a] = old
         /\ Placed(ShiftOf(p, old, new)) = Placed(p)
         /\ Arranged([ShiftOf(p, old, new) EXCEPT ![a] = new])
<1> DEFINE n == Cardinality(Placed(p))
           s == ShiftOf(p, old, new)
           q == [s EXCEPT ![a] = new]
<1>1. n \in Nat /\ old \in 1..n /\ new \in 1..n
  BY PlacedFinite DEF Arranged
<1>2. s \in [AppNames -> Nat] /\ s[a] = old
  BY <1>1 DEF ShiftOf
<1>3. \A b \in AppNames : (s[b] = 0 <=> p[b] = 0)
  BY <1>1 DEF ShiftOf
<1>4. Placed(s) = Placed(p)
  BY <1>3 DEF Placed
<1>5. Placed(q) = Placed(p)
  BY <1>1, <1>2, <1>3 DEF Placed
<1>6. q \in [AppNames -> Nat] /\ q[a] = new /\ \A b \in AppNames \ {a} : q[b] = s[b] /\ p[b] # old
  BY <1>1, <1>2 DEF Arranged
<1>7. \A b \in AppNames : q[b] <= n
  BY <1>1, <1>2, <1>6 DEF ShiftOf, Arranged
<1>8. \A i \in 1..n : \E b \in AppNames : q[b] = i
  <2> SUFFICES ASSUME NEW i \in 1..n PROVE \E b \in AppNames : q[b] = i
    OBVIOUS
  <2> DEFINE from == IF i = new THEN old
                     ELSE IF i >= old /\ i < new THEN i + 1
                     ELSE IF i > new /\ i <= old THEN i - 1 ELSE i
  <2>1. CASE i = new
    BY <2>1, <1>6
  <2>2. CASE i # new
    <3>1. from \in 1..n /\ from # old
      BY <1>1, <2>2
    <3>2. PICK b \in AppNames : p[b] = from
      BY <3>1 DEF Arranged
    <3>3. b # a
      BY <3>1, <3>2
    <3>4. s[b] = i
      BY <3>1, <3>2, <2>2, <1>1 DEF ShiftOf
    <3> QED BY <3>3, <3>4, <1>2
  <2> QED BY <2>1, <2>2
<1>9. \A b, d \in AppNames : q[b] = q[d] /\ q[b] # 0 => b = d
  <2> SUFFICES ASSUME NEW b \in AppNames, NEW d \in AppNames, q[b] = q[d], q[b] # 0, b # d PROVE FALSE
    OBVIOUS
  <2>1. \A x \in AppNames \ {a} : q[x] # 0 => p[x] # old /\ q[x] = s[x] /\ p[x] \in 1..n
    BY <1>1, <1>2, <1>3 DEF Arranged
  <2>2. \A x \in AppNames : p[x] \in 1..n /\ p[x] # old => s[x] # new
    BY <1>1 DEF ShiftOf
  <2>3. \A x, y \in AppNames : p[x] \in 1..n /\ p[x] # old /\ p[y] \in 1..n /\ p[y] # old /\ s[x] = s[y]
           => p[x] = p[y]
    BY <1>1 DEF ShiftOf
  <2>4. b # a /\ d # a
    BY <2>1, <2>2, <1>6
  <2>5. p[b] = p[d] /\ p[b] # 0
    BY <2>1, <2>3, <2>4
  <2> QED BY <2>5 DEF Arranged
<1> QED BY <1>2, <1>4, <1>5, <1>7, <1>8, <1>9 DEF Arranged

\* An app goes and those behind it move up.
LEMMA DeleteArranged ==
  ASSUME NEW p \in [AppNames -> Nat], Arranged(p), NEW a \in AppNames,
         NEW old, p[a] = old, old # 0
  PROVE  Arranged(ClosedUp([p EXCEPT ![a] = 0], old))
<1> DEFINE n == Cardinality(Placed(p))
           q == ClosedUp([p EXCEPT ![a] = 0], old)
<1>1. n \in Nat /\ old \in 1..n /\ IsFiniteSet(Placed(p))
  BY PlacedFinite DEF Arranged
<1>2. q[a] = 0
  BY <1>1 DEF ClosedUp
<1>3. \A b \in AppNames \ {a} : p[b] \in 0..n /\ p[b] # old
  BY <1>1 DEF Arranged
<1>4. \A b \in AppNames \ {a} :
        /\ p[b] > old => q[b] = p[b] - 1
        /\ ~(p[b] > old) => q[b] = p[b]
  BY DEF ClosedUp
<1> HIDE DEF q
<1>5. \A b \in AppNames \ {a} : (q[b] = 0 <=> p[b] = 0) /\ q[b] \in 0..(n - 1)
  <2> TAKE b \in AppNames \ {a}
  <2>1. CASE p[b] > old
    BY <2>1, <1>1, <1>3, <1>4
  <2>2. CASE ~(p[b] > old)
    BY <2>2, <1>1, <1>3, <1>4
  <2> QED BY <2>1, <2>2
<1>6. Placed(q) = Placed(p) \ {a} /\ a \in Placed(p)
  BY <1>2, <1>5 DEF Placed
<1>7. Cardinality(Placed(q)) = n - 1
  BY <1>1, <1>6, FS_RemoveElement
<1>8. \A b \in AppNames : q[b] <= n - 1
  BY <1>1, <1>2, <1>5
<1>9. \A i \in 1..(n - 1) : \E b \in AppNames : q[b] = i
  <2> SUFFICES ASSUME NEW i \in 1..(n - 1) PROVE \E b \in AppNames : q[b] = i
    OBVIOUS
  <2> DEFINE from == IF i >= old THEN i + 1 ELSE i
  <2>1. from \in 1..n /\ from # old
    BY <1>1
  <2>2. PICK b \in AppNames : p[b] = from
    BY <2>1 DEF Arranged
  <2>3. b \in AppNames \ {a}
    BY <2>1, <2>2
  <2>4. CASE i >= old
    BY <2>4, <1>1, <1>4, <2>2, <2>3
  <2>5. CASE ~(i >= old)
    BY <2>5, <1>1, <1>4, <2>2, <2>3
  <2> QED BY <2>4, <2>5
<1>10. \A b, d \in AppNames : q[b] = q[d] /\ q[b] # 0 => b = d
  <2> SUFFICES ASSUME NEW b \in AppNames, NEW d \in AppNames, q[b] = q[d], q[b] # 0 PROVE b = d
    OBVIOUS
  <2>1. b \in AppNames \ {a} /\ d \in AppNames \ {a}
    BY <1>2
  <2>2. p[b] = p[d]
    <3>1. CASE p[b] > old /\ p[d] > old
      BY <3>1, <2>1, <1>1, <1>3, <1>4
    <3>2. CASE ~(p[b] > old) /\ ~(p[d] > old)
      BY <3>2, <2>1, <1>4
    <3>3. CASE p[b] > old /\ ~(p[d] > old)
      BY <3>3, <2>1, <1>1, <1>3, <1>4
    <3>4. CASE ~(p[b] > old) /\ p[d] > old
      BY <3>4, <2>1, <1>1, <1>3, <1>4
    <3> QED BY <3>1, <3>2, <3>3, <3>4
  <2>3. p[b] # 0
    BY <2>1, <1>5
  <2> QED BY <2>2, <2>3 DEF Arranged
<1> HIDE DEF n
<1>11. Arranged(q)
  BY <1>7, <1>8, <1>9, <1>10 DEF Arranged
<1> QED BY <1>11 DEF q

LEMMA NumberedArranged ==
  ASSUME NEW p \in Numbered(DefaultApps)
  PROVE  p \in [AppNames -> Nat] /\ Arranged(p)
<1>1. Cardinality(DefaultApps) \in Nat
  BY AppNamesAssumption, FS_Subset, FS_CardinalityType
<1>2. Placed(p) = DefaultApps
  BY DEF Numbered, Placed
<1>3. p \in [AppNames -> Nat]
  BY <1>1 DEF Numbered
<1>4. \A a \in AppNames : p[a] <= Cardinality(DefaultApps)
  BY <1>1 DEF Numbered
<1>5. \A i \in 1..Cardinality(DefaultApps) : \E a \in AppNames : p[a] = i
  BY AppNamesAssumption DEF Numbered
<1>6. \A a, b \in AppNames : p[a] = p[b] /\ p[a] # 0 => a = b
  BY DEF Numbered
<1> QED BY <1>2, <1>3, <1>4, <1>5, <1>6 DEF Arranged

LEMMA PosInitHolds == PosInit => PosInv
<1> SUFFICES ASSUME PosInit PROVE PosInv
  OBVIOUS
<1>1. PosTypeOK
  BY NumberedArranged DEF PosInit, PosTypeOK, IdlePos, PosKinds, PosPcs
<1>4. Arranged(position)
  BY NumberedArranged DEF PosInit
<1>5. Orderly
  BY <1>4 DEF PosInit, Orderly, Acting, Halfway, IdlePos
<1> QED BY <1>1, <1>5 DEF PosInv, Chosen, PosInit, IdlePos

\* Only call c changes.
Only(c) == \A d \in PosCalls \ {c} : posCalls'[d] = posCalls[d]

LEMMA OthersStay ==
  ASSUME NEW c \in PosCalls, Only(c)
  PROVE  \A d \in PosCalls \ {c} : (Acting(d)' <=> Acting(d)) /\ (Halfway(d)' <=> Halfway(d))
BY DEF Only, Acting, Halfway

LEMMA HalfwayActs == \A c \in PosCalls : Halfway(c) => Acting(c)
BY DEF Halfway, Acting

LEMMA HalfwayActsNext == \A c \in PosCalls : Halfway(c)' => Acting(c)'
BY DEF Halfway, Acting

\* A page is opened or closed.
LEMMA PageKeeps ==
  ASSUME Orderly, NEW c \in PosCalls, Only(c), position' = position, ~Acting(c), ~Acting(c)'
  PROVE  Orderly'
<1>1. \A d \in PosCalls : (Acting(d)' <=> Acting(d)) /\ (Halfway(d)' <=> Halfway(d))
  BY OthersStay, HalfwayActs, HalfwayActsNext
<1>2. \A d \in PosCalls : Acting(d) => d # c
  OBVIOUS
<1>3. \A d \in PosCalls \ {c} : After(d)' = After(d) /\ (StillSo(d)' <=> StillSo(d))
  BY DEF Only, After, StillSo, Count, StoredApps
<1>4. Arranged(position)' <=> Arranged(position)
  BY DEF Arranged, Placed
<1>5. \A d \in PosCalls \ {c} : Arranged(After(d)) => Arranged(After(d))'
  BY <1>3 DEF Arranged, Placed
<1> QED BY <1>1, <1>2, <1>3, <1>4, <1>5, HalfwayActs DEF Orderly

\* A call reads while nobody else acts.
LEMMA BeginKeeps ==
  ASSUME Orderly, NEW c \in PosCalls, Only(c), position' = position, ~Acting(c), ~Overlaps(c),
         ~Halfway(c)', Acting(c)' => StillSo(c)'
  PROVE  Orderly'
<1>1. \A d \in PosCalls : ~Acting(d)
  BY DEF Overlaps
<1>2. \A d \in PosCalls : Acting(d)' => d = c
  BY <1>1, OthersStay
<1>3. \A d \in PosCalls : ~Halfway(d)'
  BY <1>2, HalfwayActsNext
<1>4. Arranged(position)'
  BY <1>1, HalfwayActs DEF Orderly, Arranged, Placed
<1> QED BY <1>2, <1>3, <1>4 DEF Orderly

\* The acting call ends.
LEMMA EndKeeps ==
  ASSUME Orderly, NEW c \in PosCalls, Only(c), Acting(c), ~Acting(c)', Arranged(position')
  PROVE  Orderly'
<1>1. \A d \in PosCalls : ~Acting(d)'
  BY OthersStay DEF Orderly
<1>2. \A d \in PosCalls : ~Halfway(d)'
  BY <1>1, HalfwayActsNext
<1>3. Arranged(position)'
  BY DEF Arranged, Placed
<1> QED BY <1>1, <1>2, <1>3 DEF Orderly

\* The acting call is halfway.
LEMMA MiddleKeeps ==
  ASSUME Orderly, NEW c \in PosCalls, Only(c), Acting(c), Halfway(c)', Arranged(After(c)'), StillSo(c)'
  PROVE  Orderly'
<1>1. \A d \in PosCalls : Acting(d)' => d = c
  BY OthersStay DEF Orderly
<1>2. \A d \in PosCalls : Halfway(d)' => d = c
  BY <1>1, HalfwayActsNext
<1>3. Arranged(After(c))'
  BY DEF Arranged, Placed
<1> QED BY <1>1, <1>2, <1>3 DEF Orderly

LEMMA CountOfPlaced == Count = Cardinality(Placed(position))
BY DEF Count, StoredApps, Placed

\* Somebody acts and is not halfway: the positions are arranged.
LEMMA ActingFindsArranged ==
  ASSUME Orderly, NEW c \in PosCalls, Acting(c), ~Halfway(c)
  PROVE  Arranged(position)
<1>1. \A d \in PosCalls : ~Halfway(d)
  BY HalfwayActs DEF Orderly
<1> QED BY <1>1 DEF Orderly

LEMMA InsertKeeps == ASSUME PosTypeOK, Orderly, NEW c \in PosCalls, InsertApp(c) PROVE Orderly'
<1> DEFINE a == posCalls[c].app
<1>1. Acting(c) /\ ~Halfway(c) /\ ~Acting(c)' /\ Only(c)
  BY DEF InsertApp, PosEnds, PosTypeOK, Acting, Halfway, Only, IdlePos
<1>2. Arranged(position)
  BY <1>1, ActingFindsArranged
<1>3. a \in AppNames /\ posCalls[c].pos = Cardinality(Placed(position)) + 1
  BY <1>1, CountOfPlaced DEF InsertApp, PosTypeOK, Orderly, StillSo
<1>4. Arranged(position')
  BY <1>2, <1>3, EndArranged DEF InsertApp, PosTypeOK
<1> QED BY <1>1, <1>4, EndKeeps

LEMMA ShiftKeeps == ASSUME PosTypeOK, Orderly, NEW c \in PosCalls, ShiftApps(c) PROVE Orderly'
<1> DEFINE a == posCalls[c].app
           old == posCalls[c].old
           new == posCalls[c].pos
<1>1. Acting(c) /\ ~Halfway(c) /\ Only(c)
  BY DEF ShiftApps, PosMoves, PosTypeOK, Acting, Halfway, Only
<1>2. posCalls'[c] = [posCalls[c] EXCEPT !.pc = "write"]
  BY DEF ShiftApps, PosMoves, PosTypeOK
<1>3. Arranged(position)
  BY <1>1, ActingFindsArranged
<1>4. a \in AppNames /\ position[a] = old /\ old # 0 /\ new # old /\ new \in 1..Count
  BY <1>1 DEF ShiftApps, PosTypeOK, Orderly, StillSo
<1>5. position' = ShiftOf(position, old, new)
  BY DEF ShiftApps, Shifted, ShiftOf
<1>6. /\ position'[a] = old
      /\ Placed(position') = Placed(position)
      /\ Arranged([position' EXCEPT ![a] = new])
  BY <1>3, <1>4, <1>5, MoveArranged, CountOfPlaced DEF PosTypeOK
<1>7. Count' = Count
  BY <1>6 DEF Count, StoredApps, Placed
<1>8. posCalls'[c].pc = "write" /\ posCalls'[c].app = a /\ posCalls'[c].old = old /\ posCalls'[c].pos = new
  BY <1>2 DEF PosTypeOK
<1>9. Halfway(c)'
  BY <1>8, <1>4 DEF Halfway
<1>10. After(c)' = [position' EXCEPT ![a] = new]
  BY <1>8 DEF After
<1>11. StillSo(c)'
  BY <1>4, <1>6, <1>7, <1>8 DEF StillSo
<1> QED BY <1>1, <1>6, <1>9, <1>10, <1>11, MiddleKeeps

LEMMA WriteKeeps == ASSUME PosTypeOK, Orderly, NEW c \in PosCalls, WriteApp(c) PROVE Orderly'
<1> DEFINE a == posCalls[c].app
<1>1. Acting(c) /\ ~Acting(c)' /\ Only(c)
  BY DEF WriteApp, PosEnds, PosTypeOK, Acting, Only, IdlePos
<1>2. a \in AppNames /\ position' = [position EXCEPT ![a] = posCalls[c].pos]
  BY DEF WriteApp, PosTypeOK
<1>3. CASE Halfway(c)
  BY <1>1, <1>2, <1>3, EndKeeps DEF Orderly, After, WriteApp
<1>4. CASE ~Halfway(c)
  <2>1. Arranged(position)
    BY <1>1, <1>4, ActingFindsArranged
  <2>2. posCalls[c].old \in {0, posCalls[c].pos} /\ position[a] = posCalls[c].old
    BY <1>1, <1>4 DEF Halfway, WriteApp, Orderly, StillSo
  <2>3. CASE posCalls[c].old = 0
    <3>1. posCalls[c].pos = Cardinality(Placed(position)) + 1
      BY <1>1, <2>3, CountOfPlaced DEF WriteApp, Orderly, StillSo
    <3>2. Arranged(position')
      BY <1>2, <2>1, <2>2, <2>3, <3>1, EndArranged DEF PosTypeOK
    <3> QED BY <1>1, <3>2, EndKeeps
  <2>4. CASE posCalls[c].old # 0
    <3>1. position' = position
      BY <1>2, <2>2, <2>4 DEF PosTypeOK
    <3> QED BY <1>1, <2>1, <3>1, EndKeeps
  <2> QED BY <2>3, <2>4
<1> QED BY <1>3, <1>4

LEMMA EraseKeeps == ASSUME PosTypeOK, Orderly, NEW c \in PosCalls, EraseApp(c) PROVE Orderly'
<1> DEFINE a == posCalls[c].app
           old == posCalls[c].old
<1>1. Acting(c) /\ ~Halfway(c) /\ Only(c)
  BY DEF EraseApp, PosEnds, PosMoves, PosTypeOK, Acting, Halfway, Only
<1>2. Arranged(position)
  BY <1>1, ActingFindsArranged
<1>3. a \in AppNames /\ position[a] = old /\ position' = [position EXCEPT ![a] = 0]
  BY <1>1 DEF EraseApp, PosTypeOK, Orderly, StillSo
<1>4. CASE old = 0
  <2>1. position' = position
    BY <1>3, <1>4 DEF PosTypeOK
  <2>2. ~Acting(c)'
    BY <1>4 DEF EraseApp, PosEnds, PosTypeOK, Acting, IdlePos
  <2> QED BY <1>1, <1>2, <2>1, <2>2, EndKeeps
<1>5. CASE old # 0
  <2>1. posCalls'[c].pc = "close" /\ posCalls'[c].old = old
    BY <1>5 DEF EraseApp, PosMoves, PosTypeOK
  <2>2. Arranged(ClosedUp(position', old))
    BY <1>2, <1>3, <1>5, DeleteArranged DEF PosTypeOK
  <2>3. After(c)' = ClosedUp(position', old)
    BY <2>1 DEF After, ClosedUp
  <2>4. Halfway(c)' /\ StillSo(c)'
    BY <2>1 DEF Halfway, StillSo
  <2> QED BY <1>1, <2>2, <2>3, <2>4, MiddleKeeps
<1> QED BY <1>4, <1>5

LEMMA CloseKeeps == ASSUME PosTypeOK, Orderly, NEW c \in PosCalls, CloseGap(c) PROVE Orderly'
<1>1. Acting(c) /\ Halfway(c) /\ ~Acting(c)' /\ Only(c)
  BY DEF CloseGap, PosEnds, PosTypeOK, Acting, Halfway, Only, IdlePos
<1>2. position' = After(c)
  BY DEF CloseGap, After, ClosedUp
<1> QED BY <1>1, <1>2, EndKeeps DEF Orderly

LEMMA ReadKeeps ==
  ASSUME PosTypeOK, Orderly, NEW c \in PosCalls, Chosen(c), ~disarranged',
         CountApps(c) \/ ReadForUpdate(c) \/ ReadForDelete(c)
  PROVE  Orderly'
<1>1. ~Acting(c) /\ Only(c) /\ position' = position /\ ~Overlaps(c) /\ Count' = Count
  BY DEF CountApps, ReadForUpdate, ReadForDelete, PosTypeOK, Acting, Only, Count, StoredApps
<1>2. CASE CountApps(c)
  <2>1. posCalls'[c].pc = "insert" /\ posCalls'[c].pos = Count + 1
    BY <1>2 DEF CountApps, PosTypeOK
  <2>2. ~Halfway(c)' /\ StillSo(c)'
    BY <1>1, <2>1 DEF Halfway, StillSo
  <2> QED BY <1>1, <2>2, BeginKeeps
<1>3. CASE ReadForUpdate(c)
  <2> DEFINE old == position[posCalls[c].app]
  <2>1. /\ posCalls'[c].pc = (IF old \in {0, posCalls[c].pos} THEN "write" ELSE "shift")
        /\ posCalls'[c].old = old /\ posCalls'[c].pos = posCalls[c].pos
        /\ posCalls'[c].app = posCalls[c].app
    BY <1>3 DEF ReadForUpdate, PosTypeOK
  <2>2. ~Halfway(c)'
    BY <2>1 DEF Halfway
  <2>3. IF old # 0 THEN posCalls[c].pos <= Count ELSE posCalls[c].pos = Count + 1
    BY <1>3 DEF ReadForUpdate, UpToDate
  <2>4. posCalls[c].pos >= 1 /\ posCalls[c].pos \in Nat /\ Count \in Nat
    BY <1>3, CountOfPlaced, PlacedFinite DEF PosTypeOK, Chosen, ReadForUpdate
  <2>5. StillSo(c)'
    BY <1>1, <2>1, <2>3, <2>4 DEF StillSo
  <2> QED BY <1>1, <2>2, <2>5, BeginKeeps
<1>4. CASE ReadForDelete(c)
  <2>1. /\ posCalls'[c].pc = "erase" /\ posCalls'[c].old = position[posCalls[c].app]
        /\ posCalls'[c].app = posCalls[c].app
    BY <1>4 DEF ReadForDelete, PosTypeOK
  <2>2. ~Halfway(c)' /\ StillSo(c)'
    BY <1>1, <2>1 DEF Halfway, StillSo
  <2> QED BY <1>1, <2>2, BeginKeeps
<1> QED BY <1>2, <1>3, <1>4

LEMMA PageStepKeeps ==
  ASSUME PosTypeOK, Orderly, NEW c \in PosCalls,
         \/ \E a \in AppNames : OpenDialog(c, a) \/ OpenDeletion(c, a)
         \/ \E a \in AppNames, pos \in 1..Count : OpenSettings(c, a, pos)
         \/ ClosePage(c)
  PROVE  Orderly'
<1>1. ~Acting(c) /\ ~Acting(c)' /\ Only(c) /\ position' = position
  BY DEF OpenDialog, OpenDeletion, OpenSettings, ClosePage, PosEnds, Page, IdlePos, PosTypeOK, Acting, Only
<1> QED BY <1>1, PageKeeps

LEMMA FailKeeps ==
  ASSUME PosTypeOK, Orderly, NEW c \in PosCalls, PosCallFails(c), ~disarranged' PROVE Orderly'
<1>1. Acting(c) /\ ~Halfway(c) /\ ~Acting(c)' /\ Only(c) /\ position' = position
  BY DEF PosCallFails, PosEnds, IdlePos, PosTypeOK, Acting, Only
<1> QED BY <1>1, ActingFindsArranged, EndKeeps

LEMMA RestartKeeps == ASSUME Orderly, PosRestart, ~disarranged' PROVE Orderly'
<1>1. \A c \in PosCalls : ~Halfway(c)
  BY Zenon DEF PosRestart
<1>2. Arranged(position)
  BY <1>1 DEF Orderly
<1>3. Arranged(position')
  BY <1>2, NumberedArranged DEF PosRestart
<1>4. \A c \in PosCalls : ~Acting(c)'
  BY DEF PosRestart, Acting, IdlePos
<1>5. \A c \in PosCalls : ~Halfway(c)'
  BY <1>4, HalfwayActsNext
<1>6. Arranged(position)'
  BY <1>3 DEF Arranged, Placed
<1> QED BY <1>4, <1>5, <1>6 DEF Orderly

LEMMA IdlePosTyped == IdlePos \in [app: AppNames \cup {NoApp}, pos: Nat, kind: PosKinds, old: Nat, pc: PosPcs]
BY DEF IdlePos, PosKinds, PosPcs

\* A record of a call that is well typed and has its app.
GoodCall(r) ==
  /\ r \in [app: AppNames \cup {NoApp}, pos: Nat, kind: PosKinds, old: Nat, pc: PosPcs]
  /\ r.pc # "idle" => r.app \in AppNames
  /\ r.pc = "read" /\ r.kind = "update" => r.pos # 0

LEMMA CallsTyped ==
  ASSUME PosTypeOK, \A d \in PosCalls : Chosen(d), NEW c \in PosCalls, NEW r, GoodCall(r),
         posCalls' = [posCalls EXCEPT ![c] = r], position' \in [AppNames -> Nat], disarranged' \in BOOLEAN
  PROVE  PosTypeOK' /\ \A d \in PosCalls : Chosen(d)'
BY DEF PosTypeOK, Chosen, GoodCall

LEMMA PosTypesKept == ASSUME PosInv, [PosNext]_posVars PROVE PosTypeOK' /\ \A c \in PosCalls : Chosen(c)'
<1> USE DEF PosInv
<1>0. Count \in Nat
  BY CountOfPlaced, PlacedFinite DEF PosTypeOK
<1>1. ASSUME NEW c \in PosCalls, NEW a \in AppNames, OpenDialog(c, a) \/ OpenDeletion(c, a)
      PROVE  PosTypeOK' /\ \A d \in PosCalls : Chosen(d)'
  <2>1. GoodCall(Page(a, 0, "create")) /\ GoodCall(Page(a, 0, "delete"))
    BY DEF GoodCall, Page, PosKinds, PosPcs
  <2> QED BY <1>1, <2>1, CallsTyped DEF OpenDialog, OpenDeletion, PosTypeOK
<1>2. ASSUME NEW c \in PosCalls, NEW a \in AppNames, NEW pos \in 1..Count, OpenSettings(c, a, pos)
      PROVE  PosTypeOK' /\ \A d \in PosCalls : Chosen(d)'
  <2>1. GoodCall(Page(a, pos, "update"))
    BY <1>0 DEF GoodCall, Page, PosKinds, PosPcs
  <2> QED BY <1>2, <2>1, CallsTyped DEF OpenSettings, PosTypeOK
<1>3. ASSUME NEW c \in PosCalls, PosCallStep(c)
      PROVE  PosTypeOK' /\ \A d \in PosCalls : Chosen(d)'
  <2>1. GoodCall(IdlePos)
    BY IdlePosTyped DEF GoodCall, IdlePos
  <2>2. ASSUME NEW pc \in PosPcs \ {"read"}, posCalls[c].pc # "idle"
        PROVE  GoodCall([posCalls[c] EXCEPT !.pc = pc])
    BY <2>2 DEF GoodCall, PosTypeOK
  <2>3. CASE ClosePage(c) \/ PosCallFails(c)
    BY <2>3, <2>1, CallsTyped DEF ClosePage, PosCallFails, PosEnds, PosTypeOK
  <2>4. CASE CountApps(c)
    <3> DEFINE r == [posCalls[c] EXCEPT !.pc = "insert", !.pos = Count + 1]
    <3>1. posCalls' = [posCalls EXCEPT ![c] = r]
      BY <2>4 DEF CountApps
    <3>2. posCalls[c] \in [app: AppNames \cup {NoApp}, pos: Nat, kind: PosKinds, old: Nat, pc: PosPcs]
          /\ posCalls[c].app \in AppNames
      BY <2>4 DEF PosTypeOK, CountApps
    <3>3. r.pc = "insert" /\ r.app = posCalls[c].app
      BY <3>2
    <3>4. Count + 1 \in Nat /\ "insert" \in PosPcs
      BY <1>0 DEF PosPcs
    <3>5. r \in [app: AppNames \cup {NoApp}, pos: Nat, kind: PosKinds, old: Nat, pc: PosPcs]
      BY <3>2, <3>4
    <3>6. GoodCall(r)
      BY <3>2, <3>3, <3>5 DEF GoodCall
    <3> HIDE DEF r
    <3> QED BY <2>4, <3>1, <3>6, CallsTyped DEF CountApps, PosTypeOK
  <2>5. CASE InsertApp(c)
    <3>1. position' \in [AppNames -> Nat]
      BY <2>5 DEF InsertApp, PosTypeOK
    <3> QED BY <2>5, <3>1, <2>1, CallsTyped DEF InsertApp, PosEnds, PosTypeOK
  <2>6. CASE ReadForUpdate(c)
    <3> DEFINE old == position[posCalls[c].app]
               pc == IF old \in {0, posCalls[c].pos} THEN "write" ELSE "shift"
               r == [posCalls[c] EXCEPT !.old = old, !.pc = pc]
    <3>1. GoodCall(r)
      BY <2>6 DEF GoodCall, PosTypeOK, ReadForUpdate, PosPcs
    <3>2. posCalls' = [posCalls EXCEPT ![c] = r]
      BY <2>6 DEF ReadForUpdate, PosTypeOK
    <3> QED BY <2>6, <3>1, <3>2, CallsTyped DEF ReadForUpdate, PosTypeOK
  <2>7. CASE ShiftApps(c)
    <3>1. position' \in [AppNames -> Nat]
      BY <2>7 DEF ShiftApps, Shifted, PosTypeOK
    <3>2. GoodCall([posCalls[c] EXCEPT !.pc = "write"])
      BY <2>7, <2>2 DEF ShiftApps, PosPcs
    <3> QED BY <2>7, <3>1, <3>2, CallsTyped DEF ShiftApps, PosMoves, PosTypeOK
  <2>8. CASE WriteApp(c)
    <3>1. position' \in [AppNames -> Nat]
      BY <2>8 DEF WriteApp, PosTypeOK
    <3> QED BY <2>8, <3>1, <2>1, CallsTyped DEF WriteApp, PosEnds, PosTypeOK
  <2>9. CASE ReadForDelete(c)
    <3> DEFINE r == [posCalls[c] EXCEPT !.old = position[posCalls[c].app], !.pc = "erase"]
    <3>1. GoodCall(r)
      BY <2>9 DEF GoodCall, PosTypeOK, ReadForDelete, PosPcs
    <3>2. posCalls' = [posCalls EXCEPT ![c] = r]
      BY <2>9 DEF ReadForDelete, PosTypeOK
    <3> QED BY <2>9, <3>1, <3>2, CallsTyped DEF ReadForDelete, PosTypeOK
  <2>10. CASE EraseApp(c)
    <3>1. position' \in [AppNames -> Nat]
      BY <2>10 DEF EraseApp, PosTypeOK
    <3>2. GoodCall([posCalls[c] EXCEPT !.pc = "close"])
      BY <2>10, <2>2 DEF EraseApp, PosPcs
    <3>3. CASE posCalls[c].old = 0
      BY <2>10, <3>1, <3>3, <2>1, CallsTyped DEF EraseApp, PosEnds, PosTypeOK
    <3>4. CASE posCalls[c].old # 0
      BY <2>10, <3>1, <3>2, <3>4, CallsTyped DEF EraseApp, PosMoves, PosTypeOK
    <3> QED BY <3>3, <3>4
  <2>11. CASE CloseGap(c)
    <3>1. position' \in [AppNames -> Nat]
      <4> SUFFICES ASSUME NEW a \in AppNames
                   PROVE  (IF position[a] > posCalls[c].old THEN position[a] - 1 ELSE position[a]) \in Nat
        BY <2>11 DEF CloseGap
      <4>1. position[a] \in Nat /\ posCalls[c].old \in Nat
        BY DEF PosTypeOK
      <4> QED BY <4>1
    <3> QED BY <2>11, <3>1, <2>1, CallsTyped DEF CloseGap, PosEnds, PosTypeOK
  <2> QED BY <1>3, <2>3, <2>4, <2>5, <2>6, <2>7, <2>8, <2>9, <2>10, <2>11 DEF PosCallStep
<1>4. CASE PosRestart
  <2>1. position' \in [AppNames -> Nat]
    BY <1>4, NumberedArranged DEF PosRestart, PosTypeOK
  <2>2. \A d \in PosCalls : posCalls'[d] \in {IdlePos, posCalls[d]}
    BY <1>4 DEF PosRestart
  <2>3. disarranged' \in BOOLEAN
    BY <1>4 DEF PosRestart, PosTypeOK
  <2>4. posCalls' \in [PosCalls -> [app: AppNames \cup {NoApp}, pos: Nat, kind: PosKinds,
                                   old: Nat, pc: PosPcs]]
    BY <1>4, IdlePosTyped DEF PosRestart, PosTypeOK
  <2>5. \A d \in PosCalls : posCalls'[d].pc # "idle" => posCalls'[d].app \in AppNames
    BY <2>2 DEF PosTypeOK, IdlePos
  <2>6. \A d \in PosCalls : Chosen(d)'
    BY <2>2 DEF Chosen, IdlePos
  <2> QED BY <2>1, <2>3, <2>4, <2>5, <2>6 DEF PosTypeOK
<1>5. ASSUME NEW a \in AppNames, NEW pos \in 1..Count, PatchPosition(a, pos)
      PROVE  PosTypeOK' /\ \A d \in PosCalls : Chosen(d)'
  BY <1>0, <1>5 DEF PatchPosition, PosTypeOK, Chosen
<1>6. CASE UNCHANGED posVars
  BY <1>6 DEF posVars, PosTypeOK, Chosen
<1> QED BY <1>1, <1>2, <1>3, <1>4, <1>5, <1>6 DEF PosNext

LEMMA DisarrangedStays == ASSUME PosNext, disarranged PROVE disarranged'
<1>1. ASSUME NEW c \in PosCalls, NEW a \in AppNames,
             OpenDialog(c, a) \/ OpenDeletion(c, a) \/ \E pos \in 1..Count : OpenSettings(c, a, pos)
      PROVE  disarranged'
  BY <1>1, Zenon DEF OpenDialog, OpenDeletion, OpenSettings
<1>2. ASSUME NEW c \in PosCalls, PosCallStep(c) PROVE disarranged'
  BY <1>2, Zenon DEF PosCallStep, ClosePage, CountApps, InsertApp, ReadForUpdate, ShiftApps, WriteApp, ReadForDelete,
     EraseApp, CloseGap, PosCallFails
<1>3. CASE PosRestart
  BY <1>3, Zenon DEF PosRestart
<1>4. ASSUME NEW a \in AppNames, NEW pos \in 1..Count, PatchPosition(a, pos) PROVE disarranged'
  BY <1>4, Zenon DEF PatchPosition
<1> QED BY <1>1, <1>2, <1>3, <1>4 DEF PosNext

LEMMA PosInvKept == ASSUME PosInv, [PosNext]_posVars PROVE PosInv'
<1>1. PosTypeOK' /\ \A c \in PosCalls : Chosen(c)'
  BY PosTypesKept
<1>2. ASSUME ~disarranged' PROVE Orderly'
  <2>1. CASE UNCHANGED posVars
    <3>1. Orderly
      BY <2>1, <1>2 DEF PosInv, posVars
    <3>2. position' = position /\ posCalls' = posCalls
      BY <2>1 DEF posVars
    <3>3. \A c \in PosCalls : (Acting(c)' <=> Acting(c)) /\ (Halfway(c)' <=> Halfway(c))
      BY <3>2 DEF Acting, Halfway
    <3>4. \A c \in PosCalls : After(c)' = After(c)
      BY <3>2 DEF After, ClosedUp
    <3>5. \A c \in PosCalls : StillSo(c)' <=> StillSo(c)
      BY <3>2 DEF StillSo, Count, StoredApps
    <3>6. (Arranged(position)' <=> Arranged(position))
          /\ \A c \in PosCalls : Arranged(After(c))' <=> Arranged(After(c))
      BY <3>2, <3>4 DEF Arranged, Placed
    <3> QED BY <3>1, <3>3, <3>5, <3>6 DEF Orderly
  <2>2. ASSUME PosNext PROVE Orderly'
    <3>1. PosTypeOK /\ ~disarranged
      BY <2>2, <1>2, DisarrangedStays DEF PosInv
    <3>2. Orderly
      BY <3>1 DEF PosInv
    <3>3. CASE \E c \in PosCalls, a \in AppNames :
                 OpenDialog(c, a) \/ OpenDeletion(c, a) \/ \E pos \in 1..Count : OpenSettings(c, a, pos)
      BY <3>1, <3>2, <3>3, PageStepKeeps
    <3>4. CASE \E c \in PosCalls : PosCallStep(c)
      <4>1. PICK c \in PosCalls : PosCallStep(c)
        BY <3>4
      <4>2. Chosen(c)
        BY DEF PosInv
      <4> QED BY <1>2, <3>1, <3>2, <4>1, <4>2, PageStepKeeps, InsertKeeps, ShiftKeeps, WriteKeeps, EraseKeeps,
                 CloseKeeps, ReadKeeps, FailKeeps DEF PosCallStep
    <3>5. CASE PosRestart
      BY <1>2, <3>2, <3>5, RestartKeeps
    <3>6. CASE \E a \in AppNames, pos \in 1..Count : PatchPosition(a, pos)
      BY <1>2, <3>6, Zenon DEF PatchPosition
    <3> QED BY <2>2, <3>3, <3>4, <3>5, <3>6 DEF PosNext
  <2> QED BY <2>1, <2>2
<1> QED BY <1>1, <1>2 DEF PosInv, PosTypeOK

LEMMA PosInvImplies == PosInv => AppsArranged
<1> SUFFICES ASSUME PosInv, ~disarranged, \A c \in PosCalls : ~Halfway(c)
             PROVE  {position[a] : a \in StoredApps} = 1..Count
  BY DEF AppsArranged
<1>1. Arranged(position)
  BY DEF PosInv, Orderly
<1>2. Count = Cardinality(Placed(position)) /\ Count \in Nat
  BY CountOfPlaced, PlacedFinite DEF PosInv, PosTypeOK
<1>3. \A a \in StoredApps : position[a] \in 1..Count
  BY <1>1, <1>2 DEF Arranged, StoredApps, PosInv, PosTypeOK
<1>4. \A i \in 1..Count : \E a \in StoredApps : position[a] = i
  BY <1>1, <1>2 DEF Arranged, StoredApps
<1> QED BY <1>3, <1>4

\* The positions of apps have no gap and no two apps share one, unless changes
\* overlapped, one ended halfway, a position was patched, or an old page was submitted
\* (updateConfig).
THEOREM AppsStayArranged == PosSpec => []AppsArranged
<1>1. PosSpec => []PosInv
  BY PosInitHolds, PosInvKept, PTL DEF PosSpec
<1> QED BY <1>1, PosInvImplies, PTL

-----------------------------------------------------------------------------
(***************************************************************************)
(* The decisions of the guards.  They are those of the map; and the map is *)
(* what is stored, or a call is about to make it so, or it was read too    *)
(* early.                                                                  *)
(***************************************************************************)

ReadStands(c) ==
  /\ accessCalls[c].pc = "assign" /\ ~accessCalls[c].raced => accessCalls[c].read = granted
  /\ accessCalls[c].pc # "assign" => ~accessCalls[c].raced

AccessInv ==
  /\ AccessTypeOK
  /\ \A a \in Domains : accessCache[a] # "none" => (accessCache[a] = "yes" <=> a \in appAccessMap)
  /\ \A c \in AccessCalls : ReadStands(c)
  /\ unread \/ appAccessMap = granted \/ \E c \in AccessCalls : Refreshing(c)

LEMMA AccessInitHolds == AccessInit => AccessInv
<1> SUFFICES ASSUME AccessInit PROVE AccessInv
  OBVIOUS
<1>1. IdleAccess \in AccessCall /\ IdleAccess.pc = "idle" /\ ~IdleAccess.raced
  BY DEF IdleAccess, AccessCall
<1>2. AccessTypeOK
  BY <1>1 DEF AccessInit, AccessTypeOK, Undecided
<1>3. \A c \in AccessCalls : ReadStands(c)
  BY <1>1 DEF AccessInit, ReadStands
<1>4. \A a \in Domains : accessCache[a] = "none"
  BY DEF AccessInit, Undecided
<1> QED BY <1>2, <1>3, <1>4 DEF AccessInv, AccessInit

LEMMA AccessInvKept == ASSUME AccessInv, [AccessNext]_accessVars PROVE AccessInv'
<1> USE DEF AccessInv, AccessTypeOK, AccessCall
<1>1. ASSUME NEW c \in AccessCalls, NEW a \in Domains, NEW open \in BOOLEAN, ChangeConfig(c, a, open) PROVE AccessInv'
  <2>1. Refreshing(c)'
    BY <1>1 DEF ChangeConfig, Refreshing, IdleAccess
  <2>2. \A d \in AccessCalls : ReadStands(d)'
    <3> SUFFICES ASSUME NEW d \in AccessCalls PROVE ReadStands(d)'
      OBVIOUS
    <3>1. CASE d = c
      <4>1. accessCalls'[d].pc = "find" /\ accessCalls'[d].raced = FALSE
        BY <1>1, <3>1 DEF ChangeConfig, IdleAccess
      <4> QED BY <4>1 DEF ReadStands
    <3>2. CASE d # c
      <4>1. accessCalls'[d].pc = accessCalls[d].pc /\ accessCalls'[d].raced = (accessCalls[d].pc = "assign")
        BY <1>1, <3>2 DEF ChangeConfig
      <4> QED BY <4>1, Zenon DEF ReadStands
    <3> QED BY <3>1, <3>2
  <2>3. AccessTypeOK'
    BY <1>1 DEF ChangeConfig, IdleAccess
  <2> QED BY <1>1, <2>1, <2>2, <2>3 DEF ChangeConfig
<1>2. ASSUME NEW c \in AccessCalls, ChangeFails(c) PROVE AccessInv'
  <2>1. Refreshing(c)'
    BY <1>2 DEF ChangeFails, Refreshing
  <2>2. \A d \in AccessCalls : ReadStands(d)'
    BY <1>2 DEF ChangeFails, ReadStands
  <2>3. AccessTypeOK'
    BY <1>2 DEF ChangeFails
  <2> QED BY <1>2, <2>1, <2>2, <2>3 DEF ChangeFails
<1>3. ASSUME NEW c \in AccessCalls, FindConfigs(c) PROVE AccessInv'
  <2>1. Refreshing(c)'
    BY <1>3 DEF FindConfigs, Refreshing, ReadStands
  <2>2. \A d \in AccessCalls : ReadStands(d)'
    BY <1>3 DEF FindConfigs, ReadStands
  <2>3. AccessTypeOK'
    BY <1>3 DEF FindConfigs
  <2> QED BY <1>3, <2>1, <2>2, <2>3 DEF FindConfigs
<1>4. ASSUME NEW c \in AccessCalls, FindFails(c) PROVE AccessInv'
  <2>1. \A d \in AccessCalls : ReadStands(d)'
    BY <1>4 DEF FindFails, AccessEnds, ReadStands, IdleAccess
  <2>2. AccessTypeOK'
    BY <1>4 DEF FindFails, AccessEnds, IdleAccess
  <2> QED BY <1>4, <2>1, <2>2 DEF FindFails
<1>5. ASSUME NEW c \in AccessCalls, AssignMap(c) PROVE AccessInv'
  <2>1. \A d \in AccessCalls : ReadStands(d)'
    BY <1>5 DEF AssignMap, AccessEnds, ReadStands, IdleAccess
  <2>2. AccessTypeOK'
    BY <1>5 DEF AssignMap, AccessEnds, IdleAccess, DecisionsCleared, Undecided
  <2>3. unread' \/ appAccessMap' = granted'
    BY <1>5 DEF AssignMap, ReadStands
  <2> QED BY <1>5, <2>1, <2>2, <2>3 DEF AssignMap, DecisionsCleared, Undecided
<1>6. ASSUME NEW a \in Domains, Decide(a) \/ DecisionExpires(a) PROVE AccessInv'
  BY <1>6 DEF Decide, DecisionExpires, ReadStands, Refreshing
<1>7. CASE AccessRestart
  BY <1>7 DEF AccessRestart, ReadStands, IdleAccess, Undecided
<1>8. ASSUME NEW a \in Domains, NEW open \in BOOLEAN, PatchAccessGroups(a, open) PROVE AccessInv'
  <2>1. \A d \in AccessCalls : ReadStands(d)'
    <3> SUFFICES ASSUME NEW d \in AccessCalls PROVE ReadStands(d)'
      OBVIOUS
    <3>1. accessCalls'[d].pc = accessCalls[d].pc /\ accessCalls'[d].raced = (accessCalls[d].pc = "assign")
      BY <1>8 DEF PatchAccessGroups
    <3> QED BY <3>1, Zenon DEF ReadStands
  <2>2. AccessTypeOK'
    BY <1>8 DEF PatchAccessGroups
  <2> QED BY <1>8, <2>1, <2>2 DEF PatchAccessGroups
<1>9. CASE UNCHANGED accessVars
  BY <1>9 DEF accessVars, ReadStands, Refreshing
<1> QED BY <1>1, <1>2, <1>3, <1>4, <1>5, <1>6, <1>7, <1>8, <1>9 DEF AccessNext

LEMMA AccessInvImplies == AccessInv => DecisionsFollowConfig
BY DEF AccessInv, DecisionsFollowConfig

\* Decisions follow the stored configuration, unless a change is yet to be read, or the
\* map was last replaced by an answer from before a change, or not read after one
\* (updateAppAccessMap, patchSingleFieldInConfig).
THEOREM DecisionsFollow == AccessSpec => []DecisionsFollowConfig
<1>1. AccessSpec => []AccessInv
  BY AccessInitHolds, AccessInvKept, PTL DEF AccessSpec
<1> QED BY <1>1, AccessInvImplies, PTL
-----------------------------------------------------------------------------
(***************************************************************************)
(* New mails are announced.  While no mail is deleted and nothing fails    *)
(* the inbox only grows at its end, so the place of a mail in it stays and *)
(* the ranges, which are pairs of counts, keep naming the same mails.      *)
(***************************************************************************)

\* The first mails of the inbox: all others are later.
FirstOf(mails, all) == mails \subseteq all /\ \A u \in mails, v \in all \ mails : u < v

\* A place is a number between one and the number of mails.
LEMMA PositionBounds ==
  ASSUME NEW S \in SUBSET Nat, IsFiniteSet(S), NEW u \in S
  PROVE  /\ Position(u, S) \in Nat
         /\ 1 <= Position(u, S) /\ Position(u, S) <= Cardinality(S)
         /\ Cardinality(S) \in Nat
<1> DEFINE upTo == {v \in S : v <= u}
<1>1. upTo \in SUBSET S /\ u \in upTo
  OBVIOUS
<1>2. IsFiniteSet(upTo) /\ Cardinality(upTo) <= Cardinality(S)
  BY <1>1, FS_Subset
<1>3. Cardinality(upTo) \in Nat /\ Cardinality(S) \in Nat /\ Cardinality(upTo) # 0
  BY <1>1, <1>2, FS_CardinalityType, FS_EmptySet
<1>4. Position(u, S) = Cardinality(upTo)
  BY DEF Position
<1> HIDE DEF upTo
<1> QED BY <1>2, <1>3, <1>4

\* An earlier mail has a lower place.
LEMMA PositionsOrdered ==
  ASSUME NEW S \in SUBSET Nat, IsFiniteSet(S), NEW u \in S, NEW v \in S, u < v
  PROVE  Position(u, S) < Position(v, S)
<1> DEFINE upToU == {w \in S : w <= u}
           upToV == {w \in S : w <= v}
<1>1. upToU \in SUBSET upToV /\ upToV \in SUBSET S /\ v \in upToV /\ v \notin upToU
  <2>1. S \subseteq Nat /\ u \in Nat /\ v \in Nat
    OBVIOUS
  <2>2. \A w \in S : w <= u => w <= v
    BY <2>1
  <2>3. v <= v /\ ~(v <= u)
    BY <2>1
  <2> QED BY <2>2, <2>3
<1>2. IsFiniteSet(upToV)
  BY <1>1, FS_Subset
<1>3. /\ IsFiniteSet(upToU) /\ Cardinality(upToU) <= Cardinality(upToV)
      /\ Cardinality(upToV) # Cardinality(upToU)
  BY <1>1, <1>2, FS_Subset
<1>4. Cardinality(upToU) \in Nat /\ Cardinality(upToV) \in Nat
  BY <1>2, <1>3, FS_CardinalityType
<1>5. Position(u, S) = Cardinality(upToU) /\ Position(v, S) = Cardinality(upToV)
  BY DEF Position
<1> HIDE DEF upToU, upToV
<1> QED BY <1>3, <1>4, <1>5

\* The first n mails have the places up to n, the others those above.
LEMMA FirstPositions ==
  ASSUME NEW S \in SUBSET Nat, IsFiniteSet(S), NEW T, FirstOf(T, S)
  PROVE  /\ IsFiniteSet(T) /\ Cardinality(T) \in Nat
         /\ Cardinality(T) <= Cardinality(S)
         /\ \A u \in T : Position(u, S) <= Cardinality(T)
         /\ \A u \in S \ T : Position(u, S) > Cardinality(T)
<1>1. IsFiniteSet(T) /\ Cardinality(T) <= Cardinality(S) /\ Cardinality(T) \in Nat
  BY FS_Subset, FS_CardinalityType DEF FirstOf
<1>2. ASSUME NEW u \in T PROVE Position(u, S) <= Cardinality(T)
  <2>1. {v \in S : v <= u} \in SUBSET T
    <3> SUFFICES ASSUME NEW v \in S, v <= u, v \notin T PROVE FALSE
      OBVIOUS
    <3>1. u \in Nat /\ v \in Nat /\ u < v
      BY DEF FirstOf
    <3> QED BY <3>1
  <2> QED BY <1>1, <2>1, FS_Subset DEF Position
<1>3. ASSUME NEW u \in S \ T PROVE Position(u, S) > Cardinality(T)
  <2> DEFINE upTo == {v \in S : v <= u}
  <2>1. T \in SUBSET upTo /\ u \in upTo /\ upTo \in SUBSET S
    BY DEF FirstOf
  <2>2. IsFiniteSet(upTo)
    BY <2>1, FS_Subset
  <2>3. Cardinality(T) <= Cardinality(upTo) /\ Cardinality(upTo) # Cardinality(T)
    BY <2>1, <2>2, FS_Subset
  <2>4. Position(u, S) = Cardinality(upTo) /\ Cardinality(upTo) \in Nat
    BY <2>2, FS_CardinalityType DEF Position
  <2> HIDE DEF upTo
  <2> QED BY <1>1, <2>3, <2>4
<1> QED BY <1>1, <1>2, <1>3

\* A mail that arrives takes the next place and moves no other.
LEMMA NextPosition ==
  ASSUME NEW S \in SUBSET Nat, IsFiniteSet(S), NEW u \in Nat, \A v \in S : v < u
  PROVE  /\ IsFiniteSet(S \cup {u}) /\ Cardinality(S \cup {u}) = Cardinality(S) + 1
         /\ Cardinality(S) \in Nat
         /\ Position(u, S \cup {u}) = Cardinality(S) + 1
         /\ \A v \in S : Position(v, S \cup {u}) = Position(v, S)
<1>1. u \notin S
  OBVIOUS
<1>2. /\ IsFiniteSet(S \cup {u}) /\ Cardinality(S \cup {u}) = Cardinality(S) + 1
      /\ Cardinality(S) \in Nat
  BY <1>1, FS_AddElement, FS_CardinalityType
<1>3. {v \in S \cup {u} : v <= u} = S \cup {u}
  <2>1. \A v \in S \cup {u} : v \in Nat /\ v <= u
    OBVIOUS
  <2> QED BY <2>1
<1>4. ASSUME NEW v \in S PROVE {w \in S \cup {u} : w <= v} = {w \in S : w <= v}
  OBVIOUS
<1> QED BY <1>2, <1>3, <1>4 DEF Position

\* Every place is counted, so those below k are k - 1 mails.
LEMMA PlacesTaken ==
  ASSUME NEW S \in SUBSET Nat, IsFiniteSet(S), NEW k \in 1..Cardinality(S)
  PROVE  /\ \E u \in S : Position(u, S) = k
         /\ IsFiniteSet({u \in S : Position(u, S) < k})
         /\ Cardinality({u \in S : Position(u, S) < k}) = k - 1
<1> DEFINE n == Cardinality(S)
           place == [u \in S |-> Position(u, S)]
           low == {u \in S : Position(u, S) < k}
           lowPlace == [u \in low |-> Position(u, S)]
<1>1. n \in Nat /\ \A u \in S : Position(u, S) \in 1..n
  BY PositionBounds, FS_CardinalityType
<1>2. \A u, v \in S : Position(u, S) = Position(v, S) => u = v
  <2> SUFFICES ASSUME NEW u \in S, NEW v \in S, u # v PROVE Position(u, S) # Position(v, S)
    OBVIOUS
  <2>1. Position(u, S) \in Nat /\ Position(v, S) \in Nat
    BY PositionBounds
  <2>2. CASE u < v
    BY <2>1, <2>2, PositionsOrdered
  <2>3. CASE v < u
    BY <2>1, <2>3, PositionsOrdered
  <2> QED BY <2>2, <2>3
<1>3. place \in Injection(S, 1..n)
  BY <1>1, <1>2 DEF Injection, IsInjective
<1>4. IsFiniteSet(1..n) /\ Cardinality(1..n) = n
  BY <1>1, FS_Interval
<1>5. place \in Surjection(S, 1..n)
  BY <1>3, <1>4, FS_Injection
<1>6. \A i \in 1..n : \E u \in S : Position(u, S) = i
  BY <1>5 DEF Surjection
<1>7. low \in SUBSET S /\ IsFiniteSet(low)
  BY FS_Subset
<1>8. IsFiniteSet(1..(k - 1)) /\ Cardinality(1..(k - 1)) = k - 1
  <2>1. 1 \in Int /\ k - 1 \in Int /\ k >= 1
    BY <1>1
  <2>2. /\ IsFiniteSet(1..(k - 1))
        /\ Cardinality(1..(k - 1)) = IF 1 > k - 1 THEN 0 ELSE (k - 1) - 1 + 1
    BY <2>1, FS_Interval
  <2> QED BY <2>1, <2>2
<1>9. lowPlace \in Injection(low, 1..(k - 1))
  <2>1. \A u \in low : Position(u, S) \in 1..(k - 1)
    BY <1>1
  <2>2. lowPlace \in [low -> 1..(k - 1)]
    BY <2>1
  <2>3. \A u, v \in low : lowPlace[u] = lowPlace[v] => u = v
    BY <1>2
  <2> QED BY <2>2, <2>3 DEF Injection, IsInjective
<1>10. lowPlace \in Surjection(low, 1..(k - 1))
  <2>1. ASSUME NEW i \in 1..(k - 1) PROVE \E u \in low : Position(u, S) = i
    BY <1>1, <1>6
  <2>2. lowPlace \in [low -> 1..(k - 1)]
    BY <1>9 DEF Injection
  <2> QED BY <2>1, <2>2 DEF Surjection
<1>11. Cardinality(low) = k - 1
  BY <1>8, <1>9, <1>10, FS_Injection
<1> QED BY <1>6, <1>7, <1>11

\* Among the mails from place k on, those places are counted from one again.
LEMMA PositionsFrom ==
  ASSUME NEW S \in SUBSET Nat, IsFiniteSet(S), NEW k \in 1..Cardinality(S),
         NEW M, M = {u \in S : Position(u, S) >= k}
  PROVE  /\ M # {}
         /\ \A u \in M : Position(u, M) + k <= Position(u, S) + 1
<1>1. M # {}
  <2>1. PICK u \in S : Position(u, S) = k
    BY PlacesTaken
  <2>2. Position(u, S) >= k
    BY <2>1
  <2> QED BY <2>2
<1>2. ASSUME NEW u \in M PROVE Position(u, M) + k <= Position(u, S) + 1
  <2> DEFINE upTo == {v \in S : v <= u}
             low == {v \in S : Position(v, S) < k}
             high == {v \in M : v <= u}
  <2>1. low \in SUBSET upTo
    <3> SUFFICES ASSUME NEW v \in S, Position(v, S) < k PROVE v <= u
      OBVIOUS
    <3>1. Position(u, S) \in Nat /\ Position(v, S) \in Nat /\ Position(u, S) >= k
      BY PositionBounds
    <3>2. ~(u < v)
      BY <3>1, PositionsOrdered
    <3> QED BY <3>2
  <2>2. high \in SUBSET (upTo \ low)
    <3> SUFFICES ASSUME NEW v \in M, v <= u PROVE v \in upTo /\ v \notin low
      BY Zenon
    <3>1. v \in S /\ Position(v, S) \in Nat /\ Position(v, S) >= k
      BY PositionBounds
    <3> QED BY <3>1
  <2>3. IsFiniteSet(upTo) /\ IsFiniteSet(low) /\ Cardinality(low) = k - 1
    BY PlacesTaken, FS_Subset
  <2>4. IsFiniteSet(upTo \ low) /\ Cardinality(upTo \ low) = Cardinality(upTo) - Cardinality(upTo \cap low)
    BY <2>3, FS_Difference
  <2>5. upTo \cap low = low
    BY <2>1
  <2>6. IsFiniteSet(high) /\ Cardinality(high) <= Cardinality(upTo \ low)
    BY <2>2, <2>4, FS_Subset
  <2>7. /\ Position(u, M) = Cardinality(high) /\ Position(u, S) = Cardinality(upTo)
        /\ Cardinality(high) \in Nat /\ Cardinality(upTo) \in Nat
    BY <2>3, <2>6, FS_CardinalityType DEF Position
  <2> HIDE DEF upTo, low, high
  <2> QED BY <2>3, <2>4, <2>5, <2>6, <2>7
<1> QED BY <1>1, <1>2

\* The ranges fetched or remembered.
RangesUnderWay == pendingFetch \cup (IF fetch.pc = "none" THEN {} ELSE {fetch.range})

\* The mails known when the connection was opened.
KnownMails == inbox \ arrived

\* A range lies above the mails known at first and within those told of.
Within(range) ==
  /\ Cardinality(KnownMails) <= range.prev
  /\ range.prev < range.count
  /\ range.count <= Cardinality(told)

\* Every new mail told of is announced, or skipped, or in a range under way.
NoneForgotten ==
  arrived \cap told \subseteq announced \cup skipped \cup UNION {InRange(r) : r \in RangesUnderWay}

\* While no mail is deleted and nothing fails.
Undisturbed ==
  /\ arrived \subseteq inbox
  /\ FirstOf(KnownMails, inbox) /\ FirstOf(told, inbox) /\ KnownMails \subseteq told
  /\ previousMailCount = Cardinality(told)
  /\ announced \subseteq arrived /\ fetch.mails \subseteq arrived
  /\ \A r \in RangesUnderWay : Within(r)
  /\ pendingFetch # {} => fetch.pc # "none"
  /\ \A r \in pendingFetch : TooMany(r) \subseteq skipped
  /\ fetch.pc = "fetch" => TooMany(fetch.range) \subseteq skipped
  /\ fetch.pc = "upsert" => InRange(fetch.range) \subseteq skipped \cup fetch.mails
  /\ NoneForgotten

Fetches == [pc: {"none", "fetch", "upsert"}, range: FetchRange, mails: SUBSET Uids]

FetchInv ==
  /\ FetchTypeOK /\ fetch \in Fetches /\ IsFiniteSet(inbox)
  /\ ~interrupted => Undisturbed

LEMMA NoFetchTyped == NoFetch \in Fetches /\ \A r \in FetchRange : Fetching(r) \in Fetches
BY DEF NoFetch, Fetching, Fetches, FetchRange

LEMMA FetchInitially == FetchInit => FetchInv
<1> SUFFICES ASSUME FetchInit PROVE FetchInv
  OBVIOUS
<1> USE DEF FetchInit
<1>1. fetch \in Fetches
  BY NoFetchTyped
<1>2. IsFiniteSet(inbox) /\ previousMailCount \in Nat
  BY FetchAssumption, FS_CardinalityType
<1>3. FetchTypeOK
  BY <1>2, FetchAssumption DEF FetchTypeOK, NoFetch, FetchRange
<1>4. FirstOf(KnownMails, inbox) /\ FirstOf(told, inbox) /\ KnownMails \subseteq told
  BY DEF FirstOf, KnownMails
<1>5. RangesUnderWay = {}
  BY DEF RangesUnderWay, NoFetch
<1>6. Undisturbed
  BY <1>4, <1>5 DEF Undisturbed, NoneForgotten, NoFetch
<1> QED BY <1>1, <1>2, <1>3, <1>6 DEF FetchInv

\* A mail that arrives is in none of the ranges and moves no mail out of one.
LEMMA ArrivalsAboveRanges ==
  ASSUME NEW S \in SUBSET Nat, IsFiniteSet(S), NEW u \in Nat, \A v \in S : v < u,
         NEW r \in FetchRange, r.count <= Cardinality(S)
  PROVE  /\ {v \in S \cup {u} : Position(v, S \cup {u}) \in (r.prev + 1)..r.count}
              = {v \in S : Position(v, S) \in (r.prev + 1)..r.count}
         /\ \A v \in S : Position(v, S \cup {u}) = Position(v, S)
<1>1. /\ Cardinality(S) \in Nat /\ Position(u, S \cup {u}) = Cardinality(S) + 1
      /\ \A v \in S : Position(v, S \cup {u}) = Position(v, S)
  BY NextPosition
<1>2. Position(u, S \cup {u}) \notin (r.prev + 1)..r.count
  BY <1>1 DEF FetchRange
<1> QED BY <1>1, <1>2

LEMMA ArriveKeeps ==
  ASSUME FetchInv, NEW u \in Uids, Arrive(u)
  PROVE  FetchInv'
<1> USE DEF Arrive
<1>1. u \in Nat /\ inbox \in SUBSET Nat /\ IsFiniteSet(inbox) /\ \A v \in inbox : v < u
  BY FetchAssumption DEF FetchInv, FetchTypeOK
<1>2. IsFiniteSet(inbox') /\ u \notin inbox
  BY <1>1, NextPosition
<1>3. FetchTypeOK' /\ (fetch \in Fetches)'
  BY <1>1 DEF FetchInv, FetchTypeOK
<1>4. ASSUME ~interrupted' PROVE Undisturbed'
  <2> USE DEF Undisturbed
  <2>1. Undisturbed
    BY <1>4 DEF FetchInv
  <2>2. KnownMails' = KnownMails /\ RangesUnderWay' = RangesUnderWay
    BY <1>1, <1>2, <2>1 DEF KnownMails, RangesUnderWay
  <2>3. FirstOf(KnownMails, inbox)' /\ FirstOf(told, inbox)' /\ (KnownMails \subseteq told)'
    BY <1>1, <2>1, <2>2 DEF FirstOf
  <2>4. \A r \in RangesUnderWay : Within(r)'
    BY <2>1, <2>2 DEF Within
  <2>5. \A r \in RangesUnderWay : r \in FetchRange /\ r.count <= Cardinality(inbox)
    <3>1. Cardinality(told) <= Cardinality(inbox) /\ Cardinality(told) \in Nat /\ Cardinality(inbox) \in Nat
      BY <1>1, <2>1, FirstPositions, FS_CardinalityType
    <3>2. \A r \in RangesUnderWay : r \in FetchRange
      BY DEF RangesUnderWay, FetchInv, FetchTypeOK
    <3>3. \A r \in RangesUnderWay : r.count \in Nat /\ r.count <= Cardinality(told)
      BY <2>1, <3>2 DEF Within, FetchRange
    <3> QED BY <3>1, <3>2, <3>3
  <2>6. \A r \in RangesUnderWay : InRange(r)' = InRange(r) /\ TooMany(r)' = TooMany(r)
    <3> SUFFICES ASSUME NEW r \in RangesUnderWay
                 PROVE  InRange(r)' = InRange(r) /\ TooMany(r)' = TooMany(r)
      OBVIOUS
    <3>1. /\ {v \in inbox \cup {u} : Position(v, inbox \cup {u}) \in (r.prev + 1)..r.count}
              = {v \in inbox : Position(v, inbox) \in (r.prev + 1)..r.count}
          /\ \A v \in inbox : Position(v, inbox \cup {u}) = Position(v, inbox)
      BY <1>1, <2>5, ArrivalsAboveRanges
    <3>2. InRange(r)' = InRange(r)
      BY <3>1 DEF InRange
    <3>3. InRange(r) \subseteq inbox
      BY DEF InRange
    <3>4. TooMany(r)' = {v \in InRange(r) : Position(v, inbox \cup {u}) < RangeStart(r)}
      BY <3>2 DEF TooMany
    <3> QED BY <3>1, <3>2, <3>3, <3>4 DEF TooMany
  <2>7. NoneForgotten'
    <3>1. arrived' \cap told' = arrived \cap told
      BY <1>2, <2>1 DEF FirstOf
    <3>2. UNION {InRange(r)' : r \in RangesUnderWay'} = UNION {InRange(r) : r \in RangesUnderWay}
      BY <2>2, <2>6
    <3> QED BY <2>1, <3>1, <3>2 DEF NoneForgotten
  <2>8. \A r \in pendingFetch : r \in RangesUnderWay
    BY DEF RangesUnderWay
  <2>9. fetch.pc # "none" => fetch.range \in RangesUnderWay
    BY DEF RangesUnderWay
  <2>10. (fetch.pc = "fetch" => TooMany(fetch.range) \subseteq skipped)'
    BY <2>1, <2>6, <2>9
  <2>11. (fetch.pc = "upsert" => InRange(fetch.range) \subseteq skipped \cup fetch.mails)'
    BY <2>1, <2>6, <2>9
  <2>12. (\A r \in pendingFetch : TooMany(r) \subseteq skipped)'
    BY <2>1, <2>6, <2>8
  <2>13. (/\ arrived \subseteq inbox
          /\ previousMailCount = Cardinality(told)
          /\ announced \subseteq arrived /\ fetch.mails \subseteq arrived
          /\ pendingFetch # {} => fetch.pc # "none")'
    BY <2>1
  <2>14. (\A r \in RangesUnderWay : Within(r))'
    BY <2>2, <2>4
  <2> QED BY <2>3, <2>7, <2>10, <2>11, <2>12, <2>13, <2>14
<1> QED BY <1>2, <1>3, <1>4 DEF FetchInv

LEMMA DeleteKeeps ==
  ASSUME FetchInv, NEW u \in Uids, DeleteMail(u)
  PROVE  FetchInv'
<1> USE DEF DeleteMail
<1>1. IsFiniteSet(inbox')
  BY FS_Subset DEF FetchInv
<1>2. FetchTypeOK' /\ (fetch \in Fetches)'
  BY DEF FetchInv, FetchTypeOK
<1> QED BY <1>1, <1>2 DEF FetchInv

\* What the server tells of are the mails above the count the service holds.
LEMMA ToldRange ==
  ASSUME FetchInv, Undisturbed, told # inbox
  PROVE  /\ Cardinality(told) < Cardinality(inbox)
         /\ Cardinality(told) \in Nat /\ Cardinality(inbox) \in Nat
         /\ inbox \ told \subseteq InRange([prev |-> previousMailCount, count |-> Cardinality(inbox)])
<1> USE DEF Undisturbed
<1>1. inbox \in SUBSET Nat /\ IsFiniteSet(inbox) /\ FirstOf(told, inbox) /\ told \in SUBSET inbox
  BY FetchAssumption DEF FetchInv, FetchTypeOK
<1>2. /\ Cardinality(told) <= Cardinality(inbox)
      /\ Cardinality(told) \in Nat /\ Cardinality(inbox) \in Nat
      /\ Cardinality(inbox) # Cardinality(told)
  BY <1>1, FS_Subset, FS_CardinalityType
<1>3. ASSUME NEW u \in inbox \ told
      PROVE  u \in InRange([prev |-> previousMailCount, count |-> Cardinality(inbox)])
  <2>1. Position(u, inbox) > Cardinality(told)
    BY <1>1, FirstPositions
  <2>2. Position(u, inbox) \in Nat /\ Position(u, inbox) <= Cardinality(inbox)
    BY <1>1, PositionBounds
  <2> QED BY <1>2, <2>1, <2>2 DEF InRange
<1> QED BY <1>2, <1>3

LEMMA HandleExistsTypes ==
  ASSUME FetchInv, HandleExists
  PROVE  FetchTypeOK' /\ (fetch \in Fetches)' /\ IsFiniteSet(inbox')
<1> DEFINE range == [prev |-> previousMailCount, count |-> Cardinality(inbox)]
<1> USE DEF HandleExists
<1>1. Cardinality(inbox) \in Nat /\ range \in FetchRange
  BY FS_CardinalityType DEF FetchInv, FetchTypeOK, FetchRange
<1>2. Fetching(range) \in Fetches
  BY <1>1, NoFetchTyped
<1>3. inbox' = inbox /\ told' = inbox /\ previousMailCount' = Cardinality(inbox)
  OBVIOUS
<1>4. \A r \in pendingFetch \cup {range} : InRange(r) \subseteq inbox /\ TooMany(r) \subseteq inbox
  BY DEF InRange, TooMany
<1>5. (fetch \in Fetches)'
  BY <1>2 DEF FetchInv
<1>6. pendingFetch' \in SUBSET FetchRange /\ \A r, s \in pendingFetch' : r = s
  BY <1>1 DEF FetchInv, FetchTypeOK, Remembered
<1>7. skipped' \in SUBSET Uids
  <2>1. inbox \subseteq Uids /\ skipped \subseteq Uids
    BY DEF FetchInv, FetchTypeOK
  <2>2. \/ skipped' = skipped
        \/ skipped' = skipped \cup TooMany(range) \cup UNION {InRange(r) : r \in pendingFetch}
        \/ skipped' = skipped \cup TooMany(range)
    OBVIOUS
  <2>3. UNION {InRange(r) : r \in pendingFetch} \subseteq inbox
    BY <1>4
  <2> HIDE DEF HandleExists
  <2> QED BY <1>4, <2>1, <2>2, <2>3
<1>8. (fetch.pc \in {"none", "fetch", "upsert"} /\ fetch.mails \in SUBSET Uids /\ fetch.range \in FetchRange)'
  BY <1>5 DEF Fetches
<1>9. arrived' = arrived /\ announced' = announced /\ interrupted' = interrupted
  OBVIOUS
<1> HIDE DEF HandleExists
<1> QED BY <1>1, <1>3, <1>5, <1>6, <1>7, <1>8, <1>9 DEF FetchInv, FetchTypeOK

LEMMA HandleExistsKeeps ==
  ASSUME FetchInv, HandleExists
  PROVE  FetchInv'
<1> DEFINE range == [prev |-> previousMailCount, count |-> Cardinality(inbox)]
<1>1. FetchTypeOK' /\ (fetch \in Fetches)' /\ IsFiniteSet(inbox')
  BY HandleExistsTypes
<1>2. ASSUME ~interrupted' PROVE Undisturbed'
  <2>1. Undisturbed /\ told # inbox
    BY <1>2 DEF FetchInv, HandleExists
  <2>2. /\ Cardinality(told) < Cardinality(inbox)
        /\ Cardinality(told) \in Nat /\ Cardinality(inbox) \in Nat
        /\ inbox \ told \subseteq InRange(range)
        /\ previousMailCount = Cardinality(told)
    BY <2>1, ToldRange DEF Undisturbed
  <2>3. /\ inbox' = inbox /\ told' = inbox /\ previousMailCount' = Cardinality(inbox)
        /\ arrived' = arrived /\ announced' = announced
    BY DEF HandleExists
  <2>4. \/ /\ fetch.pc # "none" /\ pendingFetch' = {range} /\ fetch' = fetch
           /\ skipped' = skipped \cup TooMany(range) \cup UNION {InRange(r) : r \in pendingFetch}
        \/ /\ fetch.pc = "none" /\ fetch' = Fetching(range) /\ pendingFetch' = pendingFetch
           /\ skipped' = skipped \cup TooMany(range)
    BY <2>2 DEF HandleExists, Remembered
  <2>5. KnownMails' = KnownMails
    BY <2>3 DEF KnownMails
  <2>6. Cardinality(KnownMails) <= Cardinality(told)
    <3>1. KnownMails \in SUBSET told /\ FirstOf(told, inbox) /\ IsFiniteSet(inbox) /\ inbox \in SUBSET Nat
      BY <2>1, FetchAssumption DEF Undisturbed, FetchInv, FetchTypeOK
    <3> QED BY <3>1, FS_Subset, FirstPositions
  <2>7. \A r \in {range} : Within(r)'
    <3>1. Cardinality(KnownMails) \in Nat
      BY FS_Subset, FS_CardinalityType DEF KnownMails, FetchInv
    <3> QED BY <2>2, <2>3, <2>5, <2>6, <3>1 DEF Within
  <2>8. \A r \in RangesUnderWay : Within(r)'
    <3>1. \A r \in RangesUnderWay : r \in FetchRange /\ Within(r)
      BY <2>1 DEF RangesUnderWay, FetchInv, FetchTypeOK, Undisturbed
    <3> QED BY <2>2, <2>3, <2>5, <3>1 DEF Within, FetchRange
  <2>9. RangesUnderWay' \subseteq RangesUnderWay \cup {range}
    BY <2>4 DEF RangesUnderWay, Fetching
  <2>10. \A r : InRange(r)' = InRange(r) /\ TooMany(r)' = TooMany(r)
    BY <2>3 DEF InRange, TooMany
  <2>11. range \in RangesUnderWay'
    BY <2>4 DEF RangesUnderWay, Fetching
  <2>12. NoneForgotten'
    <3> SUFFICES ASSUME NEW u \in arrived, u \in inbox
                 PROVE  u \in announced \cup skipped' \/ \E r \in RangesUnderWay' : u \in InRange(r)
      BY <2>3, <2>10 DEF NoneForgotten
    <3>1. CASE u \in inbox \ told
      BY <2>2, <2>11, <3>1
    <3>2. CASE u \in told
      <4>1. u \in announced \cup skipped \/ \E r \in RangesUnderWay : u \in InRange(r)
        BY <2>1, <3>2 DEF Undisturbed, NoneForgotten
      <4>2. skipped \subseteq skipped'
        BY <2>4
      <4>3. ASSUME NEW r \in RangesUnderWay, u \in InRange(r)
            PROVE  u \in skipped' \/ r \in RangesUnderWay'
        <5>1. CASE fetch.pc = "none"
          BY <2>1, <4>3, <5>1 DEF Undisturbed, RangesUnderWay
        <5>2. CASE fetch.pc # "none" /\ r \in pendingFetch
          BY <2>4, <4>3, <5>2
        <5>3. CASE fetch.pc # "none" /\ r = fetch.range
          BY <2>4, <5>3 DEF RangesUnderWay
        <5> QED BY <4>3, <5>1, <5>2, <5>3 DEF RangesUnderWay
      <4> QED BY <4>1, <4>2, <4>3
    <3> QED BY <3>1, <3>2
  <2>13. (/\ FirstOf(KnownMails, inbox) /\ FirstOf(told, inbox) /\ KnownMails \subseteq told)'
    BY <2>1, <2>3, <2>5 DEF Undisturbed, FirstOf, KnownMails
  <2>14. (/\ \A r \in pendingFetch : TooMany(r) \subseteq skipped
          /\ fetch.pc = "fetch" => TooMany(fetch.range) \subseteq skipped
          /\ fetch.pc = "upsert" => InRange(fetch.range) \subseteq skipped \cup fetch.mails
          /\ pendingFetch # {} => fetch.pc # "none"
          /\ fetch.mails \subseteq arrived)'
    BY <2>1, <2>3, <2>4, <2>10 DEF Undisturbed, Fetching
  <2> QED BY <2>1, <2>3, <2>7, <2>8, <2>9, <2>12, <2>13, <2>14 DEF Undisturbed
<1> QED BY <1>1, <1>2 DEF FetchInv

\* The mails that are fetched came since the connection was opened, and are all
\* of the range but those it is too long for.
LEMMA FetchesTheRange ==
  ASSUME FetchInv, Undisturbed, fetch.pc = "fetch",
         NEW mails, mails = Selected(RangeStart(fetch.range))
  PROVE  /\ mails \subseteq arrived
         /\ InRange(fetch.range) \subseteq
              TooMany(fetch.range) \cup {u \in mails : Position(u, mails) <= MaxFeed}
<1> DEFINE r == fetch.range
           start == RangeStart(r)
           n == Cardinality(inbox)
<1>1. inbox \in SUBSET Nat /\ IsFiniteSet(inbox) /\ n \in Nat /\ r \in FetchRange /\ r \in RangesUnderWay
  BY FetchAssumption, FS_CardinalityType DEF FetchInv, FetchTypeOK, RangesUnderWay
<1>2. /\ Cardinality(KnownMails) \in Nat /\ Cardinality(told) \in Nat /\ Cardinality(told) <= n
      /\ \A u \in KnownMails : Position(u, inbox) <= Cardinality(KnownMails)
  BY <1>1, FirstPositions DEF Undisturbed
<1>3. /\ r.prev \in Nat /\ r.count \in Nat
      /\ Cardinality(KnownMails) <= r.prev /\ r.prev < r.count /\ r.count <= n
  BY <1>1, <1>2 DEF Undisturbed, Within, FetchRange
<1>4. start \in Nat /\ start > r.prev /\ start <= r.count /\ r.count - start < MaxFeed
  BY <1>3, FetchAssumption DEF RangeStart
<1>5. start \in 1..n
  BY <1>1, <1>3, <1>4
<1>6. mails = {u \in inbox : Position(u, inbox) >= start}
  BY <1>1, <1>5, PositionsFrom DEF Selected
<1>7. \A u \in mails : Position(u, mails) + start <= Position(u, inbox) + 1
  BY <1>1, <1>5, <1>6, PositionsFrom
<1>8. \A u \in inbox : Position(u, inbox) \in Nat
  BY <1>1, PositionBounds
<1>9. \A u \in mails : Position(u, mails) \in Nat
  <2>1. mails \in SUBSET inbox
    BY <1>6
  <2>2. IsFiniteSet(mails) /\ mails \in SUBSET Nat
    BY <1>1, <2>1, FS_Subset
  <2> QED BY <2>2, PositionBounds
<1>10. ASSUME NEW u \in mails PROVE u \in arrived
  <2>1. u \in inbox /\ Position(u, inbox) > Cardinality(KnownMails)
    BY <1>2, <1>3, <1>4, <1>6, <1>8
  <2> QED BY <1>2, <1>8, <2>1 DEF KnownMails
<1>11. ASSUME NEW u \in InRange(r), u \notin TooMany(r) PROVE u \in mails /\ Position(u, mails) <= MaxFeed
  <2>1. u \in inbox /\ Position(u, inbox) \in Nat /\ Position(u, inbox) <= r.count
    BY <1>3, <1>8 DEF InRange
  <2>2. Position(u, inbox) >= start
    BY <1>4, <1>11, <2>1 DEF TooMany
  <2>3. u \in mails
    BY <1>6, <2>1, <2>2
  <2>4. Position(u, mails) \in Nat /\ Position(u, mails) + start <= Position(u, inbox) + 1
    BY <1>7, <1>9, <2>3
  <2> HIDE DEF start, r
  <2> QED BY <1>3, <1>4, <2>1, <2>3, <2>4, FetchAssumption
<1> QED BY <1>10, <1>11

LEMMA FetchedKeeps ==
  ASSUME FetchInv, Fetched
  PROVE  FetchInv'
<1> DEFINE mails == Selected(RangeStart(fetch.range))
           counted == {u \in mails : Position(u, mails) <= MaxFeed}
<1>1. /\ fetch.pc = "fetch" /\ fetch' = [fetch EXCEPT !.pc = "upsert", !.mails = counted]
      /\ UNCHANGED <<inbox, told, previousMailCount, pendingFetch, arrived, announced, skipped, interrupted>>
  BY DEF Fetched
<1>2. mails \subseteq inbox /\ inbox \subseteq Uids
  BY DEF Selected, FetchInv, FetchTypeOK
<1>3. fetch'.pc = "upsert" /\ fetch'.mails = counted /\ fetch'.range = fetch.range /\ fetch' \in Fetches
  BY <1>1, <1>2 DEF FetchInv, Fetches
<1>4. FetchTypeOK' /\ IsFiniteSet(inbox')
  BY <1>1, <1>2, <1>3 DEF FetchInv, FetchTypeOK
<1>5. ASSUME ~interrupted' PROVE Undisturbed'
  <2>1. Undisturbed
    BY <1>1, <1>5 DEF FetchInv
  <2>2. mails \subseteq arrived /\ InRange(fetch.range) \subseteq TooMany(fetch.range) \cup counted
    BY <1>1, <2>1, FetchesTheRange
  <2> HIDE DEF mails
  <2>3. counted \subseteq arrived /\ InRange(fetch.range) \subseteq skipped \cup counted
    BY <1>1, <2>1, <2>2 DEF Undisturbed
  <2> HIDE DEF counted
  <2>4. RangesUnderWay' = RangesUnderWay /\ KnownMails' = KnownMails
    BY <1>1, <1>3 DEF RangesUnderWay, KnownMails
  <2>5. \A r : InRange(r)' = InRange(r) /\ TooMany(r)' = TooMany(r) /\ Within(r)' = Within(r)
    BY <1>1, <2>4 DEF InRange, TooMany, Within
  <2>6. NoneForgotten'
    BY <1>1, <2>1, <2>4, <2>5 DEF Undisturbed, NoneForgotten
  <2>7. FirstOf(KnownMails, inbox)' /\ FirstOf(told, inbox)' /\ (KnownMails \subseteq told)'
    BY <1>1, <2>1, <2>4 DEF Undisturbed, FirstOf
  <2> QED BY <1>1, <1>3, <2>1, <2>3, <2>4, <2>5, <2>6, <2>7 DEF Undisturbed
<1> QED BY <1>3, <1>4, <1>5 DEF FetchInv

\* The range remembered, if there is one, is next.
LEMMA DrainedTypes ==
  ASSUME FetchInv, Drained
  PROVE  /\ (fetch \in Fetches)' /\ pendingFetch' = {}
         /\ \/ pendingFetch = {} /\ fetch' = NoFetch
            \/ \E r \in pendingFetch : fetch' = Fetching(r) /\ pendingFetch = {r}
<1>1. CASE pendingFetch = {}
  BY <1>1, NoFetchTyped DEF Drained
<1>2. CASE pendingFetch # {}
  <2> DEFINE r == CHOOSE s \in pendingFetch : TRUE
  <2>1. r \in pendingFetch
    BY <1>2
  <2>2. fetch' = Fetching(r) /\ pendingFetch' = {}
    BY <1>2 DEF Drained
  <2> HIDE DEF r
  <2>3. pendingFetch = {r} /\ r \in FetchRange
    BY <2>1 DEF FetchInv, FetchTypeOK
  <2> QED BY <1>2, <2>1, <2>2, <2>3, NoFetchTyped
<1> QED BY <1>1, <1>2

LEMMA AnnounceKeeps ==
  ASSUME FetchInv, Announce
  PROVE  FetchInv'
<1>1. /\ fetch.pc = "upsert" /\ announced' = announced \cup fetch.mails
      /\ UNCHANGED <<inbox, told, previousMailCount, arrived, skipped, interrupted>>
  BY DEF Announce
<1>2. /\ (fetch \in Fetches)' /\ pendingFetch' = {}
      /\ \/ pendingFetch = {} /\ fetch' = NoFetch
         \/ \E r \in pendingFetch : fetch' = Fetching(r) /\ pendingFetch = {r}
  BY DrainedTypes DEF Announce
<1>3. FetchTypeOK' /\ IsFiniteSet(inbox')
  BY <1>1, <1>2 DEF FetchInv, FetchTypeOK, Fetches
<1>4. ASSUME ~interrupted' PROVE Undisturbed'
  <2>1. Undisturbed
    BY <1>1, <1>4 DEF FetchInv
  <2>2. KnownMails' = KnownMails /\ RangesUnderWay' = pendingFetch
    BY <1>1, <1>2 DEF KnownMails, RangesUnderWay, NoFetch, Fetching
  <2>3. \A r : InRange(r)' = InRange(r) /\ TooMany(r)' = TooMany(r) /\ Within(r)' = Within(r)
    BY <1>1, <2>2 DEF InRange, TooMany, Within
  <2>4. RangesUnderWay = pendingFetch \cup {fetch.range}
    BY <1>1 DEF RangesUnderWay
  <2>5. NoneForgotten'
    <3> SUFFICES ASSUME NEW u \in arrived, u \in told
                 PROVE  u \in announced' \cup skipped \/ \E r \in pendingFetch : u \in InRange(r)
      BY <1>1, <2>2, <2>3 DEF NoneForgotten
    <3>1. u \in announced \cup skipped \/ \E r \in RangesUnderWay : u \in InRange(r)
      BY <2>1 DEF Undisturbed, NoneForgotten
    <3>2. u \in InRange(fetch.range) => u \in skipped \cup fetch.mails
      BY <1>1, <2>1 DEF Undisturbed
    <3> QED BY <1>1, <2>4, <3>1, <3>2
  <2>6. (/\ FirstOf(KnownMails, inbox) /\ FirstOf(told, inbox) /\ KnownMails \subseteq told
         /\ previousMailCount = Cardinality(told) /\ arrived \subseteq inbox /\ announced \subseteq arrived)'
    BY <1>1, <2>1, <2>2 DEF Undisturbed, FirstOf
  <2>7. (\A r \in RangesUnderWay : Within(r))'
    BY <2>1, <2>2, <2>3, <2>4 DEF Undisturbed
  <2> DEFINE goingOn ==
        /\ pendingFetch # {} => fetch.pc # "none"
        /\ \A r \in pendingFetch : TooMany(r) \subseteq skipped
        /\ fetch.mails \subseteq arrived
        /\ fetch.pc = "fetch" => TooMany(fetch.range) \subseteq skipped
        /\ fetch.pc = "upsert" => InRange(fetch.range) \subseteq skipped \cup fetch.mails
  <2>8. goingOn'
    <3>1. CASE fetch' = NoFetch
      BY <1>2, <3>1 DEF NoFetch
    <3>2. ASSUME NEW r \in pendingFetch, fetch' = Fetching(r) PROVE goingOn'
      <4>1. TooMany(r)' = TooMany(r) /\ TooMany(r) \subseteq skipped /\ skipped' = skipped
        BY <1>1, <2>1, <2>3, <3>2 DEF Undisturbed
      <4>2. fetch'.pc = "fetch" /\ fetch'.range = r /\ fetch'.mails = {}
        BY <3>2 DEF Fetching
      <4>3. (TooMany(fetch.range) \subseteq skipped)'
        BY <4>1, <4>2 DEF TooMany, InRange
      <4> QED BY <1>2, <4>2, <4>3
    <3> QED BY <1>2, <3>1, <3>2
  <2> QED BY <2>5, <2>6, <2>7, <2>8 DEF Undisturbed
<1> QED BY <1>2, <1>3, <1>4 DEF FetchInv

LEMMA AnnounceFailsKeeps ==
  ASSUME FetchInv, AnnounceFails
  PROVE  FetchInv'
<1>1. (fetch \in Fetches)' /\ pendingFetch' = {}
  BY DrainedTypes DEF AnnounceFails
<1>2. interrupted' /\ IsFiniteSet(inbox')
  BY DEF AnnounceFails, FetchInv
<1>3. announced' \subseteq Uids
  BY DEF AnnounceFails, FetchInv, FetchTypeOK
<1>4. FetchTypeOK'
  BY <1>1, <1>3 DEF AnnounceFails, FetchInv, FetchTypeOK, Fetches
<1> QED BY <1>1, <1>2, <1>4 DEF FetchInv

LEMMA ReopenedKeeps ==
  ASSUME FetchInv, Reopened
  PROVE  FetchInv'
<1> USE DEF Reopened
<1>1. (fetch \in Fetches)'
  BY NoFetchTyped
<1>2. IsFiniteSet(inbox') /\ Cardinality(inbox) \in Nat
  BY FS_CardinalityType DEF FetchInv
<1>3. FetchTypeOK'
  BY <1>1, <1>2 DEF FetchInv, FetchTypeOK, Fetches
<1>4. FirstOf(KnownMails, inbox)' /\ FirstOf(told, inbox)' /\ (KnownMails \subseteq told)'
  BY DEF FirstOf, KnownMails
<1>5. RangesUnderWay' = {}
  BY DEF RangesUnderWay, NoFetch
<1>6. Undisturbed'
  BY <1>4, <1>5 DEF Undisturbed, NoneForgotten, NoFetch
<1> QED BY <1>1, <1>2, <1>3, <1>6 DEF FetchInv

LEMMA FetchNextKeeps == FetchInv /\ [FetchNext]_fetchVars => FetchInv'
<1> SUFFICES ASSUME FetchInv, [FetchNext]_fetchVars PROVE FetchInv'
  OBVIOUS
<1>1. CASE UNCHANGED fetchVars
  <2>1. /\ UNCHANGED <<inbox, told, previousMailCount, fetch, pendingFetch>>
        /\ UNCHANGED <<arrived, announced, skipped, interrupted>>
    BY <1>1 DEF fetchVars
  <2>2. FetchTypeOK' /\ (fetch \in Fetches)' /\ IsFiniteSet(inbox')
    BY <2>1 DEF FetchInv, FetchTypeOK
  <2>3. KnownMails' = KnownMails /\ RangesUnderWay' = RangesUnderWay
    BY <2>1 DEF KnownMails, RangesUnderWay
  <2>4. \A r : InRange(r)' = InRange(r) /\ TooMany(r)' = TooMany(r) /\ Within(r)' = Within(r)
    BY <2>1, <2>3 DEF InRange, TooMany, Within
  <2>5. FirstOf(KnownMails, inbox)' = FirstOf(KnownMails, inbox) /\ FirstOf(told, inbox)' = FirstOf(told, inbox)
    BY <2>1, <2>3 DEF FirstOf
  <2>6. NoneForgotten' = NoneForgotten
    BY <2>1, <2>3, <2>4 DEF NoneForgotten
  <2>7. Undisturbed => Undisturbed'
    BY <2>1, <2>3, <2>4, <2>5, <2>6 DEF Undisturbed
  <2> QED BY <2>1, <2>2, <2>7 DEF FetchInv
<1>2. ASSUME NEW u \in Uids, Arrive(u) PROVE FetchInv'
  BY <1>2, ArriveKeeps
<1>3. ASSUME NEW u \in Uids, DeleteMail(u) PROVE FetchInv'
  BY <1>3, DeleteKeeps
<1> QED BY <1>1, <1>2, <1>3, HandleExistsKeeps, FetchedKeeps, AnnounceKeeps, AnnounceFailsKeeps,
           ReopenedKeeps DEF FetchNext

\* The state of the announcements is of its type (MailIdleService.idleConnections).
THEOREM FetchTyped == FetchSpec => []FetchTypeOK
<1>1. FetchInv => FetchTypeOK
  BY DEF FetchInv
<1> QED BY <1>1, FetchInitially, FetchNextKeeps, PTL DEF FetchSpec

\* Unless mails are deleted or a command fails, nothing but new mails is announced,
\* and every new mail is in the end, except those of a range that was overwritten or
\* too long (fetchNewMailsAndNotify, drainFetchQueue, fetchAndNotifyForRange).
THEOREM MailsAnnounced == FetchSpec => []NewMailsAnnounced
<1>1. FetchInv => NewMailsAnnounced
  <2> SUFFICES ASSUME FetchInv, ~interrupted
               PROVE  /\ announced \subseteq arrived
                      /\ fetch.pc = "none" /\ told = inbox => arrived \subseteq announced \cup skipped
    BY DEF NewMailsAnnounced
  <2>1. Undisturbed
    BY DEF FetchInv
  <2>2. fetch.pc = "none" => RangesUnderWay = {}
    BY <2>1 DEF RangesUnderWay, Undisturbed
  <2> QED BY <2>1, <2>2 DEF Undisturbed, NoneForgotten
<1> QED BY <1>1, FetchInitially, FetchNextKeeps, PTL DEF FetchSpec
-----------------------------------------------------------------------------
(***************************************************************************)
(* The parts together.  A step of one part leaves the variables of all     *)
(* others alone, so each part behaves as it does by itself.                *)
(***************************************************************************)

LEMMA PartsStepAlone ==
  ASSUME [Next]_mcVars
  PROVE  /\ [PairingNext]_vars /\ [CodesNext]_codeVars /\ [KcNext]_kcVars
         /\ [PermNext]_permVars /\ [AttachmentNext]_attachmentVars /\ [FetchNext]_fetchVars
         /\ [PosNext]_posVars /\ [AccessNext]_accessVars
<1>1. CASE UNCHANGED mcVars
  BY <1>1, Zenon DEF mcVars
<1>2. CASE PairingsPart
  BY <1>2, Zenon DEF PairingsPart
<1>3. CASE CodesPart
  BY <1>3, Zenon DEF CodesPart
<1>4. CASE KeycloakPart
  BY <1>4, Zenon DEF KeycloakPart
<1>5. CASE PermissionsPart
  BY <1>5, Zenon DEF PermissionsPart
<1>6. CASE AttachmentsPart
  BY <1>6, Zenon DEF AttachmentsPart
<1>7. CASE MailsPart
  BY <1>7, Zenon DEF MailsPart
<1>8. CASE PositionsPart
  BY <1>8, Zenon DEF PositionsPart
<1>9. CASE AccessPart
  BY <1>9, Zenon DEF AccessPart
<1> QED BY <1>1, <1>2, <1>3, <1>4, <1>5, <1>6, <1>7, <1>8, <1>9, Zenon DEF Next

\* Each service behaves as its own specification says when all run side by side, so
\* what is proved of one holds of them together.
THEOREM PartsByThemselves ==
  Spec => /\ PairingSpec /\ CodesSpec /\ KcSpec /\ PermSpec
          /\ AttachmentSpec /\ FetchSpec /\ PosSpec /\ AccessSpec
<1>1. Init => /\ PairingInit /\ CodesInit /\ KcInit /\ PermInit
              /\ AttachmentInit /\ FetchInit /\ PosInit /\ AccessInit
  BY DEF Init
<1>2. [Next]_mcVars =>
        /\ [PairingNext]_vars /\ [CodesNext]_codeVars /\ [KcNext]_kcVars
        /\ [PermNext]_permVars /\ [AttachmentNext]_attachmentVars /\ [FetchNext]_fetchVars
        /\ [PosNext]_posVars /\ [AccessNext]_accessVars
  BY PartsStepAlone
<1> QED BY <1>1, <1>2, PTL
        DEF Spec, PairingSpec, CodesSpec, KcSpec, PermSpec, AttachmentSpec, FetchSpec, PosSpec, AccessSpec

\* The state of every one of these services is of its type.
THEOREM PartsTyped == Spec => []TypeOK
<1>1. PairingSpec => []PairingTypeOK
  <2>1. PairingInv => PairingTypeOK
    BY DEF PairingInv
  <2>2. PairingInv /\ [PairingNext]_vars => PairingInv'
    BY PairingInvKept
  <2> QED BY <2>1, <2>2, PairingInitHolds, PTL DEF PairingSpec
<1>2. CodesSpec => []CodesTypeOK
  <2>1. CodesInv => CodesTypeOK
    BY DEF CodesInv
  <2>2. CodesInv /\ [CodesNext]_codeVars => CodesInv'
    BY CodesInvKept
  <2> QED BY <2>1, <2>2, CodesInitHolds, PTL DEF CodesSpec
<1>3. KcSpec => []KcTypeOK
  <2>1. KcInv => KcTypeOK
    BY DEF KcInv
  <2>2. KcInv /\ [KcNext]_kcVars => KcInv'
    BY KcInvKept
  <2> QED BY <2>1, <2>2, KcInitHolds, PTL DEF KcSpec
<1>4. PermSpec => []PermTypeOK
  <2>1. PermInv => PermTypeOK
    BY DEF PermInv
  <2>2. PermInv /\ [PermNext]_permVars => PermInv'
    BY PermInvKept
  <2> QED BY <2>1, <2>2, PermInitHolds, PTL DEF PermSpec
<1>5. AttachmentSpec => []AttachmentTypeOK
  <2>1. ImagesInv => AttachmentTypeOK
    BY DEF ImagesInv
  <2>2. ImagesInv /\ [AttachmentNext]_attachmentVars => ImagesInv'
    BY ImagesInvKept
  <2> QED BY <2>1, <2>2, ImagesInitHolds, PTL DEF AttachmentSpec
<1>6. PosSpec => []PosTypeOK
  <2>1. PosInv => PosTypeOK
    BY DEF PosInv
  <2>2. PosInv /\ [PosNext]_posVars => PosInv'
    BY PosInvKept
  <2> QED BY <2>1, <2>2, PosInitHolds, PTL DEF PosSpec
<1>7. AccessSpec => []AccessTypeOK
  <2>1. AccessInv => AccessTypeOK
    BY DEF AccessInv
  <2>2. AccessInv /\ [AccessNext]_accessVars => AccessInv'
    BY AccessInvKept
  <2> QED BY <2>1, <2>2, AccessInitHolds, PTL DEF AccessSpec
<1> QED BY <1>1, <1>2, <1>3, <1>4, <1>5, <1>6, <1>7, FetchTyped, PartsByThemselves, PTL DEF TypeOK
=============================================================================
