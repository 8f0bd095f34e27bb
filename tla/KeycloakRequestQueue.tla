-------------------------- MODULE KeycloakRequestQueue --------------------------
(***************************************************************************)
(* KeycloakRequestQueue: requests to the Keycloak admin API are BullMQ     *)
(* jobs.  The worker does not run before a token was fetched.  An attempt  *)
(* whose request gets no answer, or 401 or 403, fetches a new token and    *)
(* sends the request once more.  The token is shared by all jobs.          *)
(***************************************************************************)
EXTENDS Naturals

CONSTANTS
  KcRequests,   \* calls of enqueue under way
  KcAttempts,   \* KEYCLOAK_QUEUE_REQUESTS_ATTEMPTS
  KcStalls      \* times BullMQ runs a job again whose worker died

ASSUME KcAssumption == KcAttempts \in Nat \ {0} /\ KcStalls \in Nat

VARIABLES
  ready,        \* whenReady is resolved and the worker runs
  token,        \* the token of axiosClient is accepted by Keycloak
  kcJob,        \* the job of a request
  kcHttp,       \* the HTTP requests sent for it
  kcOutcome     \* what enqueue returned

kcVars == <<ready, token, kcJob, kcHttp, kcOutcome>>

-----------------------------------------------------------------------------
(* Types.  An attempt sends one request or two.                             *)

Sends == 1..(2 * (KcAttempts + KcStalls))

KcJob == [state: {"none", "queued", "sent", "refresh", "resent"},
          made: 0..(KcAttempts - 1), stalls: 0..KcStalls]

NoKcJob == [state |-> "none", made |-> 0, stalls |-> 0]

KcTypeOK ==
  /\ ready \in BOOLEAN /\ token \in BOOLEAN
  /\ kcJob \in [KcRequests -> KcJob]
  /\ kcHttp \in [KcRequests -> [Sends -> {"unsent", "travelling", "performed"}]]
  /\ kcOutcome \in [KcRequests -> {"none", "waiting", "done", "failed", "lost"}]

\* The number of the request the job has sent, or sends next.
SendNumber(r) ==
  2 * (kcJob[r].made + kcJob[r].stalls) + (IF kcJob[r].state \in {"refresh", "resent"} THEN 2 ELSE 1)

Awaiting(r) == kcJob[r].state \in {"sent", "resent"}

KcInit ==
  /\ ready = FALSE /\ token = FALSE
  /\ kcJob = [r \in KcRequests |-> NoKcJob]
  /\ kcHttp = [r \in KcRequests |-> [a \in Sends |-> "unsent"]]
  /\ kcOutcome = [r \in KcRequests |-> "none"]

-----------------------------------------------------------------------------
(* Operations *)

\* bootstrapKeycloakClientWithRetry: a failed fetch of the token is repeated.
Bootstrap ==
  /\ ~ready
  /\ ready' = TRUE /\ token' = TRUE
  /\ UNCHANGED <<kcJob, kcHttp, kcOutcome>>

\* The token runs out, or the rights of its user change.
TokenExpires ==
  /\ token
  /\ token' = FALSE
  /\ UNCHANGED <<ready, kcJob, kcHttp, kcOutcome>>

\* enqueue: the job is added and awaited, ready or not.
KcEnqueue(r) ==
  /\ kcJob[r].state = "none" /\ kcOutcome[r] # "waiting"
  /\ \A a \in Sends : kcHttp[r][a] # "travelling"
  /\ kcJob' = [kcJob EXCEPT ![r] = [NoKcJob EXCEPT !.state = "queued"]]
  /\ kcHttp' = [kcHttp EXCEPT ![r] = [a \in Sends |-> "unsent"]]
  /\ kcOutcome' = [kcOutcome EXCEPT ![r] = "waiting"]
  /\ UNCHANGED <<ready, token>>

\* The worker takes the job, or its backoff is over; without a token that
\* Keycloak accepts the request will have no effect.
KcSend(r) ==
  /\ ready /\ kcJob[r].state = "queued"
  /\ kcJob' = [kcJob EXCEPT ![r].state = "sent"]
  /\ kcHttp' = [kcHttp EXCEPT ![r][SendNumber(r)] = IF token THEN "travelling" ELSE "unsent"]
  /\ UNCHANGED <<ready, token, kcOutcome>>

\* Keycloak performs a request, whether or not anybody still waits for it.
KcPerform(r, a) ==
  /\ kcHttp[r][a] = "travelling"
  /\ kcHttp' = [kcHttp EXCEPT ![r][a] = "performed"]
  /\ UNCHANGED <<ready, token, kcJob, kcOutcome>>

\* A request nobody waits for any more never arrives.
KcLose(r, a) ==
  /\ kcHttp[r][a] = "travelling"
  /\ Awaiting(r) => a # SendNumber(r)
  /\ kcHttp' = [kcHttp EXCEPT ![r][a] = "unsent"]
  /\ UNCHANGED <<ready, token, kcJob, kcOutcome>>

\* What the caller is told at the end of its job, if it is still there.
KcTold(r, result) == [kcOutcome EXCEPT ![r] = IF @ = "waiting" THEN result ELSE @]

KcAnswered(r) ==
  /\ Awaiting(r)
  /\ kcHttp[r][SendNumber(r)] = "performed"
  /\ kcJob' = [kcJob EXCEPT ![r] = NoKcJob]
  /\ kcOutcome' = KcTold(r, "done")
  /\ UNCHANGED <<ready, token, kcHttp>>

\* Keycloak turned the request of the job down, or there is no answer: then it
\* stays under way or performed.
TurnedDown(r) ==
  \/ /\ kcHttp[r][SendNumber(r)] # "performed"
     /\ kcHttp' = [kcHttp EXCEPT ![r][SendNumber(r)] = "unsent"]
  \/ UNCHANGED kcHttp

\* Keycloak answers with an error, having performed the request or not.
ErrorAnswer(r) ==
  kcHttp' = [kcHttp EXCEPT ![r][SendNumber(r)] = IF @ = "performed" THEN @ ELSE "unsent"]

\* No answer, or 401 or 403, to the first request: a new token is fetched.
WantsToken(r) ==
  /\ kcJob[r].state = "sent"
  /\ TurnedDown(r)
  /\ kcJob' = [kcJob EXCEPT ![r].state = "refresh"]
  /\ UNCHANGED <<ready, token, kcOutcome>>

\* Faulty variant: a request sent again after the token was fetched counts as done.
ResendUnawaited(r) ==
  /\ kcJob[r].state = "refresh"
  /\ token' = TRUE
  /\ kcHttp' = [kcHttp EXCEPT ![r][SendNumber(r)] = "travelling"]
  /\ kcJob' = [kcJob EXCEPT ![r] = NoKcJob]
  /\ kcOutcome' = KcTold(r, "done")
  /\ UNCHANGED ready

\* initKeycloakClient, and the request once more.
Resend(r) ==
  /\ kcJob[r].state = "refresh"
  /\ token' = TRUE
  /\ kcHttp' = [kcHttp EXCEPT ![r][SendNumber(r)] = "travelling"]
  /\ kcJob' = [kcJob EXCEPT ![r].state = "resent"]
  /\ UNCHANGED <<ready, kcOutcome>>

\* The job waits for its next attempt or is over.
KcAttemptFails(r) ==
  IF kcJob[r].made + 1 < KcAttempts
  THEN /\ kcJob' = [kcJob EXCEPT ![r].state = "queued", ![r].made = @ + 1]
       /\ UNCHANGED kcOutcome
  ELSE /\ kcJob' = [kcJob EXCEPT ![r] = NoKcJob]
       /\ kcOutcome' = KcTold(r, "failed")

\* Another error answers the first request, any error or none the second, or no
\* token can be fetched.
KcFails(r) ==
  /\ \/ kcJob[r].state = "sent" /\ ErrorAnswer(r)
     \/ kcJob[r].state = "resent" /\ TurnedDown(r)
     \/ kcJob[r].state = "refresh" /\ UNCHANGED kcHttp
  /\ KcAttemptFails(r)
  /\ UNCHANGED <<ready, token>>

\* The API process restarts: the jobs outlive it, the callers do not.
KcRestart ==
  /\ ready' = FALSE /\ token' = FALSE
  /\ kcJob' = [r \in KcRequests |->
       IF kcJob[r].state \in {"none", "queued"} THEN kcJob[r]
       ELSE IF kcJob[r].stalls < KcStalls
            THEN [kcJob[r] EXCEPT !.state = "queued", !.stalls = @ + 1]
            ELSE NoKcJob]
  /\ kcOutcome' = [r \in KcRequests |-> IF kcOutcome[r] = "waiting" THEN "lost" ELSE kcOutcome[r]]
  /\ UNCHANGED kcHttp

KcNext ==
  \/ \E r \in KcRequests :
       \/ KcEnqueue(r) \/ KcSend(r) \/ KcAnswered(r) \/ WantsToken(r) \/ Resend(r) \/ KcFails(r)
       \/ \E a \in Sends : KcPerform(r, a) \/ KcLose(r, a)
  \/ Bootstrap
  \/ TokenExpires
  \/ KcRestart

KcSpec == KcInit /\ [][KcNext]_kcVars

-----------------------------------------------------------------------------
(* Properties *)

KcPerformed == [r \in KcRequests |-> {a \in Sends : kcHttp[r][a] = "performed"}]

KcPromise == INSTANCE RequestPromise WITH
  Requests <- KcRequests, Attempts <- Sends, outcome <- kcOutcome, performed <- KcPerformed

\* The queue implements the promise its callers rely on: across retries, new
\* tokens, lost answers and restarts a result means that the request was
\* performed, and at most two requests are performed per attempt (handleJob).
KcKeepsPromise == KcPromise!PromiseSpec
=============================================================================
