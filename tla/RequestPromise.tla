---------------------------- MODULE RequestPromise ----------------------------
(***************************************************************************)
(* What a request queue promises the services that enqueue requests: a     *)
(* caller that gets a result knows the request was performed; one that     *)
(* gets an error knows nothing.  A request may be performed several times, *)
(* once per attempt at most, and also after the caller got its answer.     *)
(***************************************************************************)
CONSTANTS
  Requests,   \* requests; one may be enqueued again once it is over
  Attempts    \* the attempts the queue may make at a request

VARIABLES
  outcome,    \* what the caller knows
  performed   \* the attempts whose effect took place

promiseVars == <<outcome, performed>>

PromiseInit ==
  /\ outcome = [r \in Requests |-> "none"]
  /\ performed = [r \in Requests |-> {}]

Accept(r) ==
  /\ outcome[r] # "waiting"
  /\ outcome' = [outcome EXCEPT ![r] = "waiting"]
  /\ performed' = [performed EXCEPT ![r] = {}]

Perform(r) ==
  /\ outcome[r] # "none"
  /\ \E a \in Attempts \ performed[r] : performed' = [performed EXCEPT ![r] = @ \cup {a}]
  /\ UNCHANGED outcome

Succeed(r) ==
  /\ outcome[r] = "waiting" /\ performed[r] # {}
  /\ outcome' = [outcome EXCEPT ![r] = "done"]
  /\ UNCHANGED performed

Fail(r) ==
  /\ outcome[r] = "waiting"
  /\ outcome' = [outcome EXCEPT ![r] = "failed"]
  /\ UNCHANGED performed

\* The process of the callers is gone.
Forget ==
  /\ outcome' = [r \in Requests |-> IF outcome[r] = "waiting" THEN "lost" ELSE outcome[r]]
  /\ UNCHANGED performed

PromiseNext ==
  \/ \E r \in Requests : Accept(r) \/ Perform(r) \/ Succeed(r) \/ Fail(r)
  \/ Forget

PromiseSpec == PromiseInit /\ [][PromiseNext]_promiseVars
=============================================================================
