--------------------------- MODULE ParentChildPairing ---------------------------
(***************************************************************************)
(* The status of a parent-child pairing in MongoDB and the relation it     *)
(* stands for in the linuxmuster API (LMN).  updateParentChildPairingStatus*)
(* reads the pairing, asks LMN through the request queue, and saves the    *)
(* status; nothing locks the pairing, and nothing is undone when a step    *)
(* fails.  A rejection asks LMN only if the status it read was "accepted", *)
(* and to make a pairing pending again asks it nothing.                    *)
(*                                                                         *)
(* Every request of LmnRequestQueue here is one call of                    *)
(* updateParentChildPairingStatus.                                         *)
(***************************************************************************)
EXTENDS LmnRequestQueue

CONSTANT Pairs   \* parents and students who may be paired

VARIABLES
  status,        \* status of the pairing documents, "none": there is none
  related,       \* pairs LMN has as parent and student
  calls,         \* the calls of updateParentChildPairingStatus
  disturbed,     \* pairs with an overlap, a failure or a restart since the
                 \* last update of both sides (history)
  reopened       \* pairs made pending from accepted since then (history)

pairingVars == <<status, related, calls, disturbed, reopened>>

vars == <<queueVars, pairingVars>>

-----------------------------------------------------------------------------
(* Types.  read: the status the call found; alone: nothing else was under   *)
(* way for the pair since the call began.                                   *)

Status == {"pending", "accepted", "rejected"}

Call == [pc: {"idle", "lmn", "save"}, pair: Pairs, want: Status, read: Status, alone: BOOLEAN]

PairingTypeOK ==
  /\ QueueTypeOK
  /\ status \in [Pairs -> Status \cup {"none"}]
  /\ related \in SUBSET Pairs
  /\ calls \in [Requests -> Call]
  /\ disturbed \in SUBSET Pairs /\ reopened \in SUBSET Pairs

\* Faulty variant: a rejection never asks LMN.
AsksLmnToAddOnly(want, read) == want = "accepted"

\* Whether a call asks LMN.
AsksLmn(want, read) == want = "accepted" \/ (want = "rejected" /\ read = "accepted")

\* Something is under way for the pair: a call, a job, or a request to LMN.
Working(c) == calls[c].pc # "idle" \/ ~Unused(c)

Busy(p) == \E c \in Requests : calls[c].pair = p /\ Working(c)

PairingInit ==
  /\ QueueInit
  /\ status = [p \in Pairs |-> "none"]
  /\ related = {}
  /\ calls \in [Requests -> {[pc |-> "idle", pair |-> p, want |-> "accepted",
                              read |-> "pending", alone |-> FALSE] : p \in Pairs}]
  /\ disturbed = {} /\ reopened = {}

-----------------------------------------------------------------------------
(* Operations *)

\* createParentChildPairing, by a parent or student with a code of the other.
CreatePairing(p) ==
  /\ status[p] = "none"
  /\ status' = [status EXCEPT ![p] = "pending"]
  /\ UNCHANGED <<queueVars, related, calls, disturbed, reopened>>

\* The calls after one for pair p began.
WithCall(c, p, call) ==
  [d \in Requests |->
    IF d = c THEN call
    ELSE IF calls[d].pair = p THEN [calls[d] EXCEPT !.alone = FALSE] ELSE calls[d]]

\* The pairing is read; LMN is asked to add the parent, or to delete it.
UpdateStatus(c, p, want) ==
  LET call == [pc |-> IF AsksLmn(want, status[p]) THEN "lmn" ELSE "save",
               pair |-> p, want |-> want, read |-> status[p], alone |-> ~Busy(p)]
  IN
  /\ ~Working(c)
  /\ status[p] # "none"
  /\ calls' = WithCall(c, p, call)
  /\ disturbed' = IF Busy(p) THEN disturbed \cup {p} ELSE disturbed
  /\ IF AsksLmn(want, status[p]) THEN Enqueue(c) ELSE UNCHANGED queueVars
  /\ UNCHANGED <<status, related, reopened>>

\* LMN adds or deletes the parent.
LmnPerforms(c, a) ==
  /\ PerformRequest(c, a)
  /\ related' = IF calls[c].want = "accepted"
                THEN related \cup {calls[c].pair}
                ELSE related \ {calls[c].pair}
  /\ UNCHANGED <<status, calls, disturbed, reopened>>

LmnStep(c) == QueueStep(c) /\ UNCHANGED pairingVars

\* addParentToStudent or deleteParentFromStudent returns.
LmnSucceeded(c) ==
  /\ calls[c].pc = "lmn" /\ outcome[c] = "done"
  /\ calls' = [calls EXCEPT ![c].pc = "save"]
  /\ UNCHANGED <<queueVars, status, related, disturbed, reopened>>

\* A call that is over leaves the request it may have at LMN.
Ended(c) == [calls[c] EXCEPT !.pc = "idle", !.read = "pending", !.alone = FALSE]

\* It throws: the call is over, whatever LMN did.
LmnFailed(c) ==
  /\ calls[c].pc = "lmn" /\ outcome[c] = "failed"
  /\ calls' = [calls EXCEPT ![c] = Ended(c)]
  /\ disturbed' = disturbed \cup {calls[c].pair}
  /\ UNCHANGED <<queueVars, status, related, reopened>>

\* pairing.save(): mongoose writes the status only if it differs from the one read.
Saved(c) ==
  [status EXCEPT ![calls[c].pair] = IF calls[c].want # calls[c].read THEN calls[c].want ELSE @]

\* The update reached both sides, with nothing beside it.
SettlesBoth(c) == calls[c].alone /\ AsksLmn(calls[c].want, calls[c].read)

SaveStatus(c) ==
  LET p == calls[c].pair IN
  /\ calls[c].pc = "save"
  /\ status' = Saved(c)
  /\ calls' = [calls EXCEPT ![c] = Ended(c)]
  /\ disturbed' = IF SettlesBoth(c) THEN disturbed \ {p} ELSE disturbed
  /\ reopened' = IF calls[c].want = "pending" /\ calls[c].read = "accepted"
                 THEN reopened \cup {p}
                 ELSE IF SettlesBoth(c) THEN reopened \ {p} ELSE reopened
  /\ UNCHANGED <<queueVars, related>>

\* The save fails: LMN is not asked to take its change back.
SaveFails(c) ==
  /\ calls[c].pc = "save"
  /\ calls' = [calls EXCEPT ![c] = Ended(c)]
  /\ disturbed' = disturbed \cup {calls[c].pair}
  /\ UNCHANGED <<queueVars, status, related, reopened>>

\* The API process restarts: the calls are gone, their jobs are not.
Restart ==
  /\ QueueRestart
  /\ calls' = [c \in Requests |-> Ended(c)]
  /\ disturbed' = disturbed \cup {p \in Pairs : Busy(p)}
  /\ UNCHANGED <<status, related, reopened>>

PairingNext ==
  \/ \E p \in Pairs : CreatePairing(p)
  \/ \E c \in Requests, p \in Pairs, want \in Status : UpdateStatus(c, p, want)
  \/ \E c \in Requests :
       \/ \E a \in Attempts : LmnPerforms(c, a)
       \/ LmnStep(c)
       \/ LmnSucceeded(c)
       \/ LmnFailed(c)
       \/ SaveStatus(c)
       \/ SaveFails(c)
  \/ Restart

PairingSpec == PairingInit /\ [][PairingNext]_vars

-----------------------------------------------------------------------------
(* Properties *)

\* A status and LMN agree on p: LMN has the relation of an accepted pairing, and
\* of one that was made pending from accepted, and no other.
Agree(p, st) ==
  IF p \in reopened THEN p \in related /\ st # "accepted" ELSE st = "accepted" <=> p \in related

\* When nothing is under way for a pair, its pairing is accepted exactly if LMN
\* has the relation, unless updates overlapped or one failed; and the next
\* update that runs alone and asks LMN puts it right.  A pairing that was made
\* pending from accepted keeps the relation in LMN until then, also when it is
\* rejected meanwhile (updateParentChildPairingStatus).
AgreeUnlessDisturbed ==
  \A p \in Pairs \ disturbed : ~Busy(p) => Agree(p, status[p])
=============================================================================
