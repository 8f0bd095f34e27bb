------------------------------ MODULE PairingCodes ------------------------------
(***************************************************************************)
(* The codes by which parents and students pair: two cache entries per     *)
(* code, the code of a user (codeKey) and the user of a code (userKey),    *)
(* written and deleted one after the other.  Whoever submits a code is     *)
(* resolved by userKey alone.                                              *)
(***************************************************************************)
EXTENDS Naturals

CONSTANTS
  CodeUsers,   \* users who ask for codes
  Codes,       \* codes in use at a time (a bound; they are random)
  CodeCalls,   \* calls of getOrCreateCode and refreshCode at a time (a bound)
  None

ASSUME CodesAssumption == None \notin CodeUsers /\ None \notin Codes

VARIABLES
  codeOf,      \* codeKey: user -> code
  userOf,      \* userKey: code -> user
  codeCalls,   \* the calls
  overlapped   \* users with overlapping calls, or whose codeKey expired or whose
               \* call died, while codes of theirs were left (history)

codeVars == <<codeOf, userOf, codeCalls, overlapped>>

-----------------------------------------------------------------------------
(* Types.  pc names the next step of a call; code is the one it holds.      *)

CodeCall == [pc: {"idle", "read", "check", "dropCode", "dropUser", "store", "storeUser"},
             user: CodeUsers \cup {None}, code: Codes \cup {None}, refresh: BOOLEAN]

IdleCall == [pc |-> "idle", user |-> None, code |-> None, refresh |-> FALSE]

CodesTypeOK ==
  /\ codeOf \in [CodeUsers -> Codes \cup {None}]
  /\ userOf \in [Codes -> CodeUsers \cup {None}]
  /\ codeCalls \in [CodeCalls -> CodeCall]
  /\ overlapped \in SUBSET CodeUsers

Asking(u) == {c \in CodeCalls : codeCalls[c].pc # "idle" /\ codeCalls[c].user = u}

\* A code nobody has: randomUUID.
NewCodes ==
  {k \in Codes : /\ userOf[k] = None
                 /\ \A u \in CodeUsers : codeOf[u] # k
                 /\ \A c \in CodeCalls : codeCalls[c].code # k}

CodesInit ==
  /\ codeOf = [u \in CodeUsers |-> None]
  /\ userOf = [k \in Codes |-> None]
  /\ codeCalls = [c \in CodeCalls |-> IdleCall]
  /\ overlapped = {}

-----------------------------------------------------------------------------
(* Operations *)

\* The history when a call of the user begins: it starts again once no code of
\* the user is left.
OverlappedOnAsk(u) ==
  IF Asking(u) # {} THEN overlapped \cup {u}
  ELSE IF \A k \in Codes : userOf[k] # u THEN overlapped \ {u}
  ELSE overlapped

\* getOrCreateCode or refreshCode begins.
AskCode(c, u, refresh) ==
  /\ codeCalls[c].pc = "idle"
  /\ codeCalls' = [codeCalls EXCEPT ![c] =
       [pc |-> "read", user |-> u, code |-> None, refresh |-> refresh]]
  /\ overlapped' = OverlappedOnAsk(u)
  /\ UNCHANGED <<codeOf, userOf>>

\* The code of the user is read.
ReadCode(c) ==
  LET k == codeOf[codeCalls[c].user] IN
  /\ codeCalls[c].pc = "read"
  /\ codeCalls' = [codeCalls EXCEPT
       ![c].code = k,
       ![c].pc = IF k = None THEN "store" ELSE IF codeCalls[c].refresh THEN "dropCode" ELSE "check"]
  /\ UNCHANGED <<codeOf, userOf, overlapped>>

\* getOrCreateCode: a code that still has its user is returned, else one is made.
CheckCode(c) ==
  /\ codeCalls[c].pc = "check"
  /\ codeCalls' = [codeCalls EXCEPT ![c] =
       IF userOf[codeCalls[c].code] # None THEN IdleCall
       ELSE [codeCalls[c] EXCEPT !.pc = "store", !.code = None]]
  /\ UNCHANGED <<codeOf, userOf, overlapped>>

\* deleteExistingCode: first codeKey goes.
DropCode(c) ==
  /\ codeCalls[c].pc = "dropCode"
  /\ codeOf' = [codeOf EXCEPT ![codeCalls[c].user] = None]
  /\ codeCalls' = [codeCalls EXCEPT ![c].pc = "dropUser"]
  /\ UNCHANGED <<userOf, overlapped>>

\* Faulty variant: userKey of the old code is left to expire.
UserDroppedNot(c) == userOf

\* userKey of the code that was read.
UserDropped(c) == [userOf EXCEPT ![codeCalls[c].code] = None]

\* deleteExistingCode: then userKey.
DropUser(c) ==
  /\ codeCalls[c].pc = "dropUser"
  /\ userOf' = UserDropped(c)
  /\ codeCalls' = [codeCalls EXCEPT ![c].pc = "store", ![c].code = None]
  /\ UNCHANGED <<codeOf, overlapped>>

\* generateAndStoreCode: codeKey of a new code.
StoreCode(c) ==
  /\ codeCalls[c].pc = "store"
  /\ \E k \in NewCodes :
       /\ codeOf' = [codeOf EXCEPT ![codeCalls[c].user] = k]
       /\ codeCalls' = [codeCalls EXCEPT ![c].pc = "storeUser", ![c].code = k]
  /\ UNCHANGED <<userOf, overlapped>>

\* generateAndStoreCode: its userKey.
StoreUser(c) ==
  /\ codeCalls[c].pc = "storeUser"
  /\ userOf' = [userOf EXCEPT ![codeCalls[c].code] = codeCalls[c].user]
  /\ codeCalls' = [codeCalls EXCEPT ![c] = IdleCall]
  /\ UNCHANGED <<codeOf, overlapped>>

\* A cache entry reaches its time to live; codeKey is the older of the two.
CodeExpires(u) ==
  /\ codeOf[u] # None
  /\ codeOf' = [codeOf EXCEPT ![u] = None]
  /\ overlapped' = overlapped \cup {u}
  /\ UNCHANGED <<userOf, codeCalls>>

UserExpires(k) ==
  /\ userOf[k] # None
  /\ userOf' = [userOf EXCEPT ![k] = None]
  /\ UNCHANGED <<codeOf, codeCalls, overlapped>>

\* A cache command fails, or the process restarts: the call ends where it is.
CallEnds(c) ==
  /\ codeCalls[c].pc # "idle"
  /\ codeCalls' = [codeCalls EXCEPT ![c] = IdleCall]
  /\ overlapped' = overlapped \cup {codeCalls[c].user}
  /\ UNCHANGED <<codeOf, userOf>>

CodesNext ==
  \/ \E c \in CodeCalls, u \in CodeUsers, refresh \in BOOLEAN : AskCode(c, u, refresh)
  \/ \E c \in CodeCalls :
       \/ ReadCode(c) \/ CheckCode(c) \/ DropCode(c) \/ DropUser(c)
       \/ StoreCode(c) \/ StoreUser(c) \/ CallEnds(c)
  \/ \E u \in CodeUsers : CodeExpires(u)
  \/ \E k \in Codes : UserExpires(k)

CodesSpec == CodesInit /\ [][CodesNext]_codeVars

-----------------------------------------------------------------------------
(* Properties *)

\* A code that is not the user's current one no longer resolves, so a refresh
\* takes the old code back, unless calls of the user overlapped, one died, or the
\* entry by which the old code is found expired first (refreshCode, resolveCode).
OldCodesOnlyByOverlap ==
  \A k \in Codes : userOf[k] # None =>
    \/ codeOf[userOf[k]] = k
    \/ userOf[k] \in overlapped
    \/ \E c \in Asking(userOf[k]) : codeCalls[c].pc = "dropUser" /\ codeCalls[c].code = k
=============================================================================
