------------------------------- MODULE MailFetch -------------------------------
(***************************************************************************)
(* MailIdleService, the other half of an idle connection: the server tells *)
(* how many mails the inbox has, the mails above the previous count are    *)
(* fetched by their positions and a notification is upserted for each.     *)
(* One fetch runs at a time; one more range is remembered for afterwards.  *)
(* Positions move when a mail is deleted, which the service does not watch.*)
(***************************************************************************)
EXTENDS Naturals, FiniteSets

CONSTANTS
  Uids,       \* numbers of the mails that ever arrive, in their order (a bound)
  OldMails,   \* those in the inbox when the service starts
  MaxFeed     \* MAX_FEED_MAILS

ASSUME FetchAssumption ==
  /\ Uids \subseteq Nat /\ OldMails \subseteq Uids /\ IsFiniteSet(OldMails)
  /\ MaxFeed \in Nat \ {0}

VARIABLES
  inbox,               \* mails in the inbox
  told,                \* mails the server has told the client of
  previousMailCount,   \* as in the code
  fetch,               \* the range being fetched or announced; it is isFetching unless "none"
  pendingFetch,        \* {} or the range remembered
  arrived,             \* mails that came since the connection was opened (history)
  announced,           \* mails upserted since then
  skipped,             \* mails of a range that was overwritten or too long (history)
  interrupted            \* since then a mail was deleted, or a fetch or upsert failed (history)

fetchVars ==
  <<inbox, told, previousMailCount, fetch, pendingFetch, arrived, announced, skipped, interrupted>>

-----------------------------------------------------------------------------
(* Types.  A range is the mails above position prev, up to position count.  *)

FetchRange == [prev: Nat, count: Nat]

FetchTypeOK ==
  /\ inbox \in SUBSET Uids /\ told \in SUBSET inbox
  /\ previousMailCount \in Nat
  /\ fetch.pc \in {"none", "fetch", "upsert"} /\ fetch.mails \in SUBSET Uids
  /\ fetch.range \in FetchRange
  /\ pendingFetch \in SUBSET FetchRange
  /\ \A r, s \in pendingFetch : r = s
  /\ arrived \in SUBSET Uids /\ announced \in SUBSET Uids /\ skipped \in SUBSET Uids
  /\ interrupted \in BOOLEAN

NoFetch == [pc |-> "none", range |-> [prev |-> 0, count |-> 0], mails |-> {}]

Fetching(range) == [pc |-> "fetch", range |-> range, mails |-> {}]

\* The place of a mail among others.
Position(u, mails) == Cardinality({v \in mails : v <= u})

\* The first position of a range that is fetched.
RangeStart(range) ==
  IF range.count - range.prev > MaxFeed THEN range.count - MaxFeed + 1 ELSE range.prev + 1

FetchInit ==
  /\ inbox = OldMails /\ told = OldMails
  /\ previousMailCount = Cardinality(OldMails)
  /\ fetch = NoFetch /\ pendingFetch = {}
  /\ arrived = {} /\ announced = {} /\ skipped = {}
  /\ interrupted = FALSE

-----------------------------------------------------------------------------
(* The inbox *)

\* Its server gets a mail; the client is told later, perhaps of several at once.
Arrive(u) ==
  /\ \A v \in inbox \cup arrived \cup OldMails : v < u
  /\ inbox' = inbox \cup {u}
  /\ arrived' = arrived \cup {u}
  /\ UNCHANGED <<told, previousMailCount, fetch, pendingFetch, announced, skipped, interrupted>>

\* The user deletes or moves a mail with another client.
DeleteMail(u) ==
  /\ u \in inbox
  /\ inbox' = inbox \ {u}
  /\ told' = told \ {u}
  /\ interrupted' = TRUE
  /\ UNCHANGED <<previousMailCount, fetch, pendingFetch, arrived, announced, skipped>>

-----------------------------------------------------------------------------
(* Operations *)

\* The mails of a range.
InRange(range) == {u \in inbox : Position(u, inbox) \in (range.prev + 1)..range.count}

\* Mails of a range that is too long are not fetched.
TooMany(range) == {u \in InRange(range) : Position(u, inbox) < RangeStart(range)}

\* Faulty variant: a range that comes during a fetch is dropped.
RememberedNot(range) == pendingFetch

\* A range that comes during a fetch replaces the one remembered.
Remembered(range) == {range}

\* handleExistsEvent and fetchNewMailsAndNotify.
HandleExists ==
  LET count == Cardinality(inbox)
      range == [prev |-> previousMailCount, count |-> count]
  IN
  /\ told # inbox
  /\ told' = inbox
  /\ previousMailCount' = count
  /\ IF count <= previousMailCount
     THEN UNCHANGED <<fetch, pendingFetch, skipped>>
     ELSE IF fetch.pc # "none"
     THEN /\ pendingFetch' = Remembered(range)
          /\ skipped' = skipped \cup TooMany(range) \cup UNION {InRange(r) : r \in pendingFetch}
          /\ UNCHANGED fetch
     ELSE /\ fetch' = Fetching(range)
          /\ skipped' = skipped \cup TooMany(range)
          /\ UNCHANGED pendingFetch
  /\ UNCHANGED <<inbox, arrived, announced, interrupted>>

\* What "<start>:*" selects: all mails from there, and the last one if there is none.
Selected(start) ==
  LET from == {u \in inbox : Position(u, inbox) >= start} IN
  IF from # {} THEN from ELSE {u \in inbox : \A v \in inbox : v <= u}

\* fetchAll answers; the first MaxFeed mails count.
Fetched ==
  LET mails == Selected(RangeStart(fetch.range)) IN
  /\ fetch.pc = "fetch"
  /\ fetch' = [fetch EXCEPT !.pc = "upsert", !.mails = {u \in mails : Position(u, mails) <= MaxFeed}]
  /\ UNCHANGED <<inbox, told, previousMailCount, pendingFetch, arrived, announced, skipped, interrupted>>

\* drainFetchQueue goes on with the range remembered.
Drained ==
  /\ fetch' = IF pendingFetch = {} THEN NoFetch ELSE Fetching(CHOOSE r \in pendingFetch : TRUE)
  /\ pendingFetch' = {}

\* Every mail fetched has its notification.
Announce ==
  /\ fetch.pc = "upsert"
  /\ announced' = announced \cup fetch.mails
  /\ Drained
  /\ UNCHANGED <<inbox, told, previousMailCount, arrived, skipped, interrupted>>

\* The fetch, or an upsert, fails; the failure is logged.
AnnounceFails ==
  /\ fetch.pc # "none"
  /\ \E done \in SUBSET fetch.mails : announced' = announced \cup done
  /\ interrupted' = TRUE
  /\ Drained
  /\ UNCHANGED <<inbox, told, previousMailCount, arrived, skipped>>

\* The connection is replaced: what is in the inbox now counts as known, a fetch
\* under way ends.
Reopened ==
  /\ told' = inbox
  /\ previousMailCount' = Cardinality(inbox)
  /\ fetch' = NoFetch /\ pendingFetch' = {}
  /\ arrived' = {} /\ announced' = {} /\ skipped' = {}
  /\ interrupted' = FALSE
  /\ UNCHANGED inbox

FetchNext ==
  \/ \E u \in Uids : Arrive(u) \/ DeleteMail(u)
  \/ HandleExists
  \/ Fetched
  \/ Announce
  \/ AnnounceFails
  \/ Reopened

FetchSpec == FetchInit /\ [][FetchNext]_fetchVars

-----------------------------------------------------------------------------
(* Properties *)

\* Unless mails are deleted or a command fails, nothing but new mails is announced,
\* and when nothing is under way every new mail was, except those of a range that
\* another one overwrote in pendingFetch or that was too long
\* (fetchNewMailsAndNotify, drainFetchQueue, fetchAndNotifyForRange).
NewMailsAnnounced ==
  ~interrupted =>
    /\ announced \subseteq arrived
    /\ fetch.pc = "none" /\ told = inbox => arrived \subseteq announced \cup skipped
=============================================================================
