--------------------------- MODULE SharedWhiteboard ---------------------------
(***************************************************************************)
(* What the whiteboard promises those who draw: a room id is one document. *)
(* Everybody in the room sees and changes that document, it lives as long  *)
(* as somebody is there, and when the room is opened again it is a version *)
(* of this very document that was handed to the store before.              *)
(***************************************************************************)
CONSTANTS
  Rooms,     \* room ids
  Clients,   \* those who draw
  Edits      \* changes of a document

VARIABLES
  members,   \* room id -> the clients in the room
  live,      \* room ids whose document is being shared
  document,  \* room id -> {its document}; {} if it is no longer in memory
  versions,  \* room id -> the documents the store may still answer with
  made       \* changes made so far

whiteboardVars == <<members, live, document, versions, made>>

WhiteboardInit ==
  /\ members = [r \in Rooms |-> {}]
  /\ live = {}
  /\ document = [r \in Rooms |-> {}]
  /\ versions = [r \in Rooms |-> {{}}]
  /\ made = {}

Absent(c) == \A r \in Rooms : c \notin members[r]

\* Versions get lost, but never all.
SomeOf(kept, possible) == kept \subseteq possible /\ kept # {}

\* A client joins those in the room.
Join(c, r) ==
  /\ r \in live /\ Absent(c)
  /\ members' = [members EXCEPT ![r] = @ \cup {c}]
  /\ UNCHANGED <<live, document, versions, made>>

\* The document of a room in which nobody is comes back, with its first client or without.
Open(r) ==
  /\ r \notin live
  /\ live' = live \cup {r}
  /\ \E version \in versions[r] : document' = [document EXCEPT ![r] = {version}]
  /\ \E first \in {{}} \cup {{c} : c \in {d \in Clients : Absent(d)}} :
       members' = [members EXCEPT ![r] = first]
  /\ \E kept \in SUBSET versions[r] :
       SomeOf(kept, versions[r]) /\ versions' = [versions EXCEPT ![r] = kept]
  /\ UNCHANGED made

\* A client changes the document of the room it is in, and no other.
Draw(c, r) ==
  /\ c \in members[r]
  /\ \E e \in Edits \ made :
       /\ made' = made \cup {e}
       /\ document' = [document EXCEPT ![r] = {content \cup {e} : content \in @}]
  /\ UNCHANGED <<members, live, versions>>

\* A client leaves; with the last one the document is no longer shared.
Leave(c, r) ==
  /\ c \in members[r]
  /\ members' = [members EXCEPT ![r] = @ \ {c}]
  /\ live' = IF members[r] = {c} THEN live \ {r} ELSE live
  /\ UNCHANGED <<document, versions, made>>

\* Documents are handed to the store, versions are overwritten, and documents nobody
\* shares any more leave the memory.
Keep ==
  /\ \A r \in Rooms : SomeOf(versions'[r], versions[r] \cup document[r])
  /\ \A r \in Rooms : document'[r] = document[r] \/ (r \notin live /\ document'[r] = {})
  /\ UNCHANGED <<members, live, made>>

\* Whatever was in memory is gone.
LoseMemory ==
  /\ members' = [r \in Rooms |-> {}]
  /\ live' = {}
  /\ document' = [r \in Rooms |-> {}]
  /\ \A r \in Rooms : SomeOf(versions'[r], versions[r])
  /\ UNCHANGED made

WhiteboardNext ==
  \/ \E c \in Clients, r \in Rooms : Join(c, r) \/ Draw(c, r) \/ Leave(c, r)
  \/ \E r \in Rooms : Open(r)
  \/ Keep
  \/ LoseMemory

WhiteboardSpec == WhiteboardInit /\ [][WhiteboardNext]_whiteboardVars
=============================================================================
