-------------------------- MODULE BulletinAttachments --------------------------
(***************************************************************************)
(* The images of bulletins.  Editors upload into one temporary folder,     *)
(* which all share.  Saving a bulletin deletes its former images that are  *)
(* no longer used, then goes through the temporary folder: its own images  *)
(* are moved to the permanent folder and every other file is deleted; the  *)
(* document is saved last.  Removing a bulletin deletes its images first.  *)
(***************************************************************************)
EXTENDS FiniteSets

CONSTANTS
  Bulletins,   \* one per bulletin ever created
  Editors,     \* dialogs open, or removals under way, at a time (a bound)
  Files,       \* images ever uploaded, each under a name of its own
  NoBulletin

ASSUME AttachmentAssumption == NoBulletin \notin Bulletins

VARIABLES
  stored,      \* bulletins in the database
  listed,      \* attachmentFileNames of a bulletin
  temporary,   \* files in the temporary folder
  permanent,   \* files in the permanent folder
  uploaded,    \* files ever uploaded
  editors,     \* dialogs and removals
  taken        \* files deleted under somebody else, or by a save or removal that
               \* did not get to the database (history)

attachmentVars == <<stored, listed, temporary, permanent, uploaded, editors, taken>>

-----------------------------------------------------------------------------
(* Types.  pc names the next step; names: the images in the content; former: *)
(* attachmentFileNames as the save read it; left: files still to be gone     *)
(* through; failed: one of them could not be handled.                       *)

Editor == [pc: {"idle", "edit", "clean", "scan", "sort", "store", "wipe", "erase"},
           bulletin: Bulletins \cup {NoBulletin}, names: SUBSET Files, former: SUBSET Files,
           left: SUBSET Files, failed: BOOLEAN]

NoEditor == [pc |-> "idle", bulletin |-> NoBulletin, names |-> {}, former |-> {}, left |-> {}, failed |-> FALSE]

AttachmentTypeOK ==
  /\ stored \in SUBSET Bulletins
  /\ listed \in [Bulletins -> SUBSET Files]
  /\ temporary \in SUBSET Files /\ permanent \in SUBSET Files /\ uploaded \in SUBSET Files
  /\ editors \in [Editors -> Editor]
  /\ \A e \in Editors : editors[e].pc # "idle" => editors[e].bulletin \in Bulletins
  /\ taken \in SUBSET Files

\* The step of e is pc; it goes on with another.
Doing(e, pc) == editors[e].pc = pc

Goes(e, pc) == editors' = [editors EXCEPT ![e].pc = pc]

Closes(e) == editors' = [editors EXCEPT ![e] = NoEditor]

\* Somebody else's dialog has the image in its content.
UsedElsewhere(e, f) == \E d \in Editors \ {e} : editors[d].pc # "idle" /\ f \in editors[d].names

\* Somebody is at work on the files of the bulletin.
AtWork(b) ==
  \E d \in Editors : editors[d].bulletin = b /\ editors[d].pc \in {"scan", "sort", "store", "erase"}

AttachmentInit ==
  /\ stored = {} /\ temporary = {} /\ permanent = {} /\ uploaded = {} /\ taken = {}
  /\ listed = [b \in Bulletins |-> {}]
  /\ editors = [e \in Editors |-> NoEditor]

-----------------------------------------------------------------------------
(* Operations of the dialog *)

\* A new bulletin: its content has no image yet.
OpenNew(e, b) ==
  /\ Doing(e, "idle")
  /\ b \notin stored /\ listed[b] = {} /\ \A d \in Editors : editors[d].bulletin # b
  /\ editors' = [editors EXCEPT ![e] = [NoEditor EXCEPT !.pc = "edit", !.bulletin = b]]
  /\ UNCHANGED <<stored, listed, temporary, permanent, uploaded, taken>>

\* A stored bulletin is opened, perhaps while another save or removal is at its files.
OpenStored(e, b) ==
  /\ Doing(e, "idle")
  /\ b \in stored
  /\ editors' = [editors EXCEPT ![e] =
       [NoEditor EXCEPT !.pc = "edit", !.bulletin = b, !.names = listed[b]]]
  /\ taken' = IF AtWork(b) THEN taken \cup (listed[b] \ permanent) ELSE taken
  /\ UNCHANGED <<stored, listed, temporary, permanent, uploaded>>

\* uploadBulletinAttachment: under a name of its own.
Upload(e, f) ==
  /\ Doing(e, "edit")
  /\ f \notin uploaded
  /\ uploaded' = uploaded \cup {f}
  /\ temporary' = temporary \cup {f}
  /\ editors' = [editors EXCEPT ![e].names = @ \cup {f}]
  /\ UNCHANGED <<stored, listed, permanent, taken>>

\* An image is taken out of the content.
DropImage(e, f) ==
  /\ Doing(e, "edit")
  /\ f \in editors[e].names
  /\ editors' = [editors EXCEPT ![e].names = @ \ {f}]
  /\ UNCHANGED <<stored, listed, temporary, permanent, uploaded, taken>>

CloseDialog(e) ==
  /\ Doing(e, "edit")
  /\ Closes(e)
  /\ UNCHANGED <<stored, listed, temporary, permanent, uploaded, taken>>

-----------------------------------------------------------------------------
(* createBulletin and updateBulletin *)

\* A bulletin that is there is read; one that was removed meanwhile is not found.
BeginSave(e) ==
  LET b == editors[e].bulletin IN
  /\ Doing(e, "edit")
  /\ \/ b \in stored \/ listed[b] = {}
  /\ editors' = [editors EXCEPT ![e].pc = "clean", ![e].former = listed[b]]
  /\ UNCHANGED <<stored, listed, temporary, permanent, uploaded, taken>>

\* Faulty variant: every former image is deleted.
DisusedAll(e) == editors[e].former

\* The former images the content does not use any more.
Disused(e) == editors[e].former \ editors[e].names

\* They are deleted from the permanent folder.
DeleteUnused(e) ==
  /\ Doing(e, "clean")
  /\ permanent' = permanent \ Disused(e)
  /\ taken' = taken \cup {f \in Disused(e) : UsedElsewhere(e, f)}
  /\ Goes(e, "scan")
  /\ UNCHANGED <<stored, listed, temporary, uploaded>>

\* The temporary folder is listed.
ScanTemporary(e) ==
  /\ Doing(e, "scan")
  /\ editors' = [editors EXCEPT ![e].pc = "sort", ![e].left = temporary]
  /\ UNCHANGED <<stored, listed, temporary, permanent, uploaded, taken>>

\* A file found there is moved or deleted; one that somebody else took fails.
SortFile(e, f) ==
  LET own == f \in editors[e].names IN
  /\ Doing(e, "sort")
  /\ f \in editors[e].left
  /\ editors' = [editors EXCEPT ![e].left = @ \ {f}, ![e].failed = @ \/ f \notin temporary]
  /\ temporary' = temporary \ {f}
  /\ permanent' = IF own /\ f \in temporary THEN permanent \cup {f} ELSE permanent
  /\ taken' = IF ~own /\ f \in temporary /\ UsedElsewhere(e, f) THEN taken \cup {f} ELSE taken
  /\ UNCHANGED <<stored, listed, uploaded>>

\* All files were gone through: the save goes on, or the dialog gets an error.
SortEnds(e) ==
  /\ Doing(e, "sort")
  /\ editors[e].left = {}
  /\ IF editors[e].failed
     THEN /\ editors' = [editors EXCEPT ![e].pc = "edit", ![e].failed = FALSE]
          /\ taken' = taken \cup Disused(e)
     ELSE /\ Goes(e, "store")
          /\ UNCHANGED taken
  /\ UNCHANGED <<stored, listed, temporary, permanent, uploaded>>

\* The document is created or saved: mongoose writes the names only if they differ
\* from those read.  A bulletin that was removed meanwhile is not saved.
StoreBulletin(e) ==
  LET editor == editors[e]
      b == editor.bulletin
      found == b \in stored \/ (editor.former = {} /\ listed[b] = {})
  IN
  /\ Doing(e, "store")
  /\ found
  /\ stored' = stored \cup {b}
  /\ listed' = IF editor.names # editor.former THEN [listed EXCEPT ![b] = editor.names] ELSE listed
  /\ Closes(e)
  /\ UNCHANGED <<temporary, permanent, uploaded, taken>>

\* The save fails: the dialog stays open, the files are not put back.
StoreFails(e) ==
  /\ Doing(e, "store")
  /\ Goes(e, "edit")
  /\ taken' = taken \cup Disused(e)
  /\ UNCHANGED <<stored, listed, temporary, permanent, uploaded>>

-----------------------------------------------------------------------------
(* removeBulletins *)

BeginRemoval(e, b) ==
  /\ Doing(e, "idle")
  /\ b \in stored
  /\ editors' = [editors EXCEPT ![e] =
       [NoEditor EXCEPT !.pc = "wipe", !.bulletin = b, !.former = listed[b]]]
  /\ UNCHANGED <<stored, listed, temporary, permanent, uploaded, taken>>

\* The images go, from both folders.
WipeFiles(e) ==
  LET former == editors[e].former IN
  /\ Doing(e, "wipe")
  /\ permanent' = permanent \ former
  /\ temporary' = temporary \ former
  /\ taken' = taken \cup {f \in former : UsedElsewhere(e, f)}
  /\ Goes(e, "erase")
  /\ UNCHANGED <<stored, listed, uploaded>>

\* The document goes, or the removal fails (ATTACHMENT_DELETION_FAILED).
EraseBulletin(e) ==
  /\ Doing(e, "erase")
  /\ \/ stored' = stored \ {editors[e].bulletin} /\ UNCHANGED taken
     \/ taken' = taken \cup editors[e].former /\ UNCHANGED stored
  /\ Closes(e)
  /\ UNCHANGED <<listed, temporary, permanent, uploaded>>

AttachmentNext ==
  \/ \E e \in Editors, b \in Bulletins : OpenNew(e, b) \/ OpenStored(e, b) \/ BeginRemoval(e, b)
  \/ \E e \in Editors, f \in Files : Upload(e, f) \/ DropImage(e, f) \/ SortFile(e, f)
  \/ \E e \in Editors :
       \/ CloseDialog(e) \/ BeginSave(e) \/ DeleteUnused(e) \/ ScanTemporary(e) \/ SortEnds(e)
       \/ StoreBulletin(e) \/ StoreFails(e) \/ WipeFiles(e) \/ EraseBulletin(e)

AttachmentSpec == AttachmentInit /\ [][AttachmentNext]_attachmentVars

-----------------------------------------------------------------------------
(* Properties *)

\* Every image a bulletin lists is in the permanent folder, unless its bulletin is
\* being saved without it or removed, or the file was deleted while somebody else
\* had it in a dialog, or by a save or removal that failed (updateBulletinAttachments).
ImagesLostOnlyByOthers ==
  \A b \in stored : \A f \in listed[b] \ permanent :
    \/ f \in taken
    \/ \E e \in Editors :
         /\ editors[e].bulletin = b
         /\ \/ editors[e].pc \in {"scan", "sort", "store"} /\ f \in Disused(e)
            \/ editors[e].pc = "erase" /\ f \in editors[e].former
=============================================================================
