------------------------------- MODULE MCServices -------------------------------
(***************************************************************************)
(* A small instance of services that share no state: pairings and their    *)
(* codes, the queue of requests to Keycloak, the permissions of bulletin   *)
(* categories, the images of bulletins, the announcement of new mails, the *)
(* positions of apps, and the access to them.                              *)
(* Their steps need not be interleaved: each behaviour is about one of     *)
(* them.                                                                   *)
(***************************************************************************)
EXTENDS ParentChildPairing, PairingCodes, KeycloakRequestQueue, CategoryPermissions,
        BulletinAttachments, MailFetch, AppPositions, AppAccess, TLC

VARIABLE part

Parts == {"pairings", "codes", "keycloak", "permissions", "attachments", "mails",
          "positions", "access"}

mcVars == <<vars, codeVars, kcVars, permVars, attachmentVars, fetchVars,
            posVars, accessVars, part>>

Init ==
  /\ PairingInit /\ CodesInit /\ KcInit
  /\ PermInit /\ AttachmentInit /\ FetchInit
  /\ PosInit /\ AccessInit
  /\ part \in Parts

PairingsPart ==
  /\ part = "pairings" /\ PairingNext
  /\ UNCHANGED <<codeVars, kcVars, permVars, attachmentVars, fetchVars,
                 posVars, accessVars, part>>

CodesPart ==
  /\ part = "codes" /\ CodesNext
  /\ UNCHANGED <<vars, kcVars, permVars, attachmentVars, fetchVars,
                 posVars, accessVars, part>>

KeycloakPart ==
  /\ part = "keycloak" /\ KcNext
  /\ UNCHANGED <<vars, codeVars, permVars, attachmentVars, fetchVars,
                 posVars, accessVars, part>>

PermissionsPart ==
  /\ part = "permissions" /\ PermNext
  /\ UNCHANGED <<vars, codeVars, kcVars, attachmentVars, fetchVars,
                 posVars, accessVars, part>>

AttachmentsPart ==
  /\ part = "attachments" /\ AttachmentNext
  /\ UNCHANGED <<vars, codeVars, kcVars, permVars, fetchVars,
                 posVars, accessVars, part>>

MailsPart ==
  /\ part = "mails" /\ FetchNext
  /\ UNCHANGED <<vars, codeVars, kcVars, permVars, attachmentVars,
                 posVars, accessVars, part>>

PositionsPart ==
  /\ part = "positions" /\ PosNext
  /\ UNCHANGED <<vars, codeVars, kcVars, permVars, attachmentVars, fetchVars, accessVars, part>>

AccessPart ==
  /\ part = "access" /\ AccessNext
  /\ UNCHANGED <<vars, codeVars, kcVars, permVars, attachmentVars, fetchVars, posVars, part>>

Next ==
  \/ PairingsPart
  \/ CodesPart
  \/ KeycloakPart
  \/ PermissionsPart
  \/ AttachmentsPart
  \/ MailsPart
  \/ PositionsPart
  \/ AccessPart

Spec == Init /\ [][Next]_mcVars

\* Calls are interchangeable; PermCalls is the same set as Requests.
CallSymmetry == Permutations(Requests)

TypeOK ==
  /\ PairingTypeOK /\ CodesTypeOK /\ KcTypeOK
  /\ PermTypeOK /\ AttachmentTypeOK /\ FetchTypeOK
  /\ PosTypeOK /\ AccessTypeOK
=============================================================================
