------------------------------ MODULE Workspace ------------------------------
(***************************************************************************)
(* The parts of the service around the scrapes that keep state of their    *)
(* own and share none: the members of an organization, a project and its   *)
(* sources, the tree of its jurisdictions, the pages of a source, the      *)
(* realtime events, the public forms and the billing plans.  What one part *)
(* needs of another's rows (that a jurisdiction is archived, that a source *)
(* is scraped) it takes as a move of its own, at any time; so a behaviour  *)
(* moves one part, chosen at its start.                                    *)
(***************************************************************************)
EXTENDS Membership, Projects, Jurisdictions, PageCapture, Realtime, Forms,
        Plans

VARIABLE part

Parts == {"members", "projects", "jurisdictions", "capture", "realtime", "forms", "plans"}

Init ==
    /\ part \in Parts
    /\ MembershipInit /\ ProjectsInit /\ ForestInit /\ CaptureInit
    /\ RealtimeInit /\ FormsInit /\ PlansInit

MembersMove ==
    /\ part = "members" /\ MembershipNext
    /\ UNCHANGED <<part, projectVars, forestVars, captureVars,
                   realtimeVars, formVars, planVars>>

ProjectsMove ==
    /\ part = "projects" /\ ProjectsNext
    /\ UNCHANGED <<part, membershipVars, forestVars, captureVars,
                   realtimeVars, formVars, planVars>>

JurisdictionsMove ==
    /\ part = "jurisdictions" /\ ForestNext
    /\ UNCHANGED <<part, membershipVars, projectVars, captureVars,
                   realtimeVars, formVars, planVars>>

CaptureMoves ==
    /\ part = "capture" /\ CaptureNext
    /\ UNCHANGED <<part, membershipVars, projectVars, forestVars,
                   realtimeVars, formVars, planVars>>

EventsMove ==
    /\ part = "realtime" /\ RealtimeNext
    /\ UNCHANGED <<part, membershipVars, projectVars, forestVars,
                   captureVars, formVars, planVars>>

FormsMove ==
    /\ part = "forms" /\ FormsNext
    /\ UNCHANGED <<part, membershipVars, projectVars, forestVars,
                   captureVars, realtimeVars, planVars>>

PlansMove ==
    /\ part = "plans" /\ PlansNext
    /\ UNCHANGED <<part, membershipVars, projectVars, forestVars,
                   captureVars, realtimeVars, formVars>>

Next ==
    \/ MembersMove \/ ProjectsMove \/ JurisdictionsMove
    \/ CaptureMoves \/ EventsMove \/ FormsMove \/ PlansMove

Spec == Init /\ [][Next]_<<part, membershipVars, projectVars, forestVars,
                           captureVars, realtimeVars, formVars, planVars>>

\* Type correctness of all parts.
TypeOK ==
    /\ MembershipTypeOK /\ ProjectsTypeOK /\ ForestTypeOK
    /\ CaptureTypeOK /\ RealtimeTypeOK /\ FormsTypeOK /\ PlansTypeOK
=============================================================================
