---------------------------- MODULE Jurisdictions ----------------------------
(***************************************************************************)
(* The jurisdictions of a project: a forest of rows, each with its parent  *)
(* and a flag that archives it.  Requests create, move and rename rows,    *)
(* archive and restore whole subtrees; a request reads what it decides on  *)
(* and commits later, and others commit in between.                        *)
(***************************************************************************)
EXTENDS Naturals, FiniteSets

CONSTANTS
    Nodes,     \* bound on the jurisdictions ever created
    Root,      \* the parent of a top-level jurisdiction (parent_id is NULL)
    Editors    \* requests in progress at the same time

ASSUME JurisdictionAssumption == IsFiniteSet(Nodes) /\ Root \notin Nodes

VARIABLES
    exists,    \* the rows
    parent,    \* parent_id
    archived,  \* rows with is_deleted
    edit,      \* each request in progress
    outdated,  \* ghost: requests since whose last reading another one has committed
    raced      \* ghost: two moves were between walk and commit at the same time

forestVars == <<exists, parent, archived, edit, outdated, raced>>

Stages == {"none", "checked", "walked", "committed", "apply"}
NoEdit == [stage |-> "none", node |-> Root, under |-> Root, ids |-> {}, archive |-> FALSE]

ForestTypeOK ==
    /\ exists \subseteq Nodes /\ archived \subseteq exists
    /\ parent \in [Nodes -> exists \cup {Root}]
    /\ edit \in [Editors -> [stage : Stages, node : Nodes \cup {Root}, under : Nodes \cup {Root},
                             ids : SUBSET Nodes, archive : BOOLEAN]]
    /\ outdated \subseteq Editors
    /\ raced \in BOOLEAN

ForestInit ==
    /\ exists = {} /\ archived = {}
    /\ parent = [n \in Nodes |-> Root]
    /\ edit = [e \in Editors |-> NoEdit]
    /\ outdated = {} /\ raced = FALSE

-----------------------------------------------------------------------------
(* The recursive queries, down the tree and up.                            *)

Children(S) == {n \in exists : parent[n] \in S}

\* get_descendant_ids: the rows themselves included.
Descendants(S) ==
    LET down[depth \in 0..Cardinality(Nodes)] ==
            IF depth = 0 THEN S ELSE down[depth - 1] \cup Children(down[depth - 1])
    IN down[Cardinality(Nodes)]

Ancestors(n) ==
    LET up[depth \in 0..Cardinality(Nodes)] ==
            IF depth = 0 THEN {n} \ {Root}
            ELSE up[depth - 1] \cup ({parent[m] : m \in up[depth - 1]} \ {Root})
    IN up[Cardinality(Nodes)]

\* validate_hierarchy: the row does not meet itself on the way up from its new parent.
\* (NotItself is its mutant.)
NotItself(n, under) == n # under
NoCircle(n, under) == n \notin Ancestors(under)

\* The rows a request on n is about; its mutant stops at the children.
SubtreeShallow(n) == {n} \cup Children({n})
Subtree(n) == Descendants({n})
ProjectRoots == {n \in exists : parent[n] = Root}

-----------------------------------------------------------------------------
Stage(e, stage) == edit[e].stage = stage
\* A commit makes what the others have read old.
Commits(e) == outdated' = {f \in Editors \ {e} : edit[f].stage = "apply"} \cup (outdated \ {e})
Reads(e) == outdated' = outdated \ {e}

\* The parent is a row, by the foreign key; in which project, or archived, is not asked.
CreateJurisdiction(n, under) ==
    /\ n \in Nodes \ exists /\ under \in exists \cup {Root}
    /\ exists' = exists \cup {n}
    /\ parent' = [parent EXCEPT ![n] = under]
    /\ outdated' = {f \in Editors : edit[f].stage = "apply"} \cup outdated
    /\ UNCHANGED <<archived, edit, raced>>

\* PATCH with a parent: not a descendant, not the row itself.
CheckMove(e, n, under) ==
    /\ Stage(e, "none") /\ n \in exists /\ under \in (exists \cup {Root}) \ Subtree(n)
    /\ edit' = [edit EXCEPT ![e] = [NoEdit EXCEPT !.stage = "checked", !.node = n, !.under = under]]
    /\ UNCHANGED <<exists, parent, archived, outdated, raced>>

\* The commit's flush walks up from the new parent, whatever was read before.
WalkUp(e) ==
    /\ Stage(e, "checked")
    /\ edit' = [edit EXCEPT ![e] =
          IF NoCircle(edit[e].node, edit[e].under) THEN [@ EXCEPT !.stage = "walked"] ELSE NoEdit]
    /\ raced' = (raced \/ \E f \in Editors \ {e} : Stage(f, "walked"))
    /\ UNCHANGED <<exists, parent, archived, outdated>>

CommitMove(e) ==
    /\ Stage(e, "walked")
    /\ parent' = [parent EXCEPT ![edit[e].node] = edit[e].under]
    /\ edit' = [edit EXCEPT ![e].stage = "committed"]
    /\ Commits(e)
    /\ UNCHANGED <<exists, archived, raced>>

\* PATCH of any other field: committed at once, and followed by the same as a move.
Rename(e, n) ==
    /\ Stage(e, "none") /\ n \in exists
    /\ edit' = [edit EXCEPT ![e] = [NoEdit EXCEPT !.stage = "committed", !.node = n]]
    /\ UNCHANGED <<exists, parent, archived, outdated, raced>>

\* After the commit of an update the row's own flag is applied to its subtree, both ways.
ReadAgain(e) ==
    /\ Stage(e, "committed")
    /\ edit' = [edit EXCEPT ![e] = [NoEdit EXCEPT !.stage = "apply", !.ids = Subtree(edit[e].node),
                                     !.archive = edit[e].node \in archived, !.node = edit[e].node]]
    /\ Reads(e)
    /\ UNCHANGED <<exists, parent, archived, raced>>

\* An archive or a restore of one row reads its subtree, for the bulk UPDATE to follow.
ReadSubtree(e, n, archive) ==
    /\ Stage(e, "none") /\ n \in exists
    /\ edit' = [edit EXCEPT ![e] = [NoEdit EXCEPT !.stage = "apply", !.node = n,
                                     !.ids = Subtree(n), !.archive = archive]]
    /\ Reads(e)
    /\ UNCHANGED <<exists, parent, archived, raced>>

\* Archiving a project's jurisdictions starts at each of its top-level ones; the UPDATEs of
\* their subtrees are committed together.
ReadProject(e) ==
    /\ Stage(e, "none")
    /\ edit' = [edit EXCEPT ![e] = [NoEdit EXCEPT !.stage = "apply",
                                     !.ids = Descendants(ProjectRoots), !.archive = TRUE]]
    /\ Reads(e)
    /\ UNCHANGED <<exists, parent, archived, raced>>

\* Restoring them takes the archived ones.
ReadArchived(e) ==
    /\ Stage(e, "none")
    /\ edit' = [edit EXCEPT ![e] = [NoEdit EXCEPT !.stage = "apply", !.ids = archived]]
    /\ Reads(e)
    /\ UNCHANGED <<exists, parent, archived, raced>>

Apply(e) ==
    /\ Stage(e, "apply")
    /\ archived' = IF edit[e].archive THEN archived \cup edit[e].ids ELSE archived \ edit[e].ids
    /\ edit' = [edit EXCEPT ![e] = NoEdit]
    /\ Commits(e)
    /\ UNCHANGED <<exists, parent, raced>>

\* The request fails; what it committed stays.
Abandon(e) ==
    /\ ~Stage(e, "none")
    /\ edit' = [edit EXCEPT ![e] = NoEdit]
    /\ Reads(e)
    /\ UNCHANGED <<exists, parent, archived, raced>>

-----------------------------------------------------------------------------
UpdateJurisdiction(e) ==
    \/ \E n \in Nodes, under \in Nodes \cup {Root} : CheckMove(e, n, under)
    \/ \E n \in Nodes : Rename(e, n)
    \/ WalkUp(e) \/ CommitMove(e) \/ ReadAgain(e)

ArchiveOrRestore(e) ==
    \/ \E n \in Nodes, archive \in BOOLEAN : ReadSubtree(e, n, archive)
    \/ ReadProject(e) \/ ReadArchived(e)
    \/ Apply(e)

ForestNext ==
    \/ \E n \in Nodes, under \in Nodes \cup {Root} : CreateJurisdiction(n, under)
    \/ \E e \in Editors : UpdateJurisdiction(e) \/ ArchiveOrRestore(e) \/ Abandon(e)

ForestSpec == ForestInit /\ [][ForestNext]_forestVars

\* The forest has no circle, in which the recursive queries would never end: a check made on an
\* older tree is repeated at the commit.  Only two moves that walk up before either commits can
\* close one.
Acyclic == raced \/ \A n \in exists : parent[n] = Root \/ n \notin Ancestors(parent[n])

\* Archiving or restoring a jurisdiction takes its whole subtree with it, at any depth, unless
\* another request committed while this one was between reading the subtree and writing it.
SubtreeTogether ==
    [][\A e \in Editors :
          Apply(e) /\ e \notin outdated /\ edit[e].node # Root
          => IF edit[e].archive THEN Descendants({edit[e].node}) \subseteq archived'
                                ELSE Descendants({edit[e].node}) \cap archived' = {}]_forestVars
=============================================================================
