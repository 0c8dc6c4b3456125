------------------------------ MODULE Projects ------------------------------
(***************************************************************************)
(* One project of an organization: its life, the users on it, its          *)
(* jurisdictions and the sources in them (projects/, the Sources API and   *)
(* the acceptance of suggested sources).                                   *)
(*                                                                         *)
(* A request checks, awaits, and commits; what it checked may be gone by   *)
(* then.  What the database itself refuses are the foreign keys and the    *)
(* primary keys of the models.                                             *)
(***************************************************************************)
EXTENDS Naturals, Sequences, FiniteSets

CONSTANTS
    Staff,      \* active members of the organization, with the permissions it takes
    Requests,   \* requests in progress at the same time
    Homes,      \* bound on the jurisdictions
    SourceIds,  \* bound on the sources
    Urls

\* A jurisdiction is not what the source there is not has for one.
ASSUME ProjectsAssumption == "none" \notin Homes

VARIABLES
    project,    \* its row: "none" before, "deleted" after
    team,       \* project_users
    home,       \* the jurisdictions
    source,     \* the sources
    request,    \* each request between its checks and its commit
    tolerated   \* ghost: <<jurisdiction, url>> that a race, an edit or one bulk request doubled

projectVars == <<project, team, home, source, request, tolerated>>

NoSource == [home |-> "none", url |-> "none", deleted |-> FALSE]
\* clear: the pairs of no source when they were checked.
NoRequest == [op |-> "none", user |-> "none", home |-> "none", rows |-> <<>>, status |-> "none",
              clear |-> {}]
Operations == {"none", "update", "delete", "add", "remove", "home", "sources"}
Exists == project \in {"live", "archived"}

ProjectsTypeOK ==
    /\ project \in {"none", "live", "archived", "deleted"}
    /\ team \subseteq Staff
    /\ home \in [Homes -> {"none", "live", "archived"}]
    /\ \A s \in SourceIds : source[s] # NoSource =>
          source[s].home \in Homes /\ source[s].url \in Urls
    /\ \A r \in Requests : request[r].op \in Operations
    /\ tolerated \subseteq Homes \X Urls

ProjectsInit ==
    /\ project = "none" /\ team = {}
    /\ home = [h \in Homes |-> "none"]
    /\ source = [s \in SourceIds |-> NoSource]
    /\ request = [r \in Requests |-> NoRequest]
    /\ tolerated = {}

Check(r, fields) == request[r] = NoRequest /\ request' = [request EXCEPT ![r] = fields]
Over(r) == request' = [request EXCEPT ![r] = NoRequest]
Doing(r, op) == request[r].op = op

-----------------------------------------------------------------------------
(* The project and its users.                                              *)

\* create_project: the project and its creator's row in one transaction.
CreateProject(u) ==
    /\ project = "none"
    /\ project' = "live" /\ team' = {u}
    /\ UNCHANGED <<home, source, request, tolerated>>

\* update_project: archive or restore; asking for the state there is changes nothing.
UpdateProject(r, status) ==
    /\ Exists /\ status # project
    /\ Check(r, [NoRequest EXCEPT !.op = "update", !.status = status])
    /\ UNCHANGED <<project, team, home, source, tolerated>>
CommitUpdateProject(r) ==
    /\ Doing(r, "update") /\ Exists /\ Over(r)
    /\ project' = request[r].status
    /\ UNCHANGED <<team, home, source, tolerated>>

DeleteProject(r) ==
    /\ Exists
    /\ Check(r, [NoRequest EXCEPT !.op = "delete"])
    /\ UNCHANGED <<project, team, home, source, tolerated>>
\* Mutant of Deletable: the sources go unasked.
AlwaysDeletable == TRUE
\* Users and jurisdictions go with the project; a source, soft-deleted or not, keeps its
\* jurisdiction, and with it the project.
Deletable == \A s \in SourceIds : source[s] = NoSource
CommitDeleteProject(r) ==
    /\ Doing(r, "delete") /\ Deletable /\ Over(r)
    /\ project' = "deleted" /\ team' = {}
    /\ home' = [h \in Homes |-> "none"]
    /\ UNCHANGED <<source, tolerated>>

AddUser(r, u) ==
    /\ project = "live" /\ u \notin team
    /\ Check(r, [NoRequest EXCEPT !.op = "add", !.user = u])
    /\ UNCHANGED <<project, team, home, source, tolerated>>
CommitAddUser(r) ==
    /\ Doing(r, "add") /\ Exists /\ request[r].user \notin team /\ Over(r)
    /\ team' = team \cup {request[r].user}
    /\ UNCHANGED <<project, home, source, tolerated>>
RemoveUser(r, u) ==
    /\ project = "live" /\ u \in team
    /\ Check(r, [NoRequest EXCEPT !.op = "remove", !.user = u])
    /\ UNCHANGED <<project, team, home, source, tolerated>>
CommitRemoveUser(r) ==
    /\ Doing(r, "remove") /\ Over(r)
    /\ team' = team \ {request[r].user}
    /\ UNCHANGED <<project, home, source, tolerated>>

-----------------------------------------------------------------------------
(* Jurisdictions, as far as sources see them (the rest is Jurisdictions).  *)

\* JurisdictionService.create asks for the project, archived or not.
CreateHome(r, h) ==
    /\ Exists /\ home[h] = "none"
    /\ Check(r, [NoRequest EXCEPT !.op = "home", !.home = h])
    /\ UNCHANGED <<project, team, home, source, tolerated>>
CommitHome(r) ==
    /\ Doing(r, "home") /\ Exists /\ home[request[r].home] = "none" /\ Over(r)
    /\ home' = [home EXCEPT ![request[r].home] = "live"]
    /\ UNCHANGED <<project, team, source, tolerated>>
ArchiveHome(h) ==
    /\ home[h] # "none"
    /\ home' = [home EXCEPT ![h] = IF @ = "live" THEN "archived" ELSE "live"]
    /\ UNCHANGED <<project, team, source, request, tolerated>>

-----------------------------------------------------------------------------
(* Sources.                                                                *)

Free == {s \in SourceIds : source[s] = NoSource}
HasUrl(s, h, url) == source[s].home = h /\ source[s].url = url /\ ~source[s].deleted
Taken(h, url) == \E s \in SourceIds : HasUrl(s, h, url)
Clear(rows) == {rows[i] : i \in {j \in 1..Len(rows) : ~Taken(rows[j][1], rows[j][2])}}

\* _ensure_prompt_requirements: the jurisdiction, with a prompt, and the project are there.
MayHoldSources(h) == home[h] = "live" /\ project = "live"

\* Mutant of UrlIsNew: any source of the jurisdiction that is archived hides the others.
UrlSeemsNew(h, url) ==
    \/ ~Taken(h, url)
    \/ \E s \in SourceIds : source[s].home = h /\ source[s].deleted
UrlIsNew(h, url) == ~Taken(h, url)
CheckSources(r, rows) ==
    /\ \A i \in 1..Len(rows) : MayHoldSources(rows[i][1])
    /\ Check(r, [NoRequest EXCEPT !.op = "sources", !.rows = rows, !.clear = Clear(rows)])
    /\ UNCHANGED <<project, team, home, source, tolerated>>
CreateSource(r, h, url) == UrlIsNew(h, url) /\ CheckSources(r, << <<h, url>> >>)
\* bulk_create_sources refuses a URL of any source, even a deleted one or one of another
\* jurisdiction, but does not compare the URLs of the request.
UrlsAreNew(rows) == \A s \in SourceIds, i \in 1..Len(rows) : source[s].url # rows[i][2]
BulkCreateSources(r, rows) == UrlsAreNew(rows) /\ CheckSources(r, rows)
AcceptSuggestedSources(r, h, urls) == BulkCreateSources(r, [i \in DOMAIN urls |-> <<h, urls[i]>>])
\* All of them or, when a jurisdiction is gone, none.
CommitSources(r) ==
    LET rows == request[r].rows
        Twice(i) == \E j \in 1..Len(rows) : i # j /\ rows[i] = rows[j]
    IN /\ Doing(r, "sources") /\ Over(r)
       /\ \A i \in 1..Len(rows) : home[rows[i][1]] # "none"
       /\ \E id \in [1..Len(rows) -> Free] :
             /\ \A i, j \in 1..Len(rows) : i # j => id[i] # id[j]
             /\ source' = [s \in SourceIds |->
                   IF \E i \in 1..Len(rows) : id[i] = s
                   THEN LET i == CHOOSE i \in 1..Len(rows) : id[i] = s
                        IN  [home |-> rows[i][1], url |-> rows[i][2], deleted |-> FALSE]
                   ELSE source[s]]
       /\ tolerated' = tolerated \cup {rows[i] : i \in {j \in 1..Len(rows) :
             Twice(j) \/ (rows[j] \in request[r].clear /\ Taken(rows[j][1], rows[j][2]))}}
       /\ UNCHANGED <<project, team, home>>

\* update_source and delete_source ask nothing of the other sources.
Changed(s, row) ==
    /\ source' = [source EXCEPT ![s] = row]
    /\ tolerated' = IF ~row.deleted /\ \E t \in SourceIds \ {s} : HasUrl(t, row.home, row.url)
                    THEN tolerated \cup {<<row.home, row.url>>} ELSE tolerated
    /\ UNCHANGED <<project, team, home, request>>
UpdateSource(s, url, deleted) ==
    /\ source[s] # NoSource
    /\ Changed(s, [source[s] EXCEPT !.url = url, !.deleted = deleted])
DeleteSource(s) ==
    /\ source[s] # NoSource
    /\ Changed(s, [source[s] EXCEPT !.deleted = TRUE])
\* Taken if no scrape has stored a revision of it: their foreign key refuses it then.
DeleteSourcePermanently(s) ==
    /\ source[s] # NoSource
    /\ source' = [source EXCEPT ![s] = NoSource]
    /\ UNCHANGED <<project, team, home, request, tolerated>>
\* The database refuses, or anything else goes wrong: the request is rolled back.
RolledBack(r) ==
    /\ request[r] # NoRequest /\ Over(r)
    /\ UNCHANGED <<project, team, home, source, tolerated>>

-----------------------------------------------------------------------------
ProjectRequests(r) ==
    \/ \E u \in Staff : AddUser(r, u) \/ RemoveUser(r, u)
    \/ CommitAddUser(r) \/ CommitRemoveUser(r)
    \/ \E status \in {"live", "archived"} : UpdateProject(r, status)
    \/ CommitUpdateProject(r) \/ DeleteProject(r) \/ CommitDeleteProject(r)

SourceRequests(r) ==
    \/ \E h \in Homes : CreateHome(r, h)
    \/ \E h \in Homes, url \in Urls : CreateSource(r, h, url)
    \/ \E rows \in {<<row>> : row \in Homes \X Urls} \cup ((Homes \X Urls) \X (Homes \X Urls)) :
          BulkCreateSources(r, rows)
    \/ \E h \in Homes, urls \in {<<url>> : url \in Urls} \cup (Urls \X Urls) :
          AcceptSuggestedSources(r, h, urls)
    \/ CommitHome(r) \/ CommitSources(r)

ProjectsNext ==
    \/ \E u \in Staff : CreateProject(u)
    \/ \E r \in Requests : ProjectRequests(r) \/ SourceRequests(r) \/ RolledBack(r)
    \/ \E h \in Homes : ArchiveHome(h)
    \/ \E s \in SourceIds :
          \/ \E url \in Urls, deleted \in BOOLEAN : UpdateSource(s, url, deleted)
          \/ DeleteSource(s) \/ DeleteSourcePermanently(s)

ProjectsSpec == ProjectsInit /\ [][ProjectsNext]_projectVars

\* However requests overlap, a source never loses the jurisdiction a scrape reads its prompt
\* from, nor the project: deleting a project and adding to it do not both succeed.
SourcesHaveAHome ==
    \A s \in SourceIds : source[s] # NoSource => home[source[s].home] # "none" /\ Exists

\* A jurisdiction has one source of a URL, but for those that two requests, one request, or
\* an edit of a source doubled.
OneSourcePerUrl ==
    \A h \in Homes, url \in Urls :
        Cardinality({s \in SourceIds : HasUrl(s, h, url)}) <= 1 \/ <<h, url>> \in tolerated
=============================================================================
