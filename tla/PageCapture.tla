---------------------------- MODULE PageCapture ----------------------------
(***************************************************************************)
(* What RevisionPipeline takes for granted of a scrape of one source: how  *)
(* the page is fetched, read and archived, and how the AI's answers become *)
(* the data of a revision and its verdict.                                 *)
(*                                                                         *)
(* A document is known by its text, and a hash by the text it is of.  The  *)
(* archive is named after the second in which the page arrived.            *)
(***************************************************************************)
EXTENDS Naturals, Sequences, FiniteSets

CONSTANTS
    Scrapes,      \* scrapes of the source that may be under way at once
    Texts,        \* what the site may say
    Facts,        \* what the AI may find in a text
    Retries,      \* max_retries of both AI services (the code: 2)
    MaxSeconds,   \* bound on the clock
    MaxCaptures,  \* bound on the revisions, those under way included
    FetchFaults   \* bound on failures of the network and of the storage

ASSUME CaptureAssumption ==
    /\ Retries \in Nat /\ MaxSeconds \in Nat \ {0} /\ MaxCaptures \in Nat /\ FetchFaults \in Nat
    /\ {"blank", "PDF extraction failed"} \cap Texts = {}

VARIABLES
    site,      \* the document at the source's URL
    second,    \* the clock
    archive,   \* the raw-content objects of the source, by the second in their name
    captures,  \* its data_revisions
    scrape,    \* the scrapes under way
    names,     \* ghost: how many scrapes named their archive in each second
    mishaps    \* failures that have happened

captureVars == <<site, second, archive, captures, scrape, names, mishaps>>

\* script: a page that is only a loading shell until a browser runs it.  broken: a PDF that
\* cannot be read, or any page of a source whose scraping rules say that it is a PDF.
Forms == {"plain", "script", "pdf", "broken"}
NoSite == [form |-> "none", text |-> "none"]
Readable == Texts \cup {"blank", "PDF extraction failed"}
Unfetched == "none"
NoFacts == "none"
NoScrape == [pc |-> "idle", text |-> Unfetched, at |-> 0, last |-> 0, facts |-> NoFacts,
             tries |-> 0, changed |-> FALSE]
CaptureStages == {"idle", "fast", "browser", "archive", "compare", "extract", "judge", "persist"}

CaptureTypeOK ==
    /\ site \in [form : Forms, text : Texts] \cup {NoSite}
    /\ second \in 1..MaxSeconds
    /\ archive \in [1..MaxSeconds -> Readable \cup {Unfetched}]
    /\ captures \in Seq([text : Readable, at : 1..MaxSeconds, last : Nat, facts : Facts, changed : BOOLEAN])
    /\ scrape \in [Scrapes -> [pc : CaptureStages, text : Readable \cup {Unfetched}, at : 0..MaxSeconds,
                               last : Nat, facts : Facts \cup {NoFacts}, tries : 0..Retries,
                               changed : BOOLEAN]]
    /\ names \in [1..MaxSeconds -> 0..2]   \* 2: or more
    /\ mishaps \in 0..FetchFaults

CaptureInit ==
    /\ site = NoSite
    /\ second = 1
    /\ archive = [t \in 1..MaxSeconds |-> Unfetched]
    /\ captures = <<>>
    /\ scrape = [c \in Scrapes |-> NoScrape]
    /\ names = [t \in 1..MaxSeconds |-> 0] /\ mishaps = 0

At(c, stage) == scrape[c].pc = stage
Mishap == mishaps < FetchFaults /\ mishaps' = mishaps + 1

SiteAppears ==
    /\ site = NoSite /\ site' \in [form : Forms, text : Texts]
    /\ UNCHANGED <<second, archive, captures, scrape, names, mishaps>>
SitePublishes ==
    /\ site # NoSite
    /\ \E text \in Texts \ {site.text} : site' = [site EXCEPT !.text = text]
    /\ UNCHANGED <<second, archive, captures, scrape, names, mishaps>>
SecondPasses ==
    /\ second < MaxSeconds /\ second' = second + 1
    /\ UNCHANGED <<site, archive, captures, scrape, names, mishaps>>

-----------------------------------------------------------------------------
(* Fetching: the fast path, and a browser where it fails.                  *)

UnderWay == {c \in Scrapes : ~At(c, "idle")}
StartScrape(c) ==
    /\ site # NoSite /\ At(c, "idle") /\ Len(captures) + Cardinality(UnderWay) < MaxCaptures
    /\ scrape' = [scrape EXCEPT ![c].pc = "fast"]
    /\ UNCHANGED <<site, second, archive, captures, names, mishaps>>

\* Mutant of NameOf: the names tell minutes apart, not seconds.
NameOfMinute(t) == (t + 1) \div 2
\* timestamp_str
NameOf(t) == t
\* is_pdf, extract_text: what is archived in place of a PDF is a page with its text.
Arrives(c, text) ==
    /\ scrape' = [scrape EXCEPT ![c].pc = "archive", ![c].at = second,
          ![c].text = IF site.form = "broken" THEN "PDF extraction failed" ELSE text]
    /\ names' = [names EXCEPT ![second] = IF @ = 2 THEN 2 ELSE @ + 1]

\* _sync_request; short HTML that speaks of loading or JavaScript counts as a failure.
FetchFast(c) ==
    /\ At(c, "fast") /\ site.form # "script"
    /\ Arrives(c, site.text)
    /\ UNCHANGED <<site, second, archive, captures, mishaps>>
Escalate(c) ==
    /\ At(c, "fast")
    /\ IF site.form = "script" THEN UNCHANGED mishaps ELSE Mishap
    /\ scrape' = [scrape EXCEPT ![c].pc = "browser"]
    /\ UNCHANGED <<site, second, archive, captures, names>>
\* PlaywrightService.scrape: the rendered page, or the file it turns out to download; a page
\* whose text does not show up in time is taken as it is.
Browse(c) ==
    /\ At(c, "browser")
    /\ \/ Arrives(c, site.text)
       \/ site.form = "script" /\ Arrives(c, "blank")
    /\ UNCHANGED <<site, second, archive, captures, mishaps>>

-----------------------------------------------------------------------------
(* Archiving: a failure to store the raw page ends the scrape.  The        *)
(* extracted text is stored too, for nobody to read, and a failure of that *)
(* is only logged.                                                         *)

\* _upload_bytes_sync: an object of that name is replaced.
PutObject(name, text) == archive' = [archive EXCEPT ![name] = text]
StoreRaw(c) ==
    /\ At(c, "archive")
    /\ PutObject(NameOf(scrape[c].at), scrape[c].text)
    /\ scrape' = [scrape EXCEPT ![c].pc = "compare"]
    /\ UNCHANGED <<site, second, captures, names, mishaps>>

-----------------------------------------------------------------------------
(* The AI.                                                                 *)

\* The hash of the last revision decides whether the AI is asked at all.
CompareHash(c) ==
    LET n == Len(captures)
    IN /\ At(c, "compare")
       /\ scrape' = IF n > 0 /\ captures[n].text = scrape[c].text
                    THEN [scrape EXCEPT ![c].pc = "persist", ![c].last = n,
                                        ![c].facts = captures[n].facts]
                    ELSE [scrape EXCEPT ![c].pc = "extract", ![c].last = n]
       /\ UNCHANGED <<site, second, archive, captures, names, mishaps>>

Retry(c) ==
    /\ scrape[c].tries < Retries
    /\ scrape' = [scrape EXCEPT ![c].tries = @ + 1]
\* run_llm_analysis: an answer that is not JSON of the schema, or an error, is asked for again.
Extract(c) ==
    /\ At(c, "extract")
    /\ \/ \E f \in Facts :
             scrape' = [scrape EXCEPT ![c].pc = "judge", ![c].facts = f, ![c].tries = 0]
       \/ Retry(c)
    /\ UNCHANGED <<site, second, archive, captures, names, mishaps>>

\* Mutant of Judge: the AI is asked about equal data too.
JudgeEqualData(c) ==
    LET last == scrape[c].last
    IN /\ At(c, "judge")
       /\ \/ last = 0 /\ scrape' = [scrape EXCEPT ![c].pc = "persist", ![c].changed = TRUE]
          \/ /\ last # 0
             /\ \/ \E changed \in BOOLEAN :
                      scrape' = [scrape EXCEPT ![c].pc = "persist", ![c].changed = changed]
                \/ Retry(c)
       /\ UNCHANGED <<site, second, archive, captures, names, mishaps>>

Verdict(c, changed) == scrape' = [scrape EXCEPT ![c].pc = "persist", ![c].changed = changed]
\* detect_semantic_change: equal data are no change and first data are one, without the AI;
\* an answer that cannot be parsed is asked for again, any other error is not; a comparison
\* that failed counts as a change.
Judge(c) ==
    LET last == scrape[c].last
        same == last # 0 /\ captures[last].facts = scrape[c].facts
    IN /\ At(c, "judge")
       /\ \/ same /\ Verdict(c, FALSE)
          \/ last = 0 /\ Verdict(c, TRUE)
          \/ /\ last # 0 /\ ~same
             /\ \/ \E changed \in BOOLEAN : Verdict(c, changed)
                \/ Retry(c)
       /\ UNCHANGED <<site, second, archive, captures, names, mishaps>>

Persist(c) ==
    /\ At(c, "persist")
    /\ captures' = Append(captures,
          [f \in {"text", "at", "last", "facts", "changed"} |-> scrape[c][f]])
    /\ scrape' = [scrape EXCEPT ![c] = NoScrape]
    /\ UNCHANGED <<site, second, archive, names, mishaps>>
\* The browser or the storage fails, the AI has failed too often, or the commit does.
ScrapeFails(c) ==
    /\ \/ scrape[c].pc \in {"browser", "archive", "persist"} /\ Mishap
       \/ At(c, "extract") /\ scrape[c].tries = Retries /\ UNCHANGED mishaps
    /\ scrape' = [scrape EXCEPT ![c] = NoScrape]
    /\ UNCHANGED <<site, second, archive, captures, names>>

CaptureNext ==
    \/ SiteAppears \/ SitePublishes \/ SecondPasses
    \/ \E c \in Scrapes :
          \/ StartScrape(c) \/ FetchFast(c) \/ Escalate(c) \/ Browse(c)
          \/ StoreRaw(c) \/ CompareHash(c) \/ Extract(c) \/ Judge(c) \/ Persist(c) \/ ScrapeFails(c)

CaptureSpec == CaptureInit /\ [][CaptureNext]_captureVars

\* The object a revision names is the page its hash was taken of, unless two scrapes of the
\* source named theirs within one second.
ArchiveMatchesHash ==
    \A i \in 1..Len(captures) :
        \/ archive[NameOf(captures[i].at)] = captures[i].text
        \/ names[captures[i].at] > 1

\* What a revision reports is found in its data: a change only if they differ from those of the
\* older revision it was compared with, whatever the AI answered how often; and a page that is
\* the one of that revision gets its data, so that it reports none.
Grounded(x, revisions) == x.last # 0 =>
    /\ x.changed => x.facts # revisions[x.last].facts
    /\ x.text = revisions[x.last].text => x.facts = revisions[x.last].facts
ChangesAreFound ==
    \A i \in 1..Len(captures) : captures[i].last < i /\ Grounded(captures[i], captures)
=============================================================================
