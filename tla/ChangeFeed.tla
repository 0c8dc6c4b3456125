----------------------------- MODULE ChangeFeed -----------------------------
(***************************************************************************)
(* What the scrapes of a source promise to those who read its history      *)
(* (data_revisions, change_diff) and to those who are notified, whatever   *)
(* the number of scrapes under way and whatever fails in them: revisions   *)
(* are only ever added, a diff relates a revision to an earlier one with   *)
(* another content, and each diff is announced once at most.               *)
(***************************************************************************)
EXTENDS Naturals, Sequences

CONSTANTS
    Sources, \* sources with a history
    Hashes   \* the contents a revision can have

VARIABLES
    history,  \* the revisions of each source, each with the one it was compared with
    announced \* the revisions announced, in order

feed == <<history, announced>>

\* A revision v is compared with number v.prev, 0 for none.
HasDiff(v) == v.changed /\ v.prev # 0

Init ==
    /\ history = [s \in Sources |-> <<>>]
    /\ announced = [s \in Sources |-> <<>>]

\* A revision is added; if it comes with a diff, the content did change.
Record(s) ==
    /\ \E h \in Hashes, i \in 0..Len(history[s]), c \in BOOLEAN :
          LET v == [hash |-> h, prev |-> i, changed |-> c]
          IN  /\ HasDiff(v) => history[s][i].hash # h
              /\ history' = [history EXCEPT ![s] = Append(@, v)]
    /\ UNCHANGED announced

\* A diff that was not announced yet is.
Announce(s) ==
    /\ \E i \in 1..Len(history[s]) :
          /\ HasDiff(history[s][i])
          /\ \A k \in 1..Len(announced[s]) : announced[s][k] # i
          /\ announced' = [announced EXCEPT ![s] = Append(@, i)]
    /\ UNCHANGED history

Next == \E s \in Sources : Record(s) \/ Announce(s)

Spec == Init /\ [][Next]_feed
=============================================================================
