------------------------------ MODULE Realtime ------------------------------
(***************************************************************************)
(* Realtime events: the server's bridge takes what is published on Redis,  *)
(* one event at a time, and sends it to the websockets that subscribed to  *)
(* its topic and belong to its recipients.  Clients connect, subscribe and *)
(* vanish while it sends.  Each socket is its user's only one.             *)
(***************************************************************************)
EXTENDS Naturals, Sequences, FiniteSets, SequencesExt

CONSTANTS
    Sockets,
    MaxEvents,  \* bound on the events ever published
    Restarts    \* bound on the restarts of the server

ASSUME RealtimeAssumption ==
    IsFiniteSet(Sockets) /\ Sockets # {} /\ MaxEvents \in Nat /\ Restarts \in Nat

VARIABLES
    socket,      \* each websocket: new, known (authenticated), open, broken (its client is
                 \* gone), closed (refused or forgotten)
    subscribed,  \* subscribed[t]: _topic_subscribers
    channel,     \* events published and not yet taken, oldest first
    published,   \* how many there were
    bridge,      \* the relay: starting, started (not yet on its channels), listening, sending
                 \* (to its targets, then dropping those that failed), or dead
    event,       \* the event being sent: its number, who is left, who failed
    received,    \* per socket, the numbers of the events its client received
    owed,        \* ghost: per socket, the events it was subscribed to and a recipient of
    restarts     \* how often the server was restarted

realtimeVars == <<socket, subscribed, channel, published, bridge, event, received, owed, restarts>>

Topics == {"notifications", "scrape_jobs"}  \* EventTopic
NoEvent == [id |-> 0, left |-> {}, failed |-> {}]

RealtimeTypeOK ==
    /\ socket \in [Sockets -> {"new", "known", "open", "broken", "closed"}]
    /\ subscribed \in [Topics -> SUBSET Sockets]
    /\ published \in 0..MaxEvents
    /\ \A i \in 1..Len(channel) : channel[i] \in
          [id : 1..MaxEvents, topic : Topics, to : SUBSET Sockets]
    /\ bridge \in {"starting", "started", "listening", "sending", "dead"}
    /\ event \in [id : 0..MaxEvents, left : SUBSET Sockets, failed : SUBSET Sockets]
    /\ received \in [Sockets -> Seq(1..MaxEvents)]
    /\ owed \in [Sockets -> SUBSET (1..MaxEvents)]
    /\ restarts \in 0..Restarts

RealtimeInit ==
    /\ socket = [s \in Sockets |-> "new"]
    /\ subscribed = [t \in Topics |-> {}]
    /\ channel = <<>> /\ published = 0
    /\ bridge = "starting" /\ event = NoEvent
    /\ received = [s \in Sockets |-> <<>>]
    /\ owed = [s \in Sockets |-> {}]
    /\ restarts = 0

-----------------------------------------------------------------------------
(* A websocket and its gateway.                                            *)

\* The token is looked at once: its session may end, and the socket stays.
Authenticate(s) ==
    /\ socket[s] = "new"
    /\ \E answer \in {"known", "closed"} : socket' = [socket EXCEPT ![s] = answer]
    /\ UNCHANGED <<subscribed, channel, published, bridge, event, received, owed, restarts>>

Connect(s) ==
    /\ socket[s] = "known"
    /\ socket' = [socket EXCEPT ![s] = "open"]
    /\ UNCHANGED <<subscribed, channel, published, bridge, event, received, owed, restarts>>

\* A message that was on its way is handled even if the client is gone.
Subscribe(s, t) ==
    /\ socket[s] \in {"open", "broken"}
    /\ subscribed' = [subscribed EXCEPT ![t] = @ \cup {s}]
    /\ UNCHANGED <<socket, channel, published, bridge, event, received, owed, restarts>>

Unsubscribe(s, t) ==
    /\ socket[s] \in {"open", "broken"}
    /\ subscribed' = [subscribed EXCEPT ![t] = @ \ {s}]
    /\ UNCHANGED <<socket, channel, published, bridge, event, received, owed, restarts>>

ClientVanishes(s) ==
    /\ socket[s] = "open"
    /\ socket' = [socket EXCEPT ![s] = "broken"]
    /\ UNCHANGED <<subscribed, channel, published, bridge, event, received, owed, restarts>>

Forgotten(s) == [t \in Topics |-> subscribed[t] \ {s}]

\* receive_json notices, and the gateway disconnects.
GatewayEnds(s) ==
    /\ socket[s] = "broken"
    /\ socket' = [socket EXCEPT ![s] = "closed"]
    /\ subscribed' = Forgotten(s)
    /\ UNCHANGED <<channel, published, bridge, event, received, owed, restarts>>

-----------------------------------------------------------------------------
(* Publishing, and the relay.                                              *)

\* Redis keeps nothing for a subscriber that is not there.
Publish(t, to) ==
    /\ published < MaxEvents
    /\ published' = published + 1
    /\ channel' = IF bridge \in {"starting", "started", "dead"} THEN channel
                  ELSE Append(channel, [id |-> published + 1, topic |-> t, to |-> to])
    /\ UNCHANGED <<socket, subscribed, bridge, event, received, owed, restarts>>

\* build_notification_events: one event for each notification, to the user it is for.
PublishNotification(s) == Publish("notifications", {s})
\* build_scrape_job_event: nobody in particular, which is everyone.
PublishJobUpdate == Publish("scrape_jobs", {})

\* The server goes on without a relay, for good, if it cannot reach Redis when it starts
\* (get_event_subscriber) ...
StartRelay ==
    /\ bridge = "starting"
    /\ bridge' \in {"started", "dead"}
    /\ UNCHANGED <<socket, subscribed, channel, published, event, received, owed, restarts>>
\* ... or when the relay's own task, some time later, subscribes to the channels.
TuneIn ==
    /\ bridge = "started"
    /\ bridge' \in {"listening", "dead"}
    /\ UNCHANGED <<socket, subscribed, channel, published, event, received, owed, restarts>>

Recipients(e) == {s \in subscribed[e.topic] : e.to = {} \/ s \in e.to}

Take ==
    /\ bridge = "listening" /\ channel # <<>>
    /\ LET e == Head(channel)  targets == Recipients(e)
       IN /\ event' = [id |-> e.id, left |-> targets, failed |-> {}]
          /\ owed' = [s \in Sockets |-> IF s \in targets THEN owed[s] \cup {e.id} ELSE owed[s]]
    /\ channel' = Tail(channel)
    /\ bridge' = "sending"
    /\ UNCHANGED <<socket, subscribed, published, received, restarts>>

Send(s) ==
    /\ bridge = "sending" /\ s \in event.left /\ socket[s] = "open"
    /\ received' = [received EXCEPT ![s] = Append(@, event.id)]
    /\ event' = [event EXCEPT !.left = @ \ {s}]
    /\ UNCHANGED <<socket, subscribed, channel, published, bridge, owed, restarts>>

\* Mutant of SendFails: the exception ends the loop.
SendFailsForAll(s) ==
    /\ bridge = "sending" /\ s \in event.left /\ socket[s] # "open"
    /\ event' = [event EXCEPT !.left = {}, !.failed = @ \cup {s}]
    /\ UNCHANGED <<socket, subscribed, channel, published, bridge, received, owed, restarts>>

\* The exception is kept to the socket it came from.
SendFails(s) ==
    /\ bridge = "sending" /\ s \in event.left /\ socket[s] # "open"
    /\ event' = [event EXCEPT !.left = @ \ {s}, !.failed = @ \cup {s}]
    /\ UNCHANGED <<socket, subscribed, channel, published, bridge, received, owed, restarts>>

\* Once all were tried, those that failed are disconnected.
Drop(s) ==
    /\ bridge = "sending" /\ event.left = {} /\ s \in event.failed
    /\ subscribed' = Forgotten(s)
    /\ event' = [event EXCEPT !.failed = @ \ {s}]
    /\ UNCHANGED <<socket, channel, published, bridge, received, owed, restarts>>

Listen ==
    /\ bridge = "sending" /\ event.left = {} /\ event.failed = {}
    /\ bridge' = "listening" /\ event' = NoEvent
    /\ UNCHANGED <<socket, subscribed, channel, published, received, owed, restarts>>

\* An event that cannot be read or an error of Redis ends the relay for good.
BridgeDies ==
    /\ bridge = "listening"
    /\ bridge' = "dead" /\ channel' = <<>>
    /\ UNCHANGED <<socket, subscribed, published, event, received, owed, restarts>>

\* RealtimeEventBridge.stop
StopRelay == bridge' = "starting" /\ event' = NoEvent
\* shutdown_event_bus: what is published before the next subscription is lost.
LeaveRedis == channel' = <<>>
\* A shutdown or a crash: the websockets end first, so whatever was being sent is lost to them.
\* The clients come back with new ones, and are not sent what they missed.
ServerRestarts ==
    /\ restarts < Restarts /\ restarts' = restarts + 1
    /\ socket' = [s \in Sockets |-> "new"]
    /\ subscribed' = [t \in Topics |-> {}]
    /\ owed' = [s \in Sockets |-> ToSet(received[s])]
    /\ StopRelay /\ LeaveRedis
    /\ UNCHANGED <<published, received>>

-----------------------------------------------------------------------------
Gateway(s) ==
    \/ Authenticate(s) \/ Connect(s) \/ ClientVanishes(s) \/ GatewayEnds(s)
    \/ \E t \in Topics : Subscribe(s, t) \/ Unsubscribe(s, t)

Relay ==
    \/ StartRelay \/ TuneIn \/ Take \/ Listen \/ BridgeDies \/ ServerRestarts
    \/ \E s \in Sockets : Send(s) \/ SendFails(s) \/ Drop(s)

RealtimeNext ==
    \/ \E s \in Sockets : Gateway(s)
    \/ \E s \in Sockets : PublishNotification(s)
    \/ PublishJobUpdate
    \/ Relay

RealtimeSpec == RealtimeInit /\ [][RealtimeNext]_realtimeVars

\* What a client still there was owed when the relay took an event it has received, once and in
\* the order of publication, save the event being sent: no other client's failure costs it one.
\* A restart is no excuse for an event sent again.
EventsArrive ==
    \A s \in Sockets :
        /\ \A i, j \in DOMAIN received[s] : i < j => received[s][i] < received[s][j]
        /\ socket[s] = "open" =>
              ToSet(received[s]) = owed[s] \ (IF s \in event.left THEN {event.id} ELSE {})
=============================================================================
