-------------------------- MODULE TelemetryService --------------------------
(***************************************************************************)
(* src/grpc/telemetry.rs: every stream of an agent stores its status,      *)
(* then looks at the table again, and broadcasts how many agents it saw.   *)
(* A status is the agent it is of: nothing that is sent depends on more.   *)
(* (calculate_network_capacity, which would, is called by nobody.)         *)
(***************************************************************************)
EXTENDS Naturals, Sequences, FiniteSets, FiniteSetsExt

CONSTANTS Streams,          \* open telemetry streams
          Reporters,        \* agents
          Subscribers,      \* of the network capacity
          Capacity,         \* of the broadcast channel (100)
          MaxReports        \* bound on the statuses that arrive

VARIABLES agents,     \* agents whose status is stored
          stream,     \* where each stream is, whose status it has, what it counted
          sent,       \* every capacity update that was broadcast
          subscriber, \* how many of them each subscriber has passed, and the last it got
          reports,
          unsent      \* ghost: agents stored by a stream that was dropped before it sent

telemetryVars == <<agents, stream, sent, subscriber, reports, unsent>>

Open == [at |-> "open", agent |-> "none", total_nodes |-> 0]
NotSubscribed == [next |-> 0, seen |-> 0]

TelemetryInit ==
    /\ agents = {} /\ sent = <<>> /\ reports = 0 /\ unsent = {}
    /\ stream = [s \in Streams |-> Open]
    /\ subscriber = [u \in Subscribers |-> NotSubscribed]

Move(s, new) == stream' = [stream EXCEPT ![s] = new]

Receive(s, a) ==
    /\ stream[s].at = "open" /\ reports < MaxReports
    /\ reports' = reports + 1
    /\ Move(s, [stream[s] EXCEPT !.at = "store", !.agent = a])
    /\ UNCHANGED <<agents, sent, subscriber, unsent>>

\* The write guard ends with its statement.
\* Slip: the table is counted before the status is in it.
Store_CountFirst(s) ==
    /\ stream[s].at = "store"
    /\ agents' = agents \cup {stream[s].agent}
    /\ Move(s, [stream[s] EXCEPT !.at = "send", !.total_nodes = Cardinality(agents)])
    /\ UNCHANGED <<sent, subscriber, reports, unsent>>
Store(s) ==
    /\ stream[s].at = "store"
    /\ agents' = agents \cup {stream[s].agent}
    /\ Move(s, [stream[s] EXCEPT !.at = "count"])
    /\ UNCHANGED <<sent, subscriber, reports, unsent>>

\* The read guard ends with the block, before the update is sent.
Count(s) ==
    /\ stream[s].at = "count"
    /\ Move(s, [stream[s] EXCEPT !.at = "send", !.total_nodes = Cardinality(agents)])
    /\ UNCHANGED <<agents, sent, subscriber, reports, unsent>>

\* The send fails without subscribers, which is ignored; then the status is acknowledged.
Broadcast(s) ==
    /\ stream[s].at = "send"
    /\ sent' = Append(sent, stream[s].total_nodes)
    /\ Move(s, Open)
    /\ UNCHANGED <<agents, subscriber, reports, unsent>>

\* A client that goes away while a guard is awaited: its stream is dropped there.
DropStream(s) ==
    /\ stream[s].at \in {"store", "count"}
    /\ unsent' = IF stream[s].at = "count" THEN unsent \cup {stream[s].agent} ELSE unsent
    /\ Move(s, Open)
    /\ UNCHANGED <<agents, sent, subscriber, reports>>

Subscribe(u) ==
    /\ subscriber[u] = NotSubscribed
    /\ subscriber' = [subscriber EXCEPT ![u] = [next |-> Len(sent) + 1, seen |-> 0]]
    /\ UNCHANGED <<agents, stream, sent, reports, unsent>>

\* A subscriber that lagged goes on with the oldest update that is left, and is not told.
Next_(u) ==
    LET from == Max({subscriber[u].next, Len(sent) - Capacity + 1})
    IN  /\ subscriber[u].next \in 1..Len(sent)
        /\ subscriber' = [subscriber EXCEPT ![u] = [next |-> from + 1, seen |-> sent[from]]]
        /\ UNCHANGED <<agents, stream, sent, reports, unsent>>

TelemetryNext ==
    \/ \E s \in Streams :
        \/ \E a \in Reporters : Receive(s, a)
        \/ Store(s) \/ Count(s) \/ Broadcast(s) \/ DropStream(s)
    \/ \E u \in Subscribers : Subscribe(u) \/ Next_(u)
TelemetrySpec == TelemetryInit /\ [][TelemetryNext]_telemetryVars

-----------------------------------------------------------------------------
\* The updates of two streams may be sent in the wrong order, so the last of them may be
\* too low; but once no stream is between storing and sending, the whole table was
\* announced by some update, except for agents whose stream was dropped in between.
TableAnnounced ==
    (\A s \in Streams : stream[s].at \in {"open", "store"}) =>
        Max({sent[i] : i \in DOMAIN sent} \cup {0}) >= Cardinality(agents \ unsent)
=============================================================================
