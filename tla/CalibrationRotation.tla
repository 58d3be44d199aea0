------------------------ MODULE CalibrationRotation ------------------------
(***************************************************************************)
(* The rotating calibration matrix and its subscribers                     *)
(* (src/grpc/calibration.rs; compute_calibration.rs and                    *)
(* pcie_amplification.rs rotate theirs in the same way).                   *)
(*                                                                         *)
(* A matrix is known by its version: its data, and so its hash, differ for *)
(* every version.  The version, the matrix and the broadcast channel are   *)
(* updated in three steps that other threads may fall between; no lock is  *)
(* held across an await, so each step is atomic by itself.                 *)
(***************************************************************************)
EXTENDS Integers, Sequences

CONSTANTS Agents,
          Validators,   \* bound: the agents that ever validate their matrix
          Capacity,     \* updates the broadcast channel retains
          MaxVersion    \* bound: rotations

ASSUME CalibrationAssumption == Capacity \in Nat \ {0} /\ MaxVersion \in Nat \ {0}

VARIABLES version,      \* the version counter
          matrix,       \* version of current_matrix
          rotator,      \* the rotation task: where it is, and its new_version
          sent,         \* versions accepted by the broadcast channel, in order
          agent         \* per agent: its stream, its matrix, its validation call

vars == <<version, matrix, rotator, sent, agent>>

NoAnswer == [given |-> FALSE, asked |-> 0, is_valid |-> FALSE,
             needs_update |-> FALSE, latest |-> 0]

NewAgent ==
    [next   |-> 0,        \* position of its receiver in `sent', 0 without stream
     got    |-> 0,        \* last version this stream delivered
     held   |-> 0,        \* version of the matrix it works with
     asked  |-> 0,        \* version its validation in progress is about
     seen   |-> 0,        \* version that validation has read, 0 if there is none
     answer |-> NoAnswer]

Init ==
    /\ version = 1
    /\ matrix = 1
    /\ rotator = [at |-> "tick", new_version |-> 1]
    /\ sent = <<>>
    /\ agent = [a \in Agents |-> NewAgent]

-----------------------------------------------------------------------------
\* Slip: the increment is not written back.
BumpVersion_Local ==
    /\ rotator.at = "tick" /\ version < MaxVersion
    /\ rotator' = [at |-> "store", new_version |-> version + 1]
    /\ UNCHANGED <<version, matrix, sent, agent>>

\* The interval ticks: the version moves under its own lock.
BumpVersion ==
    /\ rotator.at = "tick" /\ version < MaxVersion
    /\ version' = version + 1
    /\ rotator' = [at |-> "store", new_version |-> version + 1]
    /\ UNCHANGED <<matrix, sent, agent>>

\* Slip: the new matrix is broadcast and never put in place.
StoreMatrix_Forgotten ==
    /\ rotator.at = "store"
    /\ rotator' = [rotator EXCEPT !.at = "send"]
    /\ UNCHANGED <<version, matrix, sent, agent>>

\* Then the matrix ...
StoreMatrix ==
    /\ rotator.at = "store"
    /\ matrix' = rotator.new_version
    /\ rotator' = [rotator EXCEPT !.at = "send"]
    /\ UNCHANGED <<version, sent, agent>>

\* ... then the broadcast, which is refused when nobody listens.
Broadcast ==
    /\ rotator.at = "send"
    /\ sent' = IF \E a \in Agents : agent[a].next > 0
               THEN Append(sent, rotator.new_version) ELSE sent
    /\ rotator' = [rotator EXCEPT !.at = "tick"]
    /\ UNCHANGED <<version, matrix, agent>>

-----------------------------------------------------------------------------
\* Both handlers that hand out a matrix begin with validate_api_key_and_tier; a call
\* with a tier it refuses changes nothing, so the agents here are entitled ones.

\* subscribe_calibration_matrix: a receiver that starts at the tail.
Subscribe(a) ==
    /\ agent[a].next = 0
    /\ agent' = [agent EXCEPT ![a] = [@ EXCEPT !.next = Len(sent) + 1, !.got = 0]]
    /\ UNCHANGED <<version, matrix, rotator, sent>>

\* The agent closes its stream.
Unsubscribe(a) ==
    /\ agent[a].next > 0
    /\ agent' = [agent EXCEPT ![a] = [@ EXCEPT !.next = 0]]
    /\ UNCHANGED <<version, matrix, rotator, sent>>

Pending(a) == agent[a].next > 0 /\ agent[a].next <= Len(sent)
Lagged(a)  == agent[a].next + Capacity <= Len(sent)

\* Slip: the slot of the ring is read without looking whose it is by now.
Deliver_Overwritten(a) ==
    LET slot == CHOOSE i \in 1..Len(sent) :
                    i + Capacity > Len(sent) /\ (i - agent[a].next) % Capacity = 0
    IN  /\ Pending(a)
        /\ agent' = [agent EXCEPT ![a] = [@ EXCEPT !.next = agent[a].next + 1, !.got = sent[slot],
                                                   !.held = sent[slot]]]
        /\ UNCHANGED <<version, matrix, rotator, sent>>

Deliver(a) ==
    /\ Pending(a) /\ ~Lagged(a)
    /\ agent' = [agent EXCEPT ![a] =
                    [@ EXCEPT !.next = agent[a].next + 1,
                              !.got = sent[agent[a].next],
                              !.held = sent[agent[a].next]]]
    /\ UNCHANGED <<version, matrix, rotator, sent>>

\* Slip: a receiver that has fallen behind starts again at the tail.
SkipLagged_ToTail(a) ==
    /\ Pending(a) /\ Lagged(a)
    /\ agent' = [agent EXCEPT ![a] = [@ EXCEPT !.next = Len(sent) + 1]]
    /\ UNCHANGED <<version, matrix, rotator, sent>>

\* A receiver that has fallen behind is told so and goes on with the oldest
\* update retained; filter_map drops that error silently.
SkipLagged(a) ==
    /\ Pending(a) /\ Lagged(a)
    /\ agent' = [agent EXCEPT ![a] = [@ EXCEPT !.next = Len(sent) + 1 - Capacity]]
    /\ UNCHANGED <<version, matrix, rotator, sent>>

\* get_calibration_matrix
GetMatrix(a) ==
    /\ agent' = [agent EXCEPT ![a] = [@ EXCEPT !.held = matrix]]
    /\ UNCHANGED <<version, matrix, rotator, sent>>

\* validate_matrix_version reads the version ...
ValidateVersion(a) ==
    /\ a \in Validators
    /\ agent[a].held > 0 /\ agent[a].seen = 0
    /\ agent' = [agent EXCEPT ![a] =
                    [@ EXCEPT !.asked = agent[a].held, !.seen = version,
                              !.answer = NoAnswer]]
    /\ UNCHANGED <<version, matrix, rotator, sent>>

Verdict(asked, seen) ==
    [given        |-> TRUE,
     asked        |-> asked,
     is_valid     |-> asked = seen /\ asked = matrix,
     needs_update |-> asked < seen,
     latest       |-> seen]

\* ... and, its lock given back, the matrix: both decide is_valid.
ValidateMatrix(a) ==
    /\ agent[a].seen > 0
    /\ agent' = [agent EXCEPT ![a] =
                    [@ EXCEPT !.asked = 0, !.seen = 0,
                              !.answer = Verdict(agent[a].asked, agent[a].seen)]]
    /\ UNCHANGED <<version, matrix, rotator, sent>>

-----------------------------------------------------------------------------
Rotate == BumpVersion \/ StoreMatrix \/ Broadcast

Stream(a) == Deliver(a) \/ SkipLagged(a)

AgentStep(a) ==
    \/ Subscribe(a) \/ Unsubscribe(a)
    \/ Stream(a) \/ GetMatrix(a)
    \/ ValidateVersion(a) \/ ValidateMatrix(a)

Next == Rotate \/ \E a \in Agents : AgentStep(a)

Spec == Init /\ [][Next]_vars

-----------------------------------------------------------------------------
Answers == [given : BOOLEAN, asked : Nat, is_valid : BOOLEAN,
            needs_update : BOOLEAN, latest : Nat]
AgentState == [next : Nat, got : Nat, held : Nat, asked : Nat, seen : Nat,
               answer : Answers]

\* The types of the service's state and of its clients'.
TypeOK ==
    /\ version \in Nat /\ matrix \in Nat
    /\ rotator \in [at : {"tick", "store", "send"}, new_version : Nat]
    /\ sent \in Seq(Nat)
    /\ agent \in [Agents -> AgentState]

\* The matrix served is never more than one rotation behind the version that
\* validations compare with, and never ahead of it.
MatrixTracksVersion ==
    /\ matrix <= version /\ version <= matrix + 1
    /\ rotator.at # "store" => matrix = version

\* An agent that has received an update never fetches an older matrix afterwards:
\* what is broadcast is already in place.
StreamBehindMatrix == \A a \in Agents : agent[a].got <= matrix

\* A stream delivers ever newer versions, also across the updates it lost.
StreamMonotone ==
    [][\A a \in Agents :
          agent[a].next > 0 /\ agent'[a].got # agent[a].got =>
              agent'[a].got > agent[a].got]_vars

\* No validation names, as the latest, a version older than the agent's own, and
\* one that finds the agent's matrix neither valid nor outdated (a rotation fell
\* between its two reads) is given for a matrix that has been replaced.
VerdictSound ==
    \A a \in Agents : LET v == agent[a].answer IN v.given =>
        /\ v.asked <= v.latest
        /\ ~v.is_valid /\ ~v.needs_update => matrix > v.asked

\* An update in a stream's queue, or a newer one, is delivered unless the agent
\* closes the stream, however far it lags behind.
UpdateDelivered ==
    \A a \in Agents, v \in 2..MaxVersion :
        (/\ Pending(a)
         /\ \E i \in agent[a].next..Len(sent) : sent[i] = v)
            ~> (agent[a].got >= v \/ agent[a].next = 0)
=============================================================================
