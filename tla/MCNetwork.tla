------------------------------ MODULE MCNetwork ------------------------------
(* The classic network layer on small instances: a channel of a server and    *)
(* of a client, and the acceptor that pairs channels with sockets.  "part"    *)
(* says which of them a behaviour is about and never changes.                 *)
EXTENDS Naturals, Sequences

VARIABLES part,
    strand, queue, loop, cancelNew, io, status, handle, start, finals,
    left, fired, done, asked, com, conn, user,
    session, group, mGroups, mSessionID, mUnclaimedGroups, mClaimedGroups,
    mUnclaimedSockets, mSockets, listening, bound, mStopped, accepting,
    shaking, fails, created, canceled, handed, emptySet, stoppedSet

channelVars == <<strand, queue, loop, cancelNew, io, status, handle, start, finals,
                 left, fired, done, asked, com, conn, user>>
acceptorVars == <<session, group, mGroups, mSessionID, mUnclaimedGroups, mClaimedGroups,
                  mUnclaimedSockets, mSockets, listening, bound, mStopped, accepting,
                  shaking, fails, created, canceled, handed, emptySet, stoppedSet>>
vars == <<part, channelVars, acceptorVars>>

Server == INSTANCE Channel WITH
    Mode <- "server", MaxData <- 1, MaxRetries <- 0,
    UserCalls <- {"cancel", "close", "onConnect"}
Client == INSTANCE Channel WITH
    Mode <- "client", MaxData <- 1, MaxRetries <- 1, UserCalls <- {"cancel", "onConnect"}
Calls == INSTANCE Channel WITH
    Mode <- "client", MaxData <- 0, MaxRetries <- 1, UserCalls <- {"cancel", "close"}
Pairing == INSTANCE Acceptor WITH
    Sessions <- {"s1", "s2"}, Clients <- {"c1", "c2"}, Names <- {"a"},
    NoSession <- "noSession", NoId <- "noId",
    MaxFails <- 0, BindFails <- FALSE, MayStop <- FALSE
OneClient == INSTANCE Acceptor WITH
    Sessions <- {"s1", "s2"}, Clients <- {"c1"}, Names <- {"a", "b"},
    NoSession <- "noSession", NoId <- "noId",
    MaxFails <- 0, BindFails <- FALSE, MayStop <- FALSE
OneServer == INSTANCE Acceptor WITH
    Sessions <- {"s1"}, Clients <- {"c1", "c2"}, Names <- {"a", "b"},
    NoSession <- "noSession", NoId <- "noId",
    MaxFails <- 0, BindFails <- FALSE, MayStop <- FALSE
Stopping == INSTANCE Acceptor WITH
    Sessions <- {"s1", "s2"}, Clients <- {"c1"}, Names <- {"a"},
    NoSession <- "noSession", NoId <- "noId",
    MaxFails <- 1, BindFails <- FALSE, MayStop <- FALSE

ChannelParts == {"server", "client", "calls"}

\* The component a behaviour is not about rests in its initial state.
Init ==
    \/ part = "server" /\ Server!Init /\ Pairing!Init
    \/ part = "client" /\ Client!Init /\ Pairing!Init
    \/ part = "calls" /\ Calls!Init /\ Pairing!Init
    \/ part = "pairing" /\ Pairing!Init /\ Server!Init
    \/ part = "oneClient" /\ OneClient!Init /\ Server!Init
    \/ part = "oneServer" /\ OneServer!Init /\ Server!Init
    \/ part = "stopping" /\ Stopping!Init /\ Server!Init

ChannelStep(p, A) == part = p /\ A /\ UNCHANGED <<part, acceptorVars>>
AcceptorStep(p, A) == part = p /\ A /\ UNCHANGED <<part, channelVars>>

Next ==
    \/ ChannelStep("server", Server!Next)
    \/ ChannelStep("client", Client!Next)
    \/ ChannelStep("calls", Calls!Next)
    \/ AcceptorStep("pairing", Pairing!Next)
    \/ AcceptorStep("oneClient", OneClient!Next)
    \/ AcceptorStep("oneServer", OneServer!Next)
    \/ AcceptorStep("stopping", Stopping!Next)

\* LocalFairness and PeerFairness of the channel, Fairness of the acceptor.
Fairness ==
    /\ WF_vars(ChannelStep("calls", Calls!StrandStep))
    /\ WF_vars(ChannelStep("calls", Calls!TimerFires))
    /\ WF_vars(ChannelStep("calls", Calls!RetryConnects))
    /\ WF_vars(ChannelStep("calls", Calls!HeaderHandler))
    /\ \A d \in Calls!Dir : WF_vars(ChannelStep("calls", Calls!Aborted(d)))
    /\ WF_vars(ChannelStep("calls", Calls!UserPushes))
    /\ WF_vars(ChannelStep("calls", Calls!UserDispatches))
    /\ WF_vars(ChannelStep("calls", Calls!ConnectReturns))
    /\ WF_vars(ChannelStep("calls", Calls!ServerMessage))
    /\ WF_vars(ChannelStep("calls", Calls!StringSent))
    /\ WF_vars(AcceptorStep("stopping", Stopping!Stop))
    /\ WF_vars(AcceptorStep("stopping", Stopping!AcceptAborted))
    /\ \A s \in {"s1", "s2"} :
         /\ WF_vars(AcceptorStep("stopping", Stopping!Unsubscribe(s)))
         /\ WF_vars(AcceptorStep("stopping", Stopping!CancelPendingChannel(s, "a")))
    /\ WF_vars(AcceptorStep("stopping", mStopped /\ Stopping!HandshakeFails(<<"c1", "a">>)))

Spec == Init /\ [][Next]_vars /\ Fairness

-------------------------------------------------------------------------------
\* The shapes of the two components' state.
TypeOK ==
    /\ part \in ChannelParts => Server!TypeOK
    /\ part = "pairing" => Pairing!TypeOK
    /\ part = "oneClient" => OneClient!TypeOK
    /\ part = "oneServer" => OneServer!TypeOK

\* Every operation completes once, in the order it was enqueued, whatever
\* mixture of completions, errors and cancels empties the queue.
FifoOnce == Server!FifoOnce

\* finalize runs once, although a late socket, a failed attempt and the answer
\* to a cancel all lead to it.
FinalizedOnce == Server!FinalizedOnce

\* No operation is started on, or left behind by, a socket that was reset.
IOHasSocket == Server!IOHasSocket

\* A closed channel is at rest: no operation in flight and no socket.
ClosedAtRest == Server!ClosedAtRest

\* The socket is handed to the queues before any operation behind the start
\* operation has completed, and never to a channel that was closed.
NoLateSocket ==
    [][handle' = "open" /\ handle # "open" => \A d \in DOMAIN done : done[d] = <<>>]_vars

\* With a peer that goes on, every close, cancel and onConnect calls its
\* completion handler.
CallsComplete == \A k \in Calls!Callbacks : part = "calls" /\ k \in user.called ~> fired[k] = 1

\* A socket is given to the channel of the session it was meant for, of the
\* name the two sides agree on.
PairedRight ==
    /\ part = "pairing" => Pairing!PairedRight
    /\ part = "oneClient" => OneClient!PairedRight
    /\ part = "oneServer" => OneServer!PairedRight

\* Once both ends are there, no channel waits while its socket does.
NoMissedMatch ==
    /\ part = "pairing" => Pairing!NoMissedMatch
    /\ part = "oneClient" => OneClient!NoMissedMatch
    /\ part = "oneServer" => OneServer!NoMissedMatch

\* No handler meets a group, session or socket that is not there.
NoThrow ==
    /\ part = "pairing" => Pairing!NoThrow
    /\ part = "oneClient" => OneClient!NoThrow
    /\ part = "oneServer" => OneServer!NoThrow

\* Exactly the groups some channel, socket or session still needs are kept.
GroupsMapped ==
    /\ part = "pairing" => Pairing!GroupsMapped
    /\ part = "oneClient" => OneClient!GroupsMapped
    /\ part = "oneServer" => OneServer!GroupsMapped

\* The two promises stop waits for are set at most once.
PromisesOnce ==
    /\ part = "pairing" => Pairing!PromisesOnce
    /\ part = "oneClient" => OneClient!PromisesOnce
    /\ part = "oneServer" => OneServer!PromisesOnce

\* stop returns: both promises it waits for are set.
StopReturns ==
    part = "stopping" /\ mStopped ~> (emptySet = 1 /\ stoppedSet = 1)
-------------------------------------------------------------------------------
\* A channel completes every operation once and in order and finalizes once.
OperationsOnce == TypeOK /\ FifoOnce /\ FinalizedOnce

\* A socket is used only while the channel has it, and given to it in time.
SocketsOwned == [](IOHasSocket /\ ClosedAtRest) /\ NoLateSocket

\* The acceptor pairs sockets with channels of the right session, misses no match,
\* meets nothing that is not there, forgets nothing and sets its promises once.
PairingRight == PairedRight /\ NoMissedMatch /\ NoThrow /\ GroupsMapped /\ PromisesOnce

\* Every blocking call of the two components ends.
CallsEnd == CallsComplete /\ StopReturns
===============================================================================
