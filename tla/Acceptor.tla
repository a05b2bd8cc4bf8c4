------------------------------ MODULE Acceptor ------------------------------
(***************************************************************************)
(* The acceptor of cryptoTools/Network (IOService.cpp): it pairs the       *)
(* sockets of client sessions with the channels of local sessions.  All    *)
(* sessions here carry the same name, so that the pairing is by channel    *)
(* names first and by the client's session ID afterwards.                  *)
(*                                                                         *)
(* An action is one task of the acceptor's strand.  The user of a session  *)
(* creates its channels before it stops the session, and cancels a channel *)
(* after creating it; the strand keeps that order.                         *)
(***************************************************************************)
EXTENDS Integers, Sequences, SequencesExt, FiniteSets

CONSTANTS Sessions,   \* local (server) sessions
          Clients,    \* session IDs of the remote sessions
          Names,      \* channel names
          NoSession, NoId,
          MaxFails,   \* handshakes that fail, sockets then connect again
          BindFails,  \* may the port be taken
          MayStop     \* does the IOService stop while sessions still start

AcceptorAssumption ==
    /\ NoSession \notin Sessions /\ NoId \notin Clients
    /\ MaxFails \in Nat /\ BindFails \in BOOLEAN /\ MayStop \in BOOLEAN

VARIABLES
    session,    \* the SessionBase: "new", "on", "failed", "refused" or "off"
    group,      \* its SessionGroup: exists, base is alive, mChannels, mSockets
    mGroups, mSessionID,
    mUnclaimedGroups, mClaimedGroups,
    mUnclaimedSockets, mSockets,
    listening, bound,      \* mListening, mHandle is open and bound
    mStopped,
    accepting,  \* outstanding async_accept operations
    shaking,    \* mPendingSockets with a connection, by client and name
    fails,
    created, canceled, handed,     \* history: channels and what they got
    emptySet, stoppedSet           \* history: how often the promises were set

pairing == <<group, mGroups, mSessionID, mUnclaimedGroups, mClaimedGroups,
             mUnclaimedSockets, mSockets, handed>>
stopping == <<listening, bound, stoppedSet>>
vars == <<session, pairing, stopping, mStopped, accepting, shaking, fails,
          created, canceled, emptySet>>

NoGroup == [exists |-> FALSE, base |-> FALSE, chls |-> {}, socks |-> {}]

Init ==
    /\ session = [s \in Sessions |-> "new"]
    /\ group = [s \in Sessions |-> NoGroup]
    /\ mGroups = {} /\ mSessionID = [s \in Sessions |-> NoId]
    /\ mUnclaimedGroups = <<>> /\ mClaimedGroups = [c \in Clients |-> NoSession]
    /\ mUnclaimedSockets = <<>> /\ mSockets = [c \in Clients |-> {}]
    /\ listening = FALSE /\ bound = FALSE /\ mStopped = FALSE
    /\ accepting = 0 /\ shaking = {} /\ fails = 0
    /\ created = {} /\ canceled = {} /\ handed = {}
    /\ emptySet = 0 /\ stoppedSet = 0

Without(seq, x) == SelectSeq(seq, LAMBDA y : y # x)
Subscribed(g) == g.chls # {} \/ g.base
HasSubscriptions(groups, live) == \E s \in live : Subscribed(groups[s])

\* Mutant of StopListening: subscriptions are not looked at.
StopListening_always(groups, live) ==
    /\ listening' = FALSE /\ bound' = FALSE
    /\ stoppedSet' = stoppedSet + (IF mStopped THEN 1 ELSE 0)

\* stopListening, called when the groups are `live` with the contents `groups`.
StopListening(groups, live) ==
    IF HasSubscriptions(groups, live)
    THEN UNCHANGED stopping
    ELSE /\ listening' = FALSE /\ bound' = FALSE
         /\ stoppedSet' = stoppedSet + (IF mStopped THEN 1 ELSE 0)

\* removeMapping and the erasure from mGroups, then stopListening.
RemoveGroup(s, groups) ==
    /\ mGroups' = mGroups \ {s}
    /\ mUnclaimedGroups' = Without(mUnclaimedGroups, s)
    /\ mClaimedGroups' = [c \in Clients |-> IF mClaimedGroups[c] = s THEN NoSession
                                            ELSE mClaimedGroups[c]]
    /\ StopListening(groups, mGroups \ {s})

Keep == UNCHANGED <<mGroups, mUnclaimedGroups, mClaimedGroups, stopping>>

\* The group of s becomes g: it is removed when nobody is subscribed to it.
Settle(s, g) ==
    LET groups == [group EXCEPT ![s] = g] IN
    /\ group' = groups
    /\ IF Subscribed(g) THEN Keep ELSE RemoveGroup(s, groups)

\* SessionGroup::add for a socket, for a channel.
AddSocket(g, n) == IF n \in g.chls THEN [g EXCEPT !.chls = @ \ {n}]
                                   ELSE [g EXCEPT !.socks = @ \cup {n}]
AddChannel(g, n) == IF n \in g.socks THEN [g EXCEPT !.socks = @ \ {n}]
                                     ELSE [g EXCEPT !.chls = @ \cup {n}]

\* Mutant of Merge: the session stays among the unclaimed ones.
Merge_unclaimed(s, g, c, socks) ==
    LET merged == [g EXCEPT !.chls = @ \ socks, !.socks = socks \ g.chls] IN
    /\ group' = [group EXCEPT ![s] = merged]
    /\ handed' = handed \cup {[s |-> s, n |-> n, c |-> c] : n \in socks \cap g.chls}
    /\ mSessionID' = [mSessionID EXCEPT ![s] = c]
    /\ mSockets' = [mSockets EXCEPT ![c] = {}]
    /\ mUnclaimedSockets' = Without(mUnclaimedSockets, c)
    /\ UNCHANGED <<mUnclaimedGroups, mClaimedGroups, mGroups, stopping>>

\* Mutant of Merge: the sockets keep their mapping.
Merge_mapped(s, g, c, socks) ==
    LET merged == [g EXCEPT !.chls = @ \ socks, !.socks = socks \ g.chls] IN
    /\ group' = [group EXCEPT ![s] = merged]
    /\ handed' = handed \cup {[s |-> s, n |-> n, c |-> c] : n \in socks \cap g.chls}
    /\ mSessionID' = [mSessionID EXCEPT ![s] = c]
    /\ mSockets' = [mSockets EXCEPT ![c] = {}]
    /\ mUnclaimedGroups' = Without(mUnclaimedGroups, s)
    /\ mClaimedGroups' = [mClaimedGroups EXCEPT ![c] = s]
    /\ UNCHANGED <<mUnclaimedSockets, mGroups, stopping>>

\* SessionGroup::merge with the sockets of client c, and what both callers do
\* after it: the session is claimed by c, or removed.
Merge(s, g, c, socks) ==
    LET merged == [g EXCEPT !.chls = @ \ socks, !.socks = socks \ g.chls]
        groups == [group EXCEPT ![s] = merged]
    IN  /\ group' = groups
        /\ handed' = handed \cup {[s |-> s, n |-> n, c |-> c] : n \in socks \cap g.chls}
        /\ mSessionID' = [mSessionID EXCEPT ![s] = c]
        /\ mSockets' = [mSockets EXCEPT ![c] = {}]
        /\ mUnclaimedSockets' = Without(mUnclaimedSockets, c)
        /\ IF Subscribed(merged)
           THEN /\ mUnclaimedGroups' = Without(mUnclaimedGroups, s)
                /\ mClaimedGroups' = [mClaimedGroups EXCEPT ![c] = s]
                /\ UNCHANGED <<mGroups, stopping>>
           ELSE RemoveGroup(s, groups)

FirstMatch(seq, Test(_)) == SelectInSeq(seq, Test)

-----------------------------------------------------------------------------
(* Sessions and channels *)

\* Session::start, aquireAcceptor, asyncSubscribe.
Subscribe(s) ==
    /\ session[s] = "new" /\ (mStopped => MayStop)
    /\ \E bindOk \in {TRUE} \cup {~BindFails} :
         IF mStopped
         THEN /\ session' = [session EXCEPT ![s] = "refused"]
              /\ UNCHANGED <<group, mGroups, mUnclaimedGroups, listening, bound, accepting>>
         ELSE /\ session' = [session EXCEPT ![s] = IF listening \/ bindOk THEN "on" ELSE "failed"]
              /\ group' = [group EXCEPT ![s] = [NoGroup EXCEPT !.exists = TRUE, !.base = TRUE]]
              /\ mGroups' = mGroups \cup {s}
              /\ mUnclaimedGroups' = Append(mUnclaimedGroups, s)
              /\ listening' = TRUE
              /\ bound' = IF listening THEN bound ELSE bindOk
              /\ accepting' = IF ~listening /\ bindOk THEN accepting + 1 ELSE accepting
    /\ UNCHANGED <<mSessionID, mClaimedGroups, mUnclaimedSockets, mSockets, handed, stoppedSet,
                   mStopped, shaking, fails, created, canceled, emptySet>>

\* Mutant of Unsubscribe: the group stays.
Unsubscribe_keeps(s) ==
    /\ session[s] \in {"on", "failed", "refused"} /\ group[s].exists
    /\ session' = [session EXCEPT ![s] = "off"]
    /\ group' = [group EXCEPT ![s].base = FALSE]
    /\ Keep
    /\ UNCHANGED <<mSessionID, mUnclaimedSockets, mSockets, handed, mStopped, accepting,
                   shaking, fails, created, canceled, emptySet>>

\* SessionBase::stop, called by the user or by the destructor of a session
\* whose start failed; unsubscribe.
Unsubscribe(s) ==
    /\ session[s] \in {"on", "failed", "refused"}
    /\ session' = [session EXCEPT ![s] = "off"]
    /\ group[s].exists
    /\ LET g == [group[s] EXCEPT !.base = FALSE] IN
         \/ /\ Subscribed(g)
            /\ group' = [group EXCEPT ![s] = g]
            /\ Keep
         \/ ~Subscribed(g) /\ Settle(s, g)
    /\ UNCHANGED <<mSessionID, mUnclaimedSockets, mSockets, handed, mStopped, accepting,
                   shaking, fails, created, canceled, emptySet>>

\* Session::addChannel, asyncGetSocket.
AsyncGetSocket(s, n) ==
    /\ session[s] = "on" /\ <<s, n>> \notin created /\ ~mStopped
    /\ created' = created \cup {<<s, n>>}
    /\ LET g == AddChannel(group[s], n)
           match(c) == n \in mSockets[c]
           i == FirstMatch(mUnclaimedSockets, match)
       IN  IF mSessionID[s] # NoId
           THEN /\ Settle(s, g)
                /\ handed' = IF n \in g.chls THEN handed
                             ELSE handed \cup {[s |-> s, n |-> n, c |-> mSessionID[s]]}
                /\ UNCHANGED <<mSessionID, mUnclaimedSockets, mSockets>>
           ELSE IF i = 0
           THEN /\ group' = [group EXCEPT ![s] = g]
                /\ Keep
                /\ UNCHANGED <<mSessionID, mUnclaimedSockets, mSockets, handed>>
           ELSE Merge(s, g, mUnclaimedSockets[i], mSockets[mUnclaimedSockets[i]])
    /\ UNCHANGED <<session, mStopped, accepting, shaking, fails, canceled, emptySet>>

Got(s, n) == \E h \in handed : h.s = s /\ h.n = n

\* Mutant of CancelPendingChannel: the group is not looked at afterwards.
CancelPendingChannel_keeps(s, n) ==
    /\ <<s, n>> \in created \ canceled
    /\ canceled' = canceled \cup {<<s, n>>}
    /\ group' = [group EXCEPT ![s].chls = @ \ {n}]
    /\ Keep
    /\ UNCHANGED <<session, mSessionID, mUnclaimedSockets, mSockets, handed, mStopped,
                   accepting, shaking, fails, created, emptySet>>

\* cancelPendingChannel: the channel may have got its socket meanwhile.
CancelPendingChannel(s, n) ==
    /\ <<s, n>> \in created \ canceled
    /\ canceled' = canceled \cup {<<s, n>>}
    /\ IF n \in group[s].chls
       THEN Settle(s, [group[s] EXCEPT !.chls = @ \ {n}])
       ELSE UNCHANGED group /\ Keep
    /\ UNCHANGED <<session, mSessionID, mUnclaimedSockets, mSockets, handed, mStopped,
                   accepting, shaking, fails, created, emptySet>>

-----------------------------------------------------------------------------
(* Sockets *)

\* getSocketGroup: the unclaimed groups, with one for client c.
GetSocketGroup(c) == IF c \in ToSet(mUnclaimedSockets) THEN mUnclaimedSockets
                     ELSE Append(mUnclaimedSockets, c)

\* Mutant of AsyncSetSocket: only the first socket of a client looks for a session.
AsyncSetSocket_first(c, n) ==
    LET s == mClaimedGroups[c]
        waits(x) == n \in group[x].chls
        i == FirstMatch(mUnclaimedGroups, waits)
        known == c \in ToSet(mUnclaimedSockets)
        socks == mSockets[c] \cup {n}
    IN  IF s # NoSession
        THEN /\ Settle(s, AddSocket(group[s], n))
             /\ handed' = IF n \in group[s].chls
                          THEN handed \cup {[s |-> s, n |-> n, c |-> c]} ELSE handed
             /\ UNCHANGED <<mSessionID, mUnclaimedSockets, mSockets>>
        ELSE IF i = 0 \/ known
        THEN /\ mSockets' = [mSockets EXCEPT ![c] = socks]
             /\ mUnclaimedSockets' = GetSocketGroup(c)
             /\ UNCHANGED <<group, mSessionID, handed>> /\ Keep
        ELSE Merge(mUnclaimedGroups[i], group[mUnclaimedGroups[i]], c, socks)

\* asyncSetSocket, for a socket of client c that names the channel n.
AsyncSetSocket(c, n) ==
    LET s == mClaimedGroups[c]
        waits(x) == n \in group[x].chls
        i == FirstMatch(mUnclaimedGroups, waits)
        socks == mSockets[c] \cup {n}
    IN  IF s # NoSession
        THEN /\ Settle(s, AddSocket(group[s], n))
             /\ handed' = IF n \in group[s].chls
                          THEN handed \cup {[s |-> s, n |-> n, c |-> c]} ELSE handed
             /\ UNCHANGED <<mSessionID, mUnclaimedSockets, mSockets>>
        ELSE IF i = 0
        THEN /\ mSockets' = [mSockets EXCEPT ![c] = socks]
             /\ mUnclaimedSockets' = GetSocketGroup(c)
             /\ UNCHANGED <<group, mSessionID, handed>> /\ Keep
        ELSE Merge(mUnclaimedGroups[i], group[mUnclaimedGroups[i]], c, socks)

\* erasePendingSocket: p sockets remain pending.
ErasePendingSocket(p) == emptySet' = emptySet + (IF mStopped /\ p = 0 THEN 1 ELSE 0)

Pending == accepting + Cardinality(shaking)
Stored == {<<c, n>> \in Clients \X Names : n \in mSockets[c]}
InGroups == {<<c, n>> \in Clients \X Names :
                \E s \in mGroups : mSessionID[s] = c /\ n \in group[s].socks}
Given == {<<h.c, h.n>> : h \in handed}

\* async_accept returns with a connection; start() listens with a new socket.
Accept(c, n) ==
    /\ bound /\ accepting > 0
    /\ <<c, n>> \notin shaking \cup Stored \cup InGroups \cup Given
    /\ accepting' = IF listening THEN accepting ELSE accepting - 1
    /\ shaking' = shaking \cup {<<c, n>>}
    /\ UNCHANGED <<session, pairing, stopping, mStopped, fails, created, canceled, emptySet>>

\* async_accept is aborted by the close of mHandle, and still calls start().
AcceptAborted ==
    /\ ~bound /\ accepting > 0
    /\ accepting' = IF listening THEN accepting ELSE accepting - 1
    /\ ErasePendingSocket(Pending - 1)
    /\ UNCHANGED <<session, pairing, stopping, mStopped, shaking, fails, created, canceled>>

\* sendServerMessage, recvConnectionString: an error on the way.
HandshakeFails(x) ==
    /\ x \in shaking
    /\ mStopped \/ fails < MaxFails
    /\ fails' = IF mStopped THEN fails ELSE fails + 1
    /\ shaking' = shaking \ {x}
    /\ ErasePendingSocket(Pending - 1)
    /\ UNCHANGED <<session, pairing, stopping, mStopped, accepting, created, canceled>>

\* The connection string is complete.  Its handler may have been queued before
\* stop closed the socket.
HandshakeDone(x) ==
    /\ x \in shaking
    /\ shaking' = shaking \ {x}
    /\ AsyncSetSocket(x[1], x[2])
    /\ ErasePendingSocket(Pending - 1)
    /\ UNCHANGED <<session, mStopped, accepting, fails, created, canceled>>

\* Mutant of Stop: pending sockets are not waited for.
Stop_hurried ==
    /\ ~mStopped /\ (MayStop \/ \A s \in Sessions : session[s] # "new")
    /\ mStopped' = TRUE /\ listening' = FALSE /\ bound' = FALSE
    /\ emptySet' = emptySet + 1
    /\ stoppedSet' = stoppedSet + (IF HasSubscriptions(group, mGroups) THEN 0 ELSE 1)
    /\ UNCHANGED <<session, pairing, accepting, shaking, fails, created, canceled>>

\* IOService::stop, Acceptor::stop: the part inside the strand.
Stop ==
    /\ ~mStopped /\ (MayStop \/ \A s \in Sessions : session[s] # "new")
    /\ mStopped' = TRUE /\ listening' = FALSE /\ bound' = FALSE
    /\ emptySet' = emptySet + (IF Pending = 0 THEN 1 ELSE 0)
    /\ stoppedSet' = stoppedSet + (IF HasSubscriptions(group, mGroups) THEN 0 ELSE 1)
    /\ UNCHANGED <<session, pairing, accepting, shaking, fails, created, canceled>>

-----------------------------------------------------------------------------
SessionStep == \E s \in Sessions :
    \/ Subscribe(s) \/ Unsubscribe(s)
    \/ \E n \in Names : AsyncGetSocket(s, n) \/ CancelPendingChannel(s, n)

SocketStep == \/ \E c \in Clients, n \in Names : Accept(c, n)
              \/ AcceptAborted
              \/ \E x \in Clients \X Names : HandshakeFails(x) \/ HandshakeDone(x)

Next == SessionStep \/ SocketStep \/ Stop

\* Sessions are stopped and pending channels canceled by their owners; the
\* io threads run every handler, and stop closes the pending sockets.
Fairness ==
    /\ WF_vars(Stop) /\ WF_vars(AcceptAborted)
    /\ \A s \in Sessions : WF_vars(Unsubscribe(s)) /\
         \A n \in Names : WF_vars(CancelPendingChannel(s, n))
    /\ \A x \in Clients \X Names : WF_vars(mStopped /\ HandshakeFails(x))

Spec == Init /\ [][Next]_vars /\ Fairness

-----------------------------------------------------------------------------
(* Properties *)

TypeOK ==
    /\ mGroups \subseteq Sessions /\ mSessionID \in [Sessions -> Clients \cup {NoId}]
    /\ mUnclaimedGroups \in Seq(Sessions) /\ mUnclaimedSockets \in Seq(Clients)
    /\ mClaimedGroups \in [Clients -> Sessions \cup {NoSession}]
    /\ mSockets \in [Clients -> SUBSET Names]
    /\ accepting \in Nat /\ shaking \subseteq Clients \X Names
    /\ emptySet \in 0..1 /\ stoppedSet \in 0..1

\* A socket goes to one channel, of its own name; a channel gets one socket;
\* and all sockets of a session come from one remote session.
PairedRight ==
    /\ \A h, k \in handed : h.s = k.s /\ h.n = k.n => h = k
    /\ \A h, k \in handed : h.c = k.c /\ h.n = k.n => h = k
    /\ \A h, k \in handed : h.s = k.s => h.c = k.c
    /\ (Stored \cup InGroups) \cap Given = {}

\* No match is missed: no channel waits while a socket that it could have is
\* stored with its session or in a group nobody has claimed.
NoMissedMatch ==
    /\ \A s \in mGroups : group[s].chls \cap group[s].socks = {}
    /\ \A i \in 1..Len(mUnclaimedGroups), j \in 1..Len(mUnclaimedSockets) :
         group[mUnclaimedGroups[i]].chls \cap mSockets[mUnclaimedSockets[j]] = {}

\* The exceptions in merge and at the insertions into mClaimedGroups cannot
\* happen: an unclaimed session has no ID and no sockets, and a client with an
\* unclaimed socket group has claimed no session.
NoThrow ==
    /\ \A i \in 1..Len(mUnclaimedGroups) :
         LET s == mUnclaimedGroups[i] IN mSessionID[s] = NoId /\ group[s].socks = {}
    /\ \A c \in ToSet(mUnclaimedSockets) : mClaimedGroups[c] = NoSession
    /\ \A c \in Clients : mClaimedGroups[c] # NoSession => mSessionID[mClaimedGroups[c]] = c

\* A group is kept, under exactly one mapping, as long as someone is
\* subscribed to it.
GroupsMapped ==
    \A s \in Sessions :
      /\ s \in mGroups <=> Subscribed(group[s])
      /\ s \in mGroups => (s \in ToSet(mUnclaimedGroups) <=> mSessionID[s] = NoId)
      /\ s \notin mGroups => /\ s \notin ToSet(mUnclaimedGroups)
                             /\ \A c \in Clients : mClaimedGroups[c] # s

\* Each promise is set once (setting it again throws), and the promises of a
\* stopped acceptor are set exactly when nothing is left to wait for.
PromisesOnce ==
    /\ emptySet = IF mStopped /\ Pending = 0 THEN 1 ELSE 0
    /\ stoppedSet = IF mStopped /\ ~HasSubscriptions(group, mGroups) THEN 1 ELSE 0

\* stop() returns once the sessions are stopped and their channels matched or
\* canceled, whatever connections are half way through the handshake.
StopReturns == mStopped ~> (emptySet = 1 /\ stoppedSet = 1)

=============================================================================
