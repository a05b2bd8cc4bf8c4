------------------------------ MODULE Channel ------------------------------
(***************************************************************************)
(* One channel of cryptoTools/Network: ChannelBase with its two operation  *)
(* queues, the StartSocketOp that obtains the socket, and the user thread. *)
(*                                                                         *)
(* Work of the channel runs on a strand: a FIFO of tasks of which one runs *)
(* at a time.  A dispatch from inside a task runs at once and is part of   *)
(* the task's action; from anywhere else it appends a task.                *)
(***************************************************************************)
EXTENDS Integers, Sequences, SequencesExt, FiniteSets

CONSTANTS Mode,        \* "client" or "server"
          MaxData,     \* data operations the user enqueues per direction
          MaxRetries,  \* failed or timed out connection attempts of a client
          UserCalls    \* which of "cancel", "close", "onConnect" the user calls

ChannelAssumption ==
    /\ Mode \in {"client", "server"}
    /\ MaxData \in Nat /\ MaxRetries \in Nat
    /\ UserCalls \subseteq {"cancel", "close", "onConnect"}

Dir == {"send", "recv"}
Callbacks == {"cancel", "close"}
Ops == {"start", "data"} \cup Callbacks

VARIABLES
    strand,     \* the tasks posted to mStrand
    queue,      \* mSendQueue, mRecvQueue
    loop,       \* mSendLoopLifetime, mRecvLoopLifetime is set
    cancelNew,  \* mSendCancelNew, mRecvCancelNew
    io,         \* what the socket does for the front data operation
    status,     \* mStatus
    handle,     \* mHandle: "none", "open" or "shut"
    start,      \* StartSocketOp: com handle status per direction, flags
    finals,     \* history: how often finalize ran
    left,       \* callbacks of a close or cancel still to run (mCount)
    fired,      \* history: how often the completion handle was called
    done,       \* history: completed operations per direction
    asked,      \* history: enqueued operations per direction
    com,        \* the handle given to onConnect
    conn,       \* the connection attempt (client) or the acceptor (server)
    user        \* the user thread

vars == <<strand, queue, loop, cancelNew, io, status, handle, start, finals,
          left, fired, done, asked, com, conn, user>>

channelVars == <<queue, loop, cancelNew, io, status, handle, left, fired, done, asked>>

Task(t) == [t |-> t]
OnDir(t, d) == [t |-> t, d |-> d]
DataDone(d, ok) == [t |-> "opDone", d |-> d, ok |-> ok]
SetSocket(sock, ok) == [t |-> "setSocket", sock |-> sock, ok |-> ok]

Empty == [d \in Dir |-> <<>>]
ClientConn == [phase |-> "connecting", timer |-> "armed", connect |-> "pending",
               ok |-> FALSE, first |-> TRUE, sock |-> "open", tries |-> 0]
ServerConn == [given |-> FALSE, request |-> FALSE, answered |-> FALSE]

Init ==
    /\ strand = <<OnDir("enqueue", "recv"), OnDir("enqueue", "send")>>
    /\ queue = [d \in Dir |-> <<"start">>]
    /\ loop = [d \in Dir |-> FALSE]
    /\ cancelNew = [d \in Dir |-> FALSE]
    /\ io = [d \in Dir |-> "none"]
    /\ status = "Normal" /\ handle = "none"
    /\ start = [com |-> [d \in Dir |-> "Uninit"], finalized |-> FALSE,
                canceled |-> FALSE, ok |-> TRUE]
    /\ finals = 0
    /\ left = [k \in Callbacks |-> 2]
    /\ fired = [k \in Callbacks |-> 0]
    /\ done = Empty /\ asked = [d \in Dir |-> <<"start">>]
    /\ com = "none"
    /\ conn = IF Mode = "client" THEN ClientConn ELSE ServerConn
    /\ user = [pc |-> <<>>, data |-> [d \in Dir |-> 0], called |-> {}]

-----------------------------------------------------------------------------
(* The queues.  A callback completes inside the task that starts it, and   *)
(* once cancelNew is set so does a data operation.                         *)

Inline(q, canceling) ==
    LET blocks == {i \in 1..Len(q) :
                     q[i] = "start" \/ (q[i] = "data" /\ ~canceling)}
    IN  IF blocks = {} THEN Len(q)
        ELSE (CHOOSE i \in blocks : \A j \in blocks : i <= j) - 1

Now(posts) == [queue |-> queue, cancelNew |-> cancelNew, popped |-> Empty, io |-> io,
               handle |-> handle, status |-> status, posts |-> posts]

\* Mutant of Final: the completion handler is called by each callback.
Final_each(k, n) == n > 0

\* Mutant of Final: the first callback does not wait for the other.
Final_any(k, n) == n > 0 /\ fired[k] = 0

\* The callback of a close or cancel counts down; n directions run it now.
Final(k, n) == n > 0 /\ left[k] = n

\* asyncPerform or cancelQueue in the directions D, from the state s of the
\* task: run what completes at once, start the operation behind it.
Advance(D, s) ==
    LET n(d)    == Inline(s.queue[d], s.cancelNew[d])
        run(d)  == SubSeq(s.queue[d], 1, n(d))
        rest(d) == SubSeq(s.queue[d], n(d) + 1, Len(s.queue[d]))
        front(d, op) == rest(d) # <<>> /\ Head(rest(d)) = op
        ran(k)  == Cardinality({d \in D : k \in ToSet(run(d))})
        starts  == SetToSeq({d \in D : front(d, "start")})
        posted(d) == <<OnDir("setHandle", d)>> \o
                     (IF s.cancelNew[d] THEN <<Task("cancelPending")>> ELSE <<>>)
    IN  /\ queue' = [d \in Dir |-> IF d \in D THEN rest(d) ELSE s.queue[d]]
        /\ cancelNew' = s.cancelNew
        /\ loop' = [d \in Dir |-> IF d \in D THEN rest(d) # <<>> ELSE loop[d]]
        /\ done' = [d \in Dir |-> done[d] \o s.popped[d] \o (IF d \in D THEN run(d) ELSE <<>>)]
        /\ io' = [d \in Dir |-> CASE d \notin D        -> s.io[d]
                                  [] front(d, "data")  -> IF d = "send" THEN "body" ELSE "header"
                                  [] OTHER             -> "none"]
        /\ left' = [k \in Callbacks |-> left[k] - ran(k)]
        /\ fired' = [k \in Callbacks |-> fired[k] + (IF Final(k, ran(k)) THEN 1 ELSE 0)]
        /\ handle' = IF \E k \in Callbacks : Final(k, ran(k)) THEN "none" ELSE s.handle
        /\ status' = IF \E k \in Callbacks : Final(k, ran(k)) THEN "Closed" ELSE s.status
        /\ strand' = s.posts \o FlattenSeq([i \in 1..Len(starts) |-> posted(starts[i])])

\* Mutant of Popped: an error leaves the operation in its queue.
Popped_kept(D, ok, s) ==
    [s EXCEPT !.queue = [d \in Dir |-> IF d \in D /\ ok THEN Tail(@[d]) ELSE @[d]],
              !.cancelNew = [d \in Dir |-> @[d] \/ (d \in D /\ ~ok)],
              !.popped = [d \in Dir |-> IF d \in D THEN <<Head(queue[d])>> ELSE <<>>]]

\* Mutant of Popped: after an error the next operation is performed.
Popped_goesOn(D, ok, s) ==
    [s EXCEPT !.queue = [d \in Dir |-> IF d \in D THEN Tail(@[d]) ELSE @[d]],
              !.popped = [d \in Dir |-> IF d \in D THEN <<Head(queue[d])>> ELSE <<>>]]

\* s after the completion of the front operations of D, which leave their queues.
Popped(D, ok, s) ==
    [s EXCEPT !.queue = [d \in Dir |-> IF d \in D THEN Tail(@[d]) ELSE @[d]],
              !.cancelNew = [d \in Dir |-> @[d] \/ (d \in D /\ ~ok)],
              !.popped = [d \in Dir |-> IF d \in D THEN <<Head(queue[d])>> ELSE <<>>]]

Running(t) == strand # <<>> /\ Head(strand).t = t
Others == Tail(strand)

-----------------------------------------------------------------------------
(* Tasks of the strand *)

\* sendEnque, recvEnque: the part inside the strand.
Enqueued ==
    /\ Running("enqueue")
    /\ LET d == Head(strand).d IN
         IF queue[d] # <<>> /\ ~loop[d]
         THEN Advance({d}, Now(Others))
         ELSE /\ strand' = Others
              /\ UNCHANGED <<queue, loop, cancelNew, io, status, handle, left, fired, done>>
    /\ UNCHANGED <<asked, start, finals, com, conn, user>>

\* The completion handler of a data operation.
OpDone ==
    /\ Running("opDone")
    /\ LET D == {Head(strand).d} IN Advance(D, Popped(D, Head(strand).ok, Now(Others)))
    /\ UNCHANGED <<asked, start, finals, com, conn, user>>

\* ChannelBase::asyncCancel: the posted part.
CancelPosted ==
    /\ Running("cancel")
    /\ LET D == {d \in Dir : ~loop[d]}
           pending == SetToSeq({d \in Dir \ D : Head(queue[d]) = "start"})
           stopped(d) == IF handle = "open" /\ io[d] \in {"header", "body"} THEN "aborted" ELSE io[d]
       IN  Advance(D, [queue |-> [d \in Dir |-> Append(queue[d], "cancel")],
                       cancelNew |-> [d \in Dir |-> TRUE], popped |-> Empty,
                       io |-> [d \in Dir |-> stopped(d)],
                       handle |-> handle, status |-> "Canceling",
                       posts |-> Others \o [i \in 1..Len(pending) |-> Task("cancelPending")]])
    /\ asked' = [d \in Dir |-> Append(asked[d], "cancel")]
    /\ UNCHANGED <<start, finals, com, conn, user>>

-----------------------------------------------------------------------------
(* StartSocketOp *)

\* Mutant of SetHandle: the start operation does not wait for the socket.
SetHandle_early ==
    /\ Running("setHandle")
    /\ start' = [start EXCEPT !.com[Head(strand).d] = "Eval"]
    /\ Advance({Head(strand).d}, Popped({Head(strand).d}, TRUE, Now(Others)))
    /\ UNCHANGED <<asked, finals, com, conn, user>>

SetHandle ==
    /\ Running("setHandle")
    /\ LET st == [start.com EXCEPT ![Head(strand).d] = "Init"]
           D  == IF start.finalized THEN {d \in Dir : st[d] = "Init"} ELSE {}
       IN  /\ start' = [start EXCEPT !.com = [d \in Dir |-> IF d \in D THEN "Eval" ELSE st[d]]]
           /\ Advance(D, Popped(D, start.ok, Now(Others)))
    /\ UNCHANGED <<asked, finals, com, conn, user>>

CancelPending ==
    /\ Running("cancelPending")
    /\ strand' = Others
    /\ IF start.finalized \/ start.canceled
       THEN UNCHANGED <<start, conn>>
       ELSE /\ start' = [start EXCEPT !.canceled = TRUE]
            /\ conn' = IF Mode = "server" THEN [conn EXCEPT !.request = TRUE]
                       ELSE [conn EXCEPT !.timer = IF @ = "armed" THEN "canceled" ELSE @,
                                         !.sock = IF @ = "open" THEN "shut" ELSE @]
    /\ UNCHANGED <<channelVars, finals, com, user>>

\* finalize, in the task of setSocket; sock is "none" for a null socket.
Finalize(sock, ok) ==
    LET D == {d \in Dir : start.com[d] = "Init"}
    IN  /\ start' = [start EXCEPT !.finalized = TRUE, !.ok = ok,
                       !.com = [d \in Dir |-> IF d \in D THEN "Eval" ELSE @[d]]]
        /\ finals' = finals + 1
        /\ com' = IF com = "queued" THEN "called" ELSE com
        /\ Advance(D, Popped(D, ok, [Now(Others) EXCEPT !.handle = sock]))

\* Mutant of SocketSet: a server takes the socket that crosses its cancel.
SocketSet_takesLate ==
    /\ Running("setSocket")
    /\ LET task == Head(strand) IN
         Finalize(IF start.canceled /\ task.sock # "none" THEN "shut" ELSE task.sock, task.ok)
    /\ UNCHANGED <<asked, conn, user>>

SocketSet ==
    /\ Running("setSocket")
    /\ LET task == Head(strand)
           late == start.canceled /\ task.sock # "none"
       IN  IF late /\ Mode = "server"
           THEN /\ strand' = Others
                /\ UNCHANGED <<queue, loop, cancelNew, io, status, handle, left, fired, done,
                               start, finals, com>>
           ELSE Finalize(IF late THEN "shut" ELSE task.sock, task.ok)
    /\ UNCHANGED <<asked, conn, user>>

\* addComHandle, the task of onConnect and waitForConnection.
ComHandle ==
    /\ Running("comHandle")
    /\ strand' = Others
    /\ com' = IF start.finalized THEN "called" ELSE "queued"
    /\ UNCHANGED <<channelVars, start, finals, conn, user>>

-----------------------------------------------------------------------------
(* The connection of a client.  The timer and the socket report outside    *)
(* the strand and dispatch a task.                                         *)

Post(task) == /\ strand' = Append(strand, task)
              /\ UNCHANGED <<channelVars, start, finals, com, user>>

\* asyncConnectToServer: a new socket, the timer and the connect are started.
Connecting(c) == [c EXCEPT !.phase = "connecting", !.timer = "armed", !.connect = "pending",
                           !.first = TRUE, !.sock = "open"]

\* The timer's handler does not look at its error code while connecting.  The
\* timeout grows with every attempt, so that it comes too early at most
\* MaxRetries times.
TimerFires ==
    /\ Mode = "client" /\ conn.timer \in {"armed", "canceled"}
    /\ conn.timer = "armed" /\ conn.phase = "connecting" /\ conn.first => conn.tries < MaxRetries
    /\ IF conn.phase = "backoff"
       THEN IF conn.timer = "canceled"
            THEN /\ conn' = [conn EXCEPT !.timer = "off", !.phase = "over"]
                 /\ Post(SetSocket("none", FALSE))
            ELSE /\ conn' = [conn EXCEPT !.timer = "fired"]
                 /\ UNCHANGED <<strand, channelVars, start, finals, com, user>>
       ELSE conn' = [conn EXCEPT !.timer = "off"] /\ Post(Task("timer"))

\* The retry timer's handler runs outside the strand: between the timer's
\* expiry and this step a cancel may come.
RetryConnects ==
    /\ Mode = "client" /\ conn.phase = "backoff" /\ conn.timer = "fired"
    /\ conn' = Connecting(conn)
    /\ UNCHANGED <<strand, channelVars, start, finals, com, user>>

SocketFails == conn.sock = "shut" \/ conn.tries < MaxRetries

ConnectReturns ==
    /\ Mode = "client" /\ conn.phase = "connecting" /\ conn.connect = "pending"
    /\ \E ok \in BOOLEAN :
         /\ ok => conn.sock = "open"
         /\ ~ok => SocketFails
         /\ conn' = [conn EXCEPT !.connect = "done"]
         /\ Post([t |-> "connected", ok |-> ok])

\* recvServerMessage ends: the character 'q', another one, or an error.
ServerMessage ==
    /\ Mode = "client" /\ conn.phase = "reading" /\ conn.connect = "pending"
    /\ \E got \in {"q", "other", "error"} :
         /\ got # "error" => conn.sock = "open"
         /\ got # "q" => SocketFails
         /\ conn' = [conn EXCEPT !.connect = "done"]
         /\ Post([t |-> "message", got |-> got])

StringSent ==
    /\ Mode = "client" /\ conn.phase = "writing" /\ conn.connect = "pending"
    /\ \E ok \in BOOLEAN :
         /\ ok => conn.sock = "open"
         /\ ~ok => SocketFails
         /\ conn' = [conn EXCEPT !.connect = "done"]
         /\ Post([t |-> "sent", ok |-> ok])

\* Mutant of RetryConnect: a canceled attempt just ends.
RetryConnect_drops(c) ==
    /\ strand' = Others
    /\ conn' = [c EXCEPT !.phase = "over"]

\* Mutant of RetryConnect: a canceled attempt reports and retries all the same.
RetryConnect_both(c) ==
    /\ strand' = IF start.canceled THEN Append(Others, SetSocket("none", FALSE)) ELSE Others
    /\ conn' = [c EXCEPT !.phase = "backoff", !.timer = "armed", !.sock = "shut"]

\* retryConnect, inside a task; c is conn after the rest of the task.
RetryConnect(c) ==
    IF start.canceled
    THEN /\ strand' = Append(Others, SetSocket("none", FALSE))
         /\ conn' = [c EXCEPT !.phase = "over"]
    ELSE /\ strand' = Others
         /\ conn' = [c EXCEPT !.phase = "backoff", !.timer = "armed", !.sock = "shut",
                              !.tries = IF @ < MaxRetries THEN @ + 1 ELSE @]

ConnectCallback(c) ==
    IF c.ok THEN /\ strand' = Others
                 /\ conn' = [c EXCEPT !.phase = "reading", !.connect = "pending"]
            ELSE RetryConnect(c)

TimerTask ==
    /\ Running("timer")
    /\ LET c == [conn EXCEPT !.first = FALSE] IN
         IF conn.first THEN strand' = Others /\ conn' = [c EXCEPT !.sock = "shut"]
                       ELSE ConnectCallback(c)
    /\ UNCHANGED <<channelVars, start, finals, com, user>>

ConnectedTask ==
    /\ Running("connected")
    /\ LET c == [conn EXCEPT !.first = FALSE, !.ok = Head(strand).ok] IN
         IF conn.first
         THEN /\ strand' = Others
              /\ conn' = [c EXCEPT !.timer = IF @ = "armed" THEN "canceled" ELSE @]
         ELSE RetryConnect(c)
    /\ UNCHANGED <<channelVars, start, finals, com, user>>

MessageTask ==
    /\ Running("message")
    /\ CASE Head(strand).got = "error" -> RetryConnect(conn)
         [] Head(strand).got = "other" -> /\ strand' = Append(Others, SetSocket("none", FALSE))
                                          /\ conn' = [conn EXCEPT !.phase = "over"]
         [] Head(strand).got = "q"     -> /\ strand' = Others
                                          /\ conn' = [conn EXCEPT !.phase = "writing",
                                                                  !.connect = "pending"]
    /\ UNCHANGED <<channelVars, start, finals, com, user>>

SentTask ==
    /\ Running("sent")
    /\ IF Head(strand).ok
       THEN /\ strand' = Append(Others, SetSocket("open", TRUE))
            /\ conn' = [conn EXCEPT !.phase = "over", !.sock = "none"]
       ELSE RetryConnect(conn)
    /\ UNCHANGED <<channelVars, start, finals, com, user>>

-----------------------------------------------------------------------------
(* The acceptor of a server, as the channel sees it *)

AcceptorGives ==
    /\ Mode = "server" /\ ~conn.given /\ ~conn.answered
    /\ conn' = [conn EXCEPT !.given = TRUE]
    /\ Post(SetSocket("open", TRUE))

AcceptorCancels ==
    /\ Mode = "server" /\ conn.request /\ ~conn.answered
    /\ conn' = [conn EXCEPT !.answered = TRUE]
    /\ Post(SetSocket("none", FALSE))

-----------------------------------------------------------------------------
(* The socket *)

IOEnds(d, ok) ==
    /\ strand' = Append(strand, DataDone(d, ok))
    /\ io' = [io EXCEPT ![d] = "reported"]
    /\ UNCHANGED <<queue, loop, cancelNew, status, handle, left, fired, done, asked,
                   start, finals, com, conn, user>>

\* The peer read or wrote all of it, or the connection broke.
PeerMoves(d) == io[d] = "body" /\ \E ok \in BOOLEAN : IOEnds(d, ok)

HeaderFails == io["recv"] = "header" /\ IOEnds("recv", FALSE)

HeaderArrives ==
    /\ io["recv"] = "header"
    /\ io' = [io EXCEPT !["recv"] = "gotHeader"]
    /\ UNCHANGED <<strand, queue, loop, cancelNew, status, handle, left, fired, done, asked,
                   start, finals, com, conn, user>>

\* The handler of the header runs outside the strand.
HeaderHandler ==
    /\ io["recv"] = "gotHeader"
    /\ \/ /\ io' = [io EXCEPT !["recv"] = "body"]
          /\ UNCHANGED <<strand, queue, loop, cancelNew, status, handle, left, fired, done, asked,
                         start, finals, com, conn, user>>
       \/ IOEnds("recv", FALSE)          \* the buffer cannot be resized

Aborted(d) == io[d] = "aborted" /\ IOEnds(d, FALSE)

-----------------------------------------------------------------------------
(* The user thread.  An enqueue pushes the operation and then dispatches.  *)

Push(d, op) == [s |-> "push", d |-> d, op |-> op]
Dispatch(d) == [s |-> "dispatch", d |-> d]
Idle == user.pc = <<>>

UserEnqueues(d) ==
    /\ Idle /\ user.called \cap Callbacks = {} /\ user.data[d] < MaxData
    /\ user' = [user EXCEPT !.pc = <<Push(d, "data"), Dispatch(d)>>, !.data[d] = @ + 1]
    /\ UNCHANGED <<strand, channelVars, start, finals, com, conn>>

UserSends == UserEnqueues("send")
UserReceives == UserEnqueues("recv")

UserPushes ==
    /\ ~Idle /\ Head(user.pc).s = "push"
    /\ LET step == Head(user.pc) IN
         /\ queue' = [queue EXCEPT ![step.d] = Append(@, step.op)]
         /\ asked' = [asked EXCEPT ![step.d] = Append(@, step.op)]
    /\ user' = [user EXCEPT !.pc = Tail(@)]
    /\ UNCHANGED <<strand, loop, cancelNew, io, status, handle, left, fired, done,
                   start, finals, com, conn>>

UserDispatches ==
    /\ ~Idle /\ Head(user.pc).s = "dispatch"
    /\ strand' = Append(strand, OnDir("enqueue", Head(user.pc).d))
    /\ user' = [user EXCEPT !.pc = Tail(@)]
    /\ UNCHANGED <<channelVars, start, finals, com, conn>>

\* A closed channel calls the handler at once.
Calls(k) == Idle /\ k \in UserCalls \ user.called

UserOnClosed(k) ==
    /\ Calls(k) /\ status = "Closed"
    /\ fired' = [fired EXCEPT ![k] = @ + 1]
    /\ user' = [user EXCEPT !.called = @ \cup {k}]
    /\ UNCHANGED <<strand, queue, loop, cancelNew, io, status, handle, left, done, asked,
                   start, finals, com, conn>>

UserCancels ==
    /\ Calls("cancel") /\ status # "Closed"
    /\ strand' = Append(strand, Task("cancel"))
    /\ user' = [user EXCEPT !.called = @ \cup {"cancel"}]
    /\ UNCHANGED <<channelVars, start, finals, com, conn>>

UserCloses ==
    /\ Calls("close") /\ status # "Closed"
    /\ status' = "Closing"
    /\ user' = [user EXCEPT !.called = @ \cup {"close"},
                  !.pc = <<Push("send", "close"), Dispatch("send"),
                           Push("recv", "close"), Dispatch("recv")>>]
    /\ UNCHANGED <<strand, queue, loop, cancelNew, io, handle, left, fired, done, asked,
                   start, finals, com, conn>>

UserOnConnect ==
    /\ Calls("onConnect")
    /\ strand' = Append(strand, Task("comHandle"))
    /\ user' = [user EXCEPT !.called = @ \cup {"onConnect"}]
    /\ UNCHANGED <<channelVars, start, finals, com, conn>>

-----------------------------------------------------------------------------
StrandStep == \/ Enqueued \/ OpDone \/ CancelPosted \/ SetHandle \/ CancelPending
              \/ SocketSet \/ ComHandle \/ TimerTask \/ ConnectedTask \/ MessageTask \/ SentTask

LocalStep == \/ StrandStep \/ TimerFires \/ RetryConnects \/ AcceptorCancels
             \/ HeaderHandler \/ \E d \in Dir : Aborted(d)
             \/ UserPushes \/ UserDispatches

PeerStep == \/ ConnectReturns \/ ServerMessage \/ StringSent \/ AcceptorGives
            \/ HeaderArrives \/ HeaderFails \/ \E d \in Dir : PeerMoves(d)

UserStep == \/ UserSends \/ UserReceives
            \/ \E k \in Callbacks : UserOnClosed(k)
            \/ UserCancels \/ UserCloses \/ UserOnConnect

Next == LocalStep \/ PeerStep \/ UserStep

\* The io threads keep running; a socket operation of which the peer answers
\* no part may wait for ever unless something closes the socket.
LocalFairness ==
    /\ WF_vars(StrandStep) /\ WF_vars(TimerFires) /\ WF_vars(RetryConnects)
    /\ WF_vars(AcceptorCancels) /\ WF_vars(HeaderHandler)
    /\ \A d \in Dir : WF_vars(Aborted(d))
    /\ WF_vars(UserPushes) /\ WF_vars(UserDispatches)
    /\ WF_vars(Mode = "client" /\ conn.sock = "shut" /\ (ConnectReturns \/ ServerMessage \/ StringSent))

PeerFairness ==
    /\ WF_vars(ConnectReturns) /\ WF_vars(ServerMessage) /\ WF_vars(StringSent)
    /\ WF_vars(AcceptorGives) /\ WF_vars(HeaderArrives)
    /\ \A d \in Dir : WF_vars(PeerMoves(d))

-----------------------------------------------------------------------------
(* Properties *)

TypeOK ==
    /\ queue \in [Dir -> Seq(Ops)] /\ loop \in [Dir -> BOOLEAN] /\ cancelNew \in [Dir -> BOOLEAN]
    /\ io \in [Dir -> {"none", "header", "gotHeader", "body", "aborted", "reported"}]
    /\ status \in {"Normal", "Closing", "Canceling", "Closed"}
    /\ handle \in {"none", "open", "shut"}
    /\ start.com \in [Dir -> {"Uninit", "Init", "Eval"}]
    /\ left \in [Callbacks -> 0..2] /\ fired \in [Callbacks -> 0..1] /\ finals \in Nat
    /\ com \in {"none", "queued", "called"}

\* Every operation completes once, in the order it was enqueued, whatever
\* mixture of completions, errors and cancels empties the queue.
FifoOnce == \A d \in Dir : done[d] \o queue[d] = asked[d]

\* finalize runs once (its assert), although a late socket, a failed attempt
\* and the answer to a cancel all lead to it.
FinalizedOnce == finals <= 1

\* A socket operation is never started on, or left behind by, a handle that
\* was reset (mHandle is dereferenced without a test).
IOHasSocket == \A d \in Dir : io[d] \in {"header", "body"} => handle = "open"

\* A closed channel is at rest: no operation in flight and no socket.
ClosedAtRest == status = "Closed" => handle = "none" /\ \A d \in Dir : io[d] = "none"

\* The socket is handed to the queues before any operation behind the start
\* operation has completed, and never to a channel that was closed.
NoLateSocket ==
    [][handle' = "open" /\ handle # "open" => \A d \in Dir : done[d] = <<>>]_vars

\* With a peer that goes on, every close, cancel and onConnect calls its
\* completion handler, and with it every operation is over.
CallsComplete ==
    /\ \A k \in Callbacks : k \in user.called ~> fired[k] = 1
    /\ "onConnect" \in user.called ~> com = "called"

Spec == Init /\ [][Next]_vars /\ LocalFairness /\ PeerFairness
=============================================================================
