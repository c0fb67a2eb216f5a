---------------------------- MODULE RpcTransport ----------------------------
(***************************************************************************)
(* The link between a client and the daemon                                *)
(* (crates/omnish-transport/src/rpc_client.rs, rpc_server.rs) and the two  *)
(* users of it that depend on how it fails: the client's reconnect         *)
(* callback and its buffer of unsent frames (crates/omnish-client/main.rs).*)
(*                                                                         *)
(* A connection c has a write task (writer, queue wq), a read task         *)
(* (reader), the map of pending replies they share (pend) and the flag     *)
(* connected.  cur is the connection inside the shared RpcClient, temp the *)
(* one the reconnect loop is setting up.  A request is a pair: a frame of  *)
(* the client itself is <<f, 0>>, one that the reconnect callback makes on *)
(* connection c is <<f, c>>; the code's next_id gives each its number.     *)
(***************************************************************************)
EXTENDS Integers, Sequences, SequencesExt

CONSTANTS
    Sends,      \* frames of send_or_buffer: IoData, CommandComplete, ...
    Calls,      \* frames of call: one reply
    Streams,    \* frames of call_stream: replies, then the end of the stream
    MaxConn,    \* connections made, one after another
    QueueCap,   \* write queue (256 in the code)
    PushCap,    \* channel of pushed messages (64)
    MaxPush,    \* messages the daemon pushes
    MaxBuffer,  \* MAX_BUFFER_SIZE (10 000)
    MaxReplies  \* bound on the messages of a stream

ASSUME CapsAssumption ==
    /\ MaxConn \in Nat \ {0} /\ QueueCap \in Nat \ {0} /\ MaxBuffer \in Nat \ {0}
    /\ PushCap \in Nat /\ MaxPush \in Nat /\ MaxReplies \in Nat \ {0}

ASSUME FramesAssumption ==
    /\ Sends \cap (Calls \cup Streams) = {} /\ Calls \cap Streams = {}
    /\ {"auth", "start", "push"} \cap (Sends \cup Calls \cup Streams) = {}

Conn     == 1 .. MaxConn
Frames   == Sends \cup Calls \cup Streams
Own      == {<<f, 0>> : f \in Frames}
Callback == {<<f, c>> : f \in Sends \cup {"auth", "start"}, c \in Conn}
Id       == Own \cup Callback
PushId   == <<"push", 0>>

VARIABLES
    st, via,                               \* the callers; via[f]: whose tx f holds
    buffer, todo,                          \* unsent frames; those being replayed
    cur, temp, conns, handed, rl,          \* RpcClient and reconnect_loop
    connected, wq, writer, reader, pend, pushq,  \* per connection: the client
    wire, back, srv, torn, tasks,    \* per connection: network and server
    pushes, handled, late                  \* environment and history

callers == <<st, via>>
unsent  == <<buffer, todo>>
loop    == <<cur, temp, conns, handed, rl>>
local   == <<connected, wq, writer, reader, pend, pushq>>
remote  == <<wire, back, srv, torn, tasks>>
history == <<pushes, handled, late>>
vars    == <<callers, unsent, loop, local, remote, history>>

Kind(id) == IF id \in Own /\ id[1] \in Sends THEN "send"
            ELSE IF id[1] \in Streams THEN "stream" ELSE "call"

ConnOf(id) == IF id \in Own THEN via[id[1]] ELSE id[2]

All(x) == [c \in Conn |-> x]

Init ==
    /\ st = [id \in Id |-> "new"] /\ via = [f \in Frames |-> 0]
    /\ buffer = <<>> /\ todo = <<>>
    /\ cur = 0 /\ temp = 0 /\ conns = 0 /\ handed = FALSE /\ rl = "init"
    /\ connected = All(FALSE) /\ wq = All(<<>>) /\ pend = All({})
    /\ writer = All("none") /\ reader = All("none") /\ pushq = All(0)
    /\ wire = All(<<>>) /\ back = All(<<>>) /\ srv = All("none")
    /\ torn = All(FALSE) /\ tasks = All({})
    /\ pushes = 0 /\ handled = [f \in Frames |-> 0] /\ late = {}

-----------------------------------------------------------------------------
(* Callers.                                                                *)

(* send_or_buffer, after a failed send: the oldest frame makes room.       *)
Buffered(f) ==
    Append(IF Len(buffer) >= MaxBuffer THEN Tail(buffer) ELSE buffer, f)

Failed(f) ==
    /\ st' = [st EXCEPT ![<<f, 0>>] = "err"]
    /\ buffer' = IF f \in Sends THEN Buffered(f) ELSE buffer

(* call, send and call_stream up to the release of the lock on inner: the  *)
(* connection is up and its queue's sender is cloned, or the call fails.   *)
Begin(f) ==
    /\ handed /\ st[<<f, 0>>] = "new"
    /\ \/ /\ cur # 0 /\ connected[cur]
          /\ st' = [st EXCEPT ![<<f, 0>>] = "ready"]
          /\ via' = [via EXCEPT ![f] = cur]
          /\ UNCHANGED buffer
       \/ /\ cur # 0 => ~connected[cur]
          /\ Failed(f)
          /\ UNCHANGED via
    /\ UNCHANGED <<todo, loop, local, remote, history>>

(* tx.send: waits for room in the queue, fails when the write task ended.  *)
Enqueue(id) ==
    LET c == ConnOf(id)
    IN  /\ st[id] = "ready" /\ writer[c] # "exited" /\ Len(wq[c]) < QueueCap
        /\ wq' = [wq EXCEPT ![c] = Append(@, id)]
        /\ st' = [st EXCEPT ![id] = IF Kind(id) = "send" THEN "ok" ELSE "blocked"]
        /\ UNCHANGED <<via, unsent, loop, connected, writer, reader, pend, pushq,
                       remote, history>>

WriteTaskClosed(id) ==
    /\ st[id] = "ready" /\ writer[ConnOf(id)] = "exited"
    /\ IF id \in Own THEN Failed(id[1])
       ELSE st' = [st EXCEPT ![id] = "err"] /\ UNCHANGED buffer
    /\ UNCHANGED <<via, todo, loop, local, remote, history>>

(* The main loop reads pushed messages, but not while a chat runs in it.   *)
PollPush ==
    /\ cur # 0 /\ pushq[cur] > 0
    /\ \A f \in Streams : st[<<f, 0>>] \notin {"ready", "blocked"}
    /\ pushq' = [pushq EXCEPT ![cur] = 0]
    /\ UNCHANGED <<callers, unsent, loop, connected, wq, writer, reader, pend,
                   remote, history>>

-----------------------------------------------------------------------------
(* write_loop.                                                             *)

(* Callers whose reply sender is dropped are woken with an error.          *)
Wake(ids) == st' = [id \in Id |-> IF id \in ids /\ st[id] = "blocked" THEN "err" ELSE st[id]]

(* Who still holds a sender of c's queue: an Inner, a caller in tx.send,   *)
(* and a caller in call, whose clone lives until it returns.               *)
TxAlive(c) ==
    \/ c \in {cur, temp}
    \/ \E id \in Id : /\ ConnOf(id) = c
                      /\ st[id] = "ready" \/ (st[id] = "blocked" /\ Kind(id) = "call")

(* The head of the queue is entered into the map and written.  A frame     *)
(* written after the peer closed goes nowhere, or the write fails: that    *)
(* depends on the socket and on how it was closed.                         *)
WriteFrame(c) ==
    LET id == Head(wq[c])
    IN  /\ writer[c] = "run" /\ wq[c] # <<>>
        /\ wq' = [wq EXCEPT ![c] = Tail(@)]
        /\ pend' = [pend EXCEPT ![c] = IF Kind(id) = "send" THEN @ ELSE @ \cup {id}]
        /\ late' = IF reader[c] = "done" THEN late \cup {id} ELSE late
        /\ wire' = IF srv[c] = "closed" THEN wire
                   ELSE [wire EXCEPT ![c] = Append(@, id)]
        /\ UNCHANGED <<callers, unsent, loop, connected, writer, reader, pushq, back,
                       srv, torn, tasks, pushes, handled>>

(* The write task ends: the queue and the pending map are dropped.         *)
WriteExit(c) ==
    /\ writer' = [writer EXCEPT ![c] = "exited"]
    /\ wq' = [wq EXCEPT ![c] = <<>>]
    /\ pend' = [pend EXCEPT ![c] = {}]
    /\ Wake(pend[c] \cup Range(wq[c]))
    /\ UNCHANGED <<via, unsent, loop, reader, pushq, remote, history>>

WriteFails(c) ==
    /\ writer[c] = "run" /\ wq[c] # <<>> /\ srv[c] = "closed" /\ tasks[c] = {}
    /\ connected' = [connected EXCEPT ![c] = FALSE]
    /\ WriteExit(c)

WriteQueueClosed(c) ==
    /\ writer[c] = "run" /\ wq[c] = <<>> /\ ~TxAlive(c)
    /\ WriteExit(c)
    /\ UNCHANGED connected

-----------------------------------------------------------------------------
(* read_loop.                                                              *)

(* Pushed messages wait for room in their channel, if it is still read.    *)
ReadPush(c) ==
    /\ reader[c] = "run" /\ back[c] # <<>> /\ Head(back[c])[1] = PushId
    /\ back' = [back EXCEPT ![c] = Tail(@)]
    /\ \/ /\ c \in {cur, temp} /\ pushq[c] < PushCap
          /\ pushq' = [pushq EXCEPT ![c] = @ + 1]
       \/ /\ c \notin {cur, temp}
          /\ UNCHANGED pushq
    /\ UNCHANGED <<callers, unsent, loop, connected, wq, writer, reader, pend, wire,
                   srv, torn, tasks, history>>

(* A reply with nobody waiting for it, as to every send, is dropped.  A    *)
(* stream's entry goes with its end, or when its reader has gone.          *)
ReadReply(c) ==
    /\ reader[c] = "run" /\ back[c] # <<>> /\ Head(back[c])[1] # PushId
    /\ back' = [back EXCEPT ![c] = Tail(@)]
    /\ LET id == Head(back[c])[1]  m == Head(back[c])[2]
           waiting == id \in pend[c] /\ st[id] = "blocked"
           over    == Kind(id) = "call" \/ m = "ack" \/ ~waiting
           answer  == IF m = "no" THEN "refused" ELSE "ok"
       IN  /\ pend' = [pend EXCEPT ![c] = IF over THEN @ \ {id} ELSE @]
           /\ st' = IF waiting /\ (over \/ m = "final")
                    THEN [st EXCEPT ![id] = answer] ELSE st
    /\ UNCHANGED <<via, unsent, loop, connected, wq, writer, reader, pushq, wire, srv,
                   torn, tasks, history>>

ReadEof(c) ==
    /\ reader[c] = "run" /\ back[c] = <<>> /\ srv[c] = "closed" /\ tasks[c] = {}
    /\ reader' = [reader EXCEPT ![c] = "eof"]
    /\ connected' = [connected EXCEPT ![c] = FALSE]
    /\ UNCHANGED <<callers, unsent, loop, wq, writer, pend, pushq, remote, history>>

(* Mutant: the pending map is left to the write task.                      *)
ReadLeavesPending(c) ==
    /\ reader[c] = "eof"
    /\ reader' = [reader EXCEPT ![c] = "done"]
    /\ UNCHANGED <<callers, unsent, loop, connected, wq, writer, pend, pushq, remote,
                   history>>

(* The pending map is cleared, the reconnect loop is told.                 *)
ReadClear(c) ==
    /\ reader[c] = "eof"
    /\ reader' = [reader EXCEPT ![c] = "done"]
    /\ pend' = [pend EXCEPT ![c] = {}]
    /\ Wake(pend[c])
    /\ UNCHANGED <<via, unsent, loop, connected, wq, writer, pushq, remote, history>>

-----------------------------------------------------------------------------
(* spawn_connection, the server's task of a connection.                    *)

(* The first frame authenticates.  A client of another protocol version is *)
(* refused but stays connected; a wrong token is refused and closed.       *)
Authenticate(c) ==
    /\ srv[c] = "auth" /\ wire[c] # <<>>
    /\ wire' = [wire EXCEPT ![c] = Tail(@)]
    /\ \E m \in {"yes", "no"}, s \in {"run", "closed"} :
          /\ s = "closed" => m = "no"
          /\ back' = [back EXCEPT ![c] = Append(@, <<Head(wire[c]), m>>)]
          /\ srv' = [srv EXCEPT ![c] = s]
    /\ UNCHANGED <<callers, unsent, loop, local, torn, tasks, history>>

(* A whole frame: its handler starts in a task of its own.                 *)
ReadFrame(c) ==
    LET id == Head(wire[c])
    IN  /\ srv[c] = "run" /\ wire[c] # <<>> /\ ~torn[c]
        /\ wire' = [wire EXCEPT ![c] = Tail(@)]
        /\ tasks' = [tasks EXCEPT ![c] = @ \cup {<<id, 0>>}]
        /\ handled' = IF id[1] \in Frames THEN [handled EXCEPT ![id[1]] = @ + 1]
                      ELSE handled
        /\ UNCHANGED <<callers, unsent, loop, local, back, srv, torn, pushes, late>>

(* A pushed message wins the select!: the future of read_frame_bytes is    *)
(* dropped.  If it had read part of a frame, that part is gone, and from   *)
(* then on the server takes the middle of a frame for the start of one.    *)
Push(c) ==
    /\ srv[c] = "run" /\ pushes < MaxPush
    /\ pushes' = pushes + 1
    /\ back' = [back EXCEPT ![c] = Append(@, <<PushId, "msg">>)]
    /\ \/ UNCHANGED torn
       \/ wire[c] # <<>> /\ torn' = [torn EXCEPT ![c] = TRUE]
    /\ UNCHANGED <<callers, unsent, loop, local, wire, srv, tasks, handled, late>>

(* A handler answers.  One message and no more needs no end marker, and is *)
(* then one that its caller takes for the last.                            *)
Replies(c, id, ms) == back' = [back EXCEPT ![c] = @ \o [i \in DOMAIN ms |-> <<id, ms[i]>>]]

HandlerReplies(c) ==
    /\ \E t \in tasks[c] :
          LET id == t[1]  n == t[2]
          IN  \/ /\ Kind(id) # "stream"
                 /\ Replies(c, id, <<"msg">>)
                 /\ tasks' = [tasks EXCEPT ![c] = @ \ {t}]
              \/ /\ Kind(id) = "stream" /\ n < MaxReplies
                 /\ Replies(c, id, <<"msg">>)
                 /\ tasks' = [tasks EXCEPT ![c] = (@ \ {t}) \cup {<<id, n + 1>>}]
              \/ /\ Kind(id) = "stream"
                 /\ Replies(c, id, IF n = 0 THEN <<"final">> ELSE <<"final", "ack">>)
                 /\ tasks' = [tasks EXCEPT ![c] = @ \ {t}]
              \/ /\ Kind(id) = "stream" /\ n > 1
                 /\ Replies(c, id, <<"ack">>)
                 /\ tasks' = [tasks EXCEPT ![c] = @ \ {t}]
    /\ UNCHANGED <<callers, unsent, loop, local, wire, srv, torn, history>>

(* TestDisconnect's delay is over: the loop ends.  Running handlers do not *)
(* and hold the writer, so the client reads the end only after the last.   *)
Disconnect(c) ==
    /\ srv[c] = "run"
    /\ srv' = [srv EXCEPT ![c] = "closed"]
    /\ wire' = [wire EXCEPT ![c] = <<>>]
    /\ UNCHANGED <<callers, unsent, loop, local, back, torn, tasks, history>>

(* The daemon stops, the network fails, or no Auth came within 5 seconds;  *)
(* replies under way may be lost, handlers that go on answer nobody.       *)
ServerDown(c) ==
    /\ srv[c] \in {"auth", "run"}
    /\ srv' = [srv EXCEPT ![c] = "closed"]
    /\ wire' = [wire EXCEPT ![c] = <<>>]
    /\ tasks' = [tasks EXCEPT ![c] = {}]
    /\ back' \in {back, [back EXCEPT ![c] = <<>>]}
    /\ UNCHANGED <<callers, unsent, loop, local, torn, history>>

-----------------------------------------------------------------------------
(* connect_with_reconnect_full and reconnect_loop, with the callback of    *)
(* connect_daemon: Auth, SessionStart, then the buffered frames, each a    *)
(* call on the new connection, which is swapped in when all is done.       *)

ConnectOk ==
    /\ rl \in {"init", "backoff"} /\ conns < MaxConn
    /\ conns' = conns + 1 /\ temp' = conns + 1 /\ rl' = "auth"
    /\ connected' = [connected EXCEPT ![conns + 1] = TRUE]
    /\ writer' = [writer EXCEPT ![conns + 1] = "run"]
    /\ reader' = [reader EXCEPT ![conns + 1] = "run"]
    /\ srv' = [srv EXCEPT ![conns + 1] = "auth"]
    /\ UNCHANGED <<callers, unsent, cur, handed, wq, pend, pushq, wire, back, torn, tasks, history>>

(* The first attempt fails: a disconnected client is handed out.           *)
ConnectFails ==
    /\ rl = "init"
    /\ rl' = "backoff" /\ handed' = TRUE
    /\ UNCHANGED <<callers, unsent, cur, temp, conns, local, remote, history>>

(* The call the callback is at.                                            *)
Current == IF rl = "replay" THEN <<Head(todo), temp>> ELSE <<rl, temp>>
InCall  == rl \in {"auth", "start"} \/ (rl = "replay" /\ todo # <<>>)

CallbackCalls ==
    /\ InCall /\ st[Current] = "new"
    /\ st' = [st EXCEPT ![Current] = IF connected[temp] THEN "ready" ELSE "err"]
    /\ UNCHANGED <<via, unsent, loop, local, remote, history>>

(* Mutant: the session is not registered.                                  *)
SkipStart ==
    /\ rl = "auth" /\ st[Current] \in {"ok", "refused"}
    /\ rl' = "swap"
    /\ UNCHANGED <<callers, unsent, cur, temp, conns, handed, local, remote, history>>

(* A refused client keeps its connection, for updates.                     *)
AuthAnswered ==
    /\ rl = "auth" /\ st[Current] \in {"ok", "refused"}
    /\ rl' = IF st[Current] = "ok" THEN "start" ELSE "swap"
    /\ UNCHANGED <<callers, unsent, cur, temp, conns, handed, local, remote, history>>

(* Mutant: the buffer is copied, not drained.                              *)
StartKeepsBuffer ==
    /\ rl = "start" /\ st[Current] = "ok"
    /\ rl' = "replay" /\ todo' = buffer
    /\ UNCHANGED <<callers, buffer, cur, temp, conns, handed, local, remote, history>>

(* SessionStart is acknowledged; the buffer is drained.                    *)
StartAnswered ==
    /\ rl = "start" /\ st[Current] = "ok"
    /\ rl' = "replay" /\ todo' = buffer /\ buffer' = <<>>
    /\ UNCHANGED <<callers, cur, temp, conns, handed, local, remote, history>>

ReplayAnswered ==
    /\ rl = "replay" /\ todo # <<>> /\ st[Current] = "ok"
    /\ todo' = Tail(todo)
    /\ UNCHANGED <<callers, buffer, loop, local, remote, history>>

(* A failed replay drops the rest of the drained frames.                   *)
ReplayDone ==
    /\ rl = "replay"
    /\ todo # <<>> => st[Current] = "err"
    /\ rl' = "swap" /\ todo' = <<>>
    /\ UNCHANGED <<callers, buffer, cur, temp, conns, handed, local, remote, history>>

(* Mutant: the loop returns instead of trying again.                       *)
CallbackGivesUp ==
    /\ rl \in {"auth", "start"} /\ st[Current] = "err"
    /\ temp' = 0 /\ rl' = "none"
    /\ UNCHANGED <<callers, unsent, cur, conns, handed, local, remote, history>>

(* The callback fails: the loop tries again, the very first connection is  *)
(* given up (connect_daemon then runs without a daemon).  The code would   *)
(* stop after five PermanentFailures; this callback never returns one.     *)
CallbackFails ==
    /\ rl \in {"auth", "start"} /\ st[Current] = "err"
    /\ temp' = 0 /\ rl' = IF handed THEN "backoff" ELSE "none"
    /\ UNCHANGED <<callers, unsent, cur, conns, handed, local, remote, history>>

Swap ==
    /\ rl = "swap"
    /\ cur' = temp /\ temp' = 0 /\ handed' = TRUE /\ rl' = "wait"
    /\ UNCHANGED <<callers, unsent, conns, local, remote, history>>

ConnectionLost ==
    /\ rl = "wait" /\ reader[cur] = "done"
    /\ rl' = "backoff"
    /\ connected' = [connected EXCEPT ![cur] = FALSE]
    /\ UNCHANGED <<callers, unsent, cur, temp, conns, handed, wq, writer, reader, pend,
                   pushq, remote, history>>

-----------------------------------------------------------------------------
Caller(id) == Enqueue(id) \/ WriteTaskClosed(id)

WriteTask(c) == WriteFrame(c) \/ WriteFails(c) \/ WriteQueueClosed(c)

ReadTask(c) == ReadPush(c) \/ ReadReply(c) \/ ReadEof(c) \/ ReadClear(c)

Server(c) == Authenticate(c) \/ ReadFrame(c)

ReconnectLoop ==
    \/ ConnectOk \/ CallbackCalls \/ AuthAnswered \/ StartAnswered
    \/ ReplayAnswered \/ ReplayDone \/ CallbackFails \/ Swap \/ ConnectionLost

Next ==
    \/ \E f \in Frames : Begin(f)
    \/ \E id \in Id : Caller(id)
    \/ PollPush \/ ConnectFails \/ ReconnectLoop
    \/ \E c \in Conn : \/ WriteTask(c) \/ ReadTask(c) \/ Server(c)
                       \/ HandlerReplies(c) \/ Push(c)
                       \/ Disconnect(c) \/ ServerDown(c)

Spec == Init /\ [][Next]_vars

(* The tasks of the client and the daemon go on, handlers answer, the main *)
(* loop polls, and the daemon can be reached in the end.  Frames,          *)
(* connections and pushes are bounded, so no task can be starved by        *)
(* others for ever and fairness of all of them together is enough.         *)
(* Nothing is assumed of when connections are lost or messages pushed.     *)
Progress ==
    \/ \E id \in Id : Caller(id)
    \/ \E c \in Conn : WriteTask(c) \/ ReadTask(c) \/ Server(c) \/ HandlerReplies(c)
    \/ PollPush \/ ReconnectLoop

Fairness == WF_vars(Progress)

FairSpec == Spec /\ Fairness

-----------------------------------------------------------------------------
(* Properties.                                                             *)

Message == (Id \cup {PushId}) \X {"msg", "final", "ack", "yes", "no"}

CallersOK ==
    /\ st \in [Id -> {"new", "ready", "blocked", "ok", "refused", "err"}]
    /\ via \in [Frames -> Conn \cup {0}]
    /\ buffer \in Seq(Sends) /\ Len(buffer) <= MaxBuffer
    /\ todo \in Seq(Sends) /\ Len(todo) <= MaxBuffer

LoopOK ==
    /\ cur \in Conn \cup {0} /\ temp \in Conn \cup {0} /\ conns \in 0 .. MaxConn
    /\ handed \in BOOLEAN
    /\ rl \in {"init", "auth", "start", "replay", "swap", "wait", "backoff", "none"}

LocalOK ==
    /\ connected \in [Conn -> BOOLEAN]
    /\ wq \in [Conn -> Seq(Id)] /\ \A c \in Conn : Len(wq[c]) <= QueueCap
    /\ writer \in [Conn -> {"none", "run", "exited"}]
    /\ reader \in [Conn -> {"none", "run", "eof", "done"}]
    /\ pend \in [Conn -> SUBSET Id] /\ pushq \in [Conn -> 0 .. PushCap]

RemoteOK ==
    /\ torn \in [Conn -> BOOLEAN]
    /\ wire \in [Conn -> Seq(Id)] /\ back \in [Conn -> Seq(Message)]
    /\ srv \in [Conn -> {"none", "auth", "run", "closed"}]
    /\ tasks \in [Conn -> SUBSET (Id \X (0 .. MaxReplies))]

HistoryOK == pushes \in 0 .. MaxPush /\ handled \in [Frames -> Nat] /\ late \subseteq Id

(* Every variable stays in its type, queues and buffers within their caps. *)
TypeOK == CallersOK /\ LoopOK /\ LocalOK /\ RemoteOK /\ HistoryOK

(* A frame that could not be sent is kept and sent again, but the daemon   *)
(* never handles one twice: send reports an error only if the frame can    *)
(* not have left, and the drained buffer is replayed once.                 *)
HandledOnce == \A f \in Frames : handled[f] <= 1

(* The client's own frames reach a connection only when its session is     *)
(* registered there (or the daemon refused the client) and when the replay *)
(* of what it had buffered is over, so they cannot overtake it.            *)
RegisteredFirst ==
    \A c \in Conn, f \in Frames :
        \/ <<f, 0>> \in Range(wq[c]) \cup Range(wire[c])
        \/ \E n \in 0 .. MaxReplies : <<<<f, 0>>, n>> \in tasks[c]
      => /\ st[<<"start", c>>] = "ok" \/ st[<<"auth", c>>] = "refused"
         /\ \A g \in Sends : st[<<g, c>>] \notin {"ready", "blocked"}

(* A call or a stream ends, in its answer or in an error, however the      *)
(* connection is lost: the two tasks between them drop every reply sender. *)
(* Not so for a request that the write task enters into the map after the  *)
(* read task has cleared it, and on a connection whose frames are torn.    *)
(* (Each request is made once, so that all have ended from some time on    *)
(* says that each of them ends.)                                           *)
Excused(id) == id \in late \/ (ConnOf(id) # 0 /\ torn[ConnOf(id)])

CallsEnd == <>[](\A id \in Id : st[id] = "blocked" => Excused(id))

(* A client that is not connected is connected again, unless the callback  *)
(* itself hangs in such a call: no loss of a connection goes unnoticed.    *)
Connected == cur # 0 /\ connected[cur]

ConnectionRestored ==
    handed /\ ~Connected ~>
        (Connected \/ conns = MaxConn \/ \E id \in Callback : Excused(id))

(* docs/implementation/omnish-transport.md:426 and rpc_client.rs:662-664:  *)
(* after a lost connection a call returns an error "instead of hanging     *)
(* forever".                                                               *)
CallsNeverHang ==
    \A id \in Id : Kind(id) = "call" /\ st[id] = "blocked" ~> st[id] # "blocked"
=============================================================================
