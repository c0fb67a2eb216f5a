----------------------- MODULE RpcTransport_proofs -----------------------
(***************************************************************************)
(* Proofs about the link between client and daemon: a frame that could not *)
(* be sent is kept and replayed but never handled twice, and the client's  *)
(* own frames reach a connection only once its session is registered.      *)
(*                                                                         *)
(* Neither is inductive.  HandledOnce needs to know where every frame is:  *)
(* that a queued request is queued once and was issued (QueueInv), that an *)
(* unsent frame waits in one place (BufferInv), that a replay carries a    *)
(* frame whose own send had failed, on one connection only (ReplayInv).    *)
(* RegisteredFirst needs how far the callback has come on the connection   *)
(* it sets up (SetupInv) and that callers hold only senders of connections *)
(* that were swapped in (CallerInv, TaskInv).                              *)
(***************************************************************************)
EXTENDS RpcTransport, TLAPS

(* A request that was put into the queue of its connection.  A send is done *)
(* then; a send that failed was not.                                       *)
Issued(id) == IF Kind(id) = "send" THEN st[id] = "ok" ELSE st[id] \notin {"new", "ready"}

(* A queued request is queued once, on its own connection.                 *)
Queued(c) == Range(wq[c]) \cup Range(wire[c])

QueueInv ==
    \A c \in Conn :
       /\ IsInjective(wq[c]) /\ IsInjective(wire[c]) /\ Range(wq[c]) \cap Range(wire[c]) = {}
       /\ \A id \in Queued(c) : ConnOf(id) = c /\ Issued(id)

(* An unsent frame waits in one place.                                     *)
BufferInv ==
    /\ IsInjective(buffer) /\ IsInjective(todo) /\ Range(buffer) \cap Range(todo) = {}
    /\ \A f \in Range(buffer) \cup Range(todo) : st[<<f, 0>>] = "err"
    /\ rl # "replay" => todo = <<>>

(* It is called on one connection, by the replay that took it out of the   *)
(* buffer, and only when its own send had failed.                          *)
ReplayInv ==
    \A f \in Sends, c \in Conn : st[<<f, c>>] # "new" =>
       /\ st[<<f, 0>>] = "err" /\ f \notin Range(buffer)
       /\ f \in Range(todo) => c = temp /\ f = Head(todo)
       /\ \A d \in Conn : st[<<f, d>>] # "new" => c = d

(* A handled frame is in no queue and was issued once.                     *)
HandledInv ==
    \A f \in Frames : \/ handled[f] = 0
                      \/ /\ handled[f] = 1
                         /\ \E id \in Id : id[1] = f /\ Issued(id)
                         /\ \A c \in Conn : \A id \in Queued(c) : id[1] # f

(* A connection that was handed to the callers.                            *)
Greeted(c)    == st[<<"start", c>>] = "ok" \/ st[<<"auth", c>>] = "refused"
Calling(g, c) == st[<<g, c>>] \in {"ready", "blocked"}
Registered(c) == /\ Greeted(c) /\ c <= conns /\ c # temp
                 /\ \A g \in Sends : ~Calling(g, c)

(* The callback on the connection that is being set up.                    *)
SetupInv ==
    /\ temp # 0 <=> rl \in {"auth", "start", "replay", "swap"}
    /\ temp <= conns
    /\ \A c \in Conn, f \in Sends \cup {"auth", "start"} : c > conns => st[<<f, c>>] = "new"
    /\ rl \in {"auth", "start"} => \A g \in Sends : st[<<g, temp>>] = "new"
    /\ rl = "replay" => /\ st[<<"start", temp>>] = "ok"
                        /\ \A g \in Sends : Calling(g, temp) => todo # <<>> /\ g = Head(todo)
    /\ rl = "swap" => Greeted(temp) /\ \A g \in Sends : ~Calling(g, temp)

CallerInv ==
    /\ cur # 0 => Registered(cur)
    /\ \A f \in Frames : /\ via[f] # 0 => Registered(via[f])
                         /\ st[<<f, 0>>] = "ready" => via[f] # 0

TaskInv == \A c \in Conn : \A t \in tasks[c] : ConnOf(t[1]) = c /\ Issued(t[1])

(* A send does not wait for an answer.                                     *)
SendInv == \A f \in Sends : st[<<f, 0>>] \in {"new", "ready", "ok", "err"}

LinkInv == /\ TypeOK /\ QueueInv /\ BufferInv /\ ReplayInv /\ HandledInv
           /\ SetupInv /\ CallerInv /\ TaskInv /\ SendInv




USE DEF callers, unsent, loop, local, remote, history

-----------------------------------------------------------------------------
(* Sequences.                                                              *)

(* What appending does to the length, range and injectivity of a sequence. *)
LEMMA AppendSeq ==
    ASSUME NEW S, NEW s \in Seq(S), NEW x \in S
    PROVE  /\ Append(s, x) \in Seq(S) /\ Len(Append(s, x)) = Len(s) + 1
           /\ Range(Append(s, x)) = Range(s) \cup {x}
           /\ IsInjective(s) /\ x \notin Range(s) => IsInjective(Append(s, x))
<1>1. Append(s, x) \in Seq(S) /\ Len(Append(s, x)) = Len(s) + 1  OBVIOUS
<1>2. /\ DOMAIN Append(s, x) = 1 .. Len(s) + 1 /\ DOMAIN s = 1 .. Len(s) /\ Len(s) \in Nat
      /\ \A i \in 1 .. Len(s) + 1 : Append(s, x)[i] = IF i = Len(s) + 1 THEN x ELSE s[i]
  OBVIOUS
<1> DEFINE a == Append(s, x)
<1> HIDE DEF a
<1>3. Range(a) = Range(s) \cup {x}
  <2>1. \A y \in Range(a) : y \in Range(s) \cup {x}  BY <1>2 DEF Range, a
  <2>2. Len(s) + 1 \in DOMAIN a /\ a[Len(s) + 1] = x  BY <1>2 DEF a
  <2>3. \A y \in Range(s) : y \in Range(a)  BY <1>2 DEF Range, a
  <2> QED  BY <2>1, <2>2, <2>3 DEF Range
<1>4. IsInjective(s) /\ x \notin Range(s) => IsInjective(a)  BY <1>2 DEF IsInjective, Range, a
<1> QED  BY <1>1, <1>3, <1>4 DEF a

(* What taking the head off does to them.                                  *)
LEMMA TailSeq ==
    ASSUME NEW S, NEW s \in Seq(S), s # <<>>
    PROVE  /\ Tail(s) \in Seq(S) /\ Len(Tail(s)) = Len(s) - 1
           /\ Head(s) \in S /\ Head(s) \in Range(s)
           /\ Range(s) = Range(Tail(s)) \cup {Head(s)}
           /\ IsInjective(s) => IsInjective(Tail(s)) /\ Head(s) \notin Range(Tail(s))
<1>1. /\ Tail(s) \in Seq(S) /\ Len(Tail(s)) = Len(s) - 1 /\ Head(s) \in S /\ Head(s) = s[1]
      /\ Len(s) \in Nat \ {0}
  OBVIOUS
<1>2. /\ DOMAIN Tail(s) = 1 .. Len(s) - 1 /\ DOMAIN s = 1 .. Len(s)
      /\ \A i \in 1 .. Len(s) - 1 : Tail(s)[i] = s[i + 1]
  OBVIOUS
<1> DEFINE t == Tail(s)
<1> HIDE DEF t
<1>3. Range(s) = Range(t) \cup {Head(s)}
  <2>1. ASSUME NEW i \in 1 .. Len(s)
        PROVE  s[i] \in Range(t) \cup {Head(s)}
    <3>1. CASE i = 1  BY <1>1, <3>1
    <3>2. CASE i # 1
      <4>1. i - 1 \in 1 .. Len(s) - 1 /\ t[i - 1] = s[(i - 1) + 1]  BY <1>1, <1>2, <3>2 DEF t
      <4>2. (i - 1) + 1 = i  OBVIOUS
      <4> QED  BY <1>2, <4>1, <4>2 DEF Range, t
    <3> QED  BY <3>1, <3>2
  <2>2. \A y \in Range(t) : y \in Range(s)  BY <1>1, <1>2 DEF Range, t
  <2>3. Head(s) \in Range(s)  BY <1>1, <1>2 DEF Range
  <2> QED  BY <1>2, <2>1, <2>2, <2>3 DEF Range
<1>4. IsInjective(s) => IsInjective(t) /\ Head(s) \notin Range(t)
  BY <1>1, <1>2 DEF IsInjective, Range, t
<1> QED  BY <1>1, <1>3, <1>4 DEF t

(* The empty sequence has every element type.                              *)
LEMMA EmptySeq ==
    ASSUME NEW S
    PROVE  <<>> \in Seq(S) /\ Len(<<>>) = 0
OBVIOUS

(* It is injective and has no elements.                                    *)
LEMMA EmptyRange == Range(<<>>) = {} /\ IsInjective(<<>>)
<1> DEFINE e == <<>>
<1>1. \A x \in DOMAIN e : FALSE  OBVIOUS
<1> HIDE DEF e
<1>2. Range(e) = {}  BY <1>1 DEF Range
<1>3. IsInjective(e)  BY <1>1 DEF IsInjective
<1>4. QED  BY <1>2, <1>3 DEF e

-----------------------------------------------------------------------------
(* Requests.                                                               *)

(* The client's own requests and those of the callback.                    *)
LEMMA Ids ==
    /\ \A f \in Frames : <<f, 0>> \in Own /\ <<f, 0>> \in Id
    /\ \A f \in Sends \cup {"auth", "start"}, c \in Conn :
          <<f, c>> \in Callback /\ <<f, c>> \in Id /\ <<f, c>> \notin Own
    /\ \A id \in Id : \/ id \in Own /\ id[1] \in Frames /\ id = <<id[1], 0>>
                      \/ /\ id \in Callback \ Own /\ id[1] \in Sends \cup {"auth", "start"}
                         /\ id[2] \in Conn /\ id = <<id[1], id[2]>>
    /\ \A c \in Conn : c # 0
BY CapsAssumption DEF Own, Callback, Id, Conn, Frames

(* Which requests are sends, streams and calls.                            *)
LEMMA Kinds ==
    /\ \A f \in Frames : Kind(<<f, 0>>) = IF f \in Sends THEN "send" ELSE IF f \in Streams THEN "stream" ELSE "call"
    /\ \A f \in Sends \cup {"auth", "start"}, c \in Conn : Kind(<<f, c>>) = "call"
    /\ \A id \in Id : Kind(id) \in {"send", "stream", "call"}
BY Ids, FramesAssumption DEF Kind, Frames

(* The connection of a request.                                            *)
LEMMA Conns ==
    /\ \A f \in Frames : ConnOf(<<f, 0>>) = via[f]
    /\ \A f \in Sends \cup {"auth", "start"}, c \in Conn : ConnOf(<<f, c>>) = c
BY Ids DEF ConnOf


-----------------------------------------------------------------------------
(* Types.                                                                  *)

(* Types: a failed call, whose frame is buffered if it was a send.         *)
LEMMA FailedType ==
    ASSUME CallersOK, NEW f \in Frames, Failed(f), UNCHANGED <<via, todo>>
    PROVE  CallersOK'
<1>1. st' \in [Id -> {"new", "ready", "blocked", "ok", "refused", "err"}]
  BY DEF Failed, CallersOK
<1>2. ASSUME f \in Sends
      PROVE  Buffered(f) \in Seq(Sends) /\ Len(Buffered(f)) <= MaxBuffer
  <2>1. CASE Len(buffer) >= MaxBuffer
    <3>1. buffer # <<>> /\ Len(buffer) = MaxBuffer  BY <2>1, CapsAssumption DEF CallersOK
    <3>2. Tail(buffer) \in Seq(Sends) /\ Len(Tail(buffer)) = MaxBuffer - 1
      BY <3>1, TailSeq DEF CallersOK
    <3> QED  BY <1>2, <2>1, <3>2, AppendSeq, CapsAssumption DEF Buffered
  <2>2. CASE ~(Len(buffer) >= MaxBuffer)
    <3>1. Len(buffer) \in Nat  BY DEF CallersOK
    <3> QED  BY <1>2, <2>2, <3>1, AppendSeq, CapsAssumption DEF Buffered, CallersOK
  <2> QED  BY <2>1, <2>2
<1>3. buffer' \in Seq(Sends) /\ Len(buffer') <= MaxBuffer  BY <1>2 DEF Failed, CallersOK
<1> QED  BY <1>1, <1>3 DEF CallersOK

(* Types: callers are woken with an error.                                 *)
LEMMA WakeType ==
    ASSUME CallersOK, NEW ids, Wake(ids), UNCHANGED <<via, buffer, todo>>
    PROVE  CallersOK'
BY DEF Wake, CallersOK

(* Types: the write task ends.                                             *)
LEMMA WriteExitType ==
    ASSUME TypeOK, NEW c \in Conn, WriteExit(c), connected' \in [Conn -> BOOLEAN]
    PROVE  TypeOK'
<1> USE DEF TypeOK
<1>1. CallersOK'  BY WakeType DEF WriteExit
<1>2. <<>> \in Seq(Id) /\ Len(<<>>) = 0  BY EmptySeq
<1>3. wq' \in [Conn -> Seq(Id)] /\ \A d \in Conn : Len(wq'[d]) <= QueueCap
  BY <1>2, CapsAssumption DEF WriteExit, LocalOK
<1>4. LocalOK'  BY <1>3 DEF WriteExit, LocalOK
<1> QED  BY <1>1, <1>4 DEF WriteExit, LoopOK, RemoteOK, HistoryOK

(* Concatenation keeps the element type.                                   *)
LEMMA ConcatSeq ==
    ASSUME NEW S, NEW s \in Seq(S), NEW t \in Seq(S)
    PROVE  s \o t \in Seq(S)
OBVIOUS

(* Types: a handler's answers.                                             *)
LEMMA RepliesType ==
    ASSUME RemoteOK, NEW c \in Conn, NEW id \in Id, NEW ms \in Seq({"msg", "final", "ack"}),
           Replies(c, id, ms)
    PROVE  back' \in [Conn -> Seq(Message)]
<1> DEFINE r == [i \in DOMAIN ms |-> <<id, ms[i]>>]
<1>1. \A i \in DOMAIN ms : <<id, ms[i]>> \in Message  BY DEF Message
<1>2. DOMAIN ms = 1 .. Len(ms) /\ Len(ms) \in Nat  OBVIOUS
<1>3. r \in Seq(Message)  BY <1>1, <1>2
<1> HIDE DEF r
<1>4. back[c] \o r \in Seq(Message)  BY <1>3, ConcatSeq DEF RemoteOK
<1>5. back' = [back EXCEPT ![c] = @ \o r]  BY DEF Replies, r
<1> QED  BY <1>4, <1>5 DEF RemoteOK

(* Types: a step of a caller.                                              *)
LEMMA CallerType ==
    ASSUME TypeOK,
           \/ \E f \in Frames : Begin(f)
           \/ \E id \in Id : Caller(id)
           \/ PollPush
    PROVE  TypeOK'
<1> USE DEF TypeOK
<1>1. ASSUME NEW f \in Frames, Begin(f)
      PROVE  TypeOK'
  <2>1. CallersOK'
    <3>1. CASE Failed(f) /\ UNCHANGED via  BY <1>1, <3>1, FailedType DEF Begin
    <3>2. CASE /\ cur # 0 /\ st' = [st EXCEPT ![<<f, 0>>] = "ready"]
               /\ via' = [via EXCEPT ![f] = cur] /\ UNCHANGED buffer
      BY <1>1, <3>2 DEF Begin, CallersOK, LoopOK
    <3> QED  BY <1>1, <3>1, <3>2 DEF Begin
  <2> QED  BY <1>1, <2>1 DEF Begin, LoopOK, LocalOK, RemoteOK, HistoryOK
<1>2. ASSUME NEW id \in Id, Enqueue(id)
      PROVE  TypeOK'
  <2> PICK c : c = ConnOf(id)  OBVIOUS
  <2>1. CallersOK'  BY <1>2 DEF Enqueue, CallersOK
  <2>2. wq' \in [Conn -> Seq(Id)] /\ \A d \in Conn : Len(wq'[d]) <= QueueCap
    <3>1. c \in Conn => /\ Append(wq[c], id) \in Seq(Id)
                        /\ Len(Append(wq[c], id)) = Len(wq[c]) + 1 /\ Len(wq[c]) \in Nat
      BY AppendSeq DEF LocalOK
    <3>2. Len(wq[c]) < QueueCap /\ wq' = [wq EXCEPT ![c] = Append(@, id)]  BY <1>2 DEF Enqueue
    <3>3. \A d \in Conn : wq'[d] = IF d = c THEN Append(wq[c], id) ELSE wq[d]  BY <3>2 DEF LocalOK
    <3>4. \A d \in Conn : wq'[d] \in Seq(Id)  BY <3>1, <3>3 DEF LocalOK
    <3>5. \A d \in Conn : Len(wq'[d]) <= QueueCap  BY <3>1, <3>2, <3>3, CapsAssumption DEF LocalOK
    <3> QED  BY <3>2, <3>4, <3>5 DEF LocalOK
  <2> QED  BY <1>2, <2>1, <2>2 DEF Enqueue, LoopOK, LocalOK, RemoteOK, HistoryOK
<1>3. ASSUME NEW id \in Id, WriteTaskClosed(id)
      PROVE  TypeOK'
  <2>1. CallersOK'
    <3>1. CASE id \in Own  BY <1>3, <3>1, Ids, FailedType DEF WriteTaskClosed
    <3>2. CASE id \notin Own  BY <1>3, <3>2 DEF WriteTaskClosed, CallersOK
    <3> QED  BY <3>1, <3>2
  <2> QED  BY <1>3, <2>1 DEF WriteTaskClosed, LoopOK, LocalOK, RemoteOK, HistoryOK
<1>4. CASE PollPush
  <2>1. 0 \in 0 .. PushCap  BY CapsAssumption
  <2>2. pushq' \in [Conn -> 0 .. PushCap]  BY <1>4, <2>1 DEF PollPush, LocalOK
  <2> QED  BY <1>4, <2>2 DEF PollPush, CallersOK, LoopOK, LocalOK, RemoteOK, HistoryOK
<1> QED  BY <1>1, <1>2, <1>3, <1>4 DEF Caller

(* Types: a step of the write task.                                        *)
LEMMA WriteTaskType ==
    ASSUME TypeOK, NEW c \in Conn, WriteTask(c)
    PROVE  TypeOK'
<1> USE DEF TypeOK
<1>1. CASE WriteFrame(c)
  <2> DEFINE id == Head(wq[c])
  <2>1. wq[c] \in Seq(Id) /\ wq[c] # <<>> /\ Len(wq[c]) <= QueueCap  BY <1>1 DEF WriteFrame, LocalOK
  <2>2. id \in Id /\ Tail(wq[c]) \in Seq(Id) /\ Len(Tail(wq[c])) = Len(wq[c]) - 1 /\ Len(wq[c]) \in Nat
    BY <2>1, TailSeq
  <2>3. wq' = [wq EXCEPT ![c] = Tail(@)]  BY <1>1 DEF WriteFrame
  <2>4. wq' \in [Conn -> Seq(Id)] /\ \A d \in Conn : Len(wq'[d]) <= QueueCap
    BY <2>1, <2>2, <2>3, CapsAssumption DEF LocalOK
  <2>5. Append(wire[c], id) \in Seq(Id)  BY <2>2, AppendSeq DEF RemoteOK
  <2> HIDE DEF id
  <2>6. wire' \in [Conn -> Seq(Id)]  BY <1>1, <2>5 DEF WriteFrame, RemoteOK, id
  <2>7. pend' \in [Conn -> SUBSET Id] /\ late' \subseteq Id
    BY <1>1, <2>2 DEF WriteFrame, LocalOK, HistoryOK, id
  <2> QED  BY <1>1, <2>4, <2>6, <2>7 DEF WriteFrame, CallersOK, LoopOK, LocalOK, RemoteOK, HistoryOK
<1>2. CASE WriteFails(c)  BY <1>2, WriteExitType DEF WriteFails, LocalOK
<1>3. CASE WriteQueueClosed(c)  BY <1>3, WriteExitType DEF WriteQueueClosed, LocalOK
<1> QED  BY <1>1, <1>2, <1>3 DEF WriteTask

(* Types: a step of the read task.                                         *)
LEMMA ReadTaskType ==
    ASSUME TypeOK, NEW c \in Conn, ReadTask(c)
    PROVE  TypeOK'
<1> USE DEF TypeOK
<1>b. back[c] # <<>> => Tail(back[c]) \in Seq(Message)  BY TailSeq DEF RemoteOK
<1>1. CASE ReadPush(c)
  <2>1. back' \in [Conn -> Seq(Message)]  BY <1>1, <1>b DEF ReadPush, RemoteOK
  <2>2. pushq[c] < PushCap => pushq[c] + 1 \in 0 .. PushCap  BY CapsAssumption DEF LocalOK
  <2>3. pushq' \in [Conn -> 0 .. PushCap]
    <3>1. CASE pushq[c] < PushCap /\ pushq' = [pushq EXCEPT ![c] = @ + 1]  BY <2>2, <3>1 DEF LocalOK
    <3>2. CASE pushq' = pushq  BY <3>2 DEF LocalOK
    <3> QED  BY <1>1, <3>1, <3>2 DEF ReadPush
  <2> QED  BY <1>1, <2>1, <2>3 DEF ReadPush, CallersOK, LoopOK, LocalOK, RemoteOK, HistoryOK
<1>2. CASE ReadReply(c)
  <2>1. back' \in [Conn -> Seq(Message)]  BY <1>2, <1>b DEF ReadReply, RemoteOK
  <2>2. pend' \in [Conn -> SUBSET Id]  BY <1>2 DEF ReadReply, LocalOK
  <2>3. st' \in [Id -> {"new", "ready", "blocked", "ok", "refused", "err"}]
    BY <1>2 DEF ReadReply, CallersOK
  <2> QED  BY <1>2, <2>1, <2>2, <2>3 DEF ReadReply, CallersOK, LoopOK, LocalOK, RemoteOK, HistoryOK
<1>3. CASE ReadEof(c)  BY <1>3 DEF ReadEof, CallersOK, LoopOK, LocalOK, RemoteOK, HistoryOK
<1>4. CASE ReadClear(c)
  <2>1. CallersOK'  BY <1>4, WakeType DEF ReadClear
  <2> QED  BY <1>4, <2>1 DEF ReadClear, LoopOK, LocalOK, RemoteOK, HistoryOK
<1> QED  BY <1>1, <1>2, <1>3, <1>4 DEF ReadTask

(* Types: a step of the server, of its handlers or of the network.         *)
LEMMA ServerType ==
    ASSUME TypeOK, NEW c \in Conn,
           Server(c) \/ HandlerReplies(c) \/ Push(c) \/ Disconnect(c) \/ ServerDown(c)
    PROVE  TypeOK'
<1> USE DEF TypeOK
<1>w. wire[c] # <<>> => Tail(wire[c]) \in Seq(Id) /\ Head(wire[c]) \in Id  BY TailSeq DEF RemoteOK
<1>e. <<>> \in Seq(Id) /\ <<>> \in Seq(Message)  BY EmptySeq
<1>1. CASE Authenticate(c)
  <2>1. wire' \in [Conn -> Seq(Id)]  BY <1>1, <1>w DEF Authenticate, RemoteOK
  <2>2. PICK m \in {"yes", "no"}, s \in {"run", "closed"} :
           /\ back' = [back EXCEPT ![c] = Append(@, <<Head(wire[c]), m>>)]
           /\ srv' = [srv EXCEPT ![c] = s]
    BY <1>1 DEF Authenticate
  <2>3. <<Head(wire[c]), m>> \in Message  BY <1>1, <1>w DEF Authenticate, Message
  <2>4. Append(back[c], <<Head(wire[c]), m>>) \in Seq(Message)  BY <2>3, AppendSeq DEF RemoteOK
  <2>5. back' \in [Conn -> Seq(Message)]  BY <2>2, <2>4 DEF RemoteOK
  <2> QED  BY <1>1, <2>1, <2>2, <2>5 DEF Authenticate, CallersOK, LoopOK, LocalOK, RemoteOK, HistoryOK
<1>2. CASE ReadFrame(c)
  <2> DEFINE id == Head(wire[c])
  <2>1. wire' \in [Conn -> Seq(Id)] /\ id \in Id  BY <1>2, <1>w DEF ReadFrame, RemoteOK
  <2>2. <<id, 0>> \in Id \X (0 .. MaxReplies)  BY <2>1, CapsAssumption
  <2>3. /\ tasks' = [tasks EXCEPT ![c] = @ \cup {<<id, 0>>}]
        /\ handled' = IF id[1] \in Frames THEN [handled EXCEPT ![id[1]] = @ + 1] ELSE handled
    BY <1>2 DEF ReadFrame
  <2> HIDE DEF id
  <2>4. tasks' \in [Conn -> SUBSET (Id \X (0 .. MaxReplies))]  BY <2>2, <2>3 DEF RemoteOK
  <2>5. handled' \in [Frames -> Nat]  BY <2>3 DEF HistoryOK
  <2> QED  BY <1>2, <2>1, <2>4, <2>5 DEF ReadFrame, CallersOK, LoopOK, LocalOK, RemoteOK, HistoryOK
<1>3. CASE HandlerReplies(c)
  <2>1. PICK t \in tasks[c] :
           LET id == t[1]  n == t[2]
           IN  \/ /\ Kind(id) # "stream"
                  /\ Replies(c, id, <<"msg">>)
                  /\ tasks' = [tasks EXCEPT ![c] = @ \ {t}]
               \/ /\ Kind(id) = "stream" /\ n < MaxReplies
                  /\ Replies(c, id, <<"msg">>)
                  /\ tasks' = [tasks EXCEPT ![c] = (@ \ {t}) \cup {<<id, n + 1>>}]
               \/ /\ Kind(id) = "stream"
                  /\ Replies(c, id, IF n = 0 THEN <<"final">> ELSE <<"final", "ack">>)
                  /\ tasks' = [tasks EXCEPT ![c] = @ \ {t}]
               \/ /\ Kind(id) = "stream" /\ n > 1
                  /\ Replies(c, id, <<"ack">>)
                  /\ tasks' = [tasks EXCEPT ![c] = @ \ {t}]
    BY <1>3 DEF HandlerReplies
  <2>2. t[1] \in Id /\ t[2] \in 0 .. MaxReplies  BY DEF RemoteOK
  <2>3. \E ms \in {<<"msg">>, <<"final">>, <<"final", "ack">>, <<"ack">>} : Replies(c, t[1], ms)
    BY <2>1
  <2>4. {<<"msg">>, <<"final">>, <<"final", "ack">>, <<"ack">>} \subseteq Seq({"msg", "final", "ack"})
    OBVIOUS
  <2>5. back' \in [Conn -> Seq(Message)]  BY <2>2, <2>3, <2>4, RepliesType
  <2>6. tasks' = [tasks EXCEPT ![c] = @ \ {t}]
        \/ (t[2] < MaxReplies /\ tasks' = [tasks EXCEPT ![c] = (@ \ {t}) \cup {<<t[1], t[2] + 1>>}])
    BY <2>1
  <2>7. t[2] < MaxReplies => <<t[1], t[2] + 1>> \in Id \X (0 .. MaxReplies)  BY <2>2, CapsAssumption
  <2>8. tasks' \in [Conn -> SUBSET (Id \X (0 .. MaxReplies))]
    <3>1. \E S \in SUBSET (Id \X (0 .. MaxReplies)) : tasks' = [tasks EXCEPT ![c] = S]
      <4>1. tasks[c] \ {t} \in SUBSET (Id \X (0 .. MaxReplies))  BY DEF RemoteOK
      <4>2. CASE tasks' = [tasks EXCEPT ![c] = @ \ {t}]  BY <4>1, <4>2
      <4>3. CASE t[2] < MaxReplies /\ tasks' = [tasks EXCEPT ![c] = (@ \ {t}) \cup {<<t[1], t[2] + 1>>}]
        BY <2>7, <4>1, <4>3
      <4> QED  BY <2>6, <4>2, <4>3
    <3> QED  BY <3>1 DEF RemoteOK
  <2> QED  BY <1>3, <2>5, <2>8 DEF HandlerReplies, CallersOK, LoopOK, LocalOK, RemoteOK, HistoryOK
<1>4. CASE Push(c)
  <2>1. <<PushId, "msg">> \in Message  BY DEF Message
  <2>2. Append(back[c], <<PushId, "msg">>) \in Seq(Message)  BY <2>1, AppendSeq DEF RemoteOK
  <2>3. back' \in [Conn -> Seq(Message)]  BY <1>4, <2>2 DEF Push, RemoteOK
  <2>4. torn' \in [Conn -> BOOLEAN]  BY <1>4 DEF Push, RemoteOK
  <2>5. pushes' \in 0 .. MaxPush  BY <1>4, CapsAssumption DEF Push, HistoryOK
  <2> QED  BY <1>4, <2>3, <2>4, <2>5 DEF Push, CallersOK, LoopOK, LocalOK, RemoteOK, HistoryOK
<1>5. CASE Disconnect(c)
  BY <1>5, <1>e DEF Disconnect, CallersOK, LoopOK, LocalOK, RemoteOK, HistoryOK
<1>6. CASE ServerDown(c)
  BY <1>6, <1>e DEF ServerDown, CallersOK, LoopOK, LocalOK, RemoteOK, HistoryOK
<1> QED  BY <1>1, <1>2, <1>3, <1>4, <1>5, <1>6 DEF Server

(* Types: a step of the reconnect loop.                                    *)
LEMMA LoopType ==
    ASSUME TypeOK, ReconnectLoop \/ ConnectFails
    PROVE  TypeOK'
<1> USE DEF TypeOK
<1>e. <<>> \in Seq(Sends) /\ Len(<<>>) = 0 /\ MaxBuffer >= 0  BY EmptySeq, CapsAssumption
<1>t. todo # <<>> => Tail(todo) \in Seq(Sends) /\ Len(Tail(todo)) <= MaxBuffer
  BY TailSeq, CapsAssumption DEF CallersOK
<1>1. CASE ConnectOk
  <2>1. conns + 1 \in Conn /\ conns + 1 \in 0 .. MaxConn
    BY <1>1, CapsAssumption DEF ConnectOk, LoopOK, Conn
  <2> QED  BY <1>1, <2>1 DEF ConnectOk, CallersOK, LoopOK, LocalOK, RemoteOK, HistoryOK
<1>2. CASE CallbackCalls
  BY <1>2 DEF CallbackCalls, CallersOK, LoopOK, LocalOK, RemoteOK, HistoryOK
<1>3. CASE AuthAnswered
  BY <1>3 DEF AuthAnswered, CallersOK, LoopOK, LocalOK, RemoteOK, HistoryOK
<1>4. CASE StartAnswered
  BY <1>4, <1>e DEF StartAnswered, CallersOK, LoopOK, LocalOK, RemoteOK, HistoryOK
<1>5. CASE ReplayAnswered
  BY <1>5, <1>t DEF ReplayAnswered, CallersOK, LoopOK, LocalOK, RemoteOK, HistoryOK
<1>6. CASE ReplayDone
  BY <1>6, <1>e DEF ReplayDone, CallersOK, LoopOK, LocalOK, RemoteOK, HistoryOK
<1>7. CASE CallbackFails
  BY <1>7 DEF CallbackFails, CallersOK, LoopOK, LocalOK, RemoteOK, HistoryOK
<1>8. CASE Swap  BY <1>8 DEF Swap, CallersOK, LoopOK, LocalOK, RemoteOK, HistoryOK
<1>9. CASE ConnectionLost
  BY <1>9 DEF ConnectionLost, CallersOK, LoopOK, LocalOK, RemoteOK, HistoryOK
<1>10. CASE ConnectFails
  BY <1>10 DEF ConnectFails, CallersOK, LoopOK, LocalOK, RemoteOK, HistoryOK
<1> QED  BY <1>1, <1>2, <1>3, <1>4, <1>5, <1>6, <1>7, <1>8, <1>9, <1>10 DEF ReconnectLoop

(* Types: the initial state.                                               *)
LEMMA InitType ==
    ASSUME Init
    PROVE  TypeOK
<1>1. CallersOK
  <2>1. <<>> \in Seq(Sends) /\ Len(<<>>) = 0 /\ 0 <= MaxBuffer  BY EmptySeq, CapsAssumption
  <2>2. st \in [Id -> {"new", "ready", "blocked", "ok", "refused", "err"}]  BY DEF Init
  <2>3. via \in [Frames -> Conn \cup {0}]  BY DEF Init
  <2> QED  BY <2>1, <2>2, <2>3 DEF Init, CallersOK
<1>2. LoopOK
  <2>1. 0 \in 0 .. MaxConn  BY CapsAssumption
  <2> QED  BY <2>1 DEF Init, LoopOK
<1>3. LocalOK  BY EmptySeq, CapsAssumption DEF Init, LocalOK, All
<1>4. RemoteOK  BY EmptySeq DEF Init, RemoteOK, All
<1>5. HistoryOK  BY CapsAssumption DEF Init, HistoryOK
<1> QED  BY <1>1, <1>2, <1>3, <1>4, <1>5 DEF TypeOK

-----------------------------------------------------------------------------
(* The steps that settle requests and leave the unsent frames alone.       *)

(* How the state of a request changes where no send fails and the callback *)
(* starts no call.                                                         *)
Settled(id) ==
    \/ st'[id] = st[id]
    \/ st[id] = "ready" /\ Kind(id) = "send" /\ st'[id] = "ok"
    \/ st[id] = "ready" /\ Kind(id) # "send" /\ st'[id] \in {"blocked", "err"}
    \/ st[id] = "blocked" /\ st'[id] \in {"ok", "refused", "err"}
    \/ st[id] = "new" /\ id \in Own /\ Kind(id) # "send" /\ st'[id] = "err"

Setup == {"auth", "start", "replay", "swap"}

Settling ==
    /\ \A id \in Id : Settled(id)
    /\ UNCHANGED <<via, buffer, todo, cur, temp, conns>>
    /\ rl' = rl \/ (rl \notin Setup /\ rl' \notin Setup)

(* No request enters a queue; one that leaves the wire may become a task.  *)
QueuesShrink ==
    \A c \in Conn :
       /\ IsInjective(wq'[c]) /\ IsInjective(wire'[c]) /\ Range(wq'[c]) \cap Range(wire'[c]) = {}
       /\ Range(wq'[c]) \cup Range(wire'[c]) \subseteq Queued(c)
       /\ \A t \in tasks'[c] : t[1] \in Queued(c) \/ \E u \in tasks[c] : u[1] = t[1]

(* What such a step does to one request.                                   *)
LEMMA SettledFacts ==
    ASSUME LinkInv, Settling
    PROVE  /\ \A id \in Id : Issued(id) => Issued(id)'
           /\ \A id \in Id : ConnOf(id)' = ConnOf(id)
           /\ \A f \in Sends : st[<<f, 0>>] = "err" => st'[<<f, 0>>] = "err"
           /\ \A f \in Sends \cup {"auth", "start"}, c \in Conn :
                 /\ st'[<<f, c>>] = "new" <=> st[<<f, c>>] = "new"
                 /\ st[<<f, c>>] \in {"ok", "refused"} => st'[<<f, c>>] = st[<<f, c>>]
                 /\ Calling(f, c)' => Calling(f, c)
           /\ \A f \in Frames : st'[<<f, 0>>] = "ready" => st[<<f, 0>>] = "ready"
<1>k. \A id \in Id : Kind(id) \in {"send", "stream", "call"}  BY Kinds
<1>s. \A f \in Sends : /\ <<f, 0>> \in Id /\ Kind(<<f, 0>>) = "send"
                       /\ st[<<f, 0>>] # "blocked"
  BY Ids, Kinds DEF Frames, LinkInv, SendInv
<1>b. \A id \in Id : Kind(id) = "send" => st[id] # "blocked"
  BY <1>s, Ids, Kinds DEF Kind
<1>1. \A id \in Id : Issued(id) => Issued(id)'
  <2> SUFFICES ASSUME NEW id \in Id, Issued(id)  PROVE Issued(id)'  OBVIOUS
  <2>1. Settled(id)  BY DEF Settling
  <2> QED  BY <2>1, <1>b DEF Issued, Settled
<1>2. \A id \in Id : ConnOf(id)' = ConnOf(id)  BY DEF Settling, ConnOf
<1>3. \A f \in Sends : st[<<f, 0>>] = "err" => st'[<<f, 0>>] = "err"
  BY <1>s DEF Settling, Settled
<1>4. ASSUME NEW f \in Sends \cup {"auth", "start"}, NEW c \in Conn
      PROVE  /\ st'[<<f, c>>] = "new" <=> st[<<f, c>>] = "new"
             /\ st[<<f, c>>] \in {"ok", "refused"} => st'[<<f, c>>] = st[<<f, c>>]
             /\ Calling(f, c)' => Calling(f, c)
  <2>1. <<f, c>> \in Id /\ <<f, c>> \notin Own  BY Ids
  <2>2. Settled(<<f, c>>)  BY <2>1 DEF Settling
  <2> QED  BY <2>1, <2>2 DEF Settled, Calling
<1>5. \A f \in Frames : st'[<<f, 0>>] = "ready" => st[<<f, 0>>] = "ready"
  BY Ids DEF Settling, Settled
<1> QED  BY <1>1, <1>2, <1>3, <1>4, <1>5

(* Settling requests disturbs neither buffer, replay nor callback.         *)
LEMMA SettlingKeeps ==
    ASSUME LinkInv, Settling
    PROVE  BufferInv' /\ ReplayInv' /\ SetupInv' /\ CallerInv' /\ SendInv'
<1> USE DEF LinkInv, TypeOK, CallersOK, LoopOK
<1> DEFINE F == Sends \cup {"auth", "start"}
<1>f. Sends \subseteq F /\ "auth" \in F /\ "start" \in F  OBVIOUS
<1> HIDE DEF F
<1>u. UNCHANGED <<via, buffer, todo, cur, temp, conns>>  BY DEF Settling
<1>e. \A f \in Sends : st[<<f, 0>>] = "err" => st'[<<f, 0>>] = "err"  BY SettledFacts
<1>c. \A f \in F, c \in Conn :
         /\ st'[<<f, c>>] = "new" <=> st[<<f, c>>] = "new"
         /\ st[<<f, c>>] \in {"ok", "refused"} => st'[<<f, c>>] = st[<<f, c>>]
         /\ Calling(f, c)' => Calling(f, c)
  BY SettledFacts DEF F
<1>1. BufferInv'
  <2>1. rl' # "replay" => todo = <<>>  BY DEF BufferInv, Settling, Setup
  <2>2. \A f \in Range(buffer) \cup Range(todo) : f \in Sends  BY DEF Range
  <2> QED  BY <1>u, <1>e, <2>1, <2>2 DEF BufferInv
<1>2. ReplayInv'
  <2>1. \A f \in Sends, c \in Conn : st'[<<f, c>>] # "new" => st[<<f, c>>] # "new"  BY <1>f, <1>c
  <2> SUFFICES ASSUME NEW f \in Sends, NEW c \in Conn, st'[<<f, c>>] # "new"
               PROVE  /\ st'[<<f, 0>>] = "err" /\ f \notin Range(buffer)
                      /\ f \in Range(todo) => c = temp /\ f = Head(todo)
                      /\ \A d \in Conn : st'[<<f, d>>] # "new" => c = d
    BY <1>u DEF ReplayInv
  <2> QED  BY <1>e, <2>1 DEF ReplayInv
<1>g. \A c \in Conn : Greeted(c) => Greeted(c)'  BY <1>f, <1>c DEF Greeted
<1>3. SetupInv'
  <2>1. temp # 0 => temp \in Conn  OBVIOUS
  <2>2. temp' # 0 <=> rl' \in {"auth", "start", "replay", "swap"}
    BY <1>u DEF SetupInv, Settling, Setup
  <2>3. CASE rl' \notin Setup
    BY <1>f, <1>u, <1>c, <2>2, <2>3 DEF SetupInv, Setup
  <2>4. CASE rl' \in Setup
    <3>1. rl' = rl /\ temp \in Conn  BY <2>4, <2>1 DEF Settling, SetupInv, Setup
    <3>2. \A c \in Conn, f \in F : c > conns => st'[<<f, c>>] = "new"  BY <1>c DEF SetupInv, F
    <3>3. rl \in {"auth", "start"} => \A g \in Sends : st'[<<g, temp>>] = "new"
      BY <1>f, <1>c, <3>1 DEF SetupInv
    <3>4. rl = "replay" => /\ st'[<<"start", temp>>] = "ok"
                           /\ \A g \in Sends : Calling(g, temp)' => todo # <<>> /\ g = Head(todo)
      BY <1>f, <1>u, <1>c, <3>1 DEF SetupInv, Calling
    <3>5. rl = "swap" => Greeted(temp)' /\ \A g \in Sends : ~Calling(g, temp)'
      BY <1>f, <1>u, <1>c, <1>g, <3>1 DEF SetupInv, Greeted, Calling
    <3>6. temp <= conns  BY DEF SetupInv
    <3> QED  BY <1>u, <2>2, <3>1, <3>2, <3>3, <3>4, <3>5, <3>6 DEF SetupInv, F
  <2> QED  BY <2>3, <2>4
<1>r. \A c \in Conn : Registered(c) => Registered(c)'  BY <1>f, <1>u, <1>c, <1>g DEF Registered
<1>4. CallerInv'
  <2>1. \A f \in Frames : st'[<<f, 0>>] = "ready" => st[<<f, 0>>] = "ready"  BY SettledFacts
  <2>2. \A f \in Frames : via[f] # 0 => via[f] \in Conn  OBVIOUS
  <2>3. cur # 0 => cur \in Conn  OBVIOUS
  <2> QED  BY <1>u, <1>r, <2>1, <2>2, <2>3 DEF CallerInv
<1>5. SendInv'
  <2>1. \A f \in Sends : <<f, 0>> \in Id /\ Kind(<<f, 0>>) = "send"  BY Ids, Kinds DEF Frames
  <2> QED  BY <2>1 DEF Settling, Settled, SendInv
<1> QED  BY <1>1, <1>2, <1>3, <1>4, <1>5

(* Queues that only shrink stay in order, tasks keep their connection.     *)
LEMMA ShrinkKeeps ==
    ASSUME LinkInv, TypeOK', Settling, QueuesShrink
    PROVE  QueueInv' /\ TaskInv'
<1>1. \A id \in Id : Issued(id) => Issued(id)'  BY SettledFacts
<1>2. \A id \in Id : ConnOf(id)' = ConnOf(id)  BY SettledFacts
<1>3. \A c \in Conn : \A id \in Queued(c) : id \in Id
  BY DEF LinkInv, TypeOK, LocalOK, RemoteOK, Queued, Range
<1>4. \A c \in Conn : \A id \in Queued(c) : ConnOf(id)' = c /\ Issued(id)'
  BY <1>1, <1>2, <1>3 DEF LinkInv, QueueInv
<1>5. QueueInv'  BY <1>4 DEF QueueInv, QueuesShrink, Queued
<1>6. TaskInv'
  <2> SUFFICES ASSUME NEW c \in Conn, NEW t \in tasks'[c]
               PROVE  ConnOf(t[1])' = c /\ Issued(t[1])'
    BY DEF TaskInv
  <2>1. CASE t[1] \in Queued(c)  BY <1>4, <2>1
  <2>2. CASE \E u \in tasks[c] : u[1] = t[1]
    <3>1. PICK u \in tasks[c] : u[1] = t[1]  BY <2>2
    <3>2. u[1] \in Id /\ ConnOf(u[1]) = c /\ Issued(u[1])
      BY DEF LinkInv, TypeOK, RemoteOK, TaskInv
    <3> QED  BY <1>1, <1>2, <3>1, <3>2
  <2> QED  BY <2>1, <2>2 DEF QueuesShrink
<1> QED  BY <1>5, <1>6

(* Where nothing is handled and no queue grows, HandledInv stays.          *)
LEMMA HandledKeeps ==
    ASSUME LinkInv, \A id \in Id : Issued(id) => Issued(id)', UNCHANGED handled,
           \A c \in Conn : Queued(c)' \subseteq Queued(c)
    PROVE  HandledInv'
BY DEF LinkInv, HandledInv

-----------------------------------------------------------------------------
(* What keeps a frame from being handled twice.                            *)

(* Of the requests that carry one frame only one is under way or done: the *)
(* client's own send, or, when that failed, its replay.                    *)
LEMMA OneActive ==
    ASSUME LinkInv, NEW i \in Id, NEW j \in Id, i[1] = j[1], i[1] \in Frames,
           Issued(i) \/ st[i] = "ready", Issued(j) \/ st[j] = "ready"
    PROVE  i = j
<1>a. ASSUME NEW k \in Id, Issued(k) \/ st[k] = "ready", k[1] \in Frames
      PROVE  \/ k = <<k[1], 0>> /\ (k[1] \in Sends => st[<<k[1], 0>>] # "err")
             \/ k[1] \in Sends /\ k[2] \in Conn /\ k = <<k[1], k[2]>> /\ st[k] # "new"
  <2>1. CASE k \in Own
    <3>1. k = <<k[1], 0>>  BY <2>1, Ids
    <3>2. k[1] \in Sends => Kind(k) = "send"  BY <2>1 DEF Kind
    <3> QED  BY <1>a, <3>1, <3>2 DEF Issued
  <2>2. CASE k \notin Own
    <3>1. /\ k[1] \in Sends \cup {"auth", "start"} /\ k[2] \in Conn /\ k = <<k[1], k[2]>>
      BY <2>2, Ids
    <3>2. k[1] \in Sends  BY <1>a, <3>1, FramesAssumption DEF Frames
    <3>3. st[k] # "new"  BY <1>a, <2>2 DEF Issued, Kind
    <3> QED  BY <3>1, <3>2, <3>3
  <2> QED  BY <2>1, <2>2
<1>r. \A f \in Sends, c \in Conn : st[<<f, c>>] # "new" =>
         st[<<f, 0>>] = "err" /\ \A d \in Conn : st[<<f, d>>] # "new" => c = d
  BY DEF LinkInv, ReplayInv
<1>1. \/ i = <<i[1], 0>> /\ (i[1] \in Sends => st[<<i[1], 0>>] # "err")
      \/ i[1] \in Sends /\ i[2] \in Conn /\ i = <<i[1], i[2]>> /\ st[i] # "new"
  BY <1>a
<1>2. \/ j = <<i[1], 0>> /\ (i[1] \in Sends => st[<<i[1], 0>>] # "err")
      \/ i[1] \in Sends /\ j[2] \in Conn /\ j = <<i[1], j[2]>> /\ st[j] # "new"
  BY <1>a
<1> QED  BY <1>1, <1>2, <1>r

(* The wire is read: the frame goes into the hands of a task, once.        *)
LEMMA ReadFrameKeeps ==
    ASSUME LinkInv, TypeOK', NEW c \in Conn, ReadFrame(c)
    PROVE  LinkInv'
<1> PICK id : id = Head(wire[c])  OBVIOUS
<1>w. wire[c] \in Seq(Id) /\ wire[c] # <<>>  BY DEF LinkInv, TypeOK, RemoteOK, ReadFrame
<1>t. /\ id \in Id /\ id \in Range(wire[c]) /\ Range(wire[c]) = Range(Tail(wire[c])) \cup {id}
      /\ IsInjective(Tail(wire[c])) /\ id \notin Range(Tail(wire[c]))
  BY <1>w, TailSeq DEF LinkInv, QueueInv
<1>d. \A d \in Conn : wire'[d] = IF d = c THEN Tail(wire[c]) ELSE wire[d]
  BY DEF ReadFrame, LinkInv, TypeOK, RemoteOK
<1>k. \A d \in Conn : tasks'[d] = IF d = c THEN tasks[c] \cup {<<id, 0>>} ELSE tasks[d]
  BY DEF ReadFrame, LinkInv, TypeOK, RemoteOK
<1>1. Settling  BY DEF ReadFrame, Settling, Settled
<1>2. QueuesShrink
  <2>1. wq' = wq  BY DEF ReadFrame
  <2> QED  BY <2>1, <1>t, <1>d, <1>k DEF QueuesShrink, LinkInv, QueueInv, Queued
<1>3. \A d \in Conn : Queued(d)' \subseteq Queued(d)  BY <1>2 DEF QueuesShrink, Queued
<1>4. \A i \in Id : Issued(i)' <=> Issued(i)  BY DEF ReadFrame, Issued
<1>5. HandledInv'
  <2> PICK f : f = id[1]  OBVIOUS
  <2>1. id \in Queued(c) /\ Issued(id)  BY <1>t DEF Queued, LinkInv, QueueInv
  <2>2. f \in Frames => handled[f] = 0  BY <2>1 DEF LinkInv, HandledInv
  <2>3. \A g \in Frames : handled'[g] = IF g = f THEN handled[g] + 1 ELSE handled[g]
    BY DEF ReadFrame, LinkInv, TypeOK, HistoryOK
  <2>4. ASSUME f \in Frames, NEW d \in Conn, NEW i \in Queued(d)', i[1] = f
        PROVE  FALSE
    <3>0. i \in Queued(d)  BY <1>3, <2>4
    <3>1. i \in Queued(d) /\ i \in Id
      BY <3>0 DEF LinkInv, TypeOK, LocalOK, RemoteOK, Queued, Range
    <3>2. Issued(i) /\ ConnOf(i) = d /\ ConnOf(id) = c  BY <2>1, <3>1 DEF LinkInv, QueueInv
    <3>3. i = id  BY <1>t, <2>1, <2>4, <3>1, <3>2, OneActive
    <3>4. d = c  BY <3>2, <3>3
    <3>5. id \notin Range(wq[c])  BY <1>t DEF LinkInv, QueueInv
    <3>6. wq' = wq  BY DEF ReadFrame
    <3> QED  BY <1>t, <1>d, <2>4, <3>3, <3>4, <3>5, <3>6 DEF Queued
  <2>5. ASSUME NEW g \in Frames
        PROVE  \/ handled'[g] = 0
               \/ /\ handled'[g] = 1
                  /\ \E i \in Id : i[1] = g /\ Issued(i)'
                  /\ \A d \in Conn : \A i \in Queued(d)' : i[1] # g
    <3>1. CASE g = f  BY <1>t, <1>4, <2>1, <2>2, <2>3, <2>4, <3>1
    <3>2. CASE g # f  BY <1>3, <1>4, <2>3, <3>2 DEF LinkInv, HandledInv
    <3> QED  BY <3>1, <3>2
  <2> QED  BY <2>5 DEF HandledInv
<1> QED  BY <1>1, <1>2, <1>5, SettlingKeeps, ShrinkKeeps DEF LinkInv

(* A request enters its queue: it is not in another one, nor handled.      *)
LEMMA EnqueueKeeps ==
    ASSUME LinkInv, TypeOK', NEW id \in Id, Enqueue(id)
    PROVE  LinkInv'
<1> PICK c : c = ConnOf(id)  OBVIOUS
<1>i. id \in Own \/ (id[2] \in Conn /\ id \notin Own)  BY Ids
<1>c. c \in Conn
  <2>1. CASE id \in Own
    <3>1. id[1] \in Frames /\ id = <<id[1], 0>>  BY <2>1, Ids
    <3>2. st[<<id[1], 0>>] = "ready"  BY <3>1 DEF Enqueue
    <3>3. via[id[1]] # 0  BY <3>1, <3>2 DEF LinkInv, CallerInv
    <3> QED  BY <2>1, <3>1, <3>3 DEF ConnOf, LinkInv, TypeOK, CallersOK
  <2>2. CASE id \notin Own  BY <1>i, <2>2 DEF ConnOf
  <2> QED  BY <2>1, <2>2
<1>e. /\ st[id] = "ready" /\ wq' = [wq EXCEPT ![c] = Append(@, id)]
      /\ st' = [st EXCEPT ![id] = IF Kind(id) = "send" THEN "ok" ELSE "blocked"]
      /\ UNCHANGED <<via, buffer, todo, cur, temp, conns, rl, wire, tasks, handled>>
  BY DEF Enqueue
<1>n. ~Issued(id)  BY <1>e DEF Issued
<1>q. \A d \in Conn : id \notin Queued(d)  BY <1>n DEF LinkInv, QueueInv
<1>w. \A d \in Conn : wq'[d] = IF d = c THEN Append(wq[c], id) ELSE wq[d]
  BY <1>e DEF LinkInv, TypeOK, LocalOK
<1>a. /\ Range(Append(wq[c], id)) = Range(wq[c]) \cup {id}
      /\ IsInjective(wq[c]) /\ id \notin Range(wq[c]) => IsInjective(Append(wq[c], id))
  BY <1>c, AppendSeq DEF LinkInv, TypeOK, LocalOK
<1>1. Settling
  <2>1. \A i \in Id : st'[i] = IF i = id THEN (IF Kind(id) = "send" THEN "ok" ELSE "blocked") ELSE st[i]
    BY <1>e DEF LinkInv, TypeOK, CallersOK
  <2> QED  BY <1>e, <2>1 DEF Settling, Settled
<1>2. \A i \in Id : Issued(i) => Issued(i)'  BY <1>1, SettledFacts
<1>3. \A i \in Id : ConnOf(i)' = ConnOf(i)  BY <1>1, SettledFacts
<1>4. Issued(id)'  BY <1>e DEF Issued, LinkInv, TypeOK, CallersOK
<1>5. \A d \in Conn : Queued(d)' = Queued(d) \cup (IF d = c THEN {id} ELSE {})
  BY <1>a, <1>e, <1>w DEF Queued
<1>6. \A d \in Conn : \A i \in Queued(d) : i \in Id /\ ConnOf(i) = d /\ Issued(i)
  BY DEF LinkInv, TypeOK, LocalOK, RemoteOK, Queued, Range, QueueInv
<1>7. QueueInv'
  <2> SUFFICES ASSUME NEW d \in Conn
               PROVE  /\ IsInjective(wq'[d]) /\ IsInjective(wire'[d])
                      /\ Range(wq'[d]) \cap Range(wire'[d]) = {}
                      /\ \A i \in Queued(d)' : ConnOf(i)' = d /\ Issued(i)'
    BY DEF QueueInv
  <2>1. /\ IsInjective(wq[d]) /\ IsInjective(wire[d]) /\ Range(wq[d]) \cap Range(wire[d]) = {}
        /\ id \notin Range(wq[d]) /\ id \notin Range(wire[d])
    BY <1>q DEF LinkInv, QueueInv, Queued
  <2>2. \A i \in Queued(d)' : ConnOf(i)' = d /\ Issued(i)'
    BY <1>2, <1>3, <1>4, <1>5, <1>6
  <2> QED  BY <1>a, <1>e, <1>w, <2>1, <2>2
<1>8. HandledInv'
  <2> SUFFICES ASSUME NEW f \in Frames, handled[f] # 0
               PROVE  /\ handled[f] = 1
                      /\ \E i \in Id : i[1] = f /\ Issued(i)'
                      /\ \A d \in Conn : \A i \in Queued(d)' : i[1] # f
    BY <1>e DEF HandledInv
  <2>1. PICK j \in Id : j[1] = f /\ Issued(j)  BY DEF LinkInv, HandledInv
  <2>2. id[1] # f  BY <1>e, <1>n, <2>1, OneActive
  <2> QED  BY <1>2, <1>5, <2>1, <2>2 DEF LinkInv, HandledInv
<1>9. TaskInv'
  <2>1. \A d \in Conn : \A t \in tasks[d] : t[1] \in Id  BY DEF LinkInv, TypeOK, RemoteOK
  <2> QED  BY <1>2, <1>3, <1>e, <2>1 DEF LinkInv, TaskInv
<1> QED  BY <1>1, <1>7, <1>8, <1>9, SettlingKeeps DEF LinkInv

-----------------------------------------------------------------------------
(* Callers.                                                                *)

(* A send fails: its frame joins the buffer, where it was not.             *)
LEMMA FailedKeeps ==
    ASSUME LinkInv, TypeOK', NEW f \in Sends, st[<<f, 0>>] \in {"new", "ready"}, Failed(f),
           UNCHANGED <<via, todo, cur, temp, conns, rl, wq, wire, tasks, handled>>
    PROVE  LinkInv'
<1>f. f \in Frames /\ <<f, 0>> \in Id /\ Kind(<<f, 0>>) = "send"  BY Ids, Kinds DEF Frames
<1>s. \A i \in Id : st'[i] = IF i = <<f, 0>> THEN "err" ELSE st[i]
  BY <1>f DEF Failed, LinkInv, TypeOK, CallersOK
<1>i. \A i \in Id : Issued(i)' <=> Issued(i)  BY <1>f, <1>s DEF Issued
<1>o. \A i \in Id : ConnOf(i)' = ConnOf(i)  BY DEF ConnOf
<1>c. \A g \in Sends \cup {"auth", "start"}, c \in Conn : st'[<<g, c>>] = st[<<g, c>>]
  BY <1>s, Ids
<1>d. \A c \in Conn : Queued(c)' = Queued(c) /\ \A i \in Queued(c) : i \in Id
  BY DEF LinkInv, TypeOK, LocalOK, RemoteOK, Queued, Range
<1>1. QueueInv'  BY <1>i, <1>o, <1>d DEF LinkInv, QueueInv
<1>2. HandledInv'  BY <1>i, <1>d DEF LinkInv, HandledInv
<1>3. TaskInv'
  <2>1. \A c \in Conn : \A t \in tasks[c] : t[1] \in Id  BY DEF LinkInv, TypeOK, RemoteOK
  <2> QED  BY <1>i, <1>o, <2>1 DEF LinkInv, TaskInv
<1>4. SendInv'
  <2>1. \A g \in Sends : <<g, 0>> \in Id  BY Ids DEF Frames
  <2> QED  BY <1>s, <2>1 DEF LinkInv, SendInv
<1>b. \A g \in Range(buffer) \cup Range(todo) : g \in Sends /\ st[<<g, 0>>] = "err" /\ g # f
  <2>1. \A g \in Range(buffer) \cup Range(todo) : g \in Sends
    BY DEF LinkInv, TypeOK, CallersOK, Range
  <2> QED  BY <2>1 DEF LinkInv, BufferInv
<1>5. Range(buffer') \subseteq Range(buffer) \cup {f} /\ IsInjective(buffer')
  <2> PICK b : b = IF Len(buffer) >= MaxBuffer THEN Tail(buffer) ELSE buffer  OBVIOUS
  <2>1. b \in Seq(Sends) /\ Range(b) \subseteq Range(buffer) /\ IsInjective(b)
    <3>1. buffer \in Seq(Sends) /\ IsInjective(buffer)
      BY DEF LinkInv, TypeOK, CallersOK, BufferInv
    <3>2. CASE Len(buffer) >= MaxBuffer
      <4>1. buffer # <<>>  BY <3>2, CapsAssumption
      <4> QED  BY <3>1, <3>2, <4>1, TailSeq
    <3>3. CASE ~(Len(buffer) >= MaxBuffer)  BY <3>1, <3>3
    <3> QED  BY <3>2, <3>3
  <2>2. buffer' = Append(b, f)  BY DEF Failed, Buffered
  <2>3. f \notin Range(b)  BY <1>b, <2>1
  <2>4. ASSUME NEW s \in Seq(Sends)
        PROVE  /\ Range(Append(s, f)) = Range(s) \cup {f}
               /\ IsInjective(s) /\ f \notin Range(s) => IsInjective(Append(s, f))
    BY AppendSeq
  <2> QED  BY <2>1, <2>2, <2>3, <2>4
<1>6. BufferInv'
  <2>1. /\ IsInjective(todo) /\ Range(buffer) \cap Range(todo) = {}
        /\ rl # "replay" => todo = <<>>
    BY DEF LinkInv, BufferInv
  <2>2. \A g \in Sends : <<g, 0>> \in Id  BY Ids DEF Frames
  <2>3. \A g \in Range(buffer') \cup Range(todo) : st'[<<g, 0>>] = "err"
    BY <1>s, <1>b, <1>5, <1>f, <2>2
  <2> QED  BY <1>b, <1>5, <2>1, <2>3 DEF BufferInv
<1>7. ReplayInv'
  <2> SUFFICES ASSUME NEW g \in Sends, NEW c \in Conn, st[<<g, c>>] # "new"
               PROVE  /\ st'[<<g, 0>>] = "err" /\ g \notin Range(buffer')
                      /\ g \in Range(todo) => c = temp /\ g = Head(todo)
                      /\ \A d \in Conn : st[<<g, d>>] # "new" => c = d
    BY <1>c DEF ReplayInv
  <2>1. /\ st[<<g, 0>>] = "err" /\ g \notin Range(buffer)
        /\ g \in Range(todo) => c = temp /\ g = Head(todo)
        /\ \A d \in Conn : st[<<g, d>>] # "new" => c = d
    BY DEF LinkInv, ReplayInv
  <2>2. g # f /\ <<g, 0>> \in Id  BY <2>1, Ids DEF Frames
  <2> QED  BY <1>s, <1>5, <2>1, <2>2
<1>8. SetupInv' /\ CallerInv'
  <2>1. \A c \in Conn : Greeted(c)' <=> Greeted(c)  BY <1>c DEF Greeted
  <2>2. \A g \in Sends, c \in Conn : Calling(g, c)' <=> Calling(g, c)  BY <1>c DEF Calling
  <2>3. SetupInv'
    <3>1. temp # 0 => temp \in Conn  BY DEF LinkInv, TypeOK, LoopOK
    <3>2. CASE temp = 0  BY <1>c, <3>2 DEF LinkInv, SetupInv
    <3>3. CASE temp # 0
      <4>1. rl = "replay" => \A g \in Sends : Calling(g, temp)' => todo # <<>> /\ g = Head(todo)
        BY <2>2, <3>1, <3>3 DEF LinkInv, SetupInv, Calling
      <4>2. rl = "swap" => Greeted(temp)' /\ \A g \in Sends : ~Calling(g, temp)'
        BY <2>1, <2>2, <3>1, <3>3 DEF LinkInv, SetupInv, Calling, Greeted
      <4> QED  BY <1>c, <3>1, <3>3, <4>1, <4>2 DEF LinkInv, SetupInv
    <3> QED  BY <3>2, <3>3
  <2>4. \A c \in Conn : Registered(c)' <=> Registered(c)  BY <2>1, <2>2 DEF Registered
  <2>5. \A g \in Frames : st'[<<g, 0>>] = "ready" => st[<<g, 0>>] = "ready"  BY <1>s, Ids
  <2>6. /\ cur # 0 => cur \in Conn
        /\ \A g \in Frames : via[g] # 0 => via[g] \in Conn
    BY DEF LinkInv, TypeOK, LoopOK, CallersOK
  <2> QED  BY <2>3, <2>4, <2>5, <2>6 DEF LinkInv, CallerInv
<1> QED  BY <1>1, <1>2, <1>3, <1>4, <1>6, <1>7, <1>8 DEF LinkInv

(* A caller takes the sender of the current connection, which is           *)
(* registered.                                                             *)
LEMMA BeginKeeps ==
    ASSUME LinkInv, TypeOK', NEW f \in Frames, st[<<f, 0>>] = "new", cur # 0,
           st' = [st EXCEPT ![<<f, 0>>] = "ready"], via' = [via EXCEPT ![f] = cur],
           UNCHANGED <<buffer, todo, cur, temp, conns, rl, wq, wire, tasks, handled>>
    PROVE  LinkInv'
<1>f. <<f, 0>> \in Id /\ cur \in Conn  BY Ids DEF LinkInv, TypeOK, LoopOK
<1>s. \A i \in Id : st'[i] = IF i = <<f, 0>> THEN "ready" ELSE st[i]
  BY <1>f DEF LinkInv, TypeOK, CallersOK
<1>v. \A g \in Frames : via'[g] = IF g = f THEN cur ELSE via[g]
  BY DEF LinkInv, TypeOK, CallersOK
<1>i. \A i \in Id : Issued(i)' <=> Issued(i)  BY <1>f, <1>s DEF Issued
<1>o. \A i \in Id : Issued(i) => ConnOf(i)' = ConnOf(i)
  <2> SUFFICES ASSUME NEW i \in Id, Issued(i)  PROVE ConnOf(i)' = ConnOf(i)  OBVIOUS
  <2>1. i # <<f, 0>>  BY DEF Issued
  <2>2. CASE i \in Own
    <3>1. i[1] \in Frames /\ i = <<i[1], 0>>  BY <2>2, Ids
    <3>2. i[1] # f  BY <2>1, <3>1
    <3> QED  BY <1>v, <2>2, <3>1, <3>2 DEF ConnOf
  <2>3. CASE i \notin Own  BY <2>3 DEF ConnOf
  <2> QED  BY <2>2, <2>3
<1>c. \A g \in Sends \cup {"auth", "start"}, c \in Conn : st'[<<g, c>>] = st[<<g, c>>]
  BY <1>s, Ids
<1>d. \A c \in Conn : Queued(c)' = Queued(c) /\ \A i \in Queued(c) : i \in Id
  BY DEF LinkInv, TypeOK, LocalOK, RemoteOK, Queued, Range
<1>e. \A g \in Sends : st[<<g, 0>>] = "err" => st'[<<g, 0>>] = "err"
  BY <1>s, Ids DEF Frames
<1>1. QueueInv'  BY <1>i, <1>o, <1>d DEF LinkInv, QueueInv
<1>2. HandledInv'  BY <1>i, <1>d DEF LinkInv, HandledInv
<1>3. TaskInv'
  <2>1. \A c \in Conn : \A t \in tasks[c] : t[1] \in Id  BY DEF LinkInv, TypeOK, RemoteOK
  <2> QED  BY <1>i, <1>o, <2>1 DEF LinkInv, TaskInv
<1>4. SendInv'
  <2>1. \A g \in Sends : <<g, 0>> \in Id  BY Ids DEF Frames
  <2> QED  BY <1>s, <2>1 DEF LinkInv, SendInv
<1>5. BufferInv'
  <2>1. \A g \in Range(buffer) \cup Range(todo) : g \in Sends
    BY DEF LinkInv, TypeOK, CallersOK, Range
  <2> QED  BY <1>e, <2>1 DEF LinkInv, BufferInv
<1>6. ReplayInv'  BY <1>c, <1>e DEF LinkInv, ReplayInv
<1>7. SetupInv' /\ CallerInv'
  <2>1. \A c \in Conn : Greeted(c)' <=> Greeted(c)  BY <1>c DEF Greeted
  <2>2. \A g \in Sends, c \in Conn : Calling(g, c)' <=> Calling(g, c)  BY <1>c DEF Calling
  <2>3. SetupInv'
    <3>1. temp # 0 => temp \in Conn  BY DEF LinkInv, TypeOK, LoopOK
    <3>2. CASE temp = 0  BY <1>c, <3>2 DEF LinkInv, SetupInv
    <3>3. CASE temp # 0
      <4>1. rl = "replay" => \A g \in Sends : Calling(g, temp)' => todo # <<>> /\ g = Head(todo)
        BY <2>2, <3>1, <3>3 DEF LinkInv, SetupInv, Calling
      <4>2. rl = "swap" => Greeted(temp)' /\ \A g \in Sends : ~Calling(g, temp)'
        BY <2>1, <2>2, <3>1, <3>3 DEF LinkInv, SetupInv, Calling, Greeted
      <4> QED  BY <1>c, <3>1, <3>3, <4>1, <4>2 DEF LinkInv, SetupInv
    <3> QED  BY <3>2, <3>3
  <2>4. \A c \in Conn : Registered(c)' <=> Registered(c)  BY <2>1, <2>2 DEF Registered
  <2>5. \A g \in Frames : st'[<<g, 0>>] = "ready" => g = f \/ st[<<g, 0>>] = "ready"
    BY <1>s, Ids
  <2>6. \A g \in Frames : via[g] # 0 => via[g] \in Conn
    BY DEF LinkInv, TypeOK, CallersOK
  <2> QED  BY <1>f, <1>v, <2>3, <2>4, <2>5, <2>6 DEF LinkInv, CallerInv
<1> QED  BY <1>1, <1>2, <1>3, <1>4, <1>5, <1>6, <1>7 DEF LinkInv

(* A step of a caller keeps the invariant.                                 *)
LEMMA CallerKeeps ==
    ASSUME LinkInv, TypeOK',
           (\E f \in Frames : Begin(f)) \/ (\E id \in Id : Caller(id)) \/ PollPush
    PROVE  LinkInv'
<1>q. \A c \in Conn : /\ IsInjective(wq[c]) /\ IsInjective(wire[c])
                      /\ Range(wq[c]) \cap Range(wire[c]) = {}
  BY DEF LinkInv, QueueInv
<1>r. ASSUME Settling, UNCHANGED <<wq, wire, tasks, handled>>
      PROVE  LinkInv'
  <2>1. QueuesShrink  BY <1>q, <1>r DEF QueuesShrink, Queued
  <2>2. \A c \in Conn : Queued(c)' \subseteq Queued(c)  BY <1>r DEF Queued
  <2>3. HandledInv'  BY <1>r, <2>2, SettledFacts, HandledKeeps
  <2> QED  BY <1>r, <2>1, <2>3, SettlingKeeps, ShrinkKeeps DEF LinkInv
<1>n. ASSUME NEW f \in Frames, f \notin Sends, st[<<f, 0>>] \in {"new", "ready"}, Failed(f),
             UNCHANGED <<via, todo, cur, temp, conns, rl, wq, wire, tasks, handled>>
      PROVE  LinkInv'
  <2>1. <<f, 0>> \in Id /\ <<f, 0>> \in Own /\ Kind(<<f, 0>>) # "send"  BY <1>n, Ids, Kinds
  <2>2. \A i \in Id : st'[i] = IF i = <<f, 0>> THEN "err" ELSE st[i]
    BY <1>n, <2>1 DEF Failed, LinkInv, TypeOK, CallersOK
  <2>3. buffer' = buffer  BY <1>n DEF Failed
  <2>4. Settling  BY <1>n, <2>1, <2>2, <2>3 DEF Settling, Settled
  <2> QED  BY <1>n, <1>r, <2>4
<1>1. ASSUME NEW f \in Frames, Begin(f)
      PROVE  LinkInv'
  <2>1. CASE Failed(f) /\ UNCHANGED via
    <3>1. UNCHANGED <<via, todo, cur, temp, conns, rl, wq, wire, tasks, handled>> /\ st[<<f, 0>>] = "new"
      BY <1>1, <2>1 DEF Begin
    <3> QED  BY <2>1, <3>1, <1>n, FailedKeeps
  <2>2. CASE /\ cur # 0 /\ st' = [st EXCEPT ![<<f, 0>>] = "ready"]
             /\ via' = [via EXCEPT ![f] = cur] /\ UNCHANGED buffer
    BY <1>1, <2>2, BeginKeeps DEF Begin
  <2> QED  BY <1>1, <2>1, <2>2 DEF Begin
<1>2. ASSUME NEW id \in Id, Enqueue(id)
      PROVE  LinkInv'
  BY <1>2, EnqueueKeeps
<1>3. ASSUME NEW id \in Id, WriteTaskClosed(id)
      PROVE  LinkInv'
  <2>u. UNCHANGED <<via, todo, cur, temp, conns, rl, wq, wire, tasks, handled>> /\ st[id] = "ready"
    BY <1>3 DEF WriteTaskClosed
  <2>1. CASE id \in Own
    <3>1. id[1] \in Frames /\ id = <<id[1], 0>> /\ Failed(id[1])  BY <1>3, <2>1, Ids DEF WriteTaskClosed
    <3>2. st[<<id[1], 0>>] = "ready"  BY <2>u, <3>1
    <3> QED  BY <2>u, <3>1, <3>2, <1>n, FailedKeeps
  <2>2. CASE id \notin Own
    <3>1. st' = [st EXCEPT ![id] = "err"] /\ buffer' = buffer  BY <1>3, <2>2 DEF WriteTaskClosed
    <3>2. \A i \in Id : st'[i] = IF i = id THEN "err" ELSE st[i]
      BY <3>1 DEF LinkInv, TypeOK, CallersOK
    <3>3. Kind(id) # "send"  BY <2>2 DEF Kind
    <3>4. Settling  BY <2>u, <3>1, <3>2, <3>3 DEF Settling, Settled
    <3> QED  BY <1>r, <2>u, <3>4
  <2> QED  BY <2>1, <2>2
<1>4. CASE PollPush
  <2>1. Settling  BY <1>4 DEF PollPush, Settling, Settled
  <2> QED  BY <1>4, <1>r, <2>1 DEF PollPush
<1> QED  BY <1>1, <1>2, <1>3, <1>4 DEF Caller

-----------------------------------------------------------------------------
(* The tasks of a connection, the server and the network.                  *)

(* So do steps that only settle requests and drain queues.                 *)
LEMMA QuietKeeps ==
    ASSUME LinkInv, TypeOK', Settling, QueuesShrink, UNCHANGED handled
    PROVE  LinkInv'
<1>1. \A c \in Conn : Queued(c)' \subseteq Queued(c)  BY DEF QueuesShrink, Queued
<1>2. HandledInv'  BY <1>1, SettledFacts, HandledKeeps
<1> QED  BY <1>2, SettlingKeeps, ShrinkKeeps DEF LinkInv

(* The queues of other connections stay, those of c shrink.                *)
LEMMA Shrunk ==
    ASSUME LinkInv, NEW c \in Conn,
           \A d \in Conn : d # c => wq'[d] = wq[d] /\ wire'[d] = wire[d] /\ tasks'[d] = tasks[d],
           IsInjective(wq'[c]), IsInjective(wire'[c]), Range(wq'[c]) \cap Range(wire'[c]) = {},
           Range(wq'[c]) \cup Range(wire'[c]) \subseteq Queued(c),
           \A t \in tasks'[c] : \E u \in tasks[c] : u[1] = t[1]
    PROVE  QueuesShrink
BY DEF LinkInv, QueueInv, Queued, QueuesShrink

(* A step of the write task: the frame moves from the queue to the wire.   *)
LEMMA WriteTaskKeeps ==
    ASSUME LinkInv, TypeOK', NEW c \in Conn, WriteTask(c)
    PROVE  LinkInv'
<1>q. /\ IsInjective(wq[c]) /\ IsInjective(wire[c]) /\ Range(wq[c]) \cap Range(wire[c]) = {}
      /\ wq[c] \in Seq(Id) /\ wire[c] \in Seq(Id)
  BY DEF LinkInv, QueueInv, TypeOK, LocalOK, RemoteOK
<1>1. CASE WriteFrame(c)
  <2> PICK id : id = Head(wq[c])  OBVIOUS
  <2> PICK x : x = IF srv[c] = "closed" THEN wire[c] ELSE Append(wire[c], id)  OBVIOUS
  <2>1. wq[c] # <<>>  BY <1>1 DEF WriteFrame
  <2>2. /\ id \in Id /\ Range(wq[c]) = Range(Tail(wq[c])) \cup {id}
        /\ IsInjective(Tail(wq[c])) /\ id \notin Range(Tail(wq[c]))
    BY <1>q, <2>1, TailSeq
  <2>3. id \notin Range(wire[c])  BY <1>q, <2>2
  <2>4. Range(x) \subseteq Range(wire[c]) \cup {id} /\ IsInjective(x)
    <3>1. /\ Range(Append(wire[c], id)) = Range(wire[c]) \cup {id}
          /\ IsInjective(wire[c]) /\ id \notin Range(wire[c]) => IsInjective(Append(wire[c], id))
      BY <1>q, <2>2, AppendSeq
    <3> QED  BY <1>q, <2>3, <3>1
  <2>5. \A d \in Conn : wq'[d] = IF d = c THEN Tail(wq[c]) ELSE wq[d]
    BY <1>1 DEF WriteFrame, LinkInv, TypeOK, LocalOK
  <2>6. \A d \in Conn : wire'[d] = IF d = c THEN x ELSE wire[d]
    BY <1>1 DEF WriteFrame, LinkInv, TypeOK, RemoteOK
  <2>7. tasks' = tasks /\ handled' = handled  BY <1>1 DEF WriteFrame
  <2>8. Range(Tail(wq[c])) \cap Range(x) = {}  BY <1>q, <2>2, <2>4
  <2>9. Range(Tail(wq[c])) \cup Range(x) \subseteq Queued(c)  BY <2>2, <2>4 DEF Queued
  <2>10. QueuesShrink
    <3>1. /\ wq'[c] = Tail(wq[c]) /\ wire'[c] = x
          /\ \A d \in Conn : d # c => wq'[d] = wq[d] /\ wire'[d] = wire[d] /\ tasks'[d] = tasks[d]
      BY <2>5, <2>6, <2>7
    <3> QED  BY <2>2, <2>4, <2>7, <2>8, <2>9, <3>1, Shrunk
  <2>11. Settling  BY <1>1 DEF WriteFrame, Settling, Settled
  <2> QED  BY <2>7, <2>10, <2>11, QuietKeeps
<1>2. ASSUME WriteExit(c)
      PROVE  LinkInv'
  <2>1. Settling
    <3>1. \A id \in Id : Settled(id)
      BY <1>2 DEF WriteExit, Wake, Settled
    <3> QED  BY <1>2, <3>1 DEF WriteExit, Settling
  <2>2. \A d \in Conn : wq'[d] = IF d = c THEN <<>> ELSE wq[d]
    BY <1>2 DEF WriteExit, LinkInv, TypeOK, LocalOK
  <2>3. wire' = wire /\ tasks' = tasks /\ handled' = handled  BY <1>2 DEF WriteExit
  <2>4. QueuesShrink
    <3>1. wq'[c] = <<>>  BY <2>2
    <3>2. IsInjective(wq'[c]) /\ Range(wq'[c]) = {}  BY <3>1, EmptyRange
    <3>3. \A d \in Conn : d # c => wq'[d] = wq[d]  BY <2>2
    <3>4. Range(wq'[c]) \cup Range(wire'[c]) \subseteq Queued(c)  BY <2>3, <3>2 DEF Queued
    <3> QED  BY <1>q, <2>3, <3>2, <3>3, <3>4, Shrunk
  <2> QED  BY <2>1, <2>3, <2>4, QuietKeeps
<1> QED  BY <1>1, <1>2 DEF WriteTask, WriteFails, WriteQueueClosed

(* A step of the read task: replies settle their requests.                 *)
LEMMA ReadTaskKeeps ==
    ASSUME LinkInv, TypeOK', NEW c \in Conn, ReadTask(c)
    PROVE  LinkInv'
<1>1. UNCHANGED <<via, buffer, todo, cur, temp, conns, rl, wq, wire, tasks, handled>>
  BY DEF ReadTask, ReadPush, ReadReply, ReadEof, ReadClear
<1>2. \A id \in Id : Settled(id)
  <2>1. CASE ReadPush(c) \/ ReadEof(c)  BY <2>1 DEF ReadPush, ReadEof, Settled
  <2>2. CASE ReadReply(c)
    <3>1. \/ st' = st
          \/ \E i \in Id, a \in {"refused", "ok"} : st[i] = "blocked" /\ st' = [st EXCEPT ![i] = a]
      <4> PICK id : id = Head(back[c])[1]  OBVIOUS
      <4>1. \/ st' = st
            \/ /\ id \in pend[c] /\ st[id] = "blocked"
               /\ \E a \in {"refused", "ok"} : st' = [st EXCEPT ![id] = a]
        BY <2>2 DEF ReadReply
      <4>2. id \in pend[c] => id \in Id  BY DEF LinkInv, TypeOK, LocalOK
      <4> QED  BY <4>1, <4>2
    <3> QED  BY <3>1 DEF Settled, LinkInv, TypeOK, CallersOK
  <2>3. CASE ReadClear(c)  BY <2>3 DEF ReadClear, Wake, Settled
  <2> QED  BY <2>1, <2>2, <2>3 DEF ReadTask
<1>3. Settling  BY <1>1, <1>2 DEF Settling
<1>4. QueuesShrink  BY <1>1 DEF LinkInv, QueueInv, Queued, QueuesShrink
<1> QED  BY <1>1, <1>3, <1>4, QuietKeeps

(* A step of the server, of its handlers or of the network.                *)
LEMMA ServerKeeps ==
    ASSUME LinkInv, TypeOK', NEW c \in Conn,
           Server(c) \/ HandlerReplies(c) \/ Push(c) \/ Disconnect(c) \/ ServerDown(c)
    PROVE  LinkInv'
<1>q. /\ IsInjective(wq[c]) /\ IsInjective(wire[c]) /\ Range(wq[c]) \cap Range(wire[c]) = {}
      /\ wire[c] \in Seq(Id)
  BY DEF LinkInv, QueueInv, TypeOK, LocalOK, RemoteOK
<1>r. ASSUME UNCHANGED <<st, via, buffer, todo, cur, temp, conns, rl, wq, handled>>,
             NEW x, IsInjective(x), Range(x) \subseteq Range(wire[c]),
             \A d \in Conn : wire'[d] = IF d = c THEN x ELSE wire[d],
             NEW T, \A d \in Conn : tasks'[d] = IF d = c THEN T ELSE tasks[d],
             \A t \in T : \E u \in tasks[c] : u[1] = t[1]
      PROVE  LinkInv'
  <2>1. Settling  BY <1>r DEF Settling, Settled
  <2>2. wq' = wq /\ wire'[c] = x /\ tasks'[c] = T /\ \A d \in Conn : d # c => wire'[d] = wire[d] /\ tasks'[d] = tasks[d]
    BY <1>r
  <2>3. Range(wq[c]) \cap Range(x) = {} /\ Range(wq[c]) \cup Range(x) \subseteq Queued(c)
    BY <1>q, <1>r DEF Queued
  <2>4. QueuesShrink  BY <1>q, <1>r, <2>2, <2>3, Shrunk
  <2> QED  BY <1>r, <2>1, <2>4, QuietKeeps
<1>w. wire \in [Conn -> Seq(Id)] /\ tasks \in [Conn -> SUBSET (Id \X (0 .. MaxReplies))]
  BY DEF LinkInv, TypeOK, RemoteOK
<1>e. IsInjective(<<>>) /\ Range(<<>>) \subseteq Range(wire[c])  BY EmptyRange
<1>1. CASE Authenticate(c)
  <2>1. IsInjective(Tail(wire[c])) /\ Range(Tail(wire[c])) \subseteq Range(wire[c])
    BY <1>1, <1>q, TailSeq DEF Authenticate
  <2>2. \A d \in Conn : wire'[d] = IF d = c THEN Tail(wire[c]) ELSE wire[d]
    BY <1>1, <1>w DEF Authenticate
  <2>3. tasks' = tasks /\ UNCHANGED <<st, via, buffer, todo, cur, temp, conns, rl, wq, handled>>
    BY <1>1 DEF Authenticate
  <2> PICK x : x = Tail(wire[c])  OBVIOUS
  <2> QED  BY <1>r, <2>1, <2>2, <2>3
<1>2. CASE ReadFrame(c)  BY <1>2, ReadFrameKeeps
<1>3. CASE HandlerReplies(c)
  <2>1. PICK t \in tasks[c] : \/ tasks' = [tasks EXCEPT ![c] = @ \ {t}]
                              \/ tasks' = [tasks EXCEPT ![c] = (@ \ {t}) \cup {<<t[1], t[2] + 1>>}]
    BY <1>3 DEF HandlerReplies
  <2> PICK T : T = tasks'[c]  OBVIOUS
  <2>2. \A d \in Conn : tasks'[d] = IF d = c THEN T ELSE tasks[d]  BY <1>w, <2>1
  <2>3. T = tasks[c] \ {t} \/ T = (tasks[c] \ {t}) \cup {<<t[1], t[2] + 1>>}  BY <1>w, <2>1
  <2>4. \A u \in T : \E v \in tasks[c] : v[1] = u[1]
    <3>1. <<t[1], t[2] + 1>>[1] = t[1]  OBVIOUS
    <3> QED  BY <2>3, <3>1
  <2>5. wire' = wire /\ UNCHANGED <<st, via, buffer, todo, cur, temp, conns, rl, wq, handled>>
    BY <1>3 DEF HandlerReplies
  <2>6. \A d \in Conn : wire'[d] = IF d = c THEN wire[c] ELSE wire[d]  BY <2>5
  <2> QED  BY <1>q, <1>r, <2>2, <2>4, <2>5, <2>6
<1>4. CASE Push(c)
  <2>1. UNCHANGED <<st, via, buffer, todo, cur, temp, conns, rl, wq, handled>> /\ wire' = wire /\ tasks' = tasks
    BY <1>4 DEF Push
  <2> QED  BY <1>q, <1>r, <2>1
<1>5. CASE Disconnect(c)
  <2>1. /\ UNCHANGED <<st, via, buffer, todo, cur, temp, conns, rl, wq, handled>> /\ tasks' = tasks
        /\ \A d \in Conn : wire'[d] = IF d = c THEN <<>> ELSE wire[d]
    BY <1>5, <1>w DEF Disconnect
  <2> PICK x : x = <<>>  OBVIOUS
  <2> QED  BY <1>e, <1>r, <2>1
<1>6. CASE ServerDown(c)
  <2>1. /\ UNCHANGED <<st, via, buffer, todo, cur, temp, conns, rl, wq, handled>>
        /\ \A d \in Conn : wire'[d] = IF d = c THEN <<>> ELSE wire[d]
        /\ \A d \in Conn : tasks'[d] = IF d = c THEN {} ELSE tasks[d]
    BY <1>6, <1>w DEF ServerDown
  <2> PICK x, T : x = <<>> /\ T = {}  OBVIOUS
  <2> QED  BY <1>e, <1>r, <2>1
<1> QED  BY <1>1, <1>2, <1>3, <1>4, <1>5, <1>6 DEF Server

-----------------------------------------------------------------------------
(* The reconnect loop.                                                     *)

(* What a step of the loop leaves alone when it issues no request.         *)
LEMMA LoopRest ==
    ASSUME LinkInv, UNCHANGED <<st, via, wq, wire, tasks, handled>>
    PROVE  QueueInv' /\ HandledInv' /\ TaskInv' /\ SendInv'
<1>1. \A id : Issued(id)' <=> Issued(id)  BY DEF Issued
<1>2. \A id : ConnOf(id)' = ConnOf(id)  BY DEF ConnOf
<1>3. \A c : Queued(c)' = Queued(c)  BY DEF Queued
<1>4. QueueInv'  BY <1>1, <1>2, <1>3 DEF LinkInv, QueueInv
<1>5. HandledInv'  BY <1>1, <1>3 DEF LinkInv, HandledInv
<1>6. TaskInv'  BY <1>1, <1>2 DEF LinkInv, TaskInv
<1>7. SendInv'  BY DEF LinkInv, SendInv
<1> QED  BY <1>4, <1>5, <1>6, <1>7

(* The callback makes its call on the connection that is set up.           *)
LEMMA CallbackCallsKeeps ==
    ASSUME LinkInv, TypeOK', CallbackCalls
    PROVE  LinkInv'
<1> USE DEF LinkInv
<1> PICK f, a : /\ f = (IF rl = "replay" THEN Head(todo) ELSE rl)
                /\ a = (IF connected[temp] THEN "ready" ELSE "err")
  OBVIOUS
<1>t. temp \in Conn /\ temp <= conns /\ temp # 0
  BY DEF CallbackCalls, InCall, SetupInv, TypeOK, LoopOK
<1>f. f \in Sends \cup {"auth", "start"}
  BY TailSeq DEF CallbackCalls, InCall, TypeOK, CallersOK
<1>u. /\ st[<<f, temp>>] = "new" /\ st' = [st EXCEPT ![<<f, temp>>] = a] /\ a \in {"ready", "err"}
      /\ UNCHANGED <<via, buffer, todo, cur, temp, conns, rl, wq, wire, tasks, handled>>
  BY DEF CallbackCalls, Current
<1>d. <<f, temp>> \in Id /\ <<f, temp>> \notin Own /\ Kind(<<f, temp>>) = "call"
  BY <1>f, <1>t, Ids, Kinds
<1>s. \A id \in Id : st'[id] = IF id = <<f, temp>> THEN a ELSE st[id]
  BY <1>u, <1>d DEF TypeOK, CallersOK
<1>o. \A g \in Frames : st'[<<g, 0>>] = st[<<g, 0>>]  BY <1>s, <1>d, Ids
<1>c. \A g \in Sends \cup {"auth", "start"}, c \in Conn :
         st'[<<g, c>>] = IF g = f /\ c = temp THEN a ELSE st[<<g, c>>]
  BY <1>s, Ids
<1>i. \A id \in Id : Issued(id) => Issued(id)'  BY <1>u, <1>d, <1>s DEF Issued
<1>1. QueueInv' /\ TaskInv'
  <2>1. \A id : ConnOf(id)' = ConnOf(id)  BY <1>u DEF ConnOf
  <2>2. \A c \in Conn : Queued(c)' = Queued(c) /\ \A id \in Queued(c) : id \in Id
    BY <1>u DEF TypeOK, LocalOK, RemoteOK, Queued, Range
  <2>3. QueueInv'  BY <1>i, <1>u, <2>1, <2>2 DEF QueueInv
  <2>4. \A c \in Conn : \A t \in tasks[c] : t[1] \in Id  BY DEF TypeOK, RemoteOK
  <2>5. TaskInv'  BY <1>i, <1>u, <2>1, <2>4 DEF TaskInv
  <2> QED  BY <2>3, <2>5
<1>2. HandledInv'
  <2>1. \A c \in Conn : Queued(c)' \subseteq Queued(c)  BY <1>u DEF Queued
  <2> QED  BY <1>i, <1>u, <2>1, HandledKeeps
<1>3. SendInv'  BY <1>o DEF SendInv, Frames
<1>4. BufferInv'
  <2>1. \A g \in Range(buffer) \cup Range(todo) : g \in Frames
    BY DEF TypeOK, CallersOK, Range, Frames
  <2> QED  BY <1>o, <1>u, <2>1 DEF BufferInv
<1>5. ReplayInv'
  <2> SUFFICES ASSUME NEW g \in Sends, NEW c \in Conn, st'[<<g, c>>] # "new"
               PROVE  /\ st[<<g, 0>>] = "err" /\ g \notin Range(buffer)
                      /\ g \in Range(todo) => c = temp /\ g = Head(todo)
                      /\ \A d \in Conn : st'[<<g, d>>] # "new" => c = d
    BY <1>o, <1>u DEF ReplayInv, Frames
  <2>r. \A d \in Conn : st[<<g, d>>] # "new" =>
           /\ st[<<g, 0>>] = "err" /\ g \notin Range(buffer)
           /\ g \in Range(todo) => d = temp /\ g = Head(todo)
           /\ \A e \in Conn : st[<<g, e>>] # "new" => d = e
    BY DEF ReplayInv
  <2>1. CASE g = f
    <3>1. rl = "replay" /\ todo # <<>> /\ g = Head(todo)
      BY <2>1, FramesAssumption DEF CallbackCalls, InCall
    <3>2. g \in Range(todo)  BY <3>1, TailSeq DEF TypeOK, CallersOK
    <3>3. st[<<g, 0>>] = "err" /\ g \notin Range(buffer)  BY <3>2 DEF BufferInv
    <3>4. \A d \in Conn : st'[<<g, d>>] # "new" => d = temp  BY <1>c, <2>r, <3>2
    <3> QED  BY <3>1, <3>3, <3>4
  <2>2. CASE g # f  BY <1>c, <2>r, <2>2
  <2> QED  BY <2>1, <2>2
<1>g. \A c \in Conn : Greeted(c) => Greeted(c)'  BY <1>c, <1>u DEF Greeted
<1>6. SetupInv'
  <2>1. \A c \in Conn, g \in Sends \cup {"auth", "start"} : c > conns => st'[<<g, c>>] = "new"
    <3> SUFFICES ASSUME NEW c \in Conn, NEW g \in Sends \cup {"auth", "start"}, c > conns
                 PROVE  st'[<<g, c>>] = "new"
      OBVIOUS
    <3>1. c # temp  BY <1>t DEF TypeOK, LoopOK, Conn
    <3> QED  BY <1>c, <3>1 DEF SetupInv
  <2>2. CASE rl \in {"auth", "start"}
    <3>1. \A g \in Sends : g # f  BY <2>2, FramesAssumption
    <3>2. \A g \in Sends : st'[<<g, temp>>] = "new"  BY <1>c, <1>t, <2>2, <3>1 DEF SetupInv
    <3> QED  BY <1>u, <2>1, <2>2, <3>2 DEF SetupInv
  <2>3. CASE rl = "replay"
    <3>1. todo # <<>> /\ f = Head(todo)  BY <2>3 DEF CallbackCalls, InCall
    <3>2. f \in Sends  BY <3>1, TailSeq DEF TypeOK, CallersOK
    <3>3. st'[<<"start", temp>>] = "ok"
      <4>1. "start" # f  BY <3>2, FramesAssumption
      <4> QED  BY <1>c, <1>t, <2>3, <4>1 DEF SetupInv
    <3>4. \A g \in Sends : Calling(g, temp)' => g = Head(todo)
      BY <1>c, <1>t, <1>u, <2>3, <3>1 DEF SetupInv, Calling
    <3> QED  BY <1>u, <2>1, <2>3, <3>1, <3>3, <3>4 DEF SetupInv
  <2> QED  BY <2>2, <2>3 DEF CallbackCalls, InCall
<1>7. CallerInv'
  <2>1. ASSUME NEW c \in Conn, Registered(c)
        PROVE  Registered(c)'
    BY <1>c, <1>g, <1>u, <2>1 DEF Registered, Calling
  <2>2. cur # 0 => cur \in Conn  BY DEF TypeOK, LoopOK
  <2>3. \A g \in Frames : via[g] # 0 => via[g] \in Conn  BY DEF TypeOK, CallersOK
  <2> QED  BY <1>o, <1>u, <2>1, <2>2, <2>3 DEF CallerInv
<1> QED  BY <1>1, <1>2, <1>3, <1>4, <1>5, <1>6, <1>7

(* A step of the reconnect loop.                                           *)
LEMMA LoopKeeps ==
    ASSUME LinkInv, TypeOK', ReconnectLoop \/ ConnectFails
    PROVE  LinkInv'
<1> USE DEF LinkInv
<1>t. /\ temp # 0 => temp \in Conn
      /\ cur # 0 => cur \in Conn
      /\ \A f \in Frames : via[f] # 0 => via[f] \in Conn
      /\ \A c \in Conn : c # 0
  BY Ids DEF TypeOK, LoopOK, CallersOK
<1>e. Range(<<>>) = {} /\ IsInjective(<<>>)  BY EmptyRange
<1>q. \A c \in Conn : /\ IsInjective(wq[c]) /\ IsInjective(wire[c])
                      /\ Range(wq[c]) \cap Range(wire[c]) = {}
  BY DEF QueueInv
<1>1. CASE ConnectOk
  <2>u. /\ UNCHANGED <<st, via, buffer, todo, cur, wq, wire, tasks, handled>>
        /\ temp' = conns + 1 /\ conns' = conns + 1 /\ rl' = "auth" /\ rl \in {"init", "backoff"}
        /\ conns + 1 \in Conn /\ conns \in Nat
    BY <1>1, CapsAssumption DEF ConnectOk, TypeOK, LoopOK, Conn
  <2>1. todo = <<>>  BY <2>u DEF BufferInv
  <2>2. BufferInv'  BY <2>u, <2>1 DEF BufferInv
  <2>3. ReplayInv'  BY <2>u, <2>1, <1>e DEF ReplayInv
  <2>4. SetupInv'
    <3>1. \A g \in Sends : st[<<g, conns + 1>>] = "new"  BY <2>u DEF SetupInv
    <3>2. \A c \in Conn : c > conns + 1 => c > conns  BY <2>u DEF Conn
    <3> QED  BY <2>u, <3>1, <3>2 DEF SetupInv
  <2>5. CallerInv'
    <3>1. ASSUME NEW c \in Conn, Registered(c)
          PROVE  Registered(c)'
      <4>1. c <= conns /\ c \in Nat  BY <3>1, CapsAssumption DEF Registered, Conn
      <4>2. c # conns + 1 /\ c <= conns + 1  BY <2>u, <4>1
      <4> QED  BY <2>u, <3>1, <4>2 DEF Registered, Greeted, Calling
    <3> QED  BY <2>u, <3>1, <1>t DEF CallerInv
  <2> QED  BY <2>u, <2>2, <2>3, <2>4, <2>5, LoopRest
<1>2. CASE CallbackCalls  BY <1>2, CallbackCallsKeeps
<1>3. CASE AuthAnswered
  <2>u. /\ UNCHANGED <<st, via, buffer, todo, cur, temp, conns, wq, wire, tasks, handled>>
        /\ rl = "auth" /\ rl' \in {"start", "swap"}
        /\ rl' = "swap" => st[<<"auth", temp>>] = "refused"
    BY <1>3 DEF AuthAnswered, Current
  <2>1. BufferInv'  BY <2>u DEF BufferInv
  <2>2. ReplayInv'  BY <2>u DEF ReplayInv
  <2>3. SetupInv'
    <3>1. temp # 0 /\ \A g \in Sends : st[<<g, temp>>] = "new"  BY <2>u DEF SetupInv
    <3> QED  BY <2>u, <3>1 DEF SetupInv, Greeted, Calling
  <2>4. CallerInv'  BY <2>u DEF CallerInv, Registered, Greeted, Calling
  <2> QED  BY <2>u, <2>1, <2>2, <2>3, <2>4, LoopRest
<1>4. CASE StartAnswered
  <2>u. /\ UNCHANGED <<st, via, cur, temp, conns, wq, wire, tasks, handled>>
        /\ rl = "start" /\ rl' = "replay" /\ st[<<"start", temp>>] = "ok"
        /\ todo' = buffer /\ buffer' = <<>>
    BY <1>4 DEF StartAnswered, Current
  <2>1. BufferInv'
    <3>1. Range(buffer') = {} /\ IsInjective(buffer')  BY <1>e, <2>u
    <3> QED  BY <2>u, <3>1 DEF BufferInv
  <2>2. ReplayInv'
    <3>1. Range(buffer') = {}  BY <1>e, <2>u
    <3> QED  BY <2>u, <3>1 DEF ReplayInv
  <2>3. SetupInv'
    <3>1. temp # 0 /\ \A g \in Sends : st[<<g, temp>>] = "new"  BY <2>u DEF SetupInv
    <3> QED  BY <2>u, <3>1 DEF SetupInv, Greeted, Calling
  <2>4. CallerInv'  BY <2>u DEF CallerInv, Registered, Greeted, Calling
  <2> QED  BY <2>u, <2>1, <2>2, <2>3, <2>4, LoopRest
<1>5. CASE ReplayAnswered
  <2>u. /\ UNCHANGED <<st, via, buffer, cur, temp, conns, rl, wq, wire, tasks, handled>>
        /\ rl = "replay" /\ todo # <<>> /\ st[<<Head(todo), temp>>] = "ok"
        /\ todo' = Tail(todo)
    BY <1>5 DEF ReplayAnswered, Current
  <2>1. /\ Range(todo) = Range(todo') \cup {Head(todo)}
        /\ IsInjective(todo') /\ Head(todo) \notin Range(todo')
    BY <2>u, TailSeq DEF TypeOK, CallersOK, BufferInv
  <2>2. BufferInv'
    <3>1. Range(todo') \subseteq Range(todo)  BY <2>1
    <3> QED  BY <2>u, <2>1, <3>1 DEF BufferInv
  <2>3. ReplayInv'
    <3>1. \A f \in Sends, c \in Conn : st[<<f, c>>] # "new" => f \notin Range(todo')
      BY <2>1 DEF ReplayInv
    <3> QED  BY <2>u, <3>1 DEF ReplayInv
  <2>4. SetupInv'
    <3>1. \A g \in Sends : ~Calling(g, temp)  BY <2>u DEF SetupInv, Calling
    <3> QED  BY <2>u, <3>1 DEF SetupInv, Calling
  <2>5. CallerInv'  BY <2>u DEF CallerInv, Registered, Greeted, Calling
  <2> QED  BY <2>u, <2>2, <2>3, <2>4, <2>5, LoopRest
<1>6. CASE ReplayDone
  <2>u. /\ UNCHANGED <<st, via, buffer, cur, temp, conns, wq, wire, tasks, handled>>
        /\ rl = "replay" /\ rl' = "swap" /\ todo' = <<>>
        /\ todo # <<>> => st[<<Head(todo), temp>>] = "err"
    BY <1>6 DEF ReplayDone, Current
  <2>0. Range(todo') = {} /\ IsInjective(todo')  BY <1>e, <2>u
  <2>1. BufferInv'  BY <2>u, <2>0 DEF BufferInv
  <2>2. ReplayInv'  BY <2>u, <2>0 DEF ReplayInv
  <2>3. SetupInv'
    <3>1. \A g \in Sends : ~Calling(g, temp)  BY <2>u DEF SetupInv, Calling
    <3> QED  BY <2>u, <3>1 DEF SetupInv, Calling, Greeted
  <2>4. CallerInv'  BY <2>u DEF CallerInv, Registered, Greeted, Calling
  <2> QED  BY <2>u, <2>1, <2>2, <2>3, <2>4, LoopRest
<1>7. CASE CallbackFails
  <2>u. /\ UNCHANGED <<st, via, buffer, todo, cur, conns, wq, wire, tasks, handled>>
        /\ rl \in {"auth", "start"} /\ rl' \in {"backoff", "none"} /\ temp' = 0
    BY <1>7 DEF CallbackFails
  <2>1. BufferInv' /\ todo = <<>>  BY <2>u DEF BufferInv
  <2>2. ReplayInv'  BY <1>e, <2>u, <2>1 DEF ReplayInv
  <2>3. SetupInv'
    <3>1. 0 <= conns  BY DEF TypeOK, LoopOK
    <3> QED  BY <2>u, <3>1 DEF SetupInv
  <2>4. CallerInv'
    <3>1. ASSUME NEW c \in Conn, Registered(c)  PROVE Registered(c)'
      BY <1>t, <2>u, <3>1 DEF Registered, Greeted, Calling
    <3> QED  BY <1>t, <2>u, <3>1 DEF CallerInv
  <2> QED  BY <2>u, <2>1, <2>2, <2>3, <2>4, LoopRest
<1>8. CASE Swap
  <2>u. /\ UNCHANGED <<st, via, buffer, todo, conns, wq, wire, tasks, handled>>
        /\ rl = "swap" /\ rl' = "wait" /\ temp' = 0 /\ cur' = temp
    BY <1>8 DEF Swap
  <2>1. BufferInv' /\ todo = <<>>  BY <2>u DEF BufferInv
  <2>2. ReplayInv'  BY <1>e, <2>u, <2>1 DEF ReplayInv
  <2>3. SetupInv'
    <3>1. 0 <= conns  BY DEF TypeOK, LoopOK
    <3> QED  BY <2>u, <3>1 DEF SetupInv
  <2>4. CallerInv'
    <3>1. ASSUME NEW c \in Conn, Registered(c)  PROVE Registered(c)'
      BY <1>t, <2>u, <3>1 DEF Registered, Greeted, Calling
    <3>2. temp \in Conn  BY <1>t, <2>u DEF SetupInv
    <3>3. Greeted(temp) /\ temp <= conns /\ \A g \in Sends : ~Calling(g, temp)
      BY <2>u DEF SetupInv
    <3> PICK d \in Conn : d = temp  BY <3>2
    <3>4. Registered(d)'  BY <1>t, <2>u, <3>3 DEF Registered, Greeted, Calling
    <3>5. Registered(cur)'  BY <2>u, <3>4 DEF Registered, Greeted, Calling
    <3> QED  BY <1>t, <2>u, <3>1, <3>5 DEF CallerInv
  <2> QED  BY <2>u, <2>1, <2>2, <2>3, <2>4, LoopRest
<1>9. CASE ConnectionLost \/ ConnectFails
  <2>1. Settling  BY <1>9 DEF ConnectionLost, ConnectFails, Settling, Settled, Setup
  <2>2. UNCHANGED <<wq, wire, tasks, handled>>  BY <1>9 DEF ConnectionLost, ConnectFails
  <2>3. QueuesShrink  BY <1>q, <2>2 DEF QueuesShrink, Queued
  <2> QED  BY <2>1, <2>2, <2>3, QuietKeeps
<1> QED  BY <1>1, <1>2, <1>3, <1>4, <1>5, <1>6, <1>7, <1>8, <1>9 DEF ReconnectLoop

-----------------------------------------------------------------------------
(* The theorems.                                                           *)

(* The initial state has the invariant.                                    *)
LEMMA InitLink ==
    ASSUME Init
    PROVE  LinkInv
<1>1. TypeOK  BY InitType
<1>2. \A c \in Conn : wq[c] = <<>> /\ wire[c] = <<>> /\ tasks[c] = {}  BY DEF Init, All
<1>3. \A c \in Conn : Range(wq[c]) = {} /\ Range(wire[c]) = {} /\ IsInjective(wq[c]) /\ IsInjective(wire[c])
  BY <1>2, EmptyRange
<1>4. QueueInv  BY <1>3 DEF QueueInv, Queued
<1>5. BufferInv
  <2>1. Range(buffer) = {} /\ Range(todo) = {} /\ IsInjective(buffer) /\ IsInjective(todo)
    BY EmptyRange DEF Init
  <2> QED  BY <2>1 DEF BufferInv, Init
<1>s. \A id \in Id : st[id] = "new"  BY DEF Init
<1>c. \A f \in Sends \cup {"auth", "start"}, c \in Conn : st[<<f, c>>] = "new"  BY <1>s, Ids
<1>o. \A f \in Frames : st[<<f, 0>>] = "new"  BY <1>s, Ids
<1>6. ReplayInv  BY <1>c DEF ReplayInv
<1>7. HandledInv  BY DEF Init, HandledInv
<1>8. SetupInv
  <2>1. rl = "init" /\ temp = 0 /\ conns = 0  BY DEF Init
  <2> QED  BY <1>c, <2>1 DEF SetupInv
<1>9. CallerInv
  <2>1. cur = 0 /\ \A f \in Frames : via[f] = 0  BY DEF Init
  <2> QED  BY <1>o, <2>1 DEF CallerInv
<1>10. TaskInv  BY <1>2 DEF TaskInv
<1>11. SendInv  BY <1>o DEF SendInv, Frames
<1> QED  BY <1>1, <1>4, <1>5, <1>6, <1>7, <1>8, <1>9, <1>10, <1>11 DEF LinkInv

(* Stuttering keeps it.                                                    *)
LEMMA LinkStutters ==
    ASSUME LinkInv, UNCHANGED vars
    PROVE  LinkInv'
<1>1. UNCHANGED <<st, via, buffer, todo, cur, temp, conns, handed, rl>>  BY DEF vars
<1>2. UNCHANGED <<connected, wq, writer, reader, pend, pushq>>  BY DEF vars
<1>3. UNCHANGED <<wire, back, srv, torn, tasks, pushes, handled, late>>  BY DEF vars
<1>4. TypeOK'
  BY <1>1, <1>2, <1>3 DEF LinkInv, TypeOK, CallersOK, LoopOK, LocalOK, RemoteOK, HistoryOK
<1>5. Settling  BY <1>1 DEF Settling, Settled
<1>6. QueuesShrink  BY <1>2, <1>3 DEF LinkInv, QueueInv, QueuesShrink, Queued
<1> QED  BY <1>3, <1>4, <1>5, <1>6, QuietKeeps

(* Every step keeps it.                                                    *)
LEMMA LinkSteps ==
    ASSUME LinkInv, Next
    PROVE  LinkInv'
<1>1. TypeOK  BY DEF LinkInv
<1>2. CASE (\E f \in Frames : Begin(f)) \/ (\E id \in Id : Caller(id)) \/ PollPush
  BY <1>1, <1>2, CallerType, CallerKeeps
<1>3. CASE ReconnectLoop \/ ConnectFails  BY <1>1, <1>3, LoopType, LoopKeeps
<1>4. CASE \E c \in Conn : WriteTask(c)  BY <1>1, <1>4, WriteTaskType, WriteTaskKeeps
<1>5. CASE \E c \in Conn : ReadTask(c)  BY <1>1, <1>5, ReadTaskType, ReadTaskKeeps
<1>6. CASE \E c \in Conn : \/ Server(c) \/ HandlerReplies(c) \/ Push(c)
                           \/ Disconnect(c) \/ ServerDown(c)
  BY <1>1, <1>6, ServerType, ServerKeeps
<1> QED  BY <1>2, <1>3, <1>4, <1>5, <1>6 DEF Next

(* The inductive invariant of the link holds in every reachable state, for *)
(* any number of frames, connections and replies and any capacity.         *)
THEOREM LinkInvHolds == Spec => []LinkInv
<1>1. Init => LinkInv  BY InitLink
<1>2. LinkInv /\ [Next]_vars => LinkInv'  BY LinkSteps, LinkStutters
<1> QED  BY <1>1, <1>2, PTL DEF Spec

(* send_or_buffer keeps what it could not send and the reconnect callback  *)
(* replays it, yet the daemon's handlers get no frame twice, however often *)
(* connections are lost in between.                                        *)
THEOREM FramesHandledOnce == Spec => []HandledOnce
<1>1. LinkInv => HandledOnce  BY DEF LinkInv, HandledInv, HandledOnce
<1> QED  BY <1>1, LinkInvHolds, PTL

(* A frame of the client is queued, on the wire or handled on a connection *)
(* only after SessionStart was acknowledged there (or Auth refused) and    *)
(* after the replay of the buffered frames ended.                          *)
THEOREM SessionsRegisterFirst == Spec => []RegisteredFirst
<1>1. ASSUME LinkInv
      PROVE  RegisteredFirst
  <2> SUFFICES ASSUME NEW c \in Conn, NEW f \in Frames,
                      \/ <<f, 0>> \in Queued(c)
                      \/ \E n \in 0 .. MaxReplies : <<<<f, 0>>, n>> \in tasks[c]
               PROVE  /\ st[<<"start", c>>] = "ok" \/ st[<<"auth", c>>] = "refused"
                      /\ \A g \in Sends : st[<<g, c>>] \notin {"ready", "blocked"}
    BY DEF RegisteredFirst, Queued
  <2>1. ConnOf(<<f, 0>>) = c
    <3>1. CASE <<f, 0>> \in Queued(c)  BY <1>1, <3>1 DEF LinkInv, QueueInv
    <3>2. CASE \E n \in 0 .. MaxReplies : <<<<f, 0>>, n>> \in tasks[c]
      <4>1. PICK n \in 0 .. MaxReplies : <<<<f, 0>>, n>> \in tasks[c]  BY <3>2
      <4>2. <<<<f, 0>>, n>>[1] = <<f, 0>>  OBVIOUS
      <4> QED  BY <1>1, <4>1, <4>2 DEF LinkInv, TaskInv
    <3> QED  BY <3>1, <3>2
  <2>2. via[f] = c /\ c # 0  BY <2>1, Conns, Ids
  <2>3. Registered(c)  BY <1>1, <2>2 DEF LinkInv, CallerInv
  <2> QED  BY <2>3 DEF Registered, Greeted, Calling
<1> QED  BY <1>1, LinkInvHolds, PTL
=============================================================================
