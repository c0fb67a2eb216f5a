-------------------------- MODULE ChatThreads_proofs --------------------------
(***************************************************************************)
(* Theorems about ChatThreads, for any sets of sessions and threads, any   *)
(* threads on disk at the start and any number of inputs and failures: the *)
(* state is well typed, a session that writes holds its claim unless the   *)
(* claim was dropped under it, files follow memory unless two tasks write  *)
(* one thread at once, and the claims implement ThreadLocks.               *)
(*                                                                         *)
(* The inductive invariant is TypeOK with four parts, each needed by the   *)
(* next: what can be on its way between a client and the daemon (LinkInv), *)
(* who holds the claim on the thread a session was given (HeldInv), when a *)
(* session has a handler (TaskInv), and how far memory may be ahead of the *)
(* file (FileInv).                                                         *)
(***************************************************************************)
EXTENDS ChatThreads, TLAPS

-----------------------------------------------------------------------------
(* The invariant.                                                          *)

(* Requests and replies.  A client that waits has one request on its way or *)
(* its reply, never both; what a client no longer waits for is a resume it  *)
(* gave up, the ChatEnd of a cancelled one, or left by one that is gone.    *)
LinkInv ==
    /\ \A m \in net :
          /\ m.kind = "start" /\ m.live =>
                /\ answer[m.s] = Nobody
                /\ pc[m.s] \in IF m.t = Nobody THEN {"create"} ELSE {"resume", "resume2"}
          /\ m.kind = "start" /\ ~m.live /\ m.t = Nobody => pc[m.s] = "gone"
          /\ m.kind = "end" /\ m.live => pc[m.s] = "leaving" /\ answer[m.s] = Nobody
          /\ m.kind = "bye" => pc[m.s] = "gone" /\ ~m.live
    /\ \A m, n \in net : m.live /\ n.live /\ m.s = n.s => m = n
    /\ \A s \in Sessions :
          /\ answer[s] # Nobody =>
                /\ pc[s] \in {"resume", "resume2", "create", "leaving"}
                /\ answer[s].err = "ok" <=> answer[s].t \in Threads
                /\ pc[s] = "create" => answer[s].err = "ok"
          /\ ~InChat(s) => cur[s] = Nobody

(* The thread a session is on, or was just given.                          *)
Granted(s) == IF answer[s] # Nobody /\ answer[s].err = "ok" THEN answer[s].t ELSE cur[s]

(* It holds the claim on that thread in every place of the chat.           *)
HeldInv ==
    \A s \in Sessions \ lost :
       InChat(s) /\ Granted(s) # Nobody => claims[Granted(s)].owner = s

(* A session has a handler only while its client waits for one.            *)
TaskInv ==
    \A s \in Sessions :
       /\ pc[s] \notin {"busy", "send", "gone"} => task[s].todo = <<>>
       /\ pc[s] = "send" => task[s].todo \in {<<>>, <<"load", "save">>, <<"save">>}

(* Memory is ahead of the file by the one write that is under way.         *)
FileAt(t) ==
    /\ Unflushed(t) = {} => file[t] = mem[t]
    /\ \A k \in Tasks : k \in Unflushed(t) =>
          /\ Unflushed(t) = {k}
          /\ At(k, "file") => mem[t] = IF file[t] = Absent THEN <<task[k].msg>>
                                      ELSE Append(file[t], task[k].msg)
          /\ At(k, "unlink") => mem[t] = Absent /\ file[t] # Absent

FileInv == \A t \in Threads \ mixed : FileAt(t)

USE DEF session, client, link, store, daemon

-----------------------------------------------------------------------------
(* Types.                                                                  *)

(* Metadata that is read is metadata.                                      *)
LEMMA MetaType ==
    ASSUME StoreOK, NEW t \in Threads
    PROVE  load_meta(t) \in Meta /\ load_meta(t)["place"] \in Sessions \cup {Nobody, "set"}
<1>1. load_meta(t) \in Meta
  BY DEF StoreOK, load_meta, DefaultMeta, Meta
<1> QED  BY <1>1 DEF Meta, Fields

(* So is metadata with one field set.                                      *)
LEMMA PatchedType ==
    ASSUME NEW m \in Meta, NEW f \in Fields, NEW v \in Sessions \cup {Nobody, "set"}
    PROVE  Patched(m, f, v) \in Meta
BY DEF Patched, Meta

(* And the default.                                                        *)
LEMMA DefaultType == DefaultMeta \in Meta
BY DEF DefaultMeta, Meta

(* Dropping claims leaves claims.                                          *)
LEMMA DropType ==
    ASSUME StoreOK, NEW T
    PROVE  Drop(T) \in [Threads -> Claim]
BY DEF StoreOK, Drop, NoClaim, Claim

(* try_claim_thread leaves claims.                                         *)
LEMMA ClaimType ==
    ASSUME StoreOK, NEW t, NEW s \in Sessions
    PROVE  try_claim_thread(t, s) \in [Threads -> Claim]
<1>1. [owner |-> s, pending |-> NoMeta] \in Claim  BY DEF Claim
<1> QED  BY <1>1, DropType DEF try_claim_thread

(* ChatReady is a reply.                                                   *)
LEMMA ReplyType ==
    ASSUME StoreOK, NEW err \in {"ok", "not_found", "thread_locked", "ended"},
           NEW t \in Threads \cup {Nobody}
    PROVE  ChatReady(err, t) \in Reply
BY MetaType DEF ChatReady, Reply

(* A request that is answered leaves the link well typed.                  *)
LEMMA RespondType ==
    ASSUME LinkOK, NEW m \in net, NEW r \in Reply, Respond(m, r), net' = net \ {m}
    PROVE  LinkOK'
BY DEF Respond, LinkOK

(* Every rest of a handler: what comes next, and what the next step is when*)
(* the present one is known.                                               *)
LEMMA TodoSteps ==
    ASSUME NEW q \in Todo, q # <<>>
    PROVE  /\ Tail(q) \in Todo
           /\ Head(q) \in {"query", "reply"} => [q EXCEPT ![1] = "file"] \in Todo
           /\ Head(q) \in {"query", "reply"} => Head([q EXCEPT ![1] = "file"]) = "file"
           /\ Tail(q) # <<>> /\ Head(Tail(q)) \in {"save", "load"} => Head(q) = "load"
           /\ Head(q) = "load" => Tail(q) = <<"save">>
           /\ Head(q) = "save" => Tail(q) = <<>>
           /\ Tail(q) # <<>> => Head(Tail(q)) # "file"
           /\ Tail(q) # <<>> /\ Head(Tail(q)) = "unlink" => Head(q) = "delete"
           /\ Head(q) = "delete" => Tail(q) = <<"unlink">>
<1>1. CASE q = <<"delete", "unlink">>  BY <1>1 DEF Todo, TurnSteps
<1>2. CASE q = <<"unlink">>  BY <1>2 DEF Todo, TurnSteps
<1>3. CASE q = <<"load", "save">>  BY <1>3 DEF Todo, TurnSteps
<1>4. CASE q = <<"save">>  BY <1>4 DEF Todo, TurnSteps
<1>5. CASE q = <<"touch", "run">>  BY <1>5 DEF Todo, TurnSteps
<1>6. CASE q = <<"run">>  BY <1>6 DEF Todo, TurnSteps
<1>7. CASE q = TurnSteps  BY <1>7 DEF Todo, TurnSteps
<1>8. CASE q = <<"run", "query", "reply", "run">>  BY <1>8 DEF Todo, TurnSteps
<1>9. CASE q = <<"query", "reply", "run">>  BY <1>9 DEF Todo, TurnSteps
<1>10. CASE q = <<"file", "reply", "run">>  BY <1>10 DEF Todo, TurnSteps
<1>11. CASE q = <<"reply", "run">>  BY <1>11 DEF Todo, TurnSteps
<1>12. CASE q = <<"file", "run">>  BY <1>12 DEF Todo, TurnSteps
<1> QED  BY <1>1, <1>2, <1>3, <1>4, <1>5, <1>6, <1>7, <1>8, <1>9, <1>10, <1>11, <1>12 DEF Todo

(* A handler that has done a step.                                         *)
LEMMA DoneType ==
    ASSUME TaskOK, NEW k \in Tasks, task[k].todo # <<>>, ~At(k, "load"), task' = Done(k)
    PROVE  TaskOK'
<1> DEFINE q == task[k].todo
<1>1. task[k] \in TaskRecord /\ q \in Todo  BY DEF TaskOK, TaskRecord
<1>2. Tail(q) \in Todo /\ (Tail(q) # <<>> => Head(Tail(q)) \notin {"load", "save", "file"})
  BY <1>1, TodoSteps DEF At
<1>3. task' = [task EXCEPT ![k] = [@ EXCEPT !.todo = Tail(q)]]  BY DEF Done
<1>4. [task[k] EXCEPT !.todo = Tail(q)] \in TaskRecord  BY <1>1, <1>2 DEF TaskRecord
<1> QED  BY <1>1, <1>2, <1>3, <1>4 DEF TaskOK, At, TaskRecord

(* A new handler is a task.                                                *)
LEMMA HandlerType ==
    ASSUME NEW todo \in Todo, NEW t \in Threads \cup {Nobody}, NEW f \in Fields
    PROVE  Handler(todo, t, f) \in TaskRecord
BY DEF Handler, TaskRecord

(* A handler that starts.                                                  *)
LEMMA NewTaskType ==
    ASSUME TaskOK, NEW k \in Tasks, NEW t \in Threads \cup {Nobody}, NEW f \in Fields,
           NEW todo \in {<<>>, <<"delete", "unlink">>, <<"load", "save">>, <<"touch", "run">>, TurnSteps},
           todo = <<"load", "save">> => t \in Threads,
           task' = [task EXCEPT ![k] = Handler(todo, t, f)]
    PROVE  TaskOK'
<1>1. todo \in Todo  BY DEF Todo
<1>2. Handler(todo, t, f) \in TaskRecord  BY <1>1, HandlerType
<1>3. Handler(todo, t, f).todo = todo /\ Handler(todo, t, f).t = t  BY DEF Handler
<1>4. /\ todo # <<>> => Head(todo) \notin {"save", "file"}
      /\ todo # <<>> /\ Head(todo) = "load" => t \in Threads
  BY DEF TurnSteps
<1> QED  BY <1>2, <1>3, <1>4 DEF TaskOK, At

(* A handler that has written to memory and owes the file.                 *)
LEMMA WriteTaskType ==
    ASSUME TaskOK, NEW k \in Tasks, NEW msg \in Message, At(k, "query") \/ At(k, "reply"),
           task' = [task EXCEPT ![k].todo = [@ EXCEPT ![1] = "file"], ![k].msg = msg]
    PROVE  TaskOK'
<1> DEFINE q == task[k].todo
           r == [q EXCEPT ![1] = "file"]
<1>1. task[k] \in TaskRecord /\ q \in Todo  BY DEF TaskOK, TaskRecord
<1>2. r \in Todo /\ Head(r) = "file"  BY <1>1, TodoSteps DEF At
<1>3. task' = [task EXCEPT ![k] = [@ EXCEPT !.todo = r, !.msg = msg]]  OBVIOUS
<1> DEFINE w == [task[k] EXCEPT !.todo = r, !.msg = msg]
<1>4. w \in TaskRecord /\ w.todo = r /\ w.msg = msg  BY <1>1, <1>2 DEF TaskRecord
<1>5. task' = [task EXCEPT ![k] = w]  BY <1>3
<1> HIDE DEF r, q, w
<1>6. task' \in [Tasks -> TaskRecord]  BY <1>4, <1>5 DEF TaskOK
<1>7. \A j \in Tasks : task'[j] = IF j = k THEN w ELSE task[j]  BY <1>5 DEF TaskOK
<1> QED  BY <1>2, <1>4, <1>6, <1>7 DEF TaskOK, At

(* Mixed threads are threads.                                              *)
LEMMA MixedType ==
    ASSUME StoreOK, NEW k, NEW t \in Threads \cup {Nobody}, Mixed(k, t)
    PROVE  mixed' \subseteq Threads \cup {Nobody}
BY DEF Mixed, StoreOK

(* Leaving the chat, or failing to resume.                                 *)
LEMMA LeftType ==
    ASSUME ClientOK, StoreOK, NEW s \in Sessions, NEW others, others \subseteq Request,
           Left(s, others) \/ Failed(s, others), UNCHANGED fuel
    PROVE  ClientOK' /\ net' \subseteq Request /\ lost' \subseteq Sessions
<1>1. CASE Left(s, others)
  <2>1. ClientOK'  BY <1>1 DEF Left, Closed, ClientOK, Places
  <2>2. lost' \subseteq Sessions  BY <1>1 DEF Left, Closed, StoreOK
  <2>3. End(s, TRUE) \in Request  BY DEF End, Request, ClientOK
  <2>4. net' \subseteq Request  BY <1>1, <2>3 DEF Left
  <2> QED  BY <2>1, <2>2, <2>4
<1>2. CASE ~fast[s] /\ Failed(s, others)
  BY <1>2 DEF Failed, ClientOK, StoreOK, Places
<1> QED  BY <1>1, <1>2 DEF Failed

(* Sending ChatStart.                                                      *)
LEMMA StartType ==
    ASSUME ClientOK, LinkOK, NEW s \in Sessions, NEW t \in Threads \cup {Nobody},
           NEW wait \in {"resume", "resume2", "create"}, Start(s, t, wait),
           UNCHANGED <<cur, last, answer>>, fast' \in [Sessions -> BOOLEAN], fuel' \in Nat
    PROVE  ClientOK' /\ LinkOK'
<1>1. [kind |-> "start", s |-> s, t |-> t, live |-> TRUE] \in Request  BY DEF Request
<1>2. LinkOK'  BY <1>1 DEF Start, LinkOK
<1>3. ClientOK'  BY DEF Start, ClientOK, Places
<1> QED  BY <1>2, <1>3

(* The bounds stay natural numbers.                                        *)
LEMMA SpendType ==
    ASSUME ClientOK, NEW s, Spend(s)
    PROVE  fuel' \in Nat
BY DEF Spend, ClientOK

(* The same for events.                                                    *)
LEMMA EventType ==
    ASSUME StoreOK, Event
    PROVE  events' \in Nat
BY DEF Event, StoreOK

(* append_messages, its part in memory.                                    *)
LEMMA MemoryType ==
    ASSUME StoreOK, NEW k \in Tasks, NEW msg \in Message, task[k].t \in Threads \cup {Nobody},
           append_memory(k, msg), UNCHANGED <<claims, meta, events, lost>>
    PROVE  StoreOK'
<1> DEFINE t == task[k].t
<1>1. t \in Threads => Memory(t, msg) \in History  BY DEF Memory, StoreOK, History
<1>2. mem' \in [Threads -> History]  BY <1>1 DEF append_memory, StoreOK
<1>3. mixed' \subseteq Threads \cup {Nobody}  BY MixedType DEF append_memory
<1> QED  BY <1>2, <1>3 DEF append_memory, StoreOK

(* Types: one step of a handler.                                           *)
LEMMA DaemonTypeStep ==
    ASSUME TypeOK, NEW k \in Tasks,
           \/ AppendFile(k) \/ DeleteMemory(k) \/ DeleteFiles(k) \/ LoadMeta(k) \/ SaveMeta(k)
           \/ k \in Sessions /\ (TouchThread(k) \/ SaveRun(k) \/ AddQuery(k) \/ AddReply(k))
    PROVE  TypeOK'
<1> DEFINE t == task[k].t
<1>t. task[k] \in TaskRecord /\ t \in Threads \cup {Nobody} /\ task[k].field \in Fields
  BY DEF TypeOK, TaskOK, TaskRecord
<1> USE DEF TypeOK
<1> HIDE DEF t
<1>1. CASE AppendFile(k)
  <2>1. task[k].msg \in Message  BY <1>1 DEF AppendFile, TaskOK
  <2>2. t \in Threads => (IF file[t] = Absent THEN <<task[k].msg>> ELSE Append(file[t], task[k].msg)) \in History
    BY <2>1 DEF StoreOK, History
  <2>3. file' \in [Threads -> History]  BY <1>1, <2>2 DEF AppendFile, StoreOK, t
  <2>4. TaskOK'  BY <1>1, DoneType DEF AppendFile, At
  <2> QED  BY <1>1, <2>3, <2>4 DEF AppendFile, StoreOK, ClientOK, LinkOK
<1>2. CASE DeleteMemory(k)
  <2>1. CASE mem[t] = Absent
    <3>1. task' = [task EXCEPT ![k].todo = <<>>]  BY <1>2, <2>1 DEF DeleteMemory, t
    <3>2. TaskOK'  BY <3>1, <1>t DEF TaskOK, TaskRecord, At, Todo
    <3> QED  BY <1>2, <2>1, <3>2 DEF DeleteMemory, StoreOK, ClientOK, LinkOK, t
  <2>2. CASE mem[t] # Absent
    <3>1. TaskOK'  BY <1>2, <2>2, DoneType DEF DeleteMemory, At, t
    <3>2. mem' \in [Threads -> History]  BY <1>2, <2>2 DEF DeleteMemory, StoreOK, History, t
    <3>3. mixed' \subseteq Threads \cup {Nobody}  BY <1>2, <2>2, <1>t, MixedType DEF DeleteMemory, t
    <3> QED  BY <1>2, <3>1, <3>2, <3>3 DEF DeleteMemory, StoreOK, ClientOK, LinkOK
  <2> QED  BY <2>1, <2>2
<1>3. CASE DeleteFiles(k)
  <2>1. TaskOK'  BY <1>3, DoneType DEF DeleteFiles, At
  <2>2. file' \in [Threads -> History] /\ meta' \in [Threads -> Meta \cup {NoMeta}]
    BY <1>3 DEF DeleteFiles, StoreOK, History
  <2>3. ClientOK'  BY <1>3 DEF DeleteFiles, ClientOK
  <2> QED  BY <1>3, <2>1, <2>2, <2>3 DEF DeleteFiles, StoreOK, LinkOK
<1>4. CASE LoadMeta(k)
  <2>1. CASE k \in Sessions /\ mem[t] = Absent
    <3>1. TaskOK'  BY <1>4, <2>1, NewTaskType DEF LoadMeta, Idle, Fields, t
    <3> QED  BY <1>4, <3>1 DEF LoadMeta, StoreOK, ClientOK, LinkOK
  <2>2. CASE ~(k \in Sessions /\ mem[t] = Absent)
    <3> DEFINE q == task[k].todo
               w == [task[k] EXCEPT !.todo = Tail(q), !.snap = load_meta(t)]
    <3>1. q \in Todo /\ q # <<>> /\ Head(q) = "load"  BY <1>4, <1>t DEF LoadMeta, At, TaskRecord
    <3>2. Tail(q) = <<"save">>  BY <3>1, TodoSteps
    <3>3. <<"save">> \in Todo  BY DEF Todo
    <3>4. load_meta(t) \in Meta  BY <1>4, MetaType DEF LoadMeta, TaskOK, t
    <3>5. w \in TaskRecord /\ w.todo = <<"save">> /\ w.snap \in Meta
      BY <1>t, <3>2, <3>3, <3>4 DEF TaskRecord
    <3>6. task' = [task EXCEPT ![k] = w]  BY <1>4, <2>2 DEF LoadMeta, t
    <3> HIDE DEF w
    <3>7. task' \in [Tasks -> TaskRecord]  BY <3>5, <3>6 DEF TaskOK
    <3>8. \A j \in Tasks : task'[j] = IF j = k THEN w ELSE task[j]  BY <3>6 DEF TaskOK
    <3>9. TaskOK'  BY <3>5, <3>7, <3>8 DEF TaskOK, At
    <3> QED  BY <1>4, <3>9 DEF LoadMeta, StoreOK, ClientOK, LinkOK
  <2> QED  BY <2>1, <2>2
<1>5. CASE SaveMeta(k)
  <2>1. Patched(task[k].snap, task[k].field, "set") \in Meta
    BY <1>5, <1>t, PatchedType DEF SaveMeta, TaskOK
  <2>2. meta' \in [Threads -> Meta \cup {NoMeta}]  BY <1>5, <2>1 DEF SaveMeta, StoreOK
  <2> DEFINE q == task[k].todo
             w == [task[k] EXCEPT !.todo = Tail(q), !.snap = NoMeta]
  <2>3. q \in Todo /\ q # <<>> /\ Head(q) = "save"  BY <1>5, <1>t DEF SaveMeta, At, TaskRecord
  <2>4. Tail(q) = <<>>  BY <2>3, TodoSteps
  <2>5. w \in TaskRecord /\ w.todo = <<>>  BY <1>t, <2>4 DEF TaskRecord, Todo
  <2>6. task' = [task EXCEPT ![k] = w]  BY <1>5 DEF SaveMeta
  <2> HIDE DEF w
  <2>7. TaskOK'  BY <2>5, <2>6 DEF TaskOK, At
  <2> QED  BY <1>5, <2>2, <2>7 DEF SaveMeta, StoreOK, ClientOK, LinkOK
<1>6. CASE k \in Sessions /\ TouchThread(k)
  <2>1. TaskOK'  BY <1>6, DoneType DEF TouchThread, At
  <2>2. meta' \in [Threads -> Meta \cup {NoMeta}] /\ claims' \in [Threads -> Claim]
    BY <1>6, <1>t DEF TouchThread, StoreOK, Claim, t
  <2> QED  BY <1>6, <2>1, <2>2 DEF TouchThread, StoreOK, ClientOK, LinkOK
<1>7. CASE k \in Sessions /\ SaveRun(k)
  <2>1. TaskOK'  BY <1>7, DoneType DEF SaveRun, At
  <2>2. t \in Threads => Patched(load_meta(t), "run", "set") \in Meta
    BY MetaType, PatchedType DEF Fields
  <2>3. meta' \in [Threads -> Meta \cup {NoMeta}]  BY <1>7, <2>2 DEF SaveRun, StoreOK, t
  <2> QED  BY <1>7, <2>1, <2>3 DEF SaveRun, StoreOK, ClientOK, LinkOK
<1>8. CASE k \in Sessions /\ AddQuery(k)
  <2> DEFINE h == IF mem[t] = Absent THEN <<>> ELSE mem[t]
             msgs == [h EXCEPT ![Len(h)].by = Append(@, k)]
  <2>0. Query(k) \in Message  BY <1>8 DEF Query, Message
  <2>1. CASE h # <<>> /\ IsUser(Last(h))
    <3>1. t \in Threads => h \in Seq(Message)  BY DEF StoreOK, History
    <3>2. t \in Threads => msgs \in History
      <4> SUFFICES ASSUME t \in Threads PROVE msgs \in History  OBVIOUS
      <4>1. h \in Seq(Message) /\ Len(h) \in DOMAIN h  BY <2>1, <3>1
      <4> DEFINE x == h[Len(h)]
      <4>2. x \in Message /\ msgs = [h EXCEPT ![Len(h)] = [x EXCEPT !.by = Append(@, k)]]  BY <4>1
      <4> HIDE DEF x, h
      <4>3. Append(x.by, k) \in Seq(Sessions)  BY <1>8, <4>2 DEF Message
      <4>4. [x EXCEPT !.by = Append(@, k)] \in Message  BY <4>2, <4>3 DEF Message
      <4> DEFINE y == [x EXCEPT !.by = Append(@, k)]
      <4> HIDE DEF y, msgs
      <4>5. [h EXCEPT ![Len(h)] = y] \in Seq(Message)  BY <4>1, <4>4 DEF y
      <4> QED  BY <4>2, <4>5 DEF History, y
    <3>3. replace_messages(t, msgs) /\ Mixed(k, t) /\ task' = Done(k)
      BY <1>8, <2>1 DEF AddQuery, t
    <3> HIDE DEF msgs, h
    <3>4. mem' \in [Threads -> History] /\ file' \in [Threads -> History]
      BY <3>2, <3>3 DEF replace_messages, StoreOK
    <3>5. mixed' \subseteq Threads \cup {Nobody}  BY <1>t, <3>3, MixedType
    <3>6. TaskOK'  BY <1>8, <3>3, DoneType DEF AddQuery, At
    <3> QED  BY <1>8, <3>4, <3>5, <3>6 DEF AddQuery, StoreOK, ClientOK, LinkOK
  <2>2. CASE ~(h # <<>> /\ IsUser(Last(h)))
    <3>1. /\ append_memory(k, Query(k))
          /\ task' = [task EXCEPT ![k].todo = [@ EXCEPT ![1] = "file"], ![k].msg = Query(k)]
      BY <1>8, <2>2 DEF AddQuery, t
    <3>2. StoreOK'  BY <1>8, <1>t, <2>0, <3>1, MemoryType DEF AddQuery, t
    <3>3. TaskOK'  BY <1>8, <2>0, <3>1, WriteTaskType DEF AddQuery
    <3> QED  BY <1>8, <3>2, <3>3 DEF AddQuery, ClientOK, LinkOK
  <2> QED  BY <2>1, <2>2
<1>9. CASE k \in Sessions /\ AddReply(k)
  <2>0. Answer(k) \in Message  BY <1>9 DEF Answer, Message
  <2>1. CASE append_memory(k, Answer(k)) /\ task' = [task EXCEPT ![k].todo = [@ EXCEPT ![1] = "file"], ![k].msg = Answer(k)]
    <3>2. StoreOK'  BY <1>9, <1>t, <2>0, <2>1, MemoryType DEF AddReply, t
    <3>3. TaskOK'  BY <1>9, <2>0, <2>1, WriteTaskType DEF AddReply
    <3> QED  BY <1>9, <3>2, <3>3 DEF AddReply, ClientOK, LinkOK
  <2>2. CASE task' = Done(k) /\ UNCHANGED <<mem, file, order, mixed>>
    <3>1. TaskOK'  BY <1>9, <2>2, DoneType DEF AddReply, At
    <3> QED  BY <1>9, <2>2, <3>1 DEF AddReply, StoreOK, ClientOK, LinkOK
  <2> QED  BY <1>9, <2>1, <2>2 DEF AddReply
<1> QED  BY <1>1, <1>2, <1>3, <1>4, <1>5, <1>6, <1>7, <1>8, <1>9

(* Types: a request is handled.                                            *)
LEMMA RequestTypeStep ==
    ASSUME TypeOK, NEW m \in net,
           HandleResume(m) \/ HandleNew(m) \/ HandleEnd(m) \/ HandleSessionEnd(m)
    PROVE  TypeOK'
<1>m. m \in Request /\ m.s \in Sessions /\ m.t \in Threads \cup {Nobody}
  BY DEF TypeOK, LinkOK, Request
<1> USE DEF TypeOK
<1>1. CASE HandleResume(m)
  <2>0. m.t \in Threads  BY <1>m, <1>1 DEF HandleResume
  <2>1. LinkOK'
    <3>1. PICK r \in {ChatReady("not_found", Nobody), ChatReady("thread_locked", Nobody), ChatReady("ok", m.t)} :
             Respond(m, r)
      BY <1>1 DEF HandleResume
    <3>2. r \in Reply  BY <2>0, ReplyType
    <3> QED  BY <1>1, <3>1, <3>2, RespondType DEF HandleResume
  <2>2. claims' \in [Threads -> Claim]
    <3> DEFINE c == try_claim_thread(m.t, m.s)
               d == Deferred(m.t, m.s)
    <3>1. c \in [Threads -> Claim]  BY <1>m, ClaimType
    <3>2. d \in Meta  BY <1>m, <2>0, MetaType, PatchedType DEF Deferred, Fields
    <3> HIDE DEF c, d
    <3>3. [c EXCEPT ![m.t].pending = d] \in [Threads -> Claim]  BY <2>0, <3>1, <3>2 DEF Claim
    <3> QED  BY <1>1, <3>3 DEF HandleResume, StoreOK, c, d
  <2>3. lost' \subseteq Sessions  BY <1>1 DEF HandleResume, StoreOK, Bereft
  <2> QED  BY <1>1, <2>1, <2>2, <2>3 DEF HandleResume, StoreOK, ClientOK, TaskOK, At
<1>2. CASE HandleNew(m)
  <2>1. PICK t \in Threads :
           /\ file' = [file EXCEPT ![t] = <<>>] /\ mem' = [mem EXCEPT ![t] = <<>>]
           /\ meta' = [meta EXCEPT ![t] = Patched(DefaultMeta, "place", m.s)]
           /\ claims' = try_claim_thread(t, m.s)
           /\ Respond(m, [err |-> "ok", t |-> t, place |-> Nobody])
    BY <1>2 DEF HandleNew
  <2>2. [err |-> "ok", t |-> t, place |-> Nobody] \in Reply  BY DEF Reply
  <2>3. LinkOK'  BY <1>2, <2>1, <2>2, RespondType DEF HandleNew
  <2>4. claims' \in [Threads -> Claim]  BY <1>m, <2>1, ClaimType
  <2>5. Patched(DefaultMeta, "place", m.s) \in Meta  BY <1>m, DefaultType, PatchedType DEF Fields
  <2>6. meta' \in [Threads -> Meta \cup {NoMeta}]  BY <2>1, <2>5 DEF StoreOK
  <2>7. mem' \in [Threads -> History] /\ file' \in [Threads -> History]  BY <2>1 DEF StoreOK, History
  <2> QED  BY <1>2, <2>3, <2>4, <2>6, <2>7 DEF HandleNew, StoreOK, ClientOK, TaskOK, At
<1>3. CASE HandleEnd(m)
  <2>1. LinkOK'  BY <1>3, ReplyType, RespondType DEF HandleEnd
  <2>2. claims' \in [Threads -> Claim]  BY <1>3, DropType DEF HandleEnd, StoreOK
  <2>3. lost' \subseteq Sessions  BY <1>3 DEF HandleEnd, StoreOK, Bereft
  <2> QED  BY <1>3, <2>1, <2>2, <2>3 DEF HandleEnd, StoreOK, ClientOK, TaskOK, At
<1>4. CASE HandleSessionEnd(m)
  <2>1. claims' \in [Threads -> Claim]  BY <1>4, DropType DEF HandleSessionEnd
  <2> QED  BY <1>4, <2>1 DEF HandleSessionEnd, StoreOK, ClientOK, LinkOK, TaskOK, At
<1> QED  BY <1>1, <1>2, <1>3, <1>4

(* Types: the jobs of the daemon.                                          *)
LEMMA JobTypeStep ==
    ASSUME TypeOK, NEW t \in Threads, ReleaseIdle(t) \/ SummaryJob(t)
    PROVE  TypeOK'
<1> USE DEF TypeOK
<1>1. CASE ReleaseIdle(t)
  <2>1. claims' \in [Threads -> Claim]  BY <1>1, DropType DEF ReleaseIdle
  <2>2. lost' \subseteq Sessions  BY <1>1 DEF ReleaseIdle, StoreOK, Bereft
  <2>3. events' \in Nat  BY <1>1, EventType DEF ReleaseIdle, StoreOK
  <2> QED  BY <1>1, <2>1, <2>2, <2>3 DEF ReleaseIdle, StoreOK, ClientOK, LinkOK, TaskOK, At
<1>2. CASE SummaryJob(t)
  <2>1. TaskOK'  BY <1>2, NewTaskType DEF SummaryJob, Tasks, Fields
  <2>2. events' \in Nat  BY <1>2, EventType DEF SummaryJob
  <2> QED  BY <1>2, <2>1, <2>2 DEF SummaryJob, StoreOK, ClientOK, LinkOK
<1> QED  BY <1>1, <1>2

(* A command of the user starts a handler.                                 *)
LEMMA RunType ==
    ASSUME TypeOK, NEW s \in Sessions, NEW t \in Threads \cup {Nobody}, NEW f \in Fields,
           NEW todo \in {<<"delete", "unlink">>, <<"load", "save">>, <<"touch", "run">>, TurnSteps},
           todo = <<"load", "save">> => t \in Threads, Run(s, todo, t, f)
    PROVE  TaskOK' /\ pc' \in [Sessions -> Places]
<1>1. TaskOK'  BY NewTaskType DEF Run, TypeOK, Tasks
<1> QED  BY <1>1 DEF Run, TypeOK, ClientOK, Places

(* Types: a step of a client.                                              *)
LEMMA ClientTypeStep ==
    ASSUME TypeOK, LinkInv, ClientStep
    PROVE  TypeOK'
<1> PICK s \in Sessions : SessionStep(s)  BY DEF ClientStep
<1> USE DEF TypeOK
<1>s. cur[s] \in Threads \cup {Nobody} /\ last[s] \in Threads \cup {Nobody}  BY DEF ClientOK
<1>n. net \subseteq Request  BY DEF LinkOK
<1>1. CASE EnterChat(s)
  BY <1>1, SpendType DEF EnterChat, StoreOK, ClientOK, LinkOK, TaskOK, At, Places
<1>2. CASE EnterFast(s)
  <2>1. fuel' \in Nat /\ fast' \in [Sessions -> BOOLEAN]
    BY <1>2, SpendType DEF EnterFast, ClientOK
  <2>2. ClientOK' /\ LinkOK'
    <3>1. CASE last[s] # Nobody  BY <1>2, <1>s, <2>1, <3>1, StartType DEF EnterFast
    <3>2. CASE last[s] = Nobody  BY <1>2, <2>1, <3>2 DEF EnterFast, ClientOK, LinkOK, Places
    <3> QED  BY <3>1, <3>2
  <2> QED  BY <1>2, <2>2 DEF EnterFast, StoreOK, TaskOK, At
<1>3. CASE Leave(s)
  BY <1>3, <1>n, LeftType DEF Leave, StoreOK, LinkOK, TaskOK, At
<1>4. CASE LeaveDone(s)
  BY <1>4 DEF LeaveDone, StoreOK, ClientOK, LinkOK, TaskOK, At, Places
<1>5. CASE \E scope \in {"ids_all", "ids_host"} : AskResume(s, scope)
  BY <1>5, SpendType DEF AskResume, StoreOK, ClientOK, LinkOK, TaskOK, At, Places
<1>6. CASE FetchIds(s)
  <2> DEFINE ids == Fetched(s, pc[s] = "ids_all")
  <2>1. CASE ids = <<>>  BY <1>6, <1>n, <2>1, LeftType DEF FetchIds, StoreOK, LinkOK, TaskOK, At
  <2>2. CASE ids # <<>>  BY <1>6, <2>2 DEF FetchIds, StoreOK, ClientOK, LinkOK, TaskOK, At, Places
  <2> QED  BY <2>1, <2>2
<1>7. CASE FetchItems(s)
  <2> DEFINE ts == Listing(s, pc[s] = "items_all")
  <2>1. CASE ts = <<>>  BY <1>7, <1>n, <2>1, LeftType DEF FetchItems, StoreOK, LinkOK, TaskOK, At
  <2>2. CASE ts # <<>>  BY <1>7, <2>2 DEF FetchItems, StoreOK, ClientOK, LinkOK, TaskOK, At, Places
  <2> QED  BY <2>1, <2>2
<1>8. CASE Pick(s)
  <2>1. PICK t \in Threads, wait \in {"resume", "resume2"} : Start(s, t, wait)
    BY <1>8 DEF Pick
  <2>2. ClientOK' /\ LinkOK'  BY <1>8, <2>1, StartType DEF Pick, ClientOK
  <2> QED  BY <1>8, <2>2 DEF Pick, StoreOK, TaskOK, At
<1>9. CASE PickEscape(s)
  BY <1>9, <1>n, LeftType DEF PickEscape, StoreOK, LinkOK, TaskOK, At
<1>10. CASE ResumeNumber(s)
  <2>1. PICK t \in Threads : Start(s, t, "resume")  BY <1>10 DEF ResumeNumber
  <2>2. ClientOK' /\ LinkOK'  BY <1>10, <2>1, StartType, SpendType DEF ResumeNumber, ClientOK
  <2> QED  BY <1>10, <2>2 DEF ResumeNumber, StoreOK, TaskOK, At
<1>11. CASE ResumeAnswer(s)
  <2>1. answer[s].t \in Threads \cup {Nobody}  BY <1>11 DEF ResumeAnswer, LinkOK, Reply
  <2>2. ClientOK'  BY <1>11, <2>1 DEF ResumeAnswer, Resumed, ClientOK, Places
  <2>3. LinkOK' /\ lost' = lost  BY <1>11 DEF ResumeAnswer, LinkOK
  <2> QED  BY <1>11, <2>2, <2>3 DEF ResumeAnswer, StoreOK, TaskOK, At
<1>12. CASE ResumeTimeout(s)
  <2> DEFINE out == {m \in net : m.s = s /\ m.kind = "start" /\ m.live}
             others == (net \ out) \cup {[m EXCEPT !.live = FALSE] : m \in out}
  <2>1. others \subseteq Request  BY <1>n DEF Request
  <2>2. answer' \in [Sessions -> Reply \cup {Nobody}]  BY <1>12 DEF ResumeTimeout, LinkOK
  <2>3. UNCHANGED <<fuel, daemon, events, mixed>>  BY <1>12 DEF ResumeTimeout
  <2>4. CASE fast[s]
    <3>1. Left(s, others)  BY <1>12, <2>4 DEF ResumeTimeout
    <3> HIDE DEF others
    <3> QED  BY <2>1, <2>2, <2>3, <3>1, LeftType DEF StoreOK, LinkOK, TaskOK, At
  <2>5. CASE ~fast[s]
    <3>1. /\ net' = others /\ pc' = [pc EXCEPT ![s] = "prompt"] /\ lost' \in {lost, lost \cup {s}}
          /\ UNCHANGED <<cur, last, fast>>
      BY <1>12, <2>5 DEF ResumeTimeout
    <3> HIDE DEF others
    <3> QED  BY <2>1, <2>2, <2>3, <3>1 DEF StoreOK, LinkOK, ClientOK, TaskOK, At, Places
  <2> QED  BY <2>4, <2>5
<1>13. CASE MismatchGo(s)
  BY <1>13 DEF MismatchGo, Resumed, StoreOK, ClientOK, LinkOK, TaskOK, At, Places
<1>14. CASE MismatchCancel(s)
  <2>1. End(s, FALSE) \in Request  BY <1>s DEF End, Request
  <2>2. net \cup {End(s, FALSE)} \subseteq Request  BY <1>n, <2>1
  <2>3. ClientOK' /\ net' \subseteq Request /\ lost' \subseteq Sessions
    BY <1>14, <2>2, LeftType DEF MismatchCancel
  <2> QED  BY <1>14, <2>3 DEF MismatchCancel, StoreOK, LinkOK, TaskOK, At
<1>15. CASE ThreadList(s)
  BY <1>15, SpendType DEF ThreadList, StoreOK, ClientOK, LinkOK, TaskOK, At
<1>16. CASE ThreadDel(s)
  <2>1. PICK t \in Threads : Run(s, <<"delete", "unlink">>, t, "run")  BY <1>16 DEF ThreadDel
  <2>2. TaskOK' /\ pc' \in [Sessions -> Places]  BY <2>1, RunType DEF Fields
  <2> QED  BY <1>16, <2>2, SpendType DEF ThreadDel, StoreOK, ClientOK, LinkOK
<1>17. CASE ThreadRename(s)
  <2>1. TaskOK' /\ pc' \in [Sessions -> Places]  BY <1>17, <1>s, RunType DEF ThreadRename, Fields
  <2> QED  BY <1>17, <2>1, SpendType DEF ThreadRename, StoreOK, ClientOK, LinkOK
<1>18. CASE ThreadSandbox(s)
  <2>1. TaskOK' /\ pc' \in [Sessions -> Places]
    <3>1. CASE cur[s] = Nobody  BY <1>18, <3>1 DEF ThreadSandbox, TaskOK, At, ClientOK
    <3>2. CASE cur[s] # Nobody  BY <1>18, <1>s, <3>2, RunType DEF ThreadSandbox, Fields
    <3> QED  BY <3>1, <3>2
  <2> QED  BY <1>18, <2>1, SpendType DEF ThreadSandbox, StoreOK, ClientOK, LinkOK
<1>19. CASE ModelSet(s)
  <2>1. TaskOK' /\ pc' \in [Sessions -> Places]
    <3>1. CASE cur[s] = Nobody  BY <1>19, <3>1 DEF ModelSet, TaskOK, At, ClientOK
    <3>2. CASE cur[s] # Nobody
      <4>1. Run(s, <<"touch", "run">>, cur[s], "run")  BY <1>19, <3>2 DEF ModelSet
      <4> QED  BY <1>s, <3>2, <4>1, RunType DEF Fields
    <3> QED  BY <3>1, <3>2
  <2> QED  BY <1>19, <2>1, SpendType DEF ModelSet, StoreOK, ClientOK, LinkOK
<1>20. CASE CommandDone(s)
  <2>1. TaskOK'  BY <1>20, NewTaskType DEF CommandDone, Idle, Tasks, Fields
  <2> QED  BY <1>20, <2>1 DEF CommandDone, StoreOK, ClientOK, LinkOK, Places
<1>21. CASE CreateThread(s)
  <2>1. ClientOK' /\ LinkOK'  BY <1>21, StartType, SpendType DEF CreateThread, ClientOK
  <2> QED  BY <1>21, <2>1 DEF CreateThread, StoreOK, TaskOK, At
<1>22. CASE Created(s)
  <2>1. answer[s].t \in Threads  BY <1>22 DEF Created, LinkInv
  <2>2. TaskOK'
    <3>1. CASE "sandbox" \notin pending[s]  BY <1>22, <3>1 DEF Created, TaskOK, At
    <3>2. CASE "sandbox" \in pending[s]
      BY <1>22, <2>1, <3>2, NewTaskType DEF Created, Tasks, Fields
    <3> QED  BY <3>1, <3>2
  <2> QED  BY <1>22, <2>1, <2>2 DEF Created, StoreOK, ClientOK, LinkOK, Places
<1>23. CASE SendMessage(s)
  <2>1. TaskOK' /\ pc' \in [Sessions -> Places]
    <3>1. TurnSteps # <<"load", "save">>  BY DEF TurnSteps
    <3> QED  BY <1>23, <1>s, <3>1, RunType DEF SendMessage, Fields
  <2> QED  BY <1>23, <2>1, SpendType DEF SendMessage, StoreOK, ClientOK, LinkOK
<1>24. CASE Quit(s)
  <2>1. [kind |-> "bye", s |-> s, t |-> Nobody, live |-> FALSE] \in Request  BY DEF Request
  <2>2. LinkOK'  BY <1>24, <2>1 DEF Quit, LinkOK
  <2> QED  BY <1>24, <2>2 DEF Quit, StoreOK, ClientOK, TaskOK, At, Places
<1>25. CASE Killed(s)
  <2>1. {[m EXCEPT !.live = @ /\ m.s # s] : m \in net} \subseteq Request  BY <1>n DEF Request
  <2>2. LinkOK'  BY <1>25, <2>1 DEF Killed, LinkOK
  <2>3. ClientOK'  BY <1>25 DEF Killed, Closed, ClientOK, Places
  <2>4. lost' \subseteq Sessions  BY <1>25 DEF Killed, Closed, StoreOK
  <2> QED  BY <1>25, <2>2, <2>3, <2>4, EventType DEF Killed, StoreOK, TaskOK, At
<1> QED
  BY <1>1, <1>2, <1>3, <1>4, <1>5, <1>6, <1>7, <1>8, <1>9, <1>10, <1>11, <1>12, <1>13,
     <1>14, <1>15, <1>16, <1>17, <1>18, <1>19, <1>20, <1>21, <1>22, <1>23, <1>24, <1>25
  DEF SessionStep

(* Types: a restart of the daemon.                                         *)
LEMMA RestartTypeStep ==
    ASSUME TypeOK, Restart
    PROVE  TypeOK'
<1> USE DEF TypeOK
<1>1. Idle \in TaskRecord /\ Idle.todo = <<>>
  <2>1. <<>> \in Todo  BY DEF Todo
  <2> QED  BY <2>1, HandlerType DEF Idle, Handler, Fields
<1>2. task' = [k \in Tasks |-> Idle]  BY DEF Restart
<1> HIDE DEF Idle
<1>3. TaskOK'  BY <1>1, <1>2 DEF TaskOK, At
<1>4. [t \in Threads |-> NoClaim] \in [Threads -> Claim]  BY DEF NoClaim, Claim
<1>5. StoreOK'  BY <1>4, EventType DEF Restart, StoreOK
<1>6. \A s \in Sessions : AfterRestart(s) \in Places  BY DEF AfterRestart, ClientOK, Places
<1>7. ClientOK'  BY <1>6 DEF Restart, ClientOK
<1>8. LinkOK'  BY DEF Restart, LinkOK
<1> QED  BY <1>3, <1>5, <1>7, <1>8

-----------------------------------------------------------------------------
(* Requests and replies.                                                   *)

(* A client waits in four places only.                                     *)
LEMMA NotWaiting ==
    ASSUME TypeOK, LinkInv, NEW s \in Sessions,
           answer[s] # Nobody \/ pc[s] \notin {"resume", "resume2", "create", "leaving"}
    PROVE  /\ \A m \in net : m.live => m.s # s
           /\ pc[s] \notin {"resume", "resume2", "create", "leaving"} => answer[s] = Nobody
BY DEF LinkInv, TypeOK, LinkOK, Request

(* What may be in net after s stopped to wait: nothing it waits for, and   *)
(* nothing new but requests given up.                                      *)
GivenUp(s, others) ==
    \A m \in others :
       /\ m.live => m.s # s /\ m \in net
       /\ m \in net \/ m.kind = "end" \/ (m.kind = "start" /\ m.t # Nobody)

(* A client that stops to wait and goes elsewhere.                         *)
LEMMA LinkMove ==
    ASSUME TypeOK, LinkInv, NEW s \in Sessions, pc[s] # "gone",
           NEW p \in Places \ {"gone"}, pc' = [pc EXCEPT ![s] = p],
           answer' = [answer EXCEPT ![s] = Nobody], GivenUp(s, net'), net' \subseteq Request,
           \A u \in Sessions \ {s} : cur'[u] = cur[u],
           p \in {"shell", "leaving"} => cur'[s] = Nobody
    PROVE  LinkInv'
<1>1. \A u \in Sessions : pc'[u] = IF u = s THEN p ELSE pc[u]  BY DEF TypeOK, ClientOK
<1>2. \A u \in Sessions : answer'[u] = IF u = s THEN Nobody ELSE answer[u]  BY DEF TypeOK, LinkOK
<1>3. \A m \in net' : m.s \in Sessions  BY DEF Request
<1>4. \A m, n \in net' : m.live /\ n.live /\ m.s = n.s => m = n  BY DEF GivenUp, LinkInv
<1>5. \A u \in Sessions :
         /\ answer'[u] # Nobody =>
               /\ pc'[u] \in {"resume", "resume2", "create", "leaving"}
               /\ answer'[u].err = "ok" <=> answer'[u].t \in Threads
               /\ pc'[u] = "create" => answer'[u].err = "ok"
         /\ ~InChat(u)' => cur'[u] = Nobody
  BY <1>1, <1>2 DEF LinkInv, InChat
<1>6. ASSUME NEW m \in net'
      PROVE  /\ m.kind = "start" /\ m.live =>
                   /\ answer'[m.s] = Nobody
                   /\ pc'[m.s] \in IF m.t = Nobody THEN {"create"} ELSE {"resume", "resume2"}
             /\ m.kind = "start" /\ ~m.live /\ m.t = Nobody => pc'[m.s] = "gone"
             /\ m.kind = "end" /\ m.live => pc'[m.s] = "leaving" /\ answer'[m.s] = Nobody
             /\ m.kind = "bye" => pc'[m.s] = "gone" /\ ~m.live
  BY <1>1, <1>2, <1>3, <1>6 DEF GivenUp, LinkInv
<1> QED  BY <1>4, <1>5, <1>6 DEF LinkInv

(* A client that leaves the chat, with its ChatEnd.                        *)
LEMMA LinkLeft ==
    ASSUME TypeOK, LinkInv, NEW s \in Sessions, pc[s] # "gone", NEW others,
           GivenUp(s, others), others \subseteq Request, Left(s, others),
           answer' = [answer EXCEPT ![s] = Nobody]
    PROVE  LinkInv'
<1> DEFINE p == IF cur[s] = Nobody THEN "shell" ELSE "leaving"
<1>1. \A u \in Sessions : pc'[u] = IF u = s THEN p ELSE pc[u]  BY DEF TypeOK, ClientOK, Left
<1>2. \A u \in Sessions : answer'[u] = IF u = s THEN Nobody ELSE answer[u]  BY DEF TypeOK, LinkOK
<1>3. \A u \in Sessions : cur'[u] = IF u = s THEN Nobody ELSE cur[u]
  BY DEF TypeOK, ClientOK, Left, Closed
<1> DEFINE e == End(s, TRUE)
<1>5. e.s = s /\ e.kind = "end" /\ e.live  BY DEF End
<1>e. net' = IF cur[s] = Nobody THEN others ELSE others \cup {e}  BY DEF Left
<1> HIDE DEF e
<1>4. \A m \in net' : m \in others \/ (cur[s] # Nobody /\ m = e)  BY <1>e
<1>6. \A m \in others : m.s \in Sessions  BY DEF Request
<1> HIDE DEF p
<1>7. \A m, n \in net' : m.live /\ n.live /\ m.s = n.s => m = n
  BY <1>4, <1>5 DEF GivenUp, LinkInv
<1>8. \A u \in Sessions :
         /\ answer'[u] # Nobody =>
               /\ pc'[u] \in {"resume", "resume2", "create", "leaving"}
               /\ answer'[u].err = "ok" <=> answer'[u].t \in Threads
               /\ pc'[u] = "create" => answer'[u].err = "ok"
         /\ ~InChat(u)' => cur'[u] = Nobody
  BY <1>1, <1>2, <1>3 DEF LinkInv, InChat
<1>9. ASSUME NEW m \in net'
      PROVE  /\ m.kind = "start" /\ m.live =>
                   /\ answer'[m.s] = Nobody
                   /\ pc'[m.s] \in IF m.t = Nobody THEN {"create"} ELSE {"resume", "resume2"}
             /\ m.kind = "start" /\ ~m.live /\ m.t = Nobody => pc'[m.s] = "gone"
             /\ m.kind = "end" /\ m.live => pc'[m.s] = "leaving" /\ answer'[m.s] = Nobody
             /\ m.kind = "bye" => pc'[m.s] = "gone" /\ ~m.live
  <2>1. CASE m \in others  BY <1>1, <1>2, <1>6, <2>1 DEF GivenUp, LinkInv
  <2>2. CASE cur[s] # Nobody /\ m = e  BY <1>1, <1>2, <1>5, <2>2 DEF p
  <2> QED  BY <1>4, <2>1, <2>2
<1> QED  BY <1>7, <1>8, <1>9 DEF LinkInv

(* A resume that failed.                                                   *)
LEMMA LinkFailed ==
    ASSUME TypeOK, LinkInv, NEW s \in Sessions, pc[s] # "gone", NEW others,
           GivenUp(s, others), others \subseteq Request, Failed(s, others),
           answer' = [answer EXCEPT ![s] = Nobody]
    PROVE  LinkInv'
<1>1. CASE fast[s]  BY <1>1, LinkLeft DEF Failed
<1>2. CASE ~fast[s]
  <2>1. net' = others /\ pc' = [pc EXCEPT ![s] = "prompt"] /\ cur' = cur  BY <1>2 DEF Failed
  <2> QED  BY <2>1, LinkMove DEF Places
<1> QED  BY <1>1, <1>2

(* A client that begins to wait.                                           *)
LEMMA LinkStart ==
    ASSUME TypeOK, LinkInv, NEW s \in Sessions, NEW t \in Threads \cup {Nobody},
           pc[s] \in {"prompt", "shell", "pick", "pick_again"},
           NEW wait \in IF t = Nobody THEN {"create"} ELSE {"resume", "resume2"},
           Start(s, t, wait), UNCHANGED <<cur, answer>>
    PROVE  LinkInv'
<1> DEFINE new == [kind |-> "start", s |-> s, t |-> t, live |-> TRUE]
<1>1. \A u \in Sessions : pc'[u] = IF u = s THEN wait ELSE pc[u]  BY DEF TypeOK, ClientOK, Start
<1>2. \A m \in net' : m \in net \/ m = new  BY DEF Start
<1>3. new.s = s /\ new.kind = "start" /\ new.live /\ new.t = t  OBVIOUS
<1>4. \A m \in net : m.s \in Sessions  BY DEF TypeOK, LinkOK, Request
<1>5. answer[s] = Nobody /\ \A m \in net : m.live => m.s # s  BY NotWaiting
<1> HIDE DEF new
<1>6. \A m, n \in net' : m.live /\ n.live /\ m.s = n.s => m = n  BY <1>2, <1>3, <1>5 DEF LinkInv
<1>7. \A u \in Sessions :
         /\ answer'[u] # Nobody =>
               /\ pc'[u] \in {"resume", "resume2", "create", "leaving"}
               /\ answer'[u].err = "ok" <=> answer'[u].t \in Threads
               /\ pc'[u] = "create" => answer'[u].err = "ok"
         /\ ~InChat(u)' => cur'[u] = Nobody
  BY <1>1, <1>5 DEF LinkInv, InChat
<1>8. ASSUME NEW m \in net'
      PROVE  /\ m.kind = "start" /\ m.live =>
                   /\ answer'[m.s] = Nobody
                   /\ pc'[m.s] \in IF m.t = Nobody THEN {"create"} ELSE {"resume", "resume2"}
             /\ m.kind = "start" /\ ~m.live /\ m.t = Nobody => pc'[m.s] = "gone"
             /\ m.kind = "end" /\ m.live => pc'[m.s] = "leaving" /\ answer'[m.s] = Nobody
             /\ m.kind = "bye" => pc'[m.s] = "gone" /\ ~m.live
  <2>1. CASE m \in net  BY <1>1, <1>4, <1>5, <2>1 DEF LinkInv
  <2>2. CASE m = new  BY <1>1, <1>3, <1>5, <2>2
  <2> QED  BY <1>2, <2>1, <2>2
<1> QED  BY <1>6, <1>7, <1>8 DEF LinkInv

(* A request is answered.                                                  *)
LEMMA LinkRespond ==
    ASSUME TypeOK, LinkInv, NEW m \in net, m.kind \in {"start", "end"}, NEW r,
           Respond(m, r), net' = net \ {m}, UNCHANGED <<pc, cur>>,
           r.err = "ok" <=> r.t \in Threads,
           m.kind = "start" /\ m.t = Nobody => r.err = "ok"
    PROVE  LinkInv'
<1>1. m.s \in Sessions /\ \A n \in net : n.s \in Sessions  BY DEF TypeOK, LinkOK, Request
<1>2. \A u \in Sessions : answer'[u] = IF m.live /\ u = m.s THEN r ELSE answer[u]
  BY <1>1 DEF TypeOK, LinkOK, Respond
<1>3. m.live => \A n \in net' : n.live => n.s # m.s  BY DEF LinkInv
<1>4. m.live => pc[m.s] \in {"resume", "resume2", "create", "leaving"}
      /\ (pc[m.s] = "create" => m.kind = "start" /\ m.t = Nobody)
  BY DEF LinkInv
<1>5. \A n, o \in net' : n.live /\ o.live /\ n.s = o.s => n = o  BY DEF LinkInv
<1>6. \A u \in Sessions :
         /\ answer'[u] # Nobody =>
               /\ pc'[u] \in {"resume", "resume2", "create", "leaving"}
               /\ answer'[u].err = "ok" <=> answer'[u].t \in Threads
               /\ pc'[u] = "create" => answer'[u].err = "ok"
         /\ ~InChat(u)' => cur'[u] = Nobody
  BY <1>2, <1>4 DEF LinkInv, InChat
<1>7. ASSUME NEW n \in net'
      PROVE  /\ n.kind = "start" /\ n.live =>
                   /\ answer'[n.s] = Nobody
                   /\ pc'[n.s] \in IF n.t = Nobody THEN {"create"} ELSE {"resume", "resume2"}
             /\ n.kind = "start" /\ ~n.live /\ n.t = Nobody => pc'[n.s] = "gone"
             /\ n.kind = "end" /\ n.live => pc'[n.s] = "leaving" /\ answer'[n.s] = Nobody
             /\ n.kind = "bye" => pc'[n.s] = "gone" /\ ~n.live
  BY <1>1, <1>2, <1>3, <1>7 DEF LinkInv
<1> QED  BY <1>5, <1>6, <1>7 DEF LinkInv

(* A step that touches neither link nor places.                            *)
LEMMA LinkQuiet ==
    ASSUME LinkInv, UNCHANGED <<pc, net, answer>>,
           \A u \in Sessions : cur'[u] = cur[u] \/ cur'[u] = Nobody
    PROVE  LinkInv'
BY DEF LinkInv, InChat

(* Link: a step of the daemon.                                             *)
LEMMA LinkDaemonStep ==
    ASSUME TypeOK, LinkInv, DaemonStep
    PROVE  LinkInv'
<1>1. ASSUME NEW k \in Tasks,
             AppendFile(k) \/ DeleteMemory(k) \/ LoadMeta(k) \/ SaveMeta(k) \/ TouchThread(k)
                \/ SaveRun(k) \/ AddQuery(k) \/ AddReply(k)
      PROVE  LinkInv'
  <2>1. UNCHANGED <<pc, net, answer, cur>>
    BY <1>1 DEF AppendFile, DeleteMemory, LoadMeta, SaveMeta, TouchThread, SaveRun, AddQuery, AddReply
  <2> QED  BY <2>1, LinkQuiet
<1>2. ASSUME NEW k \in Tasks, DeleteFiles(k)
      PROVE  LinkInv'
  <2>1. UNCHANGED <<pc, net, answer>> /\ \A u \in Sessions : cur'[u] = cur[u] \/ cur'[u] = Nobody
    BY <1>2 DEF DeleteFiles, TypeOK, ClientOK
  <2> QED  BY <2>1, LinkQuiet
<1>3. ASSUME NEW t \in Threads, ReleaseIdle(t) \/ SummaryJob(t)
      PROVE  LinkInv'
  <2>1. UNCHANGED <<pc, net, answer, cur>>  BY <1>3 DEF ReleaseIdle, SummaryJob
  <2> QED  BY <2>1, LinkQuiet
<1>4. ASSUME NEW m \in net, HandleResume(m)
      PROVE  LinkInv'
  <2>0. m.t \in Threads  BY <1>4 DEF HandleResume, TypeOK, LinkOK, Request
  <2>1. PICK r \in {ChatReady("not_found", Nobody), ChatReady("thread_locked", Nobody), ChatReady("ok", m.t)} :
           Respond(m, r)
    BY <1>4 DEF HandleResume
  <2>2. r.err = "ok" <=> r.t \in Threads  BY <2>0, <2>1, NobodyAssumption DEF ChatReady
  <2> QED  BY <1>4, <2>1, <2>2, LinkRespond DEF HandleResume
<1>5. ASSUME NEW m \in net, HandleNew(m)
      PROVE  LinkInv'
  <2>1. PICK t \in Threads : Respond(m, [err |-> "ok", t |-> t, place |-> Nobody])
    BY <1>5 DEF HandleNew
  <2> DEFINE r == [err |-> "ok", t |-> t, place |-> Nobody]
  <2>2. r.err = "ok" /\ r.t \in Threads /\ Respond(m, r)  BY <2>1
  <2> HIDE DEF r
  <2> QED  BY <1>5, <2>2, LinkRespond DEF HandleNew
<1>6. ASSUME NEW m \in net, HandleEnd(m)
      PROVE  LinkInv'
  <2> DEFINE r == ChatReady("ended", Nobody)
  <2>1. r.err # "ok" /\ r.t \notin Threads  BY NobodyAssumption DEF ChatReady
  <2> HIDE DEF r
  <2> QED  BY <1>6, <2>1, LinkRespond DEF HandleEnd, r
<1>7. ASSUME NEW m \in net, HandleSessionEnd(m)
      PROVE  LinkInv'
  <2>1. net' \subseteq net /\ UNCHANGED <<pc, answer, cur>>  BY <1>7 DEF HandleSessionEnd
  <2> QED  BY <2>1 DEF LinkInv, InChat
<1> QED  BY <1>1, <1>2, <1>3, <1>4, <1>5, <1>6, <1>7 DEF DaemonStep, Tasks

(* Link: a step of a client.                                               *)
LEMMA LinkClientStep ==
    ASSUME TypeOK, LinkInv, ClientStep
    PROVE  LinkInv'
<1> PICK s \in Sessions : SessionStep(s)  BY DEF ClientStep
<1> DEFINE Waits == {"resume", "resume2", "create", "leaving"}
<1>n. net \subseteq Request /\ answer \in [Sessions -> Reply \cup {Nobody}]
  BY DEF TypeOK, LinkOK
<1>w. ASSUME pc[s] \notin Waits
      PROVE  GivenUp(s, net) /\ answer = [answer EXCEPT ![s] = Nobody]
  <2>1. answer[s] = Nobody /\ \A m \in net : m.live => m.s # s  BY <1>w, NotWaiting
  <2> QED  BY <1>n, <2>1 DEF GivenUp
<1>a. ASSUME answer[s] # Nobody
      PROVE  GivenUp(s, net) /\ pc[s] # "gone"
  BY <1>a, NotWaiting DEF GivenUp, LinkInv
<1>m. ASSUME NEW p \in Places \ {"gone", "shell", "leaving"}, pc[s] \notin Waits \cup {"gone"},
             pc' = [pc EXCEPT ![s] = p], UNCHANGED <<net, answer, cur>>
      PROVE  LinkInv'
  BY <1>m, <1>w, <1>n, LinkMove
<1> HIDE DEF Waits
<1> USE DEF Waits
<1>1. CASE EnterChat(s)  BY <1>1, <1>m DEF EnterChat, Places
<1>2. CASE EnterFast(s)
  <2>1. CASE last[s] # Nobody
    <3>1. last[s] \in Threads  BY <2>1 DEF TypeOK, ClientOK
    <3> QED  BY <1>2, <2>1, <3>1, LinkStart DEF EnterFast
  <2>2. CASE last[s] = Nobody  BY <1>2, <2>2, <1>m DEF EnterFast, Places
  <2> QED  BY <2>1, <2>2
<1>3. CASE Leave(s)  BY <1>3, <1>w, <1>n, LinkLeft DEF Leave
<1>4. CASE LeaveDone(s)
  <2>1. cur[s] = Nobody  BY <1>4 DEF LeaveDone, LinkInv, InChat
  <2> QED  BY <1>4, <1>a, <1>n, <2>1, LinkMove DEF LeaveDone, Places
<1>5. CASE \E scope \in {"ids_all", "ids_host"} : AskResume(s, scope)
  BY <1>5, <1>m DEF AskResume, Places
<1>6. CASE FetchIds(s)
  <2> DEFINE ids == Fetched(s, pc[s] = "ids_all")
  <2>1. CASE ids = <<>>  BY <1>6, <1>n, <1>w, <2>1, LinkFailed DEF FetchIds
  <2>2. CASE ids # <<>>
    <3>1. PICK p \in {"items_all", "items_host", "items_again"} : pc' = [pc EXCEPT ![s] = p]
      BY <1>6, <2>2 DEF FetchIds
    <3> QED  BY <1>6, <1>m, <2>2, <3>1 DEF FetchIds, Places
  <2> QED  BY <2>1, <2>2
<1>7. CASE FetchItems(s)
  <2> DEFINE ts == Listing(s, pc[s] = "items_all")
  <2>1. CASE ts = <<>>  BY <1>7, <1>n, <1>w, <2>1, LinkFailed DEF FetchItems
  <2>2. CASE ts # <<>>
    <3>1. PICK p \in {"pick", "pick_again"} : pc' = [pc EXCEPT ![s] = p]
      BY <1>7, <2>2 DEF FetchItems
    <3> QED  BY <1>7, <1>m, <2>2, <3>1 DEF FetchItems, Places
  <2> QED  BY <2>1, <2>2
<1>8. CASE Pick(s)
  <2>1. PICK t \in Threads, wait \in {"resume", "resume2"} : Start(s, t, wait)
    BY <1>8 DEF Pick
  <2> QED  BY <1>8, <2>1, LinkStart, NobodyAssumption DEF Pick
<1>9. CASE PickEscape(s)  BY <1>9, <1>n, <1>w, LinkFailed DEF PickEscape
<1>10. CASE ResumeNumber(s)
  <2>1. PICK t \in Threads : Start(s, t, "resume")  BY <1>10 DEF ResumeNumber
  <2> QED  BY <1>10, <2>1, LinkStart, NobodyAssumption DEF ResumeNumber
<1>11. CASE ResumeAnswer(s)
  <2>1. PICK p \in {"ids_again", "mismatch", "prompt"} : pc' = [pc EXCEPT ![s] = p]
    BY <1>11 DEF ResumeAnswer, Resumed
  <2>2. \A u \in Sessions \ {s} : cur'[u] = cur[u]  BY <1>11 DEF ResumeAnswer, TypeOK, ClientOK
  <2> QED  BY <1>11, <1>a, <1>n, <2>1, <2>2, LinkMove DEF ResumeAnswer, Places
<1>12. CASE ResumeTimeout(s)
  <2> DEFINE out == {m \in net : m.s = s /\ m.kind = "start" /\ m.live}
             others == (net \ out) \cup {[m EXCEPT !.live = FALSE] : m \in out}
  <2>1. others \subseteq Request  BY <1>n DEF Request
  <2>2. \A m \in out : m.t # Nobody  BY <1>12 DEF ResumeTimeout, LinkInv
  <2>3. \A m \in net : m.live /\ m.s = s => m.kind = "start"
    BY <1>12, <1>n DEF ResumeTimeout, LinkInv, Request
  <2>4. ASSUME NEW m \in others
        PROVE  /\ m.live => m.s # s /\ m \in net
               /\ m \in net \/ m.kind = "end" \/ (m.kind = "start" /\ m.t # Nobody)
    <3>1. CASE m \in net \ out  BY <2>3, <3>1
    <3>2. CASE \E n \in out : m = [n EXCEPT !.live = FALSE]
      <4>1. PICK n \in out : m = [n EXCEPT !.live = FALSE]  BY <3>2
      <4>2. m.live = FALSE /\ m.kind = "start" /\ m.t = n.t  BY <1>n, <4>1 DEF Request
      <4> QED  BY <2>2, <4>2
    <3> QED  BY <3>1, <3>2
  <2>5. GivenUp(s, others)  BY <2>4 DEF GivenUp
  <2>6. answer' = [answer EXCEPT ![s] = Nobody]  BY <1>12 DEF ResumeTimeout
  <2>7. pc[s] # "gone"  BY <1>12 DEF ResumeTimeout
  <2>8. CASE fast[s]
    <3>1. Left(s, others)  BY <1>12, <2>8 DEF ResumeTimeout
    <3> HIDE DEF others
    <3> QED  BY <2>1, <2>5, <2>6, <2>7, <3>1, LinkLeft
  <2>9. CASE ~fast[s]
    <3>1. net' = others /\ pc' = [pc EXCEPT ![s] = "prompt"] /\ cur' = cur
      BY <1>12, <2>9 DEF ResumeTimeout
    <3> HIDE DEF others
    <3> QED  BY <2>1, <2>5, <2>6, <2>7, <3>1, LinkMove DEF Places
  <2> QED  BY <2>8, <2>9
<1>13. CASE MismatchGo(s)  BY <1>13, <1>m DEF MismatchGo, Resumed, Places
<1>14. CASE MismatchCancel(s)
  <2> DEFINE e == End(s, FALSE)
  <2>1. e \in Request /\ e.kind = "end" /\ e.live = FALSE  BY DEF End, Request, TypeOK, ClientOK
  <2>2. Failed(s, net \cup {e})  BY <1>14 DEF MismatchCancel
  <2> HIDE DEF e
  <2>3. GivenUp(s, net)  BY <1>14, <1>w DEF MismatchCancel
  <2>4. GivenUp(s, net \cup {e})  BY <2>1, <2>3 DEF GivenUp
  <2> QED  BY <1>14, <1>n, <1>w, <2>1, <2>2, <2>4, LinkFailed DEF MismatchCancel
<1>15. CASE ThreadList(s)  BY <1>15, LinkQuiet DEF ThreadList
<1>16. CASE ThreadDel(s)  BY <1>16, <1>m DEF ThreadDel, Run, Places
<1>17. CASE ThreadRename(s)  BY <1>17, <1>m DEF ThreadRename, Run, Places
<1>18. CASE ThreadSandbox(s)  BY <1>18, <1>m, LinkQuiet DEF ThreadSandbox, Run, Places
<1>19. CASE ModelSet(s)  BY <1>19, <1>m, LinkQuiet DEF ModelSet, Run, Places
<1>20. CASE CommandDone(s)  BY <1>20, <1>m DEF CommandDone, Places
<1>21. CASE CreateThread(s)  BY <1>21, LinkStart DEF CreateThread
<1>22. CASE Created(s)
  <2>1. \A u \in Sessions \ {s} : cur'[u] = cur[u]  BY <1>22 DEF Created, TypeOK, ClientOK
  <2> QED  BY <1>22, <1>a, <1>n, <2>1, LinkMove DEF Created, Places
<1>23. CASE SendMessage(s)  BY <1>23, <1>m DEF SendMessage, Run, Places
<1>24. CASE Quit(s)
  <2> DEFINE bye == [kind |-> "bye", s |-> s, t |-> Nobody, live |-> FALSE]
  <2>1. \A u \in Sessions : pc'[u] = IF u = s THEN "gone" ELSE pc[u]
    BY <1>24 DEF Quit, TypeOK, ClientOK
  <2>2. \A m \in net' : m \in net \/ m = bye  BY <1>24 DEF Quit
  <2>3. bye.s = s /\ bye.kind = "bye" /\ bye.live = FALSE  OBVIOUS
  <2> HIDE DEF bye
  <2>4. \A m \in net : m.s \in Sessions  BY <1>n DEF Request
  <2>5. UNCHANGED <<answer, cur>> /\ pc[s] = "shell"  BY <1>24 DEF Quit
  <2>6. answer[s] = Nobody /\ cur[s] = Nobody /\ \A m \in net : m.live => m.s # s
    BY <2>5, NotWaiting DEF LinkInv, InChat
  <2> QED  BY <2>1, <2>2, <2>3, <2>4, <2>5, <2>6 DEF LinkInv, InChat
<1>25. CASE Killed(s)
  <2>1. \A u \in Sessions : /\ pc'[u] = IF u = s THEN "gone" ELSE pc[u]
                            /\ answer'[u] = IF u = s THEN Nobody ELSE answer[u]
                            /\ cur'[u] = IF u = s THEN Nobody ELSE cur[u]
    BY <1>25, <1>n DEF Killed, Closed, TypeOK, ClientOK
  <2>2. \A m \in net' : \E n \in net : m = [n EXCEPT !.live = @ /\ n.s # s]
    BY <1>25 DEF Killed
  <2>3. \A m \in net' : \E n \in net : /\ m.s = n.s /\ m.kind = n.kind /\ m.t = n.t
                                       /\ m.live <=> (n.live /\ n.s # s)
                                       /\ n.s # s => m = n
    <3> SUFFICES ASSUME NEW m \in net'
                 PROVE  \E n \in net : /\ m.s = n.s /\ m.kind = n.kind /\ m.t = n.t
                                       /\ m.live <=> (n.live /\ n.s # s)
                                       /\ n.s # s => m = n
      OBVIOUS
    <3>1. PICK n \in net : m = [n EXCEPT !.live = @ /\ n.s # s]  BY <2>2
    <3>2. n \in Request  BY <1>n
    <3>3. m.s = n.s /\ m.kind = n.kind /\ m.t = n.t /\ m.live = (n.live /\ n.s # s)
      BY <3>1, <3>2 DEF Request
    <3>4. CASE n.s # s
      <4>1. m = [n EXCEPT !.live = n.live]  BY <3>1, <3>2, <3>4 DEF Request
      <4>2. m = n  BY <3>2, <4>1 DEF Request
      <4> QED  BY <3>3, <4>2
    <3>5. CASE n.s = s  BY <3>3, <3>5
    <3> QED  BY <3>4, <3>5
  <2>4. \A n \in net : n.s \in Sessions  BY <1>n DEF Request
  <2>5. ASSUME NEW m \in net', NEW n \in net', m.live, n.live, m.s = n.s
        PROVE  m = n
    BY <2>3, <2>5 DEF LinkInv
  <2>6. ASSUME NEW m \in net'
        PROVE  /\ m.kind = "start" /\ m.live =>
                     /\ answer'[m.s] = Nobody
                     /\ pc'[m.s] \in IF m.t = Nobody THEN {"create"} ELSE {"resume", "resume2"}
               /\ m.kind = "start" /\ ~m.live /\ m.t = Nobody => pc'[m.s] = "gone"
               /\ m.kind = "end" /\ m.live => pc'[m.s] = "leaving" /\ answer'[m.s] = Nobody
               /\ m.kind = "bye" => pc'[m.s] = "gone" /\ ~m.live
    BY <2>1, <2>3, <2>4, <2>6 DEF LinkInv
  <2>7. \A u \in Sessions :
           /\ answer'[u] # Nobody =>
                 /\ pc'[u] \in {"resume", "resume2", "create", "leaving"}
                 /\ answer'[u].err = "ok" <=> answer'[u].t \in Threads
                 /\ pc'[u] = "create" => answer'[u].err = "ok"
           /\ ~InChat(u)' => cur'[u] = Nobody
    BY <2>1 DEF LinkInv, InChat
  <2> QED  BY <2>5, <2>6, <2>7 DEF LinkInv
<1> QED
  BY <1>1, <1>2, <1>3, <1>4, <1>5, <1>6, <1>7, <1>8, <1>9, <1>10, <1>11, <1>12, <1>13,
     <1>14, <1>15, <1>16, <1>17, <1>18, <1>19, <1>20, <1>21, <1>22, <1>23, <1>24, <1>25
  DEF SessionStep

(* Link: a restart.                                                        *)
LEMMA LinkRestartStep ==
    ASSUME TypeOK, LinkInv, Restart
    PROVE  LinkInv'
<1>1. net' = {} /\ \A s \in Sessions : answer'[s] = Nobody /\ pc'[s] = AfterRestart(s)
  BY DEF Restart
<1>2. \A s \in Sessions : AfterRestart(s) \in {"shell", "gone"} => cur'[s] = Nobody
  BY DEF Restart
<1>3. \A s \in Sessions : AfterRestart(s) # "leaving"  BY DEF AfterRestart
<1> QED  BY <1>1, <1>2, <1>3 DEF LinkInv, InChat

-----------------------------------------------------------------------------
(* Claims.                                                                 *)

(* A reply is not Nobody.                                                  *)
LEMMA NotNobody ==
    ASSUME NEW r \in Reply
    PROVE  r # Nobody
BY NobodyAssumption

(* A session granted a thread is granted one that exists.                  *)
LEMMA GrantedThread ==
    ASSUME TypeOK, LinkInv, NEW s \in Sessions, Granted(s) # Nobody
    PROVE  Granted(s) \in Threads
BY DEF TypeOK, ClientOK, LinkInv, Granted

(* Owners after claims are dropped.                                        *)
LEMMA DropOwner ==
    ASSUME NEW T, NEW t \in Threads
    PROVE  Drop(T)[t].owner = IF t \in T THEN Nobody ELSE claims[t].owner
BY DEF Drop, NoClaim

(* Owners after try_claim_thread: the session has this claim and no other. *)
LEMMA ClaimOwner ==
    ASSUME NEW t \in Threads, NEW s \in Sessions, NEW u \in Threads
    PROVE  /\ try_claim_thread(t, s) \in [Threads -> {[owner |-> s, pending |-> NoMeta], NoClaim} \cup {claims[x] : x \in Threads}]
           /\ try_claim_thread(t, s)[u].owner = IF u = t THEN s
                 ELSE IF claims[u].owner = s THEN Nobody ELSE claims[u].owner
<1>1. Drop(HeldBy(s)) \in [Threads -> {NoClaim} \cup {claims[x] : x \in Threads}]  BY DEF Drop
<1>2. Drop(HeldBy(s))[u].owner = IF claims[u].owner = s THEN Nobody ELSE claims[u].owner
  BY DropOwner DEF HeldBy
<1> QED  BY <1>1, <1>2 DEF try_claim_thread

(* A client that stays with what it was granted, or gets out.              *)
LEMMA HeldClient ==
    ASSUME HeldInv, NEW s \in Sessions, UNCHANGED claims, lost \subseteq lost' \cup {s},
           \A u \in Sessions \ {s} : pc'[u] = pc[u] /\ cur'[u] = cur[u] /\ answer'[u] = answer[u],
           \/ ~InChat(s)'
           \/ Granted(s)' = Nobody
           \/ InChat(s) /\ Granted(s)' = Granted(s) /\ (s \in lost => s \in lost')
           \/ s \notin lost' => claims[Granted(s)'].owner = s
    PROVE  HeldInv'
BY DEF HeldInv, InChat, Granted

(* Claims: a step of a client.                                             *)
LEMMA HeldClientStep ==
    ASSUME TypeOK, LinkInv, HeldInv, ClientStep
    PROVE  HeldInv'
<1> PICK s \in Sessions : SessionStep(s)  BY DEF ClientStep
<1>t. /\ pc \in [Sessions -> Places] /\ cur \in [Sessions -> Threads \cup {Nobody}]
      /\ answer \in [Sessions -> Reply \cup {Nobody}] /\ lost \subseteq Sessions
  BY DEF TypeOK, ClientOK, LinkOK, StoreOK
(* s stays in the chat on its thread.                                      *)
<1>m. ASSUME NEW p, pc' = [pc EXCEPT ![s] = p], UNCHANGED <<cur, answer, claims, lost>>, InChat(s)
      PROVE  HeldInv'
  BY <1>m, <1>t, HeldClient DEF Granted
(* s is out of the chat.                                                   *)
<1>q. ASSUME NEW p \in {"shell", "gone", "leaving"}, pc' = [pc EXCEPT ![s] = p], UNCHANGED claims,
             lost \subseteq lost' \cup {s},
             \A u \in Sessions \ {s} : cur'[u] = cur[u] /\ answer'[u] = answer[u]
      PROVE  HeldInv'
  BY <1>q, <1>t, HeldClient DEF InChat
<1>l. ASSUME NEW others, Left(s, others), UNCHANGED claims,
             \A u \in Sessions \ {s} : answer'[u] = answer[u]
      PROVE  HeldInv'
  BY <1>l, <1>q, <1>t DEF Left, Closed
<1>f. ASSUME NEW others, Failed(s, others), UNCHANGED <<claims, answer>>, InChat(s)
      PROVE  HeldInv'
  BY <1>f, <1>l, <1>m DEF Failed
(* s enters the chat without a thread.                                     *)
<1>e. ASSUME NEW p, pc[s] = "shell", pc' = [pc EXCEPT ![s] = p], UNCHANGED <<cur, answer, claims, lost>>
      PROVE  HeldInv'
  <2>1. Granted(s)' = Nobody  BY <1>e DEF LinkInv, InChat, Granted
  <2> QED  BY <1>e, <1>t, <2>1, HeldClient
<1>1. CASE EnterChat(s)  BY <1>1, <1>e DEF EnterChat
<1>2. CASE EnterFast(s)  BY <1>2, <1>e DEF EnterFast, Start
<1>3. CASE Leave(s)  BY <1>3, <1>l DEF Leave
<1>4. CASE LeaveDone(s)  BY <1>4, <1>q, <1>t DEF LeaveDone
<1>5. CASE \E scope \in {"ids_all", "ids_host"} : AskResume(s, scope)
  BY <1>5, <1>m DEF AskResume, InChat
<1>6. CASE FetchIds(s)
  <2>1. CASE Fetched(s, pc[s] = "ids_all") = <<>>  BY <1>6, <1>f, <2>1 DEF FetchIds, InChat
  <2>2. CASE Fetched(s, pc[s] = "ids_all") # <<>>  BY <1>6, <1>m, <2>2 DEF FetchIds, InChat
  <2> QED  BY <2>1, <2>2
<1>7. CASE FetchItems(s)
  <2>1. CASE Listing(s, pc[s] = "items_all") = <<>>  BY <1>7, <1>f, <2>1 DEF FetchItems, InChat
  <2>2. CASE Listing(s, pc[s] = "items_all") # <<>>  BY <1>7, <1>m, <2>2 DEF FetchItems, InChat
  <2> QED  BY <2>1, <2>2
<1>8. CASE Pick(s)  BY <1>8, <1>m DEF Pick, Start, InChat
<1>9. CASE PickEscape(s)  BY <1>9, <1>f DEF PickEscape, InChat
<1>10. CASE ResumeNumber(s)  BY <1>10, <1>m DEF ResumeNumber, Start, InChat
<1>11. CASE ResumeAnswer(s)
  <2>1. Granted(s)' = Granted(s)  BY <1>11, <1>t DEF ResumeAnswer, Granted
  <2>2. \A u \in Sessions \ {s} : pc'[u] = pc[u] /\ cur'[u] = cur[u] /\ answer'[u] = answer[u]
    BY <1>11, <1>t DEF ResumeAnswer, Resumed
  <2> QED  BY <1>11, <2>1, <2>2, HeldClient DEF ResumeAnswer, InChat
<1>12. CASE ResumeTimeout(s)
  <2>1. CASE fast[s]
    <3>1. \E others : Left(s, others)  BY <1>12, <2>1 DEF ResumeTimeout
    <3> QED  BY <1>12, <1>l, <1>t, <3>1 DEF ResumeTimeout
  <2>2. CASE ~fast[s]
    <3>1. Granted(s)' = cur[s]  BY <1>12, <2>2, <1>t DEF ResumeTimeout, Granted
    <3>2. \A u \in Sessions \ {s} : pc'[u] = pc[u] /\ cur'[u] = cur[u] /\ answer'[u] = answer[u]
      BY <1>12, <2>2, <1>t DEF ResumeTimeout
    <3>3. UNCHANGED claims /\ lost \subseteq lost'
          /\ (cur[s] = Nobody \/ s \in lost' \/ claims[cur[s]].owner = s)
      BY <1>12, <2>2 DEF ResumeTimeout
    <3> QED  BY <3>1, <3>2, <3>3, HeldClient
  <2> QED  BY <2>1, <2>2
<1>13. CASE MismatchGo(s)  BY <1>13, <1>m DEF MismatchGo, Resumed, InChat
<1>14. CASE MismatchCancel(s)  BY <1>14, <1>f DEF MismatchCancel, InChat
<1>15. CASE ThreadList(s)  BY <1>15 DEF ThreadList, HeldInv, InChat, Granted
<1>16. CASE ThreadDel(s)  BY <1>16, <1>m DEF ThreadDel, Run, InChat
<1>17. CASE ThreadRename(s)  BY <1>17, <1>m DEF ThreadRename, Run, InChat
<1>18. CASE ThreadSandbox(s)
  <2>1. CASE cur[s] = Nobody  BY <1>18, <2>1 DEF ThreadSandbox, HeldInv, InChat, Granted
  <2>2. CASE cur[s] # Nobody  BY <1>18, <1>m, <2>2 DEF ThreadSandbox, Run, InChat
  <2> QED  BY <2>1, <2>2
<1>19. CASE ModelSet(s)
  <2>1. CASE cur[s] = Nobody  BY <1>19, <2>1 DEF ModelSet, HeldInv, InChat, Granted
  <2>2. CASE cur[s] # Nobody  BY <1>19, <1>m, <2>2 DEF ModelSet, Run, InChat
  <2> QED  BY <2>1, <2>2
<1>20. CASE CommandDone(s)  BY <1>20, <1>m DEF CommandDone, InChat
<1>21. CASE CreateThread(s)  BY <1>21, <1>m DEF CreateThread, Start, InChat
<1>22. CASE Created(s)
  <2>1. answer[s].err = "ok"  BY <1>22 DEF Created, LinkInv
  <2>2. Granted(s)' = Granted(s)  BY <1>22, <1>t, <2>1 DEF Created, Granted
  <2>3. \A u \in Sessions \ {s} : pc'[u] = pc[u] /\ cur'[u] = cur[u] /\ answer'[u] = answer[u]
    BY <1>22, <1>t DEF Created
  <2> QED  BY <1>22, <2>2, <2>3, HeldClient DEF Created, InChat
<1>23. CASE SendMessage(s)  BY <1>23, <1>m DEF SendMessage, Run, InChat
<1>24. CASE Quit(s)  BY <1>24, <1>q DEF Quit
<1>25. CASE Killed(s)  BY <1>25, <1>q, <1>t DEF Killed, Closed
<1> QED
  BY <1>1, <1>2, <1>3, <1>4, <1>5, <1>6, <1>7, <1>8, <1>9, <1>10, <1>11, <1>12, <1>13,
     <1>14, <1>15, <1>16, <1>17, <1>18, <1>19, <1>20, <1>21, <1>22, <1>23, <1>24, <1>25
  DEF SessionStep

(* Claims: a step of the daemon.  Where a claim goes to another session or to*)
(* nobody, its owner had left, or is counted as lost.                      *)
LEMMA HeldDaemonStep ==
    ASSUME TypeOK, LinkInv, HeldInv, DaemonStep
    PROVE  HeldInv'
<1>t. /\ pc \in [Sessions -> Places] /\ cur \in [Sessions -> Threads \cup {Nobody}]
      /\ answer \in [Sessions -> Reply \cup {Nobody}] /\ lost \subseteq Sessions
      /\ net \subseteq Request /\ claims \in [Threads -> Claim]
  BY DEF TypeOK, ClientOK, LinkOK, StoreOK
<1>g. \A u \in Sessions : Granted(u) # Nobody => Granted(u) \in Threads  BY GrantedThread
<1>1. ASSUME NEW k \in Tasks,
             AppendFile(k) \/ DeleteMemory(k) \/ LoadMeta(k) \/ SaveMeta(k) \/ SaveRun(k)
                \/ AddQuery(k) \/ AddReply(k)
      PROVE  HeldInv'
  <2>1. UNCHANGED <<pc, answer, cur, claims, lost>>
    BY <1>1 DEF AppendFile, DeleteMemory, LoadMeta, SaveMeta, SaveRun, AddQuery, AddReply
  <2> QED  BY <2>1 DEF HeldInv, InChat, Granted
<1>2. ASSUME NEW k \in Tasks, DeleteFiles(k)
      PROVE  HeldInv'
  <2>1. UNCHANGED <<pc, answer, claims, lost>> /\ \A u \in Sessions : cur'[u] = cur[u] \/ cur'[u] = Nobody
    BY <1>2, <1>t DEF DeleteFiles
  <2> QED  BY <2>1 DEF HeldInv, InChat, Granted
<1>3. ASSUME NEW k \in Sessions, TouchThread(k)
      PROVE  HeldInv'
  <2>1. UNCHANGED <<pc, answer, cur, lost>> /\ \A t \in Threads : claims'[t].owner = claims[t].owner
    BY <1>3, <1>t DEF TouchThread, Claim
  <2> QED  BY <1>g, <2>1 DEF HeldInv, InChat, Granted
<1>4. ASSUME NEW t \in Threads, SummaryJob(t)
      PROVE  HeldInv'
  BY <1>4 DEF SummaryJob, HeldInv, InChat, Granted
<1>5. ASSUME NEW t \in Threads, ReleaseIdle(t)
      PROVE  HeldInv'
  <2>1. \A u \in Threads : claims'[u].owner = IF u = t THEN Nobody ELSE claims[u].owner
    BY <1>5, DropOwner DEF ReleaseIdle
  <2>2. UNCHANGED <<pc, answer, cur>> /\ lost' = lost \cup Bereft({t})  BY <1>5 DEF ReleaseIdle
  <2>3. ASSUME NEW u \in Sessions \ lost, InChat(u), Granted(u) = t, claims[t].owner = u
        PROVE  u \in Bereft({t})
    BY <2>3 DEF Bereft, Using, Granted
  <2> QED  BY <1>g, <2>1, <2>2, <2>3 DEF HeldInv, InChat, Granted
<1>6. ASSUME NEW m \in net, HandleSessionEnd(m)
      PROVE  HeldInv'
  <2>1. m.s \in Sessions /\ pc[m.s] = "gone"
    BY <1>6, <1>t DEF HandleSessionEnd, LinkInv, Request
  <2>2. \A u \in Threads : claims'[u].owner = IF claims[u].owner = m.s THEN Nobody ELSE claims[u].owner
    BY <1>6, DropOwner DEF HandleSessionEnd, HeldBy
  <2>3. UNCHANGED <<pc, answer, cur, lost>>  BY <1>6 DEF HandleSessionEnd
  <2> QED  BY <1>g, <2>1, <2>2, <2>3 DEF HeldInv, InChat, Granted
<1>7. ASSUME NEW m \in net, HandleEnd(m)
      PROVE  HeldInv'
  <2>1. m.s \in Sessions  BY <1>t DEF Request
  <2>2. CASE m.live
    <3>1. pc[m.s] = "leaving"  BY <1>7, <2>2 DEF HandleEnd, LinkInv
    <3>2. \A u \in Sessions \ {m.s} : answer'[u] = answer[u]
      BY <1>7, <1>t, <2>2 DEF HandleEnd, Respond
    <3>3. \A u \in Threads : claims'[u].owner = claims[u].owner \/ claims[u].owner = m.s
      BY <1>7, DropOwner DEF HandleEnd
    <3>4. UNCHANGED <<pc, cur>> /\ lost \subseteq lost'  BY <1>7 DEF HandleEnd
    <3> QED  BY <1>g, <2>1, <3>1, <3>2, <3>3, <3>4 DEF HeldInv, InChat, Granted
  <2>3. CASE ~m.live
    <3>1. UNCHANGED <<pc, cur, answer>> /\ lost \subseteq lost'  BY <1>7, <2>3 DEF HandleEnd, Respond
    <3>2. CASE claims[m.t].owner # m.s
      BY <1>7, <3>1, <3>2 DEF HandleEnd, HeldInv, InChat, Granted
    <3>3. CASE claims[m.t].owner = m.s
      <4>1. \A u \in Threads : claims'[u].owner = IF u = m.t THEN Nobody ELSE claims[u].owner
        BY <1>7, <3>3, DropOwner DEF HandleEnd
      <4>2. lost' = lost \cup Bereft({m.t})  BY <1>7, <2>3, <3>3 DEF HandleEnd
      <4>3. ASSUME NEW u \in Sessions \ lost, InChat(u), Granted(u) = m.t, claims[m.t].owner = u
            PROVE  u \in Bereft({m.t})
        BY <4>3 DEF Bereft, Using, Granted
      <4> QED  BY <1>g, <3>1, <4>1, <4>2, <4>3 DEF HeldInv, InChat, Granted
    <3> QED  BY <3>2, <3>3
  <2> QED  BY <2>2, <2>3
<1>8. ASSUME NEW m \in net, HandleNew(m)
      PROVE  HeldInv'
  <2>1. m.s \in Sessions  BY <1>t DEF Request
  <2>2. PICK t \in Threads : /\ claims[t].owner = Nobody /\ claims' = try_claim_thread(t, m.s)
                             /\ Respond(m, [err |-> "ok", t |-> t, place |-> Nobody])
    BY <1>8 DEF HandleNew, Unused
  <2> DEFINE r == [err |-> "ok", t |-> t, place |-> Nobody]
  <2>r. r \in Reply  BY DEF Reply
  <2>3. r.err = "ok" /\ r.t = t /\ r # Nobody /\ Respond(m, r)
    BY <2>2, <2>r, NotNobody
  <2> HIDE DEF r
  <2>4. \A u \in Threads : claims'[u].owner = IF u = t THEN m.s
             ELSE IF claims[u].owner = m.s THEN Nobody ELSE claims[u].owner
    BY <2>1, <2>2, ClaimOwner
  <2>5. UNCHANGED <<pc, cur>> /\ lost' = lost \ {m.s}  BY <1>8 DEF HandleNew
  <2>6. \A u \in Sessions : answer'[u] = IF m.live /\ u = m.s THEN r ELSE answer[u]
    BY <1>t, <2>1, <2>3 DEF Respond
  <2>7. ~m.live => pc[m.s] = "gone"  BY <1>8 DEF HandleNew, LinkInv
  <2>8. \A u \in Sessions : u # m.s => Granted(u)' = Granted(u)  BY <2>5, <2>6 DEF Granted
  <2>9. m.live => Granted(m.s)' = t  BY <2>1, <2>3, <2>6 DEF Granted
  <2>10. \A u \in Sessions : u # Nobody  BY NobodyAssumption
  <2> QED  BY <1>g, <2>1, <2>2, <2>4, <2>5, <2>7, <2>8, <2>9, <2>10 DEF HeldInv, InChat
<1>9. ASSUME NEW m \in net, HandleResume(m)
      PROVE  HeldInv'
  <2>1. m.s \in Sessions /\ m.t \in Threads /\ m.kind = "start"
    BY <1>9, <1>t DEF Request, HandleResume
  <2>2. UNCHANGED <<pc, cur>>  BY <1>9 DEF HandleResume
  <2>3. \A u \in Sessions : u # Nobody  BY NobodyAssumption
  <2>4. CASE UNCHANGED <<claims, lost>>
             /\ \E err \in {"not_found", "thread_locked"} : Respond(m, ChatReady(err, Nobody))
    <3>1. PICK err \in {"not_found", "thread_locked"} : Respond(m, ChatReady(err, Nobody))  BY <2>4
    <3>2. ChatReady(err, Nobody).err # "ok"  BY DEF ChatReady
    <3> DEFINE r == ChatReady(err, Nobody)
    <3> HIDE DEF r
    <3>3. \A u \in Sessions : answer'[u] = IF m.live /\ u = m.s THEN r ELSE answer[u]
      BY <1>t, <2>1, <3>1 DEF Respond, r
    <3>4. m.live => answer[m.s] = Nobody  BY <2>1 DEF LinkInv
    <3>5. \A u \in Sessions : Granted(u)' = Granted(u)  BY <2>2, <3>2, <3>3, <3>4 DEF Granted, r
    <3> QED  BY <2>2, <2>4, <3>5 DEF HeldInv, InChat
  <2>5. CASE /\ CanClaim(m.t, m.s)
             /\ claims' = [try_claim_thread(m.t, m.s) EXCEPT ![m.t].pending = Deferred(m.t, m.s)]
             /\ lost' = IF m.live THEN lost \ {m.s} ELSE lost \cup Bereft(HeldBy(m.s) \ {m.t})
             /\ Respond(m, ChatReady("ok", m.t))
    <3> DEFINE c == try_claim_thread(m.t, m.s)
               r == ChatReady("ok", m.t)
    <3>1. \A u \in Threads : c[u].owner = IF u = m.t THEN m.s
               ELSE IF claims[u].owner = m.s THEN Nobody ELSE claims[u].owner
      BY <2>1, ClaimOwner
    <3>2. c[m.t] = [owner |-> m.s, pending |-> NoMeta] /\ c \in [Threads -> Claim]
      <4>1. Drop(HeldBy(m.s)) \in [Threads -> Claim]  BY <1>t DEF Drop, NoClaim, Claim
      <4> QED  BY <2>1, <4>1 DEF try_claim_thread, Claim
    <3>3. r.err = "ok" /\ r.t = m.t /\ r # Nobody
      <4>1. r \in Reply  BY <2>1, ReplyType DEF TypeOK
      <4>2. r # Nobody  BY <4>1, NotNobody
      <4> QED  BY <4>2 DEF ChatReady
    <3>a. claims' = [c EXCEPT ![m.t].pending = Deferred(m.t, m.s)]  BY <2>5
    <3> HIDE DEF c, r
    <3>4. \A u \in Threads : claims'[u].owner = c[u].owner
      BY <2>1, <3>a, <3>2 DEF Claim
    <3>5. \A u \in Sessions : answer'[u] = IF m.live /\ u = m.s THEN r ELSE answer[u]
      BY <1>t, <2>1, <2>5 DEF Respond, r
    <3>6. \A u \in Sessions : ~(m.live /\ u = m.s) => Granted(u)' = Granted(u)  BY <2>2, <3>5 DEF Granted
    <3>7. m.live => Granted(m.s)' = m.t  BY <2>1, <3>3, <3>5 DEF Granted
    <3>8. ASSUME NEW u \in Sessions \ lost', InChat(u)', Granted(u)' # Nobody
          PROVE  claims'[Granted(u)'].owner = u
      <4>1. CASE m.live /\ u = m.s  BY <2>1, <3>1, <3>4, <3>7, <4>1
      <4>2. CASE u # m.s
        <5>1. u \notin lost /\ InChat(u) /\ Granted(u)' = Granted(u) /\ Granted(u) \in Threads
          BY <1>g, <2>2, <2>5, <3>6, <3>8, <4>2 DEF InChat
        <5>2. claims[Granted(u)].owner = u  BY <3>8, <5>1 DEF HeldInv
        <5>3. Granted(u) # m.t  BY <2>3, <2>5, <4>2, <5>2 DEF CanClaim
        <5> QED  BY <3>1, <3>4, <4>2, <5>1, <5>2, <5>3
      <4>3. CASE ~m.live /\ u = m.s
        <5>1. u \notin lost /\ InChat(u) /\ Granted(u)' = Granted(u) /\ Granted(u) \in Threads
          BY <1>g, <2>2, <2>5, <3>6, <3>8, <4>3 DEF InChat
        <5>2. claims[Granted(u)].owner = u  BY <3>8, <5>1 DEF HeldInv
        <5>3. Granted(u) \in Using(u)  BY DEF Granted, Using
        <5>4. Granted(u) = m.t
          BY <2>5, <3>8, <4>3, <5>1, <5>2, <5>3 DEF Bereft, HeldBy
        <5> QED  BY <2>1, <3>1, <3>4, <4>3, <5>1, <5>4
      <4> QED  BY <4>1, <4>2, <4>3
    <3> QED  BY <3>8 DEF HeldInv
  <2> QED  BY <1>9, <2>4, <2>5 DEF HandleResume
<1> QED  BY <1>1, <1>2, <1>3, <1>4, <1>5, <1>6, <1>7, <1>8, <1>9 DEF DaemonStep, Tasks

(* Claims: a restart counts every session on a thread as lost.             *)
LEMMA HeldRestartStep ==
    ASSUME Restart
    PROVE  HeldInv'
<1>1. \A s \in Sessions : answer'[s] = Nobody /\ pc'[s] = AfterRestart(s)
  BY DEF Restart
<1>2. \A s \in Sessions \ lost' : cur'[s] = Nobody  BY DEF Restart
<1> QED  BY <1>1, <1>2 DEF HeldInv, Granted

-----------------------------------------------------------------------------
(* Handlers.                                                               *)

(* A step of a handler, and what the task looks like after it.             *)
LEMMA DoneSteps ==
    ASSUME TaskOK, NEW k \in Tasks, task[k].todo # <<>>, task' = Done(k)
    PROVE  /\ \A j \in Tasks \ {k} : task'[j] = task[j]
           /\ task'[k].t = task[k].t /\ task'[k].todo = Tail(task[k].todo)
           /\ task'[k].msg = task[k].msg
           /\ ~At(k, "file")' /\ (At(k, "unlink")' <=> At(k, "delete"))
<1> DEFINE q == task[k].todo
<1>1. task[k] \in TaskRecord /\ q \in Todo  BY DEF TaskOK, TaskRecord
<1>2. /\ Tail(q) # <<>> => Head(Tail(q)) # "file"
      /\ Tail(q) # <<>> /\ Head(Tail(q)) = "unlink" => Head(q) = "delete"
      /\ Head(q) = "delete" => Tail(q) = <<"unlink">>
  BY <1>1, TodoSteps
<1>3. /\ \A j \in Tasks \ {k} : task'[j] = task[j]
      /\ task'[k] = [task[k] EXCEPT !.todo = Tail(q)]
  BY DEF Done, TaskOK
<1>4. task'[k].t = task[k].t /\ task'[k].todo = Tail(q) /\ task'[k].msg = task[k].msg
  BY <1>1, <1>3 DEF TaskRecord
<1>5. Head(<<"unlink">>) = "unlink" /\ <<"unlink">> # <<>>  OBVIOUS
<1> QED  BY <1>2, <1>3, <1>4, <1>5 DEF At

(* After the write to memory the file is next.                             *)
LEMMA WriteSteps ==
    ASSUME TaskOK, NEW k \in Tasks, At(k, "query") \/ At(k, "reply"), NEW msg,
           task' = [task EXCEPT ![k].todo = [@ EXCEPT ![1] = "file"], ![k].msg = msg]
    PROVE  /\ \A j \in Tasks \ {k} : task'[j] = task[j]
           /\ task'[k].t = task[k].t /\ task'[k].msg = msg /\ At(k, "file")'
<1> DEFINE q == task[k].todo
           r == [q EXCEPT ![1] = "file"]
<1>1. task[k] \in TaskRecord /\ q \in Todo /\ q # <<>>  BY DEF TaskOK, TaskRecord, At
<1>2. r \in Todo /\ Head(r) = "file"  BY <1>1, TodoSteps DEF At
<1>3. r # <<>>
  <2>1. 1 \in DOMAIN q  BY <1>1 DEF Todo, TurnSteps
  <2>2. 1 \in DOMAIN r  BY <2>1
  <2> HIDE DEF r
  <2> QED  BY <2>2
<1>4. /\ \A j \in Tasks \ {k} : task'[j] = task[j]
      /\ task'[k] = [task[k] EXCEPT !.todo = r, !.msg = msg]
  BY DEF TaskOK
<1> HIDE DEF r
<1>5. task'[k].t = task[k].t /\ task'[k].todo = r /\ task'[k].msg = msg
  BY <1>1, <1>4 DEF TaskRecord
<1> QED  BY <1>2, <1>3, <1>4, <1>5 DEF At

(* Handlers: a step of one.                                                *)
LEMMA TaskDaemonStep ==
    ASSUME TypeOK, TaskInv, NEW k \in Tasks,
           \/ AppendFile(k) \/ DeleteMemory(k) \/ DeleteFiles(k) \/ LoadMeta(k) \/ SaveMeta(k)
           \/ TouchThread(k) \/ SaveRun(k) \/ AddQuery(k) \/ AddReply(k)
    PROVE  TaskInv'
<1> DEFINE q == task[k].todo
<1>0. task[k] \in TaskRecord /\ q \in Todo /\ q # <<>> /\ TaskOK
  BY DEF TypeOK, TaskOK, TaskRecord, At, AppendFile, DeleteMemory, DeleteFiles, LoadMeta, SaveMeta,
         TouchThread, SaveRun, AddQuery, AddReply
<1>1. pc' = pc
  BY DEF AppendFile, DeleteMemory, DeleteFiles, LoadMeta, SaveMeta, TouchThread, SaveRun, AddQuery,
         AddReply
<1>2. CASE k \in Sessions /\ pc[k] = "send"
  <2>1. q \in {<<"load", "save">>, <<"save">>}  BY <1>0, <1>2 DEF TaskInv
  <2>2. At(k, "load") \/ At(k, "save")  BY <2>1 DEF At
  <2>3. LoadMeta(k) \/ SaveMeta(k)
    BY <2>2 DEF At, AppendFile, DeleteMemory, DeleteFiles, TouchThread, SaveRun, AddQuery, AddReply
  <2>4. Tail(q) \in {<<>>, <<"save">>}  BY <1>0, <2>2, TodoSteps DEF At
  <2>5. task'[k].todo \in {<<>>, Tail(q)} /\ \A j \in Tasks \ {k} : task'[j] = task[j]
    BY <1>0, <2>3 DEF LoadMeta, SaveMeta, Idle, Handler, TaskOK, TaskRecord
  <2> QED  BY <1>1, <1>2, <2>4, <2>5 DEF TaskInv, Tasks
<1>3. CASE ~(k \in Sessions /\ pc[k] = "send")
  <2>1. \A j \in Tasks \ {k} : task'[j] = task[j]
    BY <1>0 DEF AppendFile, DeleteMemory, DeleteFiles, LoadMeta, SaveMeta, TouchThread, SaveRun, AddQuery,
         AddReply, Done, TaskOK
  <2>2. k \in Sessions => pc[k] \in {"busy", "gone"}  BY <1>0, <1>3 DEF TaskInv
  <2> QED  BY <1>1, <2>1, <2>2 DEF TaskInv, Tasks
<1> QED  BY <1>2, <1>3

(* Handlers: a client starts one only when it has none, and none starts in *)
(* the middle of a write.                                                  *)
LEMMA TaskClientStep ==
    ASSUME TypeOK, TaskInv, ClientStep
    PROVE  /\ TaskInv' /\ UNCHANGED <<mem, file, mixed>>
           /\ \A k \in Tasks : \/ task'[k] = task[k]
                               \/ /\ ~At(k, "file") /\ ~At(k, "unlink")
                                  /\ ~At(k, "file")' /\ ~At(k, "unlink")'
<1> PICK s \in Sessions : SessionStep(s)  BY DEF ClientStep
<1> DEFINE Goal == /\ TaskInv' /\ UNCHANGED <<mem, file, mixed>>
                   /\ \A k \in Tasks : \/ task'[k] = task[k]
                                       \/ /\ ~At(k, "file") /\ ~At(k, "unlink")
                                          /\ ~At(k, "file")' /\ ~At(k, "unlink")'
<1>t. pc \in [Sessions -> Places] /\ task \in [Tasks -> TaskRecord]  BY DEF TypeOK, ClientOK, TaskOK
(* No handler starts or ends.                                              *)
<1>m. ASSUME NEW p \in Places \ {"send"}, pc' = [pc EXCEPT ![s] = p], UNCHANGED <<task, mem, file, mixed>>,
             pc[s] \notin {"busy", "send", "gone"} \/ p = "gone"
      PROVE  Goal
  BY <1>m, <1>t DEF TaskInv
<1>l. ASSUME NEW others, Left(s, others) \/ Failed(s, others), UNCHANGED <<task, mem, file, mixed>>,
             pc[s] \notin {"busy", "send", "gone"}
      PROVE  Goal
  BY <1>l, <1>m DEF Left, Failed, Places
(* A handler starts.                                                       *)
<1>h. ASSUME NEW todo \in {<<>>, <<"delete", "unlink">>, <<"load", "save">>, <<"touch", "run">>, TurnSteps},
             NEW t, NEW f, task' = [task EXCEPT ![s] = Handler(todo, t, f)],
             NEW p \in {"busy", "prompt", "send"}, pc' = [pc EXCEPT ![s] = p], task[s].todo = <<>>,
             p = "prompt" => todo = <<>>, p = "send" => todo = <<"load", "save">>,
             UNCHANGED <<mem, file, mixed>>
      PROVE  Goal
  <2>1. task'[s].todo = todo /\ \A j \in Tasks \ {s} : task'[j] = task[j]
    BY <1>h, <1>t DEF Handler, Tasks
  <2>2. todo = <<>> \/ Head(todo) \notin {"file", "unlink"}  BY DEF TurnSteps
  <2>3. ~At(s, "file") /\ ~At(s, "unlink") /\ ~At(s, "file")' /\ ~At(s, "unlink")'
    BY <1>h, <2>1, <2>2 DEF At
  <2>4. TaskInv'  BY <1>h, <1>t, <2>1 DEF TaskInv, Tasks
  <2> QED  BY <1>h, <2>1, <2>3, <2>4 DEF Tasks
<1>r. ASSUME NEW todo \in {<<"delete", "unlink">>, <<"load", "save">>, <<"touch", "run">>, TurnSteps},
             NEW t, NEW f, Run(s, todo, t, f), task[s].todo = <<>>, UNCHANGED <<mem, file, mixed>>
      PROVE  Goal
  BY <1>r, <1>h DEF Run
<1> SUFFICES Goal  OBVIOUS
<1> HIDE DEF Goal
<1>p. pc[s] \notin {"busy", "send", "gone"} => task[s].todo = <<>>  BY DEF TaskInv
<1>1. CASE EnterChat(s)  BY <1>1, <1>m DEF EnterChat, Places
<1>2. CASE EnterFast(s)  BY <1>2, <1>m DEF EnterFast, Start, Places
<1>3. CASE Leave(s)  BY <1>3, <1>l DEF Leave
<1>4. CASE LeaveDone(s)  BY <1>4, <1>m DEF LeaveDone, Places
<1>5. CASE \E scope \in {"ids_all", "ids_host"} : AskResume(s, scope)
  BY <1>5, <1>m DEF AskResume, Places
<1>6. CASE FetchIds(s)
  <2>1. CASE Fetched(s, pc[s] = "ids_all") = <<>>  BY <1>6, <1>l, <2>1 DEF FetchIds
  <2>2. CASE Fetched(s, pc[s] = "ids_all") # <<>>  BY <1>6, <1>m, <2>2 DEF FetchIds, Places
  <2> QED  BY <2>1, <2>2
<1>7. CASE FetchItems(s)
  <2>1. CASE Listing(s, pc[s] = "items_all") = <<>>  BY <1>7, <1>l, <2>1 DEF FetchItems
  <2>2. CASE Listing(s, pc[s] = "items_all") # <<>>  BY <1>7, <1>m, <2>2 DEF FetchItems, Places
  <2> QED  BY <2>1, <2>2
<1>8. CASE Pick(s)  BY <1>8, <1>m DEF Pick, Start, Places
<1>9. CASE PickEscape(s)  BY <1>9, <1>l DEF PickEscape
<1>10. CASE ResumeNumber(s)  BY <1>10, <1>m DEF ResumeNumber, Start, Places
<1>11. CASE ResumeAnswer(s)
  <2>1. PICK p \in {"ids_again", "mismatch", "prompt"} : pc' = [pc EXCEPT ![s] = p]
    BY <1>11 DEF ResumeAnswer, Resumed
  <2> QED  BY <1>11, <1>m, <2>1 DEF ResumeAnswer, Places
<1>12. CASE ResumeTimeout(s)
  <2>1. PICK p \in {"shell", "leaving", "prompt"} : pc' = [pc EXCEPT ![s] = p]
    BY <1>12 DEF ResumeTimeout, Left
  <2> QED  BY <1>12, <1>m, <2>1 DEF ResumeTimeout, Places
<1>13. CASE MismatchGo(s)  BY <1>13, <1>m DEF MismatchGo, Resumed, Places
<1>14. CASE MismatchCancel(s)  BY <1>14, <1>l DEF MismatchCancel
<1>15. CASE ThreadList(s)  BY <1>15 DEF ThreadList, TaskInv, Goal
<1>16. CASE ThreadDel(s)
  <2>1. PICK t \in Threads : Run(s, <<"delete", "unlink">>, t, "run")  BY <1>16 DEF ThreadDel
  <2> QED  BY <1>16, <1>p, <1>r, <2>1 DEF ThreadDel
<1>17. CASE ThreadRename(s)  BY <1>17, <1>p, <1>r DEF ThreadRename
<1>18. CASE ThreadSandbox(s)
  <2>1. CASE cur[s] = Nobody  BY <1>18, <2>1 DEF ThreadSandbox, TaskInv, Goal
  <2>2. CASE cur[s] # Nobody  BY <1>18, <1>p, <1>r, <2>2 DEF ThreadSandbox
  <2> QED  BY <2>1, <2>2
<1>19. CASE ModelSet(s)
  <2>1. CASE cur[s] = Nobody  BY <1>19, <2>1 DEF ModelSet, TaskInv, Goal
  <2>2. CASE cur[s] # Nobody
    <3>1. Run(s, <<"touch", "run">>, cur[s], "run")  BY <1>19, <2>2 DEF ModelSet
    <3> QED  BY <1>19, <1>p, <1>r, <3>1 DEF ModelSet
  <2> QED  BY <2>1, <2>2
<1>20. CASE CommandDone(s)  BY <1>20, <1>h DEF CommandDone, Idle
<1>21. CASE CreateThread(s)  BY <1>21, <1>m DEF CreateThread, Start, Places
<1>22. CASE Created(s)
  <2>1. CASE "sandbox" \notin pending[s]
    <3>1. \A u \in Sessions : pc'[u] = IF u = s THEN "send" ELSE pc[u]  BY <1>22, <1>t DEF Created
    <3>2. UNCHANGED <<task, mem, file, mixed>>  BY <1>22, <2>1 DEF Created
    <3>3. task[s].todo = <<>>  BY <1>22, <1>p DEF Created
    <3> QED  BY <3>1, <3>2, <3>3 DEF TaskInv, Goal
  <2>2. CASE "sandbox" \in pending[s]  BY <1>22, <1>h, <1>p, <2>2 DEF Created
  <2> QED  BY <2>1, <2>2
<1>23. CASE SendMessage(s)  BY <1>23, <1>p, <1>r DEF SendMessage
<1>24. CASE Quit(s)  BY <1>24, <1>m DEF Quit, Places
<1>25. CASE Killed(s)  BY <1>25, <1>m DEF Killed, Places
<1> QED
  BY <1>1, <1>2, <1>3, <1>4, <1>5, <1>6, <1>7, <1>8, <1>9, <1>10, <1>11, <1>12, <1>13,
     <1>14, <1>15, <1>16, <1>17, <1>18, <1>19, <1>20, <1>21, <1>22, <1>23, <1>24, <1>25
  DEF SessionStep

(* Handlers and files: a restart has no handler, and reads the files.      *)
LEMMA TaskRestartStep ==
    ASSUME Restart
    PROVE  TaskInv' /\ FileInv'
<1>1. Idle.todo = <<>>  BY DEF Idle, Handler
<1>2. \A k \in Tasks : task'[k].todo = <<>>  BY <1>1 DEF Restart
<1>3. \A k \in Tasks : ~At(k, "file")' /\ ~At(k, "unlink")'  BY <1>2 DEF At
<1>4. \A t \in Threads : Unflushed(t)' = {}  BY <1>3 DEF Unflushed
<1>5. mem' = file'  BY DEF Restart
<1> QED  BY <1>2, <1>4, <1>5 DEF TaskInv, FileInv, FileAt, Tasks

-----------------------------------------------------------------------------
(* Memory and files.                                                       *)

(* What a step leaves alone.                                               *)
LEMMA FileFrame ==
    ASSUME NEW t, FileAt(t), mem'[t] = mem[t], file'[t] = file[t],
           \A j \in Tasks : \/ task'[j] = task[j]
                            \/ task[j].t # t /\ task'[j].t # t
                            \/ /\ ~At(j, "file") /\ ~At(j, "unlink")
                               /\ ~At(j, "file")' /\ ~At(j, "unlink")'
    PROVE  FileAt(t)'
<1>1. Unflushed(t)' = Unflushed(t)  BY DEF Unflushed, At
<1>2. ASSUME NEW k \in Tasks, k \in Unflushed(t)
      PROVE  task'[k] = task[k]
  BY <1>2 DEF Unflushed
<1> QED  BY <1>1, <1>2 DEF FileAt, At

(* Files: a step of a handler.                                             *)
LEMMA FileTaskStep ==
    ASSUME TypeOK, FileInv, NEW k \in Tasks,
           \/ AppendFile(k) \/ DeleteMemory(k) \/ DeleteFiles(k) \/ LoadMeta(k) \/ SaveMeta(k)
           \/ TouchThread(k) \/ SaveRun(k) \/ AddQuery(k) \/ AddReply(k)
    PROVE  FileInv'
<1> PICK t : t = task[k].t  OBVIOUS
<1> DEFINE q == task[k].todo
<1>0. task[k] \in TaskRecord /\ q \in Todo /\ TaskOK  BY DEF TypeOK, TaskOK, TaskRecord
<1>s. mem \in [Threads -> History] /\ file \in [Threads -> History]  BY DEF TypeOK, StoreOK
(* Steps that write neither memory nor file.                               *)
<1>q. ASSUME UNCHANGED <<mem, file, mixed>>, ~At(k, "file"), ~At(k, "unlink"),
             ~At(k, "file")', ~At(k, "unlink")', \A j \in Tasks \ {k} : task'[j] = task[j]
      PROVE  FileInv'
  BY <1>q, FileFrame DEF FileInv
(* Steps that do, seen from the other threads.                             *)
<1>o. ASSUME mixed \subseteq mixed', \A u \in Threads \ {t} : mem'[u] = mem[u] /\ file'[u] = file[u],
             \A j \in Tasks \ {k} : task'[j] = task[j], task'[k].t = t,
             t \in Threads \ mixed' => FileAt(t)'
      PROVE  FileInv'
  <2>1. ASSUME NEW u \in Threads \ mixed', u # t
        PROVE  FileAt(u)'
    <3>1. FileAt(u)  BY <1>o, <2>1 DEF FileInv
    <3> QED  BY <1>o, <2>1, <3>1, FileFrame
  <2> QED  BY <1>o, <2>1 DEF FileInv
(* A writer that is not mixed with another one finds the file up to date.  *)
<1>u. ASSUME Mixed(k, t), t \in Threads \ mixed', ~At(k, "file"), ~At(k, "unlink")
      PROVE  mixed' = mixed /\ Unflushed(t) = {} /\ file[t] = mem[t]
  <2>1. mixed' = mixed /\ Unflushed(t) \ {k} = {}  BY <1>u DEF Mixed
  <2>2. Unflushed(t) = {}  BY <1>u, <2>1 DEF Unflushed
  <2> QED  BY <1>u, <2>1, <2>2 DEF FileInv, FileAt
(* append_messages, its part in memory.                                    *)
<1>a. ASSUME NEW msg, At(k, "query") \/ At(k, "reply"), append_memory(k, msg),
             task' = [task EXCEPT ![k].todo = [@ EXCEPT ![1] = "file"], ![k].msg = msg]
      PROVE  FileInv'
  <2>1. /\ \A j \in Tasks \ {k} : task'[j] = task[j]
        /\ task'[k].t = t /\ task'[k].msg = msg /\ At(k, "file")'
    BY <1>0, <1>a, WriteSteps
  <2>2. ~At(k, "file") /\ ~At(k, "unlink")  BY <1>a DEF At
  <2>3. Mixed(k, t) /\ file' = file /\ mem' = [mem EXCEPT ![t] = Memory(t, msg)]
    BY <1>a DEF append_memory
  <2>4. ASSUME t \in Threads \ mixed'
        PROVE  FileAt(t)'
    <3>1. Unflushed(t) = {} /\ file[t] = mem[t]  BY <1>u, <2>2, <2>3, <2>4
    <3>2. Unflushed(t)' = {k}  BY <2>1, <3>1 DEF Unflushed, At
    <3>3. mem'[t] = IF file[t] = Absent THEN <<msg>> ELSE Append(file[t], msg)
      BY <1>s, <2>3, <2>4, <3>1 DEF Memory
    <3>4. ~At(k, "unlink")'  BY <2>1 DEF At
    <3> QED  BY <2>1, <2>3, <3>2, <3>3, <3>4 DEF FileAt
  <2>5. mixed \subseteq mixed'  BY <2>3 DEF Mixed
  <2>6. \A u \in Threads \ {t} : mem'[u] = mem[u] /\ file'[u] = file[u]  BY <1>s, <2>3
  <2> QED  BY <1>o, <2>1, <2>4, <2>5, <2>6
<1>1. CASE AppendFile(k)
  <2>1. At(k, "file") /\ task' = Done(k) /\ UNCHANGED <<mem, mixed>>  BY <1>1 DEF AppendFile
  <2>2. q # <<>> /\ ~At(k, "delete") /\ ~At(k, "unlink")  BY <2>1 DEF At
  <2>3. /\ \A j \in Tasks \ {k} : task'[j] = task[j]
        /\ task'[k].t = t /\ ~At(k, "file")' /\ ~At(k, "unlink")'
    BY <1>0, <2>1, <2>2, DoneSteps
  <2>4. file' = [file EXCEPT ![t] = IF @ = Absent THEN <<task[k].msg>> ELSE Append(@, task[k].msg)]
    BY <1>1 DEF AppendFile
  <2>5. ASSUME t \in Threads \ mixed'
        PROVE  FileAt(t)'
    <3>1. FileAt(t)  BY <2>1, <2>5 DEF FileInv
    <3>2. k \in Unflushed(t)  BY <2>1 DEF Unflushed
    <3>3. Unflushed(t) = {k} /\ mem[t] = IF file[t] = Absent THEN <<task[k].msg>> ELSE Append(file[t], task[k].msg)
      BY <2>1, <3>1, <3>2 DEF FileAt
    <3>4. Unflushed(t)' = {}  BY <2>3, <3>3 DEF Unflushed, At
    <3>5. file'[t] = mem'[t]  BY <1>s, <2>1, <2>4, <2>5, <3>3
    <3> QED  BY <3>4, <3>5 DEF FileAt
  <2>6. \A u \in Threads \ {t} : mem'[u] = mem[u] /\ file'[u] = file[u]  BY <1>s, <2>1, <2>4
  <2> QED  BY <1>o, <2>1, <2>3, <2>5, <2>6
<1>2. CASE DeleteMemory(k)
  <2>1. At(k, "delete") /\ ~At(k, "file") /\ ~At(k, "unlink") /\ q # <<>>  BY <1>2 DEF DeleteMemory, At
  <2>2. CASE mem[t] = Absent
    <3>1. task' = [task EXCEPT ![k].todo = <<>>] /\ UNCHANGED <<mem, file, mixed>>
      BY <1>2, <2>2 DEF DeleteMemory
    <3>2. task'[k].todo = <<>> /\ \A j \in Tasks \ {k} : task'[j] = task[j]
      BY <1>0, <3>1 DEF TaskOK, TaskRecord
    <3>3. ~At(k, "file")' /\ ~At(k, "unlink")'  BY <3>2 DEF At
    <3> QED  BY <1>q, <2>1, <3>1, <3>2, <3>3
  <2>3. CASE mem[t] # Absent
    <3>1. task' = Done(k) /\ mem' = [mem EXCEPT ![t] = Absent] /\ Mixed(k, t) /\ file' = file
      BY <1>2, <2>3 DEF DeleteMemory
    <3>2. /\ \A j \in Tasks \ {k} : task'[j] = task[j]
          /\ task'[k].t = t /\ ~At(k, "file")' /\ At(k, "unlink")'
      BY <1>0, <2>1, <3>1, DoneSteps
    <3>3. ASSUME t \in Threads \ mixed'
          PROVE  FileAt(t)'
      <4>1. Unflushed(t) = {} /\ file[t] = mem[t]  BY <1>u, <2>1, <3>1, <3>3
      <4>2. Unflushed(t)' = {k}  BY <3>2, <4>1 DEF Unflushed, At
      <4>3. mem'[t] = Absent /\ file'[t] # Absent  BY <1>s, <2>3, <3>1, <3>3, <4>1
      <4> QED  BY <3>2, <4>2, <4>3 DEF FileAt
    <3>4. mixed \subseteq mixed'  BY <3>1 DEF Mixed
    <3>5. \A u \in Threads \ {t} : mem'[u] = mem[u] /\ file'[u] = file[u]  BY <1>s, <3>1
    <3> QED  BY <1>o, <3>2, <3>3, <3>4, <3>5
  <2> QED  BY <2>2, <2>3
<1>3. CASE DeleteFiles(k)
  <2>1. At(k, "unlink") /\ task' = Done(k) /\ file' = [file EXCEPT ![t] = Absent] /\ UNCHANGED <<mem, mixed>>
    BY <1>3 DEF DeleteFiles
  <2>2. q # <<>> /\ ~At(k, "delete") /\ ~At(k, "file")  BY <2>1 DEF At
  <2>3. /\ \A j \in Tasks \ {k} : task'[j] = task[j]
        /\ task'[k].t = t /\ ~At(k, "file")' /\ ~At(k, "unlink")'
    BY <1>0, <2>1, <2>2, DoneSteps
  <2>4. ASSUME t \in Threads \ mixed'
        PROVE  FileAt(t)'
    <3>1. FileAt(t)  BY <2>1, <2>4 DEF FileInv
    <3>2. k \in Unflushed(t)  BY <2>1 DEF Unflushed
    <3>3. Unflushed(t) = {k} /\ mem[t] = Absent  BY <2>1, <3>1, <3>2 DEF FileAt
    <3>4. Unflushed(t)' = {}  BY <2>3, <3>3 DEF Unflushed, At
    <3>5. file'[t] = mem'[t]  BY <1>s, <2>1, <2>4, <3>3
    <3> QED  BY <3>4, <3>5 DEF FileAt
  <2>5. \A u \in Threads \ {t} : mem'[u] = mem[u] /\ file'[u] = file[u]  BY <1>s, <2>1
  <2> QED  BY <1>o, <2>1, <2>3, <2>4, <2>5
<1>4. CASE LoadMeta(k)
  <2>1. q # <<>> /\ Head(q) = "load" /\ ~At(k, "file") /\ ~At(k, "unlink")  BY <1>4 DEF LoadMeta, At
  <2>2. Tail(q) = <<"save">>  BY <1>0, <2>1, TodoSteps
  <2>3. task'[k].todo \in {<<>>, <<"save">>} /\ \A j \in Tasks \ {k} : task'[j] = task[j]
    BY <1>0, <1>4, <2>2 DEF LoadMeta, Idle, Handler, TaskOK, TaskRecord
  <2>4. ~At(k, "file")' /\ ~At(k, "unlink")'  BY <2>3 DEF At
  <2> QED  BY <1>4, <1>q, <2>1, <2>3, <2>4 DEF LoadMeta
<1>5. CASE SaveMeta(k)
  <2>1. q # <<>> /\ Head(q) = "save" /\ ~At(k, "file") /\ ~At(k, "unlink")  BY <1>5 DEF SaveMeta, At
  <2>2. Tail(q) = <<>>  BY <1>0, <2>1, TodoSteps
  <2>3. task'[k].todo = <<>> /\ \A j \in Tasks \ {k} : task'[j] = task[j]
    BY <1>0, <1>5, <2>2 DEF SaveMeta, TaskOK, TaskRecord
  <2>4. ~At(k, "file")' /\ ~At(k, "unlink")'  BY <2>3 DEF At
  <2> QED  BY <1>5, <1>q, <2>1, <2>3, <2>4 DEF SaveMeta
<1>d. ASSUME At(k, "touch") \/ At(k, "run") \/ At(k, "reply"), task' = Done(k), UNCHANGED <<mem, file, mixed>>
      PROVE  FileInv'
  <2>1. q # <<>> /\ ~At(k, "delete") /\ ~At(k, "unlink") /\ ~At(k, "file")  BY <1>d DEF At
  <2> QED  BY <1>0, <1>d, <1>q, <2>1, DoneSteps
<1>6. CASE TouchThread(k)  BY <1>6, <1>d DEF TouchThread
<1>7. CASE SaveRun(k)  BY <1>7, <1>d DEF SaveRun
<1>8. CASE AddQuery(k)
  <2> DEFINE h == IF mem[t] = Absent THEN <<>> ELSE mem[t]
             msgs == [h EXCEPT ![Len(h)].by = Append(@, k)]
  <2>1. CASE h # <<>> /\ IsUser(Last(h))
    <3>1. At(k, "query") /\ replace_messages(t, msgs) /\ Mixed(k, t) /\ task' = Done(k)
      BY <1>8, <2>1 DEF AddQuery
    <3> HIDE DEF msgs, h
    <3>2. q # <<>> /\ ~At(k, "delete") /\ ~At(k, "file") /\ ~At(k, "unlink")  BY <3>1 DEF At
    <3>3. /\ \A j \in Tasks \ {k} : task'[j] = task[j]
          /\ task'[k].t = t /\ ~At(k, "file")' /\ ~At(k, "unlink")'
      BY <1>0, <3>1, <3>2, DoneSteps
    <3>4. mem' = [mem EXCEPT ![t] = msgs] /\ file' = [file EXCEPT ![t] = msgs]
      BY <3>1 DEF replace_messages
    <3>5. ASSUME t \in Threads \ mixed'
          PROVE  FileAt(t)'
      <4>1. Unflushed(t) = {}  BY <1>u, <3>1, <3>2, <3>5
      <4>2. Unflushed(t)' = {}  BY <3>3, <4>1 DEF Unflushed, At
      <4>3. file'[t] = mem'[t]  BY <1>s, <3>4, <3>5
      <4> QED  BY <4>2, <4>3 DEF FileAt
    <3>6. mixed \subseteq mixed'  BY <3>1 DEF Mixed
    <3>7. \A u \in Threads \ {t} : mem'[u] = mem[u] /\ file'[u] = file[u]  BY <1>s, <3>4
    <3> QED  BY <1>o, <3>3, <3>5, <3>6, <3>7
  <2>2. CASE ~(h # <<>> /\ IsUser(Last(h)))
    <3>1. /\ At(k, "query") /\ append_memory(k, Query(k))
          /\ task' = [task EXCEPT ![k].todo = [@ EXCEPT ![1] = "file"], ![k].msg = Query(k)]
      BY <1>8, <2>2 DEF AddQuery
    <3> QED  BY <1>a, <3>1
  <2> QED  BY <2>1, <2>2
<1>9. CASE AddReply(k)
  <2>1. CASE append_memory(k, Answer(k)) /\ task' = [task EXCEPT ![k].todo = [@ EXCEPT ![1] = "file"], ![k].msg = Answer(k)]
    BY <1>9, <1>a, <2>1 DEF AddReply
  <2>2. CASE task' = Done(k) /\ UNCHANGED <<mem, file, order, mixed>>
    BY <1>9, <1>d, <2>2 DEF AddReply
  <2> QED  BY <1>9, <2>1, <2>2 DEF AddReply
<1> QED  BY <1>1, <1>2, <1>3, <1>4, <1>5, <1>6, <1>7, <1>8, <1>9

(* Handlers and files: a step of the daemon.                               *)
LEMMA FileDaemonStep ==
    ASSUME TypeOK, TaskInv, FileInv, DaemonStep
    PROVE  TaskInv' /\ FileInv'
<1>1. ASSUME NEW k \in Tasks,
             \/ AppendFile(k) \/ DeleteMemory(k) \/ DeleteFiles(k) \/ LoadMeta(k) \/ SaveMeta(k)
             \/ TouchThread(k) \/ SaveRun(k) \/ AddQuery(k) \/ AddReply(k)
      PROVE  TaskInv' /\ FileInv'
  BY <1>1, TaskDaemonStep, FileTaskStep
(* No task moves, and no file or memory changes.                           *)
<1>q. ASSUME UNCHANGED <<pc, task, mem, file, mixed>>
      PROVE  TaskInv' /\ FileInv'
  <2>1. TaskInv'  BY <1>q DEF TaskInv
  <2>2. FileInv'  BY <1>q DEF FileInv, FileAt, Unflushed, At
  <2> QED  BY <2>1, <2>2
<1>2. ASSUME NEW m \in net, HandleResume(m) \/ HandleEnd(m) \/ HandleSessionEnd(m)
      PROVE  TaskInv' /\ FileInv'
  BY <1>2, <1>q DEF HandleResume, HandleEnd, HandleSessionEnd
<1>3. ASSUME NEW m \in net, HandleNew(m)
      PROVE  TaskInv' /\ FileInv'
  <2>1. UNCHANGED <<pc, task, mixed>>  BY <1>3 DEF HandleNew
  <2>2. PICK t \in Threads : /\ mem[t] = Absent /\ file[t] = Absent
                             /\ file' = [file EXCEPT ![t] = <<>>] /\ mem' = [mem EXCEPT ![t] = <<>>]
    BY <1>3 DEF HandleNew, Unused
  <2>3. mem \in [Threads -> History] /\ file \in [Threads -> History]  BY DEF TypeOK, StoreOK
  <2>4. \A u \in Threads \ {t} : mem'[u] = mem[u] /\ file'[u] = file[u]  BY <2>2, <2>3
  <2>5. mem'[t] = file'[t]  BY <2>2, <2>3
  <2>6. ASSUME FileAt(t)
        PROVE  Unflushed(t) = {}
    <3>1. ASSUME NEW k \in Tasks, k \in Unflushed(t)
          PROVE  FALSE
      <4>1. At(k, "file")  BY <2>2, <2>6, <3>1 DEF FileAt, Unflushed
      <4>2. task[k].msg \in Message  BY <4>1 DEF TypeOK, TaskOK
      <4>3. mem[t] = <<task[k].msg>>  BY <2>2, <2>6, <3>1, <4>1 DEF FileAt
      <4>4. mem[t] \in Seq(Message)  BY <4>2, <4>3
      <4> QED  BY <2>2, <4>4, NobodyAssumption DEF Absent
    <3> QED  BY <3>1 DEF Unflushed
  <2>7. ASSUME NEW u \in Threads \ mixed'
        PROVE  FileAt(u)'
    <3>1. FileAt(u)  BY <2>1, <2>7 DEF FileInv
    <3>2. CASE u # t  BY <2>1, <2>4, <2>7, <3>1, <3>2, FileFrame
    <3>3. CASE u = t
      <4>1. Unflushed(t)' = {}  BY <2>1, <2>6, <3>1, <3>3 DEF Unflushed, At
      <4> QED  BY <2>5, <3>3, <4>1 DEF FileAt
    <3> QED  BY <3>2, <3>3
  <2>8. TaskInv'  BY <2>1 DEF TaskInv
  <2> QED  BY <2>7, <2>8 DEF FileInv
<1>4. ASSUME NEW t \in Threads, ReleaseIdle(t)
      PROVE  TaskInv' /\ FileInv'
  BY <1>4, <1>q DEF ReleaseIdle
<1>5. ASSUME NEW t \in Threads, SummaryJob(t)
      PROVE  TaskInv' /\ FileInv'
  <2>1. UNCHANGED <<pc, mem, file, mixed>> /\ task["job"].todo = <<>>  BY <1>5 DEF SummaryJob
  <2>2. task'["job"].todo = <<"load", "save">> /\ \A k \in Tasks \ {"job"} : task'[k] = task[k]
    BY <1>5 DEF SummaryJob, Handler, TypeOK, TaskOK, Tasks
  <2>3. ~At("job", "file") /\ ~At("job", "unlink") /\ ~At("job", "file")' /\ ~At("job", "unlink")'
    BY <2>1, <2>2 DEF At
  <2>4. FileInv'  BY <2>1, <2>2, <2>3, FileFrame DEF FileInv
  <2>5. "job" \notin Sessions  BY BoundsAssumption
  <2>6. TaskInv'  BY <2>1, <2>2, <2>5 DEF TaskInv, Tasks
  <2> QED  BY <2>4, <2>6
<1> QED  BY <1>1, <1>2, <1>3, <1>4, <1>5 DEF DaemonStep, Tasks

(* Handlers and files: a step of a client.                                 *)
LEMMA FileClientStep ==
    ASSUME TypeOK, TaskInv, FileInv, ClientStep
    PROVE  TaskInv' /\ FileInv'
<1>1. FileInv'  BY TaskClientStep, FileFrame DEF FileInv
<1> QED  BY <1>1, TaskClientStep

-----------------------------------------------------------------------------
(* The initial states.                                                     *)

(* The claim of a session that starts in a chat is its own, and the only   *)
(* one it has.                                                             *)
LEMMA InitClaims ==
    ASSUME Init
    PROVE  /\ claims \in [Threads -> Claim]
           /\ \A t \in Threads : claims[t].owner # Nobody => cur[claims[t].owner] = t
           /\ \A s \in Sessions : cur[s] # Nobody => claims[cur[s]].owner = s
<1> DEFINE o(t) == IF \E s \in Sessions : cur[s] = t THEN CHOOSE s \in Sessions : cur[s] = t ELSE Nobody
<1>1. claims = [t \in Threads |-> [NoClaim EXCEPT !.owner = o(t)]]  BY DEF Init
<1>2. \A t : o(t) = Nobody \/ (o(t) \in Sessions /\ cur[o(t)] = t)  OBVIOUS
<1>3. \A s \in Sessions : cur[s] # Nobody => o(cur[s]) = s
  BY DEF Init
<1> HIDE DEF o
<1>4. \A t \in Threads : claims[t] = [owner |-> o(t), pending |-> NoMeta]  BY <1>1 DEF NoClaim
<1>5. \A s \in Sessions : cur[s] # Nobody => cur[s] \in Threads
  BY BoundsAssumption DEF Init
<1>6. claims \in [Threads -> Claim]  BY <1>1, <1>2, <1>4 DEF Claim
<1> QED  BY <1>2, <1>3, <1>4, <1>5, <1>6

(* Types at the start.                                                     *)
LEMMA InitType ==
    ASSUME Init
    PROVE  TypeOK
<1>1. ClientOK  BY BoundsAssumption DEF Init, ClientOK, Places
<1>2. LinkOK  BY DEF Init, LinkOK
<1>3. PICK s \in Sessions :
         /\ file = [t \in Threads |-> IF t \in Stored THEN <<Query(s), Answer(s)>> ELSE Absent]
         /\ meta = [t \in Threads |-> IF t \in Stored THEN Patched(DefaultMeta, "place", s)
                                     ELSE NoMeta]
  BY DEF Init
<1>4. Query(s) \in Message /\ Answer(s) \in Message  BY DEF Query, Answer, Message
<1>5. <<Query(s), Answer(s)>> \in Seq(Message)  BY <1>4
<1>6. file \in [Threads -> History]  BY <1>3, <1>5 DEF History
<1>7. Patched(DefaultMeta, "place", s) \in Meta  BY DefaultType, PatchedType DEF Fields
<1>8. meta \in [Threads -> Meta \cup {NoMeta}]  BY <1>3, <1>7
<1>9. StoreOK  BY <1>6, <1>8, InitClaims, BoundsAssumption DEF Init, StoreOK
<1>10. Idle \in TaskRecord /\ Idle.todo = <<>>
  <2>1. <<>> \in Todo  BY DEF Todo
  <2> QED  BY <2>1, HandlerType DEF Idle, Handler, Fields
<1>11. task = [k \in Tasks |-> Idle]  BY DEF Init
<1> HIDE DEF Idle
<1>12. TaskOK  BY <1>10, <1>11 DEF TaskOK, At
<1> QED  BY <1>1, <1>2, <1>9, <1>12 DEF TypeOK

(* The other invariants at the start.                                      *)
LEMMA InitInv ==
    ASSUME Init
    PROVE  LinkInv /\ HeldInv /\ TaskInv /\ FileInv
<1>1. net = {} /\ \A s \in Sessions : answer[s] = Nobody  BY DEF Init
<1>2. \A s \in Sessions : pc[s] \in {"shell", "prompt"} /\ (pc[s] = "shell" => cur[s] = Nobody)
  BY DEF Init
<1>3. LinkInv  BY <1>1, <1>2 DEF LinkInv, InChat
<1>4. HeldInv  BY <1>1, InitClaims DEF HeldInv, Granted
<1>5. Idle.todo = <<>>  BY DEF Idle, Handler
<1>6. \A k \in Tasks : task[k].todo = <<>>  BY <1>5 DEF Init
<1>7. TaskInv  BY <1>6 DEF TaskInv, Tasks
<1>8. \A k \in Tasks : ~At(k, "file") /\ ~At(k, "unlink")  BY <1>6 DEF At
<1>9. \A t \in Threads : Unflushed(t) = {}  BY <1>8 DEF Unflushed
<1>10. mem = file  BY DEF Init
<1>11. FileInv  BY <1>9, <1>10 DEF FileInv, FileAt
<1> QED  BY <1>3, <1>4, <1>7, <1>11

-----------------------------------------------------------------------------
(* Claims as locks.                                                        *)

Owners == [t \in Threads |-> claims[t].owner]

(* The owners at the start are a state of the locks.                       *)
LEMMA LocksInit ==
    ASSUME Init
    PROVE  Locks!Init
<1>1. Owners \in [Threads -> Sessions \cup {Nobody}]  BY InitClaims DEF Owners, Claim
<1>2. ASSUME NEW t \in Threads, NEW u \in Threads, Owners[t] = Owners[u], Owners[t] # Nobody
      PROVE  t = u
  BY <1>2, InitClaims DEF Owners
<1> QED  BY <1>1, <1>2 DEF Owners, Locks!Init

(* Dropped claims are released locks, or change no owner.                  *)
LEMMA LocksRelease ==
    ASSUME NEW T, claims' = Drop(T)
    PROVE  Locks!Next \/ UNCHANGED Owners
<1> DEFINE R == T \cap Threads
<1>1. Owners' = [t \in Threads |-> IF t \in R THEN Nobody ELSE Owners[t]]
  BY DropOwner DEF Owners
<1>2. CASE R = {}  BY <1>1, <1>2 DEF Owners
<1>3. CASE R # {}
  <2>1. Locks!Release(R)  BY <1>1, <1>3 DEF Owners, Locks!Release
  <2>2. R \in SUBSET Threads  OBVIOUS
  <2> HIDE DEF R
  <2> QED  BY <2>1, <2>2 DEF Locks!Next
<1> QED  BY <1>2, <1>3

(* A granted claim is an acquired lock.                                    *)
LEMMA LocksAcquire ==
    ASSUME NEW s \in Sessions, NEW t \in Threads, claims[t].owner \in {Nobody, s},
           \A u \in Threads : claims'[u].owner = try_claim_thread(t, s)[u].owner
    PROVE  Locks!Next
<1>1. Owners' = [u \in Threads |-> IF u = t THEN s ELSE IF Owners[u] = s THEN Nobody ELSE Owners[u]]
  BY ClaimOwner DEF Owners
<1>2. Owners[t] \in {Nobody, s}  BY DEF Owners
<1>3. Locks!Acquire(s, t)  BY <1>1, <1>2 DEF Owners, Locks!Acquire
<1> QED  BY <1>3 DEF Locks!Next

(* A step of the sessions and the daemon is a step of the locks.           *)
LEMMA LocksStep ==
    ASSUME TypeOK, [Next]_vars
    PROVE  Locks!Next \/ UNCHANGED Owners
<1>t. claims \in [Threads -> Claim] /\ net \subseteq Request  BY DEF TypeOK, StoreOK, LinkOK
<1>u. ASSUME UNCHANGED claims
      PROVE  UNCHANGED Owners
  BY <1>u DEF Owners
<1>1. CASE UNCHANGED vars  BY <1>1, <1>u DEF vars
<1>2. CASE ClientStep
  <2>1. PICK s \in Sessions : SessionStep(s)  BY <1>2 DEF ClientStep
  <2>2. CASE EnterChat(s) \/ EnterFast(s) \/ Leave(s) \/ LeaveDone(s)
    BY <1>u, <2>2 DEF EnterChat, EnterFast, Leave, LeaveDone
  <2>3. CASE \/ \E scope \in {"ids_all", "ids_host"} : AskResume(s, scope)
             \/ FetchIds(s) \/ FetchItems(s) \/ Pick(s) \/ PickEscape(s) \/ ResumeNumber(s)
    BY <1>u, <2>3 DEF AskResume, FetchIds, FetchItems, Pick, PickEscape, ResumeNumber
  <2>4. CASE ResumeAnswer(s) \/ ResumeTimeout(s) \/ MismatchGo(s) \/ MismatchCancel(s)
    BY <1>u, <2>4 DEF ResumeAnswer, ResumeTimeout, MismatchGo, MismatchCancel
  <2>5. CASE ThreadList(s) \/ ThreadDel(s) \/ ThreadRename(s) \/ ThreadSandbox(s) \/ ModelSet(s)
    BY <1>u, <2>5 DEF ThreadList, ThreadDel, ThreadRename, ThreadSandbox, ModelSet
  <2>6. CASE CommandDone(s) \/ CreateThread(s) \/ Created(s) \/ SendMessage(s) \/ Quit(s) \/ Killed(s)
    BY <1>u, <2>6 DEF CommandDone, CreateThread, Created, SendMessage, Quit, Killed
  <2> QED  BY <2>1, <2>2, <2>3, <2>4, <2>5, <2>6 DEF SessionStep
<1>3. CASE Restart
  <2>1. claims' = Drop(Threads)  BY <1>3 DEF Restart, Drop
  <2> QED  BY <2>1, LocksRelease
<1>4. ASSUME NEW k \in Tasks,
             \/ AppendFile(k) \/ DeleteMemory(k) \/ DeleteFiles(k) \/ LoadMeta(k) \/ SaveMeta(k)
             \/ SaveRun(k) \/ AddQuery(k) \/ AddReply(k)
      PROVE  UNCHANGED Owners
  <2>1. UNCHANGED claims
    BY <1>4 DEF AppendFile, DeleteMemory, DeleteFiles, LoadMeta, SaveMeta, SaveRun, AddQuery, AddReply
  <2> QED  BY <1>u, <2>1
<1>5. ASSUME NEW k \in Tasks, TouchThread(k)
      PROVE  UNCHANGED Owners
  <2>1. \A t \in Threads : claims'[t].owner = claims[t].owner  BY <1>5, <1>t DEF TouchThread, Claim
  <2> QED  BY <2>1 DEF Owners
<1>6. ASSUME NEW t \in Threads, ReleaseIdle(t) \/ SummaryJob(t)
      PROVE  Locks!Next \/ UNCHANGED Owners
  <2>1. claims' = Drop({t}) \/ UNCHANGED claims  BY <1>6 DEF ReleaseIdle, SummaryJob
  <2> QED  BY <1>u, <2>1, LocksRelease
<1>7. ASSUME NEW m \in net, HandleEnd(m) \/ HandleSessionEnd(m)
      PROVE  Locks!Next \/ UNCHANGED Owners
  <2>1. claims' = Drop({m.t}) \/ claims' = Drop(HeldBy(m.s)) \/ UNCHANGED claims
    BY <1>7 DEF HandleEnd, HandleSessionEnd
  <2> QED  BY <1>u, <2>1, LocksRelease
<1>8. ASSUME NEW m \in net, HandleNew(m)
      PROVE  Locks!Next
  <2>1. m.s \in Sessions  BY <1>t DEF Request
  <2>2. PICK t \in Threads : claims[t].owner = Nobody /\ claims' = try_claim_thread(t, m.s)
    BY <1>8 DEF HandleNew, Unused
  <2> QED  BY <2>1, <2>2, LocksAcquire
<1>9. ASSUME NEW m \in net, HandleResume(m)
      PROVE  Locks!Next \/ UNCHANGED Owners
  <2>1. m.s \in Sessions /\ m.t \in Threads  BY <1>9, <1>t DEF Request, HandleResume
  <2>2. CASE UNCHANGED claims  BY <1>u, <2>2
  <2>3. CASE /\ CanClaim(m.t, m.s)
             /\ claims' = [try_claim_thread(m.t, m.s) EXCEPT ![m.t].pending = Deferred(m.t, m.s)]
    <3> DEFINE c == try_claim_thread(m.t, m.s)
    <3>1. c[m.t] = [owner |-> m.s, pending |-> NoMeta] /\ c \in [Threads -> Claim]
      <4>1. Drop(HeldBy(m.s)) \in [Threads -> Claim]  BY <1>t DEF Drop, NoClaim, Claim
      <4> QED  BY <2>1, <4>1 DEF try_claim_thread, Claim
    <3> HIDE DEF c
    <3>2. \A u \in Threads : claims'[u].owner = c[u].owner  BY <2>1, <2>3, <3>1 DEF Claim, c
    <3> QED  BY <2>1, <2>3, <3>2, LocksAcquire DEF CanClaim, c
  <2> QED  BY <1>9, <2>2, <2>3 DEF HandleResume
<1>10. CASE DaemonStep
  BY <1>4, <1>5, <1>6, <1>7, <1>8, <1>9, <1>10 DEF DaemonStep, Tasks
<1> QED  BY <1>1, <1>2, <1>3, <1>10 DEF Next

-----------------------------------------------------------------------------
(* Theorems.                                                               *)

ChatInv == TypeOK /\ LinkInv /\ HeldInv /\ TaskInv /\ FileInv

(* The invariant is inductive.                                             *)
LEMMA ChatInvStep ==
    ASSUME ChatInv, [Next]_vars
    PROVE  ChatInv'
<1> USE DEF ChatInv
<1>1. CASE DaemonStep
  <2>1. TypeOK'  BY <1>1, DaemonTypeStep, RequestTypeStep, JobTypeStep DEF DaemonStep, Tasks
  <2> QED  BY <1>1, <2>1, LinkDaemonStep, HeldDaemonStep, FileDaemonStep
<1>2. CASE ClientStep  BY <1>2, ClientTypeStep, LinkClientStep, HeldClientStep, FileClientStep
<1>3. CASE Restart  BY <1>3, RestartTypeStep, LinkRestartStep, HeldRestartStep, TaskRestartStep
<1>4. CASE UNCHANGED vars
  <2>1. TypeOK'  BY <1>4 DEF vars, TypeOK, ClientOK, LinkOK, StoreOK, TaskOK, At
  <2>2. LinkInv' /\ HeldInv'  BY <1>4 DEF vars, LinkInv, HeldInv, InChat, Granted
  <2>3. TaskInv' /\ FileInv'  BY <1>4 DEF vars, TaskInv, FileInv, FileAt, Unflushed, At
  <2> QED  BY <2>1, <2>2, <2>3
<1> QED  BY <1>1, <1>2, <1>3, <1>4 DEF Next

(* Clients, requests, claims, handlers, memory and files always satisfy    *)
(* ChatInv.                                                                *)
THEOREM ChatInvHolds == Spec => []ChatInv
<1>1. Init => ChatInv  BY InitType, InitInv DEF ChatInv
<1>2. ChatInv /\ [Next]_vars => ChatInv'  BY ChatInvStep
<1> QED  BY <1>1, <1>2, PTL DEF Spec

(* Every variable keeps its type, the rests of handlers and what they carry *)
(* between their steps included.                                           *)
THEOREM ChatTypeCorrect == Spec => []TypeOK
<1>1. ChatInv => TypeOK  BY DEF ChatInv
<1> QED  BY <1>1, ChatInvHolds, PTL

(* try_claim_thread, release_thread and the idle job: a session at its     *)
(* prompt or in a turn holds the claim on its thread, unless the claim was *)
(* dropped under it.                                                       *)
THEOREM WritersHoldClaims == Spec => []WriterHoldsClaim
<1>1. ASSUME ChatInv
      PROVE  WriterHoldsClaim
  <2>1. ASSUME NEW s \in Sessions \ lost, pc[s] \in {"prompt", "busy", "send", "mismatch"}, cur[s] # Nobody
        PROVE  claims[cur[s]].owner = s
    <3>1. answer[s] = Nobody  BY <1>1, <2>1 DEF ChatInv, LinkInv
    <3>2. InChat(s) /\ Granted(s) = cur[s]  BY <2>1, <3>1 DEF InChat, Granted
    <3> QED  BY <1>1, <2>1, <3>2 DEF ChatInv, HeldInv
  <2> QED  BY <2>1 DEF WriterHoldsClaim
<1> QED  BY <1>1, ChatInvHolds, PTL

(* append_messages, replace_messages, delete_thread and create_thread: what *)
(* a restart would read is what the daemon has in memory.                  *)
THEOREM FilesFollowMemory == Spec => []FileHasMemory
<1>1. ChatInv => FileHasMemory  BY DEF ChatInv, FileInv, FileAt, FileHasMemory
<1> QED  BY <1>1, ChatInvHolds, PTL

(* The claims of the daemon are locks on threads: taken only when free,    *)
(* one per session, given up before another session has them.              *)
THEOREM ClaimsAreLocks == Spec => ImplementsLocks
<1>1. Init => Locks!Init  BY LocksInit
<1>2. TypeOK /\ [Next]_vars => [Locks!Next]_Owners  BY LocksStep
<1> QED  BY <1>1, <1>2, ChatTypeCorrect, PTL DEF Spec, ImplementsLocks, Locks!Spec, Owners

(* No session owns two threads.                                            *)
OneClaimPerSession ==
    \A t, u \in Threads : Owners[t] = Owners[u] /\ Owners[t] # Nobody => t = u

(* No session holds the claims of two threads, however its requests to     *)
(* resume, to create and to leave (ChatStart, ChatEnd) are answered, lost  *)
(* or late: the locks that the claims implement have one owner each, and   *)
(* no owner has two.                                                       *)
THEOREM ClaimsAreExclusive == Spec => []OneClaimPerSession
<1>1. Init => OneClaimPerSession  BY LocksInit DEF OneClaimPerSession, Locks!Init, Owners
<1>2. ASSUME OneClaimPerSession, Locks!Next \/ UNCHANGED Owners
      PROVE  OneClaimPerSession'
  <2>1. ASSUME NEW s \in Sessions, NEW x \in Threads, Locks!Acquire(s, x)
        PROVE  OneClaimPerSession'
    <3>1. \A t \in Threads : Owners'[t] = IF t = x THEN s ELSE IF Owners[t] = s THEN Nobody ELSE Owners[t]
      BY <2>1 DEF Locks!Acquire, Owners
    <3> QED  BY <1>2, <3>1, NobodyAssumption DEF OneClaimPerSession
  <2>2. ASSUME NEW T \in SUBSET Threads, Locks!Release(T)
        PROVE  OneClaimPerSession'
    <3>1. \A t \in Threads : Owners'[t] = IF t \in T THEN Nobody ELSE Owners[t]
      BY <2>2 DEF Locks!Release, Owners
    <3> QED  BY <1>2, <3>1 DEF OneClaimPerSession
  <2>3. CASE UNCHANGED Owners  BY <1>2, <2>3 DEF OneClaimPerSession
  <2> QED  BY <1>2, <2>1, <2>2, <2>3 DEF Locks!Next
<1>3. TypeOK /\ OneClaimPerSession /\ [Next]_vars => OneClaimPerSession'  BY <1>2, LocksStep
<1> QED  BY <1>1, <1>3, ChatTypeCorrect, PTL DEF Spec
=============================================================================
