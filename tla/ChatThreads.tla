----------------------------- MODULE ChatThreads -----------------------------
(***************************************************************************)
(* Chat threads shared by several sessions: the client side of /resume,    *)
(* /thread and /model (omnish-client/src/chat_session.rs), the daemon's    *)
(* claims on threads and its handlers (omnish-daemon/src/server.rs), and   *)
(* the store of messages and metadata behind them (conversation_mgr.rs,    *)
(* thread_summary.rs).                                                     *)
(*                                                                         *)
(* The daemon runs every request in a task of its own on several OS        *)
(* threads.  A handler is a sequence of steps, task[k].todo, each of which *)
(* is one access to shared state; steps of different tasks interleave.  A  *)
(* client waits for the answer of a request before its user can do more,   *)
(* so a session has one handler at a time; what one session's own          *)
(* overlapping turns do is the subject of AgentLoop.                       *)
(***************************************************************************)
EXTENDS Integers, Sequences, SequencesExt

CONSTANTS
    Sessions, Threads,
    Nobody,     \* no session, no thread, no value
    Stored,     \* threads the daemon finds on disk when it starts
    Fuel,       \* inputs of the users
    Events,     \* restarts, killed clients, expired claims, runs of the job
    ListLimit   \* threads in a listing that is not "all" (20)

ASSUME BoundsAssumption ==
    /\ Fuel \in Nat /\ Events \in Nat /\ ListLimit \in Nat \ {0}
    /\ Stored \subseteq Threads
    /\ "job" \notin Sessions

(* A message: its role and the sessions whose text it holds.  ChatReady:   *)
(* an error or the thread, with the place where it was last used.          *)
Message == [role : {"user", "assistant"}, by : Seq(Sessions)]
Reply   == [err : {"ok", "not_found", "thread_locked", "ended"}, t : Threads \cup {Nobody},
            place : Sessions \cup {Nobody, "set"}]

(* Nobody is a value of its own.                                           *)
ASSUME NobodyAssumption ==
    Nobody \notin Sessions \cup Threads \cup Seq(Message) \cup Reply

Tasks  == Sessions \cup {"job"}
Fields == {"place", "title", "sandbox", "run", "summary"}

VARIABLES
    pc, fast, cur, last, cached, shown, pending, fuel,   \* clients
    net, answer,                                   \* ChatStart, ChatEnd; ChatReady
    claims, mem, file, meta, order, task,          \* daemon
    events, lost, mixed                            \* budget and history

session == <<cur, cached, shown, pending>>
client == <<pc, fast, session, last, fuel>>
link   == <<net, answer>>
store  == <<mem, file, order>>
daemon == <<claims, store, meta, task>>
vars   == <<client, link, daemon, events, lost, mixed>>

(* ThreadMeta: where it was last used, title_override, sandbox_disabled,   *)
(* the fields a turn writes (model, system_reminder, usage) and those of   *)
(* the summary job.  A missing or unreadable file reads as the default.    *)
DefaultMeta == [f \in Fields |-> Nobody]
NoMeta      == Nobody
Meta        == [Fields -> Sessions \cup {Nobody, "set"}]

load_meta(t) == IF meta[t] = NoMeta THEN DefaultMeta ELSE meta[t]

Patched(m, f, v) == [m EXCEPT ![f] = v]

Query(s) == [role |-> "user", by |-> <<s>>]
Answer(s) == [role |-> "assistant", by |-> <<s>>]
IsUser(m) == m.role = "user"
Absent == Nobody

Handler(todo, t, field) ==
    [todo |-> todo, t |-> t, field |-> field, snap |-> NoMeta, msg |-> Nobody]
Idle == Handler(<<>>, Nobody, "run")

At(k, step) == task[k].todo # <<>> /\ Head(task[k].todo) = step

NoClaim == [owner |-> Nobody, pending |-> NoMeta]

(* The daemon has read the stored threads; a session is at its shell, at   *)
(* the prompt of a fresh chat or in a chat on a stored thread, which it    *)
(* then has a claim on.                                                    *)
Init ==
    /\ pc \in [Sessions -> {"shell", "prompt"}] /\ fast = [s \in Sessions |-> FALSE]
    /\ cur \in [Sessions -> Stored \cup {Nobody}]
    /\ \A s1, s2 \in Sessions : cur[s1] # Nobody =>
          /\ pc[s1] = "prompt"
          /\ cur[s1] = cur[s2] => s1 = s2
    /\ last = [s \in Sessions |-> Nobody]
    /\ cached = [s \in Sessions |-> <<>>] /\ shown = [s \in Sessions |-> <<>>]
    /\ pending = [s \in Sessions |-> {}] /\ fuel = Fuel
    /\ net = {} /\ answer = [s \in Sessions |-> Nobody]
    /\ claims = [t \in Threads |-> [NoClaim EXCEPT !.owner =
                    IF \E s \in Sessions : cur[s] = t
                    THEN CHOOSE s \in Sessions : cur[s] = t ELSE Nobody]]
    /\ \E s \in Sessions :
          /\ file = [t \in Threads |-> IF t \in Stored THEN <<Query(s), Answer(s)>> ELSE Absent]
          /\ meta = [t \in Threads |-> IF t \in Stored THEN Patched(DefaultMeta, "place", s)
                                      ELSE NoMeta]
    /\ mem = file /\ order \in SetToSeqs(Stored)
    /\ task = [k \in Tasks |-> Idle]
    /\ events = Events /\ lost = {} /\ mixed = {}

-----------------------------------------------------------------------------
(* The store: ConversationManager.                                         *)

Event == events > 0 /\ events' = events - 1

(* Mutant: the thread is listed once per write.                            *)
TouchedAgain(t) == <<t>> \o order

(* Threads by the modification time of their file, newest first.           *)
Touched(t) == <<t>> \o SelectSeq(order, LAMBDA u : u # t)

(* list_conversations: threads in memory that have a file, newest first.   *)
list_conversations == SelectSeq(order, LAMBDA t : mem[t] # Absent)

(* format_conversations_json: all threads, or those of the session's host. *)
Listing(s, all) ==
    IF all THEN list_conversations
    ELSE SelectSeq(list_conversations, LAMBDA t : load_meta(t)["place"] = s)

Limited(ts) == SubSeq(ts, 1, IF Len(ts) < ListLimit THEN Len(ts) ELSE ListLimit)

(* A write to memory while another task is between memory and file.        *)
Unflushed(t) == {k \in Tasks : task[k].t = t /\ (At(k, "file") \/ At(k, "unlink"))}
Mixed(k, t) == mixed' = IF Unflushed(t) \ {k} # {} THEN mixed \cup {t} ELSE mixed

Done(k) == [task EXCEPT ![k].todo = Tail(@)]

(* append_messages: memory under the lock, then the file.  Memory gets an  *)
(* entry even when the thread was deleted.                                 *)
Memory(t, msg) == IF mem[t] = Absent THEN <<msg>> ELSE Append(mem[t], msg)

append_memory(k, msg) ==
    LET t == task[k].t
    IN  /\ mem' = [mem EXCEPT ![t] = Memory(t, msg)]
        /\ Mixed(k, t)
        /\ UNCHANGED <<file, order>>

AppendFile(k) ==
    LET t == task[k].t
        msg == task[k].msg
    IN  /\ At(k, "file")
        /\ file' = [file EXCEPT ![t] = IF @ = Absent THEN <<msg>> ELSE Append(@, msg)]
        /\ order' = Touched(t)
        /\ task' = Done(k)
        /\ UNCHANGED <<client, link, claims, mem, meta, events, lost, mixed>>

(* Mutant: the file is left to the next append.                            *)
replace_memory_only(t, msgs) ==
    /\ mem' = [mem EXCEPT ![t] = msgs]
    /\ UNCHANGED <<file, order>>

(* replace_messages: memory and file under one lock.                       *)
replace_messages(t, msgs) ==
    /\ mem' = [mem EXCEPT ![t] = msgs] /\ file' = [file EXCEPT ![t] = msgs]
    /\ order' = Touched(t)

(* delete_thread: memory under the lock, then both files.  The answer names *)
(* the deleted thread and the client leaves it.                            *)
DeleteMemory(k) ==
    LET t == task[k].t
    IN  /\ At(k, "delete")
        /\ IF mem[t] = Absent
           THEN task' = [task EXCEPT ![k].todo = <<>>] /\ UNCHANGED <<mem, mixed>>
           ELSE task' = Done(k) /\ mem' = [mem EXCEPT ![t] = Absent] /\ Mixed(k, t)
        /\ UNCHANGED <<client, link, claims, file, order, meta, events, lost>>

DeleteFiles(k) ==
    LET t == task[k].t
    IN  /\ At(k, "unlink")
        /\ file' = [file EXCEPT ![t] = Absent]
        /\ order' = SelectSeq(order, LAMBDA u : u # t)
        /\ meta' = [meta EXCEPT ![t] = NoMeta]
        /\ cur' = IF k \in Sessions /\ cur[k] = t THEN [cur EXCEPT ![k] = Nobody] ELSE cur
        /\ task' = Done(k)
        /\ UNCHANGED <<pc, fast, last, cached, shown, pending, fuel, link, claims, mem,
                       events, lost, mixed>>

(* update_meta: two accesses to the file with nothing held between them.   *)
(* Commands of the user ask for the thread first (thread_exists).          *)
LoadMeta(k) ==
    /\ At(k, "load")
    /\ task' = IF k \in Sessions /\ mem[task[k].t] = Absent THEN [task EXCEPT ![k] = Idle]
               ELSE [task EXCEPT ![k].todo = Tail(@), ![k].snap = load_meta(task[k].t)]
    /\ UNCHANGED <<client, link, claims, store, meta, events, lost, mixed>>

SaveMeta(k) ==
    /\ At(k, "save")
    /\ meta' = [meta EXCEPT ![task[k].t] =
                   Patched(task[k].snap, task[k].field, "set")]
    /\ task' = [task EXCEPT ![k].todo = Tail(@), ![k].snap = NoMeta]
    /\ UNCHANGED <<client, link, claims, store, events, lost, mixed>>

-----------------------------------------------------------------------------
(* Claims.                                                                 *)

Drop(T) == [t \in Threads |-> IF t \in T THEN NoClaim ELSE claims[t]]

HeldBy(s) == {t \in Threads : claims[t].owner = s}

(* Mutant: the owner is not compared.                                      *)
CanTake(t, s) == TRUE

CanClaim(t, s) == claims[t].owner \in {Nobody, s}

(* Mutant: the claim on the thread that the session leaves is kept.        *)
claim_keeps_others(t, s) == [claims EXCEPT ![t] = [owner |-> s, pending |-> NoMeta]]

(* try_claim_thread: the session's other claims are given up.              *)
try_claim_thread(t, s) ==
    [Drop(HeldBy(s)) EXCEPT ![t] = [owner |-> s, pending |-> NoMeta]]

(* Sessions that use a thread, or were just told that they may, and whose  *)
(* claim on it is dropped.                                                 *)
InChat(s) == pc[s] \notin {"shell", "gone", "leaving"}
Using(s)  == {cur[s]} \cup IF answer[s] # Nobody THEN {answer[s].t} ELSE {}
Bereft(T) == {s \in Sessions : InChat(s) /\ \E t \in T \cap Using(s) : claims[t].owner = s}

(* touch_thread, on ChatMessage and ChatToolResult: whoever holds the      *)
(* claim, it is refreshed and its deferred metadata is written.            *)
TouchThread(k) ==
    LET t == task[k].t
    IN  /\ At(k, "touch")
        /\ meta' = IF claims[t].pending = NoMeta THEN meta
                   ELSE [meta EXCEPT ![t] = claims[t].pending]
        /\ claims' = [claims EXCEPT ![t].pending = NoMeta]
        /\ task' = Done(k)
        /\ UNCHANGED <<client, link, store, events, lost, mixed>>

(* The job that drops claims idle for 30 minutes and 10 seconds.  A turn   *)
(* without tool results, or a user who types for long, takes that time     *)
(* too; a client leaves an untouched prompt after 30 minutes.              *)
ReleaseIdle(t) ==
    /\ claims[t].owner # Nobody
    /\ IF pc[claims[t].owner] = "gone" THEN UNCHANGED events ELSE Event
    /\ claims' = Drop({t})
    /\ lost' = lost \cup Bereft({t})
    /\ UNCHANGED <<client, link, store, meta, task, mixed>>

(* ChatStart.  The metadata with the session's host and directory is kept  *)
(* in the claim until the first message.                                   *)
Deferred(t, s) == Patched(load_meta(t), "place", s)

ChatReady(err, t) == [err |-> err, t |-> t, place |-> IF t = Nobody THEN Nobody
                                                     ELSE load_meta(t)["place"]]

Respond(m, r) == answer' = IF m.live THEN [answer EXCEPT ![m.s] = r] ELSE answer

HandleResume(m) ==
    /\ m \in net /\ m.kind = "start" /\ m.t # Nobody
    /\ net' = net \ {m}
    /\ \/ /\ mem[m.t] \in {Absent, <<>>}
          /\ Respond(m, ChatReady("not_found", Nobody))
          /\ UNCHANGED <<claims, lost>>
       \/ /\ mem[m.t] \notin {Absent, <<>>} /\ ~CanClaim(m.t, m.s)
          /\ Respond(m, ChatReady("thread_locked", Nobody))
          /\ UNCHANGED <<claims, lost>>
       \/ /\ mem[m.t] \notin {Absent, <<>>} /\ CanClaim(m.t, m.s)
          /\ claims' = [try_claim_thread(m.t, m.s) EXCEPT
                           ![m.t].pending = Deferred(m.t, m.s)]
          /\ lost' = IF m.live THEN lost \ {m.s}
                     ELSE lost \cup Bereft(HeldBy(m.s) \ {m.t})
          /\ Respond(m, ChatReady("ok", m.t))
    /\ UNCHANGED <<client, store, meta, task, events, mixed>>

(* create_thread: a fresh id, an empty file, metadata, then memory.        *)
Unused(t) == /\ mem[t] = Absent /\ file[t] = Absent /\ meta[t] = NoMeta
             /\ claims[t].owner = Nobody
             /\ \A s \in Sessions : cur[s] # t /\ t \notin Range(cached[s])

HandleNew(m) ==
    /\ m \in net /\ m.kind = "start" /\ m.t = Nobody
    /\ net' = net \ {m}
    /\ \E t \in Threads :
          /\ Unused(t)
          /\ file' = [file EXCEPT ![t] = <<>>] /\ mem' = [mem EXCEPT ![t] = <<>>]
          /\ meta' = [meta EXCEPT ![t] = Patched(DefaultMeta, "place", m.s)]
          /\ order' = Touched(t)
          /\ claims' = try_claim_thread(t, m.s)
          /\ Respond(m, [err |-> "ok", t |-> t, place |-> Nobody])
    /\ lost' = lost \ {m.s}
    /\ UNCHANGED <<client, task, events, mixed>>

(* ChatEnd: only the owner's claim is released.                            *)
HandleEnd(m) ==
    /\ m \in net /\ m.kind = "end"
    /\ net' = net \ {m}
    /\ claims' = IF claims[m.t].owner = m.s THEN Drop({m.t}) ELSE claims
    /\ lost' = IF claims[m.t].owner = m.s /\ ~m.live
               THEN lost \cup Bereft({m.t}) ELSE lost
    /\ Respond(m, ChatReady("ended", Nobody))
    /\ UNCHANGED <<client, store, meta, task, events, mixed>>

(* SessionEnd: the claims of the session are released.                     *)
HandleSessionEnd(m) ==
    /\ m \in net /\ m.kind = "bye"
    /\ net' = net \ {m}
    /\ claims' = Drop(HeldBy(m.s))
    /\ UNCHANGED <<client, answer, store, meta, task, events, lost, mixed>>

-----------------------------------------------------------------------------
(* A turn, as far as the store sees it, and the summary job.               *)

(* handle_chat_message: touch, model and system_reminder, the query, the   *)
(* reply, the usage.                                                       *)
TurnSteps == <<"touch", "run", "query", "reply", "run">>

(* load_meta and save_meta around the fields that only turns write.  The   *)
(* window between them is the one of update_meta above, and left out.      *)
SaveRun(k) ==
    /\ At(k, "run")
    /\ meta' = [meta EXCEPT ![task[k].t] = Patched(load_meta(task[k].t), "run", "set")]
    /\ task' = Done(k)
    /\ UNCHANGED <<client, link, claims, store, events, lost, mixed>>

(* The query joins a message of the user at the end of the history, which  *)
(* is then written as a whole, or becomes a message of its own.            *)
AddQuery(k) ==
    LET t == task[k].t
        h == IF mem[t] = Absent THEN <<>> ELSE mem[t]
    IN  /\ At(k, "query")
        /\ IF h # <<>> /\ IsUser(Last(h))
           THEN /\ replace_messages(t, [h EXCEPT ![Len(h)].by = Append(@, k)])
                /\ Mixed(k, t)
                /\ task' = Done(k)
           ELSE /\ append_memory(k, Query(k))
                /\ task' = [task EXCEPT ![k].todo = [@ EXCEPT ![1] = "file"], ![k].msg = Query(k)]
        /\ UNCHANGED <<client, link, claims, meta, events, lost>>

(* The model answered, or the turn ended without an answer.                *)
AddReply(k) ==
    /\ At(k, "reply")
    /\ \/ /\ append_memory(k, Answer(k))
          /\ task' = [task EXCEPT ![k].todo = [@ EXCEPT ![1] = "file"], ![k].msg = Answer(k)]
       \/ /\ task' = Done(k)
          /\ UNCHANGED <<mem, file, order, mixed>>
    /\ UNCHANGED <<client, link, claims, meta, events, lost>>

(* generate_thread_summaries, for one thread with user input: its summary  *)
(* is missing.  Metadata is read again after the calls to the model.       *)
count_rounds(t) == Len(SelectSeq(mem[t], IsUser))

SummaryJob(t) ==
    /\ Event /\ task["job"].todo = <<>>
    /\ mem[t] # Absent /\ count_rounds(t) > 0 /\ load_meta(t)["summary"] = Nobody
    /\ task' = [task EXCEPT !["job"] = Handler(<<"load", "save">>, t, "summary")]
    /\ UNCHANGED <<client, link, claims, store, meta, lost, mixed>>

DaemonStep ==
    \/ \E k \in Tasks : \/ AppendFile(k) \/ DeleteMemory(k) \/ DeleteFiles(k)
                         \/ LoadMeta(k) \/ SaveMeta(k)
    \/ \E k \in Sessions : TouchThread(k) \/ SaveRun(k) \/ AddQuery(k) \/ AddReply(k)
    \/ \E m \in net : \/ HandleResume(m) \/ HandleNew(m) \/ HandleEnd(m)
                       \/ HandleSessionEnd(m)
    \/ \E t \in Threads : ReleaseIdle(t) \/ SummaryJob(t)

-----------------------------------------------------------------------------
(* The client: ChatSession.                                                *)

Spend(s) == fuel > 0 /\ fuel' = fuel - 1

(* Main loop: a new ChatSession, with a prompt, or with /resume_tid of the *)
(* last thread or /resume as its first input (fast).  It is dropped when   *)
(* the chat ends.                                                          *)
Start(s, t, wait) ==
    /\ net' = net \cup {[kind |-> "start", s |-> s, t |-> t, live |-> TRUE]}
    /\ pc' = [pc EXCEPT ![s] = wait]

EnterChat(s) ==
    /\ pc[s] = "shell" /\ Spend(s)
    /\ pc' = [pc EXCEPT ![s] = "prompt"]
    /\ UNCHANGED <<fast, session, last, link, daemon, events, lost, mixed>>

EnterFast(s) ==
    /\ pc[s] = "shell" /\ Spend(s) /\ fast' = [fast EXCEPT ![s] = TRUE]
    /\ IF last[s] # Nobody THEN Start(s, last[s], "resume")
       ELSE pc' = [pc EXCEPT ![s] = "ids_host"] /\ UNCHANGED net
    /\ UNCHANGED <<session, last, answer, daemon, events, lost, mixed>>

Closed(s) ==
    /\ cur' = [cur EXCEPT ![s] = Nobody] /\ cached' = [cached EXCEPT ![s] = <<>>]
    /\ shown' = [shown EXCEPT ![s] = <<>>] /\ pending' = [pending EXCEPT ![s] = {}]
    /\ fast' = [fast EXCEPT ![s] = FALSE] /\ lost' = lost \ {s}

(* Leaving: ChatEnd for the current thread, whose id is kept for "::".     *)
End(s, live) == [kind |-> "end", s |-> s, t |-> cur[s], live |-> live]

Left(s, others) ==
    /\ last' = [last EXCEPT ![s] = cur[s]]
    /\ pc' = [pc EXCEPT ![s] = IF cur[s] = Nobody THEN "shell" ELSE "leaving"]
    /\ net' = IF cur[s] = Nobody THEN others ELSE others \cup {End(s, TRUE)}
    /\ Closed(s)

Leave(s) ==
    /\ pc[s] = "prompt" /\ Left(s, net)
    /\ UNCHANGED <<fuel, answer, daemon, events, mixed>>

LeaveDone(s) ==
    /\ pc[s] = "leaving" /\ answer[s] # Nobody
    /\ pc' = [pc EXCEPT ![s] = "shell"] /\ answer' = [answer EXCEPT ![s] = Nobody]
    /\ UNCHANGED <<fast, session, last, fuel, net, daemon, events, lost, mixed>>

(* A resume that failed or was cancelled: back to the prompt, or out of    *)
(* the chat when it was the input the chat was entered with.               *)
Failed(s, others) ==
    IF fast[s] THEN Left(s, others)
    ELSE pc' = [pc EXCEPT ![s] = "prompt"] /\ net' = others /\ UNCHANGED <<session, last, fast, lost>>

Resumed(s) == /\ pc' = [pc EXCEPT ![s] = "prompt"]
              /\ fast' = [fast EXCEPT ![s] = FALSE]

(* show_resume_picker and fetch_thread_ids: the ids come from one answer,  *)
(* the lines and locks that the user sees from a second one.  An answer    *)
(* without conversations leaves the cached ids alone.                      *)
AskResume(s, scope) ==
    /\ pc[s] = "prompt" /\ Spend(s)
    /\ pc' = [pc EXCEPT ![s] = scope]
    /\ UNCHANGED <<fast, cur, last, cached, shown, pending, link, daemon, events, lost, mixed>>

Fetched(s, all) == IF Listing(s, all) = <<>> THEN cached[s] ELSE Listing(s, all)

FetchIds(s) ==
    LET ids == Fetched(s, pc[s] = "ids_all")
        next == CASE pc[s] = "ids_all" -> "items_all" [] pc[s] = "ids_host" -> "items_host"
                  [] OTHER -> "items_again"
    IN  /\ pc[s] \in {"ids_all", "ids_host", "ids_again"}
        /\ IF ids = <<>> THEN Failed(s, net)
           ELSE /\ cached' = [cached EXCEPT ![s] = ids] /\ pc' = [pc EXCEPT ![s] = next]
                /\ UNCHANGED <<fast, cur, shown, pending, last, net, lost>>
        /\ UNCHANGED <<fuel, answer, daemon, events, mixed>>

Locked(t) == claims[t].owner # Nobody

FetchItems(s) ==
    LET ts == Listing(s, pc[s] = "items_all")
    IN  /\ pc[s] \in {"items_all", "items_host", "items_again"}
        /\ IF ts = <<>> THEN Failed(s, net)
           ELSE /\ shown' = [shown EXCEPT ![s] = [i \in DOMAIN ts |-> [t |-> ts[i], locked |-> Locked(ts[i])]]]
                /\ pc' = [pc EXCEPT ![s] = IF pc[s] = "items_again" THEN "pick_again" ELSE "pick"]
                /\ UNCHANGED <<fast, cur, cached, pending, last, net, lost>>
        /\ UNCHANGED <<fuel, answer, daemon, events, mixed>>

Pick(s) ==
    /\ pc[s] \in {"pick", "pick_again"}
    /\ \E i \in DOMAIN shown[s] :
          /\ ~shown[s][i].locked /\ i \in DOMAIN cached[s] /\ cached[s][i] \in Threads
          /\ Start(s, cached[s][i], IF pc[s] = "pick" THEN "resume" ELSE "resume2")
    /\ shown' = [shown EXCEPT ![s] = <<>>]
    /\ UNCHANGED <<fast, cur, cached, pending, last, fuel, answer, daemon, events, lost, mixed>>

PickEscape(s) ==
    /\ pc[s] \in {"pick", "pick_again"} /\ Failed(s, net)
    /\ UNCHANGED <<fuel, answer, daemon, events, mixed>>

(* /resume N: the cached ids, fetched for this host when there are none.   *)
ResumeNumber(s) ==
    LET ids == IF cached[s] = <<>> THEN Listing(s, FALSE) ELSE cached[s]
    IN  /\ pc[s] = "prompt" /\ Spend(s)
        /\ \E i \in DOMAIN ids : ids[i] \in Threads /\ Start(s, ids[i], "resume")
        /\ cached' = [cached EXCEPT ![s] = ids]
        /\ UNCHANGED <<fast, cur, last, shown, pending, answer, daemon, events, lost, mixed>>

(* handle_resume_tid with its answer.                                      *)
ResumeAnswer(s) ==
    LET r == answer[s]
    IN  /\ pc[s] \in {"resume", "resume2"} /\ r # Nobody
        /\ answer' = [answer EXCEPT ![s] = Nobody]
        /\ cur' = IF r.err = "ok" THEN [cur EXCEPT ![s] = r.t] ELSE cur
        /\ \/ /\ pc[s] = "resume" /\ r.err = "thread_locked"
              /\ pc' = [pc EXCEPT ![s] = "ids_again"]
              /\ UNCHANGED <<fast, last, net, lost>>
           \/ /\ pc[s] = "resume" /\ r.err = "ok" /\ r.place \notin {Nobody, s}
              /\ pc' = [pc EXCEPT ![s] = "mismatch"]
              /\ UNCHANGED <<fast, last, net, lost>>
           \/ /\ pc[s] = "resume2" \/ r.err = "not_found"
                 \/ (r.err = "ok" /\ r.place \in {Nobody, s})
              /\ Resumed(s)
              /\ UNCHANGED <<last, net, lost>>
        /\ UNCHANGED <<cached, shown, pending, fuel, daemon, events, mixed>>

(* Fifteen seconds without an answer: the request may still be handled.    *)
ResumeTimeout(s) ==
    LET out == {m \in net : m.s = s /\ m.kind = "start" /\ m.live}
    IN  /\ pc[s] \in {"resume", "resume2"}
        /\ answer' = [answer EXCEPT ![s] = Nobody]
        /\ IF fast[s] THEN Left(s, (net \ out) \cup {[m EXCEPT !.live = FALSE] : m \in out})
           ELSE /\ net' = (net \ out) \cup {[m EXCEPT !.live = FALSE] : m \in out}
                /\ pc' = [pc EXCEPT ![s] = "prompt"]
                /\ lost' = IF cur[s] # Nobody /\ claims[cur[s]].owner # s THEN lost \cup {s} ELSE lost
                /\ UNCHANGED <<session, last, fast>>
        /\ UNCHANGED <<fuel, daemon, events, mixed>>

(* check_resume_mismatch: the thread was used at another place.  Cancel    *)
(* releases the claim but keeps current_thread_id.                         *)
MismatchGo(s) ==
    /\ pc[s] = "mismatch" /\ Resumed(s)
    /\ UNCHANGED <<session, last, fuel, link, daemon, events, lost, mixed>>

MismatchCancel(s) ==
    /\ pc[s] = "mismatch" /\ Failed(s, net \cup {End(s, FALSE)})
    /\ UNCHANGED <<fuel, answer, daemon, events, mixed>>

(* /thread list and /thread del without a number list the threads of every *)
(* host, the newest ListLimit of them.                                     *)
Recent(s) == IF list_conversations = <<>> THEN cached[s] ELSE Limited(list_conversations)

ThreadList(s) ==
    /\ pc[s] = "prompt" /\ Spend(s)
    /\ cached' = [cached EXCEPT ![s] = Recent(s)]
    /\ UNCHANGED <<pc, fast, cur, last, shown, pending, link, daemon, events, lost, mixed>>

Run(s, todo, t, field) ==
    /\ task' = [task EXCEPT ![s] = Handler(todo, t, field)]
    /\ pc' = [pc EXCEPT ![s] = "busy"]

(* /thread del [N]: the cached ids when a number is given and there are    *)
(* some, else a fresh list.  The entry is blanked whatever the answer.     *)
ThreadDel(s) ==
    /\ pc[s] = "prompt" /\ Spend(s)
    /\ \E ids \in {cached[s], Recent(s)} : \E i \in DOMAIN ids :
          /\ ids[i] \in Threads
          /\ cached' = [cached EXCEPT ![s] = [ids EXCEPT ![i] = Nobody]]
          /\ Run(s, <<"delete", "unlink">>, ids[i], "run")
    /\ UNCHANGED <<fast, cur, last, shown, pending, link, claims, store, meta, events, lost, mixed>>

(* /thread rename, /thread sandbox and /model; without a thread the last   *)
(* two are kept for the thread that the first message creates.             *)
ThreadRename(s) ==
    /\ pc[s] = "prompt" /\ cur[s] # Nobody /\ Spend(s)
    /\ Run(s, <<"load", "save">>, cur[s], "title")
    /\ UNCHANGED <<fast, cur, last, cached, shown, pending, link, claims, store, meta, events, lost, mixed>>

ThreadSandbox(s) ==
    /\ pc[s] = "prompt" /\ Spend(s)
    /\ IF cur[s] = Nobody
       THEN pending' = [pending EXCEPT ![s] = @ \cup {"sandbox"}] /\ UNCHANGED <<task, pc>>
       ELSE Run(s, <<"load", "save">>, cur[s], "sandbox") /\ UNCHANGED pending
    /\ UNCHANGED <<fast, cur, last, cached, shown, link, claims, store, meta, events, lost, mixed>>

ModelSet(s) ==
    /\ pc[s] = "prompt" /\ Spend(s)
    /\ IF cur[s] = Nobody
       THEN pending' = [pending EXCEPT ![s] = @ \cup {"model"}] /\ UNCHANGED <<task, pc>>
       ELSE Run(s, <<"touch", "run">>, cur[s], "run") /\ UNCHANGED pending
    /\ UNCHANGED <<fast, cur, last, cached, shown, link, claims, store, meta, events, lost, mixed>>

CommandDone(s) ==
    /\ pc[s] = "busy" /\ task[s].todo = <<>>
    /\ pc' = [pc EXCEPT ![s] = "prompt"]
    /\ task' = [task EXCEPT ![s] = Idle]
    /\ UNCHANGED <<fast, cur, last, cached, shown, pending, fuel, link, claims, store, meta,
                   events, lost, mixed>>

(* A query.  The first one creates a thread and applies what was chosen    *)
(* before; pending_model goes with the message.                            *)
CreateThread(s) ==
    /\ pc[s] = "prompt" /\ cur[s] = Nobody /\ Spend(s)
    /\ Start(s, Nobody, "create")
    /\ UNCHANGED <<fast, cur, last, cached, shown, pending, answer, daemon, events, lost, mixed>>

Created(s) ==
    LET t == answer[s].t
    IN  /\ pc[s] = "create" /\ answer[s] # Nobody
        /\ answer' = [answer EXCEPT ![s] = Nobody]
        /\ cur' = [cur EXCEPT ![s] = t]
        /\ pc' = [pc EXCEPT ![s] = "send"]
        /\ task' = IF "sandbox" \notin pending[s] THEN task
                   ELSE [task EXCEPT ![s] = Handler(<<"load", "save">>, t, "sandbox")]
        /\ pending' = [pending EXCEPT ![s] = @ \ {"sandbox"}]
        /\ UNCHANGED <<fast, last, cached, shown, fuel, net, claims, store, meta, events, lost, mixed>>

SendMessage(s) ==
    /\ \/ pc[s] = "send" /\ task[s].todo = <<>> /\ UNCHANGED fuel
       \/ pc[s] = "prompt" /\ cur[s] # Nobody /\ Spend(s)
    /\ Run(s, TurnSteps, cur[s], "run")
    /\ pending' = [pending EXCEPT ![s] = @ \ {"model"}]
    /\ UNCHANGED <<fast, cur, last, cached, shown, link, claims, store, meta, events, lost, mixed>>

(* The shell exits: SessionEnd.  Or the client is killed and sends nothing;*)
(* what the daemon was asked to do it still does.                          *)
Quit(s) ==
    /\ pc[s] = "shell"
    /\ pc' = [pc EXCEPT ![s] = "gone"]
    /\ net' = net \cup {[kind |-> "bye", s |-> s, t |-> Nobody, live |-> FALSE]}
    /\ UNCHANGED <<fast, cur, last, cached, shown, pending, fuel, answer, daemon, events, lost, mixed>>

Killed(s) ==
    /\ pc[s] \notin {"shell", "gone"} /\ Event
    /\ pc' = [pc EXCEPT ![s] = "gone"]
    /\ net' = {[m EXCEPT !.live = @ /\ m.s # s] : m \in net}
    /\ answer' = [answer EXCEPT ![s] = Nobody]
    /\ Closed(s)
    /\ last' = [last EXCEPT ![s] = Nobody]
    /\ UNCHANGED <<fuel, daemon, mixed>>

(* The daemon stops and starts: tasks, claims and requests are gone, the   *)
(* threads are read from their files, calls in flight fail.                *)
AfterRestart(s) ==
    CASE pc[s] = "leaving" -> "shell"
      [] pc[s] \in {"shell", "gone", "pick", "pick_again", "mismatch"} -> pc[s]
      [] pc[s] = "prompt" \/ ~fast[s] -> "prompt"
      [] OTHER -> "shell"

Restart ==
    /\ Event
    /\ mem' = file /\ claims' = [t \in Threads |-> NoClaim]
    /\ task' = [k \in Tasks |-> Idle] /\ mixed' = {}
    /\ net' = {} /\ answer' = [s \in Sessions |-> Nobody]
    /\ pc' = [s \in Sessions |-> AfterRestart(s)]
    /\ LET out(s) == AfterRestart(s) \in {"shell", "gone"}
       IN  /\ last' = [s \in Sessions |-> IF InChat(s) /\ out(s) THEN cur[s] ELSE last[s]]
           /\ cur' = [s \in Sessions |-> IF out(s) THEN Nobody ELSE cur[s]]
           /\ cached' = [s \in Sessions |-> IF out(s) THEN <<>> ELSE cached[s]]
           /\ pending' = [s \in Sessions |-> IF out(s) THEN {} ELSE pending[s]]
           /\ fast' = [s \in Sessions |-> fast[s] /\ ~out(s)]
           /\ lost' = {s \in Sessions : ~out(s) /\ cur[s] # Nobody}
    /\ UNCHANGED <<shown, fuel, file, order, meta>>

SessionStep(s) ==
    \/ EnterChat(s) \/ EnterFast(s) \/ Leave(s) \/ LeaveDone(s)
    \/ (\E scope \in {"ids_all", "ids_host"} : AskResume(s, scope))
    \/ FetchIds(s) \/ FetchItems(s) \/ Pick(s) \/ PickEscape(s) \/ ResumeNumber(s)
    \/ ResumeAnswer(s) \/ ResumeTimeout(s)
    \/ MismatchGo(s) \/ MismatchCancel(s)
    \/ ThreadList(s) \/ ThreadDel(s) \/ ThreadRename(s) \/ ThreadSandbox(s) \/ ModelSet(s)
    \/ CommandDone(s) \/ CreateThread(s) \/ Created(s) \/ SendMessage(s)
    \/ Quit(s) \/ Killed(s)

ClientStep == \E s \in Sessions : SessionStep(s)

Next == DaemonStep \/ ClientStep \/ Restart

Spec == Init /\ [][Next]_vars

-----------------------------------------------------------------------------
(* Properties.                                                             *)

Places == {"shell", "prompt", "ids_all", "ids_host", "ids_again", "items_all", "items_host",
           "items_again", "pick", "pick_again", "resume", "resume2", "mismatch", "busy",
           "create", "send", "leaving", "gone"}

History == Seq(Message) \cup {Absent}
Request == [kind : {"start", "end", "bye"}, s : Sessions, t : Threads \cup {Nobody}, live : BOOLEAN]
Claim   == [owner : Sessions \cup {Nobody}, pending : Meta \cup {NoMeta}]

(* What is left of a handler.                                              *)
Todo == {<<>>, <<"delete", "unlink">>, <<"unlink">>, <<"load", "save">>, <<"save">>,
         <<"touch", "run">>, <<"run">>, TurnSteps, <<"run", "query", "reply", "run">>,
         <<"query", "reply", "run">>, <<"file", "reply", "run">>, <<"reply", "run">>,
         <<"file", "run">>}
TaskRecord == [todo : Todo, t : Threads \cup {Nobody}, field : Fields,
               snap : Meta \cup {NoMeta}, msg : Message \cup {Nobody}]

ClientOK ==
    /\ pc \in [Sessions -> Places] /\ fast \in [Sessions -> BOOLEAN]
    /\ cur \in [Sessions -> Threads \cup {Nobody}] /\ last \in [Sessions -> Threads \cup {Nobody}]
    /\ fuel \in Nat
LinkOK  == net \subseteq Request /\ answer \in [Sessions -> Reply \cup {Nobody}]
StoreOK ==
    /\ claims \in [Threads -> Claim] /\ meta \in [Threads -> Meta \cup {NoMeta}]
    /\ mem \in [Threads -> History] /\ file \in [Threads -> History]
    /\ lost \subseteq Sessions /\ mixed \subseteq Threads \cup {Nobody} /\ events \in Nat
TaskOK  ==
    /\ task \in [Tasks -> TaskRecord]
    /\ \A k \in Tasks : /\ At(k, "load") => task[k].t \in Threads
                        /\ At(k, "save") => task[k].snap \in Meta
                        /\ At(k, "file") => task[k].msg \in Message

TypeOK == ClientOK /\ LinkOK /\ StoreOK /\ TaskOK

(* A session at its prompt or in a turn holds the claim on the thread it   *)
(* writes to, unless that claim was dropped under it: by the idle job, by  *)
(* a restart, by the ChatEnd of a cancelled resume, or by a resume that    *)
(* timed out and was carried out later.                                    *)
WriterHoldsClaim ==
    \A s \in Sessions \ lost :
       pc[s] \in {"prompt", "busy", "send", "mismatch"} /\ cur[s] # Nobody
          => claims[cur[s]].owner = s

(* What a restart will read is what the daemon has in memory, once the     *)
(* append of the file is done; only two tasks that write one thread at the *)
(* same time can make them differ.                                         *)
FileHasMemory ==
    \A t \in Threads \ mixed : Unflushed(t) = {} => file[t] = mem[t]

(* The claims are a lock: ThreadLocks.                                     *)
Locks == INSTANCE ThreadLocks WITH owner <- [t \in Threads |-> claims[t].owner]

ImplementsLocks == Locks!Spec

(* Two sessions never have a turn on one thread ("prevents two sessions    *)
(* from entering the same thread at the same time").                       *)
Turns(t) == {s \in Sessions : task[s].t = t /\ "reply" \in Range(task[s].todo)}

OneSessionPerThread ==
    \A t \in Threads : \A s1, s2 \in Turns(t) : s1 = s2
=============================================================================
