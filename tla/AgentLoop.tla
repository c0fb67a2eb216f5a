------------------------------ MODULE AgentLoop ------------------------------
(***************************************************************************)
(* The daemon's chat turns on ONE conversation thread                      *)
(* (crates/omnish-daemon/src/server.rs): every ChatMessage, ChatToolResult *)
(* and ChatInterrupt frame is handled by a task of its own, so the         *)
(* handlers of one client interleave at each await and each lock.          *)
(*                                                                         *)
(* The tasks share                                                         *)
(*   conv        the thread's messages (ConversationManager; disk and      *)
(*               memory are one here),                                     *)
(*   generation  thread_generations[thread],                               *)
(*   flagged     the keys of cancel_flags; cancel[r] is the value of the   *)
(*               AtomicBool the running loop of r holds.                   *)
(* A loop of request r is in exactly one place: its handler's task, the    *)
(* pending map, or the interrupt handler that took it out of that map; pc  *)
(* says which and where.  The other per-request variables are the fields   *)
(* of its AgentLoopState.                                                  *)
(***************************************************************************)
EXTENDS Conversation

CONSTANTS
    MaxRequest,     \* requests 1 .. MaxRequest are sent on the thread, in turn
    QueryText,      \* the query of each request
    Plans,          \* the tool calls a model may ask for: sequences of kinds
    MaxIterations,  \* max_iterations of run_agent_loop (100 in the code)
    MaxRetries,     \* LLM connection retries (2 in the code)
    MaxDrops,       \* bound on lost connections
    MaxRestarts     \* bound on daemon restarts

ASSUME LimitsAssumption ==
    /\ MaxRequest \in Nat /\ MaxIterations \in Nat \ {0}
    /\ MaxRetries \in Nat /\ MaxDrops \in Nat /\ MaxRestarts \in Nat

ASSUME PlansAssumption == Plans \subseteq Seq({"client", "daemon"})

Request == 1 .. MaxRequest

VARIABLES
    \* shared by the handlers
    conv, generation, flagged, cancel,
    \* AgentLoopState of each request
    pc, lgen, hist, saved, plan, at, done, iteration, retries, outcome,
    \* handlers that have returned but not yet removed their cancel flag
    exiting,
    \* the client: its side of each request, tools still to run, results sent
    client, todo, inflight, intr,
    \* environment and history
    drops, restarts, gone, asked, stale

shared   == <<conv, generation, flagged>>
control  == <<lgen, cancel, iteration, retries, outcome, gone, asked>>
data     == <<hist, saved, plan, at, done>>
peer     == <<client, todo, inflight, intr>>
env      == <<drops, restarts>>
vars     == <<shared, pc, control, data, exiting, peer, env, stale>>

-----------------------------------------------------------------------------
(* Where a loop can be.                                                    *)
Arriving == {"sent", "flagged", "bumped", "append", "replace"}
Running  == {"top", "llm", "tools", "check", "commit", "park", "reflag"}
Held     == {"taken", "settle"}          \* owned by the interrupt handler
PC       == {"unsent", "parked", "done"} \cup Arriving \cup Running \cup Held

Outcome  == {"none", "answer", "truncated", "cancelled", "sanitized"}

(* Ids of the tool calls of the response under way.                        *)
CallId(r, i)       == <<r, iteration[r], i>>
Calls(r)           == {CallId(r, i) : i \in DOMAIN plan[r]}
ClientCalls(r)     == {CallId(r, i) : i \in {j \in DOMAIN plan[r] : plan[r][j] = "client"}}

superseded(r) == lgen[r] # generation

Zero    == [r \in Request |-> 0]
One     == [r \in Request |-> 1]
Nothing == [r \in Request |-> {}]

Init ==
    /\ conv = <<>> /\ generation = 0 /\ flagged = {}
    /\ pc = [r \in Request |-> "unsent"]
    /\ lgen = Zero /\ iteration = Zero /\ retries = Zero /\ asked = Zero
    /\ cancel = [r \in Request |-> FALSE] /\ gone = {}
    /\ outcome = [r \in Request |-> "none"]
    /\ hist = [r \in Request |-> <<>>] /\ saved = Zero
    /\ plan = [r \in Request |-> <<>>] /\ at = One /\ done = Nothing
    /\ exiting = Zero
    /\ client = [r \in Request |-> "idle"]
    /\ todo = Nothing /\ inflight = Nothing
    /\ intr = [r \in Request |-> "none"]
    /\ drops = 0 /\ restarts = 0 /\ stale = FALSE

Goto(r, l) == pc' = [pc EXCEPT ![r] = l]

(* The tool calls of one reply are locals of an iteration.                 *)
NoCalls(r) ==
    /\ plan' = [plan EXCEPT ![r] = <<>>]
    /\ at' = [at EXCEPT ![r] = 1]
    /\ done' = [done EXCEPT ![r] = {}]

(* A loop ends: its AgentLoopState is dropped.                             *)
DropState(r) ==
    /\ Goto(r, "done")
    /\ NoCalls(r)
    /\ lgen' = [lgen EXCEPT ![r] = 0]
    /\ hist' = [hist EXCEPT ![r] = <<>>]
    /\ saved' = [saved EXCEPT ![r] = 0]
    /\ iteration' = [iteration EXCEPT ![r] = 0]
    /\ retries' = [retries EXCEPT ![r] = 0]
    /\ outcome' = [outcome EXCEPT ![r] = "none"]
    /\ cancel' = [cancel EXCEPT ![r] = FALSE]
    /\ gone' = gone \ {r}
    /\ asked' = [asked EXCEPT ![r] = 0]

(* The handler returns from run_agent_loop; its last statement, removing   *)
(* the cancel flag, is a step of its own (RemoveFlag).                     *)
Return(r) ==
    /\ DropState(r)
    /\ exiting' = [exiting EXCEPT ![r] = @ + 1]

-----------------------------------------------------------------------------
(* The client (chat_session.rs run): one request at a time.  It turns to   *)
(* the next one when the last is answered, interrupted by Ctrl-C, or its   *)
(* connection is lost.                                                     *)

SendChat(r) ==
    /\ pc[r] = "unsent"
    /\ \A s \in 1 .. r - 1 : client[s] = "done"
    /\ Goto(r, "sent")
    /\ client' = [client EXCEPT ![r] = "waiting"]
    /\ UNCHANGED <<shared, control, data, exiting, todo, inflight, intr, env,
                   stale>>

(* Ctrl-C: seen at every await of the client except while it waits for the *)
(* reply to a tool result that is not the last one.                        *)
SendInterrupt(r) ==
    /\ client[r] = "waiting"
    /\ inflight[r] # {} => todo[r] = {}
    /\ intr' = [intr EXCEPT ![r] = "sent"]
    /\ client' = [client EXCEPT ![r] = "done"]
    /\ todo' = [todo EXCEPT ![r] = {}]
    /\ UNCHANGED <<shared, pc, control, data, exiting, inflight, env, stale>>

(* The tools run in parallel; each result is one call, awaited in turn.    *)
SendToolResult(r) ==
    /\ client[r] = "waiting" /\ inflight[r] = {}
    /\ \E t \in todo[r] :
          /\ inflight' = [inflight EXCEPT ![r] = {t}]
          /\ todo' = [todo EXCEPT ![r] = @ \ {t}]
    /\ UNCHANGED <<shared, pc, control, data, exiting, client, intr, env,
                   stale>>

-----------------------------------------------------------------------------
(* ChatMessage                                                             *)

(* handle_message: register the cancel flag, then call the handler.        *)
RegisterFlag(r) ==
    /\ pc[r] = "sent"
    /\ flagged' = flagged \cup {r}
    /\ Goto(r, "flagged")
    /\ UNCHANGED <<conv, generation, control, data, exiting, peer, env, stale>>

(* Mutant of bump_generation: the counter stays where it is.               *)
keep_generation == UNCHANGED generation

bump_generation == generation' = generation + 1

(* handle_chat_message starts by bumping the thread's generation ...       *)
BeginTurn(r) ==
    /\ pc[r] = "flagged"
    /\ bump_generation
    /\ lgen' = [lgen EXCEPT ![r] = generation + 1]
    /\ Goto(r, "bumped")
    /\ UNCHANGED <<conv, flagged, cancel, iteration, retries, outcome, gone,
                   asked, data, exiting, peer, env, stale>>

(* ... also for a message that only selects a model, which ends there.     *)
SelectModel(r) ==
    /\ pc[r] = "flagged"
    /\ bump_generation
    /\ Return(r)
    /\ client' = [client EXCEPT ![r] = "done"]
    /\ UNCHANGED <<conv, flagged, todo, inflight, intr, env, stale>>

(* Mutant of LoadHistory: the thread is not repaired.                      *)
LoadUnrepaired(r) ==
    /\ pc[r] = "bumped"
    /\ hist' = [hist EXCEPT ![r] = AddQuery(conv, QueryText[r])]
    /\ Goto(r, "replace")
    /\ UNCHANGED <<shared, control, saved, plan, at, done, exiting, peer, env,
                   stale>>

(* Load the thread, repair it and add the query.  Only the untouched       *)
(* history with a new message at its end is appended to; anything else     *)
(* replaces the thread.                                                    *)
LoadHistory(r) ==
    /\ pc[r] = "bumped"
    /\ \E clean \in {sanitize_orphaned_tool_use(conv)} :
       \E msgs \in {merge_interrupt_markers(clean)} :
          /\ hist' = [hist EXCEPT ![r] = AddQuery(msgs, QueryText[r])]
          /\ Goto(r, IF msgs = conv /\ (msgs = <<>> \/ ~is_user_message(Last(msgs)))
                     THEN "append" ELSE "replace")
    /\ UNCHANGED <<shared, control, saved, plan, at, done, exiting, peer, env,
                   stale>>

(* History: a write of r's is stale when a newer turn has begun.           *)
NoteWrite(r) == stale' = (stale \/ superseded(r))

AppendQuery(r) == pc[r] = "append" /\ conv' = Append(conv, Last(hist[r]))
ReplaceHistory(r) == pc[r] = "replace" /\ conv' = hist[r]

StoreQuery(r) ==
    /\ AppendQuery(r) \/ ReplaceHistory(r)
    /\ saved' = [saved EXCEPT ![r] = Len(hist[r])]
    /\ NoteWrite(r)
    /\ Goto(r, "top")
    /\ UNCHANGED <<generation, flagged, control, hist, plan, at, done, exiting,
                   peer, env>>

-----------------------------------------------------------------------------
(* run_agent_loop                                                          *)

(* A branch that ends the loop: persist behind a supersession check.       *)
EndWith(r, how) ==
    /\ outcome' = [outcome EXCEPT ![r] = how]
    /\ Goto(r, "check")

NextIteration(r) ==
    /\ iteration' = [iteration EXCEPT ![r] = @ + 1]
    /\ Goto(r, "top")

(* The head of the for loop: the iterations are exhausted, the turn is     *)
(* superseded, the user has interrupted it, or the model is asked.         *)
Exhausted(r) ==
    /\ pc[r] = "top" /\ iteration[r] >= MaxIterations
    /\ EndWith(r, "answer")
    /\ UNCHANGED <<shared, lgen, cancel, iteration, retries, gone, asked, data,
                   exiting, peer, env, stale>>

DropSuperseded(r) ==
    /\ pc[r] = "top" /\ iteration[r] < MaxIterations
    /\ superseded(r)
    /\ Return(r)
    /\ UNCHANGED <<shared, peer, env, stale>>

StopCancelled(r) ==
    /\ pc[r] = "top" /\ iteration[r] < MaxIterations
    /\ ~superseded(r) /\ cancel[r]
    /\ EndWith(r, "sanitized")
    /\ UNCHANGED <<shared, lgen, cancel, iteration, retries, gone, asked, data,
                   exiting, peer, env, stale>>

AskModel(r) ==
    /\ pc[r] = "top" /\ iteration[r] < MaxIterations
    /\ ~superseded(r) /\ ~cancel[r]
    /\ Goto(r, "llm")
    /\ asked' = [asked EXCEPT ![r] = @ + 1]
    /\ UNCHANGED <<shared, lgen, cancel, iteration, retries, outcome, gone,
                   data, exiting, peer, env, stale>>

(* The model's replies.  tx.send fails only once the connection is gone.   *)
SendFails(r) == r \in gone

ModelUsesTools(r) ==
    /\ pc[r] = "llm"
    /\ \E p \in Plans \ {<<>>} :
          /\ plan' = [plan EXCEPT ![r] = p]
          /\ hist' = [hist EXCEPT ![r] =
                Append(@, AssistantUses({CallId(r, i) : i \in DOMAIN p}))]
    /\ at' = [at EXCEPT ![r] = 1]
    /\ done' = [done EXCEPT ![r] = {}]
    /\ retries' = [retries EXCEPT ![r] = 0]
    /\ \/ Goto(r, "tools") /\ UNCHANGED outcome
       \/ SendFails(r) /\ EndWith(r, "sanitized")
    /\ UNCHANGED <<shared, lgen, cancel, iteration, gone, asked, saved,
                   exiting, peer, env, stale>>

(* An end of turn, or a tool_use reply without a tool call (which leaves   *)
(* the for loop for the code after it): one assistant text ends the turn.  *)
(* A reply cut off at max_tokens ends it too; with a thinking block its    *)
(* content is kept as it is, tool_use blocks included.                     *)
ModelEndsTurn(r) ==
    /\ pc[r] = "llm"
    /\ retries' = [retries EXCEPT ![r] = 0]
    /\ EndWith(r, "answer") \/ EndWith(r, "truncated")
    /\ UNCHANGED <<shared, lgen, cancel, iteration, gone, asked, data, exiting,
                   peer, env, stale>>

ModelConnectionError(r) ==
    /\ pc[r] = "llm" /\ retries[r] < MaxRetries
    /\ retries' = [retries EXCEPT ![r] = @ + 1]
    /\ NextIteration(r)
    /\ UNCHANGED <<shared, lgen, cancel, outcome, gone, asked, data, exiting,
                   peer, env, stale>>

(* Any other error, and a connection error when the retries are used up:   *)
(* an api-error event ends the turn like an answer does.                   *)
ModelError(r) ==
    /\ pc[r] = "llm"
    /\ EndWith(r, "answer")
    /\ UNCHANGED <<shared, lgen, cancel, iteration, retries, gone, asked, data,
                   exiting, peer, env, stale>>

-----------------------------------------------------------------------------
(* The loop over the tool calls of one reply.                              *)

ToolsLeft(r) == pc[r] = "tools" /\ at[r] <= Len(plan[r])
ToolsOver(r) == pc[r] = "tools" /\ at[r] > Len(plan[r])

ToolsCancelled(r) ==
    /\ ToolsLeft(r) /\ cancel[r]
    /\ EndWith(r, "cancelled")
    /\ UNCHANGED <<shared, lgen, cancel, iteration, retries, gone, asked, data,
                   exiting, peer, env, stale>>

(* A client tool is forwarded, a daemon tool executed; its result is kept. *)
RunTool(r) ==
    /\ ToolsLeft(r) /\ ~cancel[r]
    /\ \/ /\ at' = [at EXCEPT ![r] = @ + 1]
          /\ done' = [done EXCEPT ![r] =
                IF plan[r][at[r]] = "daemon" THEN @ \cup {CallId(r, at[r])} ELSE @]
          /\ UNCHANGED <<pc, outcome>>
       \/ SendFails(r) /\ EndWith(r, "sanitized") /\ UNCHANGED <<at, done>>
    /\ UNCHANGED <<shared, lgen, cancel, iteration, retries, gone, asked, hist,
                   saved, plan, exiting, peer, env, stale>>

(* All calls were the daemon's own: the next iteration replays the results.*)
ToolsDone(r) ==
    /\ ToolsOver(r) /\ ClientCalls(r) = {}
    /\ hist' = [hist EXCEPT ![r] = Append(@, UserResults(done[r]))]
    /\ NoCalls(r)
    /\ NextIteration(r)
    /\ UNCHANGED <<shared, lgen, cancel, retries, outcome, gone, asked, saved,
                   exiting, peer, env, stale>>

(* persist_unsaved                                                         *)
PersistUnsaved(r) ==
    /\ conv' = conv \o SubSeq(hist[r], saved[r] + 1, Len(hist[r]))
    /\ NoteWrite(r)

(* Mutant of PauseForClient: saved_up_to is left behind.                   *)
PauseUncounted(r) ==
    /\ ToolsOver(r) /\ ClientCalls(r) # {}
    /\ PersistUnsaved(r)
    /\ Goto(r, "park")
    /\ UNCHANGED <<generation, flagged, control, data, exiting, peer, env>>

(* Client tools are outstanding: persist, with no look at the generation,  *)
(* then park the loop in pending_loops.                                    *)
PauseForClient(r) ==
    /\ ToolsOver(r) /\ ClientCalls(r) # {}
    /\ PersistUnsaved(r)
    /\ saved' = [saved EXCEPT ![r] = Len(hist[r])]
    /\ Goto(r, "park")
    /\ UNCHANGED <<generation, flagged, control, hist, plan, at, done, exiting,
                   peer, env>>

(* The handler returns once the loop is in the map; its stream ends and a  *)
(* client that is still there learns which tools to run.                   *)
Park(r) ==
    /\ pc[r] = "park"
    /\ Goto(r, "parked")
    /\ exiting' = [exiting EXCEPT ![r] = @ + 1]
    /\ todo' = [todo EXCEPT ![r] = IF client[r] = "waiting" THEN ClientCalls(r) ELSE {}]
    /\ UNCHANGED <<shared, control, data, client, inflight, intr, env, stale>>

-----------------------------------------------------------------------------
(* The branches that end a turn: is_superseded, then the closing messages  *)
(* and persist_unsaved, then the reply.  The check and the write are under *)
(* different locks, hence two steps.                                       *)

(* What the outcome adds to the history.                                   *)
ClosingMessages(r) ==
    CASE outcome[r] = "answer"    -> <<AssistantText("answer")>>
      [] outcome[r] = "truncated" -> <<AssistantUses({CallId(r, 1)})>>
      [] outcome[r] = "cancelled" -> <<UserResults(Calls(r))>>
      [] outcome[r] = "sanitized" /\ Last(hist[r]).uses # {}
                                  -> <<UserResults(Last(hist[r]).uses)>>
      [] OTHER                    -> <<>>

EndSuperseded(r) ==
    /\ pc[r] = "check" /\ superseded(r)
    /\ Return(r)
    /\ UNCHANGED <<shared, peer, env, stale>>

EndChecked(r) ==
    /\ pc[r] = "check" /\ ~superseded(r)
    /\ hist' = [hist EXCEPT ![r] = @ \o ClosingMessages(r)]
    /\ Goto(r, "commit")
    /\ UNCHANGED <<shared, control, saved, plan, at, done, exiting, peer, env,
                   stale>>

(* The write; an answer is also sent, which ends the client's wait.        *)
EndCommit(r) ==
    /\ pc[r] = "commit"
    /\ PersistUnsaved(r)
    /\ client' = [client EXCEPT ![r] =
          IF outcome[r] \in {"answer", "truncated"} THEN "done" ELSE @]
    /\ Return(r)
    /\ UNCHANGED <<generation, flagged, todo, inflight, intr, env>>

(* Mutant of RemoveFlag: the handler returns without removing its flag.     *)
ForgetFlag(r) ==
    /\ exiting[r] > 0
    /\ exiting' = [exiting EXCEPT ![r] = @ - 1]
    /\ UNCHANGED <<shared, pc, control, data, peer, env, stale>>

(* handle_message / handle_tool_result after the loop: drop the flag.      *)
RemoveFlag(r) ==
    /\ exiting[r] > 0
    /\ exiting' = [exiting EXCEPT ![r] = @ - 1]
    /\ flagged' = flagged \ {r}
    /\ UNCHANGED <<conv, generation, pc, control, data, peer, env, stale>>

-----------------------------------------------------------------------------
(* ChatToolResult: handle_tool_result holds the pending map throughout.    *)

Received(r) == inflight' = [inflight EXCEPT ![r] = {}]

(* No pending loop: an Ack.  Where the client waits for the continuation   *)
(* of the turn (after its last result) that ends its wait.                 *)
ResultWithoutLoop(r) ==
    /\ inflight[r] # {} /\ pc[r] # "parked"
    /\ Received(r)
    /\ client' = IF todo[r] = {} THEN [client EXCEPT ![r] = "done"] ELSE client
    /\ UNCHANGED <<shared, pc, control, data, exiting, todo, intr, env, stale>>

ResultSuperseded(r) ==
    /\ inflight[r] # {} /\ pc[r] = "parked" /\ superseded(r)
    /\ Received(r)
    /\ DropState(r)
    /\ UNCHANGED <<shared, exiting, client, todo, intr, env, stale>>

ResultAccepted(r) ==
    /\ inflight[r] # {} /\ pc[r] = "parked" /\ ~superseded(r)
    /\ Received(r)
    /\ ~(Calls(r) \subseteq done[r] \cup inflight[r])
    /\ done' = [done EXCEPT ![r] = @ \cup inflight[r]]
    /\ UNCHANGED <<shared, pc, control, hist, saved, plan, at, exiting, client,
                   todo, intr, env, stale>>

(* Mutant of ResultCompletes: the loop resumes in the same iteration.      *)
ResumeSameIteration(r) ==
    /\ inflight[r] # {} /\ pc[r] = "parked" /\ ~superseded(r)
    /\ Received(r)
    /\ Calls(r) \subseteq done[r] \cup inflight[r]
    /\ hist' = [hist EXCEPT ![r] = Append(@, UserResults(done[r] \cup inflight[r]))]
    /\ NoCalls(r)
    /\ Goto(r, "reflag")
    /\ UNCHANGED <<shared, control, saved, exiting, client, todo, intr, env, stale>>

(* The last result: the loop leaves the map and goes on as the next        *)
(* iteration, under a new cancel flag that is registered after the map is  *)
(* unlocked.                                                               *)
ResultCompletes(r) ==
    /\ inflight[r] # {} /\ pc[r] = "parked" /\ ~superseded(r)
    /\ Received(r)
    /\ Calls(r) \subseteq done[r] \cup inflight[r]
    /\ hist' = [hist EXCEPT ![r] = Append(@, UserResults(done[r] \cup inflight[r]))]
    /\ NoCalls(r)
    /\ iteration' = [iteration EXCEPT ![r] = @ + 1]
    /\ Goto(r, "reflag")
    /\ UNCHANGED <<shared, lgen, cancel, retries, outcome, gone, asked, saved,
                   exiting, client, todo, intr, env, stale>>

ResumeLoop(r) ==
    /\ pc[r] = "reflag"
    /\ flagged' = flagged \cup {r}
    /\ cancel' = [cancel EXCEPT ![r] = FALSE]
    /\ Goto(r, "top")
    /\ UNCHANGED <<conv, generation, lgen, iteration, retries, outcome, gone,
                   asked, data, exiting, peer, env, stale>>

-----------------------------------------------------------------------------
(* ChatInterrupt: first the pending map, then (another lock) the flags.    *)

InterruptParked(r) ==
    /\ intr[r] = "sent" /\ pc[r] = "parked"
    /\ intr' = [intr EXCEPT ![r] = "none"]
    /\ Goto(r, "taken")
    /\ UNCHANGED <<shared, control, data, exiting, client, todo, inflight, env,
                   stale>>

InterruptNotParked(r) ==
    /\ intr[r] = "sent" /\ pc[r] # "parked"
    /\ intr' = [intr EXCEPT ![r] = "looking"]
    /\ UNCHANGED <<shared, pc, control, data, exiting, client, todo, inflight,
                   env, stale>>

InterruptFlag(r) ==
    /\ intr[r] = "looking" /\ r \in flagged
    /\ intr' = [intr EXCEPT ![r] = "none"]
    /\ cancel' = [cancel EXCEPT ![r] = pc[r] # "done"]
    /\ UNCHANGED <<shared, pc, lgen, iteration, retries, outcome, gone, asked,
                   data, exiting, client, todo, inflight, env, stale>>

(* "Loop already finished before the interrupt reached us."                *)
InterruptTooLate(r) ==
    /\ intr[r] = "looking" /\ r \notin flagged
    /\ intr' = [intr EXCEPT ![r] = "none"]
    /\ UNCHANGED <<shared, pc, control, data, exiting, client, todo, inflight,
                   env, stale>>

(* The loop taken from the map: is_superseded, then the completed results  *)
(* and interrupt markers for the other calls are persisted.                *)
InterruptSuperseded(r) ==
    /\ pc[r] = "taken" /\ superseded(r)
    /\ DropState(r)
    /\ UNCHANGED <<shared, exiting, peer, env, stale>>

InterruptChecked(r) ==
    /\ pc[r] = "taken" /\ ~superseded(r)
    /\ hist' = [hist EXCEPT ![r] = Append(@, UserResults(done[r] \cup Calls(r)))]
    /\ Goto(r, "settle")
    /\ UNCHANGED <<shared, control, saved, plan, at, done, exiting, peer, env,
                   stale>>

InterruptSettle(r) ==
    /\ pc[r] = "settle"
    /\ PersistUnsaved(r)
    /\ DropState(r)
    /\ UNCHANGED <<generation, flagged, exiting, peer, env>>

-----------------------------------------------------------------------------
(* Mutant of SweepPending: only superseded loops are swept.                *)
SweepSuperseded(r) ==
    /\ pc[r] = "parked" /\ superseded(r)
    /\ DropState(r)
    /\ UNCHANGED <<shared, exiting, peer, env, stale>>

(* The half-minute sweep of pending loops older than half an hour.         *)
SweepPending(r) ==
    /\ pc[r] = "parked"
    /\ DropState(r)
    /\ UNCHANGED <<shared, exiting, peer, env, stale>>

(* The connection is lost: the client gives its request up; frames it has  *)
(* sent but no handler has taken up may be lost with it.                   *)
Disconnect ==
    /\ drops < MaxDrops /\ drops' = drops + 1
    /\ \E r \in Request : client[r] = "waiting"
    /\ gone' = {r \in Request : pc[r] \notin {"unsent", "done"}}
    /\ client' = [r \in Request |-> IF client[r] = "waiting" THEN "done" ELSE client[r]]
    /\ todo' = Nothing
    /\ \E lost \in SUBSET Request :
          /\ pc' = [r \in Request |-> IF r \in lost /\ pc[r] = "sent" THEN "done" ELSE pc[r]]
          /\ inflight' = [r \in Request |-> IF r \in lost THEN {} ELSE inflight[r]]
          /\ intr' = [r \in Request |->
                IF r \in lost /\ intr[r] = "sent" THEN "none" ELSE intr[r]]
    /\ UNCHANGED <<shared, lgen, cancel, iteration, retries, outcome, asked, data,
                   exiting, restarts, stale>>

(* The daemon restarts: every handler and every map is gone, the thread is *)
(* read back from disk and repaired (ConversationManager::new).            *)
Restart ==
    /\ restarts < MaxRestarts /\ restarts' = restarts + 1
    /\ conv' = Repaired(conv)
    /\ generation' = 0 /\ flagged' = {}
    /\ pc' = [r \in Request |-> IF pc[r] = "unsent" THEN "unsent" ELSE "done"]
    /\ lgen' = Zero /\ iteration' = Zero /\ retries' = Zero /\ asked' = Zero
    /\ cancel' = [r \in Request |-> FALSE] /\ gone' = {}
    /\ outcome' = [r \in Request |-> "none"]
    /\ hist' = [r \in Request |-> <<>>] /\ saved' = Zero
    /\ plan' = [r \in Request |-> <<>>] /\ at' = One /\ done' = Nothing
    /\ exiting' = Zero
    /\ client' = [r \in Request |-> IF client[r] = "waiting" THEN "done" ELSE client[r]]
    /\ todo' = Nothing /\ inflight' = Nothing
    /\ intr' = [r \in Request |-> "none"]
    /\ UNCHANGED <<drops, stale>>

-----------------------------------------------------------------------------
(* Steps of the daemon on request r: always taken in the end.              *)
Handle(r) ==
    \/ RegisterFlag(r) \/ BeginTurn(r) \/ SelectModel(r)
    \/ LoadHistory(r) \/ StoreQuery(r)
    \/ Exhausted(r) \/ DropSuperseded(r) \/ StopCancelled(r) \/ AskModel(r)
    \/ ModelUsesTools(r) \/ ModelEndsTurn(r) \/ ModelConnectionError(r) \/ ModelError(r)
    \/ ToolsCancelled(r) \/ RunTool(r) \/ ToolsDone(r)
    \/ PauseForClient(r) \/ Park(r)
    \/ EndSuperseded(r) \/ EndChecked(r) \/ EndCommit(r)
    \/ ResumeLoop(r) \/ SweepPending(r)
    \/ InterruptSuperseded(r) \/ InterruptChecked(r) \/ InterruptSettle(r)

HandleFrame(r) ==
    \/ ResultWithoutLoop(r) \/ ResultSuperseded(r) \/ ResultAccepted(r) \/ ResultCompletes(r)
    \/ InterruptParked(r) \/ InterruptNotParked(r) \/ InterruptFlag(r) \/ InterruptTooLate(r)

Client(r) == SendChat(r) \/ SendInterrupt(r) \/ SendToolResult(r)

Next ==
    \/ \E r \in Request : Handle(r) \/ HandleFrame(r) \/ RemoveFlag(r) \/ Client(r)
    \/ Disconnect \/ Restart

(* Tokio runs every task that can move, the model's API answers or fails,  *)
(* and the sweep comes round; nothing is assumed of the user, the client,  *)
(* the network or the handlers of later frames.                            *)
Fairness == \A r \in Request : WF_vars(Handle(r))

Spec == Init /\ [][Next]_vars
FairSpec == Spec /\ Fairness

-----------------------------------------------------------------------------
(* Properties                                                              *)

ToolIds == {<<r, n, i>> : r \in Request, n \in 0 .. MaxIterations,
                          i \in 1 .. Max({Len(p) : p \in Plans})}
Texts   == {QueryText[r] : r \in Request} \cup {"answer", InterruptMarker}
Thread  == Seq(Message(ToolIds, Texts))

(* Where the handlers and their peer are, ...                              *)
PlaceTypeOK ==
    /\ flagged \subseteq Request /\ gone \subseteq Request
    /\ pc \in [Request -> PC] /\ outcome \in [Request -> Outcome]
    /\ client \in [Request -> {"idle", "waiting", "done"}]
    /\ intr \in [Request -> {"none", "sent", "looking"}]

(* ... what they count, ...                                                *)
CounterTypeOK ==
    /\ generation \in Nat /\ lgen \in [Request -> Nat]
    /\ iteration \in [Request -> 0 .. MaxIterations]
    /\ retries \in [Request -> 0 .. MaxRetries]
    /\ asked \in [Request -> Nat] /\ exiting \in [Request -> Nat]
    /\ drops \in 0 .. MaxDrops /\ restarts \in 0 .. MaxRestarts

(* ... and the messages and tool calls they carry.                         *)
DataTypeOK ==
    /\ conv \in Thread /\ hist \in [Request -> Thread]
    /\ saved \in [Request -> Nat] /\ cancel \in [Request -> BOOLEAN]
    /\ plan \in [Request -> Plans \cup {<<>>}] /\ at \in [Request -> Nat]
    /\ done \in [Request -> SUBSET ToolIds]
    /\ todo \in [Request -> SUBSET ToolIds]
    /\ inflight \in [Request -> SUBSET ToolIds]
    /\ stale \in BOOLEAN

(* Every variable stays in its type; the counters of one turn (iteration,  *)
(* llm_retries) stay within the limits of run_agent_loop.                  *)
TypeOK == PlaceTypeOK /\ CounterTypeOK /\ DataTypeOK

(* Whatever happened to the thread before (crash, disconnect, interrupt,   *)
(* even a stale write), a model is never asked with a tool_use that has no *)
(* tool_result right behind it.                                            *)
ModelSeesNoOrphan ==
    \A r \in Request : pc[r] = "llm" => NoOrphanedToolUse(hist[r])

(* As long as no superseded turn has written to the thread, every request  *)
(* to the model is a valid conversation: roles alternate and tool uses and *)
(* results pair up, over interrupts, disconnects, restarts and sweeps.     *)
ModelSeesValidThread ==
    ~stale => \A r \in Request : pc[r] = "llm" =>
        ReplayValid(hist[r]) /\ is_user_message(Last(hist[r]))

(* The turn that owns the thread knows exactly what is stored: the thread  *)
(* is the saved part of its history, so what it appends next continues     *)
(* what it showed the model.                                               *)
OwnerKnowsThread ==
    ~stale => \A r \in Request :
        pc[r] \in Running \cup Held \cup {"parked"} /\ ~superseded(r) =>
            conv = SubSeq(hist[r], 1, saved[r])

(* max_iterations bounds the calls to the model of a whole turn, over all  *)
(* its pauses for client tools and its connection retries.                 *)
ModelCallsBounded == \A r \in Request : asked[r] <= MaxIterations

(* A cancel flag stays registered only while a handler that will remove it *)
(* is still under way: cancel_flags does not leak.                         *)
NoFlagLeak ==
    \A r \in flagged :
        pc[r] \in (Arriving \ {"sent"}) \cup (Running \ {"reflag"}) \/ exiting[r] > 0

(* Two turns of one thread never share a generation: at most one of the    *)
(* loops that are alive is the current one.                                *)
Live(r) == pc[r] \in (Arriving \ {"sent", "flagged"}) \cup Running \cup Held \cup {"parked"}

OneCurrentTurn ==
    \A r, s \in Request : Live(r) /\ Live(s) /\ lgen[r] = lgen[s] => r = s

(* No step makes the thread forget a user's query or a tool's result,      *)
(* unless a superseded turn has written.                                   *)
Content(msgs) ==
    <<UNION {msgs[i].texts : i \in DOMAIN msgs},
      UNION {msgs[i].uses : i \in DOMAIN msgs},
      UNION {msgs[i].results : i \in DOMAIN msgs}>>

NothingForgotten ==
    [][~stale' => \A k \in 1 .. 3 : Content(conv)[k] \subseteq Content(conv')[k]]_vars

(* Every chat message that reaches the daemon comes to an end: answered,   *)
(* dropped as superseded, stopped, or swept while its client is silent.    *)
EveryTurnEnds == \A r \in Request : pc[r] = "sent" ~> pc[r] = "done"

(* AgentLoopState::generation (server.rs:110-115): a stale loop "must drop *)
(* its in-flight work without writing to disk".                            *)
StaleLoopNeverWrites ==
    [][\A r \in Request : PauseForClient(r) \/ EndCommit(r) \/ InterruptSettle(r)
                              => ~superseded(r)]_vars

(* handle_chat_interrupt (server.rs:1157-1161): an interrupt that finds    *)
(* neither a pending loop nor a cancel flag comes after the loop's end.    *)
DroppedInterruptIsLate ==
    [][\A r \in Request : InterruptTooLate(r) => pc[r] = "done"]_vars
=============================================================================
