--------------------------- MODULE MCConversation ---------------------------
(***************************************************************************)
(* Enumerates the threads a daemon may find on disk, message by message,   *)
(* and compares the repair functions of Conversation with what they        *)
(* promise.  A thread is well formed up to its tail: roles alternate, as   *)
(* every build appends them, and a reply holds results only of the tool    *)
(* uses in front of it.  Tool uses may be unanswered or half answered      *)
(* (crash, disconnect, interrupt) and legacy events may stand wherever an  *)
(* assistant message may.                                                  *)
(***************************************************************************)
EXTENDS Conversation

CONSTANTS ToolIds,   \* ids of tool_use blocks
          Queries,   \* what users type
          MaxLen     \* bound on the length of a thread

ASSUME MaxLenAssumption == MaxLen \in Nat \ {0}

(* The interrupt marker is not a query: texts are kept as a set, which     *)
(* would hold one of the two where the code keeps two blocks.              *)
ASSUME QueriesAssumption == InterruptMarker \notin Queries

VARIABLE thread

Replies(prev) ==
    {[UserResults(ids) EXCEPT !.texts = ts] :
        ids \in (SUBSET prev.uses) \ {{}}, ts \in {{}} \cup {{q} : q \in Queries}}

UserTurns(prev) == {UserText(q) : q \in Queries} \cup Replies(prev)

AssistantTurns ==
    {AssistantUses(ids) : ids \in (SUBSET ToolIds) \ {{}}}
        \cup {AssistantText("answer"), AssistantText(LegacyEvent)}

(* An empty thread continues like one that ends in an assistant's text.    *)
Newest == IF thread = <<>> THEN AssistantText("answer") ELSE Last(thread)

Init == thread = <<>>

AddUser ==
    /\ Newest.role = "assistant"
    /\ \E m \in UserTurns(Newest) : thread' = Append(thread, m)

AddAssistant ==
    /\ Newest.role = "user"
    /\ \E m \in AssistantTurns : thread' = Append(thread, m)

Next == Len(thread) < MaxLen /\ (AddUser \/ AddAssistant)

Spec == Init /\ [][Next]_thread

-----------------------------------------------------------------------------
(* sanitize_orphaned_tool_use leaves no tool_use without its tool_result,  *)
(* reports a change exactly when there was one to repair, and drops        *)
(* nothing: the thread is what remains when the synthetic results go.      *)
SanitizeRepairs ==
    LET clean == sanitize_orphaned_tool_use(thread) IN
    /\ NoOrphanedToolUse(clean)
    /\ NoOrphanedToolResult(clean)
    /\ (clean = thread) <=> NoOrphanedToolUse(thread)
    /\ sanitize_orphaned_tool_use(clean) = clean

(* The two repairs together never undo each other: dropping or merging     *)
(* legacy events leaves every tool_use answered and every tool_result      *)
(* paired, at startup and again at the next chat message.                  *)
RepairKeepsToolPairs ==
    LET once == Repaired(thread)  twice == Repaired(once) IN
    \A t \in {once, twice} : NoOrphanedToolUse(t) /\ NoOrphanedToolResult(t)

(* The repairs neither lose nor repeat what users typed: each query stands *)
(* in as many user messages of the repaired thread as it did before,       *)
(* although the message that held it may have been merged into another.    *)
Typed(m, q) == is_user_message(m) /\ q \in m.texts
UserTexts(msgs) == {<<q, Cardinality({i \in DOMAIN msgs : Typed(msgs[i], q)})>> : q \in Queries}
RepairKeepsQueries == UserTexts(Repaired(thread)) = UserTexts(thread)

(* A thread written by a build that no longer writes legacy events is      *)
(* valid for replay once repaired and extended by the next query, the way  *)
(* handle_chat_message does it.                                            *)
Modern(msgs) == \A i \in DOMAIN msgs :
    /\ ~is_interrupt_event_marker(msgs[i])
    /\ msgs[i].uses # {} => i = Len(msgs) \/ msgs[i + 1].results # {}

NextTurnReplayable ==
    Modern(thread) =>
        \A q \in Queries : ReplayValid(AddQuery(Repaired(thread), q))

(* A repaired thread can go on, and is still the thread it was.            *)
RepairedThreadUsable ==
    SanitizeRepairs /\ RepairKeepsToolPairs /\ RepairKeepsQueries /\ NextTurnReplayable
=============================================================================
