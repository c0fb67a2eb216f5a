---------------------------- MODULE Conversation ----------------------------
(***************************************************************************)
(* The messages of a chat thread and the pure functions of                 *)
(* crates/omnish-daemon/src/conversation_mgr.rs that repair them before    *)
(* they are replayed to a language model.                                  *)
(*                                                                         *)
(* A message keeps its role, the ids of its tool_use blocks, the ids of    *)
(* its tool_result blocks and the set of its text blocks.  Block order,    *)
(* wording and JSON layout are abstracted away; the two texts the code     *)
(* itself recognises (the legacy event and the interrupt marker) are kept  *)
(* as values of their own.                                                 *)
(***************************************************************************)
EXTENDS Naturals, FiniteSets, SequencesExt

LegacyEvent     == "<event>user interrupted</event>"
InterruptMarker == "[Request interrupted by user for tool use]"

Message(ToolIds, Texts) ==
    [role : {"user", "assistant"}, uses : SUBSET ToolIds,
     results : SUBSET ToolIds, texts : SUBSET Texts]

UserText(t)        == [role |-> "user", uses |-> {}, results |-> {}, texts |-> {t}]
UserResults(ids)   == [role |-> "user", uses |-> {}, results |-> ids, texts |-> {}]
AssistantText(t)   == [role |-> "assistant", uses |-> {}, results |-> {}, texts |-> {t}]
AssistantUses(ids) == [role |-> "assistant", uses |-> ids, results |-> {}, texts |-> {}]

is_user_message(m) == m.role = "user"

is_user_tool_result_only(m) ==
    is_user_message(m) /\ m.results # {} /\ m.texts = {}

is_interrupt_event_marker(m) ==
    m.role = "assistant" /\ m.uses = {} /\ m.results = {} /\ m.texts = {LegacyEvent}

(* plain_user_text(m) is Some(_) exactly when this holds.                  *)
has_plain_user_text(m) ==
    is_user_message(m) /\ m.results = {} /\ Cardinality(m.texts) = 1

-----------------------------------------------------------------------------
(* The tool uses of the last message of out that m does not answer.        *)
MissingResults(out, m) ==
    IF out = <<>> THEN {} ELSE Last(out).uses \ m.results

(* One turn of the while loop of sanitize_orphaned_tool_use: m follows the *)
(* already repaired prefix out.  A reply with some results is extended,    *)
(* otherwise a synthetic reply is inserted in front of m.                  *)
SanitizeStep(out, m) ==
    LET missing == MissingResults(out, m) IN
    CASE missing = {}   -> Append(out, m)
      [] missing # {} /\ m.results # {}
                        -> Append(out, [m EXCEPT !.results = @ \cup missing])
      [] OTHER          -> out \o <<UserResults(missing), m>>

(* Mutant of AnswerTail.                                                   *)
DropTail(out) == IF out # <<>> /\ Last(out).uses # {} THEN Front(out) ELSE out

(* What the loop does at the last message: tool uses at the end of the     *)
(* thread are answered too.                                                *)
AnswerTail(out) ==
    IF out # <<>> /\ Last(out).uses # {}
    THEN Append(out, UserResults(Last(out).uses))
    ELSE out

(* The repaired part of the thread in front of each index of the loop.     *)
Sanitized(msgs) ==
    LET out[i \in 0 .. Len(msgs)] ==
            IF i = 0 THEN <<>> ELSE SanitizeStep(out[i - 1], msgs[i])
    IN  out

sanitize_orphaned_tool_use(msgs) == AnswerTail(Sanitized(msgs)[Len(msgs)])

-----------------------------------------------------------------------------
(* Mutant of MergedMessage: the message is built anew from its texts.      *)
MergedAnew(prev, next) ==
    [UserText(InterruptMarker) EXCEPT !.texts = @ \cup next.texts]

(* The tool results of prev, the interrupt marker and the text of next.    *)
MergedMessage(prev, next) ==
    [prev EXCEPT !.texts = @ \cup {InterruptMarker} \cup next.texts]

(* One turn of the while loop of merge_interrupt_markers at index i.  out  *)
(* is the part of the vector in front of i; "absorbed" says that message i *)
(* has just been merged into it, "unseen" that the index is advanced past  *)
(* message i without looking at it (conversation_mgr.rs:320).              *)
MergeStep(msgs, st, i) ==
    LET m    == msgs[i]
        keep == [out |-> Append(st.out, m), skip |-> "no"]
        prev_is_tool_result == st.out # <<>> /\ is_user_tool_result_only(Last(st.out))
        next_text == i < Len(msgs) /\ has_plain_user_text(msgs[i + 1])
    IN CASE st.skip = "absorbed" -> [st EXCEPT !.skip = "unseen"]
         [] st.skip = "unseen"   -> keep
         [] st.skip = "no" /\ ~is_interrupt_event_marker(m) -> keep
         [] st.skip = "no" /\ is_interrupt_event_marker(m)
                           /\ prev_is_tool_result /\ next_text ->
              [out  |-> Append(Front(st.out), MergedMessage(Last(st.out), msgs[i + 1])),
               skip |-> "absorbed"]
         [] OTHER -> [st EXCEPT !.skip = "no"]

(* What the loop has made of the messages in front of each index.          *)
Merged(msgs) ==
    LET st[i \in 0 .. Len(msgs)] ==
            IF i = 0 THEN [out |-> <<>>, skip |-> "no"] ELSE MergeStep(msgs, st[i - 1], i)
    IN  st

merge_interrupt_markers(msgs) == Merged(msgs)[Len(msgs)].out

(* merge_user_query_into_tail: the query becomes a text block of the       *)
(* user-role tail, behind an interrupt marker when tool results precede it.*)
merge_user_query_into_tail(tail, query) ==
    [tail EXCEPT !.texts = @ \cup {query} \cup
        (IF tail.results # {} THEN {InterruptMarker} ELSE {})]

(* Mutant of AddQuery: the query is always a message of its own.           *)
AppendQueryOnly(msgs, query) == Append(msgs, UserText(query))

(* How handle_chat_message adds a query to a repaired thread: to a user    *)
(* tail, which must not be followed by a second user message, or as a new  *)
(* message.                                                                *)
AddQuery(msgs, query) ==
    IF msgs # <<>> /\ is_user_message(Last(msgs))
    THEN Append(Front(msgs), merge_user_query_into_tail(Last(msgs), query))
    ELSE Append(msgs, UserText(query))

-----------------------------------------------------------------------------
(* What a model API accepts.                                               *)

(* Every tool use is answered by the message that follows it.              *)
NoOrphanedToolUse(msgs) ==
    \A i \in DOMAIN msgs : msgs[i].uses # {} =>
        i < Len(msgs) /\ msgs[i].uses \subseteq msgs[i + 1].results

(* Every tool result answers a tool use of the message in front of it.     *)
NoOrphanedToolResult(msgs) ==
    \A i \in DOMAIN msgs : msgs[i].results # {} =>
        i > 1 /\ msgs[i].results \subseteq msgs[i - 1].uses

RolesAlternate(msgs) ==
    \A i \in 1 .. Len(msgs) - 1 : msgs[i].role # msgs[i + 1].role

ReplayValid(msgs) ==
    /\ RolesAlternate(msgs)
    /\ NoOrphanedToolUse(msgs)
    /\ NoOrphanedToolResult(msgs)

(* How a thread is repaired before it is replayed or kept: at startup      *)
(* (ConversationManager::new) and at each chat message.                    *)
Repaired(msgs) == merge_interrupt_markers(sanitize_orphaned_tool_use(msgs))
=============================================================================
