--------------------------------- MODULE Llm ---------------------------------
(***************************************************************************)
(* The language-model backends (crates/omnish-llm): how a backend is       *)
(* chosen (factory.rs), how a thread, kept in Anthropic's format, becomes  *)
(* the body of a request (anthropic.rs, openai_compat.rs), the retries of  *)
(* a request, and how the reply becomes the next message of the thread     *)
(* (server.rs run_agent_loop).  The model of a thread may change between   *)
(* turns, so that one API is told what another has said.                   *)
(*                                                                         *)
(* A text is a sequence of words: "r" reasoning, "t" other text and the    *)
(* think tags.  Cache hints, token counts, tracing and single-turn         *)
(* requests (which have no history) are left out.                          *)
(***************************************************************************)
EXTENDS Integers, Sequences, FiniteSets, SequencesExt

CONSTANTS BackendType, \* the configured backends and the backend_type of each
          MaxRetries,  \* MAX_RETRIES of a backend
          LoopRetries, \* connection errors that the agent loop retries
          MaxThread    \* bound on the messages of the thread

ASSUME LlmShape == {MaxRetries, LoopRetries, MaxThread} \subseteq Nat

VARIABLES conf,   \* LlmConfig: the default, the chat use case, the backends that cannot start
          model,  \* the thread's model override
          extra_messages, \* the thread as it is sent, in the Anthropic form
          call,   \* the request under way: backend, attempt, retries of the loop
          request, \* the messages of the last request, in the format of its API
          told    \* what the API said, for each assistant message of the thread

llmVars == <<conf, model, extra_messages, call, request, told>>

Backends == DOMAIN BackendType
NoBackend == "none"
NoCall == [backend |-> NoBackend, attempt |-> 0, retries |-> 0]

-----------------------------------------------------------------------------
(* MultiBackend *)

\* A backend starts when its key command and its address work and its type is known.
create_backend(b) == b \notin conf.broken /\ BackendType[b] \in {"anthropic", "openai", "openai-compat"}
named_backends == {b \in Backends : create_backend(b)}

\* The default, or any backend that works when it does not.
default_backend == IF conf.default \in named_backends THEN conf.default
                   ELSE IF named_backends = {} THEN NoBackend ELSE CHOOSE b \in named_backends : TRUE
get_backend == IF conf.chat \in named_backends THEN conf.chat ELSE default_backend
get_backend_by_name == IF model \in named_backends THEN model ELSE NoBackend
effective_backend == IF get_backend_by_name # NoBackend THEN get_backend_by_name ELSE get_backend

-----------------------------------------------------------------------------
(* Messages and blocks *)

Block(t, body) == [t |-> t, body |-> body]
BodiesIn(blocks, t) ==
    FlattenSeq([i \in 1..Len(blocks) |-> IF blocks[i].t = t THEN blocks[i].body ELSE <<>>])
Bodies(m, t) == BodiesIn(m.blocks, t)
Uses(m) == Bodies(m, "tool_use")
Results(m) == Bodies(m, "tool_result")
Given(t, body) == IF body = <<>> THEN <<>> ELSE <<Block(t, body)>>
Each(t, ids) == [i \in 1..Len(ids) |-> Block(t, <<ids[i]>>)]

UserMessage(blocks) == [role |-> "user", blocks |-> blocks]
AssistantMessage(blocks) == [role |-> "assistant", blocks |-> blocks]
Answer(ids) == UserMessage(Each("tool_result", ids))

\* The first reasoning in tags, and the text around it.
extract_thinking(content) ==
    LET open == {i \in DOMAIN content : content[i] = "<think>"}
        first == CHOOSE i \in open : \A j \in open : i <= j
        close == {i \in DOMAIN content : i > first /\ content[i] = "</think>"}
        last == CHOOSE i \in close : \A j \in close : i <= j
    IN  IF open = {} \/ close = {} THEN [thinking |-> <<>>, text |-> content]
        ELSE [thinking |-> SubSeq(content, first + 1, last - 1),
              text |-> SubSeq(content, 1, first - 1) \o SubSeq(content, last + 1, Len(content))]

strip_thinking(content) ==
    FlattenSeq([i \in 1..Len(content) |->
        IF content[i] \in {"<think>", "</think>"} THEN <<>> ELSE <<content[i]>>])

\* An OpenAI reply: the reasoning of the field, or else that of the tags.
parse_message_content_blocks(reply) ==
    IF reply.reasoning # <<>>
        THEN Given("thinking", reply.reasoning) \o Given("text", reply.content)
        ELSE LET parts == extract_thinking(reply.content)
             IN  Given("thinking", parts.thinking) \o Given("text", parts.text)

\* An Anthropic reply: its blocks in order.
parse_content_array(reply) ==
    Given("thinking", reply.reasoning) \o Given("text", strip_thinking(reply.content))

ContentBlocks(b, reply) ==
    (IF BackendType[b] = "anthropic" THEN parse_content_array(reply) ELSE parse_message_content_blocks(reply))
        \o Each("tool_use", reply.calls)

-----------------------------------------------------------------------------
(* The body of a request *)

WireMessage(role, content, reasoning, ids) ==
    [role |-> role, content |-> content, reasoning |-> reasoning, ids |-> ids]

ToolMessages(m) == [i \in 1..Len(Results(m)) |-> WireMessage("tool", <<>>, <<>>, <<Results(m)[i]>>)]
TextMessage(m) == IF Bodies(m, "text") = <<>> THEN <<>>
                  ELSE <<WireMessage("user", Bodies(m, "text"), <<>>, <<>>)>>

\* The text of a user message goes before its results.
UserTextFirst(m) == TextMessage(m) \o ToolMessages(m)

\* Results become messages of their own, before the text.
ConvertUser(m) == ToolMessages(m) \o TextMessage(m)

ConvertAssistant(m) ==
    <<WireMessage("assistant", Bodies(m, "text"), Bodies(m, "thinking"), Uses(m))>>

convert_extra_messages(msgs) ==
    FlattenSeq([i \in 1..Len(msgs) |->
        IF msgs[i].role = "assistant" THEN ConvertAssistant(msgs[i]) ELSE ConvertUser(msgs[i])])

\* Anthropic's messages are the thread's; the wire form only names their parts.
build_request_body(msgs) ==
    [i \in 1..Len(msgs) |->
        WireMessage(msgs[i].role, Bodies(msgs[i], "text"), Bodies(msgs[i], "thinking"),
                    IF msgs[i].role = "assistant" THEN Uses(msgs[i]) ELSE Results(msgs[i]))]

Request(b, msgs) ==
    [api |-> IF BackendType[b] = "anthropic" THEN "anthropic" ELSE "openai",
     messages |-> IF BackendType[b] = "anthropic" THEN build_request_body(msgs) ELSE convert_extra_messages(msgs)]

-----------------------------------------------------------------------------
(* The agent loop and the attempts of a request *)

LlmInit ==
    /\ conf \in [default : Backends, chat : Backends \cup {NoBackend}, broken : SUBSET Backends]
    /\ model = NoBackend /\ extra_messages = <<>> /\ call = NoCall /\ told = <<>>
    /\ request = [api |-> "none", messages |-> <<>>]

Idle == call.backend = NoBackend

SelectModel(b) == Idle /\ model # b /\ model' = b /\ UNCHANGED <<conf, extra_messages, call, request, told>>

\* Tool uses at the end of the thread are answered, and a query joins a user message.
Repair(msgs) ==
    IF msgs # <<>> /\ Uses(Last(msgs)) # <<>> THEN Append(msgs, Answer(Uses(Last(msgs)))) ELSE msgs
JoinQuery(msgs) ==
    LET query == <<Block("text", <<"q">>)>>
        tail == Last(msgs)
        marker == IF Results(tail) # <<>> /\ ~Contains(Bodies(tail, "text"), "interrupted")
                  THEN <<Block("text", <<"interrupted">>)>> ELSE <<>>
    IN  IF msgs # <<>> /\ tail.role = "user"
            THEN Append(Front(msgs), UserMessage(tail.blocks \o marker \o query))
            ELSE Append(msgs, UserMessage(query))

\* The next request of the turn; without any backend it fails at once.
Send(b, msgs) ==
    /\ extra_messages' = msgs
    /\ call' = [backend |-> b, attempt |-> 0, retries |-> 0]
    /\ request' = Request(b, msgs)

EndTurn(msg, said) ==
    /\ extra_messages' = Append(extra_messages, AssistantMessage(msg))
    /\ told' = Append(told, said)
    /\ call' = NoCall
    /\ UNCHANGED request

Silence == [reasoning |-> <<>>, content |-> <<>>, calls |-> <<>>]
Event == EndTurn(<<Block("text", <<"event">>)>>, Silence)

ChatMessage ==
    LET msgs == JoinQuery(Repair(extra_messages))
    IN  /\ Idle /\ Len(extra_messages) < MaxThread
        /\ effective_backend # NoBackend
        /\ Send(effective_backend, msgs)
        /\ UNCHANGED <<conf, model, told>>

\* UnavailableBackend: the query is stored and answered with an error.
ChatUnavailable ==
    /\ Idle /\ Len(extra_messages) < MaxThread /\ effective_backend = NoBackend
    /\ extra_messages' = Append(JoinQuery(Repair(extra_messages)), AssistantMessage(<<Block("text", <<"event">>)>>))
    /\ told' = Append(told, Silence)
    /\ UNCHANGED <<conf, model, call, request>>

Retry == call' = [call EXCEPT !.attempt = @ + 1] /\ UNCHANGED <<extra_messages, request, told>>

\* The agent loop sends the request again after a connection error.
ConnectionLost ==
    \/ call.retries < LoopRetries /\ call' = [call EXCEPT !.retries = @ + 1, !.attempt = 0] /\ UNCHANGED <<extra_messages, request, told>>
    \/ call.retries >= LoopRetries /\ Event

\* The request could not be sent.
ConnectError ==
    /\ ~Idle
    /\ IF call.attempt < MaxRetries THEN Retry ELSE ConnectionLost
    /\ UNCHANGED <<conf, model>>

\* 429, or 529 of Anthropic.
Overloaded ==
    /\ ~Idle
    /\ IF call.attempt < MaxRetries THEN Retry ELSE Event
    /\ UNCHANGED <<conf, model>>

\* The connection broke while the body was read.
BodyLost == ~Idle /\ ConnectionLost /\ UNCHANGED <<conf, model>>

\* Another status, or a body that is no JSON.
Rejected == ~Idle /\ Event /\ UNCHANGED <<conf, model>>

Says == [reasoning : {<<>>, <<"r">>}, calls : {<<>>, <<"c1", "c2">>},
         content : {<<>>, <<"t">>, <<"<think>", "r", "</think>", "t">>, <<"<think>", "r">>},
         finish : {"tool", "length", "stop"}]
Said(reply) == [reasoning |-> reply.reasoning, content |-> reply.content, calls |-> reply.calls]

\* The final message: its blocks when the model has reasoned, else its text alone.
FinalBlocks(blocks) ==
    IF \E i \in DOMAIN blocks : blocks[i].t = "thinking" THEN blocks
    ELSE <<Block("text", BodiesIn(blocks, "text"))>>

\* Tools run, or are interrupted; their results end the turn or open the next request.
ToolRound(blocks, reply, stopped) ==
    LET msgs == extra_messages \o <<AssistantMessage(blocks), Answer(reply.calls)>>
    IN  /\ Len(extra_messages) + 2 <= MaxThread
        /\ told' = Append(told, Said(reply))
        /\ IF stopped THEN extra_messages' = msgs /\ call' = NoCall /\ UNCHANGED request
                      ELSE Send(call.backend, msgs)

Reply(reply) ==
    LET blocks == ContentBlocks(call.backend, reply)
    IN  /\ ~Idle
        /\ \/ blocks = <<>> /\ reply.finish = "stop" /\ Event
           \/ reply.finish = "tool" /\ reply.calls = <<>> /\ Event
           \/ reply.finish = "tool" /\ reply.calls # <<>> /\ \E stopped \in BOOLEAN : ToolRound(blocks, reply, stopped)
           \/ reply.finish # "tool" /\ ~(blocks = <<>> /\ reply.finish = "stop")
              /\ EndTurn(FinalBlocks(blocks), [Said(reply) EXCEPT !.calls = <<>>])
        /\ UNCHANGED <<conf, model>>

LlmNext ==
    \/ \E b \in Backends : SelectModel(b)
    \/ ChatMessage \/ ChatUnavailable
    \/ ConnectError \/ Overloaded \/ BodyLost \/ Rejected
    \/ \E reply \in Says : Reply(reply)

LlmSpec == LlmInit /\ [][LlmNext]_llmVars

-----------------------------------------------------------------------------
(* Properties *)

Words(s, w) == Cardinality({i \in DOMAIN s : s[i] = w})

\* The assistant messages among the first i.
Assistants(wire, i) == Cardinality({j \in 1..i : wire[j].role = "assistant"})

\* Message m says what the API said in the reply.
SaysAgain(m, said) ==
    /\ said.calls # <<>> => m.ids = said.calls
    /\ \A w \in {"r", "t"} : Words(m.reasoning \o m.content, w) = Words(said.reasoning \o said.content, w)
    /\ said.reasoning # <<>> => m.reasoning = said.reasoning

\* What a model has said comes back to the model with every later request, whichever
\* API the thread has moved to: each word of its reasoning and of its text once, its
\* tool calls that were run, and reasoning that came in a field of its own in that field again.
RepliesKept ==
    \A i \in DOMAIN request.messages : request.messages[i].role = "assistant" =>
        LET k == Assistants(request.messages, i)
        IN  k \in DOMAIN told /\ SaysAgain(request.messages[i], told[k])

\* The calls of message i are answered by the message after it, or, in OpenAI's format,
\* by as many tool messages, in the order of the calls and no more.
Answered(api, wire, i) ==
    LET ids == wire[i].ids
    IN  IF api = "anthropic" THEN i < Len(wire) /\ wire[i + 1].ids = ids
        ELSE /\ \A k \in 1..Len(ids) : i + k <= Len(wire) /\ wire[i + k].role = "tool" /\ wire[i + k].ids = <<ids[k]>>
             /\ i + Len(ids) < Len(wire) => wire[i + Len(ids) + 1].role # "tool"

\* Every request answers the tool calls in it directly after the message that made
\* them, all of them and in order, whether the tools ran, were interrupted, or the
\* reply was cut off after the calls.
WireAnswersCalls ==
    \A i \in DOMAIN request.messages :
        request.messages[i].role = "assistant" => Answered(request.api, request.messages, i)

\* A thread keeps what the models said and is a request that either API accepts.
RequestsFaithful == RepliesKept /\ WireAnswersCalls
=============================================================================
