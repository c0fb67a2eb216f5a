----------------------------- MODULE MCExchange -----------------------------
(***************************************************************************)
(* Bounded instances of the components between the user's terminal and     *)
(* the model's API: the command tracker, the chat editor, the widgets, the *)
(* context builder, the tools, the backends, the notes and the repair of   *)
(* stored threads.  They share no variable, so a behaviour of their        *)
(* composition is an interleaving of behaviours of each; focus names the   *)
(* one that takes the steps, and the others stay where they begin.         *)
(***************************************************************************)
EXTENDS Tracker, ChatInput, Widgets, Context, Tools, Llm, Notes, MCConversation

VARIABLE focus

Focus == {"tracker", "input", "widgets", "context", "tools", "llm", "notes", "repair"}

-----------------------------------------------------------------------------
(* A command line and a directory with the separators of the marks.        *)
MCText == [c1 |-> <<"\\", ";", "a">>]
MCDir  == [c1 |-> <<"/", ";">>]

MCSlash == {<<"x", "x">>}

(* Sessions in one directory.                                              *)
MCDirOf == [s \in CtxSessions |-> "home"]

MCTypes == [a |-> "anthropic", o |-> "openai-compat"]

(* Pairs of tool calls of one turn: an edit beside a write of the same     *)
(* file, every reading tool beside a write, and two calls of tools that    *)
(* run elsewhere, whose results go through the formatter.                  *)
Lines(lo, hi) == UNION {[1 .. n -> {"a", "b"}] : n \in lo .. hi}
Pair(a, b)    == "c1" :> a @@ "c2" :> b
Writing == [tool |-> "write", new |-> <<"a">>]
Edits   == [tool : {"edit"}, old : Lines(1, 2), new : Lines(0, 2), all : BOOLEAN]
Reading == [tool : {"read", "grep"}, offset : 0 .. 2, limit : 0 .. 2]
              \cup [tool : {"bash"}, output : 0 .. 4, endless : BOOLEAN]
              \cup [tool : {"glob"}]
Foreign == [tool : {"plugin", "daemon"}]
MCTurns ==
    {[text |-> s, req |-> Pair(e, Writing)] : s \in Lines(1, 4), e \in Edits}
       \cup {[text |-> <<"a", "b", "a">>, req |-> Pair(r, Writing)] : r \in Reading}
       \cup {[text |-> <<"a">>, req |-> Pair(r, q)] : r \in Foreign, q \in Foreign}
MCMatches == <<1, 0, 2>>
MCSandbox == {[enabled |-> TRUE, preferred |-> "bwrap", global |-> {"bash"}, local |-> {"edit"}]}

-----------------------------------------------------------------------------
(* A component that is not in focus begins in one of its initial states.   *)
Unfocused ==
    /\ focus # "tracker" => shell.hook
    /\ focus # "tools" => /\ text = <<"a">>
                          /\ \A c \in ToolCalls : tcall[c].req.tool = "daemon"
    /\ focus # "llm" => conf = [default |-> "a", chat |-> NoBackend, broken |-> {}]

ExchangeInit ==
    /\ focus \in Focus
    /\ TrackInit /\ InputInit /\ WidgetInit /\ CtxInit /\ ToolInit /\ LlmInit
    /\ NotesInit /\ Init
    /\ Unfocused

On(c, A) == focus = c /\ A

ExchangeNext ==
    /\ UNCHANGED focus
    /\ focus # "tracker" => UNCHANGED trackVars
    /\ focus # "input"   => UNCHANGED inputVars
    /\ focus # "widgets" => UNCHANGED widgetVars
    /\ focus # "context" => UNCHANGED ctxVars
    /\ focus # "tools"   => UNCHANGED toolVars
    /\ focus # "llm"     => UNCHANGED llmVars
    /\ focus # "notes"   => UNCHANGED notesVars
    /\ focus # "repair"  => UNCHANGED thread
    /\ \/ On("tracker", TrackNext)
       \/ On("input", InputNext)
       \/ On("widgets", WidgetNext)
       \/ On("context", CtxNext)
       \/ On("tools", ToolNext)
       \/ On("llm", LlmNext)
       \/ On("notes", NotesNext)
       \/ On("repair", Next)

exchangeVars == <<focus, trackVars, inputVars, widgetVars, ctxVars, toolVars, llmVars,
                  notesVars, thread>>

ExchangeSpec == ExchangeInit /\ [][ExchangeNext]_exchangeVars
=============================================================================
