----------------------------- MODULE MCTerminal -----------------------------
(* Bounded instances of Terminal.                                          *)
EXTENDS Terminal

Up == <<"esc", "[", "A">>
Paste == <<"esc", "[", "200", "~", "b", "esc", "[", "201", "~">>
CursorReport == <<"esc", "[", "n", "R">>

MCPresses ==
    {<<":">>, <<"a">>, <<"esc">>, <<"cr">>, <<"tab">>, <<"bs">>, <<"^r">>, <<"u1", "u2">>,
     Up, Paste, CursorReport}

ShortPresses == {<<":">>, <<"a">>}

MCTexts == {<<"a", "a">>}

MCSettings ==
    {[prefix |-> <<"a">>, developer |-> TRUE, complete |-> TRUE],
     [prefix |-> <<":">>, developer |-> FALSE, complete |-> FALSE]}
=============================================================================
