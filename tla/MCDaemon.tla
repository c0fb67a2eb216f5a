------------------------------ MODULE MCDaemon ------------------------------
(***************************************************************************)
(* Bounded instances of what the daemon's tasks share: the conversation    *)
(* threads and their claims, the configuration with its subscribers, and   *)
(* the registry of plugins.  The three share no variable, so a behaviour   *)
(* of their composition is an interleaving of behaviours of each; focus    *)
(* names the one that takes the steps.                                     *)
(***************************************************************************)
EXTENDS ChatThreads, ConfigSync, Plugins

VARIABLE focus

(* Both plugins have a tool s; the second one also claims a built-in name. *)
MCToolsOf == [p \in 1 .. 2 |-> IF p = 1 THEN {"a", "s"} ELSE {"s", "bash"}]

(* A component that is not in focus begins in one of its initial states.   *)
Author == CHOOSE s \in Sessions : TRUE
Unfocused ==
    /\ focus # "threads" => /\ pc = [s \in Sessions |-> "shell"]
                            /\ \A t \in Stored : file[t] = <<Query(Author), Answer(Author)>>
    /\ focus # "plugins" => toml = [p \in PluginDirs |-> TRUE] /\ Present = {}

DaemonInit ==
    /\ focus \in {"threads", "config", "plugins"}
    /\ Init /\ CfgInit /\ PlugInit
    /\ Unfocused

DaemonNext ==
    /\ UNCHANGED focus
    /\ focus # "threads" => UNCHANGED vars
    /\ focus # "config"  => UNCHANGED cfgVars
    /\ focus # "plugins" => UNCHANGED plugVars
    /\ \/ focus = "threads" /\ Next
       \/ focus = "config" /\ CfgNext
       \/ focus = "plugins" /\ PlugNext

DaemonSpec == DaemonInit /\ [][DaemonNext]_<<focus, vars, cfgVars, plugVars>>
=============================================================================
