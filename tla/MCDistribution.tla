--------------------------- MODULE MCDistribution ---------------------------
(***************************************************************************)
(* Bounded instances of what a daemon hands to its clients: releases of    *)
(* the program and the plugins.  The two share no variable; focus names    *)
(* the one that takes the steps, and only its steps are owed.              *)
(***************************************************************************)
EXTENDS Updates, PluginSync

VARIABLE focus

(* A client on a host of its own, with another platform than the daemon's. *)
MCHostOf     == [c \in UpdClients |-> "remote"]
MCPlatformOf == [h \in {"local", "remote"} |-> IF h = "local" THEN "linux" ELSE "mac"]

(* The archive that /plugin install unpacks: a tool without override.      *)
MCArchives == {[f \in PluginFiles |-> IF f = "tool" THEN "v1" ELSE Absent]}

DistInit ==
    /\ focus \in {"updates", "plugins"}
    /\ UpdInit /\ SyncInit
    /\ focus # "plugins" => tree = NoDir

DistNext ==
    \/ focus = "updates" /\ UpdNext /\ UNCHANGED <<focus, syncVars>>
    \/ focus = "plugins" /\ SyncNext /\ UNCHANGED <<focus, updVars>>

Upd(A)  == focus = "updates" /\ A
Plug(A) == focus = "plugins" /\ A

DistFairness ==
    /\ WF_updVars(Upd(GraceEnds)) /\ WF_updVars(Upd(JobStep))
    /\ \A h \in Hosts : WF_updVars(Upd(CooldownEnds(h)))
    /\ \A c \in UpdClients :
         /\ SF_updVars(Upd(UpdConnect(c))) /\ SF_updVars(Upd(PollUpdate(c)))
         /\ SF_updVars(Upd(exec_update(c)))
         /\ WF_updVars(Upd(ServerStep(c))) /\ WF_updVars(Upd(ReceiveChunk(c)))
         /\ WF_updVars(Upd(StreamEnds(c)))
         /\ WF_updVars(Upd(VerifyAndRename(c))) /\ WF_updVars(Upd(InstallUpdate(c)))
    /\ WF_syncVars(Plug(BuildStep)) /\ WF_syncVars(Plug(CoalesceEnds))
    /\ WF_syncVars(Plug(InstallStep))
    /\ SF_syncVars(Plug(PluginBundleTask))
    /\ \A s \in SyncIds :
         /\ WF_syncVars(Plug(sync_plugin_bundle(s))) /\ SF_syncVars(Plug(SyncCheck(s)))
         /\ WF_syncVars(Plug(SyncMove(s)))

DistSpec ==
    DistInit /\ [][DistNext]_<<focus, updVars, syncVars>> /\ DistFairness
=============================================================================
