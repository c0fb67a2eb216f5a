------------------------------ MODULE PluginSync ------------------------------
(***************************************************************************)
(* The daemon's plugins directory and its copies: plugin_install.rs and    *)
(* deploy.rs (background work started from the configuration menu, whose   *)
(* result is pushed as a notice), the cached bundle (plugin_bundle.rs,     *)
(* plugin_bundle_task.rs), and the client's sync_plugin_bundle, of which a *)
(* new task starts at every poll whether or not the last one has ended.    *)
(* A directory maps its files to contents, Absent for a file that is not   *)
(* there; a bundle is such a map and its checksum is the map itself.       *)
(***************************************************************************)
EXTENDS Integers, Sequences, FiniteSets

CONSTANTS SyncClients,   \* clients on other hosts
          SyncTasks,     \* bound: sync tasks of one client that may overlap
          PluginFiles,   \* files under plugins/, dotfiles excluded
          Archives,      \* archives a user may install: file -> content or Absent
          EditBound,     \* bound: edits and installs in the daemon's directory
          BreakBound     \* bound: failed builds and broken streams

CONSTANTS Absent, NoDir

VARIABLES tree,     \* the daemon's plugins directory
          bundle,   \* PluginBundler.state: the cached bundle, NoDir if none
          recent,   \* the last rebuild is less than REBUILD_COALESCE_MS ago
          build,    \* the rebuild that holds rebuild_lock
          inst,     \* the running install: files left to merge
          copy,     \* [client -> its plugins directory]
          sync,     \* [client, task -> sync_plugin_bundle]
          expected, \* [client -> notice kinds it expects]
          edits, breaks

syncVars == <<tree, bundle, recent, build, inst, copy, sync, expected, edits, breaks>>

SyncIds == SyncClients \X SyncTasks
Kinds == {"install_plugin", "add_client", "deploy_client"}
EmptyTree == [f \in PluginFiles |-> Absent]
Dir(t) == IF t = NoDir THEN EmptyTree ELSE t
NoBuild == [who |-> <<>>, left |-> {}, read |-> EmptyTree]
NoInstall == [left |-> {}, from |-> EmptyTree, client |-> "none"]
NoSync == [at |-> "none", mine |-> NoDir, want |-> NoDir, got |-> NoDir]
Break == breaks < BreakBound /\ breaks' = breaks + 1
EditDone == edits < EditBound /\ edits' = edits + 1

-----------------------------------------------------------------------------
(* The daemon's directory *)

\* The user changes or removes a file by hand.
EditFile(f, x) ==
    /\ EditDone /\ Dir(tree)[f] # x
    /\ tree' = [Dir(tree) EXCEPT ![f] = x]
    /\ UNCHANGED <<bundle, recent, build, inst, copy, sync, expected, breaks>>

\* fetch_bytes, extract_tar_gz and validate_structure: one top-level directory
\* with a tool.json; anything else is refused before plugins/ is touched.
validate_structure(a) == \E f \in PluginFiles : a[f] # Absent

\* broadcast_notice: every client gets the notice; one that expects its kind shows
\* it and expects it no longer (PendingNotices.consume), the others drop it.
broadcast_notice(k) == expected' = [c \in SyncClients |-> expected[c] \ {k}]

\* The menu's submit: the client expects a notice, the daemon starts the work.
spawn_install_plugin(c, a) ==
    /\ inst = NoInstall /\ EditDone
    /\ expected' = [expected EXCEPT ![c] = @ \cup {"install_plugin"}]
    /\ inst' = [left |-> IF validate_structure(a) THEN {f \in PluginFiles : a[f] # Absent} ELSE {},
                from |-> a, client |-> c]
    /\ UNCHANGED <<tree, bundle, recent, build, copy, sync, breaks>>

\* merge_recursive: one file after the other, files the archive lacks are kept.
merge_recursive(f) ==
    /\ f \in inst.left
    /\ tree' = [Dir(tree) EXCEPT ![f] = inst.from[f]]
    /\ inst' = [inst EXCEPT !.left = @ \ {f}]
    /\ UNCHANGED <<bundle, recent, build, copy, sync, expected, edits, breaks>>

\* Done, refused, failed or timed out: a notice either way; a copied file stays.
InstallEnds ==
    /\ inst # NoInstall
    /\ \/ inst.left = {} /\ UNCHANGED breaks
       \/ inst.left # {} /\ Break
    /\ inst' = NoInstall
    /\ broadcast_notice("install_plugin")
    /\ UNCHANGED <<tree, bundle, recent, build, copy, sync, edits>>

\* run_deploy ends within DEPLOY_TIMEOUT, well or not; the notice names the result.
spawn_deploy(c, k) ==
    /\ k # "install_plugin" /\ EditDone /\ k \notin expected[c]
    /\ expected' = [expected EXCEPT ![c] = @ \cup {k}]
    /\ UNCHANGED <<tree, bundle, recent, build, inst, copy, sync, breaks>>

DeployEnds(k) ==
    /\ k # "install_plugin" /\ \E c \in SyncClients : k \in expected[c]
    /\ broadcast_notice(k)
    /\ UNCHANGED <<tree, bundle, recent, build, inst, copy, sync, edits, breaks>>

-----------------------------------------------------------------------------
(* The cached bundle *)

\* walk: the files there are when the tar is begun.
walk(t) == {f \in PluginFiles : t[f] # Absent}

\* A caller of rebuild: the scheduled task, or the check of client task s.
StartRebuild(who) ==
    /\ build = NoBuild /\ ~recent
    /\ build' = IF tree = NoDir THEN [who |-> who, left |-> {}, read |-> NoDir]
                ELSE [who |-> who, left |-> walk(tree), read |-> EmptyTree]

\* encode_tar_gz opens one listed file after the other.
encode_tar_gz(f) ==
    /\ f \in build.left /\ Dir(tree)[f] # Absent
    /\ build' = [build EXCEPT !.left = @ \ {f}, !.read[f] = tree[f]]
    /\ UNCHANGED <<tree, bundle, recent, inst, copy, sync, expected, edits, breaks>>

Announce(s, sum) ==
    IF s \in SyncIds
    THEN sync' = [sync EXCEPT ![s] = IF sum # NoDir /\ sum # @.mine
                                     THEN [@ EXCEPT !.at = "ask", !.want = sum]
                                     ELSE NoSync]
    ELSE UNCHANGED sync

\* The tar is complete: it becomes the cache and the answer.
BuildDone ==
    /\ build # NoBuild /\ build.left = {}
    /\ bundle' = build.read /\ recent' = TRUE /\ build' = NoBuild
    /\ Announce(build.who, build.read)
    /\ UNCHANGED <<tree, inst, copy, expected, edits, breaks>>

\* A listed file is gone or unreadable: the old bundle stays and is the answer.
BuildFails ==
    /\ \E f \in build.left : Dir(tree)[f] = Absent
    /\ build' = NoBuild /\ Announce(build.who, bundle)
    /\ UNCHANGED <<tree, bundle, recent, inst, copy, expected, edits, breaks>>

\* PluginBundleTask, every five minutes.
PluginBundleTask ==
    /\ StartRebuild(<<"task">>)
    /\ UNCHANGED <<tree, bundle, recent, inst, copy, sync, expected, edits, breaks>>

CoalesceEnds ==
    /\ recent /\ recent' = FALSE
    /\ UNCHANGED <<tree, bundle, build, inst, copy, sync, expected, edits, breaks>>

-----------------------------------------------------------------------------
(* The client's sync task *)

\* build_bundle of the local directory, then PluginSyncCheck.
sync_plugin_bundle(s) ==
    /\ sync[s].at = "none"
    /\ sync' = [sync EXCEPT ![s] = [NoSync EXCEPT !.at = "check", !.mine = copy[s[1]]]]
    /\ UNCHANGED <<tree, bundle, recent, build, inst, copy, expected, edits, breaks>>

\* The cache agrees with the client: no rebuild, nothing to do.
CheckAgrees(s) ==
    /\ sync[s].at = "check" /\ bundle = sync[s].mine
    /\ sync' = [sync EXCEPT ![s] = NoSync]
    /\ UNCHANGED <<tree, bundle, recent, build, inst, copy, expected, edits, breaks>>

\* It disagrees: rebuild first; a rebuild that is only just over counts as this one.
CheckRebuilds(s) ==
    /\ sync[s].at = "check" /\ bundle # sync[s].mine
    /\ StartRebuild(s) /\ sync' = [sync EXCEPT ![s].at = "building"]
    /\ UNCHANGED <<tree, bundle, recent, inst, copy, expected, edits, breaks>>
CheckCoalesces(s) ==
    /\ sync[s].at = "check" /\ bundle # sync[s].mine
    /\ build = NoBuild /\ recent /\ Announce(s, bundle)
    /\ UNCHANGED <<tree, bundle, recent, build, inst, copy, expected, edits, breaks>>

\* The request streams the bundle of that moment; another checksum than the one
\* announced, a missing bundle or a broken stream ends the task.
download_plugin_bundle(s) ==
    /\ sync[s].at = "ask"
    /\ sync' = [sync EXCEPT ![s] = IF bundle = @.want THEN [@ EXCEPT !.at = "unpack", !.got = bundle]
                                   ELSE NoSync]
    /\ UNCHANGED <<tree, bundle, recent, build, inst, copy, expected, edits, breaks>>

StreamBreaks(s) ==
    /\ sync[s].at = "ask" /\ sync' = [sync EXCEPT ![s] = NoSync] /\ Break
    /\ UNCHANGED <<tree, bundle, recent, build, inst, copy, expected, edits>>

\* unpack overwrites the files of the bundle ...
extract_and_mirror_plugins(s) ==
    /\ sync[s].at = "unpack"
    /\ copy' = [copy EXCEPT ![s[1]] = [f \in PluginFiles |->
                   IF sync[s].got[f] # Absent THEN sync[s].got[f] ELSE Dir(@)[f]]]
    /\ sync' = [sync EXCEPT ![s].at = "mirror"]
    /\ UNCHANGED <<tree, bundle, recent, build, inst, expected, edits, breaks>>

\* A mirror that leaves the files the bundle does not have.
mirror_keep(s) ==
    /\ sync[s].at = "mirror" /\ sync' = [sync EXCEPT ![s] = NoSync]
    /\ UNCHANGED <<tree, bundle, recent, build, inst, copy, expected, edits, breaks>>

\* ... and mirror_delete removes what the bundle does not have.
mirror_delete(s) ==
    /\ sync[s].at = "mirror"
    /\ copy' = [copy EXCEPT ![s[1]] = [f \in PluginFiles |->
                   IF sync[s].got[f] = Absent THEN Absent ELSE @[f]]]
    /\ sync' = [sync EXCEPT ![s] = NoSync]
    /\ UNCHANGED <<tree, bundle, recent, build, inst, expected, edits, breaks>>

-----------------------------------------------------------------------------
SyncInit ==
    /\ tree \in {NoDir, EmptyTree} \cup Archives /\ bundle = NoDir /\ recent = FALSE
    /\ build = NoBuild /\ inst = NoInstall
    /\ copy = [c \in SyncClients |-> NoDir]
    /\ sync = [s \in SyncIds |-> NoSync]
    /\ expected = [c \in SyncClients |-> {}]
    /\ edits = 0 /\ breaks = 0

BuildStep == BuildDone \/ BuildFails \/ \E f \in PluginFiles : encode_tar_gz(f)
SyncCheck(s) == CheckAgrees(s) \/ CheckRebuilds(s) \/ CheckCoalesces(s)
SyncMove(s) == \/ download_plugin_bundle(s) \/ StreamBreaks(s)
               \/ extract_and_mirror_plugins(s) \/ mirror_delete(s)
InstallStep == InstallEnds \/ \E f \in PluginFiles : merge_recursive(f)
UserStep == \/ \E f \in PluginFiles, x \in {Absent, "edited"} : EditFile(f, x)
            \/ \E c \in SyncClients, a \in Archives : spawn_install_plugin(c, a)
            \/ \E c \in SyncClients, k \in Kinds : spawn_deploy(c, k)

SyncNext == \/ UserStep \/ InstallStep \/ BuildStep \/ PluginBundleTask \/ CoalesceEnds
            \/ \E k \in Kinds : DeployEnds(k)
            \/ \E s \in SyncIds : sync_plugin_bundle(s) \/ SyncCheck(s) \/ SyncMove(s)

\* Timers fire, tasks and the holder of the lock go on; a check may lose the
\* lock to other callers again and again, but is served (the mutex is fair).
SyncFairness ==
    /\ WF_syncVars(BuildStep) /\ WF_syncVars(CoalesceEnds) /\ WF_syncVars(InstallStep)
    /\ SF_syncVars(PluginBundleTask)
    /\ \A s \in SyncIds : /\ WF_syncVars(sync_plugin_bundle(s))
                          /\ SF_syncVars(SyncCheck(s)) /\ WF_syncVars(SyncMove(s))

SyncSpec == SyncInit /\ [][SyncNext]_syncVars /\ SyncFairness

-----------------------------------------------------------------------------
\* Once nobody edits the daemon's plugins any more, every client's directory
\* becomes and stays its mirror, whatever tasks, rebuilds and stale bundles were
\* under way (PluginSyncCheck, rebuild, sync_plugin_bundle).
PluginsConverge == <>[](tree # NoDir => \A c \in SyncClients : copy[c] = tree)
=============================================================================
