------------------------------- MODULE Plugins -------------------------------
(***************************************************************************)
(* The daemon's plugins: PluginManager (plugin.rs) with its hot reload and *)
(* the ToolRegistry it feeds.  Two tasks run rescan: watch_with, woken by  *)
(* the file watcher, and the subscriber of [plugins] in daemon.toml.  Both *)
(* list the directory and copy the enabled flags before they take the      *)
(* manager's locks, so what they apply may be stale.  Plugin directories   *)
(* are numbered in the order of their names; the description of a tool is  *)
(* the version of the override file it comes from, 0 for tool.json's own.  *)
(***************************************************************************)
EXTENDS Integers, FiniteSets, Functions

CONSTANTS PluginCount,   \* plugin directories 1..PluginCount
          ToolsOf,       \* [plugin -> the tools its tool.json declares]
          BuiltinTools,  \* tools embedded in the daemon
          ChangeLimit    \* bound: changes of the disk and of daemon.toml

ASSUME PluginShape == /\ PluginCount \in Nat \ {0}
                      /\ DOMAIN ToolsOf = 1..PluginCount
                      /\ ChangeLimit \in Nat

VARIABLES onDisk,   \* [plugin -> directory present, state of tool.json, override version]
          inode,    \* directories whose present inode has an inotify watch
          toml,     \* enabled flags of daemon.toml
          pm,       \* PluginManager
          reg,      \* ToolRegistry
          woken,    \* receivers with a change they have not seen
          scan,     \* [task -> its place in rescan and what it has read]
          changes   \* changes so far

plugVars == <<onDisk, inode, toml, pm, reg, woken, scan, changes>>

PluginDirs == 1..PluginCount
ScanTasks == {"files", "toml"}
Builtin == 0
NoTools == [t \in {} |-> Builtin]
Resting == [at |-> "idle", listed |-> {}, flags |-> [p \in PluginDirs |-> TRUE], descs |-> NoTools]
Change == changes < ChangeLimit /\ changes' = changes + 1
Present == {p \in PluginDirs : onDisk[p].here}
Owners(slots) == [t \in UNION Range(slots) |-> CHOOSE p \in PluginDirs : t \in slots[p]]
Readable(p) == onDisk[p].here /\ onDisk[p].json = "ok"

-----------------------------------------------------------------------------
(* The tool registry *)

\* The entries of f replace those of g, as extending a HashMap does.
Over(f, g) == [t \in DOMAIN f \cup DOMAIN g |-> IF t \in DOMAIN f THEN f[t] ELSE g[t]]

register(tools, gained) == Over(Owners(gained), tools)
Forget(f, ts) == Restrict(f, DOMAIN f \ ts)

\* Tools, definitions and descriptions go; the parameter overrides stay.
unregister_by_plugin(r, gone) ==
    LET names == {t \in DOMAIN r.tools : r.tools[t] \in gone}
    IN  [tools |-> Forget(r.tools, names), descs |-> Forget(r.descs, names)]

\* The definitions a prompt holds, with the description in force.
all_defs == [t \in DOMAIN reg.tools |-> IF t \in DOMAIN reg.descs THEN reg.descs[t] ELSE 0]

-----------------------------------------------------------------------------
(* Loading *)

\* A name an earlier plugin declared, or one in the index, is skipped.
Gains(p, earlier, taken) ==
    {t \in ToolsOf[p] \ taken : \A q \in earlier : t \notin ToolsOf[q]}

\* At startup: the built-in tools, then the directories sorted by name; a
\* disabled plugin keeps an entry without tools.
load(disk, flags) ==
    LET valid == {p \in PluginDirs : disk[p].here /\ disk[p].json = "ok"}
        live == {p \in valid : flags[p]}
        slots == [p \in PluginDirs |-> IF p \in live
                                       THEN Gains(p, {q \in live : q < p}, BuiltinTools) ELSE {}]
    IN  [known |-> valid, slots |-> slots,
         index |-> Over(Owners(slots), [t \in BuiltinTools |-> Builtin]),
         flags |-> flags, seen |-> {}, cache |-> NoTools]

register_all(m) == [tools |-> m.index, descs |-> m.cache]

\* The override files of the loaded plugins; a directory that is gone has none.
Descriptions == [t \in DOMAIN pm.index |->
                    IF pm.index[t] # Builtin /\ onDisk[pm.index[t]].here
                    THEN onDisk[pm.index[t]].override ELSE 0]

-----------------------------------------------------------------------------
(* The disk and daemon.toml *)

\* FileWatcher::run: an event of any watched directory wakes every directory receiver.
Notify(p) == woken' = IF p = Builtin \/ p \in inode THEN woken \cup {"files"} ELSE woken

MakeDir(p) ==
    /\ Change /\ ~onDisk[p].here
    /\ onDisk' = [onDisk EXCEPT ![p] = [here |-> TRUE, json |-> "missing", override |-> 0]]
    /\ Notify(Builtin) /\ UNCHANGED <<inode, toml, pm, reg, scan>>

\* The watch goes with the inode.
RemoveDir(p) ==
    /\ Change /\ onDisk[p].here
    /\ onDisk' = [onDisk EXCEPT ![p] = [here |-> FALSE, json |-> "missing", override |-> 0]]
    /\ inode' = inode \ {p}
    /\ Notify(Builtin) /\ UNCHANGED <<toml, pm, reg, scan>>

WriteToolJson(p, x) ==
    /\ Change /\ onDisk[p].here /\ onDisk[p].json # x
    /\ onDisk' = [onDisk EXCEPT ![p].json = x]
    /\ Notify(p) /\ UNCHANGED <<inode, toml, pm, reg, scan>>

WriteOverride(p) ==
    /\ Change /\ onDisk[p].here
    /\ onDisk' = [onDisk EXCEPT ![p].override = @ + 1]
    /\ Notify(p) /\ UNCHANGED <<inode, toml, pm, reg, scan>>

\* daemon.toml lies in a directory the same watcher watches: both tasks wake.
EditToml(p) ==
    /\ Change
    /\ toml' = [toml EXCEPT ![p] = ~@]
    /\ woken' = woken \cup {"files", "toml"}
    /\ UNCHANGED <<onDisk, inode, pm, reg, scan>>

-----------------------------------------------------------------------------
(* Reconciliation *)

\* watch_with: the change is seen, then 500 ms pass.
watch_with ==
    /\ "files" \in woken /\ scan["files"].at = "idle"
    /\ woken' = woken \ {"files"}
    /\ scan' = [scan EXCEPT !["files"].at = "settle"]
    /\ UNCHANGED <<onDisk, inode, toml, pm, reg, changes>>

\* The events of those 500 ms are dropped before rescan lists the directory.
Debounced ==
    /\ scan["files"].at = "settle"
    /\ woken' = woken \ {"files"}
    /\ scan' = [scan EXCEPT !["files"].at = "list"]
    /\ UNCHANGED <<onDisk, inode, toml, pm, reg, changes>>

\* The subscriber of [plugins]: the flags are mirrored, then rescan runs.
HotReload ==
    /\ "toml" \in woken /\ scan["toml"].at = "idle"
    /\ woken' = woken \ {"toml"}
    /\ pm' = [pm EXCEPT !.flags = toml]
    /\ scan' = [scan EXCEPT !["toml"].at = "list"]
    /\ UNCHANGED <<onDisk, inode, toml, reg, changes>>

ListDir(k) ==
    /\ scan[k].at = "list"
    /\ scan' = [scan EXCEPT ![k].at = "copy", ![k].listed = Present]
    /\ UNCHANGED <<onDisk, inode, toml, pm, reg, woken, changes>>

\* The watcher's task watches directories it has not seen before; both copy the
\* flags and forget the marks of directories that were not listed.
WatchNew(k) ==
    /\ scan[k].at = "copy"
    /\ LET fresh == IF k = "files" THEN scan[k].listed \ pm.seen ELSE {}
       IN /\ inode' = inode \cup (fresh \cap Present)
          /\ pm' = [pm EXCEPT !.seen = (@ \cup fresh) \cap scan[k].listed]
    /\ scan' = [scan EXCEPT ![k].at = "apply", ![k].flags = pm.flags]
    /\ UNCHANGED <<onDisk, toml, reg, woken, changes>>

\* Loaded plugins whose directory was not listed or whose flag was off.
Unloads(k) == {p \in PluginDirs : /\ pm.slots[p] # {}
                                  /\ p \notin scan[k].listed \/ ~scan[k].flags[p]}

\* The names of an unloaded plugin leave the index.
IndexKept(gone) == pm.index
IndexWithout(gone) == Forget(pm.index, UNION {pm.slots[p] : p \in gone})

\* Directories with a readable tool.json and no tools loaded, in read_dir's order.
Loads(k, gone) == {p \in scan[k].listed : Readable(p) /\ (pm.slots[p] = {} \/ p \in gone)}

\* rescan under the write locks of the manager.
rescan(k, rank) ==
    LET gone == Unloads(k)
        loading == {p \in Loads(k, gone) : scan[k].flags[p]}
        index == IndexWithout(gone)
        Before(p) == {q \in loading : rank[q] < rank[p]}
        gained == [p \in PluginDirs |-> IF p \in loading THEN Gains(p, Before(p), DOMAIN index)
                                        ELSE {}]
        rest == unregister_by_plugin(reg, gone)
    IN  /\ pm' = [pm EXCEPT !.known = @ \cup Loads(k, gone),
                            !.slots = [p \in PluginDirs |-> IF p \in loading THEN gained[p]
                                                            ELSE IF p \in gone THEN {} ELSE @[p]],
                            !.index = Over(Owners(gained), index)]
        /\ reg' = [rest EXCEPT !.tools = register(@, gained)]

Reconcile(k) ==
    /\ scan[k].at = "apply"
    /\ \E rank \in Injection(PluginDirs, PluginDirs) : rescan(k, rank)
    /\ scan' = [scan EXCEPT ![k] = IF k = "files" THEN [Resting EXCEPT !.at = "reload"] ELSE Resting]
    /\ UNCHANGED <<onDisk, inode, toml, woken, changes>>

\* The registry hears of the overrides only if they differ from the cached ones.
reload_overrides ==
    /\ scan["files"].at = "reload"
    /\ pm' = [pm EXCEPT !.cache = Descriptions]
    /\ scan' = [scan EXCEPT !["files"] = IF Descriptions = pm.cache THEN Resting
                                         ELSE [Resting EXCEPT !.at = "update", !.descs = Descriptions]]
    /\ UNCHANGED <<onDisk, inode, toml, reg, woken, changes>>

update_overrides ==
    /\ scan["files"].at = "update"
    /\ reg' = [reg EXCEPT !.descs = scan["files"].descs]
    /\ scan' = [scan EXCEPT !["files"] = Resting]
    /\ UNCHANGED <<onDisk, inode, toml, pm, woken, changes>>

-----------------------------------------------------------------------------

PlugInit ==
    /\ onDisk \in [PluginDirs -> {[here |-> FALSE, json |-> "missing", override |-> 0],
                                  [here |-> TRUE, json |-> "ok", override |-> 0]}]
    /\ toml \in [PluginDirs -> BOOLEAN]
    /\ LET m == load(onDisk, toml)
       IN /\ pm = [m EXCEPT !.seen = Present, !.cache = [t \in DOMAIN m.index |-> 0]]
          /\ reg = register_all(pm)
    /\ inode = Present
    /\ woken = {} /\ scan = [k \in ScanTasks |-> Resting] /\ changes = 0

PlugNext ==
    \/ \E p \in PluginDirs : MakeDir(p) \/ RemoveDir(p) \/ WriteOverride(p) \/ EditToml(p)
    \/ \E p \in PluginDirs, x \in {"bad", "ok"} : WriteToolJson(p, x)
    \/ watch_with \/ Debounced \/ HotReload
    \/ \E k \in ScanTasks : ListDir(k) \/ WatchNew(k) \/ Reconcile(k)
    \/ reload_overrides \/ update_overrides

PlugSpec == PlugInit /\ [][PlugNext]_plugVars

AtRest == woken = {} /\ \A k \in ScanTasks : scan[k].at = "idle"

\* The registry the prompts and the tool calls are made from, the index and the
\* plugins' own lists name the same owner for every tool, whatever order the two
\* tasks unload and load in and however often a name is declared.
RegistryAgrees ==
    /\ reg.tools = pm.index
    /\ \A p \in PluginDirs : pm.slots[p] = {t \in DOMAIN pm.index : pm.index[t] = p}

\* Once every change is handled, no tool of a plugin whose directory is gone is
\* offered, also when a scan listed the directory before it was removed.
VanishedUnloaded ==
    AtRest => \A p \in PluginDirs : ~onDisk[p].here => p \notin Range(reg.tools)

\* What the model is offered has an owner that is installed, and only one.
RegistrySound == RegistryAgrees /\ VanishedUnloaded

\* Once every change is handled, a plugin that daemon.toml disables offers no tool,
\* whichever of the two tasks ran first (violated: the watcher's task may have
\* copied the flags before they changed and load the plugin after it was unloaded).
PathsConverge ==
    AtRest => \A p \in PluginDirs : ~toml[p] => p \notin Range(reg.tools)

=============================================================================
