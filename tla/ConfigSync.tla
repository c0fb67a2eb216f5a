----------------------------- MODULE ConfigSync -----------------------------
(***************************************************************************)
(* daemon.toml and everything that follows it: the /config menus that edit *)
(* it, the watcher that re-reads it, the tasks of the daemon that hold a   *)
(* copy of a section, and the clients the [client] section is pushed to.   *)
(*                                                                         *)
(* A configuration is a record of the five watched sections.  Every edit   *)
(* writes a fresh number, the value 0 is the default, and a permit rule is *)
(* the number of the edit that wrote it.  std::fs::write empties the file  *)
(* and then fills it, so a reader may meet an empty document, which parses *)
(* as the default configuration.                                           *)
(***************************************************************************)
EXTENDS Naturals, Sequences, FiniteSets, SequencesExt

CONSTANTS Watched,        \* the sections an instance follows, of the five
          Clients,        \* clients of the daemon; they share one client.toml
          Settings,       \* settings of the [client] section
          Backends,       \* names a backend of [llm] may have
          EditOps,        \* the menu operations the users choose from
          EditLimit,      \* bound: the last edit's number; the first is 2
          ConnectLimit    \* bound: reconnections

\* The daemon follows all five; an instance may leave out engines' sections.
ASSUME WatchedSections ==
    /\ Watched \subseteq {"sandbox", "llm", "plugins", "tasks", "client"}
    /\ "client" \in Watched

NoHolder == "nobody"
Engines == Watched \ {"client"}

VARIABLES daemonToml, \* content of daemon.toml
          event,     \* inotify saw the file closed after writing
          dirty,     \* the reload task was woken
          current,   \* ConfigWatcher.current
          chan,      \* per section: the snapshot in its watch channel
          unseen,    \* receivers that have not taken their channel's snapshot
          dc,        \* daemon_config_arc, what ConfigQuery answers from
          engine,    \* per engine: the section it runs with
          prev,      \* the push task's last [client] section
          lock,      \* holder of daemon.toml.lock, NoHolder if free
          handler,   \* per client: its ConfigUpdate in the daemon
          menu,      \* per client: its /config menu
          conn,      \* per client: [up, full, raced]
          queue,     \* per client: pushed settings on their way
          view,      \* per client: the settings it runs with
          jobs,      \* cache writes spawned by apply_client_config_changes
          cache,     \* client.toml: cached settings, sandbox switch, local rules
          local,     \* per client: sandbox switch and rules in memory (sandbox_state)
          edits,     \* edits made so far
          connects   \* reconnections so far

cfgVars == <<daemonToml, event, dirty, current, chan, unseen, dc, engine, prev, lock,
             handler, menu, conn, queue, view, jobs, cache, local, edits, connects>>
daemonVars == <<event, dirty, current, chan, unseen, dc, engine, prev>>
linkVars == <<conn, queue, view, jobs, connects>>

\* The configuration of an empty document.
DefaultConfig ==
    [sandbox |-> <<>>, llm |-> [b \in Backends |-> 0], plugins |-> 0,
     tasks |-> 0, client |-> [s \in Settings |-> 0]]

\* What the daemon was started with: everything was edited once.
InitialConfig ==
    [sandbox |-> <<1>>, llm |-> [b \in Backends |-> 1], plugins |-> 1,
     tasks |-> 1, client |-> [s \in Settings |-> 1]]

Receivers == {<<"sync", s>> : s \in Watched} \cup {<<"engine", s>> : s \in Engines}
             \cup {<<"push", "client">>}

NoOp     == <<"none", 0>>
NoUpdate == [pc |-> "idle", op |-> NoOp, doc |-> DefaultConfig]
NoMenu   == [open |-> FALSE, initial |-> <<>>, items |-> <<>>, shown |-> {}]

CfgInit ==
    /\ daemonToml = InitialConfig /\ current = InitialConfig /\ dc = InitialConfig
    /\ chan = [s \in Watched |-> InitialConfig]
    /\ engine = [s \in Engines |-> InitialConfig[s]]
    /\ prev = InitialConfig.client
    /\ event = FALSE /\ dirty = FALSE /\ unseen = {} /\ lock = NoHolder
    /\ handler = [c \in Clients |-> NoUpdate]
    /\ menu = [c \in Clients |-> NoMenu]
    /\ conn = [c \in Clients |-> [up |-> FALSE, full |-> FALSE, raced |-> FALSE]]
    /\ queue = [c \in Clients |-> <<>>]
    /\ view = [c \in Clients |-> DefaultConfig.client]
    /\ jobs = {}
    /\ cache = [settings |-> DefaultConfig.client, enabled |-> TRUE, rules |-> <<>>]
    /\ local = [c \in Clients |-> [enabled |-> TRUE, rules |-> <<>>]]
    /\ edits = 1 /\ connects = 0

-----------------------------------------------------------------------------
(* What a menu shows: items keyed by their path.                            *)

SettingItems(cfg) == [p \in {<<"client", s>> : s \in Settings} |-> cfg.client[p[2]]]

\* One form per configured backend.
BackendItems(cfg) ==
    [p \in {<<"llm", b>> : b \in {x \in Backends : cfg.llm[x] # 0}} |-> cfg.llm[p[2]]]

\* The enabled toggle and the parameters of the plugins, default when not set.
build_plugin_items(cfg) == [p \in {<<"plugins", "all">>} |-> cfg.plugins]

\* The rules travel as one data item, which the client expands by index.
build_rules_json(cfg) == cfg.sandbox

RulesItem == <<"rules", "json">>
build_config_items(cfg) ==
    SettingItems(cfg) @@ BackendItems(cfg) @@ build_plugin_items(cfg)
    @@ (RulesItem :> build_rules_json(cfg))

\* The client takes the data item out again.
extract_global_rules(items) ==
    [items |-> [p \in DOMAIN items \ {RulesItem} |-> items[p]], rules |-> items[RulesItem]]

\* One form per rule, carrying the rule's index.
rule_form_fields(scope, rs) == [p \in {<<scope, i>> : i \in DOMAIN rs} |-> rs[p[2]]]

\* Forms for the global rules first, then for this client's local rules.
sandbox_local_rule_items(global, own) ==
    rule_form_fields("global", global) @@ rule_form_fields("local", own)

\* The client's own switches, from its memory.
sandbox_config_items(mem) == [p \in {<<"sandbox", "enabled">>} |-> mem.enabled]

\* The daemon's items with the client's placeholders expanded.
expand_client_placeholders(cfg, mem) ==
    LET ex == extract_global_rules(build_config_items(cfg))
    IN  ex.items @@ sandbox_config_items(mem) @@ sandbox_local_rule_items(ex.rules, mem.rules)

\* The paths whose value changed, went away or is new.
compute_config_diff(old, new) ==
    {p \in DOMAIN old \cup DOMAIN new :
        p \notin DOMAIN old \/ p \notin DOMAIN new \/ old[p] # new[p]}

-----------------------------------------------------------------------------
(* Edits of a document.  An operation is <<kind, argument>>.                *)

\* The handler a change is routed to by its path; "plain" for a value.
resolve_dynamic_handler(op) ==
    CASE op[1] = "add_rule"                        -> "add_global_rule"
      [] op[1] \in {"edit_rule", "delete_rule"}    -> "edit_global_rule"
      [] op[1] \in {"backend", "delete_backend"}   -> "edit_backend"
      [] op[1] = "add_backend"                     -> "add_backend"
      [] OTHER                                     -> "plain"

\* What goes through with_locked_doc; everything else reads and writes with no
\* lock.
TakesLock(op) == op[1] \in {"add_rule", "edit_rule", "delete_rule", "delete_backend"}

\* set_toml_value_nested: the parents of the key are created when missing, so
\* a field of a deleted backend brings the backend back.
set_toml_nested_in_doc(doc, op, v) ==
    CASE op[1] = "set"     -> [doc EXCEPT !.client[op[2]] = v]
      [] op[1] = "plugin"  -> [doc EXCEPT !.plugins = v]
      [] op[1] = "task"    -> [doc EXCEPT !.tasks = v]
      [] OTHER             -> [doc EXCEPT !.llm[op[2]] = v]

append_to_toml_array(doc, v) == [doc EXCEPT !.sandbox = Append(@, v)]
replace_in_toml_array(doc, i, v) == [doc EXCEPT !.sandbox[i] = v]
remove_from_toml_array(doc, i) == [doc EXCEPT !.sandbox = RemoveAt(@, i)]
remove_toml_table(doc, b) == [doc EXCEPT !.llm[b] = 0]

\* An index past the end of the array is an error, and nothing is written.
InBounds(doc, op) ==
    op[1] \in {"edit_rule", "delete_rule"} => op[2] \in DOMAIN doc.sandbox

handle_add_global_rule(doc, v) == append_to_toml_array(doc, v)

handle_edit_global_rule(doc, op, v) ==
    IF op[1] = "delete_rule" THEN remove_from_toml_array(doc, op[2])
    ELSE replace_in_toml_array(doc, op[2], v)

handle_edit_backend(doc, op, v) ==
    IF op[1] = "delete_backend" THEN remove_toml_table(doc, op[2])
    ELSE set_toml_nested_in_doc(doc, op, v)

\* Fields are set one by one: a backend of that name is overwritten.
handle_add_backend(doc, op, v) == set_toml_nested_in_doc(doc, op, v)

apply_config_changes(doc, op, v) ==
    LET handler_name == resolve_dynamic_handler(op)
    IN  CASE handler_name = "add_global_rule"  -> handle_add_global_rule(doc, v)
          [] handler_name = "edit_global_rule" -> handle_edit_global_rule(doc, op, v)
          [] handler_name = "edit_backend"     -> handle_edit_backend(doc, op, v)
          [] handler_name = "add_backend"      -> handle_add_backend(doc, op, v)
          [] OTHER                             -> set_toml_nested_in_doc(doc, op, v)

-----------------------------------------------------------------------------
(* /config in a client.                                                     *)

handle_config(c) ==
    /\ ~menu[c].open /\ edits < EditLimit
    /\ conn[c].up
    /\ LET items == expand_client_placeholders(dc, local[c])
       IN  menu' = [menu EXCEPT ![c] = [open |-> TRUE, initial |-> items, items |-> items, shown |-> {}]]
    /\ UNCHANGED <<daemonToml, daemonVars, lock, handler, linkVars, cache, local, edits>>

\* The operations the forms of a menu offer.
build_menu_tree(items) ==
    LET Of(kind) == {p[2] : p \in {q \in DOMAIN items : q[1] = kind}}
    IN  {<<"set", s>> : s \in Settings} \cup {<<"plugin", "all">>, <<"add_rule", 0>>}
        \cup {<<"add_backend", b>> : b \in Backends}
        \cup {<<k, b>> : k \in {"backend", "delete_backend"}, b \in Of("llm")}
        \cup {<<k, i>> : k \in {"edit_rule", "delete_rule"}, i \in Of("global")}

\* change_callback and the handler callback: the client sends ConfigUpdate and
\* waits for the answer.
send_config_update(c) ==
    /\ menu[c].open /\ handler[c].pc = "idle"
    /\ conn[c].up
    /\ edits < EditLimit
    /\ edits' = edits + 1
    /\ \E op \in build_menu_tree(menu[c].items) :
          /\ op[1] \in EditOps
          /\ handler' = [handler EXCEPT ![c] = [pc |-> "read", op |-> op, doc |-> DefaultConfig]]
    /\ UNCHANGED <<daemonToml, daemonVars, lock, menu, linkVars, cache, local>>

\* A local rule goes to client.toml under its lock and to this client's memory;
\* the other clients keep the rules they have in memory.
add_local_rule(c) ==
    /\ menu[c].open /\ handler[c].pc = "idle"
    /\ "local" \in EditOps /\ edits < EditLimit
    /\ edits' = edits + 1
    /\ cache' = [cache EXCEPT !.rules = Append(@, edits')]
    /\ local' = [local EXCEPT ![c].rules = Append(@, edits')]
    /\ menu' = [menu EXCEPT ![c].items = expand_client_placeholders(dc, local'[c])]
    /\ UNCHANGED <<daemonToml, daemonVars, lock, handler, linkVars>>

\* Edit or delete by the index the form was built with.
edit_local_rule(c) ==
    /\ menu[c].open /\ handler[c].pc = "idle"
    /\ "local" \in EditOps /\ edits < EditLimit
    /\ \E p \in DOMAIN menu[c].items, delete \in BOOLEAN :
          LET i == p[2]
              Change(rs) == IF i \notin DOMAIN rs THEN rs
                            ELSE IF delete THEN RemoveAt(rs, i)
                            ELSE [rs EXCEPT ![i] = edits + 1]
          IN  /\ p[1] = "local"
              /\ i \in DOMAIN cache.rules
              /\ cache' = [cache EXCEPT !.rules = Change(@)]
              /\ local' = [local EXCEPT ![c].rules = Change(@)]
    /\ edits' = edits + 1
    /\ menu' = [menu EXCEPT ![c].items = expand_client_placeholders(dc, local'[c])]
    /\ UNCHANGED <<daemonToml, daemonVars, lock, handler, linkVars>>

\* The sandbox switch is saved under the same lock, with no call to the daemon;
\* the tree keeps the item it has.
save_local_sandbox_config(c) ==
    /\ menu[c].open /\ handler[c].pc = "idle"
    /\ "local" \in EditOps /\ edits < EditLimit
    /\ edits' = edits + 1
    /\ \E value \in BOOLEAN :
          /\ cache' = [cache EXCEPT !.enabled = value]
          /\ local' = [local EXCEPT ![c].enabled = value]
    /\ UNCHANGED <<daemonToml, daemonVars, lock, handler, menu, linkVars>>

\* Leaving the menu: the final items are queried once more for the diff that is
\* displayed.
LeaveMenu(c) ==
    /\ menu[c].open /\ handler[c].pc = "idle"
    /\ menu' = [menu EXCEPT ![c] = [NoMenu EXCEPT !.shown =
          compute_config_diff(menu[c].initial, expand_client_placeholders(dc, local[c]))]]
    /\ UNCHANGED <<daemonToml, daemonVars, lock, handler, linkVars, cache, local, edits>>

-----------------------------------------------------------------------------
(* handle_config_update in the daemon, one step per access to shared state. *)

UpdateStep(c, from) ==
    /\ handler[c].pc = from
    /\ UNCHANGED <<menu, linkVars, cache, local, edits>>

\* with_locked_doc takes the lock first; both then read the whole document.
ReadDoc(c) ==
    /\ UpdateStep(c, "read")
    /\ TakesLock(handler[c].op) => lock = NoHolder
    /\ IF InBounds(daemonToml, handler[c].op)
       THEN /\ handler' = [handler EXCEPT ![c].pc = "open",
                  ![c].doc = apply_config_changes(daemonToml, handler[c].op, edits)]
            /\ lock' = IF TakesLock(handler[c].op) THEN c ELSE lock
       ELSE /\ handler' = [handler EXCEPT ![c].pc = "failed"]
            /\ lock' = lock
    /\ UNCHANGED <<daemonToml, daemonVars>>

\* std::fs::write opens the file and truncates it ...
OpenTruncated(c) ==
    /\ UpdateStep(c, "open")
    /\ daemonToml' = DefaultConfig
    /\ handler' = [handler EXCEPT ![c].pc = "write"]
    /\ UNCHANGED <<daemonVars, lock>>

\* ... and fills and closes it, which is what inotify reports.
WriteDoc(c) ==
    /\ UpdateStep(c, "write")
    /\ daemonToml' = handler[c].doc
    /\ event' = TRUE
    /\ lock' = IF TakesLock(handler[c].op) THEN NoHolder ELSE lock
    /\ handler' = [handler EXCEPT ![c].pc = "load"]
    /\ UNCHANGED <<dirty, current, chan, unseen, dc, engine, prev>>

load_daemon_config(c) ==
    /\ UpdateStep(c, "load")
    /\ handler' = [handler EXCEPT ![c].pc = "install", ![c].doc = daemonToml]
    /\ UNCHANGED <<daemonToml, daemonVars, lock>>

InstallConfig(c) ==
    /\ UpdateStep(c, "install")
    /\ dc' = handler[c].doc
    /\ handler' = [handler EXCEPT ![c].pc = "done"]
    /\ UNCHANGED <<daemonToml, event, dirty, current, chan, unseen, engine, prev, lock>>

\* A form's handler queries again and rebuilds the menu; a plain change keeps
\* the tree it has, and so does one whose update failed or whose answer is lost.
FinishUpdate(c) ==
    /\ handler[c].pc \in {"done", "failed"}
    /\ handler' = [handler EXCEPT ![c] = NoUpdate]
    /\ menu' = IF \/ handler[c].pc = "failed" \/ ~conn[c].up
                  \/ handler[c].op[1] \in {"set", "plugin"}
               THEN menu
               ELSE [menu EXCEPT ![c].items = expand_client_placeholders(dc, local[c])]
    /\ UNCHANGED <<daemonToml, daemonVars, lock, linkVars, cache, local, edits>>

\* An editor saves daemon.toml by rename; only an editor touches [tasks].
EditByHand ==
    /\ \A c \in Clients : handler[c].pc # "write"
    /\ "editor" \in EditOps /\ edits < EditLimit
    /\ edits' = edits + 1
    /\ \E op \in {<<"set", s>> : s \in Settings} \cup {<<"task", t>> : t \in Watched \cap {"tasks"}}
                 \cup {<<"delete_rule", i>> : i \in DOMAIN daemonToml.sandbox} :
          daemonToml' = apply_config_changes(daemonToml, op, edits')
    /\ event' = TRUE
    /\ UNCHANGED <<dirty, current, chan, unseen, dc, engine, prev, lock, handler,
                   menu, linkVars, cache, local>>

-----------------------------------------------------------------------------
(* The watcher and the tasks that subscribe to it.                          *)

\* FileWatcher::run: events that arrive together wake the receiver once.
WatcherRun ==
    /\ event
    /\ event' = FALSE /\ dirty' = TRUE
    /\ UNCHANGED <<daemonToml, current, chan, unseen, dc, engine, prev, lock, handler,
                   menu, linkVars, cache, local, edits>>

\* A bug: the reload diffs against nothing it remembers of [llm].
reload_without_llm ==
    /\ dirty
    /\ dirty' = FALSE
    /\ LET changed == {s \in Watched \ {"llm"} : current[s] # daemonToml[s]}
       IN  /\ chan' = [s \in Watched |-> IF s \in changed THEN daemonToml ELSE chan[s]]
           /\ unseen' = unseen \cup {r \in Receivers : r[2] \in changed}
    /\ current' = daemonToml
    /\ UNCHANGED <<daemonToml, event, dc, engine, prev, lock, handler, menu, linkVars,
                   cache, local, edits>>

\* Each section that differs gets the whole new configuration as its snapshot.
reload ==
    /\ dirty
    /\ dirty' = FALSE
    /\ LET changed == {s \in Watched : current[s] # daemonToml[s]}
       IN  /\ chan' = [s \in Watched |-> IF s \in changed THEN daemonToml ELSE chan[s]]
           /\ unseen' = unseen \cup {r \in Receivers : r[2] \in changed}
    /\ current' = daemonToml
    /\ UNCHANGED <<daemonToml, event, dc, engine, prev, lock, handler, menu, linkVars,
                   cache, local, edits>>

Take(r) ==
    /\ r \in unseen
    /\ unseen' = unseen \ {r}
    /\ UNCHANGED <<daemonToml, event, dirty, current, chan, lock, handler, menu, cache,
                   local, edits>>

\* The task that keeps daemon_config_arc in step: select! takes any receiver
\* that is ready, and each holds the snapshot of its own section's last change.
SyncDaemonConfig(s) ==
    /\ Take(<<"sync", s>>)
    /\ dc' = chan[s]
    /\ UNCHANGED <<engine, prev, linkVars>>

\* The rule table is compiled anew.
compile_config(cfg) == cfg.sandbox

\* MultiBackend::new; a backend that cannot be built is skipped by the factory.
MultiBackend_new(cfg) == cfg.llm

\* The plugins' section is mirrored and the directory scanned again.
update_plugins_config(cfg) == cfg.plugins

\* Every job is removed and the enabled tasks are registered anew.
TaskManager_reload(cfg) == cfg.tasks

\* The hot-reload task of one engine.
ReloadEngine(s) ==
    /\ Take(<<"engine", s>>)
    /\ engine' = [engine EXCEPT ![s] =
          CASE s = "sandbox" -> compile_config(chan[s])
            [] s = "llm"     -> MultiBackend_new(chan[s])
            [] s = "plugins" -> update_plugins_config(chan[s])
            [] s = "tasks"   -> TaskManager_reload(chan[s])]
    /\ UNCHANGED <<dc, prev, linkVars>>

\* The settings that differ, as a partial function.
diff_client_config(old, new) ==
    [s \in {x \in Settings : old[x] # new[x]} |-> new[s]]

full_client_changes(cfg) == cfg.client

PushClientConfig ==
    /\ Take(<<"push", "client">>)
    /\ LET changes == diff_client_config(prev, chan["client"].client)
       IN  queue' = [c \in Clients |->
              IF conn[c].up /\ DOMAIN changes # {} THEN Append(queue[c], changes) ELSE queue[c]]
    /\ prev' = chan["client"].client
    /\ UNCHANGED <<dc, engine, conn, view, jobs, connects>>

-----------------------------------------------------------------------------
(* Connections and the client's side of a push.                             *)

LinkStep == UNCHANGED <<daemonToml, daemonVars, lock, handler, menu, local, edits>>

\* The push channel is registered first ...
Connect(c) ==
    /\ ~conn[c].up
    /\ connects < ConnectLimit
    /\ connects' = connects + 1
    /\ conn' = [conn EXCEPT ![c] = [up |-> TRUE, full |-> FALSE, raced |-> FALSE]]
    /\ UNCHANGED <<queue, view, jobs, cache>>
    /\ LinkStep

\* ... and then the whole section is sent, as daemon_config_arc has it.  `raced`
\* remembers that this was not what the push task had reached.
on_push_connect(c) ==
    /\ conn[c].up /\ ~conn[c].full
    /\ queue' = [queue EXCEPT ![c] = Append(@, full_client_changes(dc))]
    /\ conn' = [conn EXCEPT ![c].full = TRUE, ![c].raced = dc.client # prev]
    /\ UNCHANGED <<view, jobs, cache, connects>>
    /\ LinkStep

Disconnect(c) ==
    /\ conn[c].up
    /\ conn' = [conn EXCEPT ![c] = [up |-> FALSE, full |-> FALSE, raced |-> FALSE]]
    /\ queue' = [queue EXCEPT ![c] = <<>>]
    /\ UNCHANGED <<view, jobs, cache, connects>>
    /\ LinkStep

Overlay(base, changes) ==
    [s \in DOMAIN base |-> IF s \in DOMAIN changes THEN changes[s] ELSE base[s]]

\* The main loop applies a push when no chat or menu holds it, and hands the
\* cache write to the blocking pool.
apply_client_config_changes(c) ==
    /\ queue[c] # <<>> /\ ~menu[c].open
    /\ queue' = [queue EXCEPT ![c] = Tail(@)]
    /\ view' = [view EXCEPT ![c] = Overlay(@, Head(queue[c]))]
    /\ jobs' = jobs \cup {Head(queue[c])}
    /\ UNCHANGED <<conn, cache, connects>>
    /\ LinkStep

\* The pool runs the writes in any order, each under client.toml.lock.
save_client_config_cache ==
    /\ \E j \in jobs :
          /\ jobs' = jobs \ {j}
          /\ cache' = [cache EXCEPT !.settings = Overlay(@, j)]
    /\ UNCHANGED <<conn, queue, view, connects>>
    /\ LinkStep

-----------------------------------------------------------------------------
UpdateRuns(c) ==
    ReadDoc(c) \/ OpenTruncated(c) \/ WriteDoc(c) \/ load_daemon_config(c)
    \/ InstallConfig(c) \/ FinishUpdate(c)

CfgNext ==
    \/ \E c \in Clients :
          \/ handle_config(c) \/ send_config_update(c) \/ add_local_rule(c)
          \/ edit_local_rule(c) \/ save_local_sandbox_config(c) \/ LeaveMenu(c)
          \/ UpdateRuns(c)
          \/ Connect(c) \/ on_push_connect(c) \/ Disconnect(c)
          \/ apply_client_config_changes(c)
    \/ EditByHand \/ WatcherRun \/ reload
    \/ \E s \in Watched : SyncDaemonConfig(s)
    \/ \E s \in Engines : ReloadEngine(s)
    \/ PushClientConfig
    \/ save_client_config_cache

CfgSpec == CfgInit /\ [][CfgNext]_cfgVars

-----------------------------------------------------------------------------
(* Properties                                                               *)

\* No write of daemon.toml is under way, and every write was noticed and re-read.
Settled == ~event /\ ~dirty /\ \A c \in Clients : handler[c].pc # "write"

\* Whatever order the edits, the truncated reads and the reloads come in: once
\* the watcher has nothing left to read, the rule table, the backends, the
\* plugins and the scheduled tasks have the section that daemon.toml holds, or a
\* wake-up that will give it to them (daemon main.rs, the hot-reload tasks).
EnginesFollowFile ==
    Settled => \A s \in Engines : <<"engine", s>> \notin unseen => engine[s] = daemonToml[s]

\* A client whose first, full push was what the push task had reached runs with
\* the settings of daemon.toml once its queue is empty, for as long as it stays
\* connected: the later diffs leave out no setting and arrive in order.
SettingsReachClients ==
    Settled /\ <<"push", "client">> \notin unseen =>
        \A c \in Clients :
            conn[c].full /\ ~conn[c].raced /\ queue[c] = <<>> => view[c] = daemonToml.client

\* Once daemon.toml is read, the engines and the clients follow it.
FileReachesAll == EnginesFollowFile /\ SettingsReachClients

\* "Keep daemon_config_arc in sync with daemon.toml file changes" (daemon
\* main.rs): with nothing left to do, ConfigQuery answers from what the file holds.
ConfigInSync ==
    Settled /\ unseen = {} /\ (\A c \in Clients : handler[c].pc = "idle") => dc = daemonToml

=============================================================================
