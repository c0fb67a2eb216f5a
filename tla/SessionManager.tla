--------------------------- MODULE SessionManager ---------------------------
(***************************************************************************)
(* The life of ONE shell session in the daemon                             *)
(* (crates/omnish-daemon/src/session_mgr.rs).  The transport handles every *)
(* frame of a connection in a task of its own (rpc_server.rs), so the      *)
(* handlers interleave at every lock they take; a lost connection runs the *)
(* on_disconnect hook while earlier handlers of it may still be under way. *)
(*                                                                         *)
(* A session directory d, created by register(), holds meta.json           *)
(* (ended[d]), stream.bin (its length stream[d]) and commands.json         *)
(* (cmds[d]).  The Session object of d lives in the manager's map while    *)
(* loaded = d; its other fields are conn, pending, lastpos, open, quiet.   *)
(* Memory and disk copies of ended and cmds are one variable: both are     *)
(* written under one lock, and a crash between the two loses the first.    *)
(***************************************************************************)
EXTENDS Integers, Sequences

CONSTANTS
    MaxConn,       \* connections the client opens, one after another
    MaxTasks,      \* frames being handled at a time
    MaxIo,         \* IoData frames
    MaxCommands,   \* CommandComplete frames
    MaxRestarts    \* daemon restarts

ASSUME BoundsAssumption ==
    /\ MaxConn \in Nat \ {0} /\ MaxTasks \in Nat \ {0}
    /\ MaxIo \in Nat /\ MaxCommands \in Nat /\ MaxRestarts \in Nat

Conn == 1 .. MaxConn
Dir  == 1 .. MaxConn        \* each SessionStart creates at most one directory
Slot == 1 .. MaxTasks       \* tasks of frames; task 0 is the cron job's sweep
Task == 0 .. MaxTasks

VARIABLES
    up, ready, conns, exited, ios, sent,            \* the client
    task,                                           \* running handlers
    loaded, conn, pending, lastpos, open, quiet,    \* SessionManager, Session
    dirs, ended, stream, cmds, old,                 \* the disk
    hk, seen,                                       \* the house_keeping job
    restarts, late, unordered                       \* environment, history

client  == <<up, ready, conns, exited, ios, sent>>
session == <<loaded, conn, pending, lastpos, open, quiet>>
disk    == <<dirs, ended, stream, cmds, old>>
job     == <<hk, seen>>
vars    == <<client, task, session, disk, job, restarts, late, unordered>>

Free == [kind |-> "none", at |-> "begin", conn |-> 0, dir |-> 0,
         offset |-> 0, length |-> 0]

TaskRecord ==
    [kind : {"none", "start", "update", "io", "command", "end", "disconnect"},
     at   : {"begin", "bind", "timer", "push", "unbind", "untime", "flush"},
     conn : Conn \cup {0}, dir : Dir \cup {0},
     offset : Nat, length : Nat]

All(x) == [d \in Dir |-> x]

Init ==
    /\ up = 0 /\ ready = FALSE /\ conns = 0 /\ exited = FALSE
    /\ ios = 0 /\ sent = 0
    /\ task = [t \in Task |-> Free]
    /\ loaded = 0 /\ conn = All(0) /\ pending = All("none")
    /\ lastpos = All(0) /\ open = {} /\ quiet = All(FALSE)
    /\ dirs = {} /\ ended = All(FALSE) /\ stream = All(0)
    /\ cmds = All(<<>>) /\ old = All(FALSE)
    /\ hk = "idle" /\ seen = FALSE
    /\ restarts = 0 /\ late = FALSE /\ unordered = FALSE

-----------------------------------------------------------------------------
(* The client: one connection at a time; each frame starts a task.         *)

Idle(t)  == task[t].kind = "none"
NextSlot == CHOOSE t \in Slot : Idle(t)

Spawn(kind, c) ==
    /\ \E t \in Slot : Idle(t)
    /\ task' = [task EXCEPT ![NextSlot] = [Free EXCEPT !.kind = kind, !.conn = c]]

(* The reconnect callback of connect_daemon: SessionStart is a call; no    *)
(* other frame is sent on the connection before its reply.                 *)
Connect ==
    /\ up = 0 /\ ~exited /\ conns < MaxConn
    /\ conns' = conns + 1 /\ up' = conns + 1 /\ ready' = FALSE
    /\ Spawn("start", conns + 1)
    /\ UNCHANGED <<exited, ios, sent, session, disk, job, restarts, late, unordered>>

(* Fire-and-forget frames: the 60 s heartbeat or a probe's change, a piece *)
(* of terminal output, a finished command.                                 *)
SendUpdate ==
    /\ ready /\ ~exited
    /\ Spawn("update", up)
    /\ UNCHANGED <<client, session, disk, job, restarts, late, unordered>>

SendIo ==
    /\ ready /\ ~exited /\ ios < MaxIo
    /\ ios' = ios + 1
    /\ Spawn("io", up)
    /\ UNCHANGED <<up, ready, conns, exited, sent, session, disk, job, restarts,
                   late, unordered>>

SendCommand ==
    /\ ready /\ ~exited /\ sent < MaxCommands
    /\ sent' = sent + 1
    /\ Spawn("command", up)
    /\ UNCHANGED <<up, ready, conns, exited, ios, session, disk, job, restarts,
                   late, unordered>>

(* The shell exits: SessionEnd is the client's last frame.                 *)
SendEnd ==
    /\ ready /\ ~exited
    /\ exited' = TRUE
    /\ Spawn("end", up)
    /\ UNCHANGED <<up, ready, conns, ios, sent, session, disk, job, restarts,
                   late, unordered>>

(* The connection closes: the network drops it, or the client exited or is *)
(* killed.  The server's read loop ends and runs the on_disconnect hook.   *)
Drop ==
    /\ up # 0
    /\ exited' \in {exited, TRUE}
    /\ up' = 0 /\ ready' = FALSE
    /\ Spawn("disconnect", up)
    /\ UNCHANGED <<conns, ios, sent, session, disk, job, restarts, late, unordered>>

(* A client that is between connections is killed.                         *)
Quit ==
    /\ up = 0 /\ ~exited
    /\ exited' = TRUE
    /\ UNCHANGED <<up, ready, conns, ios, sent, task, session, disk, job,
                   restarts, late, unordered>>

-----------------------------------------------------------------------------
(* Steps of the handlers.                                                  *)

At(t, kind, l) == task[t].kind = kind /\ task[t].at = l
Finish(t)      == task' = [task EXCEPT ![t] = Free]
Goto(t, l, d)  == task' = [task EXCEPT ![t].at = l, ![t].dir = d]
Dead(t)        == task[t].conn # up

(* end_session holds the write lock of meta from its first step on.        *)
MetaLocked(d) ==
    \E t \in Task : /\ task[t].kind = "end" /\ task[t].dir = d
                    /\ task[t].at \in {"unbind", "untime", "flush"}

(* The sessions map is read-locked while a rebind is under way.            *)
Rebinding == \E t \in Slot : At(t, "start", "bind") \/ At(t, "start", "timer")

(* The handler of a SessionStart replies; the client may use its           *)
(* connection now, if it still has it.                                     *)
Reply(t) == ready' = (ready \/ ~Dead(t))

(* register, slow path: a new directory under the map's write lock.  Its   *)
(* name is the time: no directory, present or deleted, has it; the least   *)
(* number that no directory and no handler uses stands for it.             *)
Unused(d) == d \notin dirs /\ \A t \in Task : task[t].dir # d

RegisterNew(t) ==
    /\ At(t, "start", "begin") /\ loaded = 0
    /\ \E d \in Dir :
          /\ Unused(d) /\ \A e \in 1 .. d - 1 : ~Unused(e)
          /\ loaded' = d /\ dirs' = dirs \cup {d}
          /\ conn' = [conn EXCEPT ![d] = task[t].conn]
          /\ pending' = [pending EXCEPT ![d] = "none"]
          /\ lastpos' = [lastpos EXCEPT ![d] = 0]
          /\ quiet' = [quiet EXCEPT ![d] = FALSE]
          /\ ended' = [ended EXCEPT ![d] = FALSE]
          /\ stream' = [stream EXCEPT ![d] = 0]
          /\ cmds' = [cmds EXCEPT ![d] = <<>>]
          /\ old' = [old EXCEPT ![d] = FALSE]
    /\ late' = (late \/ Dead(t))
    /\ Finish(t) /\ Reply(t)
    /\ UNCHANGED <<up, conns, exited, ios, sent, open, job, restarts, unordered>>

(* register, session known: rebind_existing takes three locks in turn.     *)
RebindMeta(t) ==
    /\ At(t, "start", "begin") /\ loaded # 0 /\ ~MetaLocked(loaded)
    /\ ended' = [ended EXCEPT ![loaded] = FALSE]
    /\ Goto(t, "bind", loaded)
    /\ UNCHANGED <<client, session, dirs, stream, cmds, old, job, restarts, late,
                   unordered>>

RebindConn(t) ==
    /\ At(t, "start", "bind")
    /\ conn' = [conn EXCEPT ![task[t].dir] = task[t].conn]
    /\ late' = (late \/ Dead(t))
    /\ Goto(t, "timer", task[t].dir)
    /\ UNCHANGED <<client, loaded, pending, lastpos, open, quiet, disk, job,
                   restarts, unordered>>

RebindTimer(t) ==
    /\ At(t, "start", "timer")
    /\ pending' = [pending EXCEPT ![task[t].dir] = "none"]
    /\ late' = (late \/ Dead(t))
    /\ Finish(t) /\ Reply(t)
    /\ UNCHANGED <<up, conns, exited, ios, sent, loaded, conn, lastpos, open, quiet,
                   disk, job, restarts, unordered>>

(* A frame for a session that is not loaded is dropped: "not found" for    *)
(* SessionUpdate, silently for the others.                                 *)
NotLoaded(t) ==
    /\ task[t].kind \in {"update", "io", "command", "end"} /\ task[t].at = "begin"
    /\ loaded = 0
    /\ Finish(t)
    /\ UNCHANGED <<client, session, disk, job, restarts, late, unordered>>

update_attrs(t) ==
    /\ At(t, "update", "begin") /\ loaded # 0
    /\ pending' = [pending EXCEPT ![loaded] = "none"]
    /\ late' = (late \/ (Dead(t) /\ pending[loaded] # "none"))
    /\ Finish(t)
    /\ UNCHANGED <<client, loaded, conn, lastpos, open, quiet, disk, job, restarts,
                   unordered>>

write_io(t) ==
    /\ At(t, "io", "begin") /\ loaded # 0
    /\ stream' = [stream EXCEPT ![loaded] = @ + 1]
    /\ open' = open \cup {loaded}
    /\ quiet' = [quiet EXCEPT ![loaded] = FALSE]
    /\ Finish(t)
    /\ UNCHANGED <<client, loaded, conn, pending, lastpos, dirs, ended, cmds, old,
                   job, restarts, late, unordered>>

(* The stream_offset and stream_length of a CommandRecord.                 *)
Record(t) == <<task[t].offset, task[t].length>>
EndPos(record) == record[1] + record[2]

(* Mutant: last_command_stream_pos is not advanced.                        *)
RangeNotAdvanced(t) ==
    /\ At(t, "command", "begin") /\ loaded # 0
    /\ task' = [task EXCEPT ![t] = [@ EXCEPT !.at = "push", !.dir = loaded,
                                             !.offset = lastpos[loaded],
                                             !.length = stream[loaded] - lastpos[loaded]]]
    /\ quiet' = [quiet EXCEPT ![loaded] = FALSE]
    /\ UNCHANGED <<client, loaded, conn, pending, lastpos, open, disk, job, restarts,
                   late, unordered>>

(* Mutant: the operands of the subtraction are swapped.                    *)
RangeSwapped(t) ==
    /\ At(t, "command", "begin") /\ loaded # 0
    /\ task' = [task EXCEPT ![t] = [@ EXCEPT !.at = "push", !.dir = loaded,
                                             !.offset = stream[loaded],
                                             !.length = lastpos[loaded] - stream[loaded]]]
    /\ lastpos' = [lastpos EXCEPT ![loaded] = stream[loaded]]
    /\ quiet' = [quiet EXCEPT ![loaded] = FALSE]
    /\ UNCHANGED <<client, loaded, conn, pending, open, disk, job, restarts, late,
                   unordered>>

(* Mutant: commands.json is overwritten by the new record alone.           *)
PushOverwrites(t) ==
    LET d == task[t].dir
    IN  /\ At(t, "command", "push")
        /\ cmds' = [cmds EXCEPT ![d] = <<Record(t)>>]
        /\ old' = [old EXCEPT ![d] = FALSE]
        /\ Finish(t)
        /\ UNCHANGED <<client, session, dirs, ended, stream, job, restarts, late,
                       unordered>>

(* receive_command: the record's range of the stream is fixed under the    *)
(* writer's lock, the record is pushed and saved under another.            *)
CommandRange(t) ==
    /\ At(t, "command", "begin") /\ loaded # 0
    /\ task' = [task EXCEPT ![t] = [@ EXCEPT !.at = "push", !.dir = loaded,
                                             !.offset = lastpos[loaded],
                                             !.length = stream[loaded] - lastpos[loaded]]]
    /\ lastpos' = [lastpos EXCEPT ![loaded] = stream[loaded]]
    /\ quiet' = [quiet EXCEPT ![loaded] = FALSE]
    /\ UNCHANGED <<client, loaded, conn, pending, open, disk, job, restarts, late,
                   unordered>>

CommandPush(t) ==
    LET d == task[t].dir
    IN  /\ At(t, "command", "push")
        /\ cmds' = IF d \in dirs
                   THEN [cmds EXCEPT ![d] = Append(@, Record(t))]
                   ELSE cmds
        /\ old' = [old EXCEPT ![d] = FALSE]
        /\ Finish(t)
        /\ UNCHANGED <<client, session, dirs, ended, stream, job, restarts, late,
                       unordered>>

(* end_session, for a SessionEnd frame or the sweep.                       *)
EndMark(t) ==
    /\ At(t, "end", "begin") /\ loaded # 0 /\ ~MetaLocked(loaded)
    /\ ended' = [ended EXCEPT ![loaded] = TRUE]
    /\ Goto(t, "unbind", loaded)
    /\ UNCHANGED <<client, session, dirs, stream, cmds, old, job, restarts, late,
                   unordered>>

EndUnbind(t) ==
    /\ At(t, "end", "unbind")
    /\ conn' = [conn EXCEPT ![task[t].dir] = 0]
    /\ Goto(t, "untime", task[t].dir)
    /\ UNCHANGED <<client, loaded, pending, lastpos, open, quiet, disk, job,
                   restarts, late, unordered>>

EndTimer(t) ==
    /\ At(t, "end", "untime")
    /\ pending' = [pending EXCEPT ![task[t].dir] = "none"]
    /\ Goto(t, "flush", task[t].dir)
    /\ UNCHANGED <<client, loaded, conn, lastpos, open, quiet, disk, job, restarts,
                   late, unordered>>

EndFlush(t) ==
    /\ At(t, "end", "flush")
    /\ open' = open \ {task[t].dir}
    /\ Finish(t)
    /\ UNCHANGED <<client, loaded, conn, pending, lastpos, quiet, disk, job,
                   restarts, late, unordered>>

(* Mutant: any lost connection unbinds the session.                        *)
UnbindAny(t) ==
    /\ At(t, "disconnect", "begin") /\ loaded # 0
    /\ conn' = [conn EXCEPT ![loaded] = 0]
    /\ Goto(t, "timer", loaded)
    /\ UNCHANGED <<client, loaded, pending, lastpos, open, quiet, disk, job,
                   restarts, late, unordered>>

(* mark_conn_disconnected.                                                 *)
DisconnectOther(t) ==
    /\ At(t, "disconnect", "begin")
    /\ loaded # 0 => conn[loaded] # task[t].conn
    /\ Finish(t)
    /\ UNCHANGED <<client, session, disk, job, restarts, late, unordered>>

DisconnectUnbind(t) ==
    /\ At(t, "disconnect", "begin") /\ loaded # 0 /\ conn[loaded] = task[t].conn
    /\ conn' = [conn EXCEPT ![loaded] = 0]
    /\ Goto(t, "timer", loaded)
    /\ UNCHANGED <<client, loaded, pending, lastpos, open, quiet, disk, job,
                   restarts, late, unordered>>

DisconnectTimer(t) ==
    /\ At(t, "disconnect", "timer")
    /\ pending' = [pending EXCEPT ![task[t].dir] = "grace"]
    /\ Finish(t)
    /\ UNCHANGED <<client, loaded, conn, lastpos, open, quiet, disk, job, restarts,
                   late, unordered>>

Step(t) ==
    \/ RegisterNew(t) \/ RebindMeta(t) \/ RebindConn(t) \/ RebindTimer(t)
    \/ NotLoaded(t) \/ update_attrs(t) \/ write_io(t)
    \/ CommandRange(t) \/ CommandPush(t)
    \/ EndMark(t) \/ EndUnbind(t) \/ EndTimer(t) \/ EndFlush(t)
    \/ DisconnectOther(t) \/ DisconnectUnbind(t) \/ DisconnectTimer(t)

-----------------------------------------------------------------------------
(* Time.  The grace period is an hour and the retention at least a day:    *)
(* both are long after every handler that is running now, and a connected  *)
(* client's heartbeat (every 60 s) would have cleared the timer.           *)
Settled == \A t \in Task : Idle(t)

GraceElapses ==
    /\ Settled /\ ~ready
    /\ loaded # 0 /\ pending[loaded] = "grace"
    /\ pending' = [pending EXCEPT ![loaded] = "expired"]
    /\ UNCHANGED <<client, task, loaded, conn, lastpos, open, quiet, disk, job,
                   restarts, late, unordered>>

RetentionElapses ==
    /\ Settled /\ hk = "idle"
    /\ \E d \in dirs : ~old[d] \/ (d = loaded /\ ~quiet[d])
    /\ quiet' = [d \in Dir |-> d = loaded] /\ old' = [d \in Dir |-> d \in dirs]
    /\ UNCHANGED <<client, task, loaded, conn, pending, lastpos, open, dirs, ended,
                   stream, cmds, job, restarts, late, unordered>>

-----------------------------------------------------------------------------
(* The scheduled jobs.                                                     *)

(* The directories that are not in D are removed, with all their files.    *)
Keep(D) ==
    /\ dirs' = D
    /\ ended' = [d \in Dir |-> d \in D /\ ended[d]]
    /\ stream' = [d \in Dir |-> IF d \in D THEN stream[d] ELSE 0]
    /\ cmds' = [d \in Dir |-> IF d \in D THEN cmds[d] ELSE <<>>]
    /\ old' = [d \in Dir |-> d \in D /\ old[d]]

(* sweep_disconnected: picks the session to end from its timer, then calls *)
(* end_session for the id it noted.                                        *)
SweepScan ==
    /\ Idle(0) /\ loaded # 0 /\ pending[loaded] = "expired" /\ ~MetaLocked(loaded)
    /\ \/ /\ ~ended[loaded]
          /\ task' = [task EXCEPT ![0] = [Free EXCEPT !.kind = "end"]]
          /\ UNCHANGED pending
       \/ /\ ended[loaded]
          /\ pending' = [pending EXCEPT ![loaded] = "none"]
          /\ UNCHANGED task
    /\ UNCHANGED <<client, loaded, conn, lastpos, open, quiet, disk, job, restarts,
                   late, unordered>>

(* Mutant: only sessions in their grace period are looked at.              *)
CloseInGrace ==
    /\ loaded \in open /\ quiet[loaded] /\ pending[loaded] # "none"
    /\ open' = open \ {loaded}
    /\ UNCHANGED <<client, task, loaded, conn, pending, lastpos, quiet, disk, job,
                   restarts, late, unordered>>

close_idle_writers ==
    /\ loaded \in open /\ quiet[loaded]
    /\ open' = open \ {loaded}
    /\ UNCHANGED <<client, task, loaded, conn, pending, lastpos, quiet, disk, job,
                   restarts, late, unordered>>

(* evict_inactive, phase 1 under the read lock and phase 2 under the write *)
(* lock, by id; then cleanup_expired_dirs, which skips the directories of  *)
(* every id that was loaded when it began.  A run of the job that would    *)
(* find nothing old is one step that changes nothing.                      *)
NoSession ==
    /\ loaded' = 0 /\ open' = {} /\ conn' = All(0) /\ pending' = All("none")
    /\ lastpos' = All(0) /\ quiet' = All(FALSE)

EvictScan ==
    /\ hk = "idle"
    /\ hk' = IF loaded # 0 /\ quiet[loaded] THEN "evict"
             ELSE IF \E d \in dirs : old[d] THEN "list" ELSE "idle"
    /\ UNCHANGED <<client, task, session, disk, seen, restarts, late, unordered>>

EvictRemove ==
    /\ hk = "evict" /\ ~Rebinding
    /\ hk' = "list" /\ NoSession
    /\ UNCHANGED <<client, task, disk, seen, restarts, late, unordered>>

CleanupList ==
    /\ hk = "list"
    /\ hk' = "delete" /\ seen' = (loaded # 0)
    /\ UNCHANGED <<client, task, session, disk, restarts, late, unordered>>

(* Mutant: loaded sessions are not skipped.                                *)
DeleteAllOld ==
    /\ hk = "delete"
    /\ hk' = "idle" /\ seen' = FALSE
    /\ Keep({d \in dirs : ~old[d]})
    /\ UNCHANGED <<client, task, session, restarts, late, unordered>>

CleanupDelete ==
    /\ hk = "delete"
    /\ hk' = "idle" /\ seen' = FALSE
    /\ Keep(IF seen THEN dirs ELSE {d \in dirs : ~old[d]})
    /\ UNCHANGED <<client, task, session, restarts, late, unordered>>

-----------------------------------------------------------------------------
(* The daemon goes down, at any point of any handler, and comes up again   *)
(* (load_existing).  A meta.json or commands.json that was being written   *)
(* may be left torn; its directory then fails to load and is removed.  Of  *)
(* several directories of the session the one read last is kept loaded.    *)

Saving(d) ==
    \E t \in Task :
        \/ task[t].kind \in {"start", "update", "end"} /\ task[t].at = "begin" /\ d = loaded
        \/ task[t].at \in {"push", "flush"} /\ d = task[t].dir

(* Mutant: the position after the last record is off by one.               *)
EndOfPlusOne(log) == IF log = <<>> THEN 0 ELSE EndPos(log[Len(log)]) + 1

EndOf(log) == IF log = <<>> THEN 0 ELSE EndPos(log[Len(log)])

InOrder(log) == \A i \in DOMAIN log : EndPos(log[i]) <= EndOf(log)

(* Mutant: a reloaded session gets no grace timer.                         *)
LoadUntimed(d) ==
    /\ loaded' = d /\ conn' = All(0) /\ open' = {} /\ pending' = All("none")
    /\ lastpos' = [All(0) EXCEPT ![d] = EndOf(cmds[d])]
    /\ quiet' = [All(FALSE) EXCEPT ![d] = old[d]]

Load(d) ==
    /\ loaded' = d /\ conn' = All(0) /\ open' = {}
    /\ pending' = [All("none") EXCEPT ![d] = IF ended[d] THEN "none" ELSE "grace"]
    /\ lastpos' = [All(0) EXCEPT ![d] = EndOf(cmds[d])]
    /\ quiet' = [All(FALSE) EXCEPT ![d] = old[d]]

Restart ==
    /\ restarts < MaxRestarts
    /\ restarts' = restarts + 1
    /\ task' = [t \in Task |-> Free]
    /\ up' = 0 /\ ready' = FALSE /\ hk' = "idle" /\ seen' = FALSE
    /\ \E torn \in SUBSET {d \in dirs : Saving(d)} : Keep(dirs \ torn)
    /\ IF dirs' = {} THEN NoSession ELSE \E d \in dirs' : Load(d)
    /\ unordered' = (unordered \/ \E d \in dirs' : ~InOrder(cmds[d]))
    /\ UNCHANGED <<conns, exited, ios, sent, late>>

Next ==
    \/ Connect \/ SendUpdate \/ SendIo \/ SendCommand \/ SendEnd \/ Drop \/ Quit
    \/ \E t \in Task : Step(t)
    \/ GraceElapses \/ RetentionElapses
    \/ SweepScan \/ close_idle_writers
    \/ EvictScan \/ EvictRemove \/ CleanupList \/ CleanupDelete
    \/ Restart

Spec == Init /\ [][Next]_vars

(* Handlers run to their end, a client that exited loses its connection,   *)
(* time passes (also between the hourly runs of house_keeping) and the     *)
(* cron jobs run.                                                          *)
Fairness ==
    /\ \A t \in Task : WF_vars(Step(t))
    /\ WF_vars(exited /\ Drop)
    /\ WF_vars(GraceElapses) /\ SF_vars(RetentionElapses)
    /\ WF_vars(SweepScan) /\ WF_vars(close_idle_writers)
    /\ WF_vars(EvictRemove) /\ WF_vars(CleanupList) /\ WF_vars(CleanupDelete)

FairSpec == Spec /\ Fairness

-----------------------------------------------------------------------------
(* Properties.                                                             *)

TypeOK ==
    /\ up \in Conn \cup {0} /\ conns \in 0 .. MaxConn
    /\ ready \in BOOLEAN /\ exited \in BOOLEAN /\ seen \in BOOLEAN
    /\ late \in BOOLEAN /\ unordered \in BOOLEAN
    /\ ios \in 0 .. MaxIo /\ sent \in 0 .. MaxCommands /\ restarts \in 0 .. MaxRestarts
    /\ task \in [Task -> TaskRecord]
    /\ loaded \in Dir \cup {0} /\ dirs \subseteq Dir /\ open \subseteq Dir
    /\ conn \in [Dir -> Conn \cup {0}]
    /\ pending \in [Dir -> {"none", "grace", "expired"}]
    /\ lastpos \in [Dir -> Nat] /\ stream \in [Dir -> Nat]
    /\ quiet \in [Dir -> BOOLEAN] /\ old \in [Dir -> BOOLEAN]
    /\ ended \in [Dir -> BOOLEAN]
    /\ cmds \in [Dir -> Seq(Nat \X Nat)]
    /\ hk \in {"idle", "evict", "list", "delete"}

(* The range of every record lies within stream.bin, and the subtraction   *)
(* of receive_command (u64: current position minus last position) does not *)
(* underflow, whatever handlers, evictions and restarts came before.       *)
RangesWithinStream ==
    /\ loaded # 0 => lastpos[loaded] <= stream[loaded]
    /\ \A d \in dirs : \A i \in DOMAIN cmds[d] : EndPos(cmds[d][i]) <= stream[d]

(* No piece of output belongs to two commands: receive_command hands out   *)
(* each part of the stream once.  load_existing resumes from the LAST      *)
(* record of commands.json, so this needs the records to be in the order   *)
(* of their ranges at every restart; two handlers may push theirs in the   *)
(* other order.                                                            *)
Apart(a, b) == EndPos(a) <= b[1] \/ EndPos(b) <= a[1]

RangesDisjoint ==
    ~unordered =>
        \A d \in dirs : \A i, j \in DOMAIN cmds[d] :
            i # j => Apart(cmds[d][i], cmds[d][j])

(* The hourly clean-up never deletes the directory of a loaded session,    *)
(* although it reads the map once and deletes later.                       *)
LoadedDirExists == loaded # 0 => loaded \in dirs

(* When nothing is under way, a session whose client is connected and has  *)
(* registered is bound to that connection: the on_disconnect hook of an    *)
(* earlier connection of the client, however late, does not unbind it.     *)
(* (A SessionStart handled after its own connection is gone does.)         *)
BoundToItsClient ==
    Settled /\ ready /\ ~late /\ loaded # 0 => conn[loaded] = up \/ ended[loaded]

(* rebind_existing reactivates an ended session "cleanly (e.g. when the    *)
(* sweep raced ahead of the client's reconnect)": once nothing is under    *)
(* way, the session of a connected, registered client is not ended.        *)
ReactivatesCleanly ==
    Settled /\ ready /\ ~exited /\ loaded # 0 => ~ended[loaded]

(* The command history of a session only grows.  It is lost as a whole in  *)
(* two cases: a crash in the middle of one of its saves, and the clean-up  *)
(* of a session that is not loaded and past its retention.                 *)
Extends(new, log) ==
    /\ DOMAIN log \subseteq DOMAIN new
    /\ \A i \in DOMAIN log : new[i] = log[i]

HistoryStep ==
    \A d \in dirs :
        \/ d \in dirs' /\ Extends(cmds'[d], cmds[d])
        \/ d \notin dirs' /\ restarts' # restarts /\ Saving(d)
        \/ d \notin dirs' /\ old[d] /\ loaded # d

HistoryKept == [][HistoryStep]_vars

(* A session whose client is gone is ended or evicted in the end, unless a *)
(* handler of a dead connection ran late and cleared its grace timer.      *)
AbandonedSessionEnds ==
    exited ~> (loaded = 0 \/ ended[loaded] \/ late)

(* The file descriptor of stream.bin is released for good once the client  *)
(* is gone, whichever of its frames were handled late.                     *)
WritersReleased == <>exited => <>[](open = {})
=============================================================================
