------------------------ MODULE SessionManager_proofs ------------------------
(***************************************************************************)
(* What SessionManager keeps for every number of connections, handlers,    *)
(* frames and restarts: the directory of a loaded session exists, the      *)
(* ranges of its command records lie within stream.bin and do not overlap, *)
(* and the session of a registered client is bound to its connection.      *)
(***************************************************************************)
EXTENDS SessionManager, TLAPS

(* No directory of a loaded session is about to be deleted.                *)
DirInv ==
    /\ loaded # 0 => loaded \in dirs
    /\ hk = "delete" /\ ~seen /\ loaded # 0 => ~old[loaded]

Pushing(t, d) == task[t].at = "push" /\ task[t].dir = d

(* Records, saved or about to be, end within the stream.                   *)
WithinInv ==
    /\ loaded # 0 => lastpos[loaded] <= stream[loaded]
    /\ \A d \in dirs :
          /\ \A i \in DOMAIN cmds[d] : EndPos(cmds[d][i]) <= stream[d]
          /\ \A t \in Task : Pushing(t, d) => EndPos(Record(t)) <= stream[d]

(* The next range starts after all of them, and they are apart.            *)
BehindInv ==
    ~unordered /\ loaded # 0 =>
        /\ \A i \in DOMAIN cmds[loaded] : EndPos(cmds[loaded][i]) <= lastpos[loaded]
        /\ \A t \in Task : Pushing(t, loaded) => EndPos(Record(t)) <= lastpos[loaded]

ApartInv ==
    ~unordered =>
        \A d \in dirs :
            /\ \A i, j \in DOMAIN cmds[d] : i # j => Apart(cmds[d][i], cmds[d][j])
            /\ \A t \in Task, i \in DOMAIN cmds[d] :
                  Pushing(t, d) => Apart(Record(t), cmds[d][i])
            /\ \A t, s \in Task :
                  t # s /\ Pushing(t, d) /\ Pushing(s, d) => Apart(Record(t), Record(s))

RecordInv == TypeOK /\ DirInv /\ WithinInv /\ BehindInv /\ ApartInv

-----------------------------------------------------------------------------
(* Types.                                                                  *)

(* A slot without a task.                                                  *)
LEMMA FreeType == Free \in TaskRecord
BY BoundsAssumption DEF Free, TaskRecord, Conn, Dir

(* The sweep's task.                                                       *)
LEMMA ZeroIsTask == 0 \in Task
BY BoundsAssumption DEF Task

(* A frame's task starts in a free slot.                                   *)
LEMMA SpawnType ==
    ASSUME TypeOK, NEW kind \in {"start", "update", "io", "command", "end", "disconnect"},
           NEW c \in Conn \cup {0}, Spawn(kind, c)
    PROVE  /\ task' \in [Task -> TaskRecord]
           /\ \A t \in Task : task'[t].at = "push" => task'[t] = task[t]
<1> DEFINE new == [Free EXCEPT !.kind = kind, !.conn = c]
<1>1. new \in TaskRecord /\ new.at = "begin"
  BY BoundsAssumption DEF Free, TaskRecord, Conn, Dir
<1>2. task' = [task EXCEPT ![NextSlot] = new]  BY DEF Spawn
<1> HIDE DEF new
<1>3. \A t \in Task : task'[t] = new \/ task'[t] = task[t]
  BY <1>2 DEF TypeOK
<1> QED  BY <1>1, <1>2, <1>3 DEF TypeOK

(* A finished handler frees its slot.                                      *)
LEMMA FinishType ==
    ASSUME TypeOK, NEW t \in Task, Finish(t)
    PROVE  /\ task' \in [Task -> TaskRecord]
           /\ \A s \in Task : task'[s].at = "push" => task'[s] = task[s]
           /\ task'[t] = Free
           /\ \A s \in Task : s # t => task'[s] = task[s]
<1>1. Free.at = "begin"  BY DEF Free
<1>2. task' = [task EXCEPT ![t] = Free]  BY DEF Finish
<1> QED  BY <1>1, <1>2, FreeType DEF TypeOK

(* A handler goes on to another place.                                     *)
LEMMA GotoType ==
    ASSUME TypeOK, NEW t \in Task, NEW d \in Dir \cup {0},
           NEW l \in {"bind", "timer", "unbind", "untime", "flush"}, Goto(t, l, d)
    PROVE  /\ task' \in [Task -> TaskRecord]
           /\ \A s \in Task : task'[s].at = "push" => task'[s] = task[s]
<1>1. task[t] \in TaskRecord  BY DEF TypeOK
<1>2. [task[t] EXCEPT !.at = l, !.dir = d] \in TaskRecord
  BY <1>1 DEF TaskRecord
<1>3. [task[t] EXCEPT !.at = l, !.dir = d].at = l
  BY <1>1 DEF TaskRecord
<1>4. task' = [task EXCEPT ![t] = [task[t] EXCEPT !.at = l, !.dir = d]]
  BY <1>1 DEF Goto, TaskRecord, TypeOK
<1> QED  BY <1>2, <1>3, <1>4 DEF TypeOK

(* The initial state has no records.                                       *)
LEMMA InitInv == Init => RecordInv
<1> SUFFICES ASSUME Init PROVE RecordInv  OBVIOUS
<1> USE BoundsAssumption
<1>0. <<>> \in Seq(Nat \X Nat)  OBVIOUS
<1>1. TypeOK
  <2>1. task \in [Task -> TaskRecord]  BY FreeType DEF Init
  <2>2. cmds \in [Dir -> Seq(Nat \X Nat)]
    <3>1. cmds = [d \in Dir |-> <<>>]  BY DEF Init, All
    <3> QED  BY <1>0, <3>1
  <2>3. /\ conn \in [Dir -> Conn \cup {0}] /\ pending \in [Dir -> {"none", "grace", "expired"}]
        /\ lastpos \in [Dir -> Nat] /\ stream \in [Dir -> Nat]
    BY DEF Init, All
  <2>4. /\ quiet \in [Dir -> BOOLEAN] /\ old \in [Dir -> BOOLEAN]
        /\ ended \in [Dir -> BOOLEAN]
    BY DEF Init, All
  <2>5. /\ up = 0 /\ conns \in 0 .. MaxConn /\ loaded = 0 /\ dirs = {} /\ open = {}
        /\ ios \in 0 .. MaxIo /\ sent \in 0 .. MaxCommands /\ restarts \in 0 .. MaxRestarts
        /\ hk = "idle"
    BY DEF Init
  <2>6. /\ ready \in BOOLEAN /\ exited \in BOOLEAN /\ seen \in BOOLEAN
        /\ late \in BOOLEAN /\ unordered \in BOOLEAN
    BY DEF Init
  <2> QED  BY <2>1, <2>2, <2>3, <2>4, <2>5, <2>6 DEF TypeOK
<1>2. DirInv  BY DEF Init, DirInv
<1>3. WithinInv  BY DEF Init, WithinInv
<1>4. BehindInv  BY DEF Init, BehindInv
<1>5. ApartInv  BY DEF Init, ApartInv
<1> QED  BY <1>1, <1>2, <1>3, <1>4, <1>5 DEF RecordInv

-----------------------------------------------------------------------------
(* Most steps touch none of this: at most they free a slot, start a task   *)
(* or move one that does not push.                                         *)
Untouched ==
    /\ UNCHANGED <<loaded, lastpos, dirs, stream, cmds, unordered>>
    /\ \A t \in Task : task'[t].at = "push" => task'[t] = task[t]

Housekeeping ==
    \/ UNCHANGED <<hk, seen, old>>
    \/ hk = "idle" /\ hk' \in {"idle", "evict", "list"} /\ UNCHANGED <<seen, old>>
    \/ hk = "idle" /\ hk' = hk /\ old' \in [Dir -> BOOLEAN] /\ UNCHANGED seen
    \/ hk' = "delete" /\ seen' = (loaded # 0) /\ UNCHANGED old

(* Steps that touch no record, range or directory.                         *)
LEMMA UntouchedStep ==
    ASSUME RecordInv, TypeOK', Untouched, Housekeeping
    PROVE  RecordInv'
<1>2. DirInv'
  BY DEF RecordInv, TypeOK, DirInv, Untouched, Housekeeping
<1>3. \A t \in Task : \A d : Pushing(t, d)' => Pushing(t, d) /\ Record(t)' = Record(t)
  BY DEF Untouched, Pushing, Record
<1>4. WithinInv'
  BY <1>3 DEF RecordInv, WithinInv, Untouched
<1>5. BehindInv'
  BY <1>3 DEF RecordInv, BehindInv, Untouched
<1>6. ApartInv'
  BY <1>3 DEF RecordInv, ApartInv, Untouched
<1> QED  BY <1>2, <1>4, <1>5, <1>6 DEF RecordInv

-----------------------------------------------------------------------------
(* Every action keeps the types.                                           *)
LEMMA TypeStep ==
    ASSUME TypeOK, RecordInv, Next
    PROVE  TypeOK'
<1> USE BoundsAssumption
<1> DEFINE TaskOK == task' \in [Task -> TaskRecord]
<1>1. ASSUME Connect PROVE TypeOK'
  <2>1. conns + 1 \in Conn  BY <1>1 DEF Connect, TypeOK, Conn
  <2>2. TaskOK
    <3> DEFINE c == conns + 1
    <3>1. c \in Conn /\ Spawn("start", c)  BY <1>1, <2>1 DEF Connect
    <3> HIDE DEF c
    <3> QED  BY <3>1, SpawnType
  <2>3. conns' \in 0 .. MaxConn /\ up' \in Conn
    BY <1>1, <2>1 DEF Connect, Conn
  <2> QED  BY <1>1, <2>2, <2>3 DEF Connect, TypeOK, session, disk, job
<1>2. ASSUME SendUpdate PROVE TypeOK'
  <2>1. TaskOK  BY <1>2, SpawnType DEF SendUpdate, TypeOK
  <2> QED  BY <1>2, <2>1 DEF SendUpdate, TypeOK, client, session, disk, job
<1>3. ASSUME SendIo PROVE TypeOK'
  <2>1. TaskOK  BY <1>3, SpawnType DEF SendIo, TypeOK
  <2> QED  BY <1>3, <2>1 DEF SendIo, TypeOK, session, disk, job
<1>4. ASSUME SendCommand PROVE TypeOK'
  <2>1. TaskOK  BY <1>4, SpawnType DEF SendCommand, TypeOK
  <2> QED  BY <1>4, <2>1 DEF SendCommand, TypeOK, session, disk, job
<1>5. ASSUME SendEnd PROVE TypeOK'
  <2>1. TaskOK  BY <1>5, SpawnType DEF SendEnd, TypeOK
  <2> QED  BY <1>5, <2>1 DEF SendEnd, TypeOK, session, disk, job
<1>6. ASSUME Drop PROVE TypeOK'
  <2>1. TaskOK  BY <1>6, SpawnType DEF Drop, TypeOK
  <2> QED  BY <1>6, <2>1 DEF Drop, TypeOK, session, disk, job
<1>7. ASSUME Quit PROVE TypeOK'
  BY <1>7 DEF Quit, TypeOK, session, disk, job
<1>8. ASSUME NEW t \in Task, RegisterNew(t) PROVE TypeOK'
  <2>1. TaskOK  BY <1>8, FinishType DEF RegisterNew
  <2>2. PICK d \in Dir :
          /\ loaded' = d /\ dirs' = dirs \cup {d}
          /\ conn' = [conn EXCEPT ![d] = task[t].conn]
          /\ pending' = [pending EXCEPT ![d] = "none"]
          /\ lastpos' = [lastpos EXCEPT ![d] = 0]
          /\ quiet' = [quiet EXCEPT ![d] = FALSE]
          /\ ended' = [ended EXCEPT ![d] = FALSE]
          /\ stream' = [stream EXCEPT ![d] = 0]
          /\ cmds' = [cmds EXCEPT ![d] = <<>>]
          /\ old' = [old EXCEPT ![d] = FALSE]
    BY <1>8 DEF RegisterNew
  <2>3. task[t].conn \in Conn \cup {0}  BY DEF TypeOK, TaskRecord
  <2>4. <<>> \in Seq(Nat \X Nat)  OBVIOUS
  <2>5. cmds' \in [Dir -> Seq(Nat \X Nat)]  BY <2>2, <2>4 DEF TypeOK
  <2> QED  BY <1>8, <2>1, <2>2, <2>3, <2>5 DEF RegisterNew, Reply, Dead, TypeOK, job
<1>9. ASSUME NEW t \in Task, RebindMeta(t) PROVE TypeOK'
  <2>1. TaskOK  BY <1>9, GotoType DEF RebindMeta, TypeOK
  <2> QED  BY <1>9, <2>1 DEF RebindMeta, TypeOK, client, session, job
<1>10. ASSUME NEW t \in Task, RebindConn(t) PROVE TypeOK'
  <2>0. task[t].conn \in Conn \cup {0} /\ task[t].dir \in Dir \cup {0}
    BY DEF TypeOK, TaskRecord
  <2>1. TaskOK  BY <1>10, <2>0, GotoType DEF RebindConn, TypeOK
  <2> QED  BY <1>10, <2>0, <2>1 DEF RebindConn, Dead, TypeOK, client, disk, job
<1>11. ASSUME NEW t \in Task, RebindTimer(t) PROVE TypeOK'
  <2>1. TaskOK  BY <1>11, FinishType DEF RebindTimer
  <2> QED  BY <1>11, <2>1 DEF RebindTimer, Reply, Dead, TypeOK, disk, job
<1>12. ASSUME NEW t \in Task, NotLoaded(t) PROVE TypeOK'
  <2>1. TaskOK  BY <1>12, FinishType DEF NotLoaded
  <2> QED  BY <1>12, <2>1 DEF NotLoaded, TypeOK, client, session, disk, job
<1>13. ASSUME NEW t \in Task, update_attrs(t) PROVE TypeOK'
  <2>1. TaskOK  BY <1>13, FinishType DEF update_attrs
  <2> QED  BY <1>13, <2>1 DEF update_attrs, Dead, TypeOK, client, disk, job
<1>14. ASSUME NEW t \in Task, write_io(t) PROVE TypeOK'
  <2>1. TaskOK  BY <1>14, FinishType DEF write_io
  <2>2. loaded \in Dir  BY <1>14 DEF write_io, TypeOK
  <2> QED  BY <1>14, <2>1, <2>2 DEF write_io, TypeOK, client, job
<1>15. ASSUME NEW t \in Task, CommandRange(t) PROVE TypeOK'
  <2>1. loaded \in Dir /\ loaded # 0  BY <1>15 DEF CommandRange, TypeOK
  <2>2. /\ lastpos[loaded] \in Nat
        /\ stream[loaded] - lastpos[loaded] \in Nat
    BY <2>1 DEF RecordInv, WithinInv, TypeOK
  <2>3. task[t] \in TaskRecord  BY DEF TypeOK
  <2>4. [task[t] EXCEPT !.at = "push", !.dir = loaded, !.offset = lastpos[loaded],
                        !.length = stream[loaded] - lastpos[loaded]] \in TaskRecord
    BY <2>1, <2>2, <2>3 DEF TaskRecord
  <2>5. TaskOK  BY <1>15, <2>4 DEF CommandRange, TypeOK
  <2> QED  BY <1>15, <2>1, <2>5 DEF CommandRange, TypeOK, client, disk, job
<1>16. ASSUME NEW t \in Task, CommandPush(t) PROVE TypeOK'
  <2>1. TaskOK  BY <1>16, FinishType DEF CommandPush
  <2>2. Record(t) \in Nat \X Nat  BY DEF Record, TypeOK, TaskRecord
  <2>3. \A d \in Dir : Append(cmds[d], Record(t)) \in Seq(Nat \X Nat)
    BY <2>2 DEF TypeOK
  <2>4. cmds' \in [Dir -> Seq(Nat \X Nat)]
    BY <1>16, <2>3 DEF CommandPush, TypeOK
  <2> QED  BY <1>16, <2>1, <2>4 DEF CommandPush, TypeOK, client, session, job
<1>17. ASSUME NEW t \in Task, EndMark(t) PROVE TypeOK'
  <2>1. TaskOK  BY <1>17, GotoType DEF EndMark, TypeOK
  <2> QED  BY <1>17, <2>1 DEF EndMark, TypeOK, client, session, job
<1>18. ASSUME NEW t \in Task, EndUnbind(t) PROVE TypeOK'
  <2>0. task[t].dir \in Dir \cup {0}  BY DEF TypeOK, TaskRecord
  <2>1. TaskOK  BY <1>18, <2>0, GotoType DEF EndUnbind, TypeOK
  <2> QED  BY <1>18, <2>1 DEF EndUnbind, TypeOK, client, disk, job
<1>19. ASSUME NEW t \in Task, EndTimer(t) PROVE TypeOK'
  <2>0. task[t].dir \in Dir \cup {0}  BY DEF TypeOK, TaskRecord
  <2>1. TaskOK  BY <1>19, <2>0, GotoType DEF EndTimer, TypeOK
  <2> QED  BY <1>19, <2>1 DEF EndTimer, TypeOK, client, disk, job
<1>20. ASSUME NEW t \in Task, EndFlush(t) PROVE TypeOK'
  <2>1. TaskOK  BY <1>20, FinishType DEF EndFlush
  <2> QED  BY <1>20, <2>1 DEF EndFlush, TypeOK, client, disk, job
<1>21. ASSUME NEW t \in Task, DisconnectOther(t) PROVE TypeOK'
  <2>1. TaskOK  BY <1>21, FinishType DEF DisconnectOther
  <2> QED  BY <1>21, <2>1 DEF DisconnectOther, TypeOK, client, session, disk, job
<1>22. ASSUME NEW t \in Task, DisconnectUnbind(t) PROVE TypeOK'
  <2>1. TaskOK  BY <1>22, GotoType DEF DisconnectUnbind, TypeOK
  <2> QED  BY <1>22, <2>1 DEF DisconnectUnbind, TypeOK, client, disk, job
<1>23. ASSUME NEW t \in Task, DisconnectTimer(t) PROVE TypeOK'
  <2>1. TaskOK  BY <1>23, FinishType DEF DisconnectTimer
  <2> QED  BY <1>23, <2>1 DEF DisconnectTimer, TypeOK, client, disk, job
<1>24. ASSUME GraceElapses PROVE TypeOK'
  BY <1>24 DEF GraceElapses, TypeOK, client, disk, job
<1>25. ASSUME RetentionElapses PROVE TypeOK'
  BY <1>25 DEF RetentionElapses, TypeOK, client, job
<1>26. ASSUME SweepScan PROVE TypeOK'
  <2>1. [Free EXCEPT !.kind = "end"] \in TaskRecord
    BY DEF Free, TaskRecord, Conn, Dir
  <2>2. TaskOK  BY <1>26, <2>1, ZeroIsTask DEF SweepScan, TypeOK
  <2>3. pending' \in [Dir -> {"none", "grace", "expired"}]
    BY <1>26 DEF SweepScan, TypeOK
  <2> QED  BY <1>26, <2>2, <2>3 DEF SweepScan, TypeOK, client, disk, job
<1>27. ASSUME close_idle_writers PROVE TypeOK'
  BY <1>27 DEF close_idle_writers, TypeOK, client, disk, job
<1>28. ASSUME EvictScan PROVE TypeOK'
  BY <1>28 DEF EvictScan, TypeOK, client, session, disk
<1>29. ASSUME EvictRemove PROVE TypeOK'
  BY <1>29 DEF EvictRemove, NoSession, All, TypeOK, client, disk
<1>30. ASSUME CleanupList PROVE TypeOK'
  BY <1>30 DEF CleanupList, TypeOK, client, session, disk
<1>31. ASSUME NEW D \in SUBSET dirs, Keep(D)
       PROVE  /\ dirs' \subseteq Dir /\ stream' \in [Dir -> Nat]
              /\ ended' \in [Dir -> BOOLEAN] /\ old' \in [Dir -> BOOLEAN]
              /\ cmds' \in [Dir -> Seq(Nat \X Nat)]
  <2>1. <<>> \in Seq(Nat \X Nat)  OBVIOUS
  <2>2. cmds' \in [Dir -> Seq(Nat \X Nat)]  BY <1>31, <2>1 DEF Keep, TypeOK
  <2> QED  BY <1>31, <2>2 DEF Keep, TypeOK
<1>32. ASSUME CleanupDelete PROVE TypeOK'
  <2>1. (IF seen THEN dirs ELSE {d \in dirs : ~old[d]}) \in SUBSET dirs  OBVIOUS
  <2> QED  BY <1>31, <1>32, <2>1 DEF CleanupDelete, TypeOK, client, session
<1>33. ASSUME Restart PROVE TypeOK'
  <2>1. PICK torn \in SUBSET {d \in dirs : Saving(d)} : Keep(dirs \ torn)
    BY <1>33 DEF Restart
  <2>2. /\ dirs' \subseteq Dir /\ stream' \in [Dir -> Nat]
        /\ ended' \in [Dir -> BOOLEAN] /\ old' \in [Dir -> BOOLEAN]
        /\ cmds' \in [Dir -> Seq(Nat \X Nat)]
    BY <1>31, <2>1
  <2>3. TaskOK  BY <1>33, FreeType DEF Restart
  <2>4. ASSUME NEW d \in Dir PROVE EndOf(cmds[d]) \in Nat
    <3>1. cmds[d] \in Seq(Nat \X Nat)  BY DEF TypeOK
    <3>2. CASE cmds[d] = <<>>  BY <3>2 DEF EndOf
    <3>3. CASE cmds[d] # <<>>
      <4>1. Len(cmds[d]) \in DOMAIN cmds[d]  BY <3>1, <3>3
      <4>2. cmds[d][Len(cmds[d])] \in Nat \X Nat  BY <3>1, <4>1
      <4> QED  BY <3>3, <4>2 DEF EndOf, EndPos
    <3> QED  BY <3>2, <3>3
  <2>5. /\ loaded' \in Dir \cup {0} /\ open' = {} /\ conn' \in [Dir -> Conn \cup {0}]
        /\ pending' \in [Dir -> {"none", "grace", "expired"}]
        /\ lastpos' \in [Dir -> Nat] /\ quiet' \in [Dir -> BOOLEAN]
    <3>1. CASE dirs' = {}
      <4>1. NoSession  BY <1>33, <3>1 DEF Restart
      <4> QED  BY <4>1 DEF NoSession, All
    <3>2. CASE dirs' # {}
      <4>1. PICK d \in dirs' : Load(d)  BY <1>33, <3>2 DEF Restart
      <4>2. d \in Dir  BY <2>2, <4>1
      <4>3. lastpos' \in [Dir -> Nat]  BY <2>4, <4>1, <4>2 DEF Load, All
      <4> QED  BY <4>1, <4>2, <4>3 DEF Load, All, TypeOK
    <3> QED  BY <3>1, <3>2
  <2>6. unordered' \in BOOLEAN  BY <1>33 DEF Restart
  <2>7. restarts' \in 0 .. MaxRestarts  BY <1>33 DEF Restart, TypeOK
  <2>8. up' = 0 /\ ready' = FALSE /\ hk' = "idle" /\ seen' = FALSE
    BY <1>33 DEF Restart
  <2>9. UNCHANGED <<conns, exited, ios, sent, late>>  BY <1>33 DEF Restart
  <2> QED  BY <2>2, <2>3, <2>5, <2>6, <2>7, <2>8, <2>9 DEF TypeOK
<1> QED
  BY <1>1, <1>2, <1>3, <1>4, <1>5, <1>6, <1>7, <1>8, <1>9, <1>10, <1>11, <1>12,
     <1>13, <1>14, <1>15, <1>16, <1>17, <1>18, <1>19, <1>20, <1>21, <1>22, <1>23,
     <1>24, <1>25, <1>26, <1>27, <1>28, <1>29, <1>30, <1>32, <1>33
  DEF Next, Step

-----------------------------------------------------------------------------
(* The steps that do touch the records.                                    *)

(* A new directory starts without records.                                 *)
LEMMA RegisterStep ==
    ASSUME RecordInv, TypeOK', NEW t \in Task, RegisterNew(t)
    PROVE  RecordInv'
<1>1. PICK d \in Dir :
        /\ Unused(d) /\ loaded' = d /\ dirs' = dirs \cup {d}
        /\ lastpos' = [lastpos EXCEPT ![d] = 0]
        /\ stream' = [stream EXCEPT ![d] = 0]
        /\ cmds' = [cmds EXCEPT ![d] = <<>>]
        /\ old' = [old EXCEPT ![d] = FALSE]
  BY DEF RegisterNew
<1>2. UNCHANGED <<hk, seen, unordered>>  BY DEF RegisterNew, job
<1>3. \A s \in Task : \A e : Pushing(s, e)' => Pushing(s, e) /\ Record(s)' = Record(s)
  BY FinishType DEF RegisterNew, RecordInv, Pushing, Record
<1>4. \A s \in Task : ~Pushing(s, d)'
  BY <1>1, <1>3 DEF Unused, Pushing
<1>5. \A e \in dirs : e # d /\ e \in Dir /\ cmds'[e] = cmds[e] /\ stream'[e] = stream[e]
  BY <1>1 DEF Unused, RecordInv, TypeOK
<1>6. cmds'[d] = <<>> /\ stream'[d] = 0 /\ lastpos'[d] = 0 /\ old'[d] = FALSE
  BY <1>1 DEF RecordInv, TypeOK
<1>7. DOMAIN cmds'[d] = {}  BY <1>6
<1>8. DirInv'  BY <1>1, <1>6 DEF DirInv
<1>9. WithinInv'  BY <1>1, <1>3, <1>4, <1>5, <1>6, <1>7 DEF RecordInv, WithinInv
<1>10. BehindInv'  BY <1>1, <1>4, <1>7 DEF BehindInv
<1>11. ApartInv'  BY <1>1, <1>2, <1>3, <1>4, <1>5, <1>7 DEF RecordInv, ApartInv
<1> QED  BY <1>8, <1>9, <1>10, <1>11 DEF RecordInv

(* Ranges end at natural numbers.                                          *)
LEMMA EndPosType ==
    ASSUME TypeOK
    PROVE  /\ \A d \in Dir : \A i \in DOMAIN cmds[d] : EndPos(cmds[d][i]) \in Nat
           /\ \A s \in Task : EndPos(Record(s)) \in Nat
<1>1. ASSUME NEW d \in Dir, NEW i \in DOMAIN cmds[d]
      PROVE  EndPos(cmds[d][i]) \in Nat
  <2>1. cmds[d] \in Seq(Nat \X Nat)  BY DEF TypeOK
  <2>2. cmds[d][i] \in Nat \X Nat  BY <1>1, <2>1
  <2> QED  BY <2>2 DEF EndPos
<1>2. ASSUME NEW s \in Task PROVE EndPos(Record(s)) \in Nat
  <2>1. task[s] \in TaskRecord  BY DEF TypeOK
  <2>2. task[s].offset \in Nat /\ task[s].length \in Nat  BY <2>1 DEF TaskRecord
  <2> QED  BY <2>2 DEF EndPos, Record
<1> QED  BY <1>1, <1>2

(* Output is appended to the stream.                                       *)
LEMMA WriteStep ==
    ASSUME RecordInv, TypeOK', NEW t \in Task, write_io(t)
    PROVE  RecordInv'
<1>1. /\ UNCHANGED <<loaded, lastpos, dirs, cmds, old, hk, seen, unordered>>
      /\ stream' = [stream EXCEPT ![loaded] = @ + 1]
  BY DEF write_io, job
<1>2. \A s \in Task : \A e : Pushing(s, e)' => Pushing(s, e) /\ Record(s)' = Record(s)
  BY FinishType DEF write_io, RecordInv, Pushing, Record
<1>3. \A d \in Dir : stream[d] \in Nat /\ stream'[d] \in Nat /\ stream[d] <= stream'[d]
  BY <1>1 DEF RecordInv, TypeOK
<1>4. \A d \in Dir : \A i \in DOMAIN cmds[d] : EndPos(cmds[d][i]) \in Nat
  BY EndPosType DEF RecordInv
<1>5. \A s \in Task : EndPos(Record(s)) \in Nat
  BY EndPosType DEF RecordInv
<1>6. \A d \in Dir : lastpos[d] \in Nat  BY DEF RecordInv, TypeOK
<1>7. loaded \in Dir \cup {0} /\ dirs \subseteq Dir  BY DEF RecordInv, TypeOK
<1>8. DirInv'  BY <1>1 DEF RecordInv, DirInv
<1>9. WithinInv'
  <2>1. loaded' # 0 => lastpos'[loaded'] <= stream'[loaded']
    BY <1>1, <1>3, <1>6, <1>7 DEF RecordInv, WithinInv
  <2>2. ASSUME NEW d \in dirs, NEW i \in DOMAIN cmds[d]
        PROVE EndPos(cmds[d][i]) <= stream'[d]
    BY <1>3, <1>4, <1>7 DEF RecordInv, WithinInv
  <2>3. ASSUME NEW d \in dirs, NEW s \in Task, Pushing(s, d)
        PROVE EndPos(Record(s)) <= stream'[d]
    BY <1>3, <1>5, <1>7, <2>3 DEF RecordInv, WithinInv
  <2> QED  BY <1>1, <1>2, <2>1, <2>2, <2>3 DEF WithinInv
<1>10. BehindInv'  BY <1>1, <1>2 DEF RecordInv, BehindInv
<1>11. ApartInv'  BY <1>1, <1>2 DEF RecordInv, ApartInv
<1> QED  BY <1>8, <1>9, <1>10, <1>11 DEF RecordInv

(* The range handed out begins where all earlier ones of the session end.  *)
LEMMA RangeStep ==
    ASSUME RecordInv, TypeOK', NEW t \in Task, CommandRange(t)
    PROVE  RecordInv'
<1> DEFINE new == [task[t] EXCEPT !.at = "push", !.dir = loaded,
                                  !.offset = lastpos[loaded],
                                  !.length = stream[loaded] - lastpos[loaded]]
<1>1. /\ UNCHANGED <<loaded, dirs, stream, cmds, old, hk, seen, unordered>>
      /\ lastpos' = [lastpos EXCEPT ![loaded] = stream[loaded]]
      /\ task' = [task EXCEPT ![t] = new]
      /\ loaded # 0 /\ task[t].at = "begin"
  BY DEF CommandRange, At, disk, job
<1>2. loaded \in Dir /\ loaded \in dirs /\ dirs \subseteq Dir
  BY <1>1 DEF RecordInv, TypeOK, DirInv
<1>3. /\ lastpos[loaded] \in Nat /\ stream[loaded] \in Nat
      /\ lastpos[loaded] <= stream[loaded]
      /\ lastpos'[loaded] = stream[loaded]
  BY <1>1, <1>2 DEF RecordInv, TypeOK, WithinInv
<1>4. /\ task'[t] = new /\ new.dir = loaded
      /\ \A s \in Task : s # t => task'[s] = task[s]
  BY <1>1 DEF RecordInv, TypeOK, TaskRecord
<1>5. Record(t)' = <<lastpos[loaded], stream[loaded] - lastpos[loaded]>>
  BY <1>4 DEF Record, RecordInv, TypeOK, TaskRecord
<1> HIDE DEF new
<1>6. EndPos(Record(t)') = stream[loaded] /\ Record(t)'[1] = lastpos[loaded]
  BY <1>3, <1>5 DEF EndPos
<1>7. \A s \in Task : \A e :
        Pushing(s, e)' => \/ s = t /\ e = loaded
                          \/ s # t /\ Pushing(s, e) /\ Record(s)' = Record(s)
  BY <1>4 DEF Pushing, Record
<1>8. DirInv'  BY <1>1 DEF RecordInv, DirInv
<1>9. \A d \in Dir : \A i \in DOMAIN cmds[d] : EndPos(cmds[d][i]) \in Nat
  BY EndPosType DEF RecordInv
<1>10. \A s \in Task : EndPos(Record(s)) \in Nat
  BY EndPosType DEF RecordInv
<1>11. WithinInv'
  <2>1. \A d \in dirs, s \in Task : Pushing(s, d)' => EndPos(Record(s)') <= stream[d]
    BY <1>3, <1>6, <1>7 DEF RecordInv, WithinInv
  <2>2. lastpos'[loaded] <= stream[loaded]  BY <1>3
  <2> QED  BY <1>1, <2>1, <2>2 DEF RecordInv, WithinInv
<1>12. BehindInv'
  <2> SUFFICES ASSUME ~unordered PROVE
        /\ \A i \in DOMAIN cmds[loaded] : EndPos(cmds[loaded][i]) <= stream[loaded]
        /\ \A s \in Task : Pushing(s, loaded)' => EndPos(Record(s)') <= stream[loaded]
    BY <1>1, <1>3 DEF BehindInv
  <2>1. \A i \in DOMAIN cmds[loaded] : EndPos(cmds[loaded][i]) <= stream[loaded]
    BY <1>2 DEF RecordInv, WithinInv
  <2>2. ASSUME NEW s \in Task, Pushing(s, loaded)'
        PROVE  EndPos(Record(s)') <= stream[loaded]
    <3>1. CASE s = t  BY <1>3, <1>6, <3>1
    <3>2. CASE s # t
      <4>1. Pushing(s, loaded) /\ Record(s)' = Record(s)  BY <1>1, <1>7, <2>2, <3>2
      <4> QED  BY <1>2, <4>1 DEF RecordInv, WithinInv
    <3> QED  BY <3>1, <3>2
  <2> QED  BY <2>1, <2>2
<1>13. ApartInv'
  <2> SUFFICES ASSUME ~unordered, NEW d \in dirs PROVE
        /\ \A i, j \in DOMAIN cmds[d] : i # j => Apart(cmds[d][i], cmds[d][j])
        /\ \A s \in Task, i \in DOMAIN cmds[d] :
              Pushing(s, d)' => Apart(Record(s)', cmds[d][i])
        /\ \A s, r \in Task :
              r # s /\ Pushing(r, d)' /\ Pushing(s, d)' => Apart(Record(r)', Record(s)')
    BY <1>1 DEF ApartInv
  <2>1. \A i, j \in DOMAIN cmds[d] : i # j => Apart(cmds[d][i], cmds[d][j])
    BY DEF RecordInv, ApartInv
  <2>2. ASSUME NEW s \in Task, NEW i \in DOMAIN cmds[d], Pushing(s, d)'
        PROVE Apart(Record(s)', cmds[d][i])
    <3>1. CASE s = t /\ d = loaded
      BY <1>1, <1>6, <3>1 DEF Apart, RecordInv, BehindInv
    <3>2. CASE s # t /\ Pushing(s, d) /\ Record(s)' = Record(s)
      BY <3>2 DEF RecordInv, ApartInv
    <3> QED  BY <1>7, <2>2, <3>1, <3>2
  <2>3. ASSUME NEW s \in Task, NEW r \in Task, r # s, Pushing(r, d)', Pushing(s, d)'
        PROVE Apart(Record(r)', Record(s)')
    <3>1. CASE s = t /\ d = loaded
      BY <1>1, <1>6, <1>7, <2>3, <3>1 DEF Apart, RecordInv, BehindInv
    <3>2. CASE r = t /\ d = loaded
      BY <1>1, <1>6, <1>7, <2>3, <3>2 DEF Apart, RecordInv, BehindInv
    <3>3. CASE s # t /\ r # t
      BY <1>7, <2>3, <3>3 DEF RecordInv, ApartInv
    <3> QED  BY <1>7, <2>3, <3>1, <3>2, <3>3
  <2> QED  BY <2>1, <2>2, <2>3
<1> QED  BY <1>8, <1>11, <1>12, <1>13 DEF RecordInv

(* What Append keeps of a log.                                             *)
LEMMA AppendFacts ==
    ASSUME NEW S, NEW q \in Seq(S), NEW x \in S
    PROVE  /\ DOMAIN Append(q, x) = DOMAIN q \cup {Len(q) + 1}
           /\ Len(q) + 1 \notin DOMAIN q
           /\ \A i \in DOMAIN q : Append(q, x)[i] = q[i]
           /\ Append(q, x)[Len(q) + 1] = x
OBVIOUS

(* The record moves from the handler to commands.json.                     *)
LEMMA PushStep ==
    ASSUME RecordInv, TypeOK', NEW t \in Task, CommandPush(t)
    PROVE  RecordInv'
<1> DEFINE d == task[t].dir
           log == Append(cmds[d], Record(t))
<1>1. /\ UNCHANGED <<loaded, lastpos, dirs, stream, hk, seen, unordered>>
      /\ old' = [old EXCEPT ![d] = FALSE]
      /\ cmds' = IF d \in dirs THEN [cmds EXCEPT ![d] = log] ELSE cmds
      /\ Pushing(t, d)
  BY DEF CommandPush, session, job, At, Pushing
<1>2. \A s \in Task : \A e : Pushing(s, e)' => Pushing(s, e) /\ Record(s)' = Record(s) /\ s # t
  <2>1. task'[t].at = "begin"  BY FinishType DEF CommandPush, RecordInv, Free
  <2> QED  BY <2>1, FinishType DEF CommandPush, RecordInv, Pushing, Record
<1>3. loaded \in Dir \cup {0} /\ dirs \subseteq Dir  BY DEF RecordInv, TypeOK
<1>4. DirInv'
  BY <1>1, <1>3 DEF RecordInv, DirInv, TypeOK
<1>5. CASE d \notin dirs
  <2>1. cmds' = cmds  BY <1>1, <1>5
  <2>2. WithinInv'  BY <1>1, <1>2, <2>1 DEF RecordInv, WithinInv
  <2>3. BehindInv'  BY <1>1, <1>2, <2>1 DEF RecordInv, BehindInv
  <2>4. ApartInv'  BY <1>1, <1>2, <2>1 DEF RecordInv, ApartInv
  <2> QED  BY <1>4, <2>2, <2>3, <2>4 DEF RecordInv
<1>6. CASE d \in dirs
  <2>1. cmds[d] \in Seq(Nat \X Nat) /\ d \in Dir  BY <1>3, <1>6 DEF RecordInv, TypeOK
  <2>2. Record(t) \in Nat \X Nat
    <3>1. task[t] \in TaskRecord  BY DEF RecordInv, TypeOK
    <3> QED  BY <3>1 DEF Record, TaskRecord
  <2>3. /\ DOMAIN log = DOMAIN cmds[d] \cup {Len(cmds[d]) + 1}
        /\ Len(cmds[d]) + 1 \notin DOMAIN cmds[d]
        /\ \A i \in DOMAIN cmds[d] : log[i] = cmds[d][i]
        /\ log[Len(cmds[d]) + 1] = Record(t)
    <3> DEFINE q == cmds[d]
               x == Record(t)
               S == Nat \X Nat
    <3>1. q \in Seq(S) /\ x \in S  BY <2>1, <2>2
    <3>2. log = Append(q, x)  OBVIOUS
    <3> HIDE DEF q, x, S, d, log
    <3>3. /\ DOMAIN log = DOMAIN q \cup {Len(q) + 1}
          /\ Len(q) + 1 \notin DOMAIN q
          /\ \A i \in DOMAIN q : log[i] = q[i]
          /\ log[Len(q) + 1] = x
      BY <3>1, <3>2, AppendFacts
    <3> QED  BY <3>3 DEF q, x
  <2>4. cmds'[d] = log /\ \A e \in Dir : e # d => cmds'[e] = cmds[e]
    BY <1>1, <1>6, <2>1 DEF RecordInv, TypeOK
  <2> HIDE DEF d, log
  <2>5. WithinInv'
    <3>1. \A i \in DOMAIN log : EndPos(log[i]) <= stream[d]
      BY <1>1, <1>6, <2>3 DEF RecordInv, WithinInv
    <3>2. \A e \in dirs : \A i \in DOMAIN cmds'[e] : EndPos(cmds'[e][i]) <= stream[e]
      BY <1>3, <2>4, <3>1 DEF RecordInv, WithinInv
    <3> QED  BY <1>1, <1>2, <3>2 DEF RecordInv, WithinInv
  <2>6. BehindInv'
    <3> SUFFICES ASSUME ~unordered, loaded # 0 PROVE
          /\ \A i \in DOMAIN cmds'[loaded] : EndPos(cmds'[loaded][i]) <= lastpos[loaded]
          /\ \A s \in Task : Pushing(s, loaded) /\ s # t => EndPos(Record(s)) <= lastpos[loaded]
      BY <1>1, <1>2 DEF BehindInv
    <3>1. CASE loaded = d
      BY <1>1, <2>3, <2>4, <3>1 DEF RecordInv, BehindInv
    <3>2. CASE loaded # d
      BY <1>3, <2>4, <3>2 DEF RecordInv, BehindInv
    <3> QED  BY <3>1, <3>2
  <2>7. ApartInv'
    <3> SUFFICES ASSUME ~unordered, NEW e \in dirs PROVE
          /\ \A i, j \in DOMAIN cmds'[e] : i # j => Apart(cmds'[e][i], cmds'[e][j])
          /\ \A s \in Task, i \in DOMAIN cmds'[e] :
                Pushing(s, e) /\ s # t => Apart(Record(s), cmds'[e][i])
          /\ \A r, s \in Task :
                r # s /\ Pushing(r, e) /\ Pushing(s, e) => Apart(Record(r), Record(s))
      BY <1>1, <1>2 DEF ApartInv
    <3>1. \A r, s \in Task :
             r # s /\ Pushing(r, e) /\ Pushing(s, e) => Apart(Record(r), Record(s))
      BY DEF RecordInv, ApartInv
    <3>2. CASE e = d
      <4>1. \A i \in DOMAIN cmds[d] : Apart(Record(t), cmds[d][i]) /\ Apart(cmds[d][i], Record(t))
        BY <1>1, <1>6 DEF RecordInv, ApartInv, Apart
      <4>2. \A i, j \in DOMAIN log : i # j => Apart(log[i], log[j])
        BY <1>6, <2>3, <4>1 DEF RecordInv, ApartInv
      <4>3. \A s \in Task, i \in DOMAIN log :
               Pushing(s, d) /\ s # t => Apart(Record(s), log[i])
        BY <1>1, <1>6, <2>3 DEF RecordInv, ApartInv
      <4> QED  BY <2>4, <3>1, <3>2, <4>2, <4>3
    <3>3. CASE e # d
      <4>1. cmds'[e] = cmds[e]  BY <1>3, <2>4, <3>3
      <4> QED  BY <3>1, <4>1 DEF RecordInv, ApartInv
    <3> QED  BY <3>2, <3>3
  <2> QED  BY <1>4, <2>5, <2>6, <2>7 DEF RecordInv
<1> QED  BY <1>5, <1>6

(* An evicted session keeps its directory.                                 *)
LEMMA EvictStep ==
    ASSUME RecordInv, TypeOK', EvictRemove
    PROVE  RecordInv'
<1>1. /\ loaded' = 0 /\ hk' = "list"
      /\ UNCHANGED <<task, dirs, stream, cmds, old, seen, unordered>>
  BY DEF EvictRemove, NoSession, disk
<1>2. \A t \in Task : \A d : (Pushing(t, d)' <=> Pushing(t, d)) /\ Record(t)' = Record(t)
  BY <1>1 DEF Pushing, Record
<1>3. DirInv' /\ BehindInv'  BY <1>1 DEF DirInv, BehindInv
<1>4. WithinInv'  BY <1>1, <1>2 DEF RecordInv, WithinInv
<1>5. ApartInv'  BY <1>1, <1>2 DEF RecordInv, ApartInv
<1> QED  BY <1>3, <1>4, <1>5 DEF RecordInv

(* The loaded session was in the map when the clean-up listed it, or was   *)
(* created since and is not old.                                           *)
LEMMA CleanupStep ==
    ASSUME RecordInv, TypeOK', CleanupDelete
    PROVE  RecordInv'
<1> DEFINE D == IF seen THEN dirs ELSE {d \in dirs : ~old[d]}
<1>1. /\ hk = "delete" /\ hk' = "idle" /\ Keep(D)
      /\ UNCHANGED <<task, loaded, lastpos, unordered>>
  BY DEF CleanupDelete, session
<1>2. D \subseteq dirs /\ D \subseteq Dir  BY DEF RecordInv, TypeOK
<1>3. loaded # 0 => loaded \in D  BY <1>1 DEF RecordInv, DirInv
<1> HIDE DEF D
<1>4. dirs' = D /\ \A d \in D : stream'[d] = stream[d] /\ cmds'[d] = cmds[d]
  BY <1>1, <1>2 DEF Keep
<1>5. \A t \in Task : \A d : (Pushing(t, d)' <=> Pushing(t, d)) /\ Record(t)' = Record(t)
  BY <1>1 DEF Pushing, Record
<1>6. DirInv'  BY <1>1, <1>3, <1>4 DEF DirInv
<1>7. WithinInv'  BY <1>1, <1>2, <1>3, <1>4, <1>5 DEF RecordInv, WithinInv
<1>8. BehindInv'  BY <1>1, <1>3, <1>4, <1>5 DEF RecordInv, BehindInv
<1>9. ApartInv'  BY <1>1, <1>2, <1>4, <1>5 DEF RecordInv, ApartInv
<1> QED  BY <1>6, <1>7, <1>8, <1>9 DEF RecordInv

(* load_existing resumes at the end of the last record; no handler of the  *)
(* earlier process is left.                                                *)
LEMMA EndOfFacts ==
    ASSUME TypeOK, NEW d \in Dir
    PROVE  /\ cmds[d] = <<>> => EndOf(cmds[d]) = 0
           /\ cmds[d] # <<>> => \E i \in DOMAIN cmds[d] : EndOf(cmds[d]) = EndPos(cmds[d][i])
<1>1. cmds[d] \in Seq(Nat \X Nat)  BY DEF TypeOK
<1>2. cmds[d] # <<>> => Len(cmds[d]) \in DOMAIN cmds[d]  BY <1>1
<1> QED  BY <1>2 DEF EndOf

(* load_existing resumes behind the last record.                           *)
LEMMA RestartStep ==
    ASSUME RecordInv, TypeOK', Restart
    PROVE  RecordInv'
<1>1. PICK torn \in SUBSET {d \in dirs : Saving(d)} : Keep(dirs \ torn)
  BY DEF Restart
<1>2. dirs \ torn \subseteq Dir  BY DEF RecordInv, TypeOK
<1>3. /\ dirs' = dirs \ torn
      /\ \A d \in dirs' : d \in dirs /\ d \in Dir /\ stream'[d] = stream[d] /\ cmds'[d] = cmds[d]
  BY <1>1, <1>2 DEF Keep
<1>4. \A t \in Task : \A d : ~Pushing(t, d)'
  BY DEF Restart, Free, Pushing
<1>5. hk' = "idle"  BY DEF Restart
<1>6. ~unordered' => ~unordered /\ \A d \in dirs' : InOrder(cmds[d])
  BY DEF Restart
<1>7. ApartInv'  BY <1>3, <1>4, <1>6 DEF RecordInv, ApartInv
<1>8. \A d \in dirs' : \A i \in DOMAIN cmds[d] : EndPos(cmds[d][i]) <= stream[d]
  BY <1>3 DEF RecordInv, WithinInv
<1>9. CASE dirs' = {}
  <2>1. loaded' = 0  BY <1>9 DEF Restart, NoSession
  <2> QED  BY <1>5, <1>7, <1>9, <2>1 DEF RecordInv, DirInv, WithinInv, BehindInv
<1>10. CASE dirs' # {}
  <2>1. PICK d \in dirs' : Load(d)  BY <1>10 DEF Restart
  <2>2. d \in Dir /\ loaded' = d /\ d # 0
    BY <1>3, <2>1, BoundsAssumption DEF Load, Dir
  <2>3. lastpos'[d] = EndOf(cmds[d])  BY <2>1, <2>2 DEF Load, All
  <2>4. EndOf(cmds[d]) <= stream[d]
    <3>1. stream[d] \in Nat  BY <2>2 DEF RecordInv, TypeOK
    <3>2. CASE cmds[d] = <<>>
      BY <2>2, <3>1, <3>2, EndOfFacts DEF RecordInv
    <3>3. CASE cmds[d] # <<>>
      BY <1>8, <2>1, <2>2, <3>3, EndOfFacts DEF RecordInv
    <3> QED  BY <3>2, <3>3
  <2>5. DirInv'  BY <1>5, <2>1, <2>2 DEF DirInv
  <2>6. WithinInv'  BY <1>3, <1>4, <1>8, <2>1, <2>2, <2>3, <2>4 DEF WithinInv
  <2>7. BehindInv'
    BY <1>3, <1>4, <1>6, <2>1, <2>2, <2>3 DEF BehindInv, InOrder
  <2> QED  BY <1>7, <2>5, <2>6, <2>7 DEF RecordInv
<1> QED  BY <1>9, <1>10

(* Every step keeps the invariant.                                         *)
LEMMA NextInv ==
    ASSUME RecordInv, [Next]_vars
    PROVE  RecordInv'
<1>0. CASE UNCHANGED vars
  <2>1. TypeOK'
    BY <1>0 DEF vars, client, session, disk, job, RecordInv, TypeOK
  <2>2. Untouched /\ Housekeeping
    BY <1>0 DEF vars, session, disk, job, Untouched, Housekeeping
  <2> QED  BY <2>1, <2>2, UntouchedStep
<1> SUFFICES ASSUME Next PROVE RecordInv'
  BY <1>0
<1>1. TypeOK'  BY TypeStep DEF RecordInv
<1>2. TypeOK  BY DEF RecordInv
<1>3. CASE Connect \/ SendUpdate \/ SendIo \/ SendCommand \/ SendEnd \/ Drop \/ Quit
  <2>1. UNCHANGED <<session, disk, job, unordered>>
    BY <1>3 DEF Connect, SendUpdate, SendIo, SendCommand, SendEnd, Drop, Quit
  <2>2. \A t \in Task : task'[t].at = "push" => task'[t] = task[t]
    <3>1. CASE Connect
      <4> DEFINE c == conns + 1
      <4>1. c \in Conn /\ Spawn("start", c)
        BY <1>2, <3>1, BoundsAssumption DEF Connect, TypeOK, Conn
      <4> HIDE DEF c
      <4> QED  BY <1>2, <4>1, SpawnType
    <3>2. CASE SendUpdate  BY <1>2, <3>2, SpawnType DEF SendUpdate, TypeOK
    <3>3. CASE SendIo  BY <1>2, <3>3, SpawnType DEF SendIo, TypeOK
    <3>4. CASE SendCommand  BY <1>2, <3>4, SpawnType DEF SendCommand, TypeOK
    <3>5. CASE SendEnd  BY <1>2, <3>5, SpawnType DEF SendEnd, TypeOK
    <3>6. CASE Drop  BY <1>2, <3>6, SpawnType DEF Drop, TypeOK
    <3>7. CASE Quit  BY <3>7 DEF Quit
    <3> QED  BY <1>3, <3>1, <3>2, <3>3, <3>4, <3>5, <3>6, <3>7
  <2>3. Untouched /\ Housekeeping
    BY <2>1, <2>2 DEF Untouched, Housekeeping, session, disk, job
  <2> QED  BY <1>1, <2>3, UntouchedStep
<1>4. ASSUME NEW t \in Task, Step(t) PROVE RecordInv'
  <2> DEFINE Quiet == UNCHANGED <<loaded, lastpos, dirs, stream, cmds, unordered, job, old>>
             Calm  == \A s \in Task : task'[s].at = "push" => task'[s] = task[s]
  <2>1. ASSUME Quiet, Calm PROVE RecordInv'
    <3>1. Untouched /\ Housekeeping  BY <2>1 DEF Untouched, Housekeeping, job
    <3> QED  BY <1>1, <3>1, UntouchedStep
  <2>2. task[t].dir \in Dir \cup {0} /\ loaded \in Dir \cup {0}
    BY <1>2 DEF TypeOK, TaskRecord
  <2>3. CASE RegisterNew(t)  BY <1>1, <2>3, RegisterStep
  <2>4. CASE RebindMeta(t) \/ EndMark(t)
    <3>1. Calm  BY <1>2, <2>2, <2>4, GotoType DEF RebindMeta, EndMark
    <3>2. Quiet  BY <2>4 DEF RebindMeta, EndMark, session
    <3> QED  BY <2>1, <3>1, <3>2
  <2>5. CASE RebindConn(t) \/ EndUnbind(t) \/ EndTimer(t) \/ DisconnectUnbind(t)
    <3>1. Calm
      BY <1>2, <2>2, <2>5, GotoType DEF RebindConn, EndUnbind, EndTimer, DisconnectUnbind
    <3>2. Quiet  BY <2>5 DEF RebindConn, EndUnbind, EndTimer, DisconnectUnbind, disk
    <3> QED  BY <2>1, <3>1, <3>2
  <2>6. CASE RebindTimer(t) \/ NotLoaded(t) \/ update_attrs(t) \/ EndFlush(t)
             \/ DisconnectOther(t) \/ DisconnectTimer(t)
    <3>1. Finish(t)
      BY <2>6 DEF RebindTimer, NotLoaded, update_attrs, EndFlush, DisconnectOther,
                  DisconnectTimer
    <3>2. Calm  BY <1>2, <3>1, FinishType
    <3>3. Quiet
      BY <2>6 DEF RebindTimer, NotLoaded, update_attrs, EndFlush, DisconnectOther,
                  DisconnectTimer, session, disk
    <3> QED  BY <2>1, <3>2, <3>3
  <2>7. CASE write_io(t)  BY <1>1, <2>7, WriteStep
  <2>8. CASE CommandRange(t)  BY <1>1, <2>8, RangeStep
  <2>9. CASE CommandPush(t)  BY <1>1, <2>9, PushStep
  <2> QED  BY <1>4, <2>3, <2>4, <2>5, <2>6, <2>7, <2>8, <2>9 DEF Step
<1>5. CASE GraceElapses \/ RetentionElapses \/ close_idle_writers \/ EvictScan \/ CleanupList
  <2>1. Untouched
    BY <1>5 DEF GraceElapses, RetentionElapses, close_idle_writers, EvictScan, CleanupList,
                Untouched, session, disk
  <2>2. Housekeeping
    <3>1. CASE GraceElapses \/ close_idle_writers
      BY <3>1 DEF GraceElapses, close_idle_writers, Housekeeping, disk, job
    <3>2. CASE RetentionElapses
      <4>1. hk = "idle" /\ UNCHANGED <<hk, seen>> /\ old' \in [Dir -> BOOLEAN]
        BY <3>2, <1>1 DEF RetentionElapses, job, TypeOK
      <4> QED  BY <4>1 DEF Housekeeping
    <3>3. CASE EvictScan  BY <3>3 DEF EvictScan, Housekeeping, disk
    <3>4. CASE CleanupList  BY <3>4 DEF CleanupList, Housekeeping, disk
    <3> QED  BY <1>5, <3>1, <3>2, <3>3, <3>4
  <2> QED  BY <1>1, <2>1, <2>2, UntouchedStep
<1>6. CASE SweepScan
  <2>1. \A t \in Task : task'[t].at = "push" => task'[t] = task[t]
    <3>1. task' = task \/ task' = [task EXCEPT ![0] = [Free EXCEPT !.kind = "end"]]
      BY <1>6 DEF SweepScan
    <3>2. [Free EXCEPT !.kind = "end"].at = "begin"  BY DEF Free
    <3> QED  BY <1>2, <3>1, <3>2 DEF TypeOK
  <2>2. Untouched /\ Housekeeping
    BY <1>6, <2>1 DEF SweepScan, Untouched, Housekeeping, disk, job
  <2> QED  BY <1>1, <2>2, UntouchedStep
<1>7. CASE EvictRemove  BY <1>1, <1>7, EvictStep
<1>8. CASE CleanupDelete  BY <1>1, <1>8, CleanupStep
<1>9. CASE Restart  BY <1>1, <1>9, RestartStep
<1> QED  BY <1>3, <1>4, <1>5, <1>6, <1>7, <1>8, <1>9 DEF Next

-----------------------------------------------------------------------------
(* The theorems.                                                           *)

(* The inductive invariant holds of every behaviour of the session map,    *)
(* its handlers, jobs and restarts.                                        *)
THEOREM RecordInvHolds == Spec => []RecordInv
<1>1. Init => RecordInv  BY InitInv
<1>2. RecordInv /\ [Next]_vars => RecordInv'  BY NextInv
<1> QED  BY <1>1, <1>2, PTL DEF Spec

(* Every variable of the session model keeps its type; in particular the   *)
(* stream_length that receive_command computes by subtraction is never     *)
(* negative.                                                               *)
THEOREM SessionTypeCorrect == Spec => []TypeOK
<1>1. RecordInv => TypeOK  BY DEF RecordInv
<1> QED  BY <1>1, RecordInvHolds, PTL

(* cleanup_expired_dirs never deletes the directory of a loaded session.   *)
THEOREM LoadedDirsAreKept == Spec => []LoadedDirExists
<1>1. RecordInv => LoadedDirExists  BY DEF RecordInv, DirInv, LoadedDirExists
<1> QED  BY <1>1, RecordInvHolds, PTL

(* The ranges receive_command saves lie within stream.bin.                 *)
THEOREM RecordsAreInTheStream == Spec => []RangesWithinStream
<1>1. RecordInv => RangesWithinStream
  BY DEF RecordInv, WithinInv, RangesWithinStream
<1> QED  BY <1>1, RecordInvHolds, PTL

(* Two commands never share output, as long as each restart of the daemon  *)
(* finds the records in the order of their ranges.                         *)
THEOREM RecordsAreDisjoint == Spec => []RangesDisjoint
<1>1. RecordInv => RangesDisjoint  BY DEF RecordInv, ApartInv, RangesDisjoint
<1> QED  BY <1>1, RecordInvHolds, PTL

(* No step shortens or changes a session's command history, except the two *)
(* that remove a whole directory: a crash in the middle of a save of it,   *)
(* and the clean-up of a session that is neither loaded nor recent.        *)
THEOREM HistoryIsKept == Spec => HistoryKept
<1>1. ASSUME RecordInv, Next PROVE HistoryStep
  <2> SUFFICES ASSUME NEW d \in dirs
      PROVE \/ d \in dirs' /\ Extends(cmds'[d], cmds[d])
            \/ d \notin dirs' /\ restarts' # restarts /\ Saving(d)
            \/ d \notin dirs' /\ old[d] /\ loaded # d
    BY DEF HistoryStep
  <2>1. d \in Dir /\ cmds[d] \in Seq(Nat \X Nat)  BY <1>1 DEF RecordInv, TypeOK
  <2>2. ASSUME d \in dirs', cmds'[d] = cmds[d] PROVE d \in dirs' /\ Extends(cmds'[d], cmds[d])
    BY <2>2 DEF Extends
  <2>3. CASE UNCHANGED <<dirs, cmds>>  BY <2>2, <2>3
  <2>4. ASSUME NEW t \in Task, RegisterNew(t) PROVE d \in dirs' /\ Extends(cmds'[d], cmds[d])
    <3>1. PICK e \in Dir : Unused(e) /\ dirs' = dirs \cup {e} /\ cmds' = [cmds EXCEPT ![e] = <<>>]
      BY <2>4 DEF RegisterNew
    <3>2. e # d  BY <3>1 DEF Unused
    <3> QED  BY <1>1, <2>1, <2>2, <3>1, <3>2 DEF RecordInv, TypeOK
  <2>5. ASSUME NEW t \in Task, CommandPush(t) PROVE d \in dirs' /\ Extends(cmds'[d], cmds[d])
    <3>1. dirs' = dirs  BY <2>5 DEF CommandPush
    <3>2. cmds'[d] = cmds[d] \/ cmds'[d] = Append(cmds[d], Record(t))
      BY <1>1, <2>1, <2>5 DEF CommandPush, RecordInv, TypeOK
    <3>3. Record(t) \in Nat \X Nat
      <4>1. task[t] \in TaskRecord  BY <1>1, <2>5 DEF RecordInv, TypeOK
      <4> QED  BY <4>1 DEF Record, TaskRecord
    <3>4. CASE cmds'[d] = Append(cmds[d], Record(t))
      <4> DEFINE q == cmds[d]
                 x == Record(t)
                 S == Nat \X Nat
      <4>1. q \in Seq(S) /\ x \in S  BY <2>1, <3>3
      <4> HIDE DEF q, x, S
      <4>2. Extends(Append(q, x), q)  BY <4>1, AppendFacts DEF Extends
      <4> QED  BY <3>1, <3>4, <4>2 DEF q, x
    <3> QED  BY <2>2, <3>1, <3>2, <3>4
  <2>6. ASSUME NEW D \in SUBSET dirs, Keep(D)
        PROVE  /\ d \in D => d \in dirs' /\ Extends(cmds'[d], cmds[d])
               /\ d \notin D => d \notin dirs'
    BY <2>1, <2>2, <2>6 DEF Keep
  <2>7. CASE CleanupDelete
    <3> DEFINE D == IF seen THEN dirs ELSE {e \in dirs : ~old[e]}
    <3>1. Keep(D) /\ D \in SUBSET dirs /\ hk = "delete"  BY <2>7 DEF CleanupDelete
    <3>2. d \notin D => old[d] /\ ~seen  OBVIOUS
    <3>3. d \notin D => loaded # d
      <4>1. loaded = d => loaded # 0  BY <2>1, BoundsAssumption DEF Dir
      <4> QED  BY <1>1, <3>1, <3>2, <4>1 DEF RecordInv, DirInv
    <3> HIDE DEF D
    <3> QED  BY <2>6, <3>1, <3>2, <3>3
  <2>8. CASE Restart
    <3>1. PICK torn \in SUBSET {e \in dirs : Saving(e)} : Keep(dirs \ torn)
      BY <2>8 DEF Restart
    <3>2. d \in torn => Saving(d)  BY <3>1
    <3>3. restarts' # restarts  BY <1>1, <2>8, BoundsAssumption DEF Restart, RecordInv, TypeOK
    <3> QED  BY <2>6, <3>1, <3>2, <3>3
  <2>9. CASE Connect \/ SendUpdate \/ SendIo \/ SendCommand \/ SendEnd \/ Drop \/ Quit
             \/ GraceElapses \/ RetentionElapses \/ SweepScan \/ close_idle_writers
             \/ EvictScan \/ EvictRemove \/ CleanupList
    BY <2>3, <2>9 DEF Connect, SendUpdate, SendIo, SendCommand, SendEnd, Drop, Quit,
         GraceElapses, RetentionElapses, SweepScan, close_idle_writers, EvictScan,
         EvictRemove, CleanupList, disk
  <2>10. ASSUME NEW t \in Task, Step(t), ~RegisterNew(t), ~CommandPush(t)
         PROVE  UNCHANGED <<dirs, cmds>>
    BY <2>10 DEF Step, RebindMeta, RebindConn, RebindTimer, NotLoaded, update_attrs,
         write_io, CommandRange, EndMark, EndUnbind, EndTimer, EndFlush,
         DisconnectOther, DisconnectUnbind, DisconnectTimer, disk
  <2> QED  BY <1>1, <2>3, <2>4, <2>5, <2>7, <2>8, <2>9, <2>10 DEF Next
<1>2. RecordInv /\ [Next]_vars => [HistoryStep]_vars  BY <1>1
<1> QED  BY <1>2, RecordInvHolds, PTL DEF Spec, HistoryKept

-----------------------------------------------------------------------------
(* The binding of a session to its client's connection.                    *)

(* Tasks of connections.  A SessionStart is the only one of its            *)
(* connection; a lost connection is not the client's; the session of a     *)
(* rebind stays loaded, and one that is being ended stays ended.           *)
SlotInv ==
    \A t \in Task :
        /\ task[t].kind \in {"start", "disconnect"} => task[t].conn \in 1 .. conns
        /\ task[t].kind = "disconnect" => task[t].conn # up
        /\ task[t].kind = "start" /\ ready => task[t].conn # up
        /\ task[t].kind = "start" =>
              t \in Slot /\ (task[t].at \in {"bind", "timer"} => loaded # 0 /\ task[t].dir = loaded)
        /\ /\ task[t].kind = "end" /\ task[t].at \in {"unbind", "untime", "flush"}
           /\ task[t].dir \in dirs
           => ended[task[t].dir]

OneStart ==
    \A t, s \in Task :
        t # s /\ task[t].kind = "start" /\ task[s].kind = "start" => task[t].conn # task[s].conn

(* The client has its connection, or its SessionStart has bound it.        *)
Registered == ready \/ \E t \in Task : At(t, "start", "timer") /\ task[t].conn = up

Bound == conn[loaded] = up \/ ended[loaded] \/ \E t \in Task : At(t, "start", "bind")

BindInv ==
    /\ up <= conns /\ (ready => up # 0)
    /\ SlotInv /\ OneStart
    /\ ~late /\ loaded # 0 /\ Registered => Bound

-----------------------------------------------------------------------------
(* What the steps do to the tasks.                                         *)

(* A new task of a frame takes a slot that was idle.                       *)
LEMMA SpawnTakesIdle ==
    ASSUME TypeOK, NEW kind, NEW c, Spawn(kind, c)
    PROVE  \E t \in Slot : \E x : /\ task[t].kind = "none"
                                  /\ task' = [task EXCEPT ![t] = x]
                                  /\ x.kind = kind /\ x.at = "begin" /\ x.conn = c
<1>1. NextSlot \in Slot /\ Idle(NextSlot)  BY DEF Spawn, NextSlot
<1>2. task' = [task EXCEPT ![NextSlot] = [Free EXCEPT !.kind = kind, !.conn = c]]  BY DEF Spawn
<1>3. PICK x : x = [Free EXCEPT !.kind = kind, !.conn = c]  OBVIOUS
<1>4. x.kind = kind /\ x.at = "begin" /\ x.conn = c  BY <1>3 DEF Free
<1> QED  BY <1>1, <1>2, <1>3, <1>4 DEF Idle

(* Slots of frames are tasks; the sweep has none of them.                  *)
LEMMA SlotsAreTasks == Slot \subseteq Task /\ 0 \notin Slot
BY BoundsAssumption DEF Slot, Task

(* A handler goes on: only its place and directory change.                 *)
LEMMA GotoFacts ==
    ASSUME TypeOK, NEW t \in Task, NEW l, NEW d, Goto(t, l, d)
    PROVE  /\ task'[t].kind = task[t].kind /\ task'[t].conn = task[t].conn
           /\ task'[t].at = l /\ task'[t].dir = d
           /\ \A s \in Task : s # t => task'[s] = task[s]
<1>1. task[t] \in TaskRecord /\ DOMAIN task = Task  BY DEF TypeOK
<1>2. task' = [task EXCEPT ![t] = [task[t] EXCEPT !.at = l, !.dir = d]]
  BY <1>1 DEF Goto, TaskRecord
<1>3. PICK x : x = [task[t] EXCEPT !.at = l, !.dir = d]  OBVIOUS
<1>4. x.kind = task[t].kind /\ x.conn = task[t].conn /\ x.at = l /\ x.dir = d
  BY <1>1, <1>3 DEF TaskRecord
<1>5. task' = [task EXCEPT ![t] = x]  BY <1>2, <1>3
<1> QED  BY <1>1, <1>4, <1>5

(* A task that neither binds nor ends the session.                         *)
Harmless(x) ==
    \/ x.kind \in {"none", "update", "io", "command"}
    \/ x.kind = "end" /\ x.at = "begin"
    \/ x.kind = "end" /\ (x.dir \in dirs => ended[x.dir])

(* Steps that leave the binding, the ending and the SessionStarts alone.   *)
Calm ==
    /\ UNCHANGED <<up, ready, conns, loaded, conn, ended, dirs>>
    /\ late => late'
    /\ \A s \in Task : \/ task'[s] = task[s]
                       \/ task[s].kind # "start" /\ Harmless(task'[s])

(* Calm steps keep tasks and bindings in agreement.                        *)
LEMMA CalmStep ==
    ASSUME BindInv, Calm
    PROVE  BindInv'
<1>1. \A s \in Task : task'[s].kind = "start" => task'[s] = task[s]  BY DEF Calm, Harmless
<1>2. \A s \in Task : task[s].kind = "start" => task'[s] = task[s]  BY DEF Calm
<1>3. SlotInv'
  <2> SUFFICES ASSUME NEW t \in Task
      PROVE /\ task'[t].kind \in {"start", "disconnect"} => task'[t].conn \in 1 .. conns
            /\ task'[t].kind = "disconnect" => task'[t].conn # up
            /\ task'[t].kind = "start" /\ ready => task'[t].conn # up
            /\ task'[t].kind = "start" =>
                  t \in Slot /\ (task'[t].at \in {"bind", "timer"} => loaded # 0 /\ task'[t].dir = loaded)
            /\ /\ task'[t].kind = "end" /\ task'[t].at \in {"unbind", "untime", "flush"}
               /\ task'[t].dir \in dirs
               => ended[task'[t].dir]
    BY DEF Calm, SlotInv
  <2>1. CASE task'[t] = task[t]  BY <2>1 DEF BindInv, SlotInv
  <2>2. CASE Harmless(task'[t])  BY <2>2 DEF Harmless
  <2> QED  BY <2>1, <2>2 DEF Calm
<1>4. OneStart'  BY <1>1 DEF BindInv, OneStart
<1>5. ~late' /\ loaded' # 0 /\ Registered' => Bound'
  <2> SUFFICES ASSUME ~late', loaded' # 0, Registered'  PROVE Bound'  OBVIOUS
  <2>1. Registered
    <3>1. CASE ready'  BY <3>1 DEF Calm, Registered
    <3>2. ASSUME NEW t \in Task, At(t, "start", "timer")', task'[t].conn = up'  PROVE Registered
      BY <1>1, <3>2 DEF Calm, Registered, At
    <3> QED  BY <3>1, <3>2 DEF Registered
  <2>2. Bound  BY <2>1 DEF BindInv, Calm
  <2>3. CASE conn[loaded] = up \/ ended[loaded]  BY <2>3 DEF Calm, Bound
  <2>4. ASSUME NEW t \in Task, At(t, "start", "bind")  PROVE Bound'
    BY <1>2, <2>4 DEF Bound, At
  <2> QED  BY <2>2, <2>3, <2>4 DEF Bound
<1>6. up' <= conns' /\ (ready' => up' # 0)  BY DEF BindInv, Calm
<1> QED  BY <1>3, <1>4, <1>5, <1>6 DEF BindInv

(* Nothing is bound or under way at first.                                 *)
LEMMA InitBind == Init => BindInv
<1> SUFFICES ASSUME Init  PROVE BindInv  OBVIOUS
<1>1. \A t \in Task : task[t].kind = "none"  BY DEF Init, Free
<1>2. up = 0 /\ conns = 0 /\ ready = FALSE /\ loaded = 0  BY DEF Init
<1> QED  BY <1>1, <1>2 DEF BindInv, SlotInv, OneStart

(* A finished task.                                                        *)
LEMMA FreeFacts ==
    ASSUME TypeOK, NEW t \in Task, Finish(t)
    PROVE  task'[t].kind = "none" /\ \A s \in Task : s # t => task'[s] = task[s]
BY FinishType DEF Free

(* The calm steps of the client, the handlers and the jobs.                *)
LEMMA CalmClient ==
    ASSUME TypeOK, SendUpdate \/ SendIo \/ SendCommand \/ SendEnd \/ Quit
    PROVE  Calm
<1>1. /\ UNCHANGED <<up, ready, conns, loaded, conn, ended, dirs>>
      /\ late => late'
  BY DEF SendUpdate, SendIo, SendCommand, SendEnd, Quit, client, session, disk
<1>2. ASSUME NEW kind \in {"update", "io", "command", "end"}, Spawn(kind, up)
      PROVE  \A s \in Task : task'[s] = task[s] \/ (task[s].kind # "start" /\ Harmless(task'[s]))
  <2>1a. PICK t \in Slot : \E x : /\ task[t].kind = "none" /\ task' = [task EXCEPT ![t] = x]
                                  /\ x.kind = kind /\ x.at = "begin"
    BY <1>2, SpawnTakesIdle
  <2>1. PICK x : /\ task[t].kind = "none" /\ task' = [task EXCEPT ![t] = x]
                 /\ x.kind = kind /\ x.at = "begin"
    BY <2>1a
  <2>2. DOMAIN task = Task /\ t \in Task  BY SlotsAreTasks DEF TypeOK
  <2>3. task'[t] = x /\ \A s \in Task : s # t => task'[s] = task[s]  BY <2>1, <2>2
  <2>4. Harmless(task'[t]) /\ task[t].kind # "start"  BY <1>2, <2>1, <2>3 DEF Harmless
  <2> QED  BY <2>3, <2>4
<1>3. CASE Quit  BY <1>1, <1>3 DEF Quit, Calm
<1>4. CASE SendUpdate \/ SendIo \/ SendCommand \/ SendEnd
  BY <1>1, <1>2, <1>4 DEF SendUpdate, SendIo, SendCommand, SendEnd, Calm
<1> QED  BY <1>3, <1>4

(* The calm steps of the handlers.                                         *)
LEMMA CalmHandler ==
    ASSUME TypeOK, BindInv, NEW t \in Task,
           \/ NotLoaded(t) \/ update_attrs(t) \/ write_io(t) \/ CommandRange(t) \/ CommandPush(t)
           \/ EndTimer(t) \/ EndFlush(t) \/ DisconnectOther(t) \/ DisconnectTimer(t)
    PROVE  Calm
<1>a. UNCHANGED <<up, ready, conns, loaded, conn, ended, dirs>>
  BY DEF NotLoaded, update_attrs, write_io, CommandRange, CommandPush, EndTimer, EndFlush,
       DisconnectOther, DisconnectTimer, client, session, disk
<1>b. late => late'
  <2>1. CASE update_attrs(t)  BY <2>1, Zenon DEF update_attrs
  <2>2. CASE ~update_attrs(t)
    BY <2>2 DEF NotLoaded, write_io, CommandRange, CommandPush, EndTimer, EndFlush,
         DisconnectOther, DisconnectTimer
  <2> QED  BY <2>1, <2>2
<1>1. /\ UNCHANGED <<up, ready, conns, loaded, conn, ended, dirs>>
      /\ late => late'
  BY <1>a, <1>b
<1>2. task[t].kind # "start"
  BY DEF NotLoaded, update_attrs, write_io, CommandRange, CommandPush, EndTimer, EndFlush,
       DisconnectOther, DisconnectTimer, At
<1>3. CASE Finish(t)
  BY <1>1, <1>2, <1>3, FreeFacts DEF Calm, Harmless
<1>4. CASE CommandRange(t)
  <2>1. PICK x : x = [task[t] EXCEPT !.at = "push", !.dir = loaded, !.offset = lastpos[loaded],
                                     !.length = stream[loaded] - lastpos[loaded]]
    OBVIOUS
  <2>2. task' = [task EXCEPT ![t] = x]  BY <1>4, <2>1 DEF CommandRange
  <2>3. x.kind = "command"
    <3>1. task[t] \in TaskRecord /\ task[t].kind = "command"  BY <1>4 DEF CommandRange, At, TypeOK
    <3> QED  BY <2>1, <3>1 DEF TaskRecord
  <2>4. DOMAIN task = Task  BY DEF TypeOK
  <2> QED  BY <1>1, <1>2, <2>2, <2>3, <2>4 DEF Calm, Harmless
<1>5. CASE EndTimer(t)
  <2>1. Goto(t, "flush", task[t].dir) /\ At(t, "end", "untime")  BY <1>5 DEF EndTimer
  <2>2. /\ task'[t].kind = "end" /\ task'[t].dir = task[t].dir
        /\ \A s \in Task : s # t => task'[s] = task[s]
    BY <2>1, GotoFacts DEF At
  <2>3. task[t].dir \in dirs => ended[task[t].dir]  BY <2>1 DEF BindInv, SlotInv, At
  <2> QED  BY <1>1, <1>2, <2>2, <2>3 DEF Calm, Harmless
<1> QED  BY <1>3, <1>4, <1>5 DEF NotLoaded, update_attrs, write_io, CommandPush, EndFlush,
       DisconnectOther, DisconnectTimer

(* The calm steps of time and of the jobs.                                 *)
LEMMA CalmJob ==
    ASSUME TypeOK, GraceElapses \/ RetentionElapses \/ SweepScan \/ close_idle_writers
                   \/ EvictScan \/ CleanupList
    PROVE  Calm
<1>1. /\ UNCHANGED <<up, ready, conns, loaded, conn, ended, dirs>>
      /\ late => late'
  BY DEF GraceElapses, RetentionElapses, SweepScan, close_idle_writers, EvictScan, CleanupList,
       client, session, disk
<1>2. CASE SweepScan /\ task' = [task EXCEPT ![0] = [Free EXCEPT !.kind = "end"]]
  <2>1. PICK x : x = [Free EXCEPT !.kind = "end"]  OBVIOUS
  <2>2. x.kind = "end" /\ x.at = "begin"  BY <2>1 DEF Free
  <2>3. task[0].kind = "none" /\ task' = [task EXCEPT ![0] = x]  BY <1>2, <2>1 DEF SweepScan, Idle
  <2>4. DOMAIN task = Task  BY DEF TypeOK
  <2> QED  BY <1>1, <2>2, <2>3, <2>4 DEF Calm, Harmless
<1>3. CASE UNCHANGED task  BY <1>1, <1>3 DEF Calm
<1> QED  BY <1>2, <1>3 DEF GraceElapses, RetentionElapses, SweepScan, close_idle_writers, EvictScan,
       CleanupList

(* A new connection: its SessionStart is not handled yet.                  *)
LEMMA ConnectBinds ==
    ASSUME TypeOK, BindInv, Connect
    PROVE  BindInv'
<1>1. /\ up' = conns + 1 /\ conns' = conns + 1 /\ ~ready' /\ conns \in Nat
      /\ UNCHANGED <<loaded, conn, ended, dirs, late>>
  BY BoundsAssumption DEF Connect, TypeOK, session, disk
<1>2a. PICK n \in Slot : \E x : /\ task[n].kind = "none" /\ task' = [task EXCEPT ![n] = x]
                                /\ x.kind = "start" /\ x.at = "begin" /\ x.conn = conns + 1
  BY SpawnTakesIdle DEF Connect
<1>2. PICK x : /\ task[n].kind = "none" /\ task' = [task EXCEPT ![n] = x]
               /\ x.kind = "start" /\ x.at = "begin" /\ x.conn = conns + 1
  BY <1>2a
<1>3. DOMAIN task = Task /\ n \in Task  BY SlotsAreTasks DEF TypeOK
<1>4. task'[n] = x /\ \A s \in Task : s # n => task'[s] = task[s]  BY <1>2, <1>3
<1>5. \A s \in Task : task[s].kind \in {"start", "disconnect"} => task[s].conn \in 1 .. conns
  BY DEF BindInv, SlotInv
<1>6. SlotInv'
  <2> SUFFICES ASSUME NEW t \in Task
      PROVE /\ task'[t].kind \in {"start", "disconnect"} => task'[t].conn \in 1 .. conns + 1
            /\ task'[t].kind = "disconnect" => task'[t].conn # conns + 1
            /\ task'[t].kind = "start" =>
                  t \in Slot /\ (task'[t].at \in {"bind", "timer"} => loaded # 0 /\ task'[t].dir = loaded)
            /\ /\ task'[t].kind = "end" /\ task'[t].at \in {"unbind", "untime", "flush"}
               /\ task'[t].dir \in dirs
               => ended[task'[t].dir]
    BY <1>1 DEF SlotInv
  <2>1. CASE t = n  BY <1>1, <1>2, <1>4, <2>1
  <2>2. CASE t # n  BY <1>1, <1>4, <1>5, <2>2 DEF BindInv, SlotInv
  <2> QED  BY <2>1, <2>2
<1>7. OneStart'
  <2> SUFFICES ASSUME NEW t \in Task, NEW s \in Task, t # s,
                      task'[t].kind = "start", task'[s].kind = "start"
               PROVE  task'[t].conn # task'[s].conn
    BY DEF OneStart
  <2>1. CASE t = n  BY <1>1, <1>2, <1>4, <1>5, <2>1
  <2>2. CASE s = n  BY <1>1, <1>2, <1>4, <1>5, <2>2
  <2>3. CASE t # n /\ s # n  BY <1>4, <2>3 DEF BindInv, OneStart
  <2> QED  BY <2>1, <2>2, <2>3
<1>8. ~Registered'
  <2>1. ASSUME NEW t \in Task, At(t, "start", "timer")', task'[t].conn = up'  PROVE FALSE
    <3>1. t # n  BY <1>2, <1>4, <2>1 DEF At
    <3> QED  BY <1>1, <1>4, <1>5, <2>1, <3>1 DEF At
  <2> QED  BY <1>1, <2>1 DEF Registered
<1> QED  BY <1>1, <1>6, <1>7, <1>8 DEF BindInv

(* The connection is lost: the hook's task is not of a connection in use.  *)
LEMMA DropBinds ==
    ASSUME TypeOK, BindInv, Drop
    PROVE  BindInv'
<1>1. /\ up' = 0 /\ up # 0 /\ ~ready' /\ conns' = conns /\ conns \in Nat /\ up \in 1 .. conns
      /\ UNCHANGED <<loaded, conn, ended, dirs, late>>
  BY BoundsAssumption DEF Drop, TypeOK, BindInv, Conn, session, disk
<1>2a. PICK n \in Slot : \E x : /\ task[n].kind = "none" /\ task' = [task EXCEPT ![n] = x]
                                /\ x.kind = "disconnect" /\ x.at = "begin" /\ x.conn = up
  BY SpawnTakesIdle DEF Drop
<1>2. PICK x : /\ task[n].kind = "none" /\ task' = [task EXCEPT ![n] = x]
               /\ x.kind = "disconnect" /\ x.at = "begin" /\ x.conn = up
  BY <1>2a
<1>3. DOMAIN task = Task /\ n \in Task  BY SlotsAreTasks DEF TypeOK
<1>4. task'[n] = x /\ \A s \in Task : s # n => task'[s] = task[s]  BY <1>2, <1>3
<1>5. \A s \in Task : task[s].kind \in {"start", "disconnect"} => task[s].conn \in 1 .. conns
  BY DEF BindInv, SlotInv
<1>6. SlotInv'
  <2> SUFFICES ASSUME NEW t \in Task
      PROVE /\ task'[t].kind \in {"start", "disconnect"} => task'[t].conn \in 1 .. conns
            /\ task'[t].kind = "disconnect" => task'[t].conn # 0
            /\ task'[t].kind = "start" =>
                  t \in Slot /\ (task'[t].at \in {"bind", "timer"} => loaded # 0 /\ task'[t].dir = loaded)
            /\ /\ task'[t].kind = "end" /\ task'[t].at \in {"unbind", "untime", "flush"}
               /\ task'[t].dir \in dirs
               => ended[task'[t].dir]
    BY <1>1 DEF SlotInv
  <2>1. CASE t = n  BY <1>1, <1>2, <1>4, <2>1
  <2>2. CASE t # n  BY <1>1, <1>4, <1>5, <2>2 DEF BindInv, SlotInv
  <2> QED  BY <2>1, <2>2
<1>7. OneStart'
  <2>1. \A s \in Task : task'[s].kind = "start" => task'[s] = task[s]  BY <1>2, <1>4
  <2> QED  BY <2>1 DEF BindInv, OneStart
<1>8. ~Registered'
  <2>1. ASSUME NEW t \in Task, At(t, "start", "timer")', task'[t].conn = 0  PROVE FALSE
    <3>1. t # n  BY <1>2, <1>4, <2>1 DEF At
    <3> QED  BY <1>1, <1>4, <1>5, <2>1, <3>1 DEF At
  <2> QED  BY <1>1, <2>1 DEF Registered
<1> QED  BY <1>1, <1>6, <1>7, <1>8 DEF BindInv

(* The steps of a SessionStart or an end of session, task t: what they owe *)
(* if they change t's place and the binding or the ending of one session.  *)
LEMMA HandlerSlots ==
    ASSUME BindInv, NEW t \in Task, UNCHANGED <<up, conns, loaded>>, dirs' = dirs,
           \A s \in Task : s # t => task'[s] = task[s],
           task'[t].kind \in {"start", "disconnect"} =>
               task'[t].kind = task[t].kind /\ task'[t].conn = task[t].conn,
           task'[t].kind = "start" /\ task'[t].at \in {"bind", "timer"} =>
               loaded # 0 /\ task'[t].dir = loaded,
           task'[t].kind = "end" /\ task'[t].at \in {"unbind", "untime", "flush"}
               /\ task'[t].dir \in dirs => ended'[task'[t].dir],
           \A d \in dirs, s \in Task :
               /\ s # t /\ task[s].kind = "end" /\ task[s].dir = d
               /\ task[s].at \in {"unbind", "untime", "flush"} /\ ended[d]
               => ended'[d],
           ready' => ready \/ (task[t].kind = "start" /\ task'[t].kind = "none" /\ task[t].conn = up)
    PROVE  SlotInv' /\ OneStart' /\ up' <= conns'
<1>1. \A s \in Task : task'[s].kind = "start" => task[s].kind = "start" /\ task'[s].conn = task[s].conn
  OBVIOUS
<1>2. OneStart'  BY <1>1 DEF BindInv, OneStart
<1>3. SlotInv'
  <2> SUFFICES ASSUME NEW s \in Task
      PROVE /\ task'[s].kind \in {"start", "disconnect"} => task'[s].conn \in 1 .. conns
            /\ task'[s].kind = "disconnect" => task'[s].conn # up
            /\ task'[s].kind = "start" /\ ready' => task'[s].conn # up
            /\ task'[s].kind = "start" =>
                  s \in Slot /\ (task'[s].at \in {"bind", "timer"} => loaded # 0 /\ task'[s].dir = loaded)
            /\ /\ task'[s].kind = "end" /\ task'[s].at \in {"unbind", "untime", "flush"}
               /\ task'[s].dir \in dirs
               => ended'[task'[s].dir]
    BY DEF SlotInv
  <2>1. task'[s].kind \in {"start", "disconnect"} =>
           task'[s].kind = task[s].kind /\ task'[s].conn = task[s].conn
    OBVIOUS
  <2>2. /\ task'[s].kind \in {"start", "disconnect"} => task'[s].conn \in 1 .. conns
        /\ task'[s].kind = "disconnect" => task'[s].conn # up
    BY <2>1 DEF BindInv, SlotInv
  <2>3. task'[s].kind = "start" /\ ready' => task'[s].conn # up
    <3>1. CASE ready  BY <2>1, <3>1 DEF BindInv, SlotInv
    <3>2. CASE task[t].kind = "start" /\ task'[t].kind = "none" /\ task[t].conn = up
      BY <2>1, <3>2 DEF BindInv, OneStart
    <3> QED  BY <3>1, <3>2
  <2>4. task'[s].kind = "start" =>
           s \in Slot /\ (task'[s].at \in {"bind", "timer"} => loaded # 0 /\ task'[s].dir = loaded)
    BY DEF BindInv, SlotInv
  <2>5. /\ task'[s].kind = "end" /\ task'[s].at \in {"unbind", "untime", "flush"}
        /\ task'[s].dir \in dirs
        => ended'[task'[s].dir]
    BY DEF BindInv, SlotInv
  <2> QED  BY <2>2, <2>3, <2>4, <2>5
<1>4. up' <= conns'  BY DEF BindInv
<1> QED  BY <1>2, <1>3, <1>4

(* rebind_existing reopens meta: the session counts as being rebound.      *)
LEMMA RebindMetaBinds ==
    ASSUME TypeOK, BindInv, NEW t \in Task, RebindMeta(t)
    PROVE  BindInv'
<1>1. /\ At(t, "start", "begin") /\ loaded # 0 /\ ~MetaLocked(loaded) /\ Goto(t, "bind", loaded)
      /\ ended' = [ended EXCEPT ![loaded] = FALSE]
      /\ UNCHANGED <<up, ready, conns, loaded, conn, dirs, late>>
  BY DEF RebindMeta, client, session
<1>2. /\ task'[t].kind = "start" /\ task'[t].conn = task[t].conn
      /\ task'[t].at = "bind" /\ task'[t].dir = loaded /\ task[t].kind = "start"
      /\ \A s \in Task : s # t => task'[s] = task[s]
  BY <1>1, GotoFacts DEF At
<1>3. loaded \in Dir /\ \A d \in Dir : d # loaded => ended'[d] = ended[d]  BY <1>1 DEF TypeOK
<1>4. \A d \in dirs, s \in Task :
         /\ s # t /\ task[s].kind = "end" /\ task[s].dir = d
         /\ task[s].at \in {"unbind", "untime", "flush"} /\ ended[d]
         => ended'[d]
  <2>1. ASSUME NEW d \in dirs, NEW s \in Task,
               task[s].kind = "end", task[s].dir = d, task[s].at \in {"unbind", "untime", "flush"},
               ended[d]
        PROVE  ended'[d]
    <3>1. d # loaded  BY <1>1, <2>1 DEF MetaLocked
    <3>2. d \in Dir  BY DEF TypeOK
    <3> QED  BY <1>3, <2>1, <3>1, <3>2
  <2> QED  BY <2>1
<1>5. SlotInv' /\ OneStart' /\ up' <= conns'
  BY <1>1, <1>2, <1>4, HandlerSlots
<1>6. Bound'  BY <1>2 DEF Bound, At
<1> QED  BY <1>1, <1>5, <1>6 DEF BindInv

(* It binds the connection, or the handler is late.                        *)
LEMMA RebindConnBinds ==
    ASSUME TypeOK, BindInv, NEW t \in Task, RebindConn(t)
    PROVE  BindInv'
<1>1. /\ At(t, "start", "bind") /\ Goto(t, "timer", task[t].dir)
      /\ conn' = [conn EXCEPT ![task[t].dir] = task[t].conn]
      /\ UNCHANGED <<up, ready, conns, loaded, ended, dirs>>
  BY DEF RebindConn, client, disk
<1>2. /\ task'[t].kind = "start" /\ task'[t].conn = task[t].conn
      /\ task'[t].at = "timer" /\ task'[t].dir = task[t].dir /\ task[t].kind = "start"
      /\ \A s \in Task : s # t => task'[s] = task[s]
  BY <1>1, GotoFacts DEF At
<1>3. loaded # 0 /\ task[t].dir = loaded  BY <1>1 DEF BindInv, SlotInv, At
<1>4. SlotInv' /\ OneStart' /\ up' <= conns'
  BY <1>1, <1>2, <1>3, HandlerSlots
<1>5. ASSUME ~late', Registered'  PROVE Bound'
  <2>1. ~Dead(t)  BY <1>5 DEF RebindConn
  <2>2. task[t].conn = up  BY <2>1 DEF Dead
  <2>3. conn'[loaded] = up  BY <1>1, <1>3, <2>2 DEF TypeOK
  <2> QED  BY <1>1, <2>3 DEF Bound
<1>6. ready' => up' # 0  BY <1>1 DEF BindInv
<1> QED  BY <1>4, <1>5, <1>6 DEF BindInv

(* It clears the timer and replies: the client may use its connection.     *)
LEMMA RebindTimerBinds ==
    ASSUME TypeOK, BindInv, NEW t \in Task, RebindTimer(t)
    PROVE  BindInv'
<1>1. /\ At(t, "start", "timer") /\ Finish(t) /\ Reply(t)
      /\ UNCHANGED <<up, conns, loaded, conn, ended, dirs>>
  BY DEF RebindTimer, disk
<1>2. task'[t].kind = "none" /\ \A s \in Task : s # t => task'[s] = task[s]  BY <1>1, FreeFacts
<1>3. ready' => ready \/ task[t].conn = up  BY <1>1 DEF Reply, Dead
<1>4. task[t].kind = "start" /\ task[t].at = "timer" /\ task[t].conn \in 1 .. conns
  BY <1>1 DEF At, BindInv, SlotInv
<1>5. SlotInv' /\ OneStart' /\ up' <= conns'
  BY <1>1, <1>2, <1>3, <1>4, HandlerSlots
<1>6. ASSUME ~late', loaded' # 0, Registered'  PROVE Bound'
  <2>1. ~late  BY <1>6 DEF RebindTimer
  <2>2. Registered
    <3>1. CASE ready'  BY <1>1, <1>3, <3>1 DEF Registered
    <3>2. ASSUME NEW s \in Task, At(s, "start", "timer")', task'[s].conn = up'  PROVE Registered
      BY <1>1, <1>2, <3>2 DEF Registered, At
    <3> QED  BY <1>6, <3>1, <3>2 DEF Registered
  <2>3. Bound  BY <1>1, <1>6, <2>1, <2>2 DEF BindInv
  <2>4. CASE conn[loaded] = up \/ ended[loaded]  BY <1>1, <2>4 DEF Bound
  <2>5. ASSUME NEW s \in Task, At(s, "start", "bind")  PROVE Bound'
    BY <1>2, <1>4, <2>5 DEF Bound, At
  <2> QED  BY <2>3, <2>4, <2>5 DEF Bound
<1>7. ready' => up' # 0  BY <1>1, <1>3, <1>4 DEF BindInv
<1> QED  BY <1>5, <1>6, <1>7 DEF BindInv

(* A new session is bound to the connection that registers it.             *)
LEMMA RegisterBinds ==
    ASSUME TypeOK, BindInv, NEW t \in Task, RegisterNew(t)
    PROVE  BindInv'
<1>1. PICK d \in Dir : /\ Unused(d) /\ loaded' = d /\ dirs' = dirs \cup {d}
                       /\ conn' = [conn EXCEPT ![d] = task[t].conn]
                       /\ ended' = [ended EXCEPT ![d] = FALSE]
  BY DEF RegisterNew
<1>2. /\ At(t, "start", "begin") /\ loaded = 0 /\ Finish(t) /\ Reply(t) /\ UNCHANGED <<up, conns>>
  BY DEF RegisterNew
<1>3. task'[t].kind = "none" /\ \A s \in Task : s # t => task'[s] = task[s]  BY <1>2, FreeFacts
<1>4. ready' => ready \/ task[t].conn = up  BY <1>2 DEF Reply, Dead
<1>5. task[t].kind = "start" /\ task[t].conn \in 1 .. conns  BY <1>2 DEF At, BindInv, SlotInv
<1>6. \A s \in Task : ~(task[s].kind = "start" /\ task[s].at \in {"bind", "timer"})
  BY <1>2 DEF BindInv, SlotInv
<1>7. \A s \in Task : task'[s].kind = "start" => task'[s] = task[s] /\ s # t  BY <1>3
<1>8. OneStart'  BY <1>7 DEF BindInv, OneStart
<1>9. SlotInv'
  <2> SUFFICES ASSUME NEW s \in Task
      PROVE /\ task'[s].kind \in {"start", "disconnect"} => task'[s].conn \in 1 .. conns
            /\ task'[s].kind = "disconnect" => task'[s].conn # up
            /\ task'[s].kind = "start" /\ ready' => task'[s].conn # up
            /\ task'[s].kind = "start" => s \in Slot /\ ~(task'[s].at \in {"bind", "timer"})
            /\ /\ task'[s].kind = "end" /\ task'[s].at \in {"unbind", "untime", "flush"}
               /\ task'[s].dir \in dirs'
               => ended'[task'[s].dir]
    BY <1>2 DEF SlotInv
  <2>1. CASE s = t  BY <1>3, <2>1
  <2>2. CASE s # t
    <3>1. task'[s] = task[s]  BY <1>3, <2>2
    <3>2. task[s].kind = "start" /\ ready' => task[s].conn # up
      <4>1. CASE ready  BY <4>1 DEF BindInv, SlotInv
      <4>2. CASE task[t].conn = up  BY <1>5, <2>2, <4>2 DEF BindInv, OneStart
      <4> QED  BY <1>4, <4>1, <4>2
    <3>3. ASSUME task[s].kind = "end", task[s].at \in {"unbind", "untime", "flush"},
                 task[s].dir \in dirs'
          PROVE  ended'[task[s].dir]
      <4>1. task[s].dir # d  BY <1>1 DEF Unused
      <4>2. task[s].dir \in dirs /\ dirs \subseteq Dir  BY <1>1, <3>3, <4>1 DEF TypeOK
      <4>3. ended[task[s].dir]  BY <3>3, <4>2 DEF BindInv, SlotInv
      <4> QED  BY <1>1, <4>1, <4>2, <4>3 DEF TypeOK
    <3> QED  BY <1>6, <3>1, <3>2, <3>3 DEF BindInv, SlotInv
  <2> QED  BY <2>1, <2>2
<1>10. ASSUME ~late', Registered'  PROVE Bound'
  <2>1. ~Dead(t)  BY <1>10 DEF RegisterNew
  <2>2. task[t].conn = up  BY <2>1 DEF Dead
  <2>3. conn'[d] = up  BY <1>1, <2>2 DEF TypeOK
  <2> QED  BY <1>1, <1>2, <2>3 DEF Bound
<1>11. (ready' => up' # 0) /\ up' <= conns'  BY <1>2, <1>4, <1>5 DEF BindInv
<1> QED  BY <1>8, <1>9, <1>10, <1>11 DEF BindInv

(* The steps that unbind a session or end it: of the binding and the       *)
(* ending of the loaded one, they owe what Bound needs.                    *)
LEMMA UnbindingBinds ==
    ASSUME TypeOK, BindInv, NEW t \in Task, EndMark(t) \/ EndUnbind(t) \/ DisconnectUnbind(t),
           DirInv
    PROVE  BindInv'
<1>1. UNCHANGED <<up, ready, conns, loaded, dirs, late>>
  BY DEF EndMark, EndUnbind, DisconnectUnbind, client, session, disk
<1>2. /\ task'[t].kind = task[t].kind /\ task'[t].conn = task[t].conn
      /\ task[t].kind \in {"end", "disconnect"} /\ task'[t].dir \in Dir \cup {0}
      /\ \A s \in Task : s # t => task'[s] = task[s]
  <2>1. task[t].dir \in Dir \cup {0} /\ loaded \in Dir \cup {0}  BY DEF TypeOK, TaskRecord
  <2>2. PICK l, d : d \in Dir \cup {0} /\ Goto(t, l, d)
    BY <2>1 DEF EndMark, EndUnbind, DisconnectUnbind
  <2> QED  BY <2>2, GotoFacts DEF EndMark, EndUnbind, DisconnectUnbind, At
<1>3. /\ \A d \in dirs : ended[d] => ended'[d]
      /\ task'[t].kind = "end" /\ task'[t].dir \in dirs => ended'[task'[t].dir]
  <2>1. CASE EndMark(t)
    <3>1. task'[t].dir = loaded /\ loaded # 0  BY <2>1, GotoFacts DEF EndMark, TypeOK
    <3> QED  BY <2>1, <3>1 DEF EndMark, TypeOK
  <2>2. CASE EndUnbind(t)
    <3>1. task'[t].dir = task[t].dir  BY <2>2, GotoFacts DEF EndUnbind, TypeOK
    <3>2. task[t].dir \in dirs => ended[task[t].dir]  BY <2>2 DEF EndUnbind, At, BindInv, SlotInv
    <3>3. ended' = ended  BY <2>2 DEF EndUnbind, disk
    <3> QED  BY <3>1, <3>2, <3>3
  <2>3. CASE DisconnectUnbind(t)
    <3>1. task[t].kind = "disconnect"  BY <2>3 DEF DisconnectUnbind, At
    <3>2. ended' = ended  BY <2>3 DEF DisconnectUnbind, disk
    <3> QED  BY <1>2, <3>1, <3>2
  <2> QED  BY <2>1, <2>2, <2>3
<1>4. SlotInv' /\ OneStart' /\ up' <= conns'
  BY <1>1, <1>2, <1>3, HandlerSlots
<1>5. ASSUME ~late', loaded' # 0, Registered'  PROVE Bound'
  <2>1. Registered  BY <1>1, <1>2, <1>5 DEF Registered, At
  <2>2. Bound  BY <1>1, <1>5, <2>1 DEF BindInv
  <2>3. loaded \in dirs /\ loaded \in Dir  BY <1>1, <1>5 DEF DirInv, TypeOK
  <2>4. CASE ended[loaded]  BY <1>1, <1>3, <2>3, <2>4 DEF Bound
  <2>5. ASSUME NEW s \in Task, At(s, "start", "bind")  PROVE Bound'
    BY <1>2, <2>5 DEF Bound, At
  <2>6. CASE conn[loaded] = up
    <3>1. CASE EndMark(t)  BY <1>1, <2>6, <3>1 DEF EndMark, session, Bound
    <3>2. CASE EndUnbind(t)
      <4>1. CASE task[t].dir = loaded
        <5>1. ended[loaded]  BY <2>3, <3>2, <4>1 DEF EndUnbind, At, BindInv, SlotInv
        <5> QED  BY <2>4, <5>1
      <4>2. CASE task[t].dir # loaded
        <5>1. conn'[loaded] = conn[loaded]  BY <2>3, <3>2, <4>2 DEF EndUnbind, TypeOK
        <5> QED  BY <1>1, <2>6, <5>1 DEF Bound
      <4> QED  BY <4>1, <4>2
    <3>3. CASE DisconnectUnbind(t)
      <4>1. task[t].conn # up  BY <3>3 DEF DisconnectUnbind, At, BindInv, SlotInv
      <4> QED  BY <2>6, <3>3, <4>1 DEF DisconnectUnbind
    <3> QED  BY <3>1, <3>2, <3>3
  <2> QED  BY <2>2, <2>4, <2>5, <2>6 DEF Bound
<1>6. ready' => up' # 0  BY <1>1 DEF BindInv
<1> QED  BY <1>4, <1>5, <1>6 DEF BindInv

(* Evictions, clean-ups and restarts.                                      *)
LEMMA JobBinds ==
    ASSUME TypeOK, BindInv, DirInv', EvictRemove \/ CleanupDelete \/ Restart
    PROVE  BindInv'
<1>1. CASE EvictRemove
  <2>1. /\ ~Rebinding /\ loaded' = 0
        /\ UNCHANGED <<up, ready, conns, task, ended, dirs, late>>
    BY <1>1 DEF EvictRemove, NoSession, client, disk
  <2>2. \A t \in Task : ~(task[t].kind = "start" /\ task[t].at \in {"bind", "timer"})
    BY <2>1 DEF Rebinding, At, BindInv, SlotInv
  <2>3. SlotInv'
    BY <2>1, <2>2 DEF BindInv, SlotInv
  <2>4. OneStart'  BY <2>1 DEF BindInv, OneStart
  <2> QED  BY <2>1, <2>3, <2>4 DEF BindInv
<1>2. CASE CleanupDelete
  <2>1. UNCHANGED <<up, ready, conns, task, loaded, conn, late>>
    BY <1>2 DEF CleanupDelete, client, session
  <2>2. PICK D : D \subseteq dirs /\ Keep(D)
    BY <1>2 DEF CleanupDelete
  <2>3. dirs' = D /\ \A d \in D : ended'[d] = ended[d]
    <3>1. dirs' = D /\ ended' = [d \in Dir |-> d \in D /\ ended[d]]  BY <2>2 DEF Keep
    <3>2. \A d \in D : d \in Dir /\ ended[d] \in BOOLEAN  BY <2>2 DEF TypeOK
    <3> QED  BY <3>1, <3>2
  <2>4. SlotInv'
    <3> SUFFICES ASSUME NEW t \in Task
        PROVE /\ task[t].kind \in {"start", "disconnect"} => task[t].conn \in 1 .. conns
              /\ task[t].kind = "disconnect" => task[t].conn # up
              /\ task[t].kind = "start" /\ ready => task[t].conn # up
              /\ task[t].kind = "start" =>
                    t \in Slot /\ (task[t].at \in {"bind", "timer"} => loaded # 0 /\ task[t].dir = loaded)
              /\ /\ task[t].kind = "end" /\ task[t].at \in {"unbind", "untime", "flush"}
                 /\ task[t].dir \in dirs'
                 => ended'[task[t].dir]
      BY <2>1 DEF SlotInv
    <3> QED  BY <2>2, <2>3 DEF BindInv, SlotInv
  <2>5. OneStart'  BY <2>1 DEF BindInv, OneStart
  <2>6. ASSUME ~late', loaded' # 0, Registered'  PROVE Bound'
    <3>1. Registered  BY <2>1, <2>6 DEF Registered, At
    <3>2. Bound  BY <2>1, <2>6, <3>1 DEF BindInv
    <3>3. loaded \in D  BY <2>1, <2>3, <2>6 DEF DirInv
    <3> QED  BY <2>1, <2>3, <3>2, <3>3 DEF Bound, At
  <2> QED  BY <2>1, <2>4, <2>5, <2>6 DEF BindInv
<1>3. CASE Restart
  <2>1. task' = [t \in Task |-> Free] /\ up' = 0 /\ ~ready' /\ UNCHANGED <<conns, late>>
    BY <1>3 DEF Restart
  <2>2. \A t \in Task : task'[t].kind = "none"  BY <2>1 DEF Free
  <2>3. conns \in Nat  BY BoundsAssumption DEF TypeOK
  <2>4. ~Registered'  BY <2>1, <2>2 DEF Registered, At
  <2> QED  BY <2>1, <2>2, <2>3, <2>4 DEF BindInv, SlotInv, OneStart
<1> QED  BY <1>1, <1>2, <1>3

-----------------------------------------------------------------------------
(* Tasks and bindings agree in every reachable state: one SessionStart per *)
(* connection, no hook of the connection in use, a rebound session loaded, *)
(* an ending one ended, and a registered client bound unless a handler of  *)
(* a dead connection came late.                                            *)
THEOREM BindInvHolds == Spec => []BindInv
<1>1. Init => BindInv  BY InitBind
<1>2. ASSUME RecordInv, RecordInv', BindInv, [Next]_vars  PROVE BindInv'
  <2>0. TypeOK /\ DirInv /\ DirInv'  BY <1>2 DEF RecordInv
  <2>1. CASE UNCHANGED vars
    <3>1. Calm  BY <2>1 DEF Calm, vars, client, session, disk
    <3> QED  BY <1>2, <3>1, CalmStep
  <2>2. CASE SendUpdate \/ SendIo \/ SendCommand \/ SendEnd \/ Quit
    BY <1>2, <2>0, <2>2, CalmClient, CalmStep
  <2>3. CASE GraceElapses \/ RetentionElapses \/ SweepScan \/ close_idle_writers
             \/ EvictScan \/ CleanupList
    BY <1>2, <2>0, <2>3, CalmJob, CalmStep
  <2>4. ASSUME NEW t \in Task, Step(t)  PROVE BindInv'
    <3>1. CASE \/ NotLoaded(t) \/ update_attrs(t) \/ write_io(t) \/ CommandRange(t) \/ CommandPush(t)
               \/ EndTimer(t) \/ EndFlush(t) \/ DisconnectOther(t) \/ DisconnectTimer(t)
      BY <1>2, <2>0, <3>1, CalmHandler, CalmStep
    <3>2. CASE RegisterNew(t)  BY <1>2, <2>0, <3>2, RegisterBinds
    <3>3. CASE RebindMeta(t)  BY <1>2, <2>0, <3>3, RebindMetaBinds
    <3>4. CASE RebindConn(t)  BY <1>2, <2>0, <3>4, RebindConnBinds
    <3>5. CASE RebindTimer(t)  BY <1>2, <2>0, <3>5, RebindTimerBinds
    <3>6. CASE EndMark(t) \/ EndUnbind(t) \/ DisconnectUnbind(t)
      BY <1>2, <2>0, <3>6, UnbindingBinds
    <3> QED  BY <2>4, <3>1, <3>2, <3>3, <3>4, <3>5, <3>6 DEF Step
  <2>5. CASE Connect  BY <1>2, <2>0, <2>5, ConnectBinds
  <2>6. CASE Drop  BY <1>2, <2>0, <2>6, DropBinds
  <2>7. CASE EvictRemove \/ CleanupDelete \/ Restart  BY <1>2, <2>0, <2>7, JobBinds
  <2> QED  BY <1>2, <2>1, <2>2, <2>3, <2>4, <2>5, <2>6, <2>7 DEF Next
<1> QED  BY <1>1, <1>2, RecordInvHolds, PTL DEF Spec

(* mark_conn_disconnected unbinds a session only from the connection that  *)
(* is gone: when nothing is under way, a registered client's session has   *)
(* the client's connection or is ended, however late the hooks of earlier  *)
(* connections, sweeps and evictions came.                                 *)
THEOREM SessionsFollowTheirClient == Spec => []BoundToItsClient
<1>1. BindInv => BoundToItsClient
  BY DEF BindInv, Registered, Bound, BoundToItsClient, Settled, Idle, At
<1> QED  BY <1>1, BindInvHolds, PTL
=============================================================================
