------------------------ MODULE DaemonTasks_proofs ------------------------
(***************************************************************************)
(* Proofs about what works beside the agent loop: the registry of plugins, *)
(* the configuration with its subscribers, the scheduled notes, the        *)
(* context of commands, the tools that the calls of a turn run, and the    *)
(* distribution of packages.  They share no variable; each part has an     *)
(* invariant of its own.                                                   *)
(*                                                                         *)
(* Plugins: the registry, the index and the plugins' own lists of tools    *)
(* agree in every state, and no tool of a plugin that is gone outlives the *)
(* handling of the change.  The second needs what the first does not: that *)
(* a plugin whose directory is gone while its tools are loaded is one the  *)
(* watcher's task has still to see (Awaited), because its wake-up, its     *)
(* pause and its listing follow the removal.                               *)
(*                                                                         *)
(* Configuration: a chain of agreements, from the file to what the watcher *)
(* read, to the snapshots of the channels, to the section that the push    *)
(* task saw last, to what a client will have when it has applied its       *)
(* pushes; each link holds unless a wake-up is pending on it.              *)
(*                                                                         *)
(* Notes: every hour with commands is in a window that is not over, with   *)
(* the model, in a file of its day, or of a day that was spoiled.  A day   *)
(* is complete at midnight only if no window crosses it, which is what     *)
(* WholeWindows says of the offset between UTC and local time; the model   *)
(* checker refutes the property without it.                                *)
(*                                                                         *)
(* Context: the stable prefix of what was last sent is a function of the   *)
(* records and the two cutoffs; a record behind both leaves it alone, any  *)
(* other disturbs it.  Selections are proved from the place of a command   *)
(* in its list, counted from the end, which is a bijection.                *)
(*                                                                         *)
(* Tools: an edit puts its new lines in the place of the old ones at its   *)
(* matches from the last to the first, so at the first match the content   *)
(* read holds the old lines and the one written the new lines, whatever    *)
(* lies behind.  The snippet is six stretches of those two contents; what  *)
(* is proved of each (Tells) is kept when they are joined, and the removed *)
(* and the added lines are the stretches between the common prefix and     *)
(* suffix (SnippetFacts, EditFacts).  The formatter's task and its process *)
(* have at most one line between them (InStep), which is why a late answer *)
(* never reaches a later caller.                                           *)
(*                                                                         *)
(* Packages: a host's cache holds only whole packages.  A client verifies  *)
(* a download only if the stream brought a checksum (VerifyAndRename), so  *)
(* the invariant says why it always did: until the checksum is known, the  *)
(* next message of the stream is an error or the first chunk (SumComes),   *)
(* and no later message takes the checksum away.                           *)
(***************************************************************************)
EXTENDS Plugins, ConfigSync, Notes, Context, Tools, Updates, FiniteSetTheorems,
        SequenceTheorems, WellFoundedInduction, TLAPS

(* The records and partial functions of the state.                         *)
IsMap(f) == f = [t \in DOMAIN f |-> f[t]]

ManagerShape ==
    /\ pm = [known |-> pm.known, slots |-> pm.slots, index |-> pm.index,
             flags |-> pm.flags, seen |-> pm.seen, cache |-> pm.cache]
    /\ IsMap(pm.slots) /\ DOMAIN pm.slots = PluginDirs
    /\ IsMap(pm.index) /\ \A t \in DOMAIN pm.index : pm.index[t] \in 0..PluginCount
    /\ reg = [tools |-> reg.tools, descs |-> reg.descs]

ScanShape ==
    /\ IsMap(scan) /\ DOMAIN scan = ScanTasks
    /\ \A k \in ScanTasks : /\ scan[k] = [at |-> scan[k].at, listed |-> scan[k].listed,
                                          flags |-> scan[k].flags, descs |-> scan[k].descs]
                           /\ scan[k].listed \subseteq PluginDirs

DiskShape == onDisk \in [PluginDirs -> [here : BOOLEAN, json : {"missing", "bad", "ok"}, override : Nat]]

(* The watcher's task has still to find out that p is gone.                *)
Awaited(p) ==
    \/ "files" \in woken
    \/ scan["files"].at \in {"settle", "list"}
    \/ scan["files"].at \in {"copy", "apply"} /\ p \notin scan["files"].listed

RemovalsAwaited ==
    \A p \in PluginDirs : ~onDisk[p].here /\ pm.slots[p] # {} => Awaited(p)

PlugInv == ManagerShape /\ ScanShape /\ DiskShape /\ RegistryAgrees /\ RemovalsAwaited

-----------------------------------------------------------------------------
(* The operators of the registry.                                          *)

(* Whoever gains a tool owns it, if no two gain the same.                  *)
LEMMA OwnersFacts ==
    ASSUME NEW G, DOMAIN G = PluginDirs,
           \A p, q \in PluginDirs : p # q => G[p] \cap G[q] = {}
    PROVE  /\ DOMAIN Owners(G) = UNION {G[p] : p \in PluginDirs}
           /\ \A p \in PluginDirs : \A t \in G[p] : Owners(G)[t] = p
<1>1. UNION Range(G) = UNION {G[p] : p \in PluginDirs}  BY DEF Range
<1>2. DOMAIN Owners(G) = UNION {G[p] : p \in PluginDirs}  BY <1>1 DEF Owners
<1>3. ASSUME NEW p \in PluginDirs, NEW t \in G[p]
      PROVE  Owners(G)[t] = p
  <2>1. t \in UNION Range(G)  BY <1>1
  <2>2. Owners(G)[t] = CHOOSE q \in PluginDirs : t \in G[q]  BY <2>1 DEF Owners
  <2>3. \A q \in PluginDirs : t \in G[q] => q = p  OBVIOUS
  <2> QED  BY <2>2, <2>3
<1> QED  BY <1>2, <1>3

(* An index I and lists S that agree, plugins whose tools leave them, others *)
(* without tools that gain some (G), and the index that results (J).       *)
Merging(I, S, gone, loading, G, K, J) ==
    /\ gone \in SUBSET PluginDirs /\ loading \in SUBSET PluginDirs
    /\ \A t \in DOMAIN I : I[t] \in 0..PluginCount
    /\ \A p \in PluginDirs : S[p] = {t \in DOMAIN I : I[t] = p}
    /\ \A p \in loading : S[p] = {} \/ p \in gone
    /\ DOMAIN G = PluginDirs /\ \A p \in PluginDirs : p \notin loading => G[p] = {}
    /\ \A p, q \in PluginDirs : p # q => G[p] \cap G[q] = {}
    /\ K = Forget(I, UNION {S[p] : p \in gone})
    /\ \A p \in PluginDirs : G[p] \cap DOMAIN K = {}
    /\ J = Over(Owners(G), K)

Merged(S, gone, loading, G, J) ==
    /\ IsMap(J) /\ \A t \in DOMAIN J : J[t] \in 0..PluginCount
    /\ \A p \in PluginDirs :
          (IF p \in loading THEN G[p] ELSE IF p \in gone THEN {} ELSE S[p])
             = {t \in DOMAIN J : J[t] = p}

(* They agree again afterwards.                                            *)
LEMMA Merge ==
    ASSUME NEW I, NEW S, NEW gone, NEW loading, NEW G, NEW K, NEW J,
           Merging(I, S, gone, loading, G, K, J)
    PROVE  Merged(S, gone, loading, G, J)
<1> USE DEF Merging
<1>0. PluginDirs \subseteq 0..PluginCount /\ 0 \notin PluginDirs  BY PluginShape DEF PluginDirs
<1>1. /\ DOMAIN K = DOMAIN I \ UNION {S[p] : p \in gone}
      /\ \A t \in DOMAIN K : K[t] = I[t]
  BY DEF Forget, Restrict
<1>2. /\ DOMAIN Owners(G) = UNION {G[p] : p \in PluginDirs}
      /\ \A p \in PluginDirs : \A t \in G[p] : Owners(G)[t] = p
  BY OwnersFacts
<1>3. /\ IsMap(J) /\ DOMAIN J = (UNION {G[p] : p \in PluginDirs}) \cup DOMAIN K
      /\ \A p \in PluginDirs : \A t \in G[p] : J[t] = p
      /\ \A t \in DOMAIN K : J[t] = K[t]
  <2>1. \A t \in DOMAIN K : t \notin DOMAIN Owners(G)  BY <1>2
  <2>o. PICK o : o = Owners(G)  OBVIOUS
  <2>j. J = Over(o, K)  BY <2>o
  <2>2. /\ IsMap(J) /\ DOMAIN J = DOMAIN o \cup DOMAIN K
        /\ \A t \in DOMAIN o : J[t] = o[t]
        /\ \A t \in DOMAIN K : t \notin DOMAIN o => J[t] = K[t]
    BY <2>j DEF Over, IsMap
  <2> QED  BY <1>2, <2>o, <2>1, <2>2
<1>4. ASSUME NEW t \in DOMAIN J
      PROVE  J[t] \in 0..PluginCount
  <2>1. CASE t \in DOMAIN K  BY <1>1, <1>3, <2>1
  <2>2. CASE t \notin DOMAIN K
    <3>1. PICK p \in PluginDirs : t \in G[p]  BY <1>3, <2>2
    <3> QED  BY <1>0, <1>3, <3>1
  <2> QED  BY <2>1, <2>2
<1>5. ASSUME NEW p \in PluginDirs
      PROVE  (IF p \in loading THEN G[p] ELSE IF p \in gone THEN {} ELSE S[p])
                = {t \in DOMAIN J : J[t] = p}
  <2>k. ASSUME NEW t \in DOMAIN K
        PROVE  I[t] = p => p \notin gone /\ t \in S[p]
    BY <1>1
  <2>g. \A q \in PluginDirs : \A t \in G[q] : J[t] = p => q = p  BY <1>3
  <2>1. {t \in DOMAIN J : J[t] = p} = G[p] \cup {t \in DOMAIN K : I[t] = p}
    <3>1. ASSUME NEW t \in DOMAIN J, J[t] = p
          PROVE  t \in G[p] \/ (t \in DOMAIN K /\ I[t] = p)
      <4>1. CASE t \in DOMAIN K  BY <1>1, <1>3, <3>1, <4>1
      <4>2. CASE t \notin DOMAIN K
        <5>1. PICK q \in PluginDirs : t \in G[q]  BY <1>3, <4>2
        <5> QED  BY <2>g, <3>1, <5>1
      <4> QED  BY <4>1, <4>2
    <3>2. \A t \in G[p] : t \in DOMAIN J /\ J[t] = p  BY <1>3
    <3>3. \A t \in DOMAIN K : I[t] = p => t \in DOMAIN J /\ J[t] = p  BY <1>1, <1>3
    <3> QED  BY <3>1, <3>2, <3>3
  <2>2. CASE p \in loading
    <3>1. {t \in DOMAIN K : I[t] = p} = {}  BY <2>2, <2>k
    <3> QED  BY <2>1, <2>2, <3>1
  <2>3. CASE p \notin loading /\ p \in gone
    <3>1. {t \in DOMAIN K : I[t] = p} = {}  BY <2>3, <2>k
    <3> QED  BY <2>1, <2>3, <3>1
  <2>4. CASE p \notin loading /\ p \notin gone
    <3>1. ASSUME NEW t \in S[p]
          PROVE  t \in DOMAIN K /\ I[t] = p
      <4>1. t \in DOMAIN I /\ I[t] = p  BY <3>1
      <4>2. ASSUME NEW q \in gone, t \in S[q]  PROVE FALSE  BY <2>4, <4>1, <4>2
      <4> QED  BY <1>1, <4>1, <4>2
    <3>2. {t \in DOMAIN K : I[t] = p} = S[p]  BY <2>k, <3>1
    <3> QED  BY <2>1, <2>4, <3>2
  <2> QED  BY <2>2, <2>3, <2>4
<1> QED  BY <1>3, <1>4, <1>5 DEF Merged

(* Plugins are read one after another, in the order of their ranks.        *)
RankedGains(loading, taken, rank, G) ==
    /\ loading \in SUBSET PluginDirs
    /\ \A p, q \in PluginDirs : p # q => rank[p] < rank[q] \/ rank[q] < rank[p]
    /\ G = [p \in PluginDirs |->
               IF p \in loading THEN Gains(p, {q \in loading : rank[q] < rank[p]}, taken) ELSE {}]

(* No two of them gain the same tool.                                      *)
LEMMA GainsDisjoint ==
    ASSUME NEW loading, NEW taken, NEW rank, NEW G, RankedGains(loading, taken, rank, G)
    PROVE  /\ \A p, q \in PluginDirs : p # q => G[p] \cap G[q] = {}
           /\ \A p \in PluginDirs : G[p] \cap taken = {} /\ (p \notin loading => G[p] = {})
<1> USE DEF RankedGains
<1>1. ASSUME NEW p \in PluginDirs, NEW q \in PluginDirs, rank[p] < rank[q]
      PROVE  G[p] \cap G[q] = {}
  <2> SUFFICES ASSUME NEW t, t \in G[p], t \in G[q]  PROVE FALSE  OBVIOUS
  <2>1. p \in loading /\ t \in ToolsOf[p]  BY DEF Gains
  <2>2. q \in loading /\ \A r \in {x \in loading : rank[x] < rank[q]} : t \notin ToolsOf[r]
    BY DEF Gains
  <2> QED  BY <1>1, <2>1, <2>2
<1>2. \A p \in PluginDirs : G[p] \cap taken = {} /\ (p \notin loading => G[p] = {})  BY DEF Gains
<1> QED  BY <1>1, <1>2

-----------------------------------------------------------------------------
(* The initial state: load and register_all.                               *)
LEMMA InitPlug ==
    ASSUME PlugInit
    PROVE  PlugInv
<1> PICK live : live = {p \in {q \in PluginDirs : onDisk[q].here /\ onDisk[q].json = "ok"} : toml[p]}  OBVIOUS
<1> PICK G : G = [p \in PluginDirs |-> IF p \in live THEN Gains(p, {q \in live : q < p}, BuiltinTools) ELSE {}]
  OBVIOUS
<1> PICK I, J : I = [t \in BuiltinTools |-> Builtin] /\ J = Over(Owners(G), I)  OBVIOUS
<1>p. /\ pm.slots = G /\ pm.index = J
      /\ pm = [known |-> pm.known, slots |-> pm.slots, index |-> pm.index,
               flags |-> pm.flags, seen |-> pm.seen, cache |-> pm.cache]
  BY DEF PlugInit, load
<1>r. reg = [tools |-> pm.index, descs |-> pm.cache]  BY DEF PlugInit, register_all
<1>1. \A p, q \in PluginDirs : p # q => G[p] \cap G[q] = {}
  <2> PICK rank : rank = [p \in PluginDirs |-> p]  OBVIOUS
  <2>1. \A p, q \in PluginDirs : p # q => rank[p] < rank[q] \/ rank[q] < rank[p]
    BY PluginShape DEF PluginDirs
  <2>2. ASSUME NEW p \in PluginDirs
        PROVE  {q \in live : rank[q] < rank[p]} = {q \in live : q < p}
    OBVIOUS
  <2>3. G = [p \in PluginDirs |-> IF p \in live THEN Gains(p, {q \in live : rank[q] < rank[p]}, BuiltinTools)
                                  ELSE {}]
    BY <2>2
  <2>4. live \in SUBSET PluginDirs  OBVIOUS
  <2>5. RankedGains(live, BuiltinTools, rank, G)  BY <2>1, <2>3, <2>4 DEF RankedGains
  <2> QED  BY <2>5, GainsDisjoint
<1>2. \A p \in PluginDirs : G[p] \cap BuiltinTools = {} /\ (p \notin live => G[p] = {})
  BY DEF Gains
<1>3. /\ IsMap(pm.index) /\ \A t \in DOMAIN pm.index : pm.index[t] \in 0..PluginCount
      /\ \A p \in PluginDirs : pm.slots[p] = {t \in DOMAIN pm.index : pm.index[t] = p}
  <2> PICK S, gone : S = [p \in PluginDirs |-> {}] /\ gone = {}  OBVIOUS
  <2>1. 0 \notin PluginDirs /\ 0 \in 0..PluginCount  BY PluginShape DEF PluginDirs
  <2>2. /\ \A t \in DOMAIN I : I[t] \in 0..PluginCount
        /\ \A p \in PluginDirs : S[p] = {t \in DOMAIN I : I[t] = p}
    BY <2>1 DEF Builtin
  <2>3. I = Forget(I, UNION {S[p] : p \in gone}) /\ DOMAIN I = BuiltinTools
    BY DEF Forget, Restrict
  <2>4. live \in SUBSET PluginDirs /\ gone \in SUBSET PluginDirs /\ DOMAIN G = PluginDirs  OBVIOUS
  <2>5. \A p \in live : S[p] = {} \/ p \in gone  OBVIOUS
  <2>6. Merging(I, S, gone, live, G, I, J)
    BY <1>1, <1>2, <2>2, <2>3, <2>4, <2>5 DEF Merging
  <2>7. Merged(S, gone, live, G, J)  BY <2>6, Merge
  <2>8. /\ IsMap(J) /\ \A t \in DOMAIN J : J[t] \in 0..PluginCount
        /\ \A p \in PluginDirs : G[p] = {t \in DOMAIN J : J[t] = p}
    BY <1>2, <2>7 DEF Merged
  <2>9. PICK i, s : pm.index = i /\ pm.slots = s  OBVIOUS
  <2>10. i = J /\ s = G  BY <1>p, <2>9
  <2>11. /\ IsMap(i) /\ \A t \in DOMAIN i : i[t] \in 0..PluginCount
         /\ \A p \in PluginDirs : s[p] = {t \in DOMAIN i : i[t] = p}
    BY ONLY <2>8, <2>10, Zenon
  <2> QED  BY ONLY <2>9, <2>11, Zenon
<1>4. ManagerShape /\ RegistryAgrees
  <2>1. IsMap(G) /\ DOMAIN G = PluginDirs  BY DEF IsMap
  <2>2. reg.tools = pm.index /\ reg = [tools |-> reg.tools, descs |-> reg.descs]  BY <1>r
  <2>3. ManagerShape  BY <1>p, <1>3, <2>1, <2>2 DEF ManagerShape
  <2>5. RegistryAgrees  BY <1>3, <2>2 DEF RegistryAgrees
  <2> QED  BY <2>3, <2>5
<1>5. ScanShape  BY DEF PlugInit, ScanShape, IsMap, Resting
<1>6. DiskShape
  <2> PICK R : R = [here : BOOLEAN, json : {"missing", "bad", "ok"}, override : Nat]  OBVIOUS
  <2>1. [here |-> FALSE, json |-> "missing", override |-> 0] \in R  OBVIOUS
  <2>2. [here |-> TRUE, json |-> "ok", override |-> 0] \in R  OBVIOUS
  <2> QED  BY <2>1, <2>2 DEF PlugInit, DiskShape
<1>7. RemovalsAwaited
  <2>1. \A p \in PluginDirs : ~onDisk[p].here => p \notin live  OBVIOUS
  <2> QED  BY <1>p, <1>2, <2>1 DEF RemovalsAwaited
<1> QED  BY <1>4, <1>5, <1>6, <1>7 DEF PlugInv

-----------------------------------------------------------------------------
(* rescan, by either task and in whatever order read_dir lists.            *)
LEMMA ReconcileKeeps ==
    ASSUME PlugInv, NEW k \in ScanTasks, Reconcile(k)
    PROVE  PlugInv'
<1>u. UNCHANGED <<onDisk, woken>>  BY DEF Reconcile
<1>r. PICK rank \in Injection(PluginDirs, PluginDirs) : rescan(k, rank)  BY DEF Reconcile
<1> PICK gone : gone = Unloads(k)  OBVIOUS
<1> PICK loads : loads = Loads(k, gone)  OBVIOUS
<1> PICK loading : loading = {p \in loads : scan[k].flags[p]}  OBVIOUS
<1> PICK I, S, K : I = pm.index /\ S = pm.slots /\ K = IndexWithout(gone)  OBVIOUS
<1> PICK G : G = [p \in PluginDirs |-> IF p \in loading
                                      THEN Gains(p, {q \in loading : rank[q] < rank[p]}, DOMAIN K) ELSE {}]
  OBVIOUS
<1> PICK J : J = Over(Owners(G), K)  OBVIOUS
<1> PICK T : T = [p \in PluginDirs |-> IF p \in loading THEN G[p] ELSE IF p \in gone THEN {} ELSE S[p]]
  OBVIOUS
<1>l. scan[k].listed \subseteq PluginDirs  BY DEF PlugInv, ScanShape
<1>g. /\ gone \in SUBSET PluginDirs /\ loading \in SUBSET PluginDirs
      /\ \A p \in loading : /\ p \in scan[k].listed /\ onDisk[p].here
                            /\ S[p] = {} \/ p \in gone
  BY <1>l DEF Unloads, Loads, Readable
<1>s. /\ \A t \in DOMAIN I : I[t] \in 0..PluginCount
      /\ \A p \in PluginDirs : S[p] = {t \in DOMAIN I : I[t] = p}
      /\ reg.tools = I /\ IsMap(I)
  BY DEF PlugInv, ManagerShape, RegistryAgrees
<1>k. K = Forget(I, UNION {S[p] : p \in gone})  BY DEF IndexWithout
<1>1. RankedGains(loading, DOMAIN K, rank, G)
  <2>1. rank \in [PluginDirs -> PluginDirs] /\ IsInjective(rank)  BY DEF Injection
  <2>2. \A p, q \in PluginDirs : p # q => rank[p] # rank[q]  BY <2>1 DEF IsInjective
  <2>3. \A p \in PluginDirs : rank[p] \in Int  BY <2>1, PluginShape DEF PluginDirs
  <2>4. \A p, q \in PluginDirs : p # q => rank[p] < rank[q] \/ rank[q] < rank[p]  BY <2>2, <2>3
  <2> QED  BY <1>g, <2>4 DEF RankedGains
<1>2. /\ \A p, q \in PluginDirs : p # q => G[p] \cap G[q] = {}
      /\ \A p \in PluginDirs : G[p] \cap DOMAIN K = {} /\ (p \notin loading => G[p] = {})
  BY <1>1, GainsDisjoint
<1>3. Merging(I, S, gone, loading, G, K, J)
  <2>1. DOMAIN G = PluginDirs  OBVIOUS
  <2> QED  BY <1>2, <1>g, <1>s, <1>k, <2>1 DEF Merging
<1>4. Merged(S, gone, loading, G, J)  BY <1>3, Merge
<1>5. pm' = [pm EXCEPT !.known = @ \cup loads, !.slots = T, !.index = J]
  BY <1>r DEF rescan
<1>6. reg'.tools = J /\ reg' = [tools |-> reg'.tools, descs |-> reg'.descs]
  <2> PICK names : names = {t \in DOMAIN I : I[t] \in gone}  OBVIOUS
  <2>1. names = UNION {S[p] : p \in gone}
    <3>1. ASSUME NEW t \in names  PROVE t \in UNION {S[p] : p \in gone}
      BY <1>g, <1>s
    <3>2. ASSUME NEW p \in gone, NEW t \in S[p]  PROVE t \in names
      BY <1>g, <1>s
    <3> QED  BY <3>1, <3>2
  <2>2. Forget(reg.tools, names) = K  BY <1>k, <1>s, <2>1
  <2>3. unregister_by_plugin(reg, gone) = [tools |-> K, descs |-> Forget(reg.descs, names)]
    BY <1>s, <2>2 DEF unregister_by_plugin
  <2>4. reg' = [unregister_by_plugin(reg, gone) EXCEPT !.tools = register(@, G)]
    BY <1>r DEF rescan
  <2> PICK D : D = Forget(reg.descs, names)  OBVIOUS
  <2>5. reg' = [[tools |-> K, descs |-> D] EXCEPT !.tools = register(@, G)]  BY <2>3, <2>4
  <2>6. reg' = [tools |-> J, descs |-> D]  BY <2>5 DEF register
  <2> QED  BY <2>6
<1>7. pm'.slots = T /\ pm'.index = J
      /\ pm' = [known |-> pm'.known, slots |-> pm'.slots, index |-> pm'.index,
                flags |-> pm'.flags, seen |-> pm'.seen, cache |-> pm'.cache]
  BY <1>5 DEF PlugInv, ManagerShape
<1>8. ManagerShape' /\ RegistryAgrees'
  <2>1. IsMap(T) /\ DOMAIN T = PluginDirs  BY DEF IsMap
  <2>2. ManagerShape'  BY <1>4, <1>6, <1>7, <2>1 DEF ManagerShape, Merged
  <2>3. \A p \in PluginDirs : T[p] = {t \in DOMAIN J : J[t] = p}  BY <1>4 DEF Merged
  <2>4. \A p \in PluginDirs : pm'.slots[p] = {t \in DOMAIN pm'.index : pm'.index[t] = p}
    <3>1. pm'.slots = T /\ pm'.index = J  BY <1>7
    <3>2. ASSUME NEW p \in PluginDirs
          PROVE  pm'.slots[p] = {t \in DOMAIN J : J[t] = p} /\ DOMAIN pm'.index = DOMAIN J /\ \A t : pm'.index[t] = J[t]
      BY <2>3, <3>1
    <3> QED  BY <3>2
  <2>5. reg'.tools = pm'.index  BY <1>6, <1>7
  <2>6. RegistryAgrees'  BY <2>4, <2>5 DEF RegistryAgrees
  <2> QED  BY <2>2, <2>6
<1>9. ScanShape' /\ DiskShape'
  BY <1>u DEF PlugInv, ScanShape, DiskShape, Reconcile, Resting, IsMap
<1>10. RemovalsAwaited'
  <2> SUFFICES ASSUME NEW p \in PluginDirs, ~onDisk[p].here, T[p] # {}
               PROVE  Awaited(p)'
    BY <1>u, <1>7 DEF RemovalsAwaited
  <2>1. p \notin loading /\ p \notin gone /\ S[p] # {}  BY <1>g
  <2>2. Awaited(p)  BY <2>1 DEF PlugInv, RemovalsAwaited
  <2>3. p \in scan[k].listed  BY <2>1 DEF Unloads
  <2>4. "files" \in woken
    \/ (k = "toml" /\ scan'["files"] = scan["files"])
    BY <2>2, <2>3 DEF Reconcile, Awaited, ScanTasks, PlugInv, ScanShape
  <2> QED  BY <1>u, <2>2, <2>4 DEF Awaited
<1> QED  BY <1>8, <1>9, <1>10 DEF PlugInv

(* Changes of the disk and of daemon.toml: a removal wakes the watcher.    *)
LEMMA DiskKeeps ==
    ASSUME PlugInv, NEW p \in PluginDirs,
           \/ MakeDir(p) \/ RemoveDir(p) \/ WriteOverride(p) \/ EditToml(p)
           \/ \E x \in {"bad", "ok"} : WriteToolJson(p, x)
    PROVE  PlugInv'
<1>u. pm' = pm /\ reg' = reg /\ scan' = scan /\ (\/ woken' = woken \/ "files" \in woken')
  BY DEF MakeDir, RemoveDir, WriteOverride, EditToml, WriteToolJson, Notify
<1>1. ManagerShape' /\ ScanShape' /\ RegistryAgrees'
  BY <1>u DEF PlugInv, ManagerShape, ScanShape, RegistryAgrees
<1> PICK R : R = [here : BOOLEAN, json : {"missing", "bad", "ok"}, override : Nat]  OBVIOUS
<1>t. onDisk \in [PluginDirs -> R]  BY DEF PlugInv, DiskShape
<1>2. DiskShape' /\ (\A q \in PluginDirs : onDisk'[q].here = onDisk[q].here \/ onDisk'[q].here \/ "files" \in woken')
  <2>1. CASE MakeDir(p)
    <3>1. onDisk' = [onDisk EXCEPT ![p] = [here |-> TRUE, json |-> "missing", override |-> 0]]
      BY <2>1 DEF MakeDir
    <3>2. [here |-> TRUE, json |-> "missing", override |-> 0] \in R  OBVIOUS
    <3> QED  BY <1>t, <3>1, <3>2 DEF DiskShape
  <2>2. CASE RemoveDir(p)
    <3>1. /\ onDisk' = [onDisk EXCEPT ![p] = [here |-> FALSE, json |-> "missing", override |-> 0]]
          /\ "files" \in woken'
      BY <2>2 DEF RemoveDir, Notify
    <3>2. [here |-> FALSE, json |-> "missing", override |-> 0] \in R  OBVIOUS
    <3> QED  BY <1>t, <3>1, <3>2 DEF DiskShape
  <2>3. CASE WriteOverride(p)
    <3>1. onDisk' = [onDisk EXCEPT ![p].override = @ + 1]  BY <2>3 DEF WriteOverride
    <3>2. [onDisk[p] EXCEPT !.override = @ + 1] \in R
      BY <1>t
    <3> QED  BY <1>t, <3>1, <3>2 DEF DiskShape
  <2>4. CASE \E x \in {"bad", "ok"} : WriteToolJson(p, x)
    <3>1. PICK x \in {"bad", "ok"} : onDisk' = [onDisk EXCEPT ![p].json = x]
      BY <2>4 DEF WriteToolJson
    <3>2. [onDisk[p] EXCEPT !.json = x] \in R  BY <1>t
    <3> QED  BY <1>t, <3>1, <3>2 DEF DiskShape
  <2>5. CASE EditToml(p)  BY <1>t, <2>5 DEF EditToml, DiskShape
  <2> QED  BY <2>1, <2>2, <2>3, <2>4, <2>5
<1>3. RemovalsAwaited'
  BY <1>u, <1>2 DEF PlugInv, RemovalsAwaited, Awaited
<1> QED  BY <1>1, <1>2, <1>3 DEF PlugInv

(* The steps of the two tasks before and after rescan.                     *)
LEMMA TaskKeeps ==
    ASSUME PlugInv,
           \/ watch_with \/ Debounced \/ HotReload \/ reload_overrides \/ update_overrides
           \/ \E k \in ScanTasks : ListDir(k) \/ WatchNew(k)
    PROVE  PlugInv'
<1>m. /\ pm = [known |-> pm.known, slots |-> pm.slots, index |-> pm.index,
               flags |-> pm.flags, seen |-> pm.seen, cache |-> pm.cache]
      /\ reg = [tools |-> reg.tools, descs |-> reg.descs]
  BY DEF PlugInv, ManagerShape
<1>d. DiskShape' /\ onDisk' = onDisk
  BY DEF PlugInv, DiskShape, watch_with, Debounced, HotReload, reload_overrides, update_overrides,
         ListDir, WatchNew
<1>p. /\ pm'.slots = pm.slots /\ pm'.index = pm.index
      /\ pm' = [known |-> pm'.known, slots |-> pm'.slots, index |-> pm'.index,
                flags |-> pm'.flags, seen |-> pm'.seen, cache |-> pm'.cache]
  BY <1>m DEF watch_with, Debounced, HotReload, reload_overrides, update_overrides, ListDir, WatchNew
<1>r. reg'.tools = reg.tools /\ reg' = [tools |-> reg'.tools, descs |-> reg'.descs]
  BY <1>m DEF watch_with, Debounced, HotReload, reload_overrides, update_overrides, ListDir, WatchNew
<1>1. ManagerShape' /\ RegistryAgrees'
  <2>1. pm'.slots = pm.slots /\ pm'.index = pm.index /\ reg'.tools = reg.tools  BY <1>p, <1>r
  <2>2. RegistryAgrees'  BY <2>1 DEF PlugInv, RegistryAgrees
  <2>3. /\ IsMap(pm'.slots) /\ DOMAIN pm'.slots = PluginDirs
        /\ IsMap(pm'.index) /\ \A t \in DOMAIN pm'.index : pm'.index[t] \in 0..PluginCount
    BY <2>1 DEF PlugInv, ManagerShape
  <2> QED  BY <1>p, <1>r, <2>2, <2>3 DEF ManagerShape
<1>s. /\ DOMAIN scan = ScanTasks /\ IsMap(scan)
      /\ \A k \in ScanTasks : /\ scan[k] = [at |-> scan[k].at, listed |-> scan[k].listed,
                                            flags |-> scan[k].flags, descs |-> scan[k].descs]
                             /\ scan[k].listed \subseteq PluginDirs
  BY DEF PlugInv, ScanShape
<1>2. ScanShape'
  <2>1. ASSUME NEW k \in ScanTasks, NEW x, scan' = [scan EXCEPT ![k] = x],
               x = [at |-> x.at, listed |-> x.listed, flags |-> x.flags, descs |-> x.descs],
               x.listed \subseteq PluginDirs
        PROVE  ScanShape'
    BY <1>s, <2>1 DEF ScanShape, IsMap
  <2>k. "files" \in ScanTasks /\ "toml" \in ScanTasks  BY DEF ScanTasks
  <2>2. CASE watch_with
    <3> PICK x : x = [scan["files"] EXCEPT !.at = "settle"]  OBVIOUS
    <3>1. scan' = [scan EXCEPT !["files"] = x]  BY <2>2, <1>s DEF watch_with
    <3>2. /\ x = [at |-> x.at, listed |-> x.listed, flags |-> x.flags, descs |-> x.descs]
          /\ x.listed \subseteq PluginDirs
      BY <1>s, <2>k
    <3> QED  BY <2>1, <2>k, <3>1, <3>2
  <2>3. CASE Debounced
    <3> PICK x : x = [scan["files"] EXCEPT !.at = "list"]  OBVIOUS
    <3>1. scan' = [scan EXCEPT !["files"] = x]  BY <2>3, <1>s DEF Debounced
    <3>2. /\ x = [at |-> x.at, listed |-> x.listed, flags |-> x.flags, descs |-> x.descs]
          /\ x.listed \subseteq PluginDirs
      BY <1>s, <2>k
    <3> QED  BY <2>1, <2>k, <3>1, <3>2
  <2>4. CASE HotReload
    <3> PICK x : x = [scan["toml"] EXCEPT !.at = "list"]  OBVIOUS
    <3>1. scan' = [scan EXCEPT !["toml"] = x]  BY <2>4, <1>s DEF HotReload
    <3>2. /\ x = [at |-> x.at, listed |-> x.listed, flags |-> x.flags, descs |-> x.descs]
          /\ x.listed \subseteq PluginDirs
      BY <1>s, <2>k
    <3> QED  BY <2>1, <2>k, <3>1, <3>2
  <2>5. CASE reload_overrides
    <3> PICK x : x = IF Descriptions = pm.cache THEN Resting
                     ELSE [Resting EXCEPT !.at = "update", !.descs = Descriptions]
      OBVIOUS
    <3>1. scan' = [scan EXCEPT !["files"] = x]  BY <2>5 DEF reload_overrides
    <3>2. /\ x = [at |-> x.at, listed |-> x.listed, flags |-> x.flags, descs |-> x.descs]
          /\ x.listed = {}
      BY DEF Resting
    <3> QED  BY <2>1, <2>k, <3>1, <3>2
  <2>6. CASE update_overrides
    <3> PICK x : x = Resting  OBVIOUS
    <3>1. scan' = [scan EXCEPT !["files"] = x]  BY <2>6 DEF update_overrides
    <3>2. /\ x = [at |-> x.at, listed |-> x.listed, flags |-> x.flags, descs |-> x.descs]
          /\ x.listed = {}
      BY DEF Resting
    <3> QED  BY <2>1, <2>k, <3>1, <3>2
  <2>7. ASSUME NEW k \in ScanTasks, ListDir(k)  PROVE ScanShape'
    <3> PICK x : x = [scan[k] EXCEPT !.at = "copy", !.listed = Present]  OBVIOUS
    <3>1. scan' = [scan EXCEPT ![k] = x]  BY <2>7, <1>s DEF ListDir
    <3>f. PICK f, d, l, a : scan[k] = [at |-> a, listed |-> l, flags |-> f, descs |-> d]  BY <1>s
    <3>g. PICK P : P = Present  OBVIOUS
    <3>h. x = [[at |-> a, listed |-> l, flags |-> f, descs |-> d] EXCEPT !.at = "copy", !.listed = P]
      BY <3>f, <3>g
    <3>a. x = [at |-> "copy", listed |-> P, flags |-> f, descs |-> d]
      BY ONLY <3>h
    <3>b. Present \subseteq PluginDirs  BY DEF Present
    <3>2. /\ x = [at |-> x.at, listed |-> x.listed, flags |-> x.flags, descs |-> x.descs]
          /\ x.listed \subseteq PluginDirs
      BY <3>a, <3>b, <3>g
    <3> QED  BY <2>1, <2>k, <3>1, <3>2
  <2>8. ASSUME NEW k \in ScanTasks, WatchNew(k)  PROVE ScanShape'
    <3> PICK x : x = [scan[k] EXCEPT !.at = "apply", !.flags = pm.flags]  OBVIOUS
    <3>1. scan' = [scan EXCEPT ![k] = x]  BY <2>8, <1>s DEF WatchNew
    <3>f. PICK f, d, l, a : scan[k] = [at |-> a, listed |-> l, flags |-> f, descs |-> d]  BY <1>s
    <3>g. PICK P : P = pm.flags  OBVIOUS
    <3>h. x = [[at |-> a, listed |-> l, flags |-> f, descs |-> d] EXCEPT !.at = "apply", !.flags = P]
      BY <3>f, <3>g
    <3>a. x = [at |-> "apply", listed |-> l, flags |-> P, descs |-> d]
      BY ONLY <3>h
    <3>b. l \subseteq PluginDirs  BY <1>s, <3>f
    <3>2. /\ x = [at |-> x.at, listed |-> x.listed, flags |-> x.flags, descs |-> x.descs]
          /\ x.listed \subseteq PluginDirs
      BY ONLY <3>a, <3>b
    <3> QED  BY <2>1, <2>k, <3>1, <3>2
  <2> QED  BY <2>2, <2>3, <2>4, <2>5, <2>6, <2>7, <2>8
<1>3. RemovalsAwaited'
  <2> SUFFICES ASSUME NEW p \in PluginDirs, ~onDisk[p].here, pm.slots[p] # {}
               PROVE  Awaited(p)'
    BY <1>d, <1>p DEF RemovalsAwaited
  <2>1. Awaited(p)  BY DEF PlugInv, RemovalsAwaited
  <2> QED
    BY <2>1 DEF Awaited, PlugInv, ScanShape, ScanTasks, Present,
         watch_with, Debounced, HotReload, reload_overrides, update_overrides, ListDir, WatchNew
<1> QED  BY <1>1, <1>2, <1>3, <1>d DEF PlugInv

-----------------------------------------------------------------------------
(* The theorems.                                                           *)

(* The shapes, the agreement of the registry with the plugins and the      *)
(* pending removals hold in every reachable state, for any number of       *)
(* plugins and tools and any changes of disk and configuration.            *)
THEOREM PlugInvHolds == PlugSpec => []PlugInv
<1>1. PlugInit => PlugInv  BY InitPlug
<1>2. PlugInv /\ PlugNext => PlugInv'
  BY DiskKeeps, TaskKeeps, ReconcileKeeps DEF PlugNext
<1>3. PlugInv /\ UNCHANGED plugVars => PlugInv'
  BY DEF PlugInv, ManagerShape, ScanShape, DiskShape, RegistryAgrees, RemovalsAwaited, Awaited, plugVars
<1> QED  BY <1>1, <1>2, <1>3, PTL DEF PlugSpec

(* The tools the model is offered (ToolRegistry), the index that routes    *)
(* tool calls and the lists rescan unloads by name the same owners at all  *)
(* times, and at rest none of them is a plugin whose directory is gone,    *)
(* although both tasks of rescan act on listings and flags read earlier.   *)
THEOREM RegistryIsSound == PlugSpec => []RegistrySound
<1>1. ASSUME PlugInv  PROVE RegistrySound
  <2>1. RegistryAgrees  BY <1>1 DEF PlugInv
  <2>2. ASSUME AtRest, NEW p \in PluginDirs, ~onDisk[p].here  PROVE p \notin Range(reg.tools)
    <3>1. ~Awaited(p)  BY <2>2 DEF AtRest, Awaited, ScanTasks
    <3>2. pm.slots[p] = {}  BY <1>1, <2>2, <3>1 DEF PlugInv, RemovalsAwaited
    <3> QED  BY <2>1, <3>2 DEF RegistryAgrees, Range
  <2> QED  BY <2>1, <2>2 DEF RegistrySound, VanishedUnloaded
<1> QED  BY <1>1, PlugInvHolds, PTL

-----------------------------------------------------------------------------
(* The configuration.                                                      *)

(* A document of daemon.toml, and the settings that a push carries.        *)
ClientSection == [Settings -> Nat]
Pushes == UNION {[S -> Nat] : S \in SUBSET Settings}

IsConfig(d) ==
    /\ d = [sandbox |-> d.sandbox, llm |-> d.llm, plugins |-> d.plugins,
            tasks |-> d.tasks, client |-> d.client]
    /\ d.client \in ClientSection

DocsShape ==
    /\ edits \in Nat
    /\ IsConfig(daemonToml) /\ IsConfig(current) /\ IsConfig(dc)
    /\ chan = [s \in Watched |-> chan[s]] /\ \A s \in Watched : IsConfig(chan[s])
    /\ engine = [s \in Engines |-> engine[s]]
    /\ handler = [c \in Clients |-> handler[c]]
    /\ \A c \in Clients : /\ handler[c] = [pc |-> handler[c].pc, op |-> handler[c].op, doc |-> handler[c].doc]
                          /\ IsConfig(handler[c].doc)

LinkShape ==
    /\ prev \in ClientSection
    /\ conn \in [Clients -> [up : BOOLEAN, full : BOOLEAN, raced : BOOLEAN]]
    /\ queue \in [Clients -> Seq(Pushes)]
    /\ view \in [Clients -> ClientSection]

(* The watcher has read the file, or will.                                 *)
FileRead == Settled => current = daemonToml

(* A channel's snapshot has its own section up to date, and who has taken  *)
(* it runs with that.                                                      *)
SnapshotsFollow ==
    /\ \A s \in Watched : chan[s][s] = current[s]
    /\ \A s \in Engines : <<"engine", s>> \notin unseen => engine[s] = current[s]
    /\ <<"push", "client">> \notin unseen => prev = current.client

(* What v becomes when the pushes of q are applied: the last one that has  *)
(* a setting decides it.                                                   *)
LeadsTo(v, q, goal) ==
    \A s \in Settings :
        /\ (\A i \in 1 .. Len(q) : s \notin DOMAIN q[i]) => v[s] = goal[s]
        /\ \A i \in 1 .. Len(q) :
              s \in DOMAIN q[i] /\ (\A j \in i + 1 .. Len(q) : s \notin DOMAIN q[j])
                 => q[i][s] = goal[s]

PushesLead ==
    \A c \in Clients : /\ conn[c].full => conn[c].up
                       /\ conn[c].full /\ ~conn[c].raced => LeadsTo(view[c], queue[c], prev)

CfgInv == DocsShape /\ LinkShape /\ FileRead /\ SnapshotsFollow /\ PushesLead

-----------------------------------------------------------------------------
(* The edits of a document.                                                *)

(* A field of a document may change: it stays one.                         *)
LEMMA EditKeepsConfig ==
    ASSUME NEW d, IsConfig(d), NEW op, NEW v \in Nat
    PROVE  IsConfig(apply_config_changes(d, op, v))
<1>1. ASSUME NEW x  PROVE IsConfig([d EXCEPT !.sandbox = x])  BY DEF IsConfig
<1>2. ASSUME NEW x  PROVE IsConfig([d EXCEPT !.llm = x])  BY DEF IsConfig
<1>3. IsConfig([d EXCEPT !.plugins = v]) /\ IsConfig([d EXCEPT !.tasks = v])  BY DEF IsConfig
<1>4. IsConfig([d EXCEPT !.client[op[2]] = v])
  <2>1. PICK cl : cl = [d.client EXCEPT ![op[2]] = v]  OBVIOUS
  <2>2. cl \in ClientSection  BY <2>1 DEF IsConfig, ClientSection
  <2>3. IsConfig([d EXCEPT !.client = cl])  BY <2>2 DEF IsConfig
  <2> QED  BY <2>1, <2>3
<1>5. IsConfig(set_toml_nested_in_doc(d, op, v))
  <2>1. IsConfig([d EXCEPT !.llm[op[2]] = v])  BY <1>2
  <2> QED  BY <1>3, <1>4, <2>1 DEF set_toml_nested_in_doc
<1>6. IsConfig(handle_add_global_rule(d, v))
  BY <1>1 DEF handle_add_global_rule, append_to_toml_array
<1>7. IsConfig(handle_edit_global_rule(d, op, v))
  BY <1>1 DEF handle_edit_global_rule, remove_from_toml_array, replace_in_toml_array
<1>8. IsConfig(handle_edit_backend(d, op, v))
  BY <1>2, <1>5 DEF handle_edit_backend, remove_toml_table
<1>9. IsConfig(handle_add_backend(d, op, v))  BY <1>5 DEF handle_add_backend
<1> QED  BY <1>5, <1>6, <1>7, <1>8, <1>9 DEF apply_config_changes

(* The initial documents.                                                  *)
LEMMA FirstConfigs == IsConfig(DefaultConfig) /\ IsConfig(InitialConfig)
BY DEF IsConfig, DefaultConfig, InitialConfig, ClientSection

-----------------------------------------------------------------------------
(* Pushes.                                                                 *)

(* What one more push does to where a queue leads.                         *)
LEMMA AppendLeads ==
    ASSUME NEW v \in ClientSection, NEW q \in Seq(Pushes), NEW p \in Pushes,
           NEW old \in ClientSection, NEW new \in ClientSection,
           \A s \in DOMAIN p : p[s] = new[s],
           \/ DOMAIN p = Settings
           \/ LeadsTo(v, q, old) /\ \A s \in Settings \ DOMAIN p : old[s] = new[s]
    PROVE  LeadsTo(v, Append(q, p), new)
<1> DEFINE r == Append(q, p)
<1>1. r \in Seq(Pushes) /\ Len(r) = Len(q) + 1 /\ Len(q) \in Nat
      /\ (\A i \in 1 .. Len(q) : r[i] = q[i]) /\ r[Len(q) + 1] = p
  OBVIOUS
<1> HIDE DEF r
<1>2. ASSUME NEW s \in Settings
      PROVE  /\ (\A i \in 1 .. Len(r) : s \notin DOMAIN r[i]) => v[s] = new[s]
             /\ \A i \in 1 .. Len(r) :
                   s \in DOMAIN r[i] /\ (\A j \in i + 1 .. Len(r) : s \notin DOMAIN r[j])
                      => r[i][s] = new[s]
  <2>1. CASE s \in DOMAIN p
    <3>1. Len(r) \in 1 .. Len(r) /\ r[Len(r)] = p  BY <1>1
    <3>2. ASSUME NEW i \in 1 .. Len(r), s \in DOMAIN r[i],
                 \A j \in i + 1 .. Len(r) : s \notin DOMAIN r[j]
          PROVE  r[i][s] = new[s]
      <4>1. i = Len(r)  BY <1>1, <2>1, <3>1, <3>2
      <4> QED  BY <2>1, <3>1, <4>1
    <3> QED  BY <2>1, <3>1, <3>2
  <2>2. CASE s \notin DOMAIN p
    <3>1. LeadsTo(v, q, old) /\ old[s] = new[s]  BY <2>2
    <3>2. (\A i \in 1 .. Len(r) : s \notin DOMAIN r[i]) => v[s] = new[s]
      BY <1>1, <3>1 DEF LeadsTo
    <3>3. ASSUME NEW i \in 1 .. Len(r), s \in DOMAIN r[i],
                 \A j \in i + 1 .. Len(r) : s \notin DOMAIN r[j]
          PROVE  r[i][s] = new[s]
      <4>1. i \in 1 .. Len(q) /\ r[i] = q[i]  BY <1>1, <2>2, <3>3
      <4>2. \A j \in i + 1 .. Len(q) : s \notin DOMAIN q[j]  BY <1>1, <3>3, <4>1
      <4> QED  BY <3>1, <3>3, <4>1, <4>2 DEF LeadsTo
    <3> QED  BY <3>2, <3>3
  <2> QED  BY <2>1, <2>2
<1>3. LeadsTo(v, r, new)  BY <1>2 DEF LeadsTo
<1> QED  BY <1>3 DEF r

(* Applying the first push leads to the same settings.                     *)
LEMMA ApplyLeads ==
    ASSUME NEW v \in ClientSection, NEW q \in Seq(Pushes), q # <<>>,
           NEW goal \in ClientSection
    PROVE  /\ Overlay(v, Head(q)) \in ClientSection
           /\ LeadsTo(v, q, goal) => LeadsTo(Overlay(v, Head(q)), Tail(q), goal)
<1>h. PICK h : h = Head(q)  OBVIOUS
<1>1. h \in Pushes /\ h = q[1] /\ 1 \in 1 .. Len(q) /\ Len(q) \in Nat  BY <1>h
<1>2. PICK S \in SUBSET Settings : h \in [S -> Nat]  BY <1>1 DEF Pushes
<1>w. PICK w : w = Overlay(v, h)  OBVIOUS
<1>3. w \in ClientSection
      /\ \A s \in Settings : w[s] = IF s \in DOMAIN h THEN h[s] ELSE v[s]
  <2>1. DOMAIN v = Settings /\ \A s \in Settings : v[s] \in Nat  BY DEF ClientSection
  <2>2. w = [s \in Settings |-> IF s \in DOMAIN h THEN h[s] ELSE v[s]]  BY <1>w, <2>1 DEF Overlay
  <2>3. \A s \in Settings : (IF s \in DOMAIN h THEN h[s] ELSE v[s]) \in Nat  BY <1>2, <2>1
  <2> QED  BY <2>2, <2>3 DEF ClientSection
<1>t. PICK t : t = Tail(q)  OBVIOUS
<1>4. t \in Seq(Pushes) /\ Len(t) = Len(q) - 1
      /\ \A i \in 1 .. Len(t) : t[i] = q[i + 1]
  BY <1>t
<1>5. ASSUME LeadsTo(v, q, goal), NEW s \in Settings
      PROVE  /\ (\A i \in 1 .. Len(t) : s \notin DOMAIN t[i]) => w[s] = goal[s]
             /\ \A i \in 1 .. Len(t) :
                   s \in DOMAIN t[i] /\ (\A j \in i + 1 .. Len(t) : s \notin DOMAIN t[j])
                      => t[i][s] = goal[s]
  <2>1. ASSUME \A i \in 1 .. Len(t) : s \notin DOMAIN t[i]
        PROVE  w[s] = goal[s]
    <3>1. \A i \in 2 .. Len(q) : s \notin DOMAIN q[i]
      <4>1. ASSUME NEW i \in 2 .. Len(q)  PROVE s \notin DOMAIN q[i]
        <5>1. i - 1 \in 1 .. Len(t) /\ (i - 1) + 1 = i  BY <1>1, <1>4
        <5> QED  BY <1>4, <2>1, <5>1
      <4> QED  BY <4>1
    <3>2. CASE s \in DOMAIN h
      <4>1. \A j \in 1 + 1 .. Len(q) : s \notin DOMAIN q[j]  BY <3>1
      <4> QED  BY <1>1, <1>3, <1>5, <3>2, <4>1 DEF LeadsTo
    <3>3. CASE s \notin DOMAIN h
      <4>1. \A i \in 1 .. Len(q) : s \notin DOMAIN q[i]  BY <1>1, <3>1, <3>3
      <4> QED  BY <1>3, <1>5, <3>3, <4>1 DEF LeadsTo
    <3> QED  BY <3>2, <3>3
  <2>2. ASSUME NEW i \in 1 .. Len(t), s \in DOMAIN t[i],
               \A j \in i + 1 .. Len(t) : s \notin DOMAIN t[j]
        PROVE  t[i][s] = goal[s]
    <3>1. i + 1 \in 1 .. Len(q) /\ t[i] = q[i + 1]  BY <1>1, <1>4
    <3>2. ASSUME NEW j \in (i + 1) + 1 .. Len(q)  PROVE s \notin DOMAIN q[j]
      <4>1. j - 1 \in i + 1 .. Len(t) /\ j - 1 \in 1 .. Len(t) /\ (j - 1) + 1 = j  BY <1>1, <1>4
      <4> QED  BY <1>4, <2>2, <4>1
    <3> QED  BY <1>5, <2>2, <3>1, <3>2 DEF LeadsTo
  <2> QED  BY <2>1, <2>2
<1>6. LeadsTo(v, q, goal) => LeadsTo(w, t, goal)  BY <1>5 DEF LeadsTo
<1> QED  BY <1>3, <1>6, <1>h, <1>t, <1>w

(* The difference of two sections.                                         *)
LEMMA DiffFacts ==
    ASSUME NEW old \in ClientSection, NEW new \in ClientSection, NEW p,
           p = diff_client_config(old, new)
    PROVE  /\ p \in Pushes
           /\ \A s \in DOMAIN p : p[s] = new[s]
           /\ \A s \in Settings \ DOMAIN p : old[s] = new[s]
<1> DEFINE S == {x \in Settings : old[x] # new[x]}
<1>1. p = [s \in S |-> new[s]]  BY DEF diff_client_config
<1>2. S \in SUBSET Settings /\ p \in [S -> Nat]  BY <1>1 DEF ClientSection
<1>3. p \in Pushes  BY <1>2 DEF Pushes
<1> QED  BY <1>1, <1>3

-----------------------------------------------------------------------------
(* The steps.                                                              *)

(* The first states: the file as the daemon wrote it, nobody connected.     *)
LEMMA CfgInitInv == CfgInit => CfgInv
<1> SUFFICES ASSUME CfgInit PROVE CfgInv  OBVIOUS
<1> USE FirstConfigs, WatchedSections DEF CfgInit
<1>1. DocsShape  BY DEF DocsShape, NoUpdate
<1>2. LinkShape  BY DEF LinkShape, IsConfig
<1>3. FileRead  BY DEF FileRead
<1>4. SnapshotsFollow  BY DEF SnapshotsFollow, Engines
<1>5. PushesLead  BY DEF PushesLead
<1> QED  BY <1>1, <1>2, <1>3, <1>4, <1>5 DEF CfgInv

(* What the users' steps at their menus leave alone.                       *)
daemonAndLinks == <<daemonToml, daemonVars, conn, queue, view>>

(* An update's handler moves on to h, and no other does.                   *)
HandlerNow(c, h) ==
    /\ handler' = [k \in Clients |-> handler'[k]]
    /\ handler'[c] = h /\ \A k \in Clients \ {c} : handler'[k] = handler[k]

(* Steps that leave the documents, the daemon's tasks and the links alone. *)
LEMMA MenusMove ==
    ASSUME CfgInv, UNCHANGED daemonAndLinks, UNCHANGED handler, edits' \in Nat
    PROVE  CfgInv'
<1> USE DEF CfgInv, daemonAndLinks, daemonVars
<1>1. DocsShape'  BY DEF DocsShape, IsConfig
<1>2. LinkShape'  BY DEF LinkShape
<1>3. FileRead'  BY DEF FileRead, Settled
<1>4. SnapshotsFollow'  BY DEF SnapshotsFollow
<1>5. PushesLead'  BY DEF PushesLead, LeadsTo
<1> QED  BY <1>1, <1>2, <1>3, <1>4, <1>5

(* The same for steps of one update that neither begins nor ends a write.  *)
LEMMA HandlersMove ==
    ASSUME CfgInv, UNCHANGED daemonAndLinks, edits' \in Nat,
           NEW c \in Clients, NEW h, HandlerNow(c, h), handler[c].pc # "write",
           h = [pc |-> h.pc, op |-> h.op, doc |-> h.doc], IsConfig(h.doc)
    PROVE  CfgInv'
<1> USE DEF CfgInv, daemonAndLinks, daemonVars
<1>1. DocsShape'  BY DEF DocsShape, IsConfig, HandlerNow
<1>2. LinkShape'  BY DEF LinkShape
<1>3. FileRead'  BY DEF FileRead, Settled, HandlerNow
<1>4. SnapshotsFollow'  BY DEF SnapshotsFollow
<1>5. PushesLead'  BY DEF PushesLead, LeadsTo
<1> QED  BY <1>1, <1>2, <1>3, <1>4, <1>5

(* The users' steps at their menus, and their own files.                   *)
LEMMA MenuSteps ==
    ASSUME CfgInv, NEW c \in Clients,
           \/ handle_config(c) \/ send_config_update(c) \/ add_local_rule(c)
           \/ edit_local_rule(c) \/ save_local_sandbox_config(c) \/ LeaveMenu(c)
    PROVE  CfgInv'
<1> USE DEF daemonAndLinks, daemonVars, linkVars
<1>0. edits \in Nat  BY DEF CfgInv, DocsShape
<1>1. CASE handle_config(c)  BY <1>0, <1>1, MenusMove DEF handle_config
<1>2. CASE send_config_update(c)
  <2>1. UNCHANGED daemonAndLinks /\ edits' = edits + 1 /\ handler[c].pc = "idle"
    BY <1>2 DEF send_config_update
  <2>2. PICK op : handler' = [handler EXCEPT ![c] = [pc |-> "read", op |-> op, doc |-> DefaultConfig]]
    BY <1>2 DEF send_config_update
  <2>3. PICK h : h = [pc |-> "read", op |-> op, doc |-> DefaultConfig]  OBVIOUS
  <2>4. h = [pc |-> h.pc, op |-> h.op, doc |-> h.doc] /\ IsConfig(h.doc)  BY <2>3, FirstConfigs
  <2>5. HandlerNow(c, h)  BY <2>2, <2>3 DEF HandlerNow, CfgInv, DocsShape
  <2> QED  BY <1>0, <2>1, <2>4, <2>5, HandlersMove
<1>3. CASE add_local_rule(c)  BY <1>0, <1>3, MenusMove DEF add_local_rule
<1>4. CASE edit_local_rule(c)
  <2>1. UNCHANGED <<daemonAndLinks, handler>> /\ edits' = edits + 1  BY <1>4 DEF edit_local_rule
  <2> QED  BY <1>0, <2>1, MenusMove
<1>5. CASE save_local_sandbox_config(c)
  <2>1. UNCHANGED <<daemonAndLinks, handler>> /\ edits' = edits + 1
    BY <1>5 DEF save_local_sandbox_config
  <2> QED  BY <1>0, <2>1, MenusMove
<1>6. CASE LeaveMenu(c)  BY <1>0, <1>6, MenusMove DEF LeaveMenu
<1> QED  BY <1>1, <1>2, <1>3, <1>4, <1>5, <1>6

(* A step of an update, except for the one that installs it: the file is   *)
(* read, truncated or filled.                                              *)
LEMMA UpdateSteps ==
    ASSUME CfgInv, NEW c \in Clients, UpdateRuns(c)
    PROVE  CfgInv'
<1> DEFINE h0 == handler[c]
<1>0. /\ edits \in Nat /\ IsConfig(daemonToml) /\ IsConfig(h0.doc)
      /\ h0 = [pc |-> h0.pc, op |-> h0.op, doc |-> h0.doc]
  BY DEF CfgInv, DocsShape
<1> HIDE DEF h0
<1>1. ASSUME NEW h, HandlerNow(c, h), h0.pc # "write",
             h = [pc |-> h.pc, op |-> h.op, doc |-> h.doc], IsConfig(h.doc),
             UNCHANGED <<daemonAndLinks, edits>>
      PROVE  CfgInv'
  BY <1>0, <1>1, HandlersMove DEF h0
<1>2. CASE ReadDoc(c)
  <2>1. h0.pc = "read" /\ UNCHANGED <<daemonAndLinks, edits>>
    BY <1>2 DEF ReadDoc, UpdateStep, h0, daemonAndLinks, daemonVars, linkVars
  <2>2. CASE InBounds(daemonToml, handler[c].op)
    <3>1. PICK d : d = apply_config_changes(daemonToml, h0.op, edits)  OBVIOUS
    <3>2. IsConfig(d)  BY <1>0, <3>1, EditKeepsConfig
    <3>3. PICK h : h = [pc |-> "open", op |-> h0.op, doc |-> d]  OBVIOUS
    <3>4. handler' = [handler EXCEPT ![c].pc = "open", ![c].doc = d]
      BY <1>2, <2>2, <3>1 DEF ReadDoc, h0
    <3>5. HandlerNow(c, h)  BY <1>0, <3>3, <3>4 DEF h0, HandlerNow, CfgInv, DocsShape
    <3> QED  BY <1>1, <2>1, <3>2, <3>3, <3>5
  <2>3. CASE ~InBounds(daemonToml, handler[c].op)
    <3>1. PICK h : h = [pc |-> "failed", op |-> h0.op, doc |-> h0.doc]  OBVIOUS
    <3>2. handler' = [handler EXCEPT ![c].pc = "failed"]  BY <1>2, <2>3 DEF ReadDoc
    <3>3. HandlerNow(c, h)  BY <1>0, <3>1, <3>2 DEF h0, HandlerNow, CfgInv, DocsShape
    <3> QED  BY <1>0, <1>1, <2>1, <3>1, <3>3
  <2> QED  BY <2>2, <2>3
<1>3. CASE OpenTruncated(c)
  <2> USE <1>3 DEF OpenTruncated, UpdateStep, daemonVars, linkVars, CfgInv
  <2>1. /\ daemonToml' = DefaultConfig /\ handler' = [handler EXCEPT ![c].pc = "write"]
        /\ handler'[c].pc = "write"
    BY DEF DocsShape
  <2>2. DocsShape'
    <3>1. \A k \in Clients : /\ handler'[k] = [pc |-> handler'[k].pc, op |-> handler'[k].op, doc |-> handler'[k].doc]
                             /\ IsConfig(handler'[k].doc)
      BY <2>1 DEF DocsShape
    <3> QED  BY <2>1, <3>1, FirstConfigs DEF DocsShape, IsConfig
  <2>3. LinkShape'  BY DEF LinkShape
  <2>4. FileRead'  BY <2>1 DEF FileRead, Settled
  <2>5. SnapshotsFollow'  BY DEF SnapshotsFollow
  <2>6. PushesLead'  BY DEF PushesLead, LeadsTo
  <2> QED  BY <2>2, <2>3, <2>4, <2>5, <2>6
<1>4. CASE WriteDoc(c)
  <2> USE <1>4 DEF WriteDoc, UpdateStep, linkVars, CfgInv
  <2>1. daemonToml' = h0.doc /\ event' /\ handler' = [handler EXCEPT ![c].pc = "load"]
    BY DEF h0
  <2>2. DocsShape'
    <3>1. \A k \in Clients : /\ handler'[k] = [pc |-> handler'[k].pc, op |-> handler'[k].op, doc |-> handler'[k].doc]
                             /\ IsConfig(handler'[k].doc)
      BY <2>1 DEF DocsShape
    <3> QED  BY <1>0, <2>1, <3>1 DEF DocsShape, IsConfig
  <2>3. LinkShape'  BY DEF LinkShape
  <2>4. FileRead'  BY <2>1 DEF FileRead, Settled
  <2>5. SnapshotsFollow'  BY DEF SnapshotsFollow
  <2>6. PushesLead'  BY DEF PushesLead, LeadsTo
  <2> QED  BY <2>2, <2>3, <2>4, <2>5, <2>6
<1>5. CASE load_daemon_config(c)
  <2>1. h0.pc = "load" /\ UNCHANGED <<daemonAndLinks, edits>>
    BY <1>5 DEF load_daemon_config, UpdateStep, h0, daemonAndLinks, daemonVars, linkVars
  <2>2. PICK h : h = [pc |-> "install", op |-> h0.op, doc |-> daemonToml]  OBVIOUS
  <2>3. handler' = [handler EXCEPT ![c].pc = "install", ![c].doc = daemonToml]
    BY <1>5 DEF load_daemon_config
  <2>4. HandlerNow(c, h)  BY <1>0, <2>2, <2>3 DEF h0, HandlerNow, CfgInv, DocsShape
  <2> QED  BY <1>0, <1>1, <2>1, <2>2, <2>4
<1>6. CASE InstallConfig(c)
  <2> USE <1>6 DEF InstallConfig, UpdateStep, linkVars, CfgInv
  <2>1. dc' = h0.doc /\ handler' = [handler EXCEPT ![c].pc = "done"] /\ h0.pc = "install"
    BY DEF h0
  <2>2. DocsShape'
    <3>1. \A k \in Clients : /\ handler'[k] = [pc |-> handler'[k].pc, op |-> handler'[k].op, doc |-> handler'[k].doc]
                             /\ IsConfig(handler'[k].doc)
      BY <2>1 DEF DocsShape
    <3> QED  BY <1>0, <2>1, <3>1 DEF DocsShape, IsConfig
  <2>3. LinkShape'  BY DEF LinkShape
  <2>4. FileRead'
    <3>1. \A k \in Clients : handler[k].pc = "write" => handler'[k].pc = "write"
      BY <2>1 DEF DocsShape, h0
    <3> QED  BY <3>1 DEF FileRead, Settled
  <2>5. SnapshotsFollow'  BY DEF SnapshotsFollow
  <2>6. PushesLead'  BY DEF PushesLead, LeadsTo
  <2> QED  BY <2>2, <2>3, <2>4, <2>5, <2>6
<1>7. CASE FinishUpdate(c)
  <2>1. /\ h0.pc \in {"done", "failed"} /\ UNCHANGED <<daemonAndLinks, edits>>
        /\ handler' = [handler EXCEPT ![c] = NoUpdate]
    BY <1>7 DEF FinishUpdate, h0, daemonAndLinks, daemonVars, linkVars
  <2>2. NoUpdate = [pc |-> NoUpdate.pc, op |-> NoUpdate.op, doc |-> NoUpdate.doc] /\ IsConfig(NoUpdate.doc)
    BY FirstConfigs DEF NoUpdate
  <2>3. HandlerNow(c, NoUpdate)  BY <2>1 DEF HandlerNow, CfgInv, DocsShape
  <2> QED  BY <1>1, <2>1, <2>2, <2>3
<1> QED  BY <1>2, <1>3, <1>4, <1>5, <1>6, <1>7 DEF UpdateRuns

(* An editor writes the file.                                              *)
LEMMA EditorStep ==
    ASSUME CfgInv, EditByHand
    PROVE  CfgInv'
<1> USE DEF EditByHand, linkVars, CfgInv
<1>1. /\ event' /\ edits' = edits + 1 /\ edits' \in Nat
      /\ UNCHANGED <<dirty, current, chan, unseen, dc, engine, prev, handler, conn, queue, view>>
  BY DEF DocsShape
<1>2. \E op : daemonToml' = apply_config_changes(daemonToml, op, edits')  OBVIOUS
<1>3. IsConfig(daemonToml')
  <2>1. PICK op : daemonToml' = apply_config_changes(daemonToml, op, edits')  BY <1>2
  <2>2. IsConfig(daemonToml)  BY DEF DocsShape
  <2> QED  BY <1>1, <2>1, <2>2, EditKeepsConfig
<1>4. DocsShape'  BY <1>1, <1>3 DEF DocsShape, IsConfig
<1>5. LinkShape'  BY <1>1 DEF LinkShape
<1>6. FileRead'  BY <1>1 DEF FileRead, Settled
<1>7. SnapshotsFollow'  BY <1>1 DEF SnapshotsFollow
<1>8. PushesLead'  BY <1>1 DEF PushesLead, LeadsTo
<1> QED  BY <1>4, <1>5, <1>6, <1>7, <1>8

(* The watcher sees the event and the reload task reads the file.          *)
LEMMA WatcherSteps ==
    ASSUME CfgInv, WatcherRun \/ reload
    PROVE  CfgInv'
<1> USE WatchedSections DEF CfgInv, linkVars
<1>1. CASE WatcherRun
  <2> USE <1>1 DEF WatcherRun
  <2>1. DocsShape'  BY DEF DocsShape, IsConfig
  <2>2. LinkShape'  BY DEF LinkShape
  <2>3. FileRead'  BY DEF FileRead, Settled
  <2>4. SnapshotsFollow'  BY DEF SnapshotsFollow
  <2>5. PushesLead'  BY DEF PushesLead, LeadsTo
  <2> QED  BY <2>1, <2>2, <2>3, <2>4, <2>5
<1>2. CASE reload
  <2>1. PICK changed : changed = {s \in Watched : current[s] # daemonToml[s]}  OBVIOUS
  <2>2. /\ chan' = [s \in Watched |-> IF s \in changed THEN daemonToml ELSE chan[s]]
        /\ unseen' = unseen \cup {r \in Receivers : r[2] \in changed}
        /\ current' = daemonToml
        /\ UNCHANGED <<daemonToml, event, dc, engine, prev, handler, edits, conn, queue, view>>
    BY <1>2, <2>1 DEF reload
  <2>3. DocsShape'
    <3>1. \A s \in Watched : IsConfig(chan'[s])  BY <2>2 DEF DocsShape
    <3>2. chan' = [s \in Watched |-> chan'[s]]  BY <2>2
    <3> QED  BY <2>2, <3>1, <3>2 DEF DocsShape, IsConfig
  <2>4. LinkShape'  BY <2>2 DEF LinkShape
  <2>5. FileRead'  BY <2>2 DEF FileRead
  <2>6. SnapshotsFollow'
    <3>1. \A s \in Watched : chan'[s][s] = current'[s]  BY <2>1, <2>2 DEF SnapshotsFollow
    <3>2. ASSUME NEW s \in Engines, <<"engine", s>> \notin unseen'
          PROVE  engine'[s] = current'[s]
      <4>1. <<"engine", s>> \in Receivers /\ <<"engine", s>>[2] = s  BY DEF Receivers
      <4>2. s \notin changed /\ <<"engine", s>> \notin unseen  BY <2>2, <3>2, <4>1
      <4>3. s \in Watched  BY DEF Engines
      <4> QED  BY <2>1, <2>2, <4>2, <4>3 DEF SnapshotsFollow
    <3>3. ASSUME <<"push", "client">> \notin unseen'
          PROVE  prev' = current'.client
      <4>1. <<"push", "client">> \in Receivers /\ <<"push", "client">>[2] = "client"  BY DEF Receivers
      <4>2. "client" \notin changed /\ <<"push", "client">> \notin unseen  BY <2>2, <3>3, <4>1
      <4> QED  BY <2>1, <2>2, <4>2 DEF SnapshotsFollow
    <3> QED  BY <3>1, <3>2, <3>3 DEF SnapshotsFollow
  <2>7. PushesLead'  BY <2>2 DEF PushesLead, LeadsTo
  <2> QED  BY <2>3, <2>4, <2>5, <2>6, <2>7
<1> QED  BY <1>1, <1>2

(* The subscribers take their snapshots.                                   *)
LEMMA SubscriberSteps ==
    ASSUME CfgInv,
           \/ \E s \in Watched : SyncDaemonConfig(s)
           \/ \E s \in Engines : ReloadEngine(s)
           \/ PushClientConfig
    PROVE  CfgInv'
<1> USE WatchedSections DEF CfgInv, Take
<1>1. ASSUME NEW s \in Watched, SyncDaemonConfig(s)  PROVE CfgInv'
  <2> USE <1>1 DEF SyncDaemonConfig, linkVars
  <2>1. DocsShape'  BY DEF DocsShape, IsConfig
  <2>2. LinkShape'  BY DEF LinkShape
  <2>3. FileRead'  BY DEF FileRead, Settled
  <2>4. SnapshotsFollow'
    <3>1. \A e \in Engines : <<"engine", e>> # <<"sync", s>>  OBVIOUS
    <3>2. <<"push", "client">> # <<"sync", s>>  OBVIOUS
    <3> QED  BY <3>1, <3>2 DEF SnapshotsFollow
  <2>5. PushesLead'  BY DEF PushesLead, LeadsTo
  <2> QED  BY <2>1, <2>2, <2>3, <2>4, <2>5
<1>2. ASSUME NEW s \in Engines, ReloadEngine(s)  PROVE CfgInv'
  <2> USE <1>2 DEF ReloadEngine, linkVars
  <2>1. PICK x : /\ engine' = [engine EXCEPT ![s] = x]
                 /\ x = CASE s = "sandbox" -> compile_config(chan[s])
                          [] s = "llm"     -> MultiBackend_new(chan[s])
                          [] s = "plugins" -> update_plugins_config(chan[s])
                          [] s = "tasks"   -> TaskManager_reload(chan[s])
    OBVIOUS
  <2>2. s \in {"sandbox", "llm", "plugins", "tasks"} /\ s \in Watched  BY DEF Engines
  <2>3. x = chan[s][s]
    BY <2>1, <2>2 DEF compile_config, MultiBackend_new, update_plugins_config, TaskManager_reload
  <2>4. DocsShape'  BY <2>1 DEF DocsShape, IsConfig
  <2>5. LinkShape'  BY DEF LinkShape
  <2>6. FileRead'  BY DEF FileRead, Settled
  <2>7. SnapshotsFollow'
    <3>1. \A e \in Engines : <<"engine", e>> = <<"engine", s>> => e = s  OBVIOUS
    <3>2. <<"push", "client">> # <<"engine", s>>  OBVIOUS
    <3>3. \A e \in Engines : engine'[e] = IF e = s THEN current[s] ELSE engine[e]
      BY <2>1, <2>2, <2>3 DEF SnapshotsFollow, DocsShape
    <3> QED  BY <3>1, <3>2, <3>3 DEF SnapshotsFollow
  <2>8. PushesLead'  BY DEF PushesLead, LeadsTo
  <2> QED  BY <2>4, <2>5, <2>6, <2>7, <2>8
<1>3. CASE PushClientConfig
  <2>1. PICK new : new = chan["client"].client  OBVIOUS
  <2>2. new \in ClientSection /\ prev \in ClientSection  BY <2>1 DEF DocsShape, IsConfig, LinkShape
  <2>3. PICK p : p = diff_client_config(prev, new)  OBVIOUS
  <2>4. /\ p \in Pushes /\ \A s \in DOMAIN p : p[s] = new[s]
        /\ \A s \in Settings \ DOMAIN p : prev[s] = new[s]
    BY <2>2, <2>3, DiffFacts
  <2>5. /\ queue' = [c \in Clients |->
              IF conn[c].up /\ DOMAIN p # {} THEN Append(queue[c], p) ELSE queue[c]]
        /\ prev' = new /\ unseen' = unseen \ {<<"push", "client">>}
        /\ UNCHANGED <<daemonToml, event, dirty, current, chan, handler, edits, dc, engine, conn, view>>
    BY <1>3, <2>1, <2>3 DEF PushClientConfig
  <2>6. DocsShape'  BY <2>5 DEF DocsShape, IsConfig
  <2>7. LinkShape'  BY <2>2, <2>4, <2>5 DEF LinkShape
  <2>8. FileRead'  BY <2>5 DEF FileRead, Settled
  <2>9. SnapshotsFollow'
    <3>1. \A e \in Engines : <<"engine", e>> # <<"push", "client">>  OBVIOUS
    <3>2. new = current.client  BY <2>1 DEF SnapshotsFollow
    <3> QED  BY <2>5, <3>1, <3>2 DEF SnapshotsFollow
  <2>10. ASSUME NEW c \in Clients, conn'[c].full, ~conn'[c].raced
         PROVE  LeadsTo(view'[c], queue'[c], prev')
    <3>1. conn[c].up /\ LeadsTo(view[c], queue[c], prev)  BY <2>5, <2>10 DEF PushesLead
    <3>2. view[c] \in ClientSection /\ queue[c] \in Seq(Pushes)  BY DEF LinkShape
    <3>3. CASE DOMAIN p # {}
      <4>1. queue'[c] = Append(queue[c], p)  BY <2>5, <3>1, <3>3
      <4>2. LeadsTo(view[c], Append(queue[c], p), new)  BY <2>2, <2>4, <3>1, <3>2, AppendLeads
      <4> QED  BY <2>5, <4>1, <4>2
    <3>4. CASE DOMAIN p = {}
      <4>1. queue'[c] = queue[c] /\ \A s \in Settings : prev[s] = new[s]  BY <2>4, <2>5, <3>4
      <4>2. LeadsTo(view[c], queue[c], new)  BY <3>1, <4>1 DEF LeadsTo
      <4> QED  BY <2>5, <4>1, <4>2
    <3> QED  BY <3>3, <3>4
  <2>11. PushesLead'  BY <2>5, <2>10 DEF PushesLead
  <2> QED  BY <2>6, <2>7, <2>8, <2>9, <2>11
<1> QED  BY <1>1, <1>2, <1>3

(* The links, and the clients that apply what comes over them.             *)
LEMMA LinkSteps ==
    ASSUME CfgInv,
           \/ \E c \in Clients : \/ Connect(c) \/ on_push_connect(c) \/ Disconnect(c)
                                 \/ apply_client_config_changes(c)
           \/ save_client_config_cache
    PROVE  CfgInv'
<1> USE DEF CfgInv
<1>0. ASSUME LinkStep, LinkShape', PushesLead'  PROVE CfgInv'
  <2> USE <1>0 DEF LinkStep, daemonVars
  <2>1. DocsShape'  BY DEF DocsShape, IsConfig
  <2>2. FileRead'  BY DEF FileRead, Settled
  <2>3. SnapshotsFollow'  BY DEF SnapshotsFollow
  <2> QED  BY <2>1, <2>2, <2>3
<1>1. ASSUME NEW c \in Clients, Connect(c)  PROVE CfgInv'
  <2>1. LinkStep /\ UNCHANGED <<prev, queue, view>>
        /\ conn' = [conn EXCEPT ![c] = [up |-> TRUE, full |-> FALSE, raced |-> FALSE]]
    BY <1>1 DEF Connect, LinkStep, daemonVars
  <2>2. LinkShape'  BY <2>1 DEF LinkShape
  <2>3. PushesLead'  BY <2>1 DEF PushesLead, LinkShape, LeadsTo
  <2> QED  BY <1>0, <2>1, <2>2, <2>3
<1>2. ASSUME NEW c \in Clients, on_push_connect(c)  PROVE CfgInv'
  <2>1. PICK full : full = dc.client  OBVIOUS
  <2>2. full \in ClientSection /\ full \in Pushes /\ DOMAIN full = Settings
    BY <2>1 DEF DocsShape, IsConfig, ClientSection, Pushes
  <2>3. /\ LinkStep /\ UNCHANGED <<prev, view>> /\ conn[c].up
        /\ queue' = [queue EXCEPT ![c] = Append(@, full)]
        /\ conn' = [conn EXCEPT ![c].full = TRUE, ![c].raced = full # prev]
    BY <1>2, <2>1 DEF on_push_connect, full_client_changes, LinkStep, daemonVars
  <2>4. LinkShape'
    <3>1. queue' \in [Clients -> Seq(Pushes)]  BY <2>2, <2>3 DEF LinkShape
    <3>2. conn' \in [Clients -> [up : BOOLEAN, full : BOOLEAN, raced : BOOLEAN]]
      BY <2>3 DEF LinkShape
    <3> QED  BY <2>3, <3>1, <3>2 DEF LinkShape
  <2>5. ASSUME NEW k \in Clients, conn'[k].full
        PROVE  conn'[k].up /\ (~conn'[k].raced => LeadsTo(view'[k], queue'[k], prev'))
    <3>1. CASE k # c  BY <2>3, <2>5, <3>1 DEF PushesLead, LinkShape, LeadsTo
    <3>2. CASE k = c
      <4>1. /\ conn'[c].up /\ (conn'[c].raced = (full # prev)) /\ queue'[c] = Append(queue[c], full)
            /\ view[c] \in ClientSection /\ queue[c] \in Seq(Pushes) /\ prev \in ClientSection
        BY <2>3 DEF LinkShape
      <4>2. full = prev => LeadsTo(view[c], Append(queue[c], full), prev)
        BY <2>2, <4>1, AppendLeads
      <4> QED  BY <2>3, <3>2, <4>1, <4>2
    <3> QED  BY <3>1, <3>2
  <2>6. PushesLead'  BY <2>5 DEF PushesLead
  <2> QED  BY <1>0, <2>3, <2>4, <2>6
<1>3. ASSUME NEW c \in Clients, Disconnect(c)  PROVE CfgInv'
  <2>1. /\ LinkStep /\ UNCHANGED <<prev, view>> /\ queue' = [queue EXCEPT ![c] = <<>>]
        /\ conn' = [conn EXCEPT ![c] = [up |-> FALSE, full |-> FALSE, raced |-> FALSE]]
    BY <1>3 DEF Disconnect, LinkStep, daemonVars
  <2>2. LinkShape'  BY <2>1 DEF LinkShape
  <2>3. PushesLead'  BY <2>1 DEF PushesLead, LinkShape, LeadsTo
  <2> QED  BY <1>0, <2>1, <2>2, <2>3
<1>4. ASSUME NEW c \in Clients, apply_client_config_changes(c)  PROVE CfgInv'
  <2>1. /\ LinkStep /\ UNCHANGED <<prev, conn>> /\ queue[c] # <<>>
        /\ queue' = [queue EXCEPT ![c] = Tail(@)]
        /\ view' = [view EXCEPT ![c] = Overlay(@, Head(queue[c]))]
    BY <1>4 DEF apply_client_config_changes, LinkStep, daemonVars
  <2>2. view[c] \in ClientSection /\ queue[c] \in Seq(Pushes) /\ prev \in ClientSection
    BY DEF LinkShape
  <2>3. PICK v : v = Overlay(view[c], Head(queue[c]))  OBVIOUS
  <2>4. PICK q : q = Tail(queue[c])  OBVIOUS
  <2>5. v \in ClientSection /\ (LeadsTo(view[c], queue[c], prev) => LeadsTo(v, q, prev))
    BY <2>1, <2>2, <2>3, <2>4, ApplyLeads
  <2>6. q \in Seq(Pushes)  BY <2>1, <2>2, <2>4
  <2>7. queue' = [queue EXCEPT ![c] = q] /\ view' = [view EXCEPT ![c] = v]  BY <2>1, <2>3, <2>4
  <2>8. LinkShape'  BY <2>1, <2>5, <2>6, <2>7 DEF LinkShape
  <2>9. PushesLead'  BY <2>1, <2>5, <2>7 DEF PushesLead, LinkShape
  <2> QED  BY <1>0, <2>1, <2>8, <2>9
<1>5. CASE save_client_config_cache
  <2>1. LinkStep /\ UNCHANGED <<prev, conn, queue, view>>
    BY <1>5 DEF save_client_config_cache, LinkStep, daemonVars
  <2> QED  BY <1>0, <2>1 DEF LinkShape, PushesLead, LeadsTo
<1> QED  BY <1>1, <1>2, <1>3, <1>4, <1>5

-----------------------------------------------------------------------------
(* CfgInv is an invariant: whatever the users edit, however reads of a     *)
(* truncated file, reloads, pushes, connections and updates interleave.    *)
THEOREM CfgInvHolds == CfgSpec => []CfgInv
<1>1. CfgInit => CfgInv  BY CfgInitInv
<1>2. CfgInv /\ [CfgNext]_cfgVars => CfgInv'
  <2> SUFFICES ASSUME CfgInv, [CfgNext]_cfgVars PROVE CfgInv'  OBVIOUS
  <2>1. CASE UNCHANGED cfgVars
    <3> USE <2>1 DEF cfgVars, CfgInv
    <3>1. DocsShape'  BY DEF DocsShape, IsConfig
    <3>2. LinkShape'  BY DEF LinkShape
    <3>3. FileRead'  BY DEF FileRead, Settled
    <3>4. SnapshotsFollow'  BY DEF SnapshotsFollow
    <3>5. PushesLead'  BY DEF PushesLead, LeadsTo
    <3> QED  BY <3>1, <3>2, <3>3, <3>4, <3>5
  <2>2. CASE CfgNext
    BY <2>2, MenuSteps, UpdateSteps, EditorStep, WatcherSteps, SubscriberSteps, LinkSteps DEF CfgNext
  <2> QED  BY <2>1, <2>2
<1> QED  BY <1>1, <1>2, PTL DEF CfgSpec

(* Once the watcher has read daemon.toml, its engines and its connected    *)
(* clients run with what it holds, or have a wake-up or a push on its way  *)
(* (FileReachesAll), for any sections, clients, settings and edits.        *)
THEOREM FileReachesEveryone == CfgSpec => []FileReachesAll
<1>1. CfgInv => FileReachesAll
  <2> SUFFICES ASSUME CfgInv PROVE FileReachesAll  OBVIOUS
  <2> USE DEF CfgInv
  <2>1. EnginesFollowFile  BY DEF EnginesFollowFile, FileRead, SnapshotsFollow
  <2>2. ASSUME Settled, <<"push", "client">> \notin unseen, NEW c \in Clients,
               conn[c].full, ~conn[c].raced, queue[c] = <<>>
        PROVE  view[c] = daemonToml.client
    <3>1. prev = daemonToml.client  BY <2>2 DEF FileRead, SnapshotsFollow
    <3>2. LeadsTo(view[c], <<>>, prev)  BY <2>2 DEF PushesLead
    <3>3. \A s \in Settings : view[c][s] = prev[s]  BY <3>2 DEF LeadsTo
    <3>4. view[c] \in ClientSection /\ prev \in ClientSection  BY DEF LinkShape
    <3>5. view[c] = prev  BY <3>3, <3>4 DEF ClientSection
    <3> QED  BY <3>1, <3>5
  <2>3. SettingsReachClients  BY <2>2 DEF SettingsReachClients
  <2> QED  BY <2>1, <2>3 DEF FileReachesAll
<1> QED  BY <1>1, CfgInvHolds, PTL

-----------------------------------------------------------------------------
(* The scheduled notes.                                                    *)

(* Division with remainder.                                                *)
LEMMA Euclid ==
    ASSUME NEW a \in Int, NEW b \in Nat \ {0}
    PROVE  /\ a \div b \in Int /\ a % b \in 0 .. b - 1 /\ a = (a \div b) * b + (a % b)
OBVIOUS

(* A product of a positive factor is at least the other.                   *)
LEMMA AtLeast ==
    ASSUME NEW q \in Int, NEW b \in Nat \ {0}
    PROVE  /\ q >= 1 => q * b >= b
           /\ q <= -1 => q * b <= -b
OBVIOUS

(* A difference times a factor.                                            *)
LEMMA Distrib ==
    ASSUME NEW p \in Int, NEW q \in Int, NEW b \in Int
    PROVE  (p - q) * b = p * b - q * b /\ (p + q) * b = p * b + q * b /\ p * b \in Int
OBVIOUS

(* A quotient is known by its remainder.                                   *)
LEMMA Quotient ==
    ASSUME NEW b \in Nat \ {0}, NEW q \in Int, NEW r \in 0 .. b - 1, NEW a, a = q * b + r
    PROVE  a \div b = q /\ a % b = r
<1>0. a \in Int  OBVIOUS
<1>1. PICK p, s : p = a \div b /\ s = a % b  OBVIOUS
<1>2. p \in Int /\ s \in 0 .. b - 1 /\ a = p * b + s  BY <1>0, <1>1, Euclid
<1>3. (p - q) * b = r - s  BY <1>2, Distrib
<1>4. p - q \in Int /\ ~(p - q >= 1) /\ ~(p - q <= -1)  BY <1>2, <1>3, AtLeast
<1>5. p = q  BY <1>2, <1>4
<1> QED  BY <1>1, <1>2, <1>5

(* The multiples of a number, by their remainder.                          *)
LEMMA Multiple ==
    ASSUME NEW a \in Int, NEW b \in Nat \ {0}
    PROVE  a % b = 0 <=> \E q \in Int : a = q * b
<1>1. ASSUME a % b = 0  PROVE \E q \in Int : a = q * b
  <2>1. PICK q : q = a \div b  OBVIOUS
  <2>2. q \in Int /\ a = q * b + 0  BY <1>1, <2>1, Euclid
  <2>3. a = q * b  BY <2>2, Distrib
  <2> QED  BY <2>2, <2>3
<1>2. ASSUME NEW q \in Int, a = q * b  PROVE a % b = 0
  <2>1. 0 \in 0 .. b - 1 /\ a = q * b + 0  BY <1>2, Distrib
  <2> QED  BY <2>1, Quotient
<1> QED  BY <1>1, <1>2

(* The window job's schedule meets midnight: windows do not cross days.    *)
WholeWindows == UtcOffset % Window = 0

(* The lengths of days and windows.                                        *)
LEMMA Constants ==
    /\ DayHours \in Nat \ {0} /\ Window \in Nat \ {0} /\ DayHours % Window = 0 /\ UtcOffset \in Int
BY NotesShape DEF NotesShape

(* The window job is due at the hours that are multiples of the window, in *)
(* local time.                                                             *)
LEMMA DueAtMultiples ==
    ASSUME WholeWindows, NEW h \in Nat
    PROVE  (h - UtcOffset) % Window = 0 <=> h % Window = 0
<1>1. PICK u \in Int : UtcOffset = u * Window  BY Constants, Multiple DEF WholeWindows
<1>2. ASSUME (h - UtcOffset) % Window = 0  PROVE h % Window = 0
  <2>1. h - UtcOffset \in Int  BY Constants
  <2>2. PICK q \in Int : h - UtcOffset = q * Window  BY <1>2, <2>1, Constants, Multiple
  <2>3. (q + u) * Window = q * Window + u * Window /\ q * Window \in Int  BY Constants, Distrib
  <2>4. h = (q + u) * Window /\ q + u \in Int  BY <1>1, <2>2, <2>3, Constants
  <2> QED  BY <2>4, Constants, Multiple
<1>3. ASSUME h % Window = 0  PROVE (h - UtcOffset) % Window = 0
  <2>2. PICK q \in Int : h = q * Window  BY <1>3, Constants, Multiple
  <2>3. (q - u) * Window = q * Window - u * Window /\ q * Window \in Int  BY Constants, Distrib
  <2>4. h - UtcOffset = (q - u) * Window /\ q - u \in Int /\ h - UtcOffset \in Int
    BY <1>1, <2>2, <2>3, Constants
  <2> QED  BY <2>4, Constants, Multiple
<1> QED  BY <1>2, <1>3

(* The multiple that ends the window of an hour.                           *)
LEMMA WindowBefore ==
    ASSUME NEW h \in Nat, h % Window = 0
    PROVE  (h - Window) % Window = 0
<1>1. PICK q \in Int : h = q * Window  BY Constants, Multiple
<1>2. (q - 1) * Window = q * Window - 1 * Window  BY Constants, Distrib
<1>3. h - Window = (q - 1) * Window /\ q - 1 \in Int /\ h - Window \in Int  BY <1>1, <1>2, Constants
<1> QED  BY <1>3, Constants, Multiple

(* Midnight ends a window.                                                 *)
LEMMA MidnightIsMultiple ==
    ASSUME NEW h \in Nat, h % DayHours = 0
    PROVE  h % Window = 0
<1>1. PICK q \in Int : h = q * DayHours  BY Constants, Multiple
<1>2. PICK k \in Int : DayHours = k * Window  BY Constants, Multiple
<1>3. q * (k * Window) = (q * k) * Window /\ q * k \in Int  BY Constants
<1>4. h = (q * k) * Window  BY <1>1, <1>2, <1>3
<1> QED  BY <1>3, <1>4, Constants, Multiple

(* Days follow hours.                                                      *)
LEMMA DayFacts ==
    ASSUME NEW h \in Nat
    PROVE  /\ Day(h) \in Int /\ Day(h) * DayHours <= h /\ h < Day(h) * DayHours + DayHours
           /\ \A c \in Nat : c <= h => Day(c) <= Day(h)
<1>1. ASSUME NEW c \in Nat  PROVE Day(c) \in Int /\ Day(c) * DayHours <= c /\ c < Day(c) * DayHours + DayHours
  BY Constants, Euclid DEF Day
<1>2. ASSUME NEW c \in Nat, c <= h  PROVE Day(c) <= Day(h)
  <2>1. PICK a, b : a = Day(c) /\ b = Day(h)  OBVIOUS
  <2>2. /\ a \in Int /\ b \in Int /\ a * DayHours <= c /\ h < b * DayHours + DayHours
    BY <1>1, <2>1
  <2>3. (a - b) * DayHours = a * DayHours - b * DayHours /\ a * DayHours \in Int /\ b * DayHours \in Int
    BY <2>2, Constants, Distrib
  <2>4. (a - b) * DayHours < DayHours  BY <1>2, <2>2, <2>3, Constants
  <2>5. ~(a - b >= 1)  BY <2>2, <2>4, Constants, AtLeast
  <2> QED  BY <2>1, <2>2, <2>5
<1> QED  BY <1>1, <1>2

(* The hours of a window that ends at h are of the day whose file the      *)
(* summary goes to.                                                        *)
LEMMA WindowInDay ==
    ASSUME NEW h \in Nat, h % Window = 0, NEW c \in Nat, h - Window <= c, c < h
    PROVE  Day(c) = IF h % DayHours = 0 THEN Day(h) - 1 ELSE Day(h)
<1>1. PICK n, r : n = h \div DayHours /\ r = h % DayHours  OBVIOUS
<1>2. n \in Int /\ r \in 0 .. DayHours - 1 /\ h = n * DayHours + r  BY <1>1, Constants, Euclid
<1>3. PICK k \in Int : DayHours = k * Window  BY Constants, Multiple
<1>4. k >= 1
  <2>1. k = 0 => k * Window = 0  BY Constants
  <2> QED  BY <1>3, <2>1, Constants, AtLeast
<1>5. Window <= DayHours  BY <1>3, <1>4, Constants, AtLeast
<1>6. CASE r = 0
  <2>1. (n - 1) * DayHours = n * DayHours - DayHours
    BY <1>2, Constants, Distrib
  <2>2. PICK s : s = c - (n - 1) * DayHours  OBVIOUS
  <2>3. n - 1 \in Int /\ n * DayHours \in Int  BY <1>2, Constants, Distrib
  <2>4. s \in 0 .. DayHours - 1 /\ c = (n - 1) * DayHours + s
    BY <1>2, <1>5, <1>6, <2>1, <2>2, <2>3, Constants
  <2>5. c \div DayHours = n - 1  BY <2>3, <2>4, Constants, Quotient
  <2> QED  BY <1>1, <1>6, <2>5 DEF Day
<1>7. CASE r # 0
  <2>1. PICK m \in Int : h = m * Window  BY Constants, Multiple
  <2>2. n * (k * Window) = (n * k) * Window /\ n * k \in Int  BY <1>2, Constants
  <2>3. (m - n * k) * Window = m * Window - (n * k) * Window  BY <2>1, <2>2, Constants, Distrib
  <2>4. PICK d \in Int : d = m - n * k  BY <2>1, <2>2
  <2>5. r = d * Window  BY <1>2, <1>3, <2>1, <2>2, <2>3, <2>4, Constants
  <2>6. d >= 1
    <3>1. d = 0 => d * Window = 0  BY Constants
    <3> QED  BY <1>2, <1>7, <2>5, <3>1, Constants, AtLeast
  <2>7. r >= Window  BY <2>5, <2>6, Constants, AtLeast
  <2>8. PICK s : s = c - n * DayHours  OBVIOUS
  <2>9. n * DayHours \in Int  BY <1>2, Constants, Distrib
  <2>10. s \in 0 .. DayHours - 1 /\ c = n * DayHours + s
    BY <1>2, <2>7, <2>8, <2>9, Constants
  <2>11. c \div DayHours = n  BY <1>2, <2>10, Constants, Quotient
  <2> QED  BY <1>1, <1>7, <2>11 DEF Day
<1> QED  BY <1>6, <1>7

-----------------------------------------------------------------------------
(* A command that no summary has covered, since its window is not over.    *)
Uncovered(c) ==
    \A h \in c + 1 .. notesNow.hour :
        h % Window = 0 => h = notesNow.hour /\ notesNow.phase = "sharp" /\ "hourly" \notin fired

(* A file of its day covers c.                                             *)
Filed(c) == \E f \in DOMAIN hourly : f.day = Day(c) /\ c \in hourly[f]

(* Every command: not covered yet, at the model, in a file of its day, or  *)
(* of a day that was spoiled.                                              *)
Accounted ==
    \A c \in ran : \/ Day(c) \in spoiled \/ Uncovered(c) \/ Filed(c)
                   \/ \E s \in summarising : c \in s

(* A summary still at the model is of the window that ends now, or its     *)
(* days are spoiled.                                                       *)
Prompt ==
    \A s \in summarising :
        \/ \A c \in s : Day(c) \in spoiled
        \/ /\ notesNow.phase = "sharp" /\ notesNow.hour % Window = 0
           /\ \A c \in s : notesNow.hour - Window <= c /\ c < notesNow.hour

(* A note of a day that is over covers its commands.                       *)
Covers(day, hours) ==
    /\ day \in Int /\ day < Day(notesNow.hour)
    /\ day \notin spoiled => \A c \in ran : Day(c) = day => c \in hours

(* Every note of a day that is over covers its commands.                   *)
Reported ==
    /\ \A task \in reporting : Covers(task.day, task.covers)
    /\ \A day \in DOMAIN daily : Covers(day, daily[day])

(* The clock, the hours with commands and the two tables.                  *)
NotesTypes ==
    /\ notesNow = [hour |-> notesNow.hour, phase |-> notesNow.phase] /\ notesNow.hour \in Nat
    /\ ran \subseteq Nat /\ summarising \subseteq SUBSET Nat

(* The invariant of the notes.                                             *)
NotesInv == NotesTypes /\ Accounted /\ Prompt /\ Reported

(* Nothing has run yet.                                                    *)
LEMMA NotesInitInv == ASSUME NotesInit PROVE NotesInv
<1>1. NotesTypes  BY DEF NotesInit, NotesTypes
<1>2. Accounted /\ Prompt /\ Reported  BY DEF NotesInit, Accounted, Prompt, Reported
<1> QED  BY <1>1, <1>2 DEF NotesInv

(* Notes stay true while days go on and are spoiled.                       *)
LEMMA CoversKept ==
    ASSUME NotesInv, NotesTypes', ran' = ran, spoiled \subseteq spoiled', notesNow.hour <= notesNow'.hour,
           NEW day, NEW hours, Covers(day, hours)
    PROVE  Covers(day, hours)'
<1>1. Day(notesNow.hour) \in Int /\ Day(notesNow'.hour) \in Int /\ Day(notesNow.hour) <= Day(notesNow'.hour)
  BY DayFacts DEF NotesInv, NotesTypes
<1>2. day < Day(notesNow'.hour)  BY <1>1 DEF Covers
<1>3. (Day(notesNow.hour))' = Day(notesNow'.hour)  BY DEF Day
<1> QED  BY <1>2, <1>3 DEF Covers, Day

(* The notes of finished days are not touched by a step that writes none.  *)
LEMMA ReportedKept ==
    ASSUME NotesInv, NotesTypes', UNCHANGED <<ran, reporting, daily>>, spoiled \subseteq spoiled',
           notesNow.hour <= notesNow'.hour
    PROVE  Reported'
<1>1. ASSUME NEW task \in reporting  PROVE Covers(task.day, task.covers)'
  BY <1>1, CoversKept DEF NotesInv, Reported
<1>2. ASSUME NEW day \in DOMAIN daily  PROVE Covers(day, daily[day])'
  BY <1>2, CoversKept DEF NotesInv, Reported
<1> QED  BY <1>1, <1>2 DEF Reported

(* Time goes on only after the jobs that are due have started, so that a   *)
(* window that ends was taken up; at midnight the day before is complete.  *)
LEMMA ClockTickInv == ASSUME NotesInv, WholeWindows, ClockTick PROVE NotesInv'
<1>1. PICK h : h = notesNow.hour  OBVIOUS
<1>2. h \in Nat /\ ran \subseteq Nat /\ summarising \subseteq SUBSET Nat  BY <1>1 DEF NotesInv, NotesTypes
<1>3. PICK g, p : g = notesNow'.hour /\ p = notesNow'.phase  OBVIOUS
<1>4. /\ notesNow' = [hour |-> g, phase |-> p]
      /\ \/ notesNow.phase = "sharp" /\ p = "past" /\ g = h
         \/ notesNow.phase # "sharp" /\ p = "sharp" /\ g = h + 1
  BY <1>1, <1>3 DEF ClockTick, NotesInv, NotesTypes
<1>5. g \in Nat /\ h <= g  BY <1>2, <1>4
<1>6. /\ UNCHANGED <<ran, summarising, hourly, reporting, daily>> /\ fired' = {}
      /\ spoiled' = spoiled \cup {Day(x) : x \in UNION summarising}
  BY DEF ClockTick
<1>7. NotesTypes'  BY <1>2, <1>3, <1>4, <1>5, <1>6 DEF NotesTypes
<1>8. ASSUME NEW c \in ran, Uncovered(c)  PROVE Uncovered(c)'
  <2>1. SUFFICES ASSUME NEW x \in c + 1 .. g, x % Window = 0
                 PROVE  x = g /\ p = "sharp" /\ "hourly" \notin fired'
    BY <1>3 DEF Uncovered
  <2>2. c \in Nat /\ x \in Nat  BY <1>2, <1>5
  <2>3. CASE notesNow.phase = "sharp"
    <3>1. g = h /\ x \in c + 1 .. h  BY <1>4, <2>1, <2>3
    <3>2. x = h /\ "hourly" \notin fired  BY <1>1, <1>8, <2>1, <3>1 DEF Uncovered
    <3>3. HourlyDue  BY <1>1, <1>2, <2>1, <2>3, <3>2, DueAtMultiples DEF HourlyDue
    <3> QED  BY <3>2, <3>3 DEF ClockTick
  <2>4. CASE notesNow.phase # "sharp"
    <3>1. g = h + 1 /\ p = "sharp"  BY <1>4, <2>4
    <3>2. x \notin c + 1 .. h  BY <1>1, <1>8, <2>1, <2>4 DEF Uncovered
    <3>3. x = g  BY <1>2, <2>1, <2>2, <3>1, <3>2
    <3> QED  BY <1>6, <3>1, <3>3
  <2> QED  BY <2>3, <2>4
<1>9. Accounted'
  <2>1. ASSUME NEW c \in ran  PROVE \/ Day(c) \in spoiled' \/ Uncovered(c)' \/ Filed(c)'
                                    \/ \E s \in summarising' : c \in s
    <3>1. Filed(c) => Filed(c)'  BY <1>6 DEF Filed, Day
    <3> QED  BY <1>6, <1>8, <3>1 DEF NotesInv, Accounted
  <2>2. \A c : (Day(c))' = Day(c)  BY DEF Day
  <2> QED  BY <1>6, <2>1, <2>2 DEF Accounted
<1>10. Prompt'
  <2>1. ASSUME NEW s \in summarising, NEW c \in s  PROVE Day(c) \in spoiled'
    BY <1>6
  <2>2. \A c : (Day(c))' = Day(c)  BY DEF Day
  <2> QED  BY <1>6, <2>1, <2>2 DEF Prompt
<1>11. Reported'  BY <1>1, <1>3, <1>5, <1>6, <1>7, ReportedKept
<1> QED  BY <1>7, <1>9, <1>10, <1>11 DEF NotesInv

(* A command runs in the current window, which no summary has covered.     *)
LEMMA CommandRunInv == ASSUME NotesInv, CommandRun PROVE NotesInv'
<1>1. PICK h : h = notesNow.hour  OBVIOUS
<1>2. h \in Nat /\ ran \subseteq Nat  BY <1>1 DEF NotesInv, NotesTypes
<1>3. ran' = ran \cup {h} /\ UNCHANGED <<notesNow, fired, summarising, hourly, reporting, daily, spoiled>>
  BY <1>1 DEF CommandRun
<1>4. NotesTypes'  BY <1>1, <1>2, <1>3 DEF NotesInv, NotesTypes
<1>d. \A c : (Day(c))' = Day(c)  BY DEF Day
<1>5. Accounted'
  <2>1. \A c : (Uncovered(c) <=> Uncovered(c)') /\ (Filed(c) <=> Filed(c)')
    BY <1>3 DEF Uncovered, Filed, Day
  <2>2. Uncovered(h)  BY <1>1, <1>2 DEF Uncovered
  <2> QED  BY <1>d, <1>3, <2>1, <2>2 DEF NotesInv, Accounted
<1>6. Prompt'  BY <1>3, <1>d DEF NotesInv, Prompt
<1>7. ASSUME NEW day, NEW hours, Covers(day, hours)  PROVE Covers(day, hours)'
  <2>1. Day(h) # day  BY <1>1, <1>2, <1>7, DayFacts DEF Covers
  <2> QED  BY <1>d, <1>1, <1>3, <1>7, <2>1 DEF Covers
<1>8. Reported'
  <2>1. ASSUME NEW task \in reporting  PROVE Covers(task.day, task.covers)'  BY <1>7 DEF NotesInv, Reported
  <2>2. ASSUME NEW day \in DOMAIN daily  PROVE Covers(day, daily[day])'
    <3>1. PICK v : v = daily[day]  OBVIOUS
    <3>2. Covers(day, v)  BY <3>1 DEF NotesInv, Reported
    <3>3. Covers(day, v)'  BY <1>7, <3>2
    <3> QED  BY <1>3, <3>1, <3>3
  <2> QED  BY <1>3, <2>1, <2>2 DEF Reported
<1> QED  BY <1>4, <1>5, <1>6, <1>8 DEF NotesInv

(* A window job takes up the commands of the window that ended.            *)
LEMMA HourlyStartInv == ASSUME NotesInv, WholeWindows, HourlyStart PROVE NotesInv'
<1>1. PICK h : h = notesNow.hour  OBVIOUS
<1>2. PICK w : w = ran \cap ((h - Window) .. (h - 1))  OBVIOUS
<1>3. h \in Nat /\ ran \subseteq Nat /\ summarising \subseteq SUBSET Nat /\ notesNow.phase = "sharp"
  BY <1>1 DEF NotesInv, NotesTypes, HourlyStart, HourlyDue
<1>4. /\ fired' = fired \cup {"hourly"} /\ UNCHANGED <<notesNow, ran, hourly, reporting, daily, spoiled>>
      /\ summarising' = IF w = {} THEN summarising ELSE summarising \cup {w}
  BY <1>1, <1>2 DEF HourlyStart, build_hourly_context
<1>5. h % Window = 0  BY <1>1, <1>3, DueAtMultiples DEF HourlyStart, HourlyDue
<1>6. NotesTypes'  BY <1>1, <1>2, <1>3, <1>4 DEF NotesInv, NotesTypes
<1>d. \A c : (Day(c))' = Day(c)  BY DEF Day
<1>7. ASSUME NEW c \in ran, Uncovered(c)  PROVE Uncovered(c)' \/ c \in w
  <2>1. CASE c >= h
    <3>1. c + 1 .. h = {}  BY <1>3, <2>1
    <3> QED  BY <1>1, <1>4, <3>1 DEF Uncovered
  <2>2. CASE c < h
    <3>1. PICK b : b = h - Window  OBVIOUS
    <3>a. b % Window = 0  BY <1>3, <1>5, <3>1, WindowBefore
    <3>2. b \in Int /\ b < h /\ b % Window = 0  BY <1>3, <3>1, <3>a, Constants
    <3>3. b \notin c + 1 .. h  BY <1>1, <1>7, <3>2 DEF Uncovered
    <3>4. c \in b .. h - 1  BY <1>3, <2>2, <3>2, <3>3
    <3> QED  BY <1>2, <3>1, <3>4
  <2> QED  BY <1>3, <2>1, <2>2
<1>8. Accounted'
  <2>1. \A c : Filed(c) <=> Filed(c)'  BY <1>4 DEF Filed, Day
  <2> QED  BY <1>d, <1>4, <1>7, <2>1 DEF NotesInv, Accounted
<1>9. Prompt'
  <2>1. \A c \in w : h - Window <= c /\ c < h  BY <1>2, <1>3, Constants
  <2>2. ASSUME NEW s \in summarising
        PROVE  \/ \A c \in s : Day(c) \in spoiled
               \/ \A c \in s : h - Window <= c /\ c < h
    BY <1>1 DEF NotesInv, Prompt
  <2> QED  BY <1>d, <1>1, <1>3, <1>4, <1>5, <2>1, <2>2 DEF Prompt
<1>10. Reported'  BY <1>1, <1>3, <1>4, <1>6, ReportedKept
<1> QED  BY <1>6, <1>8, <1>9, <1>10 DEF NotesInv

(* Its answer is filed under the day of its window, or the day is spoiled. *)
LEMMA HourlyAnswerInv ==
    ASSUME NotesInv, NEW covers \in summarising, NEW ok \in BOOLEAN, HourlyAnswer(covers, ok)
    PROVE  NotesInv'
<1>1. PICK h : h = notesNow.hour  OBVIOUS
<1>2. PICK f : f = HourFile  OBVIOUS
<1>3. h \in Nat /\ ran \subseteq Nat /\ summarising \subseteq SUBSET Nat  BY <1>1 DEF NotesInv, NotesTypes
<1>4. /\ summarising' = summarising \ {covers} /\ UNCHANGED <<notesNow, fired, ran, reporting, daily>>
      /\ hourly' = IF ok THEN Put(hourly, f, covers) ELSE hourly
      /\ ok => \A c : f \in DOMAIN hourly /\ c \in hourly[f] => Day(c) \in spoiled'
      /\ ~ok => \A c \in covers : Day(c) \in spoiled'
      /\ spoiled \subseteq spoiled'
  BY <1>2 DEF HourlyAnswer
<1>5. NotesTypes'  BY <1>3, <1>4 DEF NotesInv, NotesTypes
<1>d. \A c : (Day(c))' = Day(c)  BY DEF Day
<1>6. f.day = IF h % DayHours = 0 THEN Day(h) - 1 ELSE Day(h)  BY <1>1, <1>2 DEF HourFile
<1>7. ASSUME NEW c \in covers  PROVE Day(c) \in spoiled \/ Day(c) = f.day
  <2>1. CASE h % Window = 0 /\ h - Window <= c /\ c < h
    <3>1. c \in Nat  BY <1>3
    <3> QED  BY <1>3, <1>6, <2>1, <3>1, WindowInDay
  <2> QED  BY <1>1, <2>1 DEF NotesInv, Prompt
<1>8. ASSUME NEW c, Filed(c)  PROVE Filed(c)' \/ Day(c) \in spoiled'
  <2>1. PICK g \in DOMAIN hourly : g.day = Day(c) /\ c \in hourly[g]  BY <1>8 DEF Filed
  <2>2. CASE ~ok  BY <1>d, <1>4, <1>8, <2>2 DEF Filed
  <2>3. CASE ok /\ g = f  BY <1>4, <2>1, <2>3
  <2>4. CASE ok /\ g # f
    <3>1. g \in DOMAIN hourly' /\ hourly'[g] = hourly[g]  BY <1>4, <2>1, <2>4 DEF Put
    <3> QED  BY <1>d, <2>1, <3>1 DEF Filed
  <2> QED  BY <2>2, <2>3, <2>4
<1>9. ASSUME NEW c \in covers  PROVE Filed(c)' \/ Day(c) \in spoiled'
  <2>1. CASE ~ok  BY <1>4, <2>1
  <2>2. CASE ok
    <3>1. f \in DOMAIN hourly' /\ hourly'[f] = covers  BY <1>4, <2>2 DEF Put
    <3> QED  BY <1>d, <1>4, <1>7, <3>1 DEF Filed
  <2> QED  BY <2>1, <2>2
<1>10. Accounted'
  <2>1. ASSUME NEW c \in ran
        PROVE  \/ Day(c) \in spoiled' \/ Uncovered(c)' \/ Filed(c)' \/ \E s \in summarising' : c \in s
    <3>1. Uncovered(c) => Uncovered(c)'  BY <1>4 DEF Uncovered
    <3>2. CASE Day(c) \in spoiled \/ Uncovered(c) \/ Filed(c)  BY <1>4, <1>8, <3>1, <3>2
    <3>3. ASSUME NEW s \in summarising, c \in s
          PROVE  Filed(c)' \/ Day(c) \in spoiled' \/ \E t \in summarising' : c \in t
      BY <1>4, <1>9, <3>3
    <3> QED  BY <3>2, <3>3 DEF NotesInv, Accounted
  <2> QED  BY <1>d, <1>4, <2>1 DEF Accounted
<1>11. Prompt'
  <2>1. ASSUME NEW s \in summarising
        PROVE  \/ \A c \in s : Day(c) \in spoiled'
               \/ /\ notesNow.phase = "sharp" /\ notesNow.hour % Window = 0
                  /\ \A c \in s : notesNow.hour - Window <= c /\ c < notesNow.hour
    BY <1>4 DEF NotesInv, Prompt
  <2> QED  BY <1>d, <1>4, <2>1 DEF Prompt
<1>12. Reported'  BY <1>1, <1>3, <1>4, <1>5, ReportedKept
<1> QED  BY <1>5, <1>10, <1>11, <1>12 DEF NotesInv

(* The daily job takes up the files of the day before, which cover its     *)
(* commands unless it is spoiled.                                          *)
LEMMA DailyStartInv == ASSUME NotesInv, DailyStart PROVE NotesInv'
<1>1. PICK h : h = notesNow.hour  OBVIOUS
<1>2. PICK day : day = Day(h) - 1  OBVIOUS
<1>3. PICK hours : hours = collect_hourly_notes(day)  OBVIOUS
<1>4. h \in Nat /\ ran \subseteq Nat /\ notesNow.phase = "past" /\ h % DayHours = 0
  BY <1>1 DEF NotesInv, NotesTypes, DailyStart, DailyDue
<1>5. /\ fired' = fired \cup {"daily"} /\ UNCHANGED <<notesNow, ran, summarising, hourly, daily, spoiled>>
      /\ reporting' \subseteq reporting \cup {[day |-> day, covers |-> hours]}
  BY <1>1, <1>2, <1>3 DEF DailyStart
<1>6. NotesTypes'  BY <1>5 DEF NotesInv, NotesTypes
<1>d. \A c : (Day(c))' = Day(c)  BY DEF Day
<1>7. Accounted'
  <2>1. \A c : (Filed(c) <=> Filed(c)') /\ (Uncovered(c) => Uncovered(c)')
    BY <1>5 DEF Filed, Uncovered, Day
  <2> QED  BY <1>d, <1>5, <2>1 DEF NotesInv, Accounted
<1>8. Prompt'  BY <1>d, <1>5 DEF NotesInv, Prompt
<1>9. Covers(day, hours)
  <2>1. day \in Int /\ day < Day(h)  BY <1>2, <1>4, DayFacts
  <2>2. ASSUME NEW c \in ran, Day(c) = day, day \notin spoiled  PROVE c \in hours
    <3>1. c \in Nat /\ c < h
      <4>1. c \in Nat  BY <1>4
      <4>2. h <= c => Day(h) <= Day(c)  BY <1>4, <4>1, DayFacts
      <4> QED  BY <1>4, <2>1, <2>2, <4>1, <4>2, DayFacts
    <3>2. ~Uncovered(c)
      <4>1. h \in c + 1 .. h /\ h % Window = 0  BY <1>4, <3>1, MidnightIsMultiple
      <4> QED  BY <1>1, <1>4, <4>1 DEF Uncovered
    <3>3. ~ \E s \in summarising : c \in s  BY <1>4, <2>2 DEF NotesInv, Prompt
    <3>4. Filed(c)  BY <2>2, <3>2, <3>3 DEF NotesInv, Accounted
    <3> QED  BY <1>3, <2>2, <3>4 DEF Filed, collect_hourly_notes
  <2> QED  BY <1>1, <2>1, <2>2 DEF Covers
<1>10. Reported'
  <2>1. ASSUME NEW x, NEW v, Covers(x, v)  PROVE Covers(x, v)'  BY <1>d, <1>5, <2>1 DEF Covers
  <2>2. ASSUME NEW task \in reporting'  PROVE Covers(task.day, task.covers)'
    <3>1. PICK x, v : x = task.day /\ v = task.covers  OBVIOUS
    <3>2. Covers(x, v)  BY <1>5, <1>9, <2>2, <3>1 DEF NotesInv, Reported
    <3>3. Covers(x, v)'  BY <2>1, <3>2
    <3> QED  BY <3>1, <3>3
  <2>3. ASSUME NEW x \in DOMAIN daily  PROVE Covers(x, daily[x])'
    <3>1. PICK v : v = daily[x]  OBVIOUS
    <3>2. Covers(x, v)'  BY <2>1, <3>1 DEF NotesInv, Reported
    <3> QED  BY <1>5, <3>1, <3>2
  <2> QED  BY <1>5, <2>2, <2>3 DEF Reported
<1> QED  BY <1>6, <1>7, <1>8, <1>10 DEF NotesInv

(* Its answer is the note of that day.                                     *)
LEMMA DailyAnswerInv ==
    ASSUME NotesInv, NEW task \in reporting, NEW ok \in BOOLEAN, DailyAnswer(task, ok)
    PROVE  NotesInv'
<1>1. /\ UNCHANGED <<notesNow, fired, ran, summarising, hourly, spoiled>>
      /\ reporting' = reporting \ {task}
      /\ daily' = IF ok THEN Put(daily, task.day, task.covers) ELSE daily
  BY DEF DailyAnswer
<1>2. NotesTypes'  BY <1>1 DEF NotesInv, NotesTypes
<1>d. \A c : (Day(c))' = Day(c)  BY DEF Day
<1>3. Accounted'
  <2>1. \A c : (Filed(c) <=> Filed(c)') /\ (Uncovered(c) => Uncovered(c)')
    BY <1>1 DEF Filed, Uncovered, Day
  <2> QED  BY <1>d, <1>1, <2>1 DEF NotesInv, Accounted
<1>4. Prompt'  BY <1>d, <1>1 DEF NotesInv, Prompt
<1>5. ASSUME NEW x, NEW v, Covers(x, v)  PROVE Covers(x, v)'  BY <1>d, <1>1, <1>5 DEF Covers
<1>6. Reported'
  <2>1. ASSUME NEW j \in reporting'  PROVE Covers(j.day, j.covers)'
    <3>1. PICK x, v : x = j.day /\ v = j.covers  OBVIOUS
    <3>2. Covers(x, v)  BY <1>1, <2>1, <3>1 DEF NotesInv, Reported
    <3>3. Covers(x, v)'  BY <1>5, <3>2
    <3> QED  BY <3>1, <3>3
  <2>2. ASSUME NEW x \in DOMAIN daily'  PROVE Covers(x, daily[x])'
    <3>1. PICK v : v = daily'[x]  OBVIOUS
    <3>2. Covers(x, v)
      <4>1. CASE ok /\ x = task.day
        <5>1. v = task.covers  BY <1>1, <3>1, <4>1 DEF Put
        <5> QED  BY <4>1, <5>1 DEF NotesInv, Reported
      <4>2. CASE ~(ok /\ x = task.day)
        <5>1. x \in DOMAIN daily /\ v = daily[x]  BY <1>1, <2>2, <3>1, <4>2 DEF Put
        <5> QED  BY <5>1 DEF NotesInv, Reported
      <4> QED  BY <4>1, <4>2
    <3>3. Covers(x, v)'  BY <1>5, <3>2
    <3> QED  BY <3>1, <3>3
  <2> QED  BY <2>1, <2>2 DEF Reported
<1> QED  BY <1>2, <1>3, <1>4, <1>6 DEF NotesInv

(* Every step, one case per action.                                        *)
LEMMA NotesNextInv == ASSUME NotesInv, WholeWindows, [NotesNext]_notesVars PROVE NotesInv'
<1>1. CASE NotesNext
  BY <1>1, ClockTickInv, CommandRunInv, HourlyStartInv, DailyStartInv, HourlyAnswerInv, DailyAnswerInv DEF NotesNext
<1>2. CASE UNCHANGED notesVars
  <2>1. \A c : (Day(c))' = Day(c)  BY DEF Day
  <2>2. NotesTypes' /\ Prompt'  BY <1>2, <2>1 DEF notesVars, NotesInv, NotesTypes, Prompt
  <2>3. Accounted'  BY <1>2, <2>1 DEF notesVars, NotesInv, Accounted, Uncovered, Filed
  <2>4. Reported'  BY <1>2, <2>1 DEF notesVars, NotesInv, Reported, Covers
  <2> QED  BY <2>2, <2>3, <2>4 DEF NotesInv
<1> QED  BY <1>1, <1>2

(* Every command of the schedule is accounted for in every state: in a     *)
(* window that is not over, with the model, in a file of its day, or of a  *)
(* day that was spoiled (hourly_summary.rs, daily_notes.rs).               *)
THEOREM NotesInvHolds == ASSUME WholeWindows PROVE NotesSpec => []NotesInv
<1>1. NotesInv /\ [NotesNext]_notesVars => NotesInv'  BY NotesNextInv
<1>2. NotesInit => NotesInv  BY NotesInitInv
<1> QED  BY <1>1, <1>2, PTL DEF NotesSpec

(* If windows do not cross midnight, the note of a day that was not        *)
(* spoiled covers every command of that day, for every length of the       *)
(* window and every offset between UTC and local time that is a multiple   *)
(* of it (create_hourly_summary_job, create_daily_notes_job).              *)
THEOREM DaysAreReported == ASSUME WholeWindows PROVE NotesSpec => []DayFullyReported
<1>1. NotesInv => DayFullyReported  BY DEF NotesInv, Reported, Covers, DayFullyReported
<1> QED  BY <1>1, NotesInvHolds, PTL

-----------------------------------------------------------------------------
(* The context: finite sets of commands and selections from them.          *)

(* Finite sets of recorded commands, which started at different times.     *)
History(S) ==
    /\ IsFiniteSet(S) /\ \A c \in S : c.start \in Nat \ {0}
    /\ \A c, d \in S : c.start = d.start => c = d

(* The commands later than c.                                              *)
After(S, c) == {d \in S : d.start > c.start}

(* A part of a history is one, and is not larger.                          *)
LEMMA HistoryPart ==
    ASSUME NEW S, History(S), NEW T, T \subseteq S
    PROVE  History(T) /\ Cardinality(T) \in Nat /\ Cardinality(T) <= Cardinality(S) /\ Cardinality(S) \in Nat
<1>1. IsFiniteSet(S)  BY DEF History
<1>2. IsFiniteSet(T) /\ Cardinality(T) <= Cardinality(S)  BY <1>1, FS_Subset
<1>3. Cardinality(T) \in Nat /\ Cardinality(S) \in Nat  BY <1>1, <1>2, FS_CardinalityType
<1> QED  BY <1>2, <1>3 DEF History

(* How many commands are later than a command: its place from the end.     *)
LEMMA AfterFacts ==
    ASSUME NEW S, History(S), NEW c \in S
    PROVE  /\ Cardinality(After(S, c)) \in 0 .. Cardinality(S) - 1
           /\ \A d \in S : c.start < d.start => Cardinality(After(S, d)) < Cardinality(After(S, c))
<1>1. After(S, c) \subseteq S /\ c \notin After(S, c)  BY DEF After, History
<1>2. History(After(S, c)) /\ Cardinality(After(S, c)) \in Nat /\ Cardinality(S) \in Nat
      /\ Cardinality(After(S, c)) <= Cardinality(S)
  BY <1>1, HistoryPart
<1>3. Cardinality(After(S, c)) # Cardinality(S)
  <2>1. IsFiniteSet(S)  BY DEF History
  <2>2. After(S, c) # S  BY <1>1
  <2> QED  BY <1>1, <2>1, <2>2, FS_Subset
<1>4. ASSUME NEW d \in S, c.start < d.start  PROVE Cardinality(After(S, d)) < Cardinality(After(S, c))
  <2>1. c.start \in Nat /\ d.start \in Nat /\ \A e \in S : e.start \in Nat  BY DEF History
  <2>2. After(S, d) \subseteq After(S, c) /\ d \in After(S, c) /\ d \notin After(S, d)
    BY <1>4, <2>1 DEF After
  <2>3. IsFiniteSet(After(S, c))  BY <1>2 DEF History
  <2>4. Cardinality(After(S, d)) <= Cardinality(After(S, c))
        /\ Cardinality(After(S, d)) # Cardinality(After(S, c))
    BY <2>2, <2>3, FS_Subset
  <2>5. Cardinality(After(S, d)) \in Nat  BY <1>2, <2>2, HistoryPart
  <2> QED  BY <1>2, <2>4, <2>5
<1> QED  BY <1>2, <1>3, <1>4

(* Every place is taken by one command.                                    *)
LEMMA PlaceFacts ==
    ASSUME NEW S, History(S), NEW r, r = [c \in S |-> Cardinality(After(S, c))]
    PROVE  /\ r \in Injection(S, 0 .. Cardinality(S) - 1)
           /\ r \in Surjection(S, 0 .. Cardinality(S) - 1)
<1>1. IsFiniteSet(S) /\ Cardinality(S) \in Nat  BY HistoryPart DEF History
<1>2. PICK P : P = 0 .. Cardinality(S) - 1  OBVIOUS
<1>3. IsFiniteSet(P) /\ Cardinality(P) = Cardinality(S)
  <2>1. PICK n : n = Cardinality(S) /\ n \in Nat  BY <1>1
  <2>2. P = 0 .. n - 1 /\ n - 1 \in Int  BY <1>2, <2>1
  <2>3. IsFiniteSet(P) /\ Cardinality(P) = IF 0 > n - 1 THEN 0 ELSE (n - 1) - 0 + 1  BY <2>2, FS_Interval
  <2> QED  BY <2>1, <2>3
<1>4. r \in [S -> P]  BY <1>2, AfterFacts
<1>5. ASSUME NEW c \in S, NEW d \in S, r[c] = r[d]  PROVE c = d
  <2>1. r[c] = Cardinality(After(S, c)) /\ r[d] = Cardinality(After(S, d))  OBVIOUS
  <2>2. c.start \in Nat /\ d.start \in Nat  BY DEF History
  <2>3. ~(c.start < d.start) /\ ~(d.start < c.start)
    <3>1. r[c] \in Int  BY <2>1, AfterFacts
    <3> QED  BY <1>5, <2>1, <3>1, AfterFacts
  <2> QED  BY <2>2, <2>3 DEF History
<1>6. r \in Injection(S, P)  BY <1>4, <1>5 DEF Injection, IsInjective
<1>7. r \in Surjection(S, P)  BY <1>1, <1>3, <1>6, FS_Injection
<1> QED  BY <1>2, <1>6, <1>7

(* The last n commands.                                                    *)
LEMMA LatestFacts ==
    ASSUME NEW S, History(S), NEW n \in Int
    PROVE  /\ Latest(n, S) \subseteq S /\ History(Latest(n, S))
           /\ \A c \in Latest(n, S), d \in S \ Latest(n, S) : d.start < c.start
           /\ n <= 0 => Latest(n, S) = {}
           /\ n >= Cardinality(S) => Latest(n, S) = S
           /\ 0 <= n /\ n <= Cardinality(S) => Cardinality(Latest(n, S)) = n
           /\ Cardinality(Latest(n, S)) \in Nat
<1>1. PICK L : L = Latest(n, S)  OBVIOUS
<1>2. L = {c \in S : Cardinality(After(S, c)) < n}  BY <1>1 DEF Latest, After
<1>3. L \subseteq S /\ History(L) /\ Cardinality(L) \in Nat  BY <1>2, HistoryPart
<1>4. Cardinality(S) \in Nat  BY HistoryPart
<1>5. ASSUME NEW c \in L, NEW d \in S \ L  PROVE d.start < c.start
  <2>1. c.start \in Nat /\ d.start \in Nat /\ c # d  BY <1>3 DEF History
  <2>2. c \in S /\ Cardinality(After(S, c)) < n /\ ~(Cardinality(After(S, d)) < n)  BY <1>2
  <2>3. Cardinality(After(S, c)) \in Int /\ Cardinality(After(S, d)) \in Int  BY <2>2, AfterFacts
  <2>4. ~(c.start < d.start)  BY <2>2, <2>3, AfterFacts
  <2>5. c.start # d.start  BY <2>1, <2>2 DEF History
  <2> QED  BY <2>1, <2>4, <2>5
<1>6. ASSUME n <= 0  PROVE L = {}
  <2>1. \A c \in S : Cardinality(After(S, c)) \in Nat  BY AfterFacts
  <2> QED  BY <1>2, <1>6, <2>1
<1>7. ASSUME n >= Cardinality(S)  PROVE L = S
  <2>1. \A c \in S : Cardinality(After(S, c)) < n
    <3> TAKE c \in S
    <3>1. Cardinality(After(S, c)) \in 0 .. Cardinality(S) - 1  BY AfterFacts
    <3> QED  BY <1>4, <1>7, <3>1
  <2> QED  BY <1>2, <2>1
<1>8. ASSUME 0 <= n, n <= Cardinality(S)  PROVE Cardinality(L) = n
  <2>1. PICK r : r = [c \in S |-> Cardinality(After(S, c))]  OBVIOUS
  <2>2. r \in Injection(S, 0 .. Cardinality(S) - 1) /\ r \in Surjection(S, 0 .. Cardinality(S) - 1)
    BY <2>1, PlaceFacts
  <2>3. PICK g : g = [c \in L |-> r[c]]  OBVIOUS
  <2>4. PICK P : P = 0 .. n - 1  OBVIOUS
  <2>5. \A c \in L : r[c] \in P
    <3> TAKE c \in L
    <3>1. c \in S /\ Cardinality(After(S, c)) < n  BY <1>2
    <3>2. r[c] = Cardinality(After(S, c)) /\ Cardinality(After(S, c)) \in Nat  BY <2>1, <3>1, AfterFacts
    <3> QED  BY <2>4, <3>1, <3>2
  <2>6. g \in [L -> P]  BY <2>3, <2>5
  <2>7. \A p \in P : \E c \in L : g[c] = p
    <3> TAKE p \in P
    <3>1. p \in 0 .. Cardinality(S) - 1 /\ p < n  BY <1>4, <1>8, <2>4
    <3>2. PICK c \in S : r[c] = p  BY <2>2, <3>1 DEF Surjection
    <3>3. c \in L  BY <1>2, <2>1, <3>1, <3>2
    <3> QED  BY <2>3, <3>2, <3>3
  <2>8. g \in Surjection(L, P)  BY <2>6, <2>7 DEF Surjection
  <2>9. g \in Injection(L, P)  BY <1>3, <2>2, <2>3, <2>6 DEF Injection, IsInjective
  <2>10. IsFiniteSet(L)  BY <1>3 DEF History
  <2>11. Cardinality(P) = Cardinality(L)  BY <2>8, <2>9, <2>10, FS_Surjection
  <2>12. Cardinality(P) = IF 0 > n - 1 THEN 0 ELSE (n - 1) - 0 + 1  BY <2>4, FS_Interval
  <2> QED  BY <1>8, <2>11, <2>12
<1> QED  BY <1>1, <1>3, <1>5, <1>6, <1>7, <1>8

(* A set of commands above all others is the last ones, by its size.       *)
LEMMA TopIsLatest ==
    ASSUME NEW S, History(S), NEW D, D \subseteq S, \A d \in D, c \in S \ D : c.start < d.start
    PROVE  Latest(Cardinality(D), S) = D
<1>1. /\ Cardinality(D) \in Nat /\ Cardinality(D) <= Cardinality(S) /\ IsFiniteSet(D) /\ IsFiniteSet(S)
      /\ \A c \in S : c.start \in Nat
  BY HistoryPart DEF History
<1>2. PICK L : L = Latest(Cardinality(D), S)  OBVIOUS
<1>3. /\ L \subseteq S /\ Cardinality(L) = Cardinality(D) /\ IsFiniteSet(L)
      /\ \A c \in L, d \in S \ L : d.start < c.start
  BY <1>1, <1>2, LatestFacts DEF History
<1>4. L \subseteq D \/ D \subseteq L
  <2>1. SUFFICES ASSUME NEW c \in L \ D, NEW d \in D \ L  PROVE FALSE  OBVIOUS
  <2>2. c.start < d.start /\ d.start < c.start /\ c.start \in Nat /\ d.start \in Nat  BY <1>1, <1>3
  <2> QED  BY <2>2
<1>5. CASE L \subseteq D  BY <1>1, <1>2, <1>3, <1>5, FS_Subset
<1>6. CASE D \subseteq L  BY <1>1, <1>2, <1>3, <1>6, FS_Subset
<1> QED  BY <1>4, <1>5, <1>6

(* The empty history.                                                      *)
LEMMA NoHistory == History({}) /\ Cardinality({}) = 0 /\ \A n \in Int : Latest(n, {}) = {}
<1>1. IsFiniteSet({}) /\ Cardinality({}) = 0  BY FS_EmptySet
<1>2. \A n \in Int : Latest(n, {}) = {}  BY DEF Latest
<1> QED  BY <1>1, <1>2 DEF History

(* The sizes of disjoint histories add up.                                 *)
LEMMA SizeFacts ==
    ASSUME NEW S, History(S), NEW T, History(T), S \cap T = {}
    PROVE  Cardinality(S \cup T) = Cardinality(S) + Cardinality(T) /\ IsFiniteSet(S \cup T)
<1>1. Cardinality(S) \in Nat /\ Cardinality(T) \in Nat /\ IsFiniteSet(S) /\ IsFiniteSet(T)
  BY HistoryPart DEF History
<1>2. Cardinality(S \cap T) = 0  BY FS_EmptySet
<1> QED  BY <1>1, <1>2, FS_Union

(* A part taken away.                                                      *)
LEMMA SizeWithout ==
    ASSUME NEW S, History(S), NEW T, T \subseteq S
    PROVE  Cardinality(S \ T) = Cardinality(S) - Cardinality(T)
<1>1. History(T) /\ History(S \ T) /\ Cardinality(T) \in Nat /\ Cardinality(S \ T) \in Nat
  <2>1. S \ T \subseteq S  OBVIOUS
  <2> QED  BY <2>1, HistoryPart
<1>2. Cardinality((S \ T) \cup T) = Cardinality(S \ T) + Cardinality(T)  BY <1>1, SizeFacts
<1>3. (S \ T) \cup T = S  OBVIOUS
<1>4. PICK a, b : a = Cardinality(S \ T) /\ b = Cardinality(T)  OBVIOUS
<1>5. Cardinality(S) = a + b /\ a \in Nat /\ b \in Nat
  <2>1. Cardinality(S) = Cardinality(S \ T) + Cardinality(T)  BY <1>2, <1>3, Zenon
  <2> QED  BY <1>1, <1>4, <2>1
<1> QED  BY <1>4, <1>5

(* The time of the last command.                                           *)
LEMMA LastStartFacts ==
    ASSUME NEW S, History(S), S # {}
    PROVE  /\ LastStart(S) \in Nat \ {0} /\ \A c \in S : c.start <= LastStart(S)
           /\ \E c \in S : c.start = LastStart(S)
<1>1. Cardinality(S) \in Nat /\ Cardinality(S) # 0  BY HistoryPart, FS_EmptySet DEF History
<1>2. PICK L : L = Latest(1, S)  OBVIOUS
<1>3. L \subseteq S /\ L # {}
  <2>1. Cardinality(L) = 1 /\ IsFiniteSet(L) /\ L \subseteq S  BY <1>1, <1>2, LatestFacts DEF History
  <2> QED  BY <2>1, FS_EmptySet
<1>4. PICK c \in L : TRUE  BY <1>3
<1>5. \A d \in S : d.start \in Nat \ {0}  BY DEF History
<1>6. \A d \in S : d.start <= c.start
  <2> TAKE d \in S
  <2>1. CASE d \in S \ L
    <3>1. \A e \in L, g \in S \ L : g.start < e.start  BY <1>2, LatestFacts
    <3>2. d.start < c.start  BY <1>4, <2>1, <3>1
    <3> QED  BY <1>3, <1>4, <1>5, <3>2
  <2>2. CASE d \in L
    <3>1. Cardinality(After(S, d)) < 1 /\ Cardinality(After(S, c)) < 1
      BY <1>2, <1>4, <2>2 DEF Latest, After
    <3>2. Cardinality(After(S, d)) \in Nat /\ Cardinality(After(S, c)) \in Nat  BY <1>3, <1>4, AfterFacts
    <3>3. ~(c.start < d.start)  BY <1>3, <1>4, <3>1, <3>2, AfterFacts
    <3> QED  BY <1>3, <1>4, <1>5, <3>3
  <2> QED  BY <2>1, <2>2
<1>7. PICK T : T = {d.start : d \in S}  OBVIOUS
<1>8. c.start \in T /\ (\A x \in T : c.start >= x) /\ \A x \in T : x \in Nat \ {0}
  BY <1>3, <1>4, <1>5, <1>6, <1>7
<1>9. PICK x : x = Max(T)  OBVIOUS
<1>10. x \in T /\ \A y \in T : x >= y  BY <1>8, <1>9 DEF Max
<1>11. x = LastStart(S)  BY <1>7, <1>9 DEF LastStart
<1> QED  BY <1>5, <1>7, <1>8, <1>10, <1>11

-----------------------------------------------------------------------------
(* The sections of a build.                                                *)

(* With no limit nothing is given up.                                      *)
LEMMA FitsAtOnce ==
    ASSUME SectionsLimit = NoLimit, NEW all, NEW cutoff, NEW s,
           NEW d \in 0 .. Cardinality(all), NEW h \in 0 .. Cardinality(all)
    PROVE  Fits(all, cutoff, s)[<<d, h>>] =
               IF d + h = 0 THEN NoSections ELSE Rendered(all, d, h, cutoff, s)
<1>1. PICK P : P = (0 .. Cardinality(all)) \X (0 .. Cardinality(all))  OBVIOUS
<1>2. PICK f : f = [p \in P |-> IF p[1] + p[2] = 0 THEN NoSections ELSE Rendered(all, p[1], p[2], cutoff, s)]
  OBVIOUS
<1>3. PICK F : F = Fits(all, cutoff, s)  OBVIOUS
<1>4. F = CHOOSE g : g = f
  <2>1. ASSUME NEW g
        PROVE  f = [p \in P |->
                     IF p[1] + p[2] = 0 THEN NoSections
                     ELSE IF SectionsLimit = NoLimit \/ SectionsSize(Rendered(all, p[1], p[2], cutoff, s)) <= SectionsLimit
                          THEN Rendered(all, p[1], p[2], cutoff, s)
                     ELSE IF p[1] > 1 THEN g[<<p[1] - Quarter(p[1]), p[2]>>]
                     ELSE IF p[2] > 0 THEN g[<<p[1], p[2] - Quarter(p[2])>>]
                     ELSE Rendered(all, p[1], p[2], cutoff, s)]
    BY <1>2
  <2> QED  BY <1>1, <1>3, <2>1 DEF Fits
<1>5. F = f  BY <1>4
<1>6. <<d, h>> \in P  BY <1>1
<1> QED  BY <1>2, <1>3, <1>5, <1>6

(* The stable prefix of a build with no limit: what is selected, up to the *)
(* cutoff.                                                                 *)
LEMMA FittingPrefix ==
    ASSUME SectionsLimit = NoLimit, NEW H, NEW D, History(H \cup D), \A c \in H, d \in D : c.start < d.start,
           NEW sel, sel = [history |-> H, detailed |-> D], NEW cutoff, NEW s
    PROVE  StablePrefix(Fitting(sel, cutoff, s)) = <<H, {c \in D : c.start <= cutoff}>>
<1>1. PICK all : all = H \cup D  OBVIOUS
<1>2. H \cap D = {}
  <2>1. SUFFICES ASSUME NEW c \in H \cap D  PROVE FALSE  OBVIOUS
  <2>2. c.start < c.start /\ c.start \in Nat  BY DEF History
  <2> QED  BY <2>2
<1>3. PICK d, h : d = Cardinality(D) /\ h = Cardinality(H)  OBVIOUS
<1>4. /\ History(all) /\ History(D) /\ History(H) /\ d \in Nat /\ h \in Nat /\ Cardinality(all) \in Nat
      /\ d <= Cardinality(all) /\ h <= Cardinality(all)
  BY <1>1, <1>3, HistoryPart
<1>5. Cardinality(all) = d + h  BY <1>1, <1>2, <1>3, <1>4, SizeFacts
<1>6. Latest(d, all) = D
  <2>1. D \subseteq all /\ \A x \in D, c \in all \ D : c.start < x.start  BY <1>1
  <2> QED  BY <1>3, <1>4, <2>1, TopIsLatest
<1>7. Latest(d + h, all) = all
  <2>1. d + h \in Int /\ d + h >= Cardinality(all)  BY <1>4, <1>5
  <2> QED  BY <1>4, <2>1, LatestFacts
<1>8. PICK x : x = Fitting(sel, cutoff, s)  OBVIOUS
<1>9. x = IF d + h = 0 THEN NoSections ELSE Rendered(all, d, h, cutoff, s)
  <2>1. x = Fits(all, cutoff, s)[<<d, h>>]  BY <1>1, <1>3, <1>8 DEF Fitting
  <2>2. d \in 0 .. Cardinality(all) /\ h \in 0 .. Cardinality(all)  BY <1>4
  <2> QED  BY <2>1, <2>2, FitsAtOnce
<1>10. all \ D = H  BY <1>1, <1>2
<1>11. Rendered(all, d, h, cutoff, s) = format_sections([history |-> H, detailed |-> D], cutoff, s)
  BY <1>6, <1>7, <1>10 DEF Rendered
<1>12. CASE all = {}
  <2>1. H = {} /\ D = {}  BY <1>1, <1>12
  <2>2. x = NoSections  BY <1>1, <1>9, <1>11, <1>12 DEF format_sections
  <2> QED  BY <1>8, <2>1, <2>2 DEF StablePrefix, NoSections
<1>13. CASE all # {}
  <2>1. d + h # 0  BY <1>4, <1>5, <1>13, FS_EmptySet DEF History
  <2>2. x = [history |-> H, warmup |-> {c \in D : c.start <= cutoff},
             tail |-> {c \in D : c.start > cutoff}, path |-> DirOf[s]]
    BY <1>1, <1>9, <1>11, <1>13, <2>1 DEF format_sections
  <2> QED  BY <1>8, <2>2 DEF StablePrefix
<1> QED  BY <1>12, <1>13

(* The assumption on the constants, taken apart.                           *)
LEMMA ContextConstants ==
    /\ DetailedMin \in Nat \ {0} /\ DetailedMax \in Nat \ {0} /\ HistoryCommands \in Nat /\ DetailedMin <= DetailedMax
    /\ DetailedCommands \in Nat /\ MinCurrent \in Nat
BY ContextShape DEF ContextShape

(* All but the last n of more than n commands.                             *)
LEMMA OlderFacts ==
    ASSUME NEW S, History(S), NEW n \in Nat \ {0}, NEW T, T = S \ Latest(n, S), T # {}
    PROVE  LastStart(T) \in Nat \ {0} /\ \E c \in S : c.start > LastStart(T)
<1>1. PICK L : L = Latest(n, S)  OBVIOUS
<1>a. T = S \ L /\ T \subseteq S  BY <1>1
<1>b. History(T) /\ Cardinality(S) \in Nat  BY <1>a, HistoryPart
<1>c. History(L) /\ L \subseteq S  BY <1>1, LatestFacts
<1>2. History(T) /\ History(L) /\ L \subseteq S /\ T = S \ L /\ Cardinality(S) \in Nat
  BY <1>a, <1>b, <1>c
<1>3. L # {}
  <2>1. CASE n <= Cardinality(S)
    <3>1. Cardinality(L) = n  BY <1>1, <2>1, LatestFacts
    <3> QED  BY <3>1, FS_EmptySet
  <2>2. CASE n >= Cardinality(S)
    <3>1. L = S  BY <1>1, <2>2, LatestFacts
    <3> QED  BY <1>2, <3>1
  <2> QED  BY <1>2, <2>1, <2>2
<1>4. PICK c \in L : TRUE  BY <1>3
<1>5. PICK d \in T : d.start = LastStart(T)  BY <1>2, LastStartFacts
<1>6. d.start < c.start
  <2>1. \A e \in L, g \in S \ L : g.start < e.start  BY <1>1, LatestFacts
  <2> QED  BY <1>2, <1>4, <1>5, <2>1
<1>7. LastStart(T) \in Nat \ {0}  BY <1>2, LastStartFacts
<1>8. c \in S /\ c.start \in Nat  BY <1>2, <1>4 DEF History
<1> QED  BY <1>5, <1>6, <1>7, <1>8

(* The cutoff of the history leaves a command behind it.                   *)
LEMMA CutoffFacts ==
    ASSUME NEW M, History(M), M # {}, historyFrozen \in Nat \cup {NotFrozen},
           historyFrozen # NotFrozen => \E c \in M : c.start > historyFrozen
    PROVE  HistoryCutoff(M) \in Nat /\ \E c \in M : c.start > HistoryCutoff(M)
<1>1. FirstCutoff(M) \in Nat /\ \E c \in M : c.start > FirstCutoff(M)
  <2>1. PICK S : S = Latest(HistoryCommands + DetailedMin, M)  OBVIOUS
  <2>2. PICK T : T = S \ Latest(DetailedMin, S)  OBVIOUS
  <2>3. FirstCutoff(M) = IF T = {} THEN 0 ELSE LastStart(T)  BY <2>1, <2>2 DEF FirstCutoff
  <2>4. HistoryCommands + DetailedMin \in Int  BY ContextConstants
  <2>5. S \subseteq M /\ History(S)  BY <2>1, <2>4, LatestFacts
  <2>6. CASE T = {}
    <3>1. \A c \in M : c.start > 0  BY DEF History
    <3> QED  BY <2>3, <2>6, <3>1
  <2>7. CASE T # {}
    <3>1. LastStart(T) \in Nat \ {0} /\ \E c \in S : c.start > LastStart(T)
      BY <2>2, <2>5, <2>7, OlderFacts, ContextConstants
    <3> QED  BY <2>3, <2>5, <2>7, <3>1
  <2> QED  BY <2>6, <2>7
<1>2. PICK k : k = IF historyFrozen = NotFrozen THEN FirstCutoff(M) ELSE historyFrozen  OBVIOUS
<1>3. k \in Nat /\ \E c \in M : c.start > k  BY <1>1, <1>2
<1>4. PICK D : D = {c \in M : c.start > k}  OBVIOUS
<1>5. HistoryCutoff(M) = IF Cardinality(D) > DetailedMax THEN LastStart(D \ Latest(DetailedMin, D)) ELSE k
  BY <1>2, <1>4 DEF HistoryCutoff
<1>6. CASE ~(Cardinality(D) > DetailedMax)  BY <1>3, <1>5, <1>6
<1>7. CASE Cardinality(D) > DetailedMax
  <2>1. History(D) /\ Cardinality(D) \in Nat  BY <1>4, HistoryPart
  <2>2. Cardinality(Latest(DetailedMin, D)) = DetailedMin  BY <1>7, <2>1, LatestFacts, ContextConstants
  <2>3. D \ Latest(DetailedMin, D) # {}
    <3>1. Latest(DetailedMin, D) # D  BY <1>7, <2>1, <2>2, ContextConstants
    <3>2. Latest(DetailedMin, D) \subseteq D  BY <2>1, LatestFacts, ContextConstants
    <3> QED  BY <3>1, <3>2
  <2>4. PICK T : T = D \ Latest(DetailedMin, D)  OBVIOUS
  <2>5. LastStart(T) \in Nat \ {0} /\ \E c \in D : c.start > LastStart(T)
    BY <2>1, <2>3, <2>4, OlderFacts, ContextConstants
  <2> QED  BY <1>4, <1>5, <1>7, <2>4, <2>5
<1> QED  BY <1>6, <1>7

-----------------------------------------------------------------------------
(* The invariant.                                                          *)

(* The commands: those recorded and those running started at different     *)
(* times.                                                                  *)
Started ==
    /\ ctxClock \in Nat /\ running \in [CtxSessions -> Nat] /\ History(records)
    /\ \A c \in records : c.start <= ctxClock
    /\ \A s \in CtxSessions : running[s] <= ctxClock /\ \A c \in records : c.start # running[s]
    /\ \A s, t \in CtxSessions : running[s] = running[t] => s = t \/ running[s] = 0

(* A warm-up follows a record.                                             *)
Warming ==
    /\ warmups # {} => records # {}
    /\ \A t \in warmups : /\ t = [id |-> t.id, sess |-> t.sess, pc |-> t.pc, latest |-> t.latest]
                          /\ t.pc = "freeze" => t.latest \in Nat

(* The cutoffs; the history leaves a command for the detailed part.        *)
Frozen ==
    /\ historyFrozen \in Nat \cup {NotFrozen} /\ recentFrozen \in Nat \cup {NotFrozen}
    /\ historyFrozen # NotFrozen => \E c \in Meaningful(records) : c.start > historyFrozen

(* The stable prefix that two cutoffs select.                              *)
PrefixOf(M, history, recent) ==
    <<Latest(HistoryCommands, {c \in M : c.start <= history}),
      {c \in M : c.start > history /\ c.start <= recent}>>

(* What was last sent begins with what the cutoffs select now.             *)
LastSent ==
    served # NoSections =>
        /\ historyFrozen # NotFrozen /\ recentFrozen # NotFrozen
        /\ ~disturbed /\ SectionsLimit = NoLimit =>
               StablePrefix(served) = PrefixOf(Meaningful(records), historyFrozen, recentFrozen)

(* The invariant of the context.                                           *)
CtxInv == Started /\ Warming /\ Frozen /\ LastSent

(* The commands with a line are a history.                                 *)
LEMMA MeaningfulFacts ==
    ASSUME CtxInv
    PROVE  /\ History(Meaningful(records)) /\ History(records) /\ Meaningful(records) \subseteq records
           /\ \A h : History({c \in Meaningful(records) : c.start <= h})
           /\ \A h : History({c \in Meaningful(records) : c.start > h})
<1>1. History(records) /\ Meaningful(records) \subseteq records  BY DEF CtxInv, Started, Meaningful
<1> QED  BY <1>1, HistoryPart

(* A build: its cutoffs and, with no limit, its prefix.                    *)
LEMMA BuildFacts ==
    ASSUME CtxInv, NEW M, M = Meaningful(records), M # {}, NEW s,
           NEW h, h = HistoryCutoff(M), NEW r, r = RecentCutoff(Selection(M))
    PROVE  /\ h \in Nat /\ (\E c \in M : c.start > h) /\ r \in Nat
           /\ SectionsLimit = NoLimit => StablePrefix(build_completion_sections(s)) = PrefixOf(M, h, r)
<1>1. History(M)  BY MeaningfulFacts
<1>2. h \in Nat /\ \E c \in M : c.start > h  BY <1>1, CutoffFacts DEF CtxInv, Frozen
<1>3. PICK H, D : H = Latest(HistoryCommands, {c \in M : c.start <= h}) /\ D = {c \in M : c.start > h}
  OBVIOUS
<1>4. Selection(M) = [history |-> H, detailed |-> D]  BY <1>3 DEF Selection
<1>5. History({c \in M : c.start <= h})  BY MeaningfulFacts
<1>6. H \subseteq {c \in M : c.start <= h}
  <2>1. PICK E : E = {c \in M : c.start <= h}  OBVIOUS
  <2>2. HistoryCommands \in Int  BY ContextConstants
  <2>3. H = Latest(HistoryCommands, E) /\ History(E)  BY <1>3, <1>5, <2>1
  <2>4. H \subseteq E  BY <2>2, <2>3, LatestFacts
  <2> QED  BY <2>1, <2>4
<1>7. H \cup D \subseteq M  BY <1>3, <1>6
<1>8. History(H \cup D)  BY <1>1, <1>7, HistoryPart
<1>9. \A c \in H, d \in D : c.start < d.start
  <2>1. \A c \in M : c.start \in Nat  BY <1>1 DEF History
  <2> QED  BY <1>2, <1>3, <1>6, <2>1
<1>10. r \in Nat
  <2>1. H \cup D # {}  BY <1>2, <1>3
  <2>2. LastStart(H \cup D) \in Nat  BY <1>8, <2>1, LastStartFacts
  <2>3. r = IF recentFrozen = NotFrozen THEN LastStart(H \cup D) ELSE recentFrozen
    BY <1>4 DEF RecentCutoff
  <2> QED  BY <2>2, <2>3 DEF CtxInv, Frozen
<1>11. ASSUME SectionsLimit = NoLimit
       PROVE  StablePrefix(build_completion_sections(s)) = PrefixOf(M, h, r)
  <2>1. PICK sel : sel = Selection(M)  OBVIOUS
  <2>2. build_completion_sections(s) = Fitting(sel, r, s)
    BY <2>1 DEF build_completion_sections
  <2>3. StablePrefix(Fitting(sel, r, s)) = <<H, {c \in D : c.start <= r}>>
    BY <1>4, <1>8, <1>9, <1>11, <2>1, FittingPrefix
  <2>4. {c \in D : c.start <= r} = {c \in M : c.start > h /\ c.start <= r}  BY <1>3
  <2> QED  BY <1>3, <2>2, <2>3, <2>4 DEF PrefixOf
<1> QED  BY <1>2, <1>10, <1>11

(* Nothing is recorded and nothing was sent.                               *)
LEMMA CtxInitInv == ASSUME CtxInit PROVE CtxInv
<1>1. Started  BY NoHistory DEF CtxInit, Started
<1>2. Warming /\ Frozen /\ LastSent  BY DEF CtxInit, Warming, Frozen, LastSent
<1> QED  BY <1>1, <1>2 DEF CtxInv

(* A command starts: it is in no list yet.                                 *)
LEMMA CommandStartInv == ASSUME CtxInv, NEW s \in CtxSessions, CommandStart(s) PROVE CtxInv'
<1>1. /\ ctxClock' = ctxClock + 1 /\ running' = [running EXCEPT ![s] = ctxClock + 1]
      /\ UNCHANGED <<records, historyFrozen, recentFrozen, lastContext, warmups, served, disturbed>>
  BY DEF CommandStart
<1>2. Started'
  <2>1. /\ ctxClock \in Nat /\ running \in [CtxSessions -> Nat] /\ History(records)
        /\ \A c \in records : c.start <= ctxClock /\ c.start \in Nat
        /\ \A t \in CtxSessions : running[t] <= ctxClock /\ running[t] \in Nat /\ \A c \in records : c.start # running[t]
        /\ \A t, u \in CtxSessions : running[t] = running[u] => t = u \/ running[t] = 0
    BY DEF CtxInv, Started, History
  <2>2. \A t \in CtxSessions : running'[t] = IF t = s THEN ctxClock + 1 ELSE running[t]  BY <1>1, <2>1
  <2>3. ctxClock' \in Nat /\ running' \in [CtxSessions -> Nat]  BY <1>1, <2>1
  <2>4. History(records)'  BY <1>1, <2>1 DEF History
  <2>5. \A c \in records' : c.start <= ctxClock'  BY <1>1, <2>1
  <2>6. \A t \in CtxSessions : running'[t] <= ctxClock' /\ \A c \in records' : c.start # running'[t]
    BY <1>1, <2>1, <2>2
  <2>7. \A t, u \in CtxSessions : running'[t] = running'[u] => t = u \/ running'[t] = 0
    <3> TAKE t, u \in CtxSessions
    <3>1. CASE t # s /\ u # s  BY <2>1, <2>2, <3>1
    <3>2. CASE t = s /\ u # s  BY <2>1, <2>2, <3>2
    <3>3. CASE t # s /\ u = s  BY <2>1, <2>2, <3>3
    <3>4. CASE t = s /\ u = s  BY <3>4
    <3> QED  BY <3>1, <3>2, <3>3, <3>4
  <2> QED  BY <2>3, <2>4, <2>5, <2>6, <2>7 DEF Started
<1>3. Warming'  BY <1>1 DEF CtxInv, Warming
<1>4. Frozen'  BY <1>1 DEF CtxInv, Frozen, Meaningful
<1>5. LastSent'  BY <1>1 DEF CtxInv, LastSent, Meaningful, PrefixOf, Latest, StablePrefix, NoSections
<1> QED  BY <1>2, <1>3, <1>4, <1>5 DEF CtxInv

(* A record that started behind both cutoffs is in no prefix.              *)
LEMMA LaterRecord ==
    ASSUME NEW M, NEW x, NEW h \in Nat, NEW r \in Nat, x.start \in Nat, x.start > h, x.start > r
    PROVE  PrefixOf(M \cup {x}, h, r) = PrefixOf(M, h, r)
<1>1. {c \in M \cup {x} : c.start <= h} = {c \in M : c.start <= h}  OBVIOUS
<1>2. {c \in M \cup {x} : c.start > h /\ c.start <= r} = {c \in M : c.start > h /\ c.start <= r}  OBVIOUS
<1> QED  BY <1>1, <1>2 DEF PrefixOf

(* A command is recorded: the prefix of what was sent still is what the    *)
(* cutoffs select, or the record lies in front of one of them and disturbs *)
(* it.                                                                     *)
LEMMA CommandDoneInv ==
    ASSUME CtxInv, NEW s \in CtxSessions, NEW line, NEW len, CommandDone(s, line, len)
    PROVE  CtxInv'
<1>1. PICK k : k = running[s]  OBVIOUS
<1>2. PICK off : records' = records \cup {[sess |-> s, start |-> k, line |-> line, off |-> off, len |-> len]}
  BY <1>1 DEF CommandDone
<1>3. PICK x : x = [sess |-> s, start |-> k, line |-> line, off |-> off, len |-> len]  OBVIOUS
<1>4. PICK w : w = [id |-> k, sess |-> s, pc |-> "check", latest |-> 0]  OBVIOUS
<1>5. /\ records' = records \cup {x} /\ x.start = k /\ k # 0 /\ running' = [running EXCEPT ![s] = 0]
      /\ warmups' = warmups \cup {w} /\ disturbed' = (disturbed \/ k <= recentFrozen \/ k <= historyFrozen)
      /\ UNCHANGED <<ctxClock, historyFrozen, recentFrozen, lastContext, served>>
  BY <1>1, <1>2, <1>3, <1>4 DEF CommandDone
<1>6. /\ ctxClock \in Nat /\ running \in [CtxSessions -> Nat] /\ History(records)
      /\ \A c \in records : c.start <= ctxClock /\ c.start \in Nat \ {0}
      /\ \A t \in CtxSessions : running[t] <= ctxClock /\ running[t] \in Nat /\ \A c \in records : c.start # running[t]
      /\ \A t, u \in CtxSessions : running[t] = running[u] => t = u \/ running[t] = 0
  BY DEF CtxInv, Started, History
<1>7. k \in Nat \ {0} /\ k <= ctxClock /\ \A c \in records : c.start # k  BY <1>1, <1>5, <1>6
<1>8. History(records')
  <2>1. IsFiniteSet(records)  BY <1>6 DEF History
  <2>2. IsFiniteSet(records')  BY <1>5, <2>1, FS_AddElement
  <2>3. \A c, d \in records' : c.start = d.start => c = d  BY <1>5, <1>6, <1>7 DEF History
  <2>4. \A c \in records' : c.start \in Nat \ {0}  BY <1>5, <1>6, <1>7
  <2> QED  BY <2>2, <2>3, <2>4 DEF History
<1>9. Started'
  <2>1. \A t \in CtxSessions : running'[t] = IF t = s THEN 0 ELSE running[t]  BY <1>5, <1>6
  <2>2. ctxClock' \in Nat /\ running' \in [CtxSessions -> Nat]  BY <1>5, <1>6
  <2>3. \A c \in records' : c.start <= ctxClock'  BY <1>5, <1>6, <1>7
  <2>4. ASSUME NEW t \in CtxSessions
        PROVE  running'[t] <= ctxClock' /\ \A c \in records' : c.start # running'[t]
    <3>1. CASE t = s
      <4>1. running'[t] = 0  BY <2>1, <3>1
      <4> QED  BY <1>5, <1>6, <1>7, <4>1
    <3>2. CASE t # s
      <4>1. running'[t] = running[t]  BY <2>1, <3>2
      <4>2. running[t] # k  BY <1>1, <1>6, <1>7, <3>2
      <4> QED  BY <1>5, <1>6, <4>1, <4>2
    <3> QED  BY <3>1, <3>2
  <2>5. \A t, u \in CtxSessions : running'[t] = running'[u] => t = u \/ running'[t] = 0
    BY <1>6, <2>1
  <2> QED  BY <1>8, <2>2, <2>3, <2>4, <2>5 DEF Started
<1>10. Warming'
  <2>1. w = [id |-> w.id, sess |-> w.sess, pc |-> w.pc, latest |-> w.latest] /\ w.latest = 0  BY <1>4
  <2> QED  BY <1>5, <2>1 DEF CtxInv, Warming
<1>11. PICK M : M = Meaningful(records)  OBVIOUS
<1>12. Meaningful(records') = M \/ Meaningful(records') = M \cup {x}  BY <1>5, <1>11 DEF Meaningful
<1>13. Frozen'
  <2>1. M \subseteq Meaningful(records')  BY <1>12
  <2> QED  BY <1>5, <1>11, <2>1 DEF CtxInv, Frozen
<1>14. LastSent'
  <2>1. SUFFICES ASSUME served # NoSections
                 PROVE  /\ historyFrozen # NotFrozen /\ recentFrozen # NotFrozen
                        /\ ~disturbed' /\ SectionsLimit = NoLimit =>
                              StablePrefix(served) = PrefixOf(Meaningful(records'), historyFrozen, recentFrozen)
    BY <1>5 DEF LastSent, NoSections, StablePrefix, PrefixOf, Latest, Meaningful
  <2>2. historyFrozen # NotFrozen /\ recentFrozen # NotFrozen /\ historyFrozen \in Nat /\ recentFrozen \in Nat
    BY <2>1 DEF CtxInv, LastSent, Frozen
  <2>3. ASSUME ~disturbed', SectionsLimit = NoLimit
        PROVE  StablePrefix(served) = PrefixOf(Meaningful(records'), historyFrozen, recentFrozen)
    <3>1. ~disturbed /\ ~(k <= recentFrozen) /\ ~(k <= historyFrozen)  BY <1>5, <2>3
    <3>2. StablePrefix(served) = PrefixOf(M, historyFrozen, recentFrozen)
      BY <1>11, <2>1, <2>3, <3>1 DEF CtxInv, LastSent
    <3>3. PrefixOf(M \cup {x}, historyFrozen, recentFrozen) = PrefixOf(M, historyFrozen, recentFrozen)
      <4>1. x.start \in Nat /\ x.start > historyFrozen /\ x.start > recentFrozen  BY <1>5, <1>7, <2>2, <3>1
      <4> QED  BY <2>2, <4>1, LaterRecord
    <3> QED  BY <1>12, <3>2, <3>3
  <2> QED  BY <2>2, <2>3
<1> QED  BY <1>9, <1>10, <1>13, <1>14 DEF CtxInv

(* What a build leaves in the cutoffs.                                     *)
LEMMA FreezeFacts ==
    ASSUME CtxInv, Freeze, records' = records, NEW M, M = Meaningful(records)
    PROVE  /\ Frozen'
           /\ M = {} => historyFrozen' = historyFrozen /\ recentFrozen' = recentFrozen
           /\ M # {} => /\ historyFrozen' = HistoryCutoff(M) /\ recentFrozen' = RecentCutoff(Selection(M))
                        /\ historyFrozen' \in Nat /\ recentFrozen' \in Nat
<1>1. /\ M = {} => historyFrozen' = historyFrozen /\ recentFrozen' = recentFrozen
      /\ M # {} => historyFrozen' = HistoryCutoff(M) /\ recentFrozen' = RecentCutoff(Selection(M))
  BY DEF Freeze
<1>2. Meaningful(records)' = M  BY DEF Meaningful
<1>3. CASE M = {}  BY <1>1, <1>2, <1>3 DEF CtxInv, Frozen
<1>4. CASE M # {}
  <2>1. PICK h, r : h = HistoryCutoff(M) /\ r = RecentCutoff(Selection(M))  OBVIOUS
  <2>2. h \in Nat /\ (\E c \in M : c.start > h) /\ r \in Nat  BY <1>4, <2>1, BuildFacts
  <2>3. historyFrozen' = h /\ recentFrozen' = r  BY <1>1, <1>4, <2>1
  <2>4. Frozen'  BY <1>2, <2>2, <2>3 DEF Frozen
  <2> QED  BY <1>1, <1>4, <2>2, <2>3, <2>4
<1> QED  BY <1>3, <1>4

(* What a build sends.                                                     *)
LEMMA BuildSends ==
    ASSUME CtxInv, Freeze, records' = records, NEW s, served' = build_completion_sections(s)
    PROVE  LastSent'
<1>1. PICK M : M = Meaningful(records)  OBVIOUS
<1>2. Meaningful(records)' = M  BY <1>1 DEF Meaningful
<1>3. CASE M = {}
  <2>1. served' = NoSections  BY <1>1, <1>3 DEF build_completion_sections
  <2> QED  BY <2>1 DEF LastSent, NoSections
<1>4. CASE M # {}
  <2>1. PICK h, r : h = HistoryCutoff(M) /\ r = RecentCutoff(Selection(M))  OBVIOUS
  <2>2. /\ h \in Nat /\ r \in Nat
        /\ SectionsLimit = NoLimit => StablePrefix(build_completion_sections(s)) = PrefixOf(M, h, r)
    BY <1>1, <1>4, <2>1, BuildFacts
  <2>3. historyFrozen' = h /\ recentFrozen' = r  BY <1>1, <1>4, <2>1, FreezeFacts
  <2>4. h # NotFrozen /\ r # NotFrozen  BY <2>2 DEF NotFrozen
  <2>5. PICK v : v = served'  OBVIOUS
  <2>6. SectionsLimit = NoLimit => StablePrefix(v) = PrefixOf(M, h, r)  BY <2>2, <2>5
  <2>7. /\ StablePrefix(served)' = StablePrefix(v)
        /\ PrefixOf(Meaningful(records), historyFrozen, recentFrozen)' = PrefixOf(M, h, r)
    BY <1>2, <2>3, <2>5 DEF StablePrefix, PrefixOf, Latest
  <2> QED  BY <2>3, <2>4, <2>6, <2>7 DEF LastSent
<1> QED  BY <1>3, <1>4

(* The records and the running commands are unchanged.                     *)
LEMMA StartedKept ==
    ASSUME CtxInv, UNCHANGED <<ctxClock, running, records>>
    PROVE  Started'
BY DEF CtxInv, Started, History

(* A request is built and sent, and the cutoffs are where its build left   *)
(* them.                                                                   *)
LEMMA CompletionRequestInv == ASSUME CtxInv, NEW s, CompletionRequest(s) PROVE CtxInv'
<1>1. /\ Freeze /\ served' = build_completion_sections(s)
      /\ UNCHANGED <<ctxClock, running, records, lastContext, warmups>>
  BY DEF CompletionRequest
<1>2. Frozen'  BY <1>1, FreezeFacts
<1>3. LastSent'  BY <1>1, BuildSends
<1>4. Started'  BY <1>1, StartedKept
<1>5. Warming'  BY <1>1 DEF CtxInv, Warming
<1> QED  BY <1>2, <1>3, <1>4, <1>5 DEF CtxInv

(* A task at its next step.                                                *)
LEMMA NextPlace ==
    ASSUME CtxInv, NEW t \in warmups, NEW pc, NEW v \in Nat, NEW W, W \subseteq warmups, records' = records,
           \/ warmups' = W
           \/ (warmups' = W \cup {[t EXCEPT !.pc = pc]} /\ pc # "freeze")
           \/ warmups' = W \cup {[t EXCEPT !.pc = pc, !.latest = v]}
    PROVE  Warming'
<1>1. t = [id |-> t.id, sess |-> t.sess, pc |-> t.pc, latest |-> t.latest]  BY DEF CtxInv, Warming
<1>2. PICK a, b : a = [t EXCEPT !.pc = pc] /\ b = [t EXCEPT !.pc = pc, !.latest = v]  OBVIOUS
<1>3. /\ a = [id |-> a.id, sess |-> a.sess, pc |-> a.pc, latest |-> a.latest] /\ a.pc = pc
      /\ b = [id |-> b.id, sess |-> b.sess, pc |-> b.pc, latest |-> b.latest] /\ b.latest = v
  BY <1>1, <1>2
<1>4. \/ warmups' = W \/ (warmups' = W \cup {a} /\ pc # "freeze") \/ warmups' = W \cup {b}  BY <1>2
<1>6. \A u \in warmups' : u \in warmups \/ (u = a /\ pc # "freeze") \/ u = b  BY <1>4
<1>5. \A u \in warmups' : /\ u = [id |-> u.id, sess |-> u.sess, pc |-> u.pc, latest |-> u.latest]
                          /\ u.pc = "freeze" => u.latest \in Nat
  BY <1>3, <1>6 DEF CtxInv, Warming
<1> QED  BY <1>5 DEF CtxInv, Warming

(* A warm-up builds and compares, and may move the cutoff of the history,  *)
(* which disturbs the prefix.                                              *)
LEMMA WarmupCheckInv == ASSUME CtxInv, NEW t \in warmups, WarmupCheck(t) PROVE CtxInv'
<1>1. /\ Freeze /\ UNCHANGED <<ctxClock, running, records, served>>
      /\ disturbed' = (disturbed \/ historyFrozen # historyFrozen')
      /\ warmups' = warmups \ {t} \/ warmups' = (warmups \ {t}) \cup {[t EXCEPT !.pc = "latest"]}
  BY DEF WarmupCheck
<1>2. Frozen'  BY <1>1, FreezeFacts
<1>3. Started'  BY <1>1, StartedKept
<1>4. Warming'
  <2>1. warmups \ {t} \subseteq warmups /\ 0 \in Nat /\ "latest" # "freeze"  OBVIOUS
  <2> QED  BY <1>1, <2>1, NextPlace
<1>5. LastSent'
  <2>1. PICK M : M = Meaningful(records)  OBVIOUS
  <2>2. SUFFICES ASSUME served # NoSections
                 PROVE  /\ historyFrozen' # NotFrozen /\ recentFrozen' # NotFrozen
                        /\ ~disturbed' /\ SectionsLimit = NoLimit =>
                              StablePrefix(served) = PrefixOf(M, historyFrozen', recentFrozen')
    BY <1>1, <2>1 DEF LastSent, NoSections, StablePrefix, PrefixOf, Latest, Meaningful
  <2>3. /\ historyFrozen # NotFrozen /\ recentFrozen # NotFrozen
        /\ ~disturbed /\ SectionsLimit = NoLimit =>
               StablePrefix(served) = PrefixOf(M, historyFrozen, recentFrozen)
    BY <2>1, <2>2 DEF CtxInv, LastSent
  <2>4. recentFrozen' = recentFrozen
    <3>1. CASE M = {}  BY <1>1, <2>1, <3>1, FreezeFacts
    <3>2. CASE M # {}
      <4>1. recentFrozen' = RecentCutoff(Selection(M))  BY <1>1, <2>1, <3>2, FreezeFacts
      <4> QED  BY <2>3, <4>1 DEF RecentCutoff
    <3> QED  BY <3>1, <3>2
  <2>5. historyFrozen' # NotFrozen
    <3>1. CASE M = {}  BY <1>1, <2>1, <2>3, <3>1, FreezeFacts
    <3>2. CASE M # {}
      <4>1. historyFrozen' \in Nat  BY <1>1, <2>1, <3>2, FreezeFacts
      <4> QED  BY <4>1 DEF NotFrozen
    <3> QED  BY <3>1, <3>2
  <2>6. ~disturbed' => ~disturbed /\ historyFrozen' = historyFrozen  BY <1>1
  <2> QED  BY <2>3, <2>4, <2>5, <2>6
<1> QED  BY <1>2, <1>3, <1>4, <1>5 DEF CtxInv

(* It takes the time of the last record.                                   *)
LEMMA WarmupLatestInv == ASSUME CtxInv, NEW t \in warmups, WarmupLatest(t) PROVE CtxInv'
<1>1. PICK v : v = LastStart(records)  OBVIOUS
<1>2. /\ warmups' = (warmups \ {t}) \cup {[t EXCEPT !.pc = "freeze", !.latest = v]}
      /\ UNCHANGED <<ctxClock, running, records, historyFrozen, recentFrozen, lastContext, served, disturbed>>
  BY <1>1 DEF WarmupLatest
<1>3. v \in Nat
  <2>1. records # {} /\ History(records)  BY DEF CtxInv, Warming, Started
  <2> QED  BY <1>1, <2>1, LastStartFacts
<1>4. Warming'
  <2>1. warmups \ {t} \subseteq warmups  OBVIOUS
  <2> QED  BY <1>2, <1>3, <2>1, NextPlace
<1>5. Started'  BY <1>2, StartedKept
<1>6. Frozen'  BY <1>2 DEF CtxInv, Frozen, Meaningful
<1>7. LastSent'  BY <1>2 DEF CtxInv, LastSent, Meaningful, PrefixOf, Latest, StablePrefix, NoSections
<1> QED  BY <1>4, <1>5, <1>6, <1>7 DEF CtxInv

(* It moves the cutoff of the recent part, which disturbs the prefix.      *)
LEMMA WarmupFreezeInv == ASSUME CtxInv, NEW t \in warmups, WarmupFreeze(t) PROVE CtxInv'
<1>1. /\ t.pc = "freeze" /\ recentFrozen' = t.latest /\ disturbed' = TRUE
      /\ warmups' = (warmups \ {t}) \cup {[t EXCEPT !.pc = "rebuild"]}
      /\ UNCHANGED <<ctxClock, running, records, historyFrozen, lastContext, served>>
  BY DEF WarmupFreeze
<1>2. recentFrozen' \in Nat  BY <1>1 DEF CtxInv, Warming
<1>3. recentFrozen' # NotFrozen  BY <1>2 DEF NotFrozen
<1>4. Warming'
  <2>1. warmups \ {t} \subseteq warmups /\ 0 \in Nat /\ "rebuild" # "freeze"  OBVIOUS
  <2> QED  BY <1>1, <2>1, NextPlace
<1>5. Started'  BY <1>1, StartedKept
<1>6. Frozen'  BY <1>1, <1>2 DEF CtxInv, Frozen, Meaningful
<1>7. LastSent'  BY <1>1, <1>3 DEF CtxInv, LastSent, NoSections
<1> QED  BY <1>4, <1>5, <1>6, <1>7 DEF CtxInv

(* It builds and sends again.                                              *)
LEMMA WarmupRebuildInv == ASSUME CtxInv, NEW t \in warmups, WarmupRebuild(t) PROVE CtxInv'
<1>1. /\ Freeze /\ served' = build_completion_sections(t.sess) /\ warmups' = warmups \ {t}
      /\ UNCHANGED <<ctxClock, running, records>>
  BY DEF WarmupRebuild
<1>2. Frozen'  BY <1>1, FreezeFacts
<1>3. LastSent'  BY <1>1, BuildSends
<1>4. Started'  BY <1>1, StartedKept
<1>5. Warming'  BY <1>1 DEF CtxInv, Warming
<1> QED  BY <1>2, <1>3, <1>4, <1>5 DEF CtxInv

(* Every step, one case per action.                                        *)
LEMMA CtxNextInv == ASSUME CtxInv, [CtxNext]_ctxVars PROVE CtxInv'
<1>1. CASE CtxNext
  BY <1>1, CommandStartInv, CommandDoneInv, CompletionRequestInv, WarmupCheckInv, WarmupLatestInv,
     WarmupFreezeInv, WarmupRebuildInv
  DEF CtxNext
<1>2. CASE UNCHANGED ctxVars
  <2>1. UNCHANGED <<ctxClock, running, records, historyFrozen, recentFrozen, lastContext, warmups, served, disturbed>>
    BY <1>2 DEF ctxVars
  <2>2. Started'  BY <2>1, StartedKept
  <2>3. Warming' /\ Frozen'  BY <2>1 DEF CtxInv, Warming, Frozen, Meaningful
  <2>4. LastSent'  BY <2>1 DEF CtxInv, LastSent, Meaningful, PrefixOf, Latest, StablePrefix, NoSections
  <2> QED  BY <2>2, <2>3, <2>4 DEF CtxInv
<1> QED  BY <1>1, <1>2

(* The stable prefix of what was last sent is a function of the records    *)
(* and the two cutoffs, as long as nothing disturbed it (session_mgr.rs    *)
(* build_completion_sections, check_and_warmup_sections).                  *)
THEOREM CtxInvHolds == CtxSpec => []CtxInv
<1>1. CtxInv /\ [CtxNext]_ctxVars => CtxInv'  BY CtxNextInv
<1>2. CtxInit => CtxInv  BY CtxInitInv
<1> QED  BY <1>1, <1>2, PTL DEF CtxSpec

(* Without a limit on the size, every session's next build begins with     *)
(* exactly what was last sent, whatever commands were recorded since       *)
(* behind both cutoffs: the model's cache is hit.                          *)
THEOREM PrefixesAreStable == CtxSpec => []PrefixStable
<1>1. ASSUME CtxInv  PROVE PrefixStable
  <2>1. PICK M : M = Meaningful(records)  OBVIOUS
  <2>2. SUFFICES ASSUME NEW s \in CtxSessions, served # NoSections, ~disturbed,
                        HistoryCutoff(M) = historyFrozen, SectionsLimit = NoLimit
                 PROVE  StablePrefix(build_completion_sections(s)) = StablePrefix(served)
    BY <2>1 DEF PrefixStable
  <2>3. StablePrefix(served) = PrefixOf(M, historyFrozen, recentFrozen)
        /\ recentFrozen # NotFrozen /\ historyFrozen # NotFrozen
    BY <1>1, <2>1, <2>2 DEF CtxInv, LastSent
  <2>4. M # {}  BY <1>1, <2>1, <2>3 DEF CtxInv, Frozen
  <2>5. RecentCutoff(Selection(M)) = recentFrozen  BY <2>3 DEF RecentCutoff
  <2>6. StablePrefix(build_completion_sections(s)) = PrefixOf(M, historyFrozen, recentFrozen)
    BY <1>1, <2>1, <2>2, <2>4, <2>5, BuildFacts
  <2> QED  BY <2>3, <2>6
<1>2. CtxInv => PrefixStable  BY <1>1
<1> QED  BY <1>2, CtxInvHolds, PTL

-----------------------------------------------------------------------------
(* What the chat context shows.                                            *)

(* The commands earlier than c.                                            *)
Before(S, c) == {d \in S : d.start < c.start}

(* The first n commands are all but the last ones.                         *)
LEMMA OldestFacts ==
    ASSUME NEW S, History(S), NEW n \in Int
    PROVE  /\ Oldest(n, S) = S \ Latest(Cardinality(S) - n, S) /\ Oldest(n, S) \subseteq S
           /\ n <= 0 => Oldest(n, S) = {}
           /\ 0 <= n /\ n <= Cardinality(S) => Cardinality(Oldest(n, S)) = n
<1>1. IsFiniteSet(S) /\ Cardinality(S) \in Nat /\ \A c \in S : c.start \in Nat  BY HistoryPart DEF History
<1>2. ASSUME NEW c \in S
      PROVE  /\ Cardinality(Before(S, c)) + Cardinality(After(S, c)) + 1 = Cardinality(S)
             /\ Cardinality(Before(S, c)) \in Nat /\ Cardinality(After(S, c)) \in Nat
  <2>1. PICK B, A : B = Before(S, c) /\ A = After(S, c)  OBVIOUS
  <2>2. B \subseteq S /\ A \subseteq S /\ B \cap A = {}  BY <1>1, <2>1 DEF Before, After
  <2>3. c \notin B \cup A  BY <1>1, <2>1 DEF Before, After
  <2>4. S = (B \cup A) \cup {c}
    <3>1. ASSUME NEW d \in S  PROVE d \in (B \cup A) \cup {c}
      <4>1. d.start = c.start => d = c  BY DEF History
      <4>2. d.start \in Nat /\ c.start \in Nat  BY <1>1
      <4> QED  BY <2>1, <4>1, <4>2 DEF Before, After
    <3> QED  BY <2>2, <3>1
  <2>5. History(B) /\ History(A) /\ Cardinality(B) \in Nat /\ Cardinality(A) \in Nat  BY <2>2, HistoryPart
  <2>6. Cardinality(B \cup A) = Cardinality(B) + Cardinality(A) /\ IsFiniteSet(B \cup A)
    BY <2>2, <2>5, SizeFacts
  <2>7. Cardinality(S) = Cardinality(B \cup A) + 1  BY <2>3, <2>4, <2>6, FS_AddElement
  <2> QED  BY <2>1, <2>5, <2>6, <2>7
<1>3. PICK k : k = Cardinality(S) - n /\ k \in Int  BY <1>1
<1>4. Oldest(n, S) = {c \in S : Cardinality(Before(S, c)) < n} /\ Latest(k, S) = {c \in S : Cardinality(After(S, c)) < k}
  BY DEF Oldest, Latest, Before, After
<1>5. \A c \in S : Cardinality(Before(S, c)) < n <=> ~(Cardinality(After(S, c)) < k)  BY <1>1, <1>2, <1>3
<1>6. Oldest(n, S) = S \ Latest(k, S)  BY <1>4, <1>5
<1>7. ASSUME n <= 0  PROVE Oldest(n, S) = {}
  <2>1. k >= Cardinality(S)  BY <1>1, <1>3, <1>7
  <2> QED  BY <1>3, <1>6, <2>1, LatestFacts
<1>8. ASSUME 0 <= n, n <= Cardinality(S)  PROVE Cardinality(Oldest(n, S)) = n
  <2>1. PICK L : L = Latest(k, S)  OBVIOUS
  <2>2. 0 <= k /\ k <= Cardinality(S)  BY <1>1, <1>3, <1>8
  <2>3. L \subseteq S /\ Cardinality(L) = k  BY <1>3, <2>1, <2>2, LatestFacts
  <2>4. Cardinality(S \ L) = Cardinality(S) - Cardinality(L)  BY <2>3, SizeWithout
  <2> QED  BY <1>1, <1>3, <1>6, <2>1, <2>3, <2>4
<1> QED  BY <1>3, <1>6, <1>7, <1>8

(* The chat context with no limit is the first attempt.                    *)
LEMMA AttemptsAtOnce ==
    ASSUME NEW S, NEW s, NEW d \in Nat, NEW h \in Nat
    PROVE  build_context_with_limit(S, s, d, h, NoLimit) =
               build_command_contexts_with_session(S, d + h, s, MinCurrent, d)
<1>1. PICK P : P = (0 .. d + h) \X (0 .. d + h)  OBVIOUS
<1>2. PICK f : f = [p \in P |-> build_command_contexts_with_session(S, p[1] + p[2], s, MinCurrent, p[1])]
  OBVIOUS
<1>3. PICK F : F = Attempts(S, s, d + h, NoLimit)  OBVIOUS
<1>4. F = CHOOSE g : g = f
  <2>1. ASSUME NEW g
        PROVE  f = [p \in P |->
                     IF \/ NoLimit = NoLimit
                        \/ TextSize(build_command_contexts_with_session(S, p[1] + p[2], s, MinCurrent, p[1])) <= NoLimit
                        \/ p[1] + p[2] <= 1
                     THEN build_command_contexts_with_session(S, p[1] + p[2], s, MinCurrent, p[1])
                     ELSE g[Reduced(p[1], p[2], MinCurrent)]]
    BY <1>2
  <2> QED  BY <1>1, <1>3, <2>1 DEF Attempts
<1>5. F = f  BY <1>4
<1>6. <<d, h>> \in P  BY <1>1
<1> QED  BY <1>2, <1>3, <1>5, <1>6 DEF build_context_with_limit

(* The session's last commands are selected, and no more than asked for.   *)
LEMMA SelectFacts ==
    ASSUME NEW S, History(Meaningful(S)), NEW s, NEW X \in Nat, NEW m \in Nat, m <= X
    PROVE  /\ Latest(m, Own(s, Meaningful(S))) \subseteq select_commands(S, X, s, m)
           /\ select_commands(S, X, s, m) \subseteq Meaningful(S)
           /\ Cardinality(select_commands(S, X, s, m)) <= X
<1>1. PICK M : M = Meaningful(S)  OBVIOUS
<1>2. PICK recent : recent = Latest(X, M)  OBVIOUS
<1>3. PICK have : have = Own(s, recent)  OBVIOUS
<1>4. PICK own : own = Own(s, M)  OBVIOUS
<1>5. PICK rest : rest = own \ recent  OBVIOUS
<1>6. PICK needed : needed = m - Cardinality(have)  OBVIOUS
<1>7. PICK additional : additional = IF needed > 0 THEN Latest(needed, rest) ELSE {}  OBVIOUS
<1>8. PICK k : k = Cardinality(recent \cup additional) - X  OBVIOUS
<1>9. PICK foreign : foreign = Oldest(k, recent \ have)  OBVIOUS
<1>10. PICK selected : selected = (recent \cup additional) \ foreign  OBVIOUS
<1>11. PICK over : over = Cardinality(selected) - X  OBVIOUS
<1>12. PICK drained : drained = Oldest(over, have)  OBVIOUS
<1>13. select_commands(S, X, s, m) = (selected \ drained) \ Latest(over - Cardinality(drained), additional)
  BY <1>1, <1>2, <1>3, <1>4, <1>5, <1>6, <1>7, <1>8, <1>9, <1>10, <1>11, <1>12 DEF select_commands
<1>14. /\ History(M) /\ Cardinality(M) \in Nat /\ recent \subseteq M /\ History(recent)
       /\ \A c \in recent, d \in M \ recent : d.start < c.start
       /\ X >= Cardinality(M) => recent = M
       /\ X <= Cardinality(M) => Cardinality(recent) = X
       /\ Cardinality(recent) \in Nat
  <2>1. X \in Int /\ 0 <= X  OBVIOUS
  <2>2. History(M)  BY <1>1
  <2>3. Cardinality(M) \in Nat  BY <2>2, HistoryPart
  <2> QED  BY <1>2, <2>1, <2>2, <2>3, LatestFacts
<1>15. Cardinality(recent) <= X  BY <1>14
<1>16. have \subseteq recent /\ own \subseteq M /\ rest \subseteq own /\ have = own \cap recent /\ have \subseteq own
       /\ own = have \cup rest /\ rest \cap recent = {}
  BY <1>3, <1>4, <1>5, <1>14 DEF Own
<1>17. /\ History(have) /\ Cardinality(have) \in Nat /\ Cardinality(have) <= Cardinality(recent)
       /\ History(own) /\ History(rest) /\ Cardinality(rest) \in Nat /\ rest \subseteq M
       /\ History(recent \ have) /\ Cardinality(own) \in Nat
  <2>1. rest \subseteq M /\ recent \ have \subseteq recent  BY <1>16
  <2> QED  BY <1>14, <1>16, <2>1, HistoryPart
<1>18. needed \in Int  BY <1>6, <1>17
<1>19. /\ additional \subseteq rest /\ History(additional) /\ Cardinality(additional) \in Nat
       /\ \A c \in additional, d \in rest \ additional : d.start < c.start
       /\ Cardinality(additional) <= (IF needed > 0 THEN needed ELSE 0)
       /\ needed > 0 => additional = rest \/ Cardinality(additional) = needed
  <2>1. CASE needed > 0
    <3>1. additional = Latest(needed, rest)  BY <1>7, <2>1
    <3>2. /\ additional \subseteq rest /\ History(additional) /\ Cardinality(additional) \in Nat
          /\ \A c \in additional, d \in rest \ additional : d.start < c.start
          /\ needed >= Cardinality(rest) => additional = rest
          /\ needed <= Cardinality(rest) => Cardinality(additional) = needed
      <4>1. 0 <= needed /\ History(rest)  BY <1>17, <1>18, <2>1
      <4> QED  BY <1>18, <3>1, <4>1, LatestFacts
    <3> QED  BY <1>17, <1>18, <2>1, <3>2
  <2>2. CASE ~(needed > 0)
    <3>1. additional = {}  BY <1>7, <2>2
    <3> QED  BY <1>18, <2>2, <3>1, NoHistory
  <2> QED  BY <2>1, <2>2
<1>20. Cardinality(recent \cup additional) = Cardinality(recent) + Cardinality(additional)
  <2>1. recent \cap additional = {}  BY <1>16, <1>19
  <2> QED  BY <1>14, <1>19, <2>1, SizeFacts
<1>21. k \in Int /\ k = Cardinality(recent) + Cardinality(additional) - X  BY <1>8, <1>14, <1>19, <1>20
<1>22. Cardinality(recent \ have) = Cardinality(recent) - Cardinality(have)
  BY <1>14, <1>16, SizeWithout
<1>23. additional # {} => Cardinality(recent) = X
  <2>1. ASSUME additional # {}  PROVE recent # M  BY <1>16, <1>17, <1>19, <2>1
  <2> QED  BY <1>14, <2>1
<1>24. k <= Cardinality(recent \ have)
  <2>1. CASE additional = {}
    <3>1. Cardinality(additional) = 0  BY <2>1, FS_EmptySet
    <3> QED  BY <1>14, <1>15, <1>17, <1>21, <1>22, <3>1
  <2>2. CASE additional # {}
    <3>1. needed > 0  BY <1>7, <2>2
    <3>2. Cardinality(additional) <= needed  BY <1>19, <3>1
    <3> QED  BY <1>6, <1>14, <1>17, <1>18, <1>19, <1>21, <1>22, <1>23, <2>2, <3>2
  <2> QED  BY <2>1, <2>2
<1>25. foreign \subseteq recent \ have /\ Cardinality(foreign) \in Nat /\ Cardinality(foreign) >= k
  <2>1. foreign \subseteq recent \ have  BY <1>9, <1>17, <1>21, OldestFacts
  <2>2. Cardinality(foreign) \in Nat  BY <1>17, <2>1, HistoryPart
  <2>3. k >= 0 => Cardinality(foreign) = k  BY <1>9, <1>17, <1>21, <1>24, OldestFacts
  <2> QED  BY <1>21, <2>1, <2>2, <2>3
<1>26. Cardinality(selected) \in Nat /\ Cardinality(selected) <= X /\ selected \subseteq M
  <2>1. recent \cup additional \subseteq M  BY <1>14, <1>17, <1>19
  <2>2. History(recent \cup additional)  BY <1>14, <2>1, HistoryPart
  <2>3. foreign \subseteq recent \cup additional  BY <1>25
  <2>4. Cardinality(selected) = Cardinality(recent \cup additional) - Cardinality(foreign)
    BY <1>10, <2>2, <2>3, SizeWithout
  <2>5. selected \subseteq M  BY <1>10, <2>1
  <2>6. Cardinality(selected) \in Nat  BY <1>14, <2>5, HistoryPart
  <2> QED  BY <1>14, <1>19, <1>20, <1>21, <1>25, <2>4, <2>5, <2>6
<1>27. over \in Int /\ over <= 0  BY <1>11, <1>26
<1>28. drained = {} /\ Cardinality(drained) = 0
  <2>1. drained = {}  BY <1>12, <1>17, <1>27, OldestFacts
  <2> QED  BY <2>1, FS_EmptySet
<1>29. select_commands(S, X, s, m) = selected
  <2>1. over - Cardinality(drained) \in Int /\ over - Cardinality(drained) <= 0  BY <1>27, <1>28
  <2>2. Latest(over - Cardinality(drained), additional) = {}  BY <1>19, <2>1, LatestFacts
  <2> QED  BY <1>13, <1>28, <2>2
<1>30. have \cup additional \subseteq selected  BY <1>10, <1>16, <1>19, <1>25
<1>31. Latest(m, own) \subseteq have \cup additional
  <2>1. PICK A : A = have \cup additional  OBVIOUS
  <2>2. A \subseteq own /\ \A c \in A, d \in own \ A : d.start < c.start
    <3>1. A \subseteq own  BY <1>16, <1>19, <2>1
    <3>2. ASSUME NEW c \in A, NEW d \in own \ A  PROVE d.start < c.start
      <4>1. d \in rest \ additional /\ d \in M \ recent  BY <1>16, <1>17, <2>1
      <4>2. CASE c \in have  BY <1>14, <1>16, <4>1, <4>2
      <4>3. CASE c \in additional  BY <1>19, <4>1, <4>3
      <4> QED  BY <2>1, <4>2, <4>3
    <3> QED  BY <3>1, <3>2
  <2>3. Latest(Cardinality(A), own) = A  BY <1>17, <2>2, TopIsLatest
  <2>4. Cardinality(A) = Cardinality(have) + Cardinality(additional)
    <3>1. have \cap additional = {}  BY <1>16, <1>19
    <3> QED  BY <1>17, <1>19, <2>1, <3>1, SizeFacts
  <2>5. CASE A = own
    <3>1. Latest(m, own) \subseteq own  BY DEF Latest
    <3> QED  BY <2>1, <2>5, <3>1
  <2>6. CASE Cardinality(A) >= m
    <3>1. Latest(m, own) \subseteq Latest(Cardinality(A), own)
      <4>1. \A c \in own : Cardinality(After(own, c)) \in Int  BY <1>17, AfterFacts
      <4>2. Cardinality(A) \in Int  BY <1>17, <1>19, <2>4
      <4>3. PICK a : a = Cardinality(A)  OBVIOUS
      <4>4. \A c \in own : Cardinality(After(own, c)) < m => Cardinality(After(own, c)) < a
        BY <2>6, <4>1, <4>2, <4>3
      <4> QED  BY <4>3, <4>4 DEF Latest, After
    <3> QED  BY <2>1, <2>3, <3>1
  <2>7. A = own \/ Cardinality(A) >= m
    <3>1. CASE needed > 0
      <4>1. CASE additional = rest  BY <1>16, <2>1, <4>1
      <4>2. CASE Cardinality(additional) = needed  BY <1>6, <1>17, <2>4, <4>2
      <4> QED  BY <1>19, <3>1, <4>1, <4>2
    <3>2. CASE ~(needed > 0)  BY <1>6, <1>17, <1>18, <1>19, <2>4, <3>2
    <3> QED  BY <3>1, <3>2
  <2> QED  BY <2>5, <2>6, <2>7
<1> QED  BY <1>1, <1>4, <1>26, <1>29, <1>30, <1>31

(* The chat context of a session.                                          *)
LEMMA ChatShows ==
    ASSUME CtxInv, MinCurrent <= DetailedCommands
    PROVE  OwnCommandsShown
<1>1. PICK X, m : X = DetailedCommands /\ m = MinCurrent  OBVIOUS
<1>2. X \in Nat /\ m \in Nat /\ m <= X  BY <1>1, ContextConstants
<1>3. History(Meaningful(records))
  <2>1. Meaningful(records) \subseteq records  BY DEF Meaningful
  <2> QED  BY <2>1, HistoryPart DEF CtxInv, Started
<1>4. SUFFICES ASSUME NEW s \in CtxSessions
               PROVE  LET ctx == resolve_chat_context("all", s, NoLimit)
                      IN  /\ Latest(m, Own(s, Meaningful(records))) \subseteq ctx.detailed
                          /\ Cardinality(ctx.detailed) <= Max({X, m})
  BY <1>1 DEF OwnCommandsShown
<1>5. PICK sel : sel = select_commands(records, X, s, m)  OBVIOUS
<1>6. Latest(m, Own(s, Meaningful(records))) \subseteq sel /\ sel \subseteq Meaningful(records) /\ Cardinality(sel) <= X
  BY <1>2, <1>3, <1>5, SelectFacts
<1>7. History(sel) /\ Latest(X, sel) = sel
  <2>1. History(sel)  BY <1>3, <1>6, HistoryPart
  <2>2. X \in Int /\ X >= Cardinality(sel)  BY <1>2, <1>3, <1>6, HistoryPart
  <2> QED  BY <2>1, <2>2, LatestFacts
<1>8. resolve_chat_context("all", s, NoLimit) = build_context_with_limit(records, s, X, 0, NoLimit)
  BY <1>1 DEF resolve_chat_context, get_all_sessions_chat_context
<1>9. build_context_with_limit(records, s, X, 0, NoLimit) = build_command_contexts_with_session(records, X + 0, s, m, X)
  BY <1>1, <1>2, AttemptsAtOnce
<1>10. resolve_chat_context("all", s, NoLimit) = split_with_current_session_minimum(sel, X, s, m)
  BY <1>2, <1>5, <1>8, <1>9 DEF build_command_contexts_with_session, select_and_split
<1>11. split_with_current_session_minimum(sel, X, s, m).detailed = sel
  <2>1. PICK n : n = m - Cardinality(Own(s, sel))  OBVIOUS
  <2>2. Own(s, sel \ sel) = {}  BY DEF Own
  <2>3. Latest(n, {}) = {}  BY DEF Latest
  <2> QED  BY <1>7, <2>1, <2>2, <2>3 DEF split_with_current_session_minimum
<1>12. Max({X, m}) = X
  <2>1. PICK T : T = {X, m}  OBVIOUS
  <2>2. X \in T /\ (\A y \in T : X >= y) /\ \A x \in T : (\A y \in T : x >= y) => x = X  BY <1>2, <2>1
  <2> QED  BY <2>1, <2>2 DEF Max
<1> QED  BY <1>6, <1>10, <1>11, <1>12

(* The number of an entry of the list is the place of its command.         *)
LEMMA NumbersAnswer == HistoryNumbersAnswer
<1>1. SUFFICES ASSUME NEW count \in 0 .. 2, NEW matching \in SUBSET CtxLines,
                      NEW entry \in list_history(count, matching)
               PROVE  \E c \in get_output(entry.seq, entry.line) : c.line = entry.line
  BY DEF HistoryNumbersAnswer
<1>2. PICK all : all = get_all_commands_with_reader  OBVIOUS
<1>3. PICK i \in DOMAIN all : entry = [seq |-> i, line |-> all[i].line]  BY <1>1, <1>2 DEF list_history
<1>4. get_output(i, all[i].line) = {all[i]}  BY <1>2, <1>3 DEF get_output
<1> QED  BY <1>3, <1>4

(* A chat context that is not reduced shows the last MinCurrent commands   *)
(* of the session with their output and no more than DetailedCommands      *)
(* commands, for every number of sessions and commands, and every number   *)
(* that list_history prints is answered by get_output.  With a minimum     *)
(* above DetailedCommands it is false: see TruncatesOldest (recent.rs      *)
(* select_commands, lib.rs split_with_current_session_minimum,             *)
(* session_mgr.rs list_history).                                           *)
THEOREM HistoryIsServed == ASSUME MinCurrent <= DetailedCommands PROVE CtxSpec => []HistoryServed
<1>1. CtxInv => HistoryServed  BY ChatShows, NumbersAnswer DEF HistoryServed
<1> QED  BY <1>1, CtxInvHolds, PTL

-----------------------------------------------------------------------------
(* Tools *)

(* A set of numbers that is not empty has a least one.                     *)
LEMMA Least == ASSUME NEW T \in SUBSET Nat, T # {} PROVE \E m \in T : \A k \in T : m <= k
<1>0. \E R : R = OpToRel(<, Nat) /\ IsWellFoundedOn(R, Nat)
  BY NatLessThanWellFounded, Zenon
<1>1. PICK R : R = OpToRel(<, Nat) /\ IsWellFoundedOn(R, Nat)  BY <1>0, Zenon
<1>2. IsWellFoundedOn(R, Nat)  BY <1>1, Zenon
<1>3. \A x, y \in Nat : x < y => <<x, y>> \in R
  <2>1. R = {ss \in Nat \X Nat : ss[1] < ss[2]}  BY <1>1, Zenon DEF OpToRel
  <2> QED  BY ONLY <2>1
<1>4. \E m \in T : \A y \in T : ~ (<<y, m>> \in R)  BY <1>2, WFMin
<1>5. PICK m \in T : \A y \in T : ~ (<<y, m>> \in R)  BY <1>4
<1>6. \A k \in T : m <= k
  <2> SUFFICES ASSUME NEW k \in T  PROVE m <= k  OBVIOUS
  <2>1. m \in Nat /\ k \in Nat  OBVIOUS
  <2>2. ~(k < m)
    <3>1. ~(<<k, m>> \in R)  BY <1>5
    <3> QED  BY <1>3, <2>1, <3>1
  <2> QED  BY ONLY <2>1, <2>2
<1> QED  BY <1>6

(* Induction up to a bound, for a set that stands for what is to be shown. *)
LEMMA SetInduction ==
    ASSUME NEW N \in Nat, NEW T, 0 \in T, \A n \in 0 .. N - 1 : n \in T => n + 1 \in T
    PROVE  \A n \in 0 .. N : n \in T
<1> SUFFICES ASSUME \E n \in 0 .. N : n \notin T  PROVE FALSE  OBVIOUS
<1>1. PICK B : B = {n \in 0 .. N : n \notin T}  OBVIOUS
<1>2. PICK m \in B : \A k \in B : m <= k  BY <1>1, Least
<1>3. m \in 0 .. N /\ m \notin T /\ m # 0  BY <1>1, <1>2
<1>4. m - 1 \in 0 .. N - 1 /\ m - 1 \notin B  BY <1>1, <1>2, <1>3
<1>5. m - 1 \in T /\ (m - 1) + 1 = m  BY <1>1, <1>3, <1>4
<1> QED  BY <1>3, <1>4, <1>5

(* The assumptions on the constants.                                       *)
LEMMA ToolConstants ==
    /\ PipeSize \in Nat \ {0} /\ MaxOutput \in Nat \ {0} /\ SnippetContext \in Nat
    /\ Matches \in Seq(Nat) /\ ToolCalls \cap Unanswered = {}
    /\ \A t \in Turns : t.text \in Seq(STRING) /\ \A c \in ToolCalls : IsRequest(t.req[c])
BY ToolShape DEF ToolShape

-----------------------------------------------------------------------------
(* Lines of files that grep found *)

(* Some function satisfies the recursion of LinesIn.                       *)
LEMMA LinesInExists ==
    ASSUME NEW N \in Nat, NEW M
    PROVE  \E f : f = [i \in 0 .. N |-> IF i = 0 THEN 0 ELSE f[i - 1] + M[i]]
<1>0. PICK T : T = {n \in 0 .. N : \E f : f = [i \in 0 .. n |-> IF i = 0 THEN 0 ELSE f[i - 1] + M[i]]}
  OBVIOUS
<1>1. 0 \in T
  <2>0. PICK f : f = [i \in 0 .. 0 |-> 0]  OBVIOUS
  <2>1. f = [i \in 0 .. 0 |-> IF i = 0 THEN 0 ELSE f[i - 1] + M[i]]
    BY <2>0
  <2> QED  BY <1>0, <2>1
<1>2. ASSUME NEW n \in 0 .. N - 1, n \in T  PROVE n + 1 \in T
  <2>1. PICK f : f = [i \in 0 .. n |-> IF i = 0 THEN 0 ELSE f[i - 1] + M[i]]
    BY <1>0, <1>2
  <2>2. PICK g : g = [i \in 0 .. n + 1 |-> IF i = n + 1 THEN f[n] + M[n + 1] ELSE f[i]]
    OBVIOUS
  <2>3. \A i \in 0 .. n + 1 : g[i] = IF i = 0 THEN 0 ELSE g[i - 1] + M[i]
    <3> SUFFICES ASSUME NEW i \in 0 .. n + 1
                 PROVE g[i] = IF i = 0 THEN 0 ELSE g[i - 1] + M[i]
      OBVIOUS
    <3>1. CASE i = n + 1
      <4>1. g[i - 1] = f[n]  BY <2>2, <3>1
      <4> QED  BY <2>2, <3>1, <4>1
    <3>2. CASE i = 0  BY <2>1, <2>2, <3>2
    <3>3. CASE i \in 1 .. n
      <4>1. g[i - 1] = f[i - 1] /\ g[i] = f[i]  BY <2>2, <3>3
      <4> QED  BY <2>1, <3>3, <4>1
    <3> QED  BY <3>1, <3>2, <3>3
  <2>4. g = [i \in 0 .. n + 1 |-> IF i = 0 THEN 0 ELSE g[i - 1] + M[i]]
    BY <2>2, <2>3
  <2> QED  BY <1>0, <2>4
<1>3. \A n \in 0 .. N : n \in T
  <2>1. \A n \in 0 .. N - 1 : n \in T => n + 1 \in T  BY <1>2
  <2> QED  BY ONLY N \in Nat, <1>1, <2>1, SetInduction
<1>4. N \in T  BY ONLY N \in Nat, <1>3
<1> QED  BY <1>0, <1>4

(* The number of lines of the first files is a natural number.             *)
LEMMA LinesInNat == ASSUME NEW k \in 0 .. Len(Matches) PROVE LinesIn(k) \in Nat
<1>1. PICK N : N = Len(Matches) /\ N \in Nat /\ DOMAIN Matches = 1 .. N  BY ToolConstants
<1>2. PICK F : F = CHOOSE f : f = [i \in 0 .. N |-> IF i = 0 THEN 0 ELSE f[i - 1] + Matches[i]]  OBVIOUS
<1>3. F = [i \in 0 .. N |-> IF i = 0 THEN 0 ELSE F[i - 1] + Matches[i]]
  BY <1>1, <1>2, LinesInExists
<1>4. \A i \in 0 .. N : F[i] = IF i = 0 THEN 0 ELSE F[i - 1] + Matches[i]  BY <1>3
<1>5. PICK T : T = {n \in 0 .. N : F[n] \in Nat}  OBVIOUS
<1>6. 0 \in T  BY <1>1, <1>4, <1>5
<1>7. ASSUME NEW n \in 0 .. N - 1, n \in T  PROVE n + 1 \in T
  <2>1. n + 1 \in 0 .. N /\ n + 1 # 0 /\ (n + 1) - 1 = n /\ n + 1 \in 1 .. N  BY <1>1
  <2>2. Matches[n + 1] \in Nat  BY <1>1, <2>1, ToolConstants
  <2>3. F[n + 1] = F[n] + Matches[n + 1]  BY <1>4, <2>1
  <2> QED  BY <1>5, <1>7, <2>1, <2>2, <2>3
<1>8. \A n \in 0 .. N : n \in T
  <2>1. \A n \in 0 .. N - 1 : n \in T => n + 1 \in T  BY <1>7
  <2> QED  BY ONLY <1>1, <1>6, <2>1, SetInduction
<1>9. LinesIn(k) = F[k]  BY <1>1, <1>2 DEF LinesIn
<1> QED  BY <1>1, <1>5, <1>8, <1>9

-----------------------------------------------------------------------------
(* Marks of what was cut *)

(* A result that holds less than there was says so.                        *)
Marks(res) == res.shown < res.of => res.mark

(* A result without content leaves nothing out.                            *)
LEMMA PlainMarks == Marks(NoResult) /\ \A s : Marks(Result(s)) /\ Result(s).status = s
BY DEF Marks, Result, NoResult

(* The read tool marks what it cut, for every offset and limit.            *)
LEMMA ReadMarks ==
    ASSUME NEW n \in Nat, NEW offset \in Nat, NEW limit \in Nat
    PROVE  Marks(read_lines(n, offset, limit))
<1>1. PICK start : start = Smaller(Larger(offset, 1) - 1, n)  OBVIOUS
<1>2. start \in 0 .. n  BY <1>1 DEF Smaller, Larger
<1>3. PICK end : end = Smaller(start + (IF limit = 0 THEN n - start ELSE limit), n)  OBVIOUS
<1>4. end \in start .. n  BY <1>2, <1>3 DEF Smaller
<1>5. PICK shown : shown = Smaller(end - start, MaxOutput)  OBVIOUS
<1>6. shown \in Nat /\ shown <= end - start  BY <1>2, <1>4, <1>5, ToolConstants DEF Smaller
<1>7. read_lines(n, offset, limit) = [status |-> "ok", shown |-> shown, of |-> n - start,
                                      mark |-> shown < end - start \/ end < n]
  BY <1>1, <1>3, <1>5 DEF read_lines
<1>8. shown < n - start => (shown < end - start \/ end < n)  BY <1>2, <1>4, <1>6
<1>9. PICK r, o : r = read_lines(n, offset, limit) /\ o = n - start  OBVIOUS
<1>10. r.shown = shown /\ r.of = o /\ r.mark = (shown < end - start \/ end < n)  BY <1>7, <1>9
<1>11. Marks(r)  BY <1>8, <1>9, <1>10, Zenon DEF Marks
<1> QED  BY <1>9, <1>11

(* The grep tool does, also for the files it did not reach.                *)
LEMMA GrepMarks ==
    ASSUME NEW k \in 0 .. Len(Matches), NEW offset \in Nat, NEW limit \in Nat
    PROVE  Marks(grep_results(k, offset, limit))
<1>1. PICK N : N = Len(Matches) /\ N \in Nat  BY ToolConstants
<1>2. PICK lines, all : lines = LinesIn(k) /\ all = LinesIn(N)  OBVIOUS
<1>3. lines \in Nat /\ all \in Nat  BY <1>1, <1>2, LinesInNat
<1>4. PICK start : start = Smaller(offset, lines)  OBVIOUS
<1>5. start \in 0 .. lines /\ start <= offset  BY <1>3, <1>4 DEF Smaller
<1>6. PICK end : end = IF limit > 0 THEN Smaller(start + limit, lines) ELSE lines  OBVIOUS
<1>7. end \in start .. lines  BY <1>3, <1>5, <1>6 DEF Smaller
<1>8. PICK of : of = Larger(all - offset, 0)  OBVIOUS
<1>9. grep_results(k, offset, limit) = [status |-> "ok", shown |-> end - start, of |-> of,
                                        mark |-> end < lines \/ k < N]
  BY <1>1, <1>2, <1>4, <1>6, <1>8 DEF grep_results
<1>10. ASSUME ~(end < lines \/ k < N)  PROVE ~(end - start < of)
  <2>1. k = N /\ lines = all /\ end = all  BY <1>1, <1>2, <1>3, <1>5, <1>7, <1>10
  <2>2. of <= all - start  BY <1>3, <1>4, <1>5, <1>8, <2>1 DEF Larger, Smaller
  <2>3. of \in Int  BY <1>3, <1>8 DEF Larger
  <2> QED  BY <1>3, <1>5, <2>1, <2>2, <2>3
<1>11. PICK r, d : r = grep_results(k, offset, limit) /\ d = end - start  OBVIOUS
<1>12. r.shown = d /\ r.of = of /\ r.mark = (end < lines \/ k < N)  BY <1>9, <1>11
<1>13. Marks(r)  BY <1>10, <1>11, <1>12, Zenon DEF Marks
<1> QED  BY <1>11, <1>13

(* The glob tool and the bash tool do.                                     *)
LEMMA OtherMarks ==
    ASSUME NEW n \in Nat PROVE Marks(glob_paths(n)) /\ Marks(truncate_output(n))
<1>1. PICK m : m = Smaller(n, MaxOutput)  OBVIOUS
<1>2. m < n => n > MaxOutput  BY <1>1, ToolConstants DEF Smaller
<1>3. PICK g, t : g = glob_paths(n) /\ t = truncate_output(n)  OBVIOUS
<1>4. g.shown = m /\ g.of = n /\ g.mark = (m < n)  BY <1>1, <1>3 DEF glob_paths
<1>5. t.shown = m /\ t.of = n /\ t.mark = (n > MaxOutput)  BY <1>1, <1>3 DEF truncate_output
<1>6. Marks(g)  BY <1>4, Zenon DEF Marks
<1>7. Marks(t)  BY <1>2, <1>5, Zenon DEF Marks
<1> QED  BY <1>3, <1>6, <1>7

-----------------------------------------------------------------------------
(* Sequences *)

(* A slice of a sequence: its length and its elements.                     *)
LEMMA SliceFacts ==
    ASSUME NEW S, NEW s \in Seq(S), NEW a \in 0 .. Len(s), NEW b \in a .. Len(s)
    PROVE  /\ Slice(s, a, b) \in Seq(S) /\ Len(Slice(s, a, b)) = b - a
           /\ \A i \in 1 .. b - a : Slice(s, a, b)[i] = s[a + i]
<1>1. PICK n : n = Len(s) /\ n \in Nat  OBVIOUS
<1>2. a \in Nat /\ b \in Nat /\ a <= b /\ b <= n  BY <1>1
<1>3. PICK t : t = SubSeq(s, a + 1, b)  OBVIOUS
<1>4. t = [i \in 1 .. b - a |-> s[a + i]]
  <2>1. t = [i \in 1 .. b - (a + 1) + 1 |-> s[i + (a + 1) - 1]]  BY <1>2, <1>3
  <2>2. b - (a + 1) + 1 = b - a /\ \A i \in 1 .. b - a : i + (a + 1) - 1 = a + i  BY <1>2
  <2> QED  BY <2>1, <2>2
<1>5. \A i \in 1 .. b - a : s[a + i] \in S
  <2>1. \A i \in 1 .. b - a : a + i \in 1 .. n  BY ONLY <1>1, <1>2
  <2> QED  BY <1>1, <2>1
<1>6. b - a \in Nat  BY <1>2
<1>7. t \in Seq(S) /\ Len(t) = b - a
  <2>1. t \in [1 .. b - a -> S]  BY <1>4, <1>5
  <2> QED  BY <1>6, <2>1, SeqDef, LenProperties
<1> QED  BY <1>3, <1>4, <1>7 DEF Slice

(* Two sequences, one behind the other.                                    *)
LEMMA ConcatFacts ==
    ASSUME NEW S, NEW s \in Seq(S), NEW t \in Seq(S), NEW u, u = s \o t
    PROVE  /\ u \in Seq(S) /\ Len(u) = Len(s) + Len(t)
           /\ \A i \in 1 .. Len(s) : u[i] = s[i]
           /\ \A i \in 1 .. Len(t) : u[Len(s) + i] = t[i]
<1>2. /\ u \in Seq(S) /\ Len(u) = Len(s) + Len(t)
      /\ \A i \in 1 .. Len(s) + Len(t) : u[i] = IF i <= Len(s) THEN s[i] ELSE t[i - Len(s)]
  BY ConcatProperties
<1>3. PICK m, n : m = Len(s) /\ n = Len(t) /\ m \in Nat /\ n \in Nat  BY LenProperties
<1>4. \A i \in 1 .. m : i \in 1 .. m + n /\ i <= m  BY <1>3
<1>5. \A i \in 1 .. n : m + i \in 1 .. m + n /\ ~(m + i <= m) /\ (m + i) - m = i  BY <1>3
<1> QED  BY <1>2, <1>3, <1>4, <1>5

(* Two sequences of the same length with the same elements.                *)
LEMMA SameSeq ==
    ASSUME NEW S, NEW s \in Seq(S), NEW t \in Seq(S), Len(s) = Len(t), \A i \in 1 .. Len(s) : s[i] = t[i]
    PROVE  s = t
<1>1. s = [i \in 1 .. Len(s) |-> s[i]] /\ t = [i \in 1 .. Len(t) |-> t[i]]  OBVIOUS
<1> QED  BY <1>1

\* What lines s are, as u, once new stands in the place of old at i.
PutSays(u, s, S, i, old, new) ==
    /\ u \in Seq(S) /\ Len(u) >= i + Len(new)
    /\ (\A j \in 1 .. i : u[j] = s[j]) /\ (\A j \in 1 .. Len(new) : u[i + j] = new[j])
    /\ i + Len(old) <= Len(s) =>
          /\ Len(u) = Len(s) - Len(old) + Len(new)
          /\ \A j \in 1 .. Len(s) - (i + Len(old)) : u[i + Len(new) + j] = s[i + Len(old) + j]

(* Lines put in the place of others.                                       *)
LEMMA PutFacts ==
    ASSUME NEW S, NEW s \in Seq(S), NEW i \in 0 .. Len(s), NEW d \in Nat, NEW old, Len(old) = d,
           NEW new \in Seq(S), NEW u, u = PutLines(s, i, old, new)
    PROVE  PutSays(u, s, S, i, old, new)
<1> SUFFICES /\ PutLines(s, i, old, new) \in Seq(S)
             /\ Len(PutLines(s, i, old, new)) >= i + Len(new)
             /\ \A j \in 1 .. i : PutLines(s, i, old, new)[j] = s[j]
             /\ \A j \in 1 .. Len(new) : PutLines(s, i, old, new)[i + j] = new[j]
             /\ i + d <= Len(s) =>
                   /\ Len(PutLines(s, i, old, new)) = Len(s) - d + Len(new)
                   /\ \A j \in 1 .. Len(s) - (i + d) : PutLines(s, i, old, new)[i + Len(new) + j] = s[i + d + j]
  BY DEF PutSays
<1>1. PICK n, k : n = Len(s) /\ n \in Nat /\ k = Len(new) /\ k \in Nat  BY LenProperties
<1>2. PICK a : a = Slice(s, 0, i)  OBVIOUS
<1>3. a \in Seq(S) /\ Len(a) = i /\ \A j \in 1 .. i : a[j] = s[j]
  <2>1. 0 \in 0 .. n /\ i \in 0 .. n /\ i - 0 = i  BY <1>1
  <2>2. a \in Seq(S) /\ Len(a) = i - 0 /\ \A j \in 1 .. i - 0 : a[j] = s[0 + j]  BY <1>1, <1>2, <2>1, SliceFacts
  <2> QED  BY <2>1, <2>2
<1>4. PICK z : z = Slice(s, i + d, n)  OBVIOUS
<1>5. /\ z \in Seq(S)
      /\ i + d <= n => Len(z) = n - (i + d) /\ \A j \in 1 .. n - (i + d) : z[j] = s[i + d + j]
  <2>1. CASE i + d <= n
    <3>1. i + d \in 0 .. n /\ n \in i + d .. n  BY <1>1, <2>1
    <3> QED  BY <1>1, <1>4, <3>1, SliceFacts
  <2>2. CASE ~(i + d <= n)
    <3>1. i + d + 1 > n  BY <1>1, <2>2
    <3>2. SubSeq(s, i + d + 1, n) = <<>>  BY <1>1, <3>1
    <3>3. <<>> \in Seq(S)  OBVIOUS
    <3>4. z = <<>>  BY <1>4, <3>2 DEF Slice
    <3> QED  BY <2>2, <3>3, <3>4
  <2> QED  BY <2>1, <2>2
<1>6. PICK b : b = a \o new  OBVIOUS
<1>7. /\ b \in Seq(S) /\ Len(b) = i + k /\ (\A j \in 1 .. i : b[j] = a[j])
      /\ \A j \in 1 .. k : b[i + j] = new[j]
  <2>1. /\ b \in Seq(S) /\ Len(b) = Len(a) + Len(new) /\ (\A j \in 1 .. Len(a) : b[j] = a[j])
        /\ \A j \in 1 .. Len(new) : b[Len(a) + j] = new[j]
    <3>1. a \in Seq(S)  BY <1>3
    <3> QED  BY ONLY <1>6, <3>1, new \in Seq(S), ConcatFacts
  <2> QED  BY <1>1, <1>3, <2>1
<1>8. PICK p : p = b \o z  OBVIOUS
<1>9. /\ p \in Seq(S) /\ Len(p) = (i + k) + Len(z) /\ (\A j \in 1 .. i + k : p[j] = b[j])
      /\ \A j \in 1 .. Len(z) : p[(i + k) + j] = z[j]
  <2>1. /\ p \in Seq(S) /\ Len(p) = Len(b) + Len(z) /\ (\A j \in 1 .. Len(b) : p[j] = b[j])
        /\ \A j \in 1 .. Len(z) : p[Len(b) + j] = z[j]
    <3>1. z \in Seq(S) /\ b \in Seq(S)  BY <1>5, <1>7
    <3> QED  BY ONLY <1>8, <3>1, ConcatFacts
  <2> QED  BY <1>7, <2>1
<1>10. p = PutLines(s, i, old, new)  BY <1>1, <1>2, <1>4, <1>6, <1>8 DEF PutLines
<1>11. Len(z) \in Nat  BY <1>5
<1>12. Len(p) >= i + k  BY <1>1, <1>9, <1>11
<1>13. \A j \in 1 .. i : p[j] = s[j]
  <2>1. \A j \in 1 .. i : j \in 1 .. i + k  BY <1>1
  <2> QED  BY <1>3, <1>7, <1>9, <2>1
<1>14. \A j \in 1 .. k : p[i + j] = new[j]
  <2>1. \A j \in 1 .. k : i + j \in 1 .. i + k  BY <1>1
  <2> QED  BY <1>7, <1>9, <2>1
<1>15. i + d <= n => Len(p) = n - d + k
  <2>1. PICK l, i0 : l = Len(z) /\ i0 = i /\ i0 \in Nat
    <3>1. i \in 0 .. n  BY <1>1
    <3>2. i \in Nat  BY <3>1
    <3> QED  BY <3>2
  <2>2. i0 + d <= n => (i0 + k) + (n - (i0 + d)) = n - d + k  BY ONLY <1>1, <2>1, d \in Nat
  <2> QED  BY <1>5, <1>9, <2>1, <2>2
<1>16. i + d <= n => \A j \in 1 .. n - (i + d) : p[i + k + j] = s[i + d + j]  BY <1>5, <1>9
<1> QED  BY <1>1, <1>9, <1>10, <1>12, <1>13, <1>14, <1>15, <1>16

-----------------------------------------------------------------------------
(* The replacement *)

(* f satisfies the recursion of replace.                                   *)
Replacing(f, s, at, old, new, N) ==
    f = [k \in 0 .. N |-> IF k = 0 THEN s
                          ELSE IF N - k \in at THEN PutLines(f[k - 1], N - k, old, new)
                          ELSE f[k - 1]]

(* Some function does.                                                     *)
LEMMA ReplaceExists ==
    ASSUME NEW s, NEW at, NEW old, NEW new, NEW N \in Nat
    PROVE  \E f : Replacing(f, s, at, old, new, N)
<1>0. PICK T : T = {n \in 0 .. N : \E f : f = [k \in 0 .. n |-> IF k = 0 THEN s
                                        ELSE IF N - k \in at THEN PutLines(f[k - 1], N - k, old, new)
                                        ELSE f[k - 1]]}
  OBVIOUS
<1>1. 0 \in T
  <2>0. PICK f : f = [k \in 0 .. 0 |-> s]  OBVIOUS
  <2>1. f = [k \in 0 .. 0 |-> IF k = 0 THEN s
                              ELSE IF N - k \in at THEN PutLines(f[k - 1], N - k, old, new)
                              ELSE f[k - 1]]
    BY <2>0
  <2> QED  BY <1>0, <2>1
<1>2. ASSUME NEW n \in 0 .. N - 1, n \in T  PROVE n + 1 \in T
  <2>1. PICK f : f = [k \in 0 .. n |-> IF k = 0 THEN s
                              ELSE IF N - k \in at THEN PutLines(f[k - 1], N - k, old, new)
                              ELSE f[k - 1]]
    BY <1>0, <1>2
  <2>2. PICK x : x = IF N - (n + 1) \in at THEN PutLines(f[n], N - (n + 1), old, new) ELSE f[n]  OBVIOUS
  <2>3. PICK g : g = [k \in 0 .. n + 1 |-> IF k = n + 1 THEN x ELSE f[k]]  OBVIOUS
  <2>4. \A k \in 0 .. n + 1 : g[k] = IF k = 0 THEN s
                              ELSE IF N - k \in at THEN PutLines(g[k - 1], N - k, old, new)
                              ELSE g[k - 1]
    <3> SUFFICES ASSUME NEW k \in 0 .. n + 1
                 PROVE g[k] = IF k = 0 THEN s
                              ELSE IF N - k \in at THEN PutLines(g[k - 1], N - k, old, new)
                              ELSE g[k - 1]
      OBVIOUS
    <3>1. CASE k = n + 1
      <4>1. g[k - 1] = f[n] /\ g[k] = x /\ k # 0  BY <2>3, <3>1
      <4> QED  BY <2>2, <3>1, <4>1
    <3>2. CASE k = 0  BY <2>1, <2>3, <3>2
    <3>3. CASE k \in 1 .. n
      <4>1. g[k - 1] = f[k - 1] /\ g[k] = f[k] /\ k # 0 /\ k \in 0 .. n  BY <2>3, <3>3
      <4> QED  BY <2>1, <4>1
    <3> QED  BY <3>1, <3>2, <3>3
  <2>5. g = [k \in 0 .. n + 1 |-> IF k = 0 THEN s
                              ELSE IF N - k \in at THEN PutLines(g[k - 1], N - k, old, new)
                              ELSE g[k - 1]]
    BY <2>3, <2>4
  <2> QED  BY <1>0, <2>5
<1>3. \A n \in 0 .. N : n \in T
  <2>1. \A n \in 0 .. N - 1 : n \in T => n + 1 \in T  BY <1>2
  <2> QED  BY ONLY N \in Nat, <1>1, <2>1, SetInduction
<1>4. N \in T  BY ONLY N \in Nat, <1>3
<1>5. \E f : f = [k \in 0 .. N |-> IF k = 0 THEN s
                                    ELSE IF N - k \in at THEN PutLines(f[k - 1], N - k, old, new)
                                    ELSE f[k - 1]]
  BY <1>0, <1>4
<1> QED  BY <1>5, Zenon DEF Replacing

\* What lines s are, as x, once new stands at every place of at, the first of which is m.
ReplaceSays(x, s, at, old, new, m) ==
    /\ x \in Seq(STRING) /\ Len(x) >= m + Len(new)
    /\ \A j \in 1 .. Len(new) : x[m + j] = new[j]
    /\ at = {m} => x = PutLines(s, m, old, new)

(* What is replaced is a text; behind the last replacement, which is at    *)
(* the first match, the new lines stand; one match replaces there alone.   *)
LEMMA ReplaceFacts ==
    ASSUME NEW s \in Seq(STRING), NEW N, N = Len(s), NEW at \in SUBSET (0 .. N - 1),
           NEW old, NEW d \in Nat, Len(old) = d, NEW new \in Seq(STRING),
           NEW m \in at, \A j \in at : m <= j, NEW x, x = replace(s, at, old, new)
    PROVE  ReplaceSays(x, s, at, old, new, m)
<1> SUFFICES /\ x \in Seq(STRING) /\ Len(x) >= m + Len(new)
             /\ \A j \in 1 .. Len(new) : x[m + j] = new[j]
             /\ at = {m} => x = PutLines(s, m, old, new)
  BY DEF ReplaceSays
<1>1. N \in Nat  BY LenProperties
<1>2. PICK F : F = CHOOSE f : Replacing(f, s, at, old, new, N)  OBVIOUS
<1>3. F = [k \in 0 .. N |-> IF k = 0 THEN s
                            ELSE IF N - k \in at THEN PutLines(F[k - 1], N - k, old, new)
                            ELSE F[k - 1]]
  <2>1. \E f : Replacing(f, s, at, old, new, N)  BY <1>1, ReplaceExists
  <2>2. Replacing(F, s, at, old, new, N)  BY <1>2, <2>1, Zenon
  <2> QED  BY <2>2, Zenon DEF Replacing
<1>4. F[0] = s /\ \A k \in 1 .. N : F[k] = IF N - k \in at THEN PutLines(F[k - 1], N - k, old, new) ELSE F[k - 1]
  <2>1. 0 \in 0 .. N /\ \A k \in 1 .. N : k \in 0 .. N /\ k # 0  BY <1>1
  <2> QED  BY <1>3, <2>1
<1>5. x = F[N]  BY <1>2 DEF replace, Replacing
<1>6. m \in 0 .. N - 1 /\ m \in Nat /\ N - m \in 1 .. N  BY <1>1
<1>7. PICK T : T = {k \in 0 .. N : F[k] \in Seq(STRING) /\ Len(F[k]) >= N - k}  OBVIOUS
<1>8. \A k \in 0 .. N : k \in T
  <2>1. 0 \in T
    <3>1. N >= N - 0  BY <1>1
    <3> QED  BY <1>1, <1>4, <1>7, <3>1
  <2>2. ASSUME NEW k \in 0 .. N - 1, k \in T  PROVE k + 1 \in T
    <3>1. k + 1 \in 1 .. N /\ (k + 1) - 1 = k /\ k + 1 \in 0 .. N  BY <1>1
    <3>2. PICK y, i, l : y = F[k] /\ i = N - (k + 1) /\ l = Len(y)  OBVIOUS
    <3>3. y \in Seq(STRING) /\ l \in Nat /\ l >= N - k  BY <1>7, <2>2, <3>2, LenProperties
    <3>4. i \in Nat /\ i < l  BY <1>1, <3>2, <3>3
    <3>5. CASE i \in at
      <4>1. i \in 0 .. Len(y)  BY <3>2, <3>3, <3>4
      <4>2. PICK z : z = PutLines(y, i, old, new)  OBVIOUS
      <4>3. z \in Seq(STRING) /\ Len(z) >= i + Len(new)  BY <3>3, <4>1, <4>2, PutFacts DEF PutSays
      <4>4. Len(new) \in Nat /\ Len(z) \in Nat  BY <4>3, LenProperties
      <4>5. Len(z) >= i  BY <3>4, <4>3, <4>4
      <4>6. F[k + 1] = z  BY <1>4, <3>1, <3>2, <3>5, <4>2
      <4> QED  BY <1>7, <3>1, <3>2, <4>3, <4>5, <4>6
    <3>6. CASE i \notin at
      <4>1. F[k + 1] = y  BY <1>4, <3>1, <3>2, <3>6
      <4>2. l >= i  BY <3>3, <3>4
      <4> QED  BY <1>7, <3>1, <3>2, <3>3, <4>1, <4>2
    <3> QED  BY <3>5, <3>6
  <2>3. \A k \in 0 .. N - 1 : k \in T => k + 1 \in T  BY <2>2
  <2> QED  BY ONLY <1>1, <2>1, <2>3, SetInduction
<1>9. PICK U : U = {k \in 0 .. m : F[(N - m) + k] = F[N - m]}  OBVIOUS
<1>10. F[N] = F[N - m]
  <2>1. 0 \in U
    <3>1. (N - m) + 0 = N - m /\ 0 \in 0 .. m  BY <1>1, <1>6
    <3> QED  BY <1>9, <3>1
  <2>2. ASSUME NEW k \in 0 .. m - 1, k \in U  PROVE k + 1 \in U
    <3>1. PICK q : q = (N - m) + (k + 1)  OBVIOUS
    <3>2. q \in 1 .. N /\ q - 1 = (N - m) + k /\ N - q = m - k - 1 /\ k + 1 \in 0 .. m  BY <1>1, <1>6, <3>1
    <3>3. N - q < m  BY <1>1, <1>6, <3>2
    <3>4. N - q \notin at
      <4>1. m - k - 1 < m /\ m - k - 1 \in Int  BY <1>6
      <4> QED  BY <1>6, <3>2, <4>1
    <3>5. F[q] = F[q - 1]  BY <1>4, <3>2, <3>4
    <3> QED  BY <1>9, <2>2, <3>1, <3>2, <3>5
  <2>3. \A k \in 0 .. m - 1 : k \in U => k + 1 \in U  BY <2>2
  <2>4. \A k \in 0 .. m : k \in U  BY ONLY <1>6, <2>1, <2>3, SetInduction
  <2>5. m \in U /\ (N - m) + m = N  BY <1>1, <1>6, <2>4
  <2> QED  BY <1>9, <2>5
<1>11. PICK y : y = F[N - m - 1]  OBVIOUS
<1>12. N - m - 1 \in 0 .. N /\ N - (N - m - 1) = m + 1 /\ N - (N - m) = m /\ (N - m) - 1 = N - m - 1
  BY <1>1, <1>6
<1>13. y \in Seq(STRING) /\ Len(y) >= m + 1  BY <1>7, <1>8, <1>11, <1>12
<1>14. x = PutLines(y, m, old, new)  BY <1>4, <1>5, <1>6, <1>10, <1>11, <1>12
<1>15. m \in 0 .. Len(y)
  <2>1. Len(y) \in Nat  BY <1>13, LenProperties
  <2> QED  BY <1>6, <1>13, <2>1
<1>16. /\ x \in Seq(STRING) /\ Len(x) >= m + Len(new)
       /\ \A j \in 1 .. Len(new) : x[m + j] = new[j]
  <2>1. PutSays(x, y, STRING, m, old, new)  BY <1>13, <1>14, <1>15, PutFacts
  <2> QED  BY <2>1 DEF PutSays
<1>17. ASSUME at = {m}  PROVE y = s
  <2>1. PICK V : V = {k \in 0 .. N - m - 1 : F[k] = s}  OBVIOUS
  <2>2. N - m - 1 \in Nat  BY <1>1, <1>6
  <2>3. 0 \in V  BY <1>4, <2>1, <2>2
  <2>4. ASSUME NEW k \in 0 .. (N - m - 1) - 1, k \in V  PROVE k + 1 \in V
    <3>1. k + 1 \in 1 .. N /\ (k + 1) - 1 = k /\ k + 1 \in 0 .. N - m - 1 /\ N - (k + 1) # m  BY <1>1, <1>6
    <3>2. N - (k + 1) \notin at  BY <1>17, <3>1
    <3>3. F[k + 1] = F[k]  BY <1>4, <3>1, <3>2
    <3> QED  BY <2>1, <2>4, <3>1, <3>3
  <2>5. \A k \in 0 .. (N - m - 1) - 1 : k \in V => k + 1 \in V  BY <2>4
  <2>6. \A k \in 0 .. N - m - 1 : k \in V  BY ONLY <2>2, <2>3, <2>5, SetInduction
  <2>7. N - m - 1 \in V  BY <2>2, <2>6
  <2> QED  BY <1>11, <2>1, <2>7
<1> QED  BY <1>14, <1>16, <1>17

-----------------------------------------------------------------------------
(* Common lines *)

(* The common prefix of two texts exists and is common to them.            *)
LEMMA CommonPrefixFacts ==
    ASSUME NEW S, NEW a \in Seq(S), NEW b \in Seq(S), NEW n, n = CommonPrefix(a, b)
    PROVE  n \in Nat /\ n <= Len(a) /\ n <= Len(b) /\ \A i \in 1 .. n : a[i] = b[i]
<1>1. PICK k : k = Smaller(Len(a), Len(b))  OBVIOUS
<1>2. k \in Nat /\ k <= Len(a) /\ k <= Len(b)  BY <1>1, LenProperties DEF Smaller
<1>3. PICK T : T = {i \in 0 .. k : i < k => a[i + 1] # b[i + 1]}  OBVIOUS
<1>4. k \in T  BY <1>2, <1>3
<1>5. T \in SUBSET Nat  BY <1>2, <1>3
<1>6. PICK m \in T : \A i \in T : m <= i  BY <1>4, <1>5, Least
<1>7. m \in 0 .. k /\ (m < k => a[m + 1] # b[m + 1])  BY <1>3, <1>6
<1>8. ASSUME NEW i \in 1 .. m  PROVE a[i] = b[i]
  <2>1. i - 1 \in 0 .. k /\ i - 1 < k /\ i - 1 < m /\ (i - 1) + 1 = i  BY <1>2, <1>7
  <2>2. i - 1 \notin T  BY <1>5, <1>6, <1>7, <2>1
  <2> QED  BY <1>3, <2>1, <2>2
<1>9. \E j \in 0 .. k : (\A i \in 1 .. j : a[i] = b[i]) /\ (j < k => a[j + 1] # b[j + 1])  BY <1>7, <1>8
<1>10. n \in 0 .. k /\ (\A i \in 1 .. n : a[i] = b[i])
  <2>1. n = CHOOSE j \in 0 .. k : (\A i \in 1 .. j : a[i] = b[i]) /\ (j < k => a[j + 1] # b[j + 1])
    BY <1>1 DEF CommonPrefix
  <2> QED  BY <1>9, <2>1
<1> QED  BY <1>2, <1>10

(* A sequence from its end.                                                *)
LEMMA ReverseFacts ==
    ASSUME NEW S, NEW w \in Seq(S)
    PROVE  /\ Reverse(w) \in Seq(S) /\ Len(Reverse(w)) = Len(w)
           /\ \A i \in 1 .. Len(w) : Reverse(w)[i] = w[(Len(w) - i) + 1]
<1>0. PICK l, wr : l = Len(w) /\ wr = Reverse(w)  OBVIOUS
<1>1. wr = [i \in 1 .. l |-> w[(l - i) + 1]] /\ l \in Nat  BY <1>0, LenProperties DEF Reverse
<1>2. \A i \in 1 .. l : (l - i) + 1 \in 1 .. l  BY <1>1
<1>3. \A i \in 1 .. l : w[(l - i) + 1] \in S  BY <1>0, <1>2
<1>4. wr \in [1 .. l -> S]  BY <1>1, <1>3
<1>5. wr \in Seq(S) /\ Len(wr) = l  BY <1>1, <1>4, SeqDef, LenProperties
<1> QED  BY <1>0, <1>1, <1>5

\* What two texts share at their ends, the pair c, does not overlap and is in both.
CommonSays(c, a, b) ==
    /\ c = <<c[1], c[2]>> /\ c[1] \in Nat /\ c[2] \in Nat
    /\ c[1] + c[2] <= Len(a) /\ c[1] + c[2] <= Len(b)
    /\ \A i \in 1 .. c[1] : a[i] = b[i]
    /\ \A i \in 1 .. c[2] : a[Len(a) - c[2] + i] = b[Len(b) - c[2] + i]

(* What two texts share at their ends does not overlap.                    *)
LEMMA CommonFacts ==
    ASSUME NEW S, NEW a \in Seq(S), NEW b \in Seq(S), NEW c, c = Common(a, b)
    PROVE  CommonSays(c, a, b)
<1> SUFFICES /\ c = <<c[1], c[2]>> /\ c[1] \in Nat /\ c[2] \in Nat
             /\ c[1] + c[2] <= Len(a) /\ c[1] + c[2] <= Len(b)
             /\ \A i \in 1 .. c[1] : a[i] = b[i]
             /\ \A i \in 1 .. c[2] : a[Len(a) - c[2] + i] = b[Len(b) - c[2] + i]
  BY DEF CommonSays
<1>1. PICK m, n : m = Len(a) /\ n = Len(b) /\ m \in Nat /\ n \in Nat  BY LenProperties
<1>2. PICK p : p = CommonPrefix(a, b)  OBVIOUS
<1>3. p \in Nat /\ p <= m /\ p <= n /\ \A i \in 1 .. p : a[i] = b[i]  BY <1>1, <1>2, CommonPrefixFacts
<1>4. PICK u, v : u = Slice(a, p, m) /\ v = Slice(b, p, n)  OBVIOUS
<1>5. /\ u \in Seq(S) /\ Len(u) = m - p /\ (\A i \in 1 .. m - p : u[i] = a[p + i])
      /\ v \in Seq(S) /\ Len(v) = n - p /\ (\A i \in 1 .. n - p : v[i] = b[p + i])
  <2>1. p \in 0 .. m /\ m \in p .. m /\ p \in 0 .. n /\ n \in p .. n  BY <1>1, <1>3
  <2>2. u \in Seq(S) /\ Len(u) = m - p /\ (\A i \in 1 .. m - p : u[i] = a[p + i])  BY <1>1, <1>4, <2>1, SliceFacts
  <2>3. v \in Seq(S) /\ Len(v) = n - p /\ (\A i \in 1 .. n - p : v[i] = b[p + i])  BY <1>1, <1>4, <2>1, SliceFacts
  <2> QED  BY <2>2, <2>3
<1>6. PICK ur, vr : ur = Reverse(u) /\ vr = Reverse(v)  OBVIOUS
<1>7. m - p \in Nat /\ n - p \in Nat  BY <1>1, <1>3
<1>8. /\ ur \in Seq(S) /\ Len(ur) = m - p /\ (\A i \in 1 .. m - p : ur[i] = u[((m - p) - i) + 1])
      /\ vr \in Seq(S) /\ Len(vr) = n - p /\ (\A i \in 1 .. n - p : vr[i] = v[((n - p) - i) + 1])
  <2>2. ur \in Seq(S) /\ Len(ur) = m - p /\ (\A i \in 1 .. m - p : ur[i] = u[((m - p) - i) + 1])
    <3>1. PICK l : l = m - p /\ l \in Nat /\ Len(u) = l  BY <1>5, <1>7
    <3>2. ur \in Seq(S) /\ Len(ur) = l /\ (\A i \in 1 .. l : ur[i] = u[(l - i) + 1])
      <4>1. u \in Seq(S) /\ v \in Seq(S)  BY <1>5
      <4> QED  BY <1>6, <3>1, <4>1, ReverseFacts
    <3> QED  BY <3>1, <3>2
  <2>3. vr \in Seq(S) /\ Len(vr) = n - p /\ (\A i \in 1 .. n - p : vr[i] = v[((n - p) - i) + 1])
    <3>1. PICK l : l = n - p /\ l \in Nat /\ Len(v) = l  BY <1>5, <1>7
    <3>2. vr \in Seq(S) /\ Len(vr) = l /\ (\A i \in 1 .. l : vr[i] = v[(l - i) + 1])
      <4>1. u \in Seq(S) /\ v \in Seq(S)  BY <1>5
      <4> QED  BY <1>6, <3>1, <4>1, ReverseFacts
    <3> QED  BY <3>1, <3>2
  <2> QED  BY <2>2, <2>3
<1>9. PICK q : q = CommonPrefix(ur, vr)  OBVIOUS
<1>10. q \in Nat /\ q <= m - p /\ q <= n - p /\ \A i \in 1 .. q : ur[i] = vr[i]
  <2>1. ur \in Seq(S) /\ vr \in Seq(S) /\ Len(ur) = m - p /\ Len(vr) = n - p  BY <1>8
  <2>2. q \in Nat /\ q <= Len(ur) /\ q <= Len(vr) /\ \A i \in 1 .. q : ur[i] = vr[i]
    BY ONLY <1>9, <2>1, CommonPrefixFacts
  <2> QED  BY <2>1, <2>2
<1>11. c = <<p, q>>  BY <1>1, <1>2, <1>4, <1>6, <1>9 DEF Common
<1>12. ASSUME NEW i \in 1 .. q  PROVE a[m - q + i] = b[n - q + i]
  <2>1. PICK j : j = q - i + 1  OBVIOUS
  <2>2. j \in 1 .. q /\ j \in 1 .. m - p /\ j \in 1 .. n - p  BY <1>7, <1>10, <2>1
  <2>3. PICK g, h : g = ((m - p) - j) + 1 /\ h = ((n - p) - j) + 1  OBVIOUS
  <2>4. g \in 1 .. m - p /\ h \in 1 .. n - p /\ p + g = m - q + i /\ p + h = n - q + i
    BY <1>1, <1>3, <1>7, <1>10, <2>1, <2>2, <2>3
  <2>5. ur[j] = a[m - q + i]  BY <1>5, <1>8, <2>2, <2>3, <2>4
  <2>6. vr[j] = b[n - q + i]  BY <1>5, <1>8, <2>2, <2>3, <2>4
  <2> QED  BY <1>10, <2>2, <2>5, <2>6
<1>13. p + q <= m /\ p + q <= n  BY <1>1, <1>3, <1>10
<1>14. c[1] = p /\ c[2] = q  BY <1>11
<1> QED  BY <1>1, <1>3, <1>10, <1>11, <1>12, <1>13, <1>14

-----------------------------------------------------------------------------
(* The snippet *)

(* Lines of a snippet, all of which tell what is in one of two texts.      *)
MarkSet == {" ", "-", "+"}
SnipLine == MarkSet \X Int \X STRING
(* Each line of the snippet is the one of its number, of the old content   *)
(* if it is marked as removed and of the new one otherwise.                *)
Tells(t, old, new) ==
    /\ t \in Seq(SnipLine)
    /\ \A i \in 1 .. Len(t) : t[i][3] = IF t[i][1] = "-" THEN old[t[i][2]] ELSE new[t[i][2]]

(* No line, or every line, has the mark.                                   *)
Without(t, m) == \A i \in 1 .. Len(t) : t[i][1] # m
AllWith(t, m) == \A i \in 1 .. Len(t) : t[i][1] = m

(* The lines with the mark are those of y, together.                       *)
Holds(t, m, y) ==
    \E k \in Nat : /\ k + Len(y) <= Len(t)
                   /\ \A i \in 1 .. Len(t) : t[i][1] = m <=> i \in k + 1 .. k + Len(y)
                   /\ \A i \in 1 .. Len(y) : t[k + i] = y[i]

(* Two parts of a snippet, one behind the other.                           *)
LEMMA TellsMore ==
    ASSUME NEW old, NEW new, NEW s, NEW t, Tells(s, old, new), Tells(t, old, new), NEW u, u = s \o t
    PROVE  /\ Tells(u, old, new)
           /\ \A m : Without(s, m) /\ Without(t, m) => Without(u, m)
<1>1. s \in Seq(SnipLine) /\ t \in Seq(SnipLine)  BY DEF Tells
<1>2. PICK a, b : a = Len(s) /\ b = Len(t) /\ a \in Nat /\ b \in Nat  BY <1>1, LenProperties
<1>3. /\ u \in Seq(SnipLine) /\ Len(u) = a + b
      /\ (\A i \in 1 .. a : u[i] = s[i]) /\ \A i \in 1 .. b : u[a + i] = t[i]
  BY <1>1, <1>2, ConcatFacts
<1>4. \A i \in 1 .. a + b : i \in 1 .. a \/ (i - a \in 1 .. b /\ a + (i - a) = i)  BY <1>2
<1>5. ASSUME NEW i \in 1 .. a + b
      PROVE  u[i][3] = IF u[i][1] = "-" THEN old[u[i][2]] ELSE new[u[i][2]]
  <2>1. CASE i \in 1 .. a  BY <1>2, <1>3, <2>1 DEF Tells
  <2>2. CASE i - a \in 1 .. b /\ a + (i - a) = i
    <3>1. PICK j : j = i - a  OBVIOUS
    <3>2. j \in 1 .. b /\ u[i] = t[j]  BY <1>3, <2>2, <3>1
    <3> QED  BY <1>2, <3>2 DEF Tells
  <2> QED  BY <1>4, <2>1, <2>2
<1>6. ASSUME NEW m, Without(s, m), Without(t, m), NEW i \in 1 .. a + b  PROVE u[i][1] # m
  <2>1. CASE i \in 1 .. a  BY <1>2, <1>3, <1>6, <2>1 DEF Without
  <2>2. CASE i - a \in 1 .. b /\ a + (i - a) = i
    <3>1. PICK j : j = i - a  OBVIOUS
    <3>2. j \in 1 .. b /\ u[i] = t[j]  BY <1>3, <2>2, <3>1
    <3> QED  BY <1>2, <1>6, <3>2 DEF Without
  <2> QED  BY <1>4, <2>1, <2>2
<1>7. Tells(u, old, new)  BY <1>3, <1>5 DEF Tells
<1>8. \A m : Without(s, m) /\ Without(t, m) => Without(u, m)  BY <1>3, <1>6 DEF Without
<1> QED  BY <1>7, <1>8

(* The part with a mark behind a part without it.                          *)
LEMMA HoldsHere ==
    ASSUME NEW s \in Seq(SnipLine), NEW y \in Seq(SnipLine), NEW m, Without(s, m), AllWith(y, m),
           NEW u, u = s \o y
    PROVE  Holds(u, m, y)
<1>1. PICK a, b : a = Len(s) /\ b = Len(y) /\ a \in Nat /\ b \in Nat  BY LenProperties
<1>2. /\ u \in Seq(SnipLine) /\ Len(u) = a + b
      /\ (\A i \in 1 .. a : u[i] = s[i]) /\ \A i \in 1 .. b : u[a + i] = y[i]
  BY <1>1, ConcatFacts
<1>3. ASSUME NEW i \in 1 .. a + b  PROVE u[i][1] = m <=> i \in a + 1 .. a + b
  <2>1. CASE i \in 1 .. a
    <3>1. i \notin a + 1 .. a + b  BY <1>1, <2>1
    <3> QED  BY <1>1, <1>2, <2>1, <3>1 DEF Without
  <2>2. CASE i \in a + 1 .. a + b
    <3>1. PICK j : j = i - a  OBVIOUS
    <3>2. j \in 1 .. b /\ a + j = i  BY <1>1, <2>2, <3>1
    <3> QED  BY <1>1, <1>2, <2>2, <3>2 DEF AllWith
  <2> QED  BY <1>1, <2>1, <2>2
<1>4. a + b <= a + b  BY <1>1
<1> QED  BY <1>1, <1>2, <1>3, <1>4 DEF Holds

(* The part with a mark before a part without it.                          *)
LEMMA HoldsMore ==
    ASSUME NEW s \in Seq(SnipLine), NEW y \in Seq(SnipLine), NEW t \in Seq(SnipLine), NEW m,
           Holds(s, m, y), Without(t, m), NEW u, u = s \o t
    PROVE  Holds(u, m, y)
<1>1. PICK a, b, l : /\ a = Len(s) /\ b = Len(t) /\ l = Len(y)
                     /\ a \in Nat /\ b \in Nat /\ l \in Nat
  BY LenProperties
<1>2. /\ u \in Seq(SnipLine) /\ Len(u) = a + b
      /\ (\A i \in 1 .. a : u[i] = s[i]) /\ \A i \in 1 .. b : u[a + i] = t[i]
  BY <1>1, ConcatFacts
<1>3. PICK k \in Nat : /\ k + l <= a
                       /\ \A i \in 1 .. a : s[i][1] = m <=> i \in k + 1 .. k + l
                       /\ \A i \in 1 .. l : s[k + i] = y[i]
  BY <1>1 DEF Holds
<1>4. ASSUME NEW i \in 1 .. a + b  PROVE u[i][1] = m <=> i \in k + 1 .. k + l
  <2>1. CASE i \in 1 .. a  BY <1>2, <1>3, <2>1
  <2>2. CASE i \in a + 1 .. a + b
    <3>1. PICK j : j = i - a  OBVIOUS
    <3>2. j \in 1 .. b /\ a + j = i  BY <1>1, <2>2, <3>1
    <3>3. i \notin k + 1 .. k + l  BY <1>1, <1>3, <2>2
    <3> QED  BY <1>1, <1>2, <3>2, <3>3 DEF Without
  <2> QED  BY <1>1, <2>1, <2>2
<1>5. \A i \in 1 .. l : u[k + i] = y[i]
  <2>1. \A i \in 1 .. l : k + i \in 1 .. a  BY <1>1, <1>3
  <2> QED  BY <1>2, <1>3, <2>1
<1>6. k + l <= a + b  BY <1>1, <1>3
<1> QED  BY <1>1, <1>2, <1>4, <1>5, <1>6 DEF Holds

(* The text of the lines.                                                  *)
Thirds(y) == [i \in 1 .. Len(y) |-> y[i][3]]

(* The lines with a mark are counted and found where they stand together.  *)
LEMMA HoldsCounts ==
    ASSUME NEW t \in Seq(SnipLine), NEW y \in Seq(SnipLine), NEW m, Holds(t, m, y)
    PROVE  Count(t, m) = Len(y) /\ LinesOf(t, m) = Thirds(y)
<1>1. PICK a, l : a = Len(t) /\ l = Len(y) /\ a \in Nat /\ l \in Nat  BY LenProperties
<1>2. PICK k \in Nat : /\ k + l <= a
                       /\ \A i \in 1 .. a : t[i][1] = m <=> i \in k + 1 .. k + l
                       /\ \A i \in 1 .. l : t[k + i] = y[i]
  BY <1>1 DEF Holds
<1>3. PICK P : P = Places(t, m)  OBVIOUS
<1>4. P = k + 1 .. k + l
  <2>1. P = {i \in 1 .. a : t[i][1] = m}  BY <1>1, <1>3 DEF Places
  <2>2. \A i \in k + 1 .. k + l : i \in 1 .. a  BY <1>1, <1>2
  <2> QED  BY <1>2, <2>1, <2>2
<1>5. Cardinality(P) = l
  <2>1. Cardinality(k + 1 .. k + l) = IF k + 1 > k + l THEN 0 ELSE (k + l) - (k + 1) + 1
    <3>1. PICK a0, b0 : a0 = k + 1 /\ b0 = k + l  OBVIOUS
    <3>2. a0 \in Int /\ b0 \in Int  BY <1>1, <3>1
    <3>3. Cardinality(a0 .. b0) = IF a0 > b0 THEN 0 ELSE b0 - a0 + 1  BY ONLY <3>2, FS_Interval
    <3> QED  BY <3>1, <3>3
  <2> QED  BY <1>1, <1>2, <1>4, <2>1
<1>6. Count(t, m) = l  BY <1>3, <1>5 DEF Count
<1>7. ASSUME l # 0  PROVE First(P) = k + 1
  <2>1. k + 1 \in P /\ \A j \in P : k + 1 <= j  BY <1>1, <1>2, <1>4, <1>7
  <2>2. \E i \in P : \A j \in P : i <= j  BY <2>1
  <2>3. PICK f : f = First(P)  OBVIOUS
  <2>4. f \in P /\ \A j \in P : f <= j  BY <2>2, <2>3 DEF First
  <2>5. f <= k + 1 /\ k + 1 <= f /\ f \in Int  BY <1>1, <1>4, <2>1, <2>4
  <2> QED  BY <1>2, <2>3, <2>5
<1>8. ASSUME NEW i \in 1 .. l  PROVE t[First(P) + i - 1] = y[i]
  <2>1. l # 0 /\ (k + 1) + i - 1 = k + i  BY <1>1, <1>2
  <2> QED  BY <1>2, <1>7, <2>1
<1>9. LinesOf(t, m) = [i \in 1 .. l |-> t[First(P) + i - 1][3]]  BY <1>3, <1>6 DEF LinesOf
<1> QED  BY <1>1, <1>6, <1>8, <1>9 DEF Thirds

(* Lines from s, which are those of one of the texts.                      *)
Quotes(m, s, from, to, base, old, new) ==
    /\ s \in Seq(STRING) /\ from \in Nat /\ to \in Nat /\ to <= Len(s) /\ base \in Nat /\ m \in MarkSet
    /\ \A i \in from + 1 .. to : s[i] = IF m = "-" THEN old[base + i] ELSE new[base + i]

(* Marked tells them, all with the mark.                                   *)
LEMMA MarkedTells ==
    ASSUME NEW old, NEW new, NEW m, NEW s, NEW from, NEW to, NEW base, Quotes(m, s, from, to, base, old, new),
           NEW t, t = Marked(m, s, from, to, base)
    PROVE  /\ Tells(t, old, new) /\ AllWith(t, m) /\ (from <= to => Len(t) = to - from)
           /\ \A i \in 1 .. Len(t) : t[i][3] = s[from + i]
<1>0. /\ s \in Seq(STRING) /\ from \in Nat /\ to \in Nat /\ to <= Len(s) /\ base \in Nat /\ m \in MarkSet
      /\ \A i \in from + 1 .. to : s[i] = IF m = "-" THEN old[base + i] ELSE new[base + i]
  BY DEF Quotes
<1>1. PICK k : k = IF from < to THEN to - from ELSE 0  OBVIOUS
<1>2. /\ k \in Nat /\ (from <= to => k = to - from) /\ 1 .. to - from = 1 .. k
      /\ \A i \in 1 .. k : from + i \in from + 1 .. to
  BY <1>0, <1>1
<1>3. /\ t \in Seq(SnipLine) /\ Len(t) = k
      /\ \A i \in 1 .. k : t[i] = <<m, base + from + i, s[from + i]>>
  <2>1. t = [i \in 1 .. k |-> <<m, base + from + i, s[from + i]>>]  BY <1>2 DEF Marked
  <2>2. ASSUME NEW i \in 1 .. k  PROVE <<m, base + from + i, s[from + i]>> \in SnipLine
    <3>1. PICK l : l = Len(s) /\ l \in Nat /\ DOMAIN s = 1 .. l  BY <1>0, LenProperties
    <3>2. from + i \in 1 .. l  BY <1>0, <1>2, <3>1
    <3>3. s[from + i] \in STRING  BY <1>0, <3>1, <3>2
    <3>4. base + from + i \in Int  BY <1>0, <1>2
    <3> QED  BY <1>0, <3>3, <3>4 DEF SnipLine
  <2>3. t \in [1 .. k -> SnipLine]  BY <2>1, <2>2
  <2>4. t \in Seq(SnipLine)  BY ONLY <1>2, <2>3, SeqDef
  <2>5. PICK l : l = Len(t)  OBVIOUS
  <2>6. l \in Nat /\ 1 .. l = 1 .. k  BY ONLY <2>3, <2>4, <2>5, LenProperties
  <2>7. l = k
    <3>1. l \in 1 .. l \/ l = 0  BY ONLY <2>6
    <3>2. k \in 1 .. k \/ k = 0  BY ONLY <1>2
    <3> QED  BY ONLY <1>2, <2>6, <3>1, <3>2
  <2> QED  BY <2>1, <2>4, <2>5, <2>7
<1>4. ASSUME NEW i \in 1 .. k
      PROVE  /\ t[i][1] = m /\ t[i][3] = s[from + i]
             /\ t[i][3] = IF t[i][1] = "-" THEN old[t[i][2]] ELSE new[t[i][2]]
  <2>1. PICK x, j : x = t[i] /\ j = from + i  OBVIOUS
  <2>2. j \in from + 1 .. to /\ base + from + i = base + j  BY <1>0, <1>2, <2>1
  <2>3. x[1] = m /\ x[2] = base + j /\ x[3] = s[j]
    <3>1. x = <<m, base + j, s[j]>>  BY <1>3, <2>1, <2>2
    <3> QED  BY <3>1
  <2>4. s[j] = IF m = "-" THEN old[base + j] ELSE new[base + j]  BY <1>0, <2>2
  <2> QED  BY <2>1, <2>3, <2>4
<1>5. Tells(t, old, new)  BY <1>3, <1>4 DEF Tells
<1>6. AllWith(t, m)  BY <1>3, <1>4 DEF AllWith
<1> QED  BY <1>2, <1>3, <1>4, <1>5, <1>6

(* A part that is known line by line.                                      *)
LEMMA SliceIs ==
    ASSUME NEW S, NEW s \in Seq(S), NEW r \in Seq(S), NEW i \in Nat, i + Len(r) <= Len(s),
           \A j \in 1 .. Len(r) : s[i + j] = r[j]
    PROVE  Slice(s, i, Smaller(i + Len(r), Len(s))) = r
<1>1. PICK n, k, e : n = Len(s) /\ k = Len(r) /\ e = i + k /\ n \in Nat /\ k \in Nat  BY LenProperties
<1>2. i \in 0 .. n /\ e \in i .. n /\ e - i = k /\ Smaller(i + k, n) = e  BY <1>1 DEF Smaller
<1>3. PICK t : t = Slice(s, i, e)  OBVIOUS
<1>4. t \in Seq(S) /\ Len(t) = e - i /\ \A j \in 1 .. e - i : t[j] = s[i + j]
  <2>1. n = Len(s)  BY <1>1
  <2> QED  BY <1>2, <1>3, <2>1, SliceFacts
<1>5. t \in Seq(S) /\ Len(t) = k /\ \A j \in 1 .. k : t[j] = r[j]  BY <1>1, <1>2, <1>4
<1>6. t = r  BY <1>1, <1>5, SameSeq
<1> QED  BY <1>1, <1>2, <1>3, <1>6

\* What a snippet of the replacement of ro by rn says, with c what they share.
SnippetSays(snip, old, new, ro, rn, c) ==
    /\ Tells(snip, old, new)
    /\ Count(snip, "-") = Len(ro) - c[1] - c[2] /\ Count(snip, "+") = Len(rn) - c[1] - c[2]
    /\ LinesOf(snip, "-") = [i \in 1 .. Len(ro) - c[1] - c[2] |-> ro[c[1] + i]]
    /\ LinesOf(snip, "+") = [i \in 1 .. Len(rn) - c[1] - c[2] |-> rn[c[1] + i]]

\* The lines r stand in s behind the first m.
StandsAt(r, s, m) == m + Len(r) <= Len(s) /\ \A j \in 1 .. Len(r) : s[m + j] = r[j]

(* A snippet of one edit region tells the truth, and its removed and added *)
(* lines are the two edits without what they have in common.               *)
LEMMA SnippetFacts ==
    ASSUME NEW old \in Seq(STRING), NEW new \in Seq(STRING), NEW ro \in Seq(STRING), NEW rn \in Seq(STRING),
           NEW start \in Nat, NEW a, a = Len(ro), NEW b, b = Len(rn),
           StandsAt(ro, old, start), StandsAt(rn, new, start),
           NEW ctx \in Nat, NEW snip, snip = build_context_snippet(old, new, start, a, b, ctx),
           NEW c, c = Common(ro, rn)
    PROVE  SnippetSays(snip, old, new, ro, rn, c)
<1> SUFFICES /\ Tells(snip, old, new)
             /\ Count(snip, "-") = a - c[1] - c[2] /\ Count(snip, "+") = b - c[1] - c[2]
             /\ LinesOf(snip, "-") = [i \in 1 .. a - c[1] - c[2] |-> ro[c[1] + i]]
             /\ LinesOf(snip, "+") = [i \in 1 .. b - c[1] - c[2] |-> rn[c[1] + i]]
  BY DEF SnippetSays
<1>0. /\ start + a <= Len(old) /\ start + b <= Len(new)
      /\ (\A j \in 1 .. a : old[start + j] = ro[j]) /\ (\A j \in 1 .. b : new[start + j] = rn[j])
  BY DEF StandsAt
<1>1. a \in Nat /\ b \in Nat  BY LenProperties
<1>2. PICK m, n : m = Len(old) /\ n = Len(new) /\ m \in Nat /\ n \in Nat /\ start + a <= m /\ start + b <= n
  BY <1>0, LenProperties
<1>3. PICK oe : oe = Slice(old, start, Smaller(start + a, m))  OBVIOUS
<1>4. PICK ne : ne = Slice(new, start, Smaller(start + b, n))  OBVIOUS
<1>5. oe = ro  BY <1>0, <1>2, <1>3, SliceIs
<1>6. ne = rn  BY <1>0, <1>2, <1>4, SliceIs
<1>7. PICK p, q : p = c[1] /\ q = c[2]  OBVIOUS
<1>8. p \in Nat /\ q \in Nat /\ p + q <= a /\ p + q <= b /\ c = <<p, q>>  BY <1>7, CommonFacts DEF CommonSays
<1>9. PICK sp, ss : sp = Smaller(p, ctx) /\ ss = Smaller(q, ctx)  OBVIOUS
<1>10. sp \in Nat /\ sp <= p /\ ss \in Nat /\ ss <= q  BY <1>8, <1>9 DEF Smaller
<1>11. PICK before, ps, oend, nend, after, back, far :
          /\ before = start + p - sp /\ ps = p - sp /\ oend = a - q /\ nend = b - q
          /\ after = start + b - q + ss /\ back = Larger(before - ctx, 0) /\ far = Smaller(after + ctx, n)
  OBVIOUS
<1>12. /\ before \in Nat /\ before <= n /\ ps \in Nat /\ ps <= p /\ oend \in Nat /\ oend <= a
       /\ nend \in Nat /\ nend + ss <= b /\ after \in Nat /\ back \in Nat /\ far \in Nat /\ far <= n
       /\ nend <= b /\ p <= oend /\ p <= nend /\ oend - p = a - p - q /\ nend - p = b - p - q
  <2>1. before \in Nat /\ before <= n /\ ps \in Nat /\ ps <= p  BY <1>1, <1>2, <1>8, <1>10, <1>11
  <2>2. oend \in Nat /\ oend <= a /\ p <= oend /\ oend - p = a - p - q
    <3>1. oend = a - q  BY <1>11
    <3>2. p \in Nat /\ q \in Nat /\ p + q <= a /\ a \in Nat  BY <1>1, <1>8
    <3> QED  BY ONLY <3>1, <3>2
  <2>3. nend \in Nat /\ nend <= b /\ p <= nend /\ nend - p = b - p - q /\ nend + ss <= b  BY <1>1, <1>8, <1>10, <1>11
  <2>4. after \in Nat  BY <1>1, <1>8, <1>10, <1>11
  <2>5. back \in Nat
    <3>1. back = IF before - ctx > 0 THEN before - ctx ELSE 0  BY <1>11 DEF Larger
    <3> QED  BY ONLY <2>1, <3>1, ctx \in Nat
  <2>6. far \in Nat /\ far <= n
    <3>1. far = IF after + ctx < n THEN after + ctx ELSE n  BY <1>11 DEF Smaller
    <3>2. n \in Nat  BY <1>2
    <3> QED  BY ONLY <2>4, <3>1, <3>2, ctx \in Nat
  <2> QED  BY <2>1, <2>2, <2>3, <2>4, <2>5, <2>6
<1>13. PICK A, B, C, D, E, F :
          /\ A = Marked(" ", new, back, before, 0) /\ B = Marked(" ", rn, ps, p, start)
          /\ C = Marked("-", ro, p, oend, start) /\ D = Marked("+", rn, p, nend, start)
          /\ E = Marked(" ", rn, nend, nend + ss, start) /\ F = Marked(" ", new, after, far, 0)
  OBVIOUS
<1>14. snip = A \o B \o C \o D \o E \o F
  <2>1. snip = LET oldEdit == ro
                   newEdit == rn
                   cc == c
                   shownPrefix == Smaller(cc[1], ctx)
                   shownSuffix == Smaller(cc[2], ctx)
                   bef == start + cc[1] - shownPrefix
                   newEnd == Len(newEdit) - cc[2]
                   aft == start + b - cc[2] + shownSuffix
               IN  Marked(" ", new, Larger(bef - ctx, 0), bef, 0)
                   \o Marked(" ", newEdit, cc[1] - shownPrefix, cc[1], start)
                   \o Marked("-", oldEdit, cc[1], Len(oldEdit) - cc[2], start)
                   \o Marked("+", newEdit, cc[1], newEnd, start)
                   \o Marked(" ", newEdit, newEnd, newEnd + shownSuffix, start)
                   \o Marked(" ", new, aft, Smaller(aft + ctx, Len(new)), 0)
    <3>1. Slice(old, start, Smaller(start + a, Len(old))) = ro /\ Slice(new, start, Smaller(start + b, Len(new))) = rn
      BY <1>2, <1>3, <1>4, <1>5, <1>6
    <3> QED  BY <3>1, Zenon DEF build_context_snippet
  <2> QED  BY <1>2, <1>7, <1>9, <1>11, <1>13, <2>1, Zenon
<1>15. /\ \A i \in 1 .. b : rn[i] = new[start + i]
       /\ \A i \in 1 .. a : ro[i] = old[start + i]
       /\ a = Len(ro) /\ b = Len(rn) /\ n = Len(new)
       /\ " " # "-" /\ "+" # "-" /\ " " \in MarkSet /\ "-" \in MarkSet /\ "+" \in MarkSet
  <2>1. " " \in MarkSet /\ "-" \in MarkSet /\ "+" \in MarkSet  BY DEF MarkSet
  <2> QED  BY <1>0, <1>2, <2>1
<1>16. ASSUME NEW from \in Nat, NEW to \in Nat, to <= n  PROVE Quotes(" ", new, from, to, 0, old, new)
  <2>1. \A i \in from + 1 .. to : 0 + i = i  BY <1>16
  <2>2. \A i \in from + 1 .. to : new[i] = IF " " = "-" THEN old[0 + i] ELSE new[0 + i]  BY <1>15, <2>1
  <2>3. to <= Len(new) /\ 0 \in Nat /\ " " \in MarkSet  BY <1>15, <1>16
  <2> QED  BY ONLY <2>2, <2>3, new \in Seq(STRING), from \in Nat, to \in Nat DEF Quotes
<1>41. ASSUME NEW from \in Nat, NEW to \in Nat, to <= b, NEW mk \in MarkSet, mk # "-"
       PROVE  Quotes(mk, rn, from, to, start, old, new)
  <2>1. \A i \in from + 1 .. to : i \in 1 .. b  BY ONLY <1>1, <1>41, from \in Nat, to \in Nat
  <2>2. mk # "-" /\ mk \in MarkSet  BY <1>41
  <2>3. \A i \in from + 1 .. to : rn[i] = IF mk = "-" THEN old[start + i] ELSE new[start + i]
    BY ONLY <1>15, <2>1, <2>2
  <2>4. to <= Len(rn)  BY <1>15, <1>41
  <2> QED  BY ONLY <2>2, <2>3, <2>4, rn \in Seq(STRING), from \in Nat, to \in Nat, start \in Nat DEF Quotes
<1>17. Tells(A, old, new) /\ AllWith(A, " ")
  <2>1. Quotes(" ", new, back, before, 0, old, new)  BY ONLY <1>12, <1>16
  <2>2. A = Marked(" ", new, back, before, 0)  BY <1>13
  <2> QED  BY ONLY <2>1, <2>2, MarkedTells
<1>18. Tells(B, old, new) /\ AllWith(B, " ")
  <2>1. p <= b  BY <1>1, <1>8
  <2>2. Quotes(" ", rn, ps, p, start, old, new)  BY ONLY <1>8, <1>12, <1>15, <1>41, <2>1
  <2>3. B = Marked(" ", rn, ps, p, start)  BY <1>13
  <2> QED  BY ONLY <2>2, <2>3, MarkedTells
<1>19. Tells(C, old, new) /\ AllWith(C, "-") /\ Len(C) = a - p - q /\ \A i \in 1 .. a - p - q : C[i][3] = ro[p + i]
  <2>1. \A i \in p + 1 .. oend : i \in 1 .. a  BY ONLY <1>1, <1>8, <1>12
  <2>2. Quotes("-", ro, p, oend, start, old, new)
    <3>1. \A i \in p + 1 .. oend : ro[i] = IF "-" = "-" THEN old[start + i] ELSE new[start + i]
      BY ONLY <1>15, <2>1
    <3>2. p \in Nat /\ oend \in Nat /\ oend <= Len(ro) /\ "-" \in MarkSet  BY <1>8, <1>12, <1>15
    <3> QED  BY ONLY <3>1, <3>2, ro \in Seq(STRING), start \in Nat DEF Quotes
  <2>3. C = Marked("-", ro, p, oend, start)  BY <1>13
  <2>4. /\ Tells(C, old, new) /\ AllWith(C, "-") /\ (p <= oend => Len(C) = oend - p)
        /\ \A i \in 1 .. Len(C) : C[i][3] = ro[p + i]
    BY ONLY <2>2, <2>3, MarkedTells
  <2> QED  BY <1>12, <2>4
<1>20. Tells(D, old, new) /\ AllWith(D, "+") /\ Len(D) = b - p - q /\ \A i \in 1 .. b - p - q : D[i][3] = rn[p + i]
  <2>1. Quotes("+", rn, p, nend, start, old, new)  BY ONLY <1>8, <1>12, <1>15, <1>41
  <2>2. D = Marked("+", rn, p, nend, start)  BY <1>13
  <2>3. /\ Tells(D, old, new) /\ AllWith(D, "+") /\ (p <= nend => Len(D) = nend - p)
        /\ \A i \in 1 .. Len(D) : D[i][3] = rn[p + i]
    BY ONLY <2>1, <2>2, MarkedTells
  <2> QED  BY <1>12, <2>3
<1>21. Tells(E, old, new) /\ AllWith(E, " ")
  <2>1. PICK to : to = nend + ss  OBVIOUS
  <2>2. to \in Nat /\ to <= b  BY ONLY <1>10, <1>12, <2>1
  <2>3. Quotes(" ", rn, nend, to, start, old, new)  BY ONLY <1>12, <1>15, <1>41, <2>2
  <2>4. E = Marked(" ", rn, nend, to, start)  BY <1>13, <2>1
  <2> QED  BY ONLY <2>3, <2>4, MarkedTells
<1>22. Tells(F, old, new) /\ AllWith(F, " ")
  <2>1. Quotes(" ", new, after, far, 0, old, new)  BY ONLY <1>12, <1>16
  <2>2. F = Marked(" ", new, after, far, 0)  BY <1>13
  <2> QED  BY ONLY <2>1, <2>2, MarkedTells
<1>23. /\ Without(A, "-") /\ Without(A, "+") /\ Without(B, "-") /\ Without(B, "+")
       /\ Without(C, "+") /\ Without(D, "-")
       /\ Without(E, "-") /\ Without(E, "+") /\ Without(F, "-") /\ Without(F, "+")
  BY <1>17, <1>18, <1>19, <1>20, <1>21, <1>22 DEF Without, AllWith
<1>24. PICK ab : ab = A \o B  OBVIOUS
<1>25. Tells(ab, old, new) /\ Without(ab, "-") /\ Without(ab, "+")  BY <1>17, <1>18, <1>23, <1>24, TellsMore
<1>26. PICK abc : abc = ab \o C  OBVIOUS
<1>27. Tells(abc, old, new) /\ Without(abc, "+")  BY <1>19, <1>23, <1>25, <1>26, TellsMore
<1>28. PICK abcd : abcd = abc \o D  OBVIOUS
<1>29. Tells(abcd, old, new)  BY <1>20, <1>27, <1>28, TellsMore
<1>30. PICK abcde : abcde = abcd \o E  OBVIOUS
<1>31. Tells(abcde, old, new)  BY <1>21, <1>29, <1>30, TellsMore
<1>32. snip = abcde \o F  BY <1>14, <1>24, <1>26, <1>28, <1>30
<1>33. Tells(snip, old, new)  BY <1>22, <1>31, <1>32, TellsMore
<1>34. /\ ab \in Seq(SnipLine) /\ abc \in Seq(SnipLine) /\ abcd \in Seq(SnipLine) /\ abcde \in Seq(SnipLine)
       /\ snip \in Seq(SnipLine) /\ C \in Seq(SnipLine) /\ D \in Seq(SnipLine) /\ E \in Seq(SnipLine)
       /\ F \in Seq(SnipLine)
  BY <1>19, <1>20, <1>21, <1>22, <1>25, <1>27, <1>29, <1>31, <1>33 DEF Tells
<1>35. Holds(snip, "-", C)
  <2>1. Holds(abc, "-", C)  BY <1>19, <1>25, <1>26, <1>34, HoldsHere
  <2>2. Holds(abcd, "-", C)  BY <1>23, <1>28, <1>34, <2>1, HoldsMore
  <2>3. Holds(abcde, "-", C)  BY <1>23, <1>30, <1>34, <2>2, HoldsMore
  <2> QED  BY <1>23, <1>32, <1>34, <2>3, HoldsMore
<1>36. Holds(snip, "+", D)
  <2>1. Holds(abcd, "+", D)  BY <1>20, <1>27, <1>28, <1>34, HoldsHere
  <2>2. Holds(abcde, "+", D)  BY <1>23, <1>30, <1>34, <2>1, HoldsMore
  <2> QED  BY <1>23, <1>32, <1>34, <2>2, HoldsMore
<1>37. Count(snip, "-") = Len(C) /\ LinesOf(snip, "-") = Thirds(C)
  BY <1>34, <1>35, HoldsCounts
<1>38. Count(snip, "+") = Len(D) /\ LinesOf(snip, "+") = Thirds(D)
  BY <1>34, <1>36, HoldsCounts
<1>39. Count(snip, "-") = a - p - q /\ LinesOf(snip, "-") = [i \in 1 .. a - p - q |-> ro[p + i]]
  BY <1>19, <1>37 DEF Thirds
<1>40. Count(snip, "+") = b - p - q /\ LinesOf(snip, "+") = [i \in 1 .. b - p - q |-> rn[p + i]]
  BY <1>20, <1>38 DEF Thirds
<1> QED  BY <1>7, <1>33, <1>39, <1>40

(* What an edit that goes through writes, and what its snippet says of it. *)
LEMMA EditFacts ==
    ASSUME NEW old \in Seq(STRING), NEW r, IsRequest(r), r.tool = "edit", EditResult(old, r).status = "ok",
           NEW new, new = Replaced(old, r), NEW snip, snip = SnippetOf(old, r), NEW cs, cs = Common(r.old, r.new),
           NEW at, at = matches(r.old, old)
    PROVE  /\ new \in Seq(STRING)
           /\ Cardinality(at) = 1 => new = PutLines(old, First(at) + cs[1], LinesOf(snip, "-"), LinesOf(snip, "+"))
           /\ Tells(snip, old, new)
           /\ edit_summary(r.old, r.new) = <<Count(snip, "-"), Count(snip, "+")>>
<1>1. PICK ro, rn : ro = r.old /\ rn = r.new  OBVIOUS
<1>2. ro \in Seq(STRING) /\ rn \in Seq(STRING)  BY <1>1 DEF IsRequest
<1>3. PICK a, b, l : a = Len(ro) /\ b = Len(rn) /\ l = Len(old) /\ a \in Nat /\ b \in Nat /\ l \in Nat
  BY <1>2, LenProperties
<1>4. ro # <<>> /\ at # {}
  <2>1. "error" # "ok" /\ Result("error").status = "error"  BY PlainMarks
  <2>2. ~(ro = <<>> \/ ro = rn \/ at = {} \/ (Cardinality(at) > 1 /\ ~r.all))
    BY <1>1, <2>1, Zenon DEF EditResult
  <2> QED  BY <2>2
<1>5. a # 0  BY <1>2, <1>3, <1>4
<1>6. \A i \in at : i \in 0 .. l /\ Occurs(ro, old, i)  BY <1>1, <1>3 DEF matches
<1>7. at \in SUBSET (0 .. l - 1)
  <2>1. \A i \in at : i \in 0 .. l /\ i + a <= l  BY <1>3, <1>6 DEF Occurs
  <2>2. \A i \in at : i \in 0 .. l - 1  BY <1>3, <1>5, <2>1
  <2> QED  BY <2>2
<1>8. PICK m : m = First(at)  OBVIOUS
<1>9. m \in at /\ \A j \in at : m <= j
  <2>1. \E i \in at : \A j \in at : i <= j
    <3>1. at \in SUBSET Nat  BY <1>3, <1>7
    <3> QED  BY <1>4, <3>1, Least
  <2> QED  BY <1>8, <2>1 DEF First
<1>10. m \in Nat /\ m + a <= l  BY <1>3, <1>6, <1>9 DEF Occurs
<1>11. PICK used : used = IF r.all THEN at ELSE {m}  OBVIOUS
<1>12. used \in SUBSET (0 .. l - 1) /\ m \in used /\ \A j \in used : m <= j
  <2>1. m <= m  BY <1>10
  <2> QED  BY <1>7, <1>9, <1>11, <2>1
<1>13. new = replace(old, used, ro, rn)  BY <1>1, <1>8, <1>11 DEF Replaced
<1>14. /\ new \in Seq(STRING) /\ Len(new) >= m + b
       /\ \A j \in 1 .. b : new[m + j] = rn[j]
       /\ used = {m} => new = PutLines(old, m, ro, rn)
  <2>1. used \in SUBSET (0 .. Len(old) - 1)  BY <1>3, <1>12
  <2>2. ReplaceSays(new, old, used, ro, rn, m)  BY <1>2, <1>12, <1>13, <2>1, ReplaceFacts
  <2> QED  BY <1>3, <2>2 DEF ReplaceSays
<1>15. \A j \in 1 .. a : old[m + j] = ro[j]
  <2>1. PICK e : e = m + a  OBVIOUS
  <2>2. m \in 0 .. l /\ e \in m .. l /\ e - m = a  BY <1>3, <1>10, <2>1
  <2>3. Slice(old, m, e) = ro  BY <1>3, <1>6, <1>9, <2>1 DEF Occurs
  <2>4. \A j \in 1 .. e - m : Slice(old, m, e)[j] = old[m + j]  BY <1>3, <2>2, SliceFacts
  <2> QED  BY <2>2, <2>3, <2>4
<1>16. PICK n : n = Len(new) /\ n \in Nat /\ m + b <= n
  <2>1. Len(new) \in Nat  BY <1>14, LenProperties
  <2> QED  BY <1>3, <1>10, <1>14, <2>1
<1>17. snip = build_context_snippet(old, new, m, a, b, SnippetContext)
  BY <1>1, <1>3, <1>8 DEF SnippetOf
<1>18. PICK p, q : p = cs[1] /\ q = cs[2]  OBVIOUS
<1>19. /\ p \in Nat /\ q \in Nat /\ p + q <= a /\ p + q <= b
       /\ (\A i \in 1 .. p : ro[i] = rn[i])
       /\ \A i \in 1 .. q : ro[a - q + i] = rn[b - q + i]
  <2>1. CommonSays(cs, ro, rn)  BY <1>1, <1>2, CommonFacts
  <2> QED  BY <1>3, <1>18, <2>1 DEF CommonSays
<1>20. /\ Tells(snip, old, new)
       /\ Count(snip, "-") = a - p - q /\ Count(snip, "+") = b - p - q
       /\ LinesOf(snip, "-") = [i \in 1 .. a - p - q |-> ro[p + i]]
       /\ LinesOf(snip, "+") = [i \in 1 .. b - p - q |-> rn[p + i]]
  <2>1. StandsAt(ro, old, m)  BY <1>3, <1>10, <1>15 DEF StandsAt
  <2>2. StandsAt(rn, new, m)  BY <1>3, <1>14, <1>16 DEF StandsAt
  <2>3. SnippetContext \in Nat /\ cs = Common(ro, rn)  BY <1>1, ToolConstants
  <2>4. snip = build_context_snippet(old, new, m, Len(ro), Len(rn), SnippetContext)  BY <1>3, <1>17
  <2>5. SnippetSays(snip, old, new, ro, rn, cs)  BY <1>2, <1>10, <1>14, <2>1, <2>2, <2>3, <2>4, SnippetFacts
  <2> QED  BY <1>3, <1>18, <2>5 DEF SnippetSays
<1>21. edit_summary(r.old, r.new) = <<a - p - q, b - p - q>>  BY <1>1, <1>3, <1>18 DEF edit_summary
<1>22. ASSUME Cardinality(at) = 1
       PROVE  new = PutLines(old, m + p, LinesOf(snip, "-"), LinesOf(snip, "+"))
  <2>1. at = {m}
    <3>1. IsFiniteSet(at)
      <4>1. IsFiniteSet(0 .. l - 1)
        <5>1. PICK z : z = l - 1 /\ z \in Int  BY <1>3
        <5> QED  BY <5>1, FS_Interval
      <4> QED  BY <1>7, <4>1, FS_Subset
    <3>2. \E x : at = {x}  BY <1>22, <3>1, FS_Singleton
    <3> QED  BY <1>9, <3>2
  <2>2. new = PutLines(old, m, ro, rn)
    <3>1. used = {m}  BY <1>11, <2>1
    <3> QED  BY <1>14, <3>1
  <2>3. PICK mi, pl, d, e : mi = LinesOf(snip, "-") /\ pl = LinesOf(snip, "+") /\ d = a - p - q /\ e = b - p - q
    OBVIOUS
  <2>4. d \in Nat /\ e \in Nat /\ p + d \in Nat /\ p + e \in Nat
    <3>1. p \in Nat /\ q \in Nat /\ p + q <= a /\ p + q <= b  BY <1>19
    <3> QED  BY ONLY <1>3, <2>3, <3>1
  <2>5. mi \in Seq(STRING) /\ Len(mi) = d
    <3>1. mi = [i \in 1 .. d |-> ro[p + i]]  BY <1>20, <2>3
    <3>2. \A i \in 1 .. d : p + i \in 1 .. a  BY ONLY <1>3, <1>19, <2>3
    <3>3. \A i \in 1 .. d : ro[p + i] \in STRING  BY <1>2, <1>3, <3>2
    <3>4. mi \in [1 .. d -> STRING]  BY <3>1, <3>3
    <3> QED  BY <2>4, <3>4, SeqDef, LenProperties
  <2>6. pl \in Seq(STRING) /\ Len(pl) = e /\ \A i \in 1 .. e : pl[i] = rn[p + i]
    <3>1. pl = [i \in 1 .. e |-> rn[p + i]]  BY <1>20, <2>3
    <3>2. \A i \in 1 .. e : p + i \in 1 .. b  BY ONLY <1>3, <1>19, <2>3
    <3>3. \A i \in 1 .. e : rn[p + i] \in STRING  BY <1>2, <1>3, <3>2
    <3>4. pl \in [1 .. e -> STRING]  BY <3>1, <3>3
    <3> QED  BY <2>4, <3>1, <3>4, SeqDef, LenProperties
  <2>7. PICK u, v : u = PutLines(old, m, ro, rn) /\ v = PutLines(old, m + p, mi, pl)  OBVIOUS
  <2>8. /\ u \in Seq(STRING) /\ Len(u) = l - a + b
        /\ (\A j \in 1 .. m : u[j] = old[j]) /\ (\A j \in 1 .. b : u[m + j] = rn[j])
        /\ \A j \in 1 .. l - (m + a) : u[m + b + j] = old[m + a + j]
    <3>1. m \in 0 .. Len(old) /\ Len(ro) = a /\ m + Len(ro) <= Len(old)  BY <1>3, <1>10
    <3>2. PutSays(u, old, STRING, m, ro, rn)  BY <1>2, <1>3, <2>7, <3>1, PutFacts
    <3> QED  BY <1>3, <3>1, <3>2 DEF PutSays
  <2>9. /\ v \in Seq(STRING) /\ Len(v) = l - d + e
        /\ (\A j \in 1 .. m + p : v[j] = old[j]) /\ (\A j \in 1 .. e : v[(m + p) + j] = pl[j])
        /\ \A j \in 1 .. l - ((m + p) + d) : v[(m + p) + e + j] = old[(m + p) + d + j]
    <3>1. PICK h : h = m + p  OBVIOUS
    <3>2. h \in Nat /\ h + d <= l
      <4>1. p \in Nat /\ q \in Nat /\ m \in Nat /\ m + a <= l  BY <1>10, <1>19
      <4> QED  BY ONLY <1>3, <2>3, <3>1, <4>1
    <3>3. h \in 0 .. Len(old) /\ h + Len(mi) <= Len(old)  BY <1>3, <2>4, <2>5, <3>2
    <3>4. PutSays(v, old, STRING, h, mi, pl)  BY <2>4, <2>5, <2>6, <2>7, <3>1, <3>3, PutFacts
    <3> QED  BY <1>3, <2>5, <2>6, <3>1, <3>3, <3>4 DEF PutSays
  <2>10. l - d + e = l - a + b
    <3>1. p \in Nat /\ q \in Nat  BY <1>19
    <3> QED  BY ONLY <1>3, <2>3, <3>1
  <2>11. ASSUME NEW i \in 1 .. l - a + b  PROVE u[i] = v[i]
    <3>1. i \in Int /\ 1 <= i /\ i <= l - a + b  BY <1>3
    <3>2. CASE i <= m
      <4>1. i \in 1 .. m /\ i \in 1 .. m + p  BY <1>10, <1>19, <3>1, <3>2
      <4> QED  BY <2>8, <2>9, <4>1
    <3>3. CASE m < i /\ i <= m + p
      <4>1. PICK j : j = i - m  OBVIOUS
      <4>2. j \in 1 .. p /\ j \in 1 .. b /\ j \in 1 .. a /\ m + j = i /\ i \in 1 .. m + p
        BY <1>3, <1>10, <1>19, <3>1, <3>3, <4>1
      <4>3. u[i] = rn[j] /\ v[i] = old[i] /\ old[i] = ro[j] /\ ro[j] = rn[j]  BY <1>15, <1>19, <2>8, <2>9, <4>2
      <4> QED  BY <4>3
    <3>4. CASE m + p < i /\ i <= m + p + e
      <4>1. PICK j, k : j = i - m /\ k = i - (m + p)  OBVIOUS
      <4>2. j \in 1 .. b /\ k \in 1 .. e /\ m + j = i /\ (m + p) + k = i /\ p + k = j
        BY <1>3, <1>10, <1>19, <2>3, <3>1, <3>4, <4>1
      <4>3. u[i] = rn[j] /\ v[i] = pl[k] /\ pl[k] = rn[p + k]  BY <2>6, <2>8, <2>9, <4>2
      <4> QED  BY <4>2, <4>3
    <3>5. CASE m + p + e < i /\ i <= m + b
      <4>1. PICK j, k, g : j = i - m /\ k = i - (m + p + e) /\ g = j - (b - q)  OBVIOUS
      <4>2. j \in 1 .. b /\ m + j = i /\ (m + p) + e + k = i /\ g \in 1 .. q /\ b - q + g = j /\ g = k
        BY <1>3, <1>10, <1>19, <2>3, <3>1, <3>5, <4>1
      <4>3. k \in 1 .. l - ((m + p) + d) /\ (m + p) + d + k = m + (a - q + g) /\ a - q + g \in 1 .. a
        BY <1>3, <1>10, <1>19, <2>3, <4>2
      <4>4. v[i] = old[m + (a - q + g)]  BY <2>9, <4>2, <4>3
      <4>5. old[m + (a - q + g)] = ro[a - q + g]  BY <1>15, <4>3
      <4>6. ro[a - q + g] = rn[j]  BY <1>19, <4>2
      <4>7. u[i] = rn[j]  BY <2>8, <4>2
      <4> QED  BY <4>4, <4>5, <4>6, <4>7
    <3>6. CASE m + b < i
      <4>1. PICK j, k : j = i - (m + b) /\ k = i - (m + p + e)  OBVIOUS
      <4>2. /\ j \in 1 .. l - (m + a) /\ m + b + j = i /\ k \in 1 .. l - ((m + p) + d) /\ (m + p) + e + k = i
            /\ (m + p) + d + k = m + a + j
        BY <1>3, <1>10, <1>19, <2>3, <3>1, <3>6, <4>1
      <4>3. u[i] = old[m + a + j] /\ v[i] = old[(m + p) + d + k]  BY <2>8, <2>9, <4>2
      <4> QED  BY <4>2, <4>3
    <3> QED  BY <1>3, <1>10, <1>19, <2>4, <3>1, <3>2, <3>3, <3>4, <3>5, <3>6
  <2>12. u = v  BY <2>8, <2>9, <2>10, <2>11, SameSeq
  <2> QED  BY <2>2, <2>3, <2>7, <2>12
<1> QED  BY <1>8, <1>14, <1>18, <1>20, <1>21, <1>22

-----------------------------------------------------------------------------
(* The calls *)

\* A call: its request, what it has done so far and a result that is marked when it
\* is cut.  A call about to write is an edit that found its place in what it read.
CallFields(x) ==
    x = [req |-> x.req, at |-> x.at, within |-> x.within, done |-> x.done, base |-> x.base, res |-> x.res]
CallOK(x) ==
    /\ CallFields(x) /\ IsRequest(x.req) /\ x.done \in Nat /\ x.base \in Seq(STRING) /\ Marks(x.res)
    /\ x.req.tool = "grep" => x.done <= Len(Matches)
    /\ x.at = "write" => x.req.tool = "edit" /\ EditResult(x.base, x.req).status = "ok"
CallsOK ==
    /\ text \in Seq(STRING)
    /\ tcall = [c \in ToolCalls |-> tcall[c]]
    /\ \A c \in ToolCalls : CallOK(tcall[c])

(* A step that changes one call to one that is as it should be.            *)
LEMMA OneCall ==
    ASSUME CallsOK, NEW c \in ToolCalls, NEW y, CallOK(y), tcall' = [tcall EXCEPT ![c] = y], text' \in Seq(STRING)
    PROVE  CallsOK'
<1>1. tcall' = [d \in ToolCalls |-> IF d = c THEN y ELSE tcall[d]]  BY DEF CallsOK
<1>2. \A d \in ToolCalls : tcall'[d] = IF d = c THEN y ELSE tcall[d]  BY <1>1
<1>3. \A d \in ToolCalls : CallOK(tcall'[d])  BY <1>2, Zenon DEF CallsOK
<1>4. tcall' = [d \in ToolCalls |-> tcall'[d]]  BY <1>1
<1> QED  BY <1>3, <1>4 DEF CallsOK

(* A call that ends with a result that says what it leaves out.            *)
LEMMA CallEnds ==
    ASSUME CallsOK, NEW c \in ToolCalls, NEW res, Marks(res), Ends(c, res), text' \in Seq(STRING)
    PROVE  CallsOK'
<1>1. PICK x : x = tcall[c]  OBVIOUS
<1>2. CallOK(x)  BY <1>1 DEF CallsOK
<1>3. PICK y : y = [req |-> x.req, at |-> "done", within |-> x.within, done |-> x.done, base |-> x.base, res |-> res]
  OBVIOUS
<1>4. /\ y.req = x.req /\ y.at = "done" /\ y.done = x.done /\ y.base = x.base /\ y.res = res /\ CallFields(y)
      /\ "done" # "write"
  BY <1>3 DEF CallFields
<1>5. CallOK(y)  BY <1>2, <1>4, Zenon DEF CallOK
<1>6. tcall' = [tcall EXCEPT ![c] = y]
  <2>1. CallFields(x)  BY <1>2 DEF CallOK
  <2>2. [[x EXCEPT !.at = "done"] EXCEPT !.res = res] = y
    <3>1. PICK z : z = [req |-> x.req, at |-> "done", within |-> x.within, done |-> x.done, base |-> x.base, res |-> x.res]
      OBVIOUS
    <3>2. [x EXCEPT !.at = "done"] = z  BY <2>1, <3>1 DEF CallFields
    <3>3. [z EXCEPT !.res = res] = y  BY <1>3, <3>1
    <3> QED  BY <3>2, <3>3, Zenon
  <2>3. tcall = [d \in ToolCalls |-> tcall[d]]  BY DEF CallsOK
  <2> QED  BY <1>1, <2>2, <2>3 DEF Ends
<1> QED  BY <1>5, <1>6, OneCall

\* What one call does, without the formatter.
CallStep(c) ==
    \/ execute_tool(c) \/ SpawnFails(c) \/ PluginAnswers(c) \/ execute_daemon_plugin(c)
    \/ EditReads(c) \/ EditWrites(c) \/ write_file(c) \/ ReadFile(c) \/ GlobFiles(c)
    \/ GrepFile(c) \/ GrepEnds(c) \/ CommandWrites(c) \/ CommandExits(c) \/ CommandTimesOut(c)

(* Every step of a call keeps the calls as they should be.                 *)
LEMMA CallsStay ==
    ASSUME CallsOK, NEW c \in ToolCalls, CallStep(c)
    PROVE  CallsOK' /\ fmtr' = fmtr
<1>1. PICK x : x = tcall[c]  OBVIOUS
<1>2. CallOK(x) /\ text \in Seq(STRING)  BY <1>1 DEF CallsOK
<1>3. CallFields(x) /\ IsRequest(x.req) /\ x.done \in Nat /\ x.base \in Seq(STRING)  BY <1>2 DEF CallOK
<1>4. tcall = [d \in ToolCalls |-> tcall[d]]  BY DEF CallsOK
<1>5. CASE execute_tool(c)
  <2>1. PICK w : tcall' = [tcall EXCEPT ![c].at = "run", ![c].within = w]  BY <1>5 DEF execute_tool
  <2>2. PICK y : y = [req |-> x.req, at |-> "run", within |-> w, done |-> x.done, base |-> x.base, res |-> x.res]
    OBVIOUS
  <2>3. /\ y.req = x.req /\ y.at = "run" /\ y.done = x.done /\ y.base = x.base /\ y.res = x.res /\ CallFields(y)
        /\ "run" # "write"
    BY <2>2 DEF CallFields
  <2>4. CallOK(y)  BY <1>2, <2>3, Zenon DEF CallOK
  <2>5. [[x EXCEPT !.at = "run"] EXCEPT !.within = w] = y
    <3>1. PICK z : z = [req |-> x.req, at |-> "run", within |-> x.within, done |-> x.done, base |-> x.base, res |-> x.res]
      OBVIOUS
    <3>2. [x EXCEPT !.at = "run"] = z  BY <1>3, <3>1 DEF CallFields
    <3>3. [z EXCEPT !.within = w] = y  BY <2>2, <3>1
    <3> QED  BY <3>2, <3>3, Zenon
  <2>6. tcall' = [tcall EXCEPT ![c] = y]  BY <1>1, <1>4, <2>1, <2>5
  <2> QED  BY <1>2, <1>5, <2>4, <2>6, OneCall DEF execute_tool, Only
<1>6. CASE SpawnFails(c)
  <2>1. Marks(Result("error"))  BY PlainMarks
  <2> QED  BY <1>2, <1>6, <2>1, CallEnds DEF SpawnFails, Only
<1>7. CASE PluginAnswers(c) \/ execute_daemon_plugin(c)
  <2>1. PICK z : Ends(c, Result(z))  BY <1>7 DEF PluginAnswers, execute_daemon_plugin
  <2>2. Marks(Result(z))  BY PlainMarks
  <2> QED  BY <1>2, <1>7, <2>1, <2>2, CallEnds DEF PluginAnswers, execute_daemon_plugin, Only
<1>8. CASE EditReads(c)
  <2>1. PICK res : res = EditResult(text, x.req)  OBVIOUS
  <2>2. Marks(res)  BY <2>1, PlainMarks, Zenon DEF EditResult
  <2>3. PICK a : a = IF res.status = "ok" THEN "write" ELSE "done"  OBVIOUS
  <2>4. tcall' = [tcall EXCEPT ![c].at = a, ![c].res = res, ![c].base = text]  BY <1>1, <1>8, <2>1, <2>3 DEF EditReads
  <2>5. PICK y : y = [req |-> x.req, at |-> a, within |-> x.within, done |-> x.done, base |-> text, res |-> res]
    OBVIOUS
  <2>6. y.req = x.req /\ y.at = a /\ y.done = x.done /\ y.base = text /\ y.res = res /\ CallFields(y)
    BY <2>5 DEF CallFields
  <2>7. x.req.tool = "edit"  BY <1>1, <1>8 DEF EditReads, Runs, Tool
  <2>8. a = "write" => res.status = "ok"
    <3>1. "done" # "write"  OBVIOUS
    <3> QED  BY <2>3, <3>1, Zenon
  <2>9. CallOK(y)  BY <1>2, <2>1, <2>2, <2>6, <2>7, <2>8, Zenon DEF CallOK
  <2>10. [[[x EXCEPT !.at = a] EXCEPT !.res = res] EXCEPT !.base = text] = y
    <3>1. PICK u, v : /\ u = [req |-> x.req, at |-> a, within |-> x.within, done |-> x.done, base |-> x.base, res |-> x.res]
                      /\ v = [req |-> x.req, at |-> a, within |-> x.within, done |-> x.done, base |-> x.base, res |-> res]
      OBVIOUS
    <3>2. [x EXCEPT !.at = a] = u  BY <1>3, <3>1 DEF CallFields
    <3>3. [u EXCEPT !.res = res] = v  BY <3>1
    <3>4. [v EXCEPT !.base = text] = y  BY <2>5, <3>1
    <3> QED  BY <3>2, <3>3, <3>4, Zenon
  <2>11. tcall' = [tcall EXCEPT ![c] = y]  BY <1>1, <1>4, <2>4, <2>10
  <2> QED  BY <1>2, <1>8, <2>9, <2>11, OneCall DEF EditReads, Only
<1>9. CASE EditWrites(c)
  <2>1. PICK old, r : old = x.base /\ r = x.req  OBVIOUS
  <2>2. r.tool = "edit" /\ EditResult(old, r).status = "ok" /\ IsRequest(r) /\ old \in Seq(STRING)
    BY <1>1, <1>2, <1>3, <1>9, <2>1 DEF EditWrites, CallOK
  <2>3. Replaced(old, r) \in Seq(STRING)  BY <2>2, EditFacts
  <2>4. text' \in Seq(STRING)  BY <1>1, <1>9, <2>1, <2>3 DEF EditWrites
  <2>5. Marks(Result("ok"))  BY PlainMarks
  <2> QED  BY <1>9, <2>4, <2>5, CallEnds DEF EditWrites, Only
<1>10. CASE write_file(c)
  <2>1. text' \in Seq(STRING)  BY <1>1, <1>3, <1>10 DEF write_file, Runs, Tool, IsRequest
  <2>2. Marks(Result("ok"))  BY PlainMarks
  <2> QED  BY <1>10, <2>1, <2>2, CallEnds DEF write_file, Only
<1>11. CASE ReadFile(c)
  <2>1. PICK n, o, l : n = Len(text) /\ o = x.req.offset /\ l = x.req.limit  OBVIOUS
  <2>2. n \in Nat  BY <1>2, <2>1, LenProperties
  <2>3. o \in Nat /\ l \in Nat  BY <1>1, <1>3, <1>11, <2>1 DEF ReadFile, Runs, Tool, IsRequest
  <2>4. Marks(read_lines(n, o, l))  BY <2>2, <2>3, ReadMarks
  <2> QED  BY <1>1, <1>2, <1>11, <2>1, <2>4, CallEnds DEF ReadFile, Only
<1>12. CASE GlobFiles(c)
  <2>1. Len(Matches) \in Nat  BY ToolConstants
  <2>2. Marks(glob_paths(Len(Matches)))  BY <2>1, OtherMarks
  <2> QED  BY <1>2, <1>12, <2>2, CallEnds DEF GlobFiles, Only
<1>13. ASSUME tcall' = [tcall EXCEPT ![c].done = @ + 1], x.req.tool = "grep" => x.done < Len(Matches), text' = text
       PROVE  CallsOK'
  <2>1. PICK k : k = x.done + 1  OBVIOUS
  <2>2. PICK y : y = [req |-> x.req, at |-> x.at, within |-> x.within, done |-> k, base |-> x.base, res |-> x.res]
    OBVIOUS
  <2>3. y.req = x.req /\ y.at = x.at /\ y.done = k /\ y.base = x.base /\ y.res = x.res /\ CallFields(y)
    BY <2>2 DEF CallFields
  <2>4. k \in Nat  BY <1>3, <2>1
  <2>5. x.done < Len(Matches) => k <= Len(Matches)
    <3>1. Len(Matches) \in Nat  BY ToolConstants
    <3> QED  BY <1>3, <2>1, <3>1
  <2>6. CallOK(y)  BY <1>2, <1>13, <2>3, <2>4, <2>5, Zenon DEF CallOK
  <2>7. [x EXCEPT !.done = k] = y  BY <1>3, <2>2 DEF CallFields
  <2>8. tcall' = [tcall EXCEPT ![c] = y]  BY <1>1, <1>4, <1>13, <2>1, <2>7
  <2> QED  BY <1>2, <1>13, <2>6, <2>8, OneCall
<1>14. CASE GrepFile(c)
  <2>1. x.done < Len(Matches)  BY <1>1, <1>14 DEF GrepFile
  <2> QED  BY <1>13, <1>14, <2>1 DEF GrepFile, Only
<1>15. CASE CommandWrites(c)
  <2>1. x.req.tool = "bash"  BY <1>1, <1>15 DEF CommandWrites, Runs, Tool
  <2>2. "bash" # "grep"  OBVIOUS
  <2> QED  BY <1>13, <1>15, <2>1, <2>2 DEF CommandWrites, Only
<1>16. CASE GrepEnds(c)
  <2>1. PICK n, o, l : n = x.done /\ o = x.req.offset /\ l = x.req.limit  OBVIOUS
  <2>2. x.req.tool = "grep"  BY <1>1, <1>16 DEF GrepEnds, Runs, Tool
  <2>3. o \in Nat /\ l \in Nat  BY <1>3, <2>1, <2>2 DEF IsRequest
  <2>4. n \in 0 .. Len(Matches)
    <3>1. x.done <= Len(Matches)  BY <1>2, <2>2 DEF CallOK
    <3> QED  BY <1>3, <2>1, <3>1, ToolConstants
  <2>5. Marks(grep_results(n, o, l))  BY <2>3, <2>4, GrepMarks
  <2> QED  BY <1>1, <1>2, <1>16, <2>1, <2>5, CallEnds DEF GrepEnds, Only
<1>17. CASE CommandExits(c)
  <2>1. Marks(truncate_output(x.done))  BY <1>3, OtherMarks
  <2> QED  BY <1>1, <1>2, <1>17, <2>1, CallEnds DEF CommandExits, Only
<1>18. CASE CommandTimesOut(c)
  <2>1. Marks(Result("timeout"))  BY PlainMarks
  <2> QED  BY <1>2, <1>18, <2>1, CallEnds DEF CommandTimesOut, Only
<1> QED  BY <1>5, <1>6, <1>7, <1>8, <1>9, <1>10, <1>11, <1>12, <1>14, <1>15, <1>16, <1>17, <1>18 DEF CallStep

-----------------------------------------------------------------------------
(* The formatter *)

(* The fields of the formatter's state.                                    *)
FormatterFields(f) ==
    f = [queue |-> f.queue, cur |-> f.cur, input |-> f.input, lines |-> f.lines, up |-> f.up, open |-> f.open,
         got |-> f.got]

\* The dialogue of the task with the process: nothing is on its way, or the one line
\* on its way is the request the task waits for or its answer, unless the process died.
NothingSent(f) == f.cur = <<>> /\ f.input = <<>> /\ f.lines = <<>>
Asked(f, c) ==
    /\ f.cur = <<c>>
    /\ \/ f.input = <<c>> /\ f.lines = <<>>
       \/ f.input = <<>> /\ f.lines = <<c>>
       \/ f.input = <<>> /\ f.lines = <<>> /\ ~f.up
InStep(f) == f.open => NothingSent(f) \/ \E c \in ToolCalls : Asked(f, c)
(* Whoever has a result has its own.                                       *)
OwnOnly(h) == h = [c \in ToolCalls |-> h[c]] /\ \A c \in ToolCalls : h[c] \in ToolCalls => h[c] = c
OwnResults(f) == OwnOnly(f.got)
FormatterOK(f) == FormatterFields(f) /\ f.queue \in Seq(ToolCalls) /\ InStep(f) /\ OwnResults(f)

(* A caller that gets something that is no result of another call.         *)
LEMMA OneAnswer ==
    ASSUME NEW h, OwnOnly(h), NEW c, NEW a, (a \in ToolCalls => a = c), NEW k, k = [h EXCEPT ![c] = a]
    PROVE  OwnOnly(k)
<1>2. h = [d \in ToolCalls |-> h[d]] /\ \A d \in ToolCalls : h[d] \in ToolCalls => h[d] = d  BY DEF OwnOnly
<1>3. k = [d \in ToolCalls |-> IF d = c THEN a ELSE h[d]]  BY <1>2
<1>4. \A d \in ToolCalls : k[d] = IF d = c THEN a ELSE h[d]  BY <1>3
<1>5. \A d \in ToolCalls : k[d] \in ToolCalls => k[d] = d  BY <1>2, <1>4, Zenon
<1>6. k = [d \in ToolCalls |-> k[d]]  BY <1>3
<1> QED  BY <1>5, <1>6 DEF OwnOnly

\* What happens to a request for a formatted result.
FormatStep ==
    \/ \E c \in ToolCalls : format(c) \/ FormatTimesOut(c)
    \/ TaskWrites \/ TaskReads \/ FormatterAnswers \/ FormatterDies

(* Every step of the task, of its process and of a caller keeps them in    *)
(* step; a caller that gives up leaves the task waiting for the line that  *)
(* is still to come.                                                       *)
LEMMA FormatterStays ==
    ASSUME FormatterOK(fmtr), FormatStep
    PROVE  FormatterOK(fmtr') /\ tcall' = tcall /\ text' = text
<1>1. PICK f, g : f = fmtr /\ g = fmtr'  OBVIOUS
<1>2. FormatterFields(f) /\ f.queue \in Seq(ToolCalls) /\ InStep(f) /\ OwnResults(f)  BY <1>1 DEF FormatterOK
<1>3. tcall' = tcall /\ text' = text
  BY DEF FormatStep, format, FormatTimesOut, TaskWrites, TaskReads, FormatterAnswers, FormatterDies
<1>4. "waiting" \notin ToolCalls /\ "unavailable" \notin ToolCalls /\ "timeout" \notin ToolCalls
  BY ToolShape DEF ToolShape, Unanswered
<1>5. ASSUME NEW c \in ToolCalls, format(c)  PROVE FormatterOK(g)
  <2>1. CASE f.open
    <3>1. g = [f EXCEPT !.queue = Append(@, c), !.got[c] = "waiting"]  BY <1>1, <1>5, <2>1 DEF format
    <3>2. PICK q, o : q = Append(f.queue, c) /\ o = [f.got EXCEPT ![c] = "waiting"]  OBVIOUS
    <3>3. g = [queue |-> q, cur |-> f.cur, input |-> f.input, lines |-> f.lines, up |-> f.up, open |-> f.open, got |-> o]
      BY <1>2, <3>1, <3>2 DEF FormatterFields
    <3>4. FormatterFields(g)  BY <3>3 DEF FormatterFields
    <3>5. g.queue = q /\ g.cur = f.cur /\ g.input = f.input /\ g.lines = f.lines /\ g.got = o  BY <3>3
    <3>6. g.up = f.up /\ g.open = f.open  BY <3>3, Zenon
    <3>7. q \in Seq(ToolCalls)  BY <1>2, <3>2
    <3>8. OwnResults(g)
      <4>1. OwnOnly(o)  BY <1>2, <1>4, <3>2, OneAnswer DEF OwnResults
      <4> QED  BY <3>5, <4>1 DEF OwnResults
    <3>9. InStep(g)  BY <1>2, <3>5, <3>6, Zenon DEF InStep, NothingSent, Asked
    <3> QED  BY <3>4, <3>5, <3>7, <3>8, <3>9, Zenon DEF FormatterOK
  <2>2. CASE ~f.open
    <3>1. g = [f EXCEPT !.got[c] = "unavailable"]  BY <1>1, <1>5, <2>2 DEF format
    <3>2. PICK o : o = [f.got EXCEPT ![c] = "unavailable"]  OBVIOUS
    <3>3. g = [queue |-> f.queue, cur |-> f.cur, input |-> f.input, lines |-> f.lines, up |-> f.up, open |-> f.open, got |-> o]
      BY <1>2, <3>1, <3>2 DEF FormatterFields
    <3>4. FormatterFields(g)  BY <3>3 DEF FormatterFields
    <3>5. g.queue = f.queue /\ g.cur = f.cur /\ g.input = f.input /\ g.lines = f.lines /\ g.got = o  BY <3>3
    <3>6. g.up = f.up /\ g.open = f.open  BY <3>3, Zenon
    <3>8. OwnResults(g)
      <4>1. OwnOnly(o)  BY <1>2, <1>4, <3>2, OneAnswer DEF OwnResults
      <4> QED  BY <3>5, <4>1 DEF OwnResults
    <3>9. InStep(g)  BY <1>2, <3>5, <3>6, Zenon DEF InStep, NothingSent, Asked
    <3> QED  BY <1>2, <3>4, <3>5, <3>8, <3>9, Zenon DEF FormatterOK
  <2> QED  BY <2>1, <2>2
<1>6. ASSUME NEW c \in ToolCalls, FormatTimesOut(c)  PROVE FormatterOK(g)
  <2>1. g = [f EXCEPT !.got[c] = "timeout"]  BY <1>1, <1>6 DEF FormatTimesOut
  <2>2. PICK o : o = [f.got EXCEPT ![c] = "timeout"]  OBVIOUS
  <2>3. g = [queue |-> f.queue, cur |-> f.cur, input |-> f.input, lines |-> f.lines, up |-> f.up, open |-> f.open, got |-> o]
    BY <1>2, <2>1, <2>2 DEF FormatterFields
  <2>4. FormatterFields(g)  BY <2>3 DEF FormatterFields
  <2>5. g.queue = f.queue /\ g.cur = f.cur /\ g.input = f.input /\ g.lines = f.lines /\ g.got = o  BY <2>3
  <2>6. g.up = f.up /\ g.open = f.open  BY <2>3, Zenon
  <2>7. OwnResults(g)
    <3>1. OwnOnly(o)  BY <1>2, <1>4, <2>2, OneAnswer DEF OwnResults
    <3> QED  BY <2>5, <3>1 DEF OwnResults
  <2>8. InStep(g)  BY <1>2, <2>5, <2>6, Zenon DEF InStep, NothingSent, Asked
  <2> QED  BY <1>2, <2>4, <2>5, <2>7, <2>8, Zenon DEF FormatterOK
<1>7. ASSUME TaskWrites  PROVE FormatterOK(g)
  <2>1. f.open /\ f.cur = <<>> /\ f.queue # <<>>  BY <1>1, <1>7 DEF TaskWrites
  <2>2. PICK h, t : h = Head(f.queue) /\ t = Tail(f.queue)  OBVIOUS
  <2>3. h \in ToolCalls /\ t \in Seq(ToolCalls)  BY <1>2, <2>1, <2>2
  <2>4. f.input = <<>> /\ f.lines = <<>>
    <3>1. \A c : <<c>> # <<>>  OBVIOUS
    <3> QED  BY <1>2, <2>1, <3>1, Zenon DEF InStep, NothingSent, Asked
  <2>5. CASE f.up
    <3>1. g = [f EXCEPT !.cur = <<h>>, !.queue = t, !.input = Append(f.input, h)]
      BY <1>1, <1>7, <2>2, <2>5 DEF TaskWrites
    <3>2. Append(f.input, h) = <<h>>  BY <2>4
    <3>3. g = [queue |-> t, cur |-> <<h>>, input |-> <<h>>, lines |-> f.lines, up |-> f.up, open |-> f.open, got |-> f.got]
      BY <1>2, <3>1, <3>2 DEF FormatterFields
    <3>4. FormatterFields(g)  BY <3>3 DEF FormatterFields
    <3>5. g.queue = t /\ g.cur = <<h>> /\ g.input = <<h>> /\ g.lines = <<>> /\ g.got = f.got  BY <2>4, <3>3
    <3>6. OwnResults(g)  BY <1>2, <3>5, Zenon DEF OwnResults
    <3>7. InStep(g)  BY <2>3, <3>5, Zenon DEF InStep, Asked
    <3> QED  BY <2>3, <3>4, <3>5, <3>6, <3>7, Zenon DEF FormatterOK
  <2>6. CASE ~f.up
    <3>1. g = [f EXCEPT !.open = FALSE, !.queue = <<>>]  BY <1>1, <1>7, <2>6 DEF TaskWrites
    <3>3. g = [queue |-> <<>>, cur |-> f.cur, input |-> f.input, lines |-> f.lines, up |-> f.up, open |-> FALSE, got |-> f.got]
      BY <1>2, <3>1 DEF FormatterFields
    <3>4. FormatterFields(g)  BY <3>3 DEF FormatterFields
    <3>5. g.queue = <<>> /\ g.got = f.got /\ <<>> \in Seq(ToolCalls)  BY <3>3
    <3>6. OwnResults(g)  BY <1>2, <3>5, Zenon DEF OwnResults
    <3>7. InStep(g)
      <4>1. ~g.open  BY <3>3, Zenon
      <4> QED  BY <4>1 DEF InStep
    <3> QED  BY <3>4, <3>5, <3>6, <3>7, Zenon DEF FormatterOK
  <2> QED  BY <2>5, <2>6
<1>8. ASSUME TaskReads  PROVE FormatterOK(g)
  <2>1. f.open /\ f.cur # <<>>  BY <1>1, <1>8 DEF TaskReads
  <2>2. PICK c \in ToolCalls : Asked(f, c)  BY <1>2, <2>1 DEF InStep, NothingSent
  <2>3. f.cur[1] = c  BY <2>2 DEF Asked
  <2>4. CASE f.lines # <<>>
    <3>1. f.lines = <<c>> /\ f.input = <<>>  BY <2>2, <2>4 DEF Asked
    <3>2. Head(f.lines) = c /\ Tail(f.lines) = <<>>  BY <3>1
    <3>3. PICK a : a = IF f.got[c] = "waiting" THEN c ELSE f.got[c]  OBVIOUS
    <3>4. g = [f EXCEPT !.cur = <<>>, !.lines = <<>>, !.got[c] = a]
      BY <1>1, <1>8, <2>3, <2>4, <3>2, <3>3 DEF TaskReads
    <3>5. PICK o : o = [f.got EXCEPT ![c] = a]  OBVIOUS
    <3>6. g = [queue |-> f.queue, cur |-> <<>>, input |-> f.input, lines |-> <<>>, up |-> f.up, open |-> f.open, got |-> o]
      BY <1>2, <3>4, <3>5 DEF FormatterFields
    <3>7. FormatterFields(g)  BY <3>6 DEF FormatterFields
    <3>8. g.queue = f.queue /\ g.cur = <<>> /\ g.input = <<>> /\ g.lines = <<>> /\ g.got = o  BY <3>1, <3>6
    <3>9. a \in ToolCalls => a = c  BY <1>2, <3>3 DEF OwnResults, OwnOnly
    <3>10. OwnResults(g)
      <4>1. OwnOnly(o)  BY <1>2, <3>5, <3>9, OneAnswer DEF OwnResults
      <4> QED  BY <3>8, <4>1 DEF OwnResults
    <3>11. InStep(g)  BY <3>8, Zenon DEF InStep, NothingSent
    <3> QED  BY <1>2, <3>7, <3>8, <3>10, <3>11, Zenon DEF FormatterOK
  <2>5. CASE f.lines = <<>>
    <3>1. g = [f EXCEPT !.open = FALSE, !.cur = <<>>, !.queue = <<>>]  BY <1>1, <1>8, <2>5 DEF TaskReads
    <3>3. g = [queue |-> <<>>, cur |-> <<>>, input |-> f.input, lines |-> f.lines, up |-> f.up, open |-> FALSE, got |-> f.got]
      BY <1>2, <3>1 DEF FormatterFields
    <3>4. FormatterFields(g)  BY <3>3 DEF FormatterFields
    <3>5. g.queue = <<>> /\ g.got = f.got /\ <<>> \in Seq(ToolCalls)  BY <3>3
    <3>6. OwnResults(g)  BY <1>2, <3>5, Zenon DEF OwnResults
    <3>7. InStep(g)
      <4>1. ~g.open  BY <3>3, Zenon
      <4> QED  BY <4>1 DEF InStep
    <3> QED  BY <3>4, <3>5, <3>6, <3>7, Zenon DEF FormatterOK
  <2> QED  BY <2>4, <2>5
<1>9. ASSUME FormatterAnswers  PROVE FormatterOK(g)
  <2>1. f.up /\ f.input # <<>>  BY <1>1, <1>9 DEF FormatterAnswers
  <2>2. PICK i, l : i = Tail(f.input) /\ l = Append(f.lines, Head(f.input))  OBVIOUS
  <2>3. g = [f EXCEPT !.input = i, !.lines = l]  BY <1>1, <1>9, <2>2 DEF FormatterAnswers
  <2>4. g = [queue |-> f.queue, cur |-> f.cur, input |-> i, lines |-> l, up |-> f.up, open |-> f.open, got |-> f.got]
    BY <1>2, <2>3 DEF FormatterFields
  <2>5. FormatterFields(g)  BY <2>4 DEF FormatterFields
  <2>6. g.queue = f.queue /\ g.cur = f.cur /\ g.input = i /\ g.lines = l /\ g.got = f.got  BY <2>4
  <2>7. OwnResults(g)  BY <1>2, <2>6, Zenon DEF OwnResults
  <2>8. InStep(g)
    <3>1. g.open = f.open  BY <2>4, Zenon
    <3>2. CASE f.open
      <4>1. PICK c \in ToolCalls : Asked(f, c)  BY <1>2, <2>1, <3>2 DEF InStep, NothingSent
      <4>2. f.cur = <<c>> /\ f.input = <<c>> /\ f.lines = <<>>  BY <2>1, <4>1 DEF Asked
      <4>3. i = <<>> /\ l = <<c>>  BY <2>2, <4>2
      <4>4. Asked(g, c)  BY <2>6, <4>2, <4>3 DEF Asked
      <4> QED  BY <4>4 DEF InStep
    <3> QED  BY <3>1, <3>2 DEF InStep
  <2> QED  BY <1>2, <2>5, <2>6, <2>7, <2>8, Zenon DEF FormatterOK
<1>10. ASSUME FormatterDies  PROVE FormatterOK(g)
  <2>1. f.up /\ g = [f EXCEPT !.up = FALSE, !.input = <<>>]  BY <1>1, <1>10 DEF FormatterDies
  <2>2. g = [queue |-> f.queue, cur |-> f.cur, input |-> <<>>, lines |-> f.lines, up |-> FALSE, open |-> f.open, got |-> f.got]
    BY <1>2, <2>1 DEF FormatterFields
  <2>3. FormatterFields(g)  BY <2>2 DEF FormatterFields
  <2>4. g.queue = f.queue /\ g.cur = f.cur /\ g.input = <<>> /\ g.lines = f.lines /\ g.got = f.got  BY <2>2
  <2>5. OwnResults(g)  BY <1>2, <2>4, Zenon DEF OwnResults
  <2>6. g.open = f.open /\ ~g.up  BY <2>2, Zenon
  <2>7. InStep(g)  BY <1>2, <2>4, <2>6, Zenon DEF InStep, NothingSent, Asked
  <2> QED  BY <1>2, <2>3, <2>4, <2>5, <2>7, Zenon DEF FormatterOK
<1> QED  BY <1>1, <1>3, <1>5, <1>6, <1>7, <1>8, <1>9, <1>10 DEF FormatStep

-----------------------------------------------------------------------------
(* The theorem *)

\* The calls and the formatter's dialogue are as they should be.
ToolInv == CallsOK /\ FormatterOK(fmtr)

(* No call has begun and the formatter is idle.                            *)
LEMMA ToolsStart == ToolInit => ToolInv
<1> SUFFICES ASSUME ToolInit  PROVE ToolInv  OBVIOUS
<1>1. PICK turn \in Turns : /\ text = turn.text
                            /\ tcall = [c \in ToolCalls |-> [req |-> turn.req[c], at |-> "ready", within |-> "none",
                                                            done |-> 0, base |-> <<>>, res |-> NoResult]]
  BY DEF ToolInit
<1>2. text \in Seq(STRING) /\ \A c \in ToolCalls : IsRequest(turn.req[c])  BY <1>1, ToolShape DEF ToolShape
<1>3. tcall = [c \in ToolCalls |-> tcall[c]]  BY <1>1
<1>4. ASSUME NEW c \in ToolCalls  PROVE CallOK(tcall[c])
  <2>1. PICK x : x = tcall[c]  OBVIOUS
  <2>2. x = [req |-> turn.req[c], at |-> "ready", within |-> "none", done |-> 0, base |-> <<>>, res |-> NoResult]
    BY <1>1, <2>1
  <2>3. CallFields(x)  BY <2>2 DEF CallFields
  <2>4. x.req = turn.req[c] /\ x.at = "ready" /\ x.done = 0 /\ x.base = <<>> /\ x.res = NoResult /\ "ready" # "write"
    BY <2>2
  <2>5. 0 \in Nat /\ 0 <= Len(Matches) /\ <<>> \in Seq(STRING)  BY ToolConstants
  <2>6. Marks(NoResult)  BY PlainMarks
  <2>7. CallOK(x)  BY <1>2, <2>3, <2>4, <2>5, <2>6, Zenon DEF CallOK
  <2> QED  BY <2>1, <2>7
<1>5. CallsOK  BY <1>2, <1>3, <1>4 DEF CallsOK
<1>6. PICK f : f = fmtr  OBVIOUS
<1>7. f = [queue |-> <<>>, cur |-> <<>>, input |-> <<>>, lines |-> <<>>, up |-> TRUE,
           open |-> TRUE, got |-> [c \in ToolCalls |-> Unsent]]
  BY <1>6 DEF ToolInit
<1>8. FormatterFields(f)  BY <1>7 DEF FormatterFields
<1>9. f.queue = <<>> /\ f.cur = <<>> /\ f.input = <<>> /\ f.lines = <<>> /\ f.got = [c \in ToolCalls |-> Unsent]
  BY <1>7
<1>10. OwnResults(f)
  <2>1. "none" \notin ToolCalls  BY ToolShape DEF ToolShape, Unanswered
  <2>2. PICK h : h = f.got  OBVIOUS
  <2>3. h = [c \in ToolCalls |-> h[c]] /\ \A c \in ToolCalls : h[c] = "none"  BY <1>9, <2>2 DEF Unsent
  <2> QED  BY <2>1, <2>2, <2>3 DEF OwnResults, OwnOnly
<1>11. InStep(f)  BY <1>9, Zenon DEF InStep, NothingSent
<1> QED  BY <1>5, <1>6, <1>8, <1>9, <1>10, <1>11 DEF ToolInv, FormatterOK

(* Every step, of a call or around the formatter.                          *)
LEMMA ToolsStep == ToolInv /\ [ToolNext]_toolVars => ToolInv'
<1> SUFFICES ASSUME ToolInv, [ToolNext]_toolVars  PROVE ToolInv'  OBVIOUS
<1>1. CallsOK /\ FormatterOK(fmtr)  BY DEF ToolInv
<1>2. ASSUME NEW c \in ToolCalls, CallStep(c)  PROVE ToolInv'
  <2>1. CallsOK' /\ fmtr' = fmtr  BY <1>1, <1>2, CallsStay
  <2>2. FormatterOK(fmtr')  BY <1>1, <2>1
  <2> QED  BY <2>1, <2>2 DEF ToolInv
<1>3. ASSUME FormatStep  PROVE ToolInv'
  <2>1. FormatterOK(fmtr') /\ tcall' = tcall /\ text' = text  BY <1>1, <1>3, FormatterStays
  <2>2. CallsOK'  BY <1>1, <2>1 DEF CallsOK
  <2> QED  BY <2>1, <2>2 DEF ToolInv
<1>4. ASSUME UNCHANGED toolVars  PROVE ToolInv'
  <2>1. fmtr' = fmtr /\ tcall' = tcall /\ text' = text  BY <1>4 DEF toolVars
  <2>2. CallsOK' /\ FormatterOK(fmtr')  BY <1>1, <2>1 DEF CallsOK
  <2> QED  BY <2>2 DEF ToolInv
<1>5. ToolNext => FormatStep \/ \E c \in ToolCalls : CallStep(c)  BY DEF ToolNext, FormatStep, CallStep
<1> QED  BY <1>2, <1>3, <1>4, <1>5

(* What the model is told of its calls follows.                            *)
LEMMA ToolsTrue == ToolInv => ToolResultsTrue
<1> SUFFICES ASSUME ToolInv  PROVE ToolResultsTrue  OBVIOUS
<1>1. \A c \in ToolCalls : CallOK(tcall[c])  BY DEF ToolInv, CallsOK
<1>2. CutsAreMarked  BY <1>1 DEF CutsAreMarked, CallOK, Marks
<1>3. AnswerIsOwn  BY DEF AnswerIsOwn, ToolInv, FormatterOK, OwnResults, OwnOnly
<1>4. SnippetTrue
  <2> SUFFICES ASSUME NEW c \in ToolCalls, tcall[c].at = "write"
               PROVE  LET r == tcall[c].req
                          old == tcall[c].base
                          snip == SnippetOf(old, r)
                          cs == Common(r.old, r.new)
                          at == First(matches(r.old, old)) + cs[1]
                      IN  /\ Cardinality(matches(r.old, old)) = 1 =>
                                Replaced(old, r) = PutLines(old, at, LinesOf(snip, "-"), LinesOf(snip, "+"))
                          /\ \A i \in 1..Len(snip) :
                                snip[i][3] = IF snip[i][1] = "-" THEN old[snip[i][2]]
                                             ELSE Replaced(old, r)[snip[i][2]]
                          /\ edit_summary(r.old, r.new) = <<Count(snip, "-"), Count(snip, "+")>>
    BY DEF SnippetTrue
  <2>1. PICK r, old : r = tcall[c].req /\ old = tcall[c].base  OBVIOUS
  <2>2. IsRequest(r) /\ r.tool = "edit" /\ EditResult(old, r).status = "ok" /\ old \in Seq(STRING)
    BY <1>1, <2>1 DEF CallOK
  <2>3. PICK new, snip, cs, at : new = Replaced(old, r) /\ snip = SnippetOf(old, r) /\ cs = Common(r.old, r.new)
                                   /\ at = matches(r.old, old)
    OBVIOUS
  <2>4. /\ Cardinality(at) = 1 => new = PutLines(old, First(at) + cs[1], LinesOf(snip, "-"), LinesOf(snip, "+"))
        /\ Tells(snip, old, new)
        /\ edit_summary(r.old, r.new) = <<Count(snip, "-"), Count(snip, "+")>>
    BY <2>2, <2>3, EditFacts
  <2>5. \A i \in 1 .. Len(snip) : snip[i][3] = IF snip[i][1] = "-" THEN old[snip[i][2]] ELSE new[snip[i][2]]
    BY <2>4 DEF Tells
  <2> QED  BY <2>1, <2>3, <2>4, <2>5, Zenon
<1> QED  BY <1>2, <1>3, <1>4 DEF ToolResultsTrue

(* In every state each call is as it should be, the text is a sequence of  *)
(* lines, and the formatter's task waits for the answer of the request it  *)
(* wrote last (omnish-plugin's tools, formatter_mgr.rs).                   *)
THEOREM ToolInvHolds == ToolSpec => []ToolInv
<1> QED  BY ToolsStart, ToolsStep, PTL DEF ToolSpec

(* What a model is told of its calls is true, for every content, edit,     *)
(* limit and number of calls: the snippet of an edit turns what the tool   *)
(* read into what it wrote, its lines stand at their numbers and the       *)
(* summary counts them; whatever was cut is marked; and a formatted result *)
(* is that of its own call, also after timeouts (tools/edit.rs             *)
(* build_context_snippet, read.rs, grep.rs, glob.rs, bash.rs,              *)
(* formatter_mgr.rs).                                                      *)
THEOREM ToolResultsHold == ToolSpec => []ToolResultsTrue
<1> QED  BY ToolInvHolds, ToolsTrue, PTL

-----------------------------------------------------------------------------
(* The distribution of packages.                                           *)

Messages == [seq : Nat, sum : {"none", "whole"}, data : Nat, done : BOOLEAN, error : BOOLEAN]

(* The records of a client's task t and of the handler s that serves it.   *)
TaskShape(t) ==
    /\ t = [kind |-> t.kind, version |-> t.version, file |-> t.file, sum |-> t.sum, done |-> t.done]
    /\ t.done \in BOOLEAN
HandlerShape(s) ==
    /\ s = [at |-> s.at, version |-> s.version, seq |-> s.seq]
    /\ s.seq \in Nat
    /\ s.at \in {"asked", "open"} => s.seq = 0

(* The first chunk carries the checksum, on whatever stream it is.         *)
FirstsCarrySum(w) ==
    /\ w \in Seq(Messages)
    /\ \A i \in 1 .. Len(w) : ~w[i].error /\ w[i].seq = 0 => w[i].sum = "whole"

(* A download knows its checksum or will read it with the next chunk.      *)
SumComes(t, s, w) ==
    t.kind = "download" =>
        \/ t.sum = "whole"
        \/ ~t.done /\ (IF w = <<>> THEN s.seq = 0 ELSE w[1].error \/ w[1].seq = 0)

StreamOK(t, s, w) == TaskShape(t) /\ HandlerShape(s) /\ FirstsCarrySum(w) /\ SumComes(t, s, w)

ClientShape ==
    /\ cli = [c \in UpdClients |-> cli[c]] /\ srv = [c \in UpdClients |-> srv[c]]
    /\ wire = [c \in UpdClients |-> wire[c]]
    /\ \A c \in UpdClients :
         cli[c] = [running |-> cli[c].running, linked |-> cli[c].linked,
                   needed |-> cli[c].needed, task |-> cli[c].task]

CacheShape == pkgs = [h \in Hosts |-> [p \in Platforms |-> pkgs[h][p]]]

(* The inductive invariant.                                                *)
DistInv ==
    /\ CacheShape /\ WholePackages /\ ClientShape
    /\ \A c \in UpdClients : StreamOK(cli[c].task, srv[c], wire[c])

-----------------------------------------------------------------------------
(* One client's stream.                                                    *)

(* What a message appended to a stream has to be.                          *)
LEMMA Appending ==
    ASSUME NEW t, NEW s, NEW w, NEW r, NEW m \in Messages, StreamOK(t, s, w),
           ~m.error /\ m.seq = 0 => m.sum = "whole",
           m.error \/ m.seq = s.seq, HandlerShape(r)
    PROVE  StreamOK(t, r, Append(w, m))
<1> PICK v : v = Append(w, m)  OBVIOUS
<1>1. /\ v \in Seq(Messages) /\ Len(v) = Len(w) + 1 /\ v # <<>>
      /\ v[Len(v)] = m /\ \A i \in 1 .. Len(w) : v[i] = w[i]
  BY DEF StreamOK, FirstsCarrySum
<1>2. FirstsCarrySum(v)
  <2> SUFFICES ASSUME NEW i \in 1 .. Len(v), ~v[i].error, v[i].seq = 0  PROVE v[i].sum = "whole"
    BY <1>1 DEF FirstsCarrySum
  <2>1. CASE i = Len(v)  BY <1>1, <2>1
  <2>2. CASE i # Len(v)  BY <1>1, <2>2 DEF StreamOK, FirstsCarrySum
  <2> QED  BY <2>1, <2>2
<1>3. SumComes(t, r, v)
  <2>1. CASE w = <<>>
    <3>1. v[1] = m  BY <1>1, <2>1
    <3> QED  BY <1>1, <2>1, <3>1 DEF StreamOK, SumComes
  <2>2. CASE w # <<>>
    <3>1. v[1] = w[1]  BY <1>1, <2>2 DEF StreamOK, FirstsCarrySum
    <3> QED  BY <1>1, <2>2, <3>1 DEF StreamOK, SumComes
  <2> QED  BY <2>1, <2>2
<1> QED  BY <1>2, <1>3 DEF StreamOK

(* A stream whose handler is done.                                         *)
LEMMA Ended ==
    ASSUME NEW t, NEW s, NEW w, StreamOK(t, s, w)
    PROVE  StreamOK(t, Idle, w)
BY DEF StreamOK, SumComes, HandlerShape, Idle

(* A task that does not download reads nothing.                            *)
LEMMA NotDownloading ==
    ASSUME NEW t, NEW s, NEW w, NEW u, StreamOK(t, s, w), TaskShape(u), u.kind # "download"
    PROVE  StreamOK(u, s, w)
BY DEF StreamOK, SumComes

(* An error and the done marker that follows it.                           *)
LEMMA Failing ==
    ASSUME NEW t, NEW s, NEW w, StreamOK(t, s, w)
    PROVE  StreamOK(t, Idle, w \o send_update_error(0))
<1> PICK e, d : /\ e = [seq |-> 0, sum |-> "none", data |-> 0, done |-> FALSE, error |-> TRUE]
                /\ d = [seq |-> 1, sum |-> "none", data |-> 0, done |-> TRUE, error |-> FALSE]
  OBVIOUS
<1>1. e \in Messages /\ e.error /\ d \in Messages /\ ~d.error /\ d.seq = 1  BY DEF Messages
<1>2. StreamOK(t, s, Append(w, e))  BY <1>1, Appending DEF StreamOK
<1> PICK v : v = w \o send_update_error(0)  OBVIOUS
<1>3. send_update_error(0) = <<e, d>>  BY DEF send_update_error
<1>4. /\ v \in Seq(Messages) /\ Len(v) = Len(w) + 2
      /\ \A i \in 1 .. Len(w) : v[i] = w[i]
      /\ v[Len(w) + 1] = e /\ v[Len(w) + 2] = d
  <2>1. PICK x : x = <<e, d>>  OBVIOUS
  <2>2. x \in Seq(Messages) /\ Len(x) = 2 /\ x[1] = e /\ x[2] = d  BY <1>1, <2>1
  <2>3. w \in Seq(Messages) /\ v = w \o x  BY <1>3, <2>1 DEF StreamOK, FirstsCarrySum
  <2>4. /\ v \in Seq(Messages) /\ Len(v) = Len(w) + 2 /\ Len(w) \in Nat
        /\ \A i \in 1 .. Len(w) : v[i] = w[i]
        /\ v[Len(w) + 1] = x[1] /\ v[Len(w) + 2] = x[2]
    <3>1. \A i \in 1 .. Len(w) + Len(x) : v[i] = IF i <= Len(w) THEN w[i] ELSE x[i - Len(w)]
      BY <2>2, <2>3, ConcatProperties
    <3>2. v \in Seq(Messages) /\ Len(v) = Len(w) + Len(x)  BY <2>2, <2>3, ConcatProperties
    <3>3. Len(w) \in Nat  BY <2>3
    <3>4. \A i \in 1 .. Len(w) : v[i] = w[i]  BY <2>2, <3>1, <3>3
    <3>5. PICK n \in Nat : n = Len(w)  BY <3>3
    <3>6. PICK k, l : k = n + 1 /\ l = n + 2  OBVIOUS
    <3>7. /\ k \in 1 .. n + 2 /\ ~(k <= n) /\ k - n = 1
          /\ l \in 1 .. n + 2 /\ ~(l <= n) /\ l - n = 2
      BY <3>6
    <3>8. \A i \in 1 .. n + 2 : v[i] = IF i <= n THEN w[i] ELSE x[i - n]  BY <2>2, <3>1, <3>5
    <3>9. v[k] = x[1] /\ v[l] = x[2]  BY ONLY <3>7, <3>8
    <3>10. v[Len(w) + 1] = x[1] /\ v[Len(w) + 2] = x[2]  BY <3>5, <3>6, <3>9
    <3> QED  BY <2>2, <3>2, <3>3, <3>4, <3>10
  <2> QED  BY <2>2, <2>4
<1>5. FirstsCarrySum(v)
  <2> SUFFICES ASSUME NEW i \in 1 .. Len(v), ~v[i].error, v[i].seq = 0  PROVE v[i].sum = "whole"
    BY <1>4 DEF FirstsCarrySum
  <2>w. Len(w) \in Nat  BY DEF StreamOK, FirstsCarrySum
  <2>1. i \in 1 .. Len(w)  BY <1>1, <1>4, <2>w
  <2> QED  BY <1>4, <2>1 DEF StreamOK, FirstsCarrySum
<1>6. SumComes(t, Idle, v)
  <2>w. Len(w) \in Nat /\ (w # <<>> => Len(w) > 0) /\ (w = <<>> => Len(w) = 0)
    BY DEF StreamOK, FirstsCarrySum
  <2>1. CASE w = <<>>
    <3>1. v[1] = e /\ v # <<>>  BY <1>4, <2>1, <2>w
    <3> QED  BY <1>1, <2>1, <3>1 DEF StreamOK, SumComes
  <2>2. CASE w # <<>>
    <3>1. v[1] = w[1] /\ v # <<>>  BY <1>4, <2>2, <2>w
    <3> QED  BY <2>2, <3>1 DEF StreamOK, SumComes
  <2> QED  BY <2>1, <2>2
<1> QED  BY <1>5, <1>6, Ended DEF StreamOK

(* A message that is no error is read.                                     *)
LEMMA Reading ==
    ASSUME NEW t, NEW s, NEW w, NEW u, StreamOK(t, s, w), w # <<>>, ~t.done, t.kind = "download",
           ~w[1].error, TaskShape(u), u.kind = "download",
           u.sum = IF w[1].seq = 0 THEN w[1].sum ELSE t.sum
    PROVE  StreamOK(u, s, Tail(w))
<1> PICK v : v = Tail(w)  OBVIOUS
<1>1. /\ v \in Seq(Messages) /\ Len(v) = Len(w) - 1 /\ Len(w) \in Nat /\ Len(w) > 0
      /\ \A i \in 1 .. Len(v) : v[i] = w[i + 1]
  BY DEF StreamOK, FirstsCarrySum
<1>2. FirstsCarrySum(v)
  <2> SUFFICES ASSUME NEW i \in 1 .. Len(v), ~v[i].error, v[i].seq = 0  PROVE v[i].sum = "whole"
    BY <1>1 DEF FirstsCarrySum
  <2>1. v[i] = w[i + 1] /\ i + 1 \in 1 .. Len(w)  BY <1>1
  <2> QED  BY <2>1 DEF StreamOK, FirstsCarrySum
<1>3. u.sum = "whole"
  <2>1. w[1].seq = 0 => w[1].sum = "whole"  BY <1>1 DEF StreamOK, FirstsCarrySum
  <2> QED  BY <2>1 DEF StreamOK, SumComes
<1> QED  BY <1>2, <1>3 DEF StreamOK, SumComes

-----------------------------------------------------------------------------
(* The steps.                                                              *)

(* A step that gives client c the task t, the handler s and the stream w,  *)
(* and the others nothing new.                                             *)
LEMMA ClientStepKeeps ==
    ASSUME DistInv, NEW c \in UpdClients, NEW x, NEW s, NEW w,
           cli' = [cli EXCEPT ![c] = x], srv' = [srv EXCEPT ![c] = s], wire' = [wire EXCEPT ![c] = w],
           x = [running |-> x.running, linked |-> x.linked, needed |-> x.needed, task |-> x.task],
           StreamOK(x.task, s, w)
    PROVE  ClientShape' /\ \A d \in UpdClients : StreamOK(cli[d].task, srv[d], wire[d])'
<1>1. /\ DOMAIN cli = UpdClients /\ DOMAIN srv = UpdClients /\ DOMAIN wire = UpdClients
      /\ \A d \in UpdClients : cli[d] = [running |-> cli[d].running, linked |-> cli[d].linked,
                                         needed |-> cli[d].needed, task |-> cli[d].task]
  BY DEF DistInv, ClientShape
<1>2. /\ cli'[c] = x /\ srv'[c] = s /\ wire'[c] = w
      /\ \A d \in UpdClients \ {c} : cli'[d] = cli[d] /\ srv'[d] = srv[d] /\ wire'[d] = wire[d]
  BY <1>1
<1>3. ClientShape'
  <2>1. /\ cli' = [d \in UpdClients |-> cli'[d]] /\ srv' = [d \in UpdClients |-> srv'[d]]
        /\ wire' = [d \in UpdClients |-> wire'[d]]
    BY <1>1
  <2>2. ASSUME NEW d \in UpdClients
        PROVE  cli'[d] = [running |-> cli'[d].running, linked |-> cli'[d].linked,
                          needed |-> cli'[d].needed, task |-> cli'[d].task]
    BY <1>1, <1>2
  <2> QED  BY <2>1, <2>2 DEF ClientShape
<1>4. ASSUME NEW d \in UpdClients  PROVE StreamOK(cli'[d].task, srv'[d], wire'[d])
  <2>1. CASE d = c  BY <1>2, <2>1
  <2>2. CASE d # c
    <3>1. StreamOK(cli[d].task, srv[d], wire[d])  BY DEF DistInv
    <3>2. cli'[d] = cli[d] /\ srv'[d] = srv[d] /\ wire'[d] = wire[d]  BY <1>2, <2>2
    <3> QED  BY <3>1, <3>2
  <2> QED  BY <2>1, <2>2
<1> QED  BY <1>3, <1>4

(* A step that changes the packages of one directory.                      *)
LEMMA CacheStepKeeps ==
    ASSUME DistInv, NEW h \in Hosts, NEW p \in Platforms, NEW ps,
           pkgs' = [pkgs EXCEPT ![h][p] = ps], \A q \in ps : q.data = Whole
    PROVE  CacheShape' /\ WholePackages'
<1>1. \A g \in Hosts : DOMAIN pkgs[g] = Platforms  BY DEF DistInv, CacheShape
<1>2. DOMAIN pkgs = Hosts  BY DEF DistInv, CacheShape
<1>3. \A g \in Hosts, o \in Platforms : pkgs'[g][o] = IF g = h /\ o = p THEN ps ELSE pkgs[g][o]
  BY <1>1, <1>2
<1>4. \A g \in Hosts : pkgs'[g] = [o \in Platforms |-> pkgs'[g][o]]
  BY <1>1, <1>2 DEF DistInv, CacheShape
<1>5. CacheShape'  BY <1>2, <1>4 DEF CacheShape
<1>6. WholePackages'  BY <1>3 DEF DistInv, WholePackages
<1> QED  BY <1>5, <1>6

(* A step that leaves the packages or the streams alone.                   *)
LEMMA Untouched ==
    ASSUME DistInv
    PROVE  /\ UNCHANGED pkgs => CacheShape' /\ WholePackages'
           /\ UNCHANGED <<cli, srv, wire>> =>
                ClientShape' /\ \A d \in UpdClients : StreamOK(cli[d].task, srv[d], wire[d])'
<1>1. ASSUME UNCHANGED pkgs  PROVE CacheShape' /\ WholePackages'
  BY <1>1 DEF DistInv, CacheShape, WholePackages
<1>2. ASSUME UNCHANGED <<cli, srv, wire>>
      PROVE  ClientShape' /\ \A d \in UpdClients : StreamOK(cli[d].task, srv[d], wire[d])'
  <2>1. ClientShape'  BY <1>2 DEF DistInv, ClientShape
  <2>2. \A d \in UpdClients : StreamOK(cli'[d].task, srv'[d], wire'[d])  BY <1>2 DEF DistInv
  <2> QED  BY <2>1, <2>2
<1> QED  BY <1>1, <1>2

(* The packages that stay after pruning are some of those before.          *)
LEMMA PruneKeepsSome ==
    ASSUME NEW ps
    PROVE  prune_packages(ps) \subseteq ps
BY DEF prune_packages

(* The timers, the release and the auto_update job.                        *)
LEMMA DaemonKeeps ==
    ASSUME DistInv, \/ Publish \/ GraceEnds \/ JobStep
                    \/ \E h \in Hosts : CooldownEnds(h)
    PROVE  DistInv'
<1>l. LocalHost \in Hosts  BY UpdateShape DEF Hosts
<1>w. \A v : Package(v).data = Whole  BY DEF Package
<1>1. CASE \/ Publish \/ GraceEnds \/ JobStart \/ JobLooks \/ JobInstalls \/ JobInstallFails
           \/ \E h \in Hosts : CooldownEnds(h)
           \/ \E p \in Platforms : JobFetchFails(p)
  <2>1. UNCHANGED pkgs /\ UNCHANGED <<cli, srv, wire>>
    BY <1>1 DEF Publish, GraceEnds, JobStart, JobLooks, JobInstalls, JobInstallFails, CooldownEnds,
         JobFetchFails
  <2> QED  BY <2>1, Untouched DEF DistInv
<1>2. ASSUME NEW p \in Platforms, JobCopies(p) \/ JobDownloads(p) \/ JobRenames(p)
      PROVE  DistInv'
  <2>1. UNCHANGED <<cli, srv, wire>>  BY <1>2 DEF JobCopies, JobDownloads, JobRenames
  <2>2. PICK old : old = pkgs[LocalHost][p]  OBVIOUS
  <2>3. \A q \in old : q.data = Whole  BY <1>l, <2>2 DEF DistInv, WholePackages
  <2>4. CacheShape' /\ WholePackages'
    <3>1. CASE JobCopies(p)
      <4> PICK ps : ps = IF HasNewer(p, released) THEN old
                         ELSE prune_packages(old \cup {Package(released)})
        OBVIOUS
      <4>1. pkgs' = [pkgs EXCEPT ![LocalHost][p] = ps]
        BY <3>1, <2>2 DEF JobCopies, download_from_local_dir
      <4>2. \A q \in ps : q.data = Whole
        BY <1>w, <2>3, PruneKeepsSome
      <4> QED  BY <1>l, <4>1, <4>2, CacheStepKeeps
    <3>2. CASE JobDownloads(p)
      <4> PICK ps : ps = {}  OBVIOUS
      <4>1. UNCHANGED pkgs \/ pkgs' = [pkgs EXCEPT ![LocalHost][p] = ps]
        BY <3>2 DEF JobDownloads, download_from_github, RemoveOld
      <4>2. \A q \in ps : q.data = Whole  OBVIOUS
      <4> QED  BY <1>l, <4>1, <4>2, CacheStepKeeps, Untouched
    <3>3. CASE JobRenames(p)
      <4> PICK ps : ps = {Package(job.found)}  OBVIOUS
      <4>1. pkgs' = [pkgs EXCEPT ![LocalHost][p] = ps]  BY <3>3 DEF JobRenames
      <4>2. \A q \in ps : q.data = Whole  BY <1>w
      <4> QED  BY <1>l, <4>1, <4>2, CacheStepKeeps
    <3> QED  BY <1>2, <3>1, <3>2, <3>3
  <2> QED  BY <2>1, <2>4, Untouched DEF DistInv
<1>3. CASE Restart
  <2>1. UNCHANGED pkgs /\ UNCHANGED wire  BY <1>3 DEF Restart
  <2>2. /\ cli' = [c \in UpdClients |-> [cli[c] EXCEPT !.linked = FALSE]]
        /\ srv' = [c \in UpdClients |-> Idle]
    BY <1>3 DEF Restart
  <2>3. ASSUME NEW c \in UpdClients
        PROVE  /\ cli'[c] = [running |-> cli'[c].running, linked |-> cli'[c].linked,
                              needed |-> cli'[c].needed, task |-> cli'[c].task]
               /\ cli'[c].task = cli[c].task
    <3>1. PICK r, l, n, t : cli[c] = [running |-> r, linked |-> l, needed |-> n, task |-> t]
      BY DEF DistInv, ClientShape
    <3>x. PICK x : x = cli[c]  OBVIOUS
    <3>y. cli'[c] = [x EXCEPT !.linked = FALSE]  BY <2>2, <3>x
    <3>z. x = [running |-> r, linked |-> l, needed |-> n, task |-> t]  BY <3>1, <3>x
    <3>2. cli'[c] = [running |-> r, linked |-> FALSE, needed |-> n, task |-> t]  BY ONLY <3>y, <3>z
    <3> QED  BY <3>1, <3>2
  <2>4. ClientShape'
    <3>1. cli' = [c \in UpdClients |-> cli'[c]] /\ srv' = [c \in UpdClients |-> srv'[c]]  BY <2>2
    <3>2. wire' = [c \in UpdClients |-> wire'[c]]  BY <2>1 DEF DistInv, ClientShape
    <3> QED  BY <2>3, <3>1, <3>2 DEF ClientShape
  <2>5. ASSUME NEW c \in UpdClients  PROVE StreamOK(cli'[c].task, srv'[c], wire'[c])
    <3>1. StreamOK(cli[c].task, Idle, wire[c])  BY Ended DEF DistInv
    <3>2. cli'[c].task = cli[c].task /\ srv'[c] = Idle /\ wire'[c] = wire[c]  BY <2>1, <2>2, <2>3
    <3> QED  BY <3>1, <3>2
  <2> QED  BY <2>1, <2>4, <2>5, Untouched DEF DistInv
<1> QED  BY <1>1, <1>2, <1>3 DEF JobStep

(* The handlers of UpdateRequest.                                          *)
LEMMA ServerKeeps ==
    ASSUME DistInv, NEW c \in UpdClients, ServerStep(c)
    PROVE  DistInv'
<1>p. UNCHANGED pkgs
  BY DEF ServerStep, handle_update_request, ChecksumPackage, stream_chunks, StreamReadError
<1>c. UNCHANGED cli
  BY DEF ServerStep, handle_update_request, ChecksumPackage, stream_chunks, StreamReadError
<1> PICK x, s, w : x = cli[c] /\ s = srv[c] /\ w = wire[c]  OBVIOUS
<1>x. x = [running |-> x.running, linked |-> x.linked, needed |-> x.needed, task |-> x.task]
  BY DEF DistInv, ClientShape
<1>y. cli' = [cli EXCEPT ![c] = x]  BY <1>c DEF DistInv, ClientShape
<1>o. StreamOK(x.task, s, w)  BY DEF DistInv
<1>s. HandlerShape(s) /\ s = [at |-> s.at, version |-> s.version, seq |-> s.seq] /\ s.seq \in Nat
  BY <1>o DEF StreamOK, HandlerShape
<1>d. DOMAIN srv = UpdClients /\ wire = [wire EXCEPT ![c] = w]  BY DEF DistInv, ClientShape
<1>1. ASSUME NEW r, NEW v, srv' = [srv EXCEPT ![c] = r], wire' = [wire EXCEPT ![c] = v],
             StreamOK(x.task, r, v)
      PROVE  DistInv'
  <2>1. ClientShape' /\ \A d \in UpdClients : StreamOK(cli[d].task, srv[d], wire[d])'
    BY <1>1, <1>x, <1>y, ClientStepKeeps
  <2> QED  BY <1>p, <2>1, Untouched DEF DistInv
(* An error is sent.                                                       *)
<1>2. ASSUME srv' = [srv EXCEPT ![c] = Idle], Send(c, send_update_error(0))  PROVE DistInv'
  <2> PICK r, v : r = Idle /\ v = w \o send_update_error(0)  OBVIOUS
  <2>1. wire' = [wire EXCEPT ![c] = v]  BY <1>2 DEF Send
  <2>2. StreamOK(x.task, r, v)  BY <1>o, Failing
  <2> QED  BY <1>1, <1>2, <2>1, <2>2
(* The handler goes on to another place.                                   *)
<1>3. ASSUME NEW a, srv' = [srv EXCEPT ![c].at = a], UNCHANGED wire,
             s.at \in {"asked", "open"}
      PROVE  DistInv'
  <2>r. PICK r : r = [at |-> a, version |-> s.version, seq |-> s.seq]  OBVIOUS
  <2>1. [s EXCEPT !.at = a] = r  BY ONLY <1>s, <2>r
  <2>2. srv' = [srv EXCEPT ![c] = r]
    <3>1. srv' = [srv EXCEPT ![c] = [s EXCEPT !.at = a]]  BY <1>3
    <3> QED  BY <2>1, <3>1
  <2>3. HandlerShape(r)  BY <1>s, <1>3, <2>r DEF HandlerShape
  <2>4. StreamOK(x.task, r, w)
    BY <1>o, <2>3, <2>r DEF StreamOK, SumComes
  <2>5. wire' = [wire EXCEPT ![c] = w]  BY <1>3, <1>d
  <2> QED  BY <1>1, <2>2, <2>4, <2>5
(* A chunk is sent.                                                        *)
<1>4. ASSUME NEW b, NEW d, NEW r, b \in Nat, d \in BOOLEAN, HandlerShape(r),
             srv' = [srv EXCEPT ![c] = r], Send(c, <<Chunk(s.seq, b, d)>>)
      PROVE  DistInv'
  <2> PICK m : m = Chunk(s.seq, b, d)  OBVIOUS
  <2>1. m \in Messages /\ ~m.error /\ m.seq = s.seq /\ (m.seq = 0 => m.sum = "whole")
    BY <1>s, <1>4 DEF Chunk, Messages
  <2> PICK v : v = Append(w, m)  OBVIOUS
  <2>2. StreamOK(x.task, r, v)  BY <1>o, <1>4, <2>1, Appending
  <2>3. wire' = [wire EXCEPT ![c] = v]
    <3>1. w \in Seq(Messages)  BY <1>o DEF StreamOK, FirstsCarrySum
    <3>2. w \o <<m>> = v  BY <2>1, <3>1
    <3>3. wire' = [wire EXCEPT ![c] = w \o <<m>>]  BY <1>4 DEF Send
    <3> QED  BY <3>2, <3>3
  <2> QED  BY <1>1, <1>4, <2>2, <2>3
<1>5. CASE handle_update_request(c)
  <2>1. s.at = "asked"  BY <1>5 DEF handle_update_request
  <2>2. \/ srv' = [srv EXCEPT ![c] = Idle] /\ Send(c, send_update_error(0))
        \/ srv' = [srv EXCEPT ![c].at = "open"] /\ UNCHANGED wire
    BY <1>5 DEF handle_update_request
  <2> QED  BY <1>2, <1>3, <2>1, <2>2
<1>6. CASE ChecksumPackage(c)
  <2>1. s.at = "open"  BY <1>6 DEF ChecksumPackage
  <2>2. \/ srv' = [srv EXCEPT ![c] = Idle] /\ Send(c, send_update_error(0))
        \/ srv' = [srv EXCEPT ![c].at = "stream"] /\ UNCHANGED wire
    BY <1>6 DEF ChecksumPackage
  <2> QED  BY <1>2, <1>3, <2>1, <2>2
<1>7. CASE stream_chunks(c)
  <2>1. CASE Send(c, <<Chunk(s.seq, s.seq + 1, FALSE)>>) /\ srv' = [srv EXCEPT ![c].seq = s.seq + 1]
    <3>r. PICK r : r = [at |-> s.at, version |-> s.version, seq |-> s.seq + 1]  OBVIOUS
    <3>1. [s EXCEPT !.seq = s.seq + 1] = r  BY ONLY <1>s, <3>r
    <3>2. srv' = [srv EXCEPT ![c] = r]
      <4>1. srv' = [srv EXCEPT ![c] = [s EXCEPT !.seq = s.seq + 1]]  BY <2>1
      <4> QED  BY <3>1, <4>1
    <3>3. s.at = "stream"  BY <1>7 DEF stream_chunks
    <3>4. HandlerShape(r) /\ s.seq + 1 \in Nat  BY <1>s, <3>3, <3>r DEF HandlerShape
    <3> QED  BY <1>4, <2>1, <3>2, <3>4
  <2>2. CASE Send(c, <<Chunk(s.seq, 0, TRUE)>>) /\ srv' = [srv EXCEPT ![c] = Idle]
    <3>1. HandlerShape(Idle)  BY DEF HandlerShape, Idle
    <3> QED  BY <1>4, <2>2, <3>1
  <2> QED  BY <1>7, <2>1, <2>2 DEF stream_chunks
<1>8. CASE StreamReadError(c)  BY <1>2, <1>8 DEF StreamReadError
<1> QED  BY <1>5, <1>6, <1>7, <1>8 DEF ServerStep

(* The client: its connection, its download and its installation.          *)
LEMMA ClientKeeps ==
    ASSUME DistInv, NEW c \in UpdClients, ClientStep(c)
    PROVE  DistInv'
<1> PICK x, s, w : x = cli[c] /\ s = srv[c] /\ w = wire[c]  OBVIOUS
<1> PICK t : t = x.task  OBVIOUS
<1>x. PICK a, l, n : x = [running |-> a, linked |-> l, needed |-> n, task |-> t]
  BY DEF DistInv, ClientShape
<1>o. StreamOK(t, s, w)  BY DEF DistInv
<1>t. TaskShape(t) /\ TaskShape(NoTask) /\ NoTask.kind = "none"
  BY <1>o DEF StreamOK, TaskShape, NoTask
<1>d. /\ srv = [srv EXCEPT ![c] = s] /\ wire = [wire EXCEPT ![c] = w]
      /\ DOMAIN cli = UpdClients
  BY DEF DistInv, ClientShape
<1>h. /\ HostOf[c] \in Hosts /\ PlatformOf[HostOf[c]] \in Platforms
  BY UpdateShape DEF Hosts, Platforms
(* What a new record, handler and stream of the client owe.                *)
<1>1. ASSUME NEW b, NEW k, NEW m, NEW u, NEW r, NEW v,
             cli' = [cli EXCEPT ![c] = [running |-> b, linked |-> k, needed |-> m, task |-> u]],
             srv' = [srv EXCEPT ![c] = r], wire' = [wire EXCEPT ![c] = v], StreamOK(u, r, v)
      PROVE  ClientShape' /\ \A d \in UpdClients : StreamOK(cli[d].task, srv[d], wire[d])'
  <2>1. PICK y : y = [running |-> b, linked |-> k, needed |-> m, task |-> u]  OBVIOUS
  <2>2. /\ y = [running |-> y.running, linked |-> y.linked, needed |-> y.needed, task |-> y.task]
        /\ y.task = u
    BY <2>1
  <2>3. cli' = [cli EXCEPT ![c] = y]  BY <1>1, <2>1
  <2> QED  BY <1>1, <2>2, <2>3, ClientStepKeeps
(* A new task alone.                                                       *)
<1>2. ASSUME NEW u, cli' = [cli EXCEPT ![c].task = u], UNCHANGED <<srv, wire>>, StreamOK(u, s, w)
      PROVE  ClientShape' /\ \A d \in UpdClients : StreamOK(cli[d].task, srv[d], wire[d])'
  <2>1. cli' = [cli EXCEPT ![c] = [x EXCEPT !.task = u]]  BY <1>2
  <2>2. [x EXCEPT !.task = u] = [running |-> a, linked |-> l, needed |-> n, task |-> u]  BY ONLY <1>x
  <2>3. cli' = [cli EXCEPT ![c] = [running |-> a, linked |-> l, needed |-> n, task |-> u]]
    BY <2>1, <2>2
  <2>4. srv' = [srv EXCEPT ![c] = s] /\ wire' = [wire EXCEPT ![c] = w]  BY <1>2, <1>d
  <2> QED  BY <1>1, <1>2, <2>3, <2>4
(* A task that is given up.                                                *)
<1>3. ASSUME Abandon(c), UNCHANGED <<srv, wire>>
      PROVE  ClientShape' /\ \A d \in UpdClients : StreamOK(cli[d].task, srv[d], wire[d])'
  <2>1. StreamOK(NoTask, s, w)  BY <1>o, <1>t, NotDownloading
  <2> QED  BY <1>2, <1>3, <2>1 DEF Abandon
<1>4. CASE UpdConnect(c)
  <2>1. UNCHANGED <<pkgs, srv, wire>>  BY <1>4 DEF UpdConnect
  <2>2. PICK k, m : cli' = [cli EXCEPT ![c].linked = k, ![c].needed = m]  BY <1>4 DEF UpdConnect
  <2>3. cli' = [cli EXCEPT ![c] = [running |-> a, linked |-> k, needed |-> m, task |-> t]]
    <3>1. cli' = [cli EXCEPT ![c] = [x EXCEPT !.linked = k, !.needed = m]]  BY <2>2, <1>d, <1>x
    <3>y. PICK y : y = [[running |-> a, linked |-> l, needed |-> n, task |-> t]
                          EXCEPT !.linked = k, !.needed = m]
      OBVIOUS
    <3>z. y = [running |-> a, linked |-> k, needed |-> m, task |-> t]  BY ONLY <3>y
    <3>2. [x EXCEPT !.linked = k, !.needed = m]
            = [running |-> a, linked |-> k, needed |-> m, task |-> t]
      BY ONLY <1>x, <3>y, <3>z
    <3> QED  BY <3>1, <3>2
  <2>4. srv' = [srv EXCEPT ![c] = s] /\ wire' = [wire EXCEPT ![c] = w]  BY <2>1, <1>d
  <2> QED  BY <1>1, <1>o, <2>1, <2>3, <2>4, Untouched DEF DistInv
<1>5. CASE UpdCut(c)
  <2>1. UNCHANGED <<pkgs, wire>> /\ srv' = [srv EXCEPT ![c] = Idle]  BY <1>5 DEF UpdCut
  <2>2. cli' = [cli EXCEPT ![c] = [x EXCEPT !.linked = FALSE]]  BY <1>5 DEF UpdCut
  <2>y. PICK y : y = [[running |-> a, linked |-> l, needed |-> n, task |-> t] EXCEPT !.linked = FALSE]
    OBVIOUS
  <2>z. y = [running |-> a, linked |-> FALSE, needed |-> n, task |-> t]  BY ONLY <2>y
  <2>3. [x EXCEPT !.linked = FALSE] = [running |-> a, linked |-> FALSE, needed |-> n, task |-> t]
    BY ONLY <1>x, <2>y, <2>z
  <2>4. cli' = [cli EXCEPT ![c] = [running |-> a, linked |-> FALSE, needed |-> n, task |-> t]]
    BY <2>2, <2>3
  <2>5. StreamOK(t, Idle, w)  BY <1>o, Ended
  <2>6. wire' = [wire EXCEPT ![c] = w]  BY <2>1, <1>d
  <2> QED  BY <1>1, <2>1, <2>4, <2>5, <2>6, Untouched DEF DistInv
<1>6. CASE PollUpdate(c)
  <2>p. UNCHANGED pkgs  BY <1>6 DEF PollUpdate
  <2>1. CASE UNCHANGED <<cli, srv, wire>>  BY <2>p, <2>1, Untouched DEF DistInv
  <2>2. ASSUME NEW v, UNCHANGED <<srv, wire>>,
               cli' = [cli EXCEPT ![c].task = [NoTask EXCEPT !.kind = "install", !.version = v]]
        PROVE  DistInv'
    <3>u. PICK u : u = [NoTask EXCEPT !.kind = "install", !.version = v]  OBVIOUS
    <3>1. TaskShape(u) /\ u.kind # "download"  BY <3>u DEF TaskShape, NoTask
    <3>2. StreamOK(u, s, w)  BY <1>o, <3>1, NotDownloading
    <3>3. cli' = [cli EXCEPT ![c].task = u]  BY <2>2, <3>u
    <3> QED  BY <1>2, <2>p, <2>2, <3>2, <3>3, Untouched DEF DistInv
  <2>3. ASSUME NEW v, cli' = [cli EXCEPT ![c].task = [NoTask EXCEPT !.kind = "download", !.version = v]],
               srv' = [srv EXCEPT ![c] = [Idle EXCEPT !.at = "asked", !.version = v]],
               wire' = [wire EXCEPT ![c] = <<>>]
        PROVE  DistInv'
    <3>u. PICK u, r, e : /\ u = [NoTask EXCEPT !.kind = "download", !.version = v]
                         /\ r = [Idle EXCEPT !.at = "asked", !.version = v]
                         /\ e = <<>>
      OBVIOUS
    <3>1. TaskShape(u) /\ ~u.done  BY <3>u DEF TaskShape, NoTask
    <3>2. HandlerShape(r) /\ r.seq = 0  BY <3>u DEF HandlerShape, Idle
    <3>3. FirstsCarrySum(e) /\ e = <<>>  BY <3>u DEF FirstsCarrySum
    <3>4. StreamOK(u, r, e)  BY <3>1, <3>2, <3>3 DEF StreamOK, SumComes
    <3>5. cli' = [cli EXCEPT ![c] = [x EXCEPT !.task = u]]  BY <2>3, <3>u
    <3>6. [x EXCEPT !.task = u] = [running |-> a, linked |-> l, needed |-> n, task |-> u]  BY ONLY <1>x
    <3>7. cli' = [cli EXCEPT ![c] = [running |-> a, linked |-> l, needed |-> n, task |-> u]]
      BY <3>5, <3>6
    <3>8. srv' = [srv EXCEPT ![c] = r] /\ wire' = [wire EXCEPT ![c] = e]  BY <2>3, <3>u
    <3> QED  BY <1>1, <2>p, <3>4, <3>7, <3>8, Untouched DEF DistInv
  <2> QED  BY <1>6, <2>1, <2>2, <2>3 DEF PollUpdate
<1>7. CASE ReceiveChunk(c)
  <2>1. t.kind = "download" /\ w # <<>> /\ ~t.done  BY <1>7 DEF ReceiveChunk
  <2>2. UNCHANGED <<pkgs, srv>> /\ wire' = [wire EXCEPT ![c] = Tail(w)]  BY <1>7 DEF ReceiveChunk
  <2>w. w \in Seq(Messages) /\ Head(w) = w[1]  BY <1>o, <2>1 DEF StreamOK, FirstsCarrySum
  <2>s. srv' = [srv EXCEPT ![c] = s]  BY <2>2, <1>d
  <2>3. ASSUME NEW u, cli' = [cli EXCEPT ![c].task = u], StreamOK(u, s, Tail(w))  PROVE DistInv'
    <3>1. cli' = [cli EXCEPT ![c] = [x EXCEPT !.task = u]]  BY <2>3
    <3>2. [x EXCEPT !.task = u] = [running |-> a, linked |-> l, needed |-> n, task |-> u]  BY ONLY <1>x
    <3>3. cli' = [cli EXCEPT ![c] = [running |-> a, linked |-> l, needed |-> n, task |-> u]]
      BY <3>1, <3>2
    <3> QED  BY <1>1, <2>2, <2>3, <2>s, <3>3, Untouched DEF DistInv
  <2>4. CASE w[1].error
    <3>1. FirstsCarrySum(Tail(w))
      <4>1. PICK v : v = Tail(w)  OBVIOUS
      <4>2. /\ v \in Seq(Messages) /\ Len(v) = Len(w) - 1 /\ Len(w) \in Nat /\ Len(w) > 0
            /\ \A i \in 1 .. Len(v) : v[i] = w[i + 1]
        BY <2>1, <2>w, <4>1
      <4>3. \A i \in 1 .. Len(v) : i + 1 \in 1 .. Len(w)  BY <4>2
      <4> QED  BY <1>o, <4>1, <4>2, <4>3 DEF StreamOK, FirstsCarrySum
    <3>2. StreamOK(NoTask, s, Tail(w))  BY <1>o, <1>t, <3>1 DEF StreamOK, SumComes
    <3>3. cli' = [cli EXCEPT ![c].task = NoTask]  BY <1>7, <2>w, <2>4 DEF ReceiveChunk, Abandon
    <3> QED  BY <2>3, <3>2, <3>3
  <2>5. CASE ~w[1].error
    <3>m. PICK m : m = w[1]  OBVIOUS
    <3>a. m \in Messages  BY <2>1, <2>w, <3>m
    <3>b. m.done \in BOOLEAN  BY <3>a DEF Messages
    <3>u. PICK u, q, f : /\ u = [kind |-> t.kind, version |-> t.version, file |-> f, sum |-> q,
                                  done |-> m.done]
                         /\ q = IF m.seq = 0 THEN m.sum ELSE t.sum
                         /\ f = IF m.data = 0 THEN t.file ELSE Append(t.file, m.data)
      OBVIOUS
    <3>1. cli' = [cli EXCEPT ![c].task = [t EXCEPT !.sum = q, !.file = f, !.done = m.done]]
      <4>1. cli' = [cli EXCEPT ![c].task =
                          [t EXCEPT !.sum = IF m.seq = 0 THEN m.sum ELSE t.sum,
                                    !.file = IF m.data = 0 THEN t.file ELSE Append(t.file, m.data),
                                    !.done = m.done]]
        BY <1>7, <1>t, <2>w, <2>5, <3>m DEF ReceiveChunk, TaskShape
      <4> QED  BY <3>u, <4>1
    <3>t. PICK k, v, g, z, d : t = [kind |-> k, version |-> v, file |-> g, sum |-> z, done |-> d]
      BY <1>t DEF TaskShape
    <3>y. PICK y, e : /\ y = [[kind |-> k, version |-> v, file |-> g, sum |-> z, done |-> d]
                               EXCEPT !.sum = q, !.file = f, !.done = e]
                      /\ e = m.done
      OBVIOUS
    <3>z. y = [kind |-> k, version |-> v, file |-> f, sum |-> q, done |-> e]  BY ONLY <3>y
    <3>2. [t EXCEPT !.sum = q, !.file = f, !.done = m.done] = u
      <4>1. t.kind = k /\ t.version = v  BY ONLY <3>t
      <4>2. u = y  BY <3>u, <3>y, <3>z, <4>1
      <4> QED  BY ONLY <3>t, <3>y, <4>2
    <3>3. TaskShape(u) /\ u.kind = "download" /\ u.sum = q  BY <2>1, <3>b, <3>u DEF TaskShape
    <3>4. StreamOK(u, s, Tail(w))  BY <1>o, <2>1, <2>5, <3>m, <3>u, <3>3, Reading
    <3>5. cli' = [cli EXCEPT ![c].task = u]  BY <3>1, <3>2
    <3> QED  BY <2>3, <3>4, <3>5
  <2> QED  BY <2>4, <2>5
<1>8. CASE StreamEnds(c) \/ InstallUpdateFails(c)
  <2>1. Abandon(c) /\ UNCHANGED <<pkgs, srv, wire>>  BY <1>8 DEF StreamEnds, InstallUpdateFails
  <2> QED  BY <1>3, <2>1, Untouched DEF DistInv
<1>9. CASE VerifyAndRename(c)
  <2>1. t.kind = "download" /\ t.done /\ UNCHANGED <<srv, wire>>  BY <1>9 DEF VerifyAndRename
  <2>2. t.sum = "whole"  BY <1>o, <2>1 DEF StreamOK, SumComes
  <2>3. CASE Abandon(c) /\ UNCHANGED pkgs  BY <1>3, <2>1, <2>3, Untouched DEF DistInv
  <2>4. CASE /\ ~(t.sum # "none" /\ t.file # Whole)
             /\ pkgs' = [pkgs EXCEPT ![HostOf[c]][PlatformOf[HostOf[c]]] =
                           {q \in @ : q.version # t.version}
                             \cup {[version |-> t.version, data |-> t.file]}]
             /\ cli' = [cli EXCEPT ![c].task.kind = "install"]
    <3>1. t.file = Whole  BY <2>2, <2>4
    <3>2. PICK ps, old : /\ old = pkgs[HostOf[c]][PlatformOf[HostOf[c]]]
                         /\ ps = {q \in old : q.version # t.version}
                                   \cup {[version |-> t.version, data |-> t.file]}
      OBVIOUS
    <3>3. \A q \in ps : q.data = Whole  BY <1>h, <3>1, <3>2 DEF DistInv, WholePackages
    <3>4. pkgs' = [pkgs EXCEPT ![HostOf[c]][PlatformOf[HostOf[c]]] = ps]  BY <2>4, <3>2
    <3>5. CacheShape' /\ WholePackages'  BY <1>h, <3>3, <3>4, CacheStepKeeps
    <3>u. PICK u : u = [kind |-> "install", version |-> t.version, file |-> t.file, sum |-> t.sum,
                        done |-> t.done]
      OBVIOUS
    <3>6. cli' = [cli EXCEPT ![c].task = [t EXCEPT !.kind = "install"]]  BY <2>4, <1>d, <1>x
    <3>t. t = [kind |-> t.kind, version |-> t.version, file |-> t.file, sum |-> t.sum, done |-> t.done]
      BY <1>t DEF TaskShape
    <3>7. [t EXCEPT !.kind = "install"] = u  BY ONLY <3>t, <3>u
    <3>8. TaskShape(u) /\ u.kind # "download"  BY <1>t, <3>u DEF TaskShape
    <3>9. StreamOK(u, s, w)  BY <1>o, <3>8, NotDownloading
    <3>10. cli' = [cli EXCEPT ![c].task = u]  BY <3>6, <3>7
    <3> QED  BY <1>2, <2>1, <3>5, <3>9, <3>10 DEF DistInv
  <2> QED  BY <1>9, <2>3, <2>4 DEF VerifyAndRename
<1>10. CASE InstallUpdate(c)
  <2>1. UNCHANGED <<srv, wire>>  BY <1>10 DEF InstallUpdate
  <2>2. CASE Abandon(c) /\ UNCHANGED pkgs  BY <1>3, <2>1, <2>2, Untouched DEF DistInv
  <2>3. CASE /\ pkgs' = IF t.done THEN [pkgs EXCEPT ![HostOf[c]][PlatformOf[HostOf[c]]] = prune_packages(@)]
                         ELSE pkgs
             /\ cli' = [cli EXCEPT ![c].task = NoTask, ![c].needed = FALSE]
    <3>1. PICK ps, old : /\ old = pkgs[HostOf[c]][PlatformOf[HostOf[c]]] /\ ps = prune_packages(old)
      OBVIOUS
    <3>2. \A q \in ps : q.data = Whole  BY <1>h, <3>1, PruneKeepsSome DEF DistInv, WholePackages
    <3>3. pkgs' = [pkgs EXCEPT ![HostOf[c]][PlatformOf[HostOf[c]]] = ps] \/ UNCHANGED pkgs
      BY <2>3, <3>1
    <3>4. CacheShape' /\ WholePackages'  BY <1>h, <3>2, <3>3, CacheStepKeeps, Untouched
    <3>5. cli' = [cli EXCEPT ![c] = [x EXCEPT !.task = NoTask, !.needed = FALSE]]  BY <2>3, <1>d, <1>x
    <3>6. PICK u : u = NoTask  OBVIOUS
    <3>y. PICK y : y = [[running |-> a, linked |-> l, needed |-> n, task |-> t]
                          EXCEPT !.task = u, !.needed = FALSE]
      OBVIOUS
    <3>z. y = [running |-> a, linked |-> l, needed |-> FALSE, task |-> u]  BY ONLY <3>y
    <3>7. [x EXCEPT !.task = u, !.needed = FALSE]
            = [running |-> a, linked |-> l, needed |-> FALSE, task |-> u]
      BY ONLY <1>x, <3>y, <3>z
    <3>8. cli' = [cli EXCEPT ![c] = [running |-> a, linked |-> l, needed |-> FALSE, task |-> u]]
      BY <3>5, <3>6, <3>7
    <3>9. srv' = [srv EXCEPT ![c] = s] /\ wire' = [wire EXCEPT ![c] = w]  BY <2>1, <1>d
    <3>10. StreamOK(u, s, w)  BY <1>o, <1>t, <3>6, NotDownloading
    <3> QED  BY <1>1, <3>4, <3>8, <3>9, <3>10 DEF DistInv
  <2> QED  BY <1>10, <2>2, <2>3 DEF InstallUpdate
<1>11. CASE exec_update(c)
  <2>1. UNCHANGED pkgs  BY <1>11 DEF exec_update
  <2>2. PICK b : cli' = [cli EXCEPT ![c] = [running |-> b, linked |-> FALSE, needed |-> FALSE,
                                            task |-> NoTask]]
    BY <1>11 DEF exec_update
  <2>3. PICK r, e : r = Idle /\ e = <<>>  OBVIOUS
  <2>4. srv' = [srv EXCEPT ![c] = r] /\ wire' = [wire EXCEPT ![c] = e]  BY <1>11, <2>3 DEF exec_update
  <2>5. StreamOK(NoTask, r, e)
    BY <1>t, <2>3 DEF StreamOK, SumComes, HandlerShape, Idle, FirstsCarrySum
  <2> QED  BY <1>1, <2>1, <2>2, <2>4, <2>5, Untouched DEF DistInv
<1> QED  BY <1>4, <1>5, <1>6, <1>7, <1>8, <1>9, <1>10, <1>11 DEF ClientStep

-----------------------------------------------------------------------------
(* The theorems.                                                           *)

(* Shapes, whole packages and streams that bring their checksum hold in    *)
(* every reachable state, for any clients, hosts, versions and failures.   *)
THEOREM DistInvHolds == UpdSpec => []DistInv
<1>1. UpdInit => DistInv
  <2> SUFFICES ASSUME UpdInit  PROVE DistInv  OBVIOUS
  <2>1. CacheShape /\ WholePackages  BY DEF UpdInit, CacheShape, WholePackages
  <2>2. \A c \in UpdClients : cli[c].task = NoTask /\ srv[c] = Idle /\ wire[c] = <<>>
    BY DEF UpdInit
  <2>3. ClientShape  BY DEF UpdInit, ClientShape
  <2>4. PICK e : e = <<>>  OBVIOUS
  <2>5. StreamOK(NoTask, Idle, e)
    BY <2>4 DEF StreamOK, SumComes, TaskShape, NoTask, HandlerShape, Idle, FirstsCarrySum
  <2> QED  BY <2>1, <2>2, <2>3, <2>4, <2>5 DEF DistInv
<1>2. DistInv /\ UpdNext => DistInv'
  BY DaemonKeeps, ServerKeeps, ClientKeeps DEF UpdNext
<1>3. DistInv /\ UNCHANGED updVars => DistInv'  BY Untouched DEF DistInv, updVars
<1> QED  BY <1>1, <1>2, <1>3, PTL DEF UpdSpec

(* No cut, read error, pruning, concurrent download of another client of   *)
(* the host or restart of the daemon leaves a package in a cache that is   *)
(* not the one published (download_and_extract_update).                    *)
THEOREM PackagesAreWhole == UpdSpec => []WholePackages
BY DistInvHolds, PTL DEF DistInv

=============================================================================
