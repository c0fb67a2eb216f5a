---------------------------- MODULE Threads_proofs ----------------------------
(***************************************************************************)
(* What the daemon makes of a thread of any length: the repair of a stored *)
(* one (MCConversation) and the request about one (Llm).                   *)
(*                                                                         *)
(* First part: whatever tool uses a crash or an interrupt left unanswered  *)
(* and whatever legacy events an old build wrote, the thread is usable     *)
(* once it is repaired: RepairedThreadUsable, for any tool ids and         *)
(* queries.  Both repairs are loops, so each fact is an invariant of the   *)
(* loops (see Conversation_proofs).  Results stay paired because a message *)
(* that a loop drops or merges away uses no tool, so the next message has  *)
(* no results to lose their uses (MergePaired).  Queries stay because a    *)
(* message is merged only into one that holds no text (MergeCounts).  A    *)
(* thread of a current build is extended, never split, by sanitizing: its  *)
(* unanswered tool uses are half answered or at the end (ModernOrderly).   *)
(*                                                                         *)
(* Second part: RequestsFaithful, for any backends and any number of turns.*)
(* A thread (Thread) alternates, its assistant messages say again what the *)
(* models said, and the user message behind each holds the results of its  *)
(* calls; every way to end a turn or to begin one keeps that.  A request   *)
(* about a thread that asks is then right by induction on its turns, in    *)
(* either format (Carries, CarriesMore).                                   *)
(***************************************************************************)
EXTENDS MCConversation, Llm, Conversation_proofs, FiniteSetTheorems

-----------------------------------------------------------------------------
(* Results have their uses.                                                *)

(* m's results, if it has any, answer the last message of out.             *)
Fits(out, m) == m.results # {} => out # <<>> /\ m.results \subseteq Last(out).uses

(* The empty thread has no results.                                        *)
LEMMA EmptyPaired == NoOrphanedToolResult(<<>>)
<1>1. DOMAIN <<>> = {}  OBVIOUS
<1> QED  BY <1>1 DEF NoOrphanedToolResult

(* A message that fits can be appended.                                    *)
LEMMA PairedAppend ==
    ASSUME NEW Ids, NEW Txt, NEW out \in Seq(Proper(Ids, Txt)), NoOrphanedToolResult(out),
           NEW m \in Proper(Ids, Txt), Fits(out, m)
    PROVE  NoOrphanedToolResult(Append(out, m))
<1> DEFINE M == Proper(Ids, Txt)
<1> HIDE DEF M
<1>1. /\ out \in Seq(M) /\ m \in M  BY DEF M
<1>2. PICK k : k = Append(out, m)  OBVIOUS
<1>3. /\ k \in Seq(M) /\ Len(k) = Len(out) + 1 /\ k[Len(out) + 1] = m
      /\ \A i \in 1 .. Len(out) : k[i] = out[i]
      /\ DOMAIN k = 1 .. Len(out) + 1
  BY <1>1, <1>2
<1>4. Len(out) \in Nat /\ (Len(out) > 0 <=> out # <<>>) /\ DOMAIN out = 1 .. Len(out)
  BY <1>1
<1>5. ASSUME NEW i \in DOMAIN k, k[i].results # {}
      PROVE  i > 1 /\ k[i].results \subseteq k[i - 1].uses
  <2>1. CASE i = Len(out) + 1
    <3>1. k[i] = m /\ out # <<>> /\ m.results \subseteq Last(out).uses
      BY <1>3, <1>5, <2>1 DEF Fits
    <3>2. Len(out) \in 1 .. Len(out) /\ i - 1 = Len(out)  BY <1>4, <2>1, <3>1
    <3>3. k[i - 1] = Last(out)  BY <1>3, <3>2 DEF Last
    <3> QED  BY <1>4, <2>1, <3>1, <3>2, <3>3
  <2>2. CASE i \in 1 .. Len(out)
    <3>1. k[i] = out[i] /\ i > 1 /\ out[i].results \subseteq out[i - 1].uses
      BY <1>3, <1>4, <1>5, <2>2 DEF NoOrphanedToolResult
    <3>2. i - 1 \in 1 .. Len(out)  BY <1>4, <2>2, <3>1
    <3> QED  BY <1>3, <3>1, <3>2
  <2> QED  BY <1>3, <1>4, <1>5, <2>1, <2>2
<1>6. NoOrphanedToolResult(k)  BY <1>5 DEF NoOrphanedToolResult
<1> QED  BY <1>2, <1>6

(* Taking the last message away leaves the results paired, and it fits.    *)
LEMMA PairedFront ==
    ASSUME NEW Ids, NEW Txt, NEW out \in Seq(Proper(Ids, Txt)), NoOrphanedToolResult(out),
           out # <<>>
    PROVE  /\ Front(out) \in Seq(Proper(Ids, Txt))
           /\ NoOrphanedToolResult(Front(out))
           /\ Fits(Front(out), Last(out))
<1>1. PICK f : f = Front(out)  OBVIOUS
<1>2. Len(out) \in Nat \ {0} /\ DOMAIN out = 1 .. Len(out)  OBVIOUS
<1>3. /\ f \in Seq(Proper(Ids, Txt)) /\ Len(f) = Len(out) - 1
      /\ \A i \in 1 .. Len(out) - 1 : f[i] = out[i]
  BY <1>1, FrontProperties
<1>4. DOMAIN f = 1 .. Len(out) - 1 /\ (f # <<>> <=> Len(f) # 0)  BY <1>3
<1>5. NoOrphanedToolResult(f)
  <2> SUFFICES ASSUME NEW i \in DOMAIN f, f[i].results # {}
               PROVE  i > 1 /\ f[i].results \subseteq f[i - 1].uses
    BY DEF NoOrphanedToolResult
  <2>1. i \in DOMAIN out /\ f[i] = out[i]  BY <1>2, <1>3, <1>4
  <2>2. i > 1 /\ out[i].results \subseteq out[i - 1].uses
    BY <2>1 DEF NoOrphanedToolResult
  <2>3. i - 1 \in 1 .. Len(out) - 1  BY <1>2, <1>4, <2>2
  <2> QED  BY <1>3, <2>1, <2>2, <2>3
<1>6. ASSUME Last(out).results # {}
      PROVE  f # <<>> /\ Last(out).results \subseteq Last(f).uses
  <2>1. Len(out) \in DOMAIN out /\ out[Len(out)].results # {}  BY <1>2, <1>6 DEF Last
  <2>2. Len(out) > 1 /\ out[Len(out)].results \subseteq out[Len(out) - 1].uses
    BY <2>1 DEF NoOrphanedToolResult
  <2>3. Len(out) - 1 \in 1 .. Len(out) - 1 /\ Len(f) # 0  BY <1>2, <1>3, <2>2
  <2>4. Last(f) = out[Len(out) - 1]  BY <1>3, <2>3 DEF Last
  <2> QED  BY <1>4, <2>2, <2>3, <2>4 DEF Last
<1> QED  BY <1>1, <1>3, <1>5, <1>6 DEF Fits

(* What a turn of sanitize_orphaned_tool_use appends fits the prefix.      *)
LEMMA SanitizeStepPairs ==
    ASSUME NEW Ids, NEW Txt, NEW out \in Seq(Proper(Ids, Txt)), NoOrphanedToolResult(out),
           NEW m \in Proper(Ids, Txt), Fits(out, m)
    PROVE  /\ SanitizeStep(out, m) \in Seq(Proper(Ids, Txt))
           /\ NoOrphanedToolResult(SanitizeStep(out, m))
           /\ SanitizeStep(out, m) # <<>> /\ Last(SanitizeStep(out, m)).uses = m.uses
<1>0. PICK missing : missing = MissingResults(out, m)  OBVIOUS
<1>1. out # <<>> => Last(out) \in Proper(Ids, Txt)
  BY DEF Last
<1>2. missing \subseteq Ids  BY <1>0, <1>1 DEF MissingResults, Proper, Message
<1>3. missing # {} => out # <<>> /\ missing \subseteq Last(out).uses
  BY <1>0 DEF MissingResults
<1>4. ASSUME NEW n \in Proper(Ids, Txt), Fits(out, n)
      PROVE  /\ Append(out, n) \in Seq(Proper(Ids, Txt)) /\ NoOrphanedToolResult(Append(out, n))
             /\ Append(out, n) # <<>> /\ Last(Append(out, n)) = n
  BY <1>4, PairedAppend, LastOfAppend
<1>5. CASE missing = {}
  <2>1. SanitizeStep(out, m) = Append(out, m)  BY <1>0, <1>5 DEF SanitizeStep
  <2> QED  BY <1>4, <2>1
<1>6. CASE missing # {} /\ m.results # {}
  <2>0. PICK n : n = [m EXCEPT !.results = @ \cup missing]  OBVIOUS
  <2>1. SanitizeStep(out, m) = Append(out, n)  BY <1>0, <1>6, <2>0 DEF SanitizeStep
  <2>2. n \in Proper(Ids, Txt) /\ n.results = m.results \cup missing /\ n.uses = m.uses
    BY <1>2, <1>6, <2>0 DEF Proper, Message
  <2>3. Fits(out, n)  BY <1>3, <1>6, <2>2 DEF Fits
  <2> QED  BY <1>4, <2>1, <2>2, <2>3
<1>7. CASE missing # {} /\ m.results = {}
  <2>0. PICK n : n = UserResults(missing)  OBVIOUS
  <2>1. SanitizeStep(out, m) = out \o <<n, m>>  BY <1>0, <1>7, <2>0 DEF SanitizeStep
  <2>2. n \in Proper(Ids, Txt) /\ n.results = missing
    BY <1>2, <2>0 DEF Proper, Message, UserResults
  <2>3. Fits(out, n)  BY <1>3, <1>7, <2>2 DEF Fits
  <2>4. PICK k : k = Append(out, n)  OBVIOUS
  <2>5. k \in Seq(Proper(Ids, Txt)) /\ NoOrphanedToolResult(k)  BY <1>4, <2>2, <2>3, <2>4
  <2>6. Fits(k, m)  BY <1>7 DEF Fits
  <2>7. /\ Append(k, m) \in Seq(Proper(Ids, Txt)) /\ NoOrphanedToolResult(Append(k, m))
        /\ Append(k, m) # <<>> /\ Last(Append(k, m)) = m
    BY <2>5, <2>6, PairedAppend, LastOfAppend
  <2>8. Append(k, m) = out \o <<n, m>>  BY <2>2, <2>4
  <2> QED  BY <2>1, <2>7, <2>8
<1> QED  BY <1>5, <1>6, <1>7

(* A message of a thread with paired results fits one that ends with the   *)
(* tool uses in front of it.                                               *)
LEMMA NextFits ==
    ASSUME NEW Ids, NEW Txt, NEW msgs \in Seq(Proper(Ids, Txt)), NoOrphanedToolResult(msgs),
           NEW n \in 0 .. Len(msgs) - 1, NEW out,
           n # 0 => (msgs[n].uses # {} => out # <<>> /\ Last(out).uses = msgs[n].uses)
    PROVE  Fits(out, msgs[n + 1])
<1> SUFFICES ASSUME msgs[n + 1].results # {}
             PROVE  out # <<>> /\ msgs[n + 1].results \subseteq Last(out).uses
  BY DEF Fits
<1>1. Len(msgs) \in Nat /\ DOMAIN msgs = 1 .. Len(msgs) /\ n + 1 \in 1 .. Len(msgs) /\ n + 1 - 1 = n
  OBVIOUS
<1>2. n + 1 > 1 /\ msgs[n + 1].results \subseteq msgs[n].uses
  BY <1>1 DEF NoOrphanedToolResult
<1>3. n # 0 /\ msgs[n].uses # {}  BY <1>1, <1>2
<1> QED  BY <1>2, <1>3

(* sanitize_orphaned_tool_use orphans no tool result.                      *)
LEMMA SanitizePairs ==
    ASSUME NEW Ids, NEW Txt, NEW msgs \in Seq(Proper(Ids, Txt)), NoOrphanedToolResult(msgs)
    PROVE  NoOrphanedToolResult(sanitize_orphaned_tool_use(msgs))
<1>0. PICK S : S = Sanitized(msgs)  OBVIOUS
<1>1. Len(msgs) \in Nat  OBVIOUS
<1>2. S = [i \in 0 .. Len(msgs) |-> IF i = 0 THEN <<>> ELSE SanitizeStep(S[i-1], msgs[i])]
  BY <1>0, <1>1, SanitizedSteps
<1> DEFINE OK(i) == /\ S[i] \in Seq(Proper(Ids, Txt)) /\ NoOrphanedToolResult(S[i])
                    /\ i # 0 => S[i] # <<>> /\ Last(S[i]).uses = msgs[i].uses
<1>3. PICK T : T = {i \in 0 .. Len(msgs) : OK(i)}  OBVIOUS
<1>4. 0 \in T
  <2>1. S[0] = <<>>  BY <1>1, <1>2
  <2>2. OK(0)  BY <2>1, EmptyPaired
  <2>3. 0 \in 0 .. Len(msgs)  BY <1>1
  <2> QED  BY ONLY <1>3, <2>2, <2>3
<1>5. ASSUME NEW n \in 0 .. Len(msgs) - 1, n \in T  PROVE n + 1 \in T
  <2>1. n + 1 \in 1 .. Len(msgs) /\ n + 1 # 0 /\ n + 1 - 1 = n /\ n + 1 \in 0 .. Len(msgs)
    BY <1>1
  <2>2. S[n + 1] = SanitizeStep(S[n], msgs[n + 1])  BY <1>2, <2>1
  <2>3. msgs[n + 1] \in Proper(Ids, Txt)  BY <2>1
  <2>4. OK(n)  BY <1>3, <1>5
  <2>5. Fits(S[n], msgs[n + 1])  BY <2>4, NextFits
  <2>6. OK(n + 1)  BY <2>2, <2>3, <2>4, <2>5, SanitizeStepPairs
  <2> QED  BY ONLY <1>3, <2>1, <2>6
<1>6. \A n \in 0 .. Len(msgs) : n \in T
  <2>1. \A n \in 0 .. Len(msgs) - 1 : n \in T => n + 1 \in T  BY <1>5
  <2> QED  BY ONLY <1>1, <1>4, <2>1, SetInduction
<1>7. PICK out : out = S[Len(msgs)]  OBVIOUS
<1>8. out \in Seq(Proper(Ids, Txt)) /\ NoOrphanedToolResult(out)
  <2>1. Len(msgs) \in T  BY ONLY <1>1, <1>6
  <2> QED  BY <1>3, <1>7, <2>1
<1>9. sanitize_orphaned_tool_use(msgs) = AnswerTail(out)
  BY <1>0, <1>7 DEF sanitize_orphaned_tool_use
<1>10. CASE out # <<>> /\ Last(out).uses # {}
  <2>0. PICK n : n = UserResults(Last(out).uses)  OBVIOUS
  <2>1. AnswerTail(out) = Append(out, n)  BY <1>10, <2>0 DEF AnswerTail
  <2>2. Last(out) \in Proper(Ids, Txt)  BY <1>8, <1>10 DEF Last
  <2>3. n \in Proper(Ids, Txt) /\ n.results = Last(out).uses
    BY <2>0, <2>2 DEF Proper, Message, UserResults
  <2>4. Fits(out, n)  BY <1>10, <2>3 DEF Fits
  <2> QED  BY <1>8, <1>9, <2>1, <2>3, <2>4, PairedAppend
<1>11. CASE ~(out # <<>> /\ Last(out).uses # {})
  BY <1>8, <1>9, <1>11 DEF AnswerTail
<1> QED  BY <1>10, <1>11

-----------------------------------------------------------------------------
(* The loop of merge_interrupt_markers: its output has its results paired, *)
(* the next message fits it, and a message that has been merged into it    *)
(* is a user's text.                                                       *)
MergePaired(msgs, st, i, Ids, Txt) ==
    /\ st \in [out : Seq(Proper(Ids, Txt)), skip : {"no", "absorbed", "unseen"}]
    /\ NoOrphanedToolResult(st.out)
    /\ i < Len(msgs) => Fits(st.out, msgs[i + 1])
    /\ st.skip = "absorbed" => i < Len(msgs) /\ is_user_message(msgs[i + 1])

(* One turn keeps it: a message that is dropped or merged uses no tool, so *)
(* the one behind it has no results.                                       *)
LEMMA MergeStepPairs ==
    ASSUME NEW Ids, NEW Txt, InterruptMarker \in Txt,
           NEW msgs \in Seq(Proper(Ids, Txt)), NoOrphanedToolResult(msgs),
           NEW i \in 1 .. Len(msgs), NEW st, MergePaired(msgs, st, i - 1, Ids, Txt)
    PROVE  MergePaired(msgs, MergeStep(msgs, st, i), i, Ids, Txt)
<1>0. PICK m : m = msgs[i]  OBVIOUS
<1>1. m \in Proper(Ids, Txt) /\ i - 1 + 1 = i /\ i - 1 < Len(msgs) /\ Len(msgs) \in Nat
  BY <1>0
<1>2. /\ st.out \in Seq(Proper(Ids, Txt)) /\ NoOrphanedToolResult(st.out)
      /\ st.skip \in {"no", "absorbed", "unseen"}
      /\ st = [out |-> st.out, skip |-> st.skip]
  BY DEF MergePaired
<1>3. Fits(st.out, m) /\ (st.skip = "absorbed" => is_user_message(m))
  BY <1>0, <1>1 DEF MergePaired
<1>4. ASSUME NEW out, m.uses # {} => out # <<>> /\ Last(out).uses = m.uses, i < Len(msgs)
      PROVE  Fits(out, msgs[i + 1])
  <2>1. i \in 0 .. Len(msgs) - 1  BY <1>1, <1>4
  <2> QED  BY <1>0, <1>4, <2>1, NextFits
<1>5. CASE st.skip = "absorbed"
  <2>1. MergeStep(msgs, st, i) = [st EXCEPT !.skip = "unseen"]
    BY <1>5 DEF MergeStep
  <2>2. MergeStep(msgs, st, i) = [out |-> st.out, skip |-> "unseen"]  BY <1>2, <2>1
  <2>3. m.uses = {}  BY <1>1, <1>3, <1>5 DEF Proper, is_user_message
  <2>4. i < Len(msgs) => Fits(st.out, msgs[i + 1])  BY <1>4, <2>3
  <2> QED  BY <1>2, <2>2, <2>4 DEF MergePaired
<1>6. CASE st.skip = "unseen" \/ (st.skip = "no" /\ ~is_interrupt_event_marker(m))
  <2>0. PICK k : k = Append(st.out, m)  OBVIOUS
  <2>1. MergeStep(msgs, st, i) = [out |-> k, skip |-> "no"]
    BY <1>0, <1>6, <2>0 DEF MergeStep
  <2>2. /\ k \in Seq(Proper(Ids, Txt)) /\ NoOrphanedToolResult(k) /\ k # <<>> /\ Last(k) = m
    BY <1>1, <1>2, <1>3, <2>0, PairedAppend, LastOfAppend
  <2>3. i < Len(msgs) => Fits(k, msgs[i + 1])  BY <1>4, <2>2
  <2> QED  BY <2>1, <2>2, <2>3 DEF MergePaired
<1>7. CASE st.skip = "no" /\ is_interrupt_event_marker(m)
  <2>1. m.uses = {}  BY <1>7 DEF is_interrupt_event_marker
  <2>2. CASE /\ st.out # <<>> /\ is_user_tool_result_only(Last(st.out))
             /\ i < Len(msgs) /\ has_plain_user_text(msgs[i + 1])
    <3>0. PICK n : n = MergedMessage(Last(st.out), msgs[i + 1])  OBVIOUS
    <3>1. PICK k : k = Append(Front(st.out), n)  OBVIOUS
    <3>2. MergeStep(msgs, st, i) = [out |-> k, skip |-> "absorbed"]
      BY <1>0, <1>7, <2>2, <3>0, <3>1 DEF MergeStep
    <3>3. Last(st.out) \in Proper(Ids, Txt) /\ msgs[i + 1] \in Proper(Ids, Txt)
      <4>1. i + 1 \in 1 .. Len(msgs)  BY <2>2
      <4> QED  BY <1>2, <2>2, <4>1 DEF Last
    <3>4. n \in Proper(Ids, Txt) /\ n.results = Last(st.out).results
      BY <3>0, <3>3 DEF MergedMessage, Proper, Message
    <3>5. /\ Front(st.out) \in Seq(Proper(Ids, Txt)) /\ NoOrphanedToolResult(Front(st.out))
          /\ Fits(Front(st.out), Last(st.out))
      BY <1>2, <2>2, PairedFront
    <3>6. Fits(Front(st.out), n)  BY <3>4, <3>5 DEF Fits
    <3>7. k \in Seq(Proper(Ids, Txt)) /\ NoOrphanedToolResult(k)
      BY <3>1, <3>4, <3>5, <3>6, PairedAppend
    <3>8. Fits(k, msgs[i + 1]) /\ is_user_message(msgs[i + 1])
      BY <1>4, <2>1, <2>2 DEF has_plain_user_text
    <3> QED  BY <2>2, <3>2, <3>7, <3>8 DEF MergePaired
  <2>3. CASE ~(/\ st.out # <<>> /\ is_user_tool_result_only(Last(st.out))
               /\ i < Len(msgs) /\ has_plain_user_text(msgs[i + 1]))
    <3>1. MergeStep(msgs, st, i) = [st EXCEPT !.skip = "no"]
      BY <1>0, <1>7, <2>3 DEF MergeStep
    <3>2. MergeStep(msgs, st, i) = [out |-> st.out, skip |-> "no"]  BY <1>2, <3>1
    <3>3. i < Len(msgs) => Fits(st.out, msgs[i + 1])  BY <1>4, <2>1
    <3> QED  BY <1>2, <3>2, <3>3 DEF MergePaired
  <2> QED  BY <2>2, <2>3
<1> QED  BY <1>2, <1>5, <1>6, <1>7

(* merge_interrupt_markers orphans no tool result.                         *)
LEMMA MergePairs ==
    ASSUME NEW Ids, NEW Txt, InterruptMarker \in Txt,
           NEW msgs \in Seq(Proper(Ids, Txt)), NoOrphanedToolResult(msgs)
    PROVE  NoOrphanedToolResult(merge_interrupt_markers(msgs))
<1>0. PICK S : S = Merged(msgs)  OBVIOUS
<1>1. Len(msgs) \in Nat  OBVIOUS
<1>2. S = [i \in 0 .. Len(msgs) |-> IF i = 0 THEN [out |-> <<>>, skip |-> "no"]
                                    ELSE MergeStep(msgs, S[i-1], i)]
  BY <1>0, <1>1, MergedSteps
<1>3. PICK T : T = {i \in 0 .. Len(msgs) : MergePaired(msgs, S[i], i, Ids, Txt)}
  OBVIOUS
<1>4. 0 \in T
  <2>1. S[0] = [out |-> <<>>, skip |-> "no"]  BY <1>1, <1>2
  <2>2. 0 < Len(msgs) => Fits(<<>>, msgs[1])
    <3> SUFFICES ASSUME 0 < Len(msgs)  PROVE Fits(<<>>, msgs[1])  OBVIOUS
    <3>1. 0 \in 0 .. Len(msgs) - 1 /\ 0 + 1 = 1  BY <1>1
    <3> QED  BY <3>1, NextFits
  <2>3. MergePaired(msgs, S[0], 0, Ids, Txt)  BY <2>1, <2>2, EmptyPaired DEF MergePaired
  <2>4. 0 \in 0 .. Len(msgs)  BY <1>1
  <2> QED  BY ONLY <1>3, <2>3, <2>4
<1>5. ASSUME NEW n \in 0 .. Len(msgs) - 1, n \in T  PROVE n + 1 \in T
  <2>1. n + 1 \in 1 .. Len(msgs) /\ n + 1 # 0 /\ n + 1 - 1 = n /\ n + 1 \in 0 .. Len(msgs)
    BY <1>1
  <2>2. S[n + 1] = MergeStep(msgs, S[n], n + 1)  BY <1>2, <2>1
  <2>3. MergePaired(msgs, S[n], n + 1 - 1, Ids, Txt)  BY <1>3, <1>5, <2>1
  <2>4. MergePaired(msgs, S[n + 1], n + 1, Ids, Txt)
    BY <2>1, <2>2, <2>3, MergeStepPairs
  <2> QED  BY <1>3, <2>1, <2>4
<1>6. \A n \in 0 .. Len(msgs) : n \in T
  <2>1. \A n \in 0 .. Len(msgs) - 1 : n \in T => n + 1 \in T  BY <1>5
  <2> QED  BY ONLY <1>1, <1>4, <2>1, SetInduction
<1>7. MergePaired(msgs, S[Len(msgs)], Len(msgs), Ids, Txt)
  <2>1. Len(msgs) \in T  BY ONLY <1>1, <1>6
  <2> QED  BY ONLY <1>3, <2>1
<1> QED  BY <1>0, <1>7 DEF MergePaired, merge_interrupt_markers

(* A repair pairs every result with its tool use if the thread did, and    *)
(* every tool use with its result whatever the thread did.                 *)
LEMMA RepairedPaired ==
    ASSUME NEW Ids, NEW Txt, InterruptMarker \in Txt,
           NEW msgs \in Seq(Proper(Ids, Txt)), NoOrphanedToolResult(msgs)
    PROVE  /\ Repaired(msgs) \in Seq(Proper(Ids, Txt))
           /\ NoOrphanedToolUse(Repaired(msgs)) /\ NoOrphanedToolResult(Repaired(msgs))
<1>1. PICK k : k = sanitize_orphaned_tool_use(msgs)  OBVIOUS
<1>2. k \in Seq(Proper(Ids, Txt)) /\ NoOrphanedToolResult(k)
  BY <1>1, SanitizeAnswers, SanitizePairs
<1>3. NoOrphanedToolResult(merge_interrupt_markers(k))  BY <1>2, MergePairs
<1> QED  BY <1>1, <1>3, RepairedNoOrphan DEF Repaired

(* sanitize_orphaned_tool_use changes a thread exactly if a tool use is    *)
(* orphaned in it.                                                         *)
LEMMA SanitizeChanges ==
    ASSUME NEW Ids, NEW Txt, NEW msgs \in Seq(Proper(Ids, Txt))
    PROVE  sanitize_orphaned_tool_use(msgs) = msgs <=> NoOrphanedToolUse(msgs)
<1>1. ASSUME NoOrphanedToolUse(msgs)  PROVE sanitize_orphaned_tool_use(msgs) = msgs
  <2>1. AnsweredWithin(msgs) /\ (msgs # <<>> => Last(msgs).uses = {})
    BY <1>1, AnsweredMeansNoOrphan
  <2>2. AnswerTail(msgs) = msgs  BY <2>1 DEF AnswerTail
  <2> QED  BY <2>1, <2>2, SanitizedKeepsAnswered
<1>2. NoOrphanedToolUse(sanitize_orphaned_tool_use(msgs))  BY SanitizeAnswers
<1> QED  BY <1>1, <1>2

-----------------------------------------------------------------------------
(* Texts are kept.                                                         *)

(* How many user messages hold the text q.                                 *)
Count(msgs, q) == Cardinality({i \in DOMAIN msgs : Typed(msgs[i], q)})
Holds(m, q)    == IF Typed(m, q) THEN 1 ELSE 0

(* A text's count grows with the user messages that hold it.               *)
LEMMA CountEmpty == ASSUME NEW q PROVE Count(<<>>, q) = 0
<1>1. {i \in DOMAIN <<>> : Typed(<<>>[i], q)} = {}
  <2>1. DOMAIN <<>> = {}  OBVIOUS
  <2> QED  BY <2>1
<1> QED  BY <1>1, FS_EmptySet DEF Count

LEMMA CountAppend ==
    ASSUME NEW S, NEW out \in Seq(S), NEW m \in S, NEW q
    PROVE  /\ Count(out, q) \in Nat
           /\ Count(Append(out, m), q) = Count(out, q) + Holds(m, q)
<1>1. PICK k : k = Append(out, m)  OBVIOUS
<1>2. /\ Len(out) \in Nat /\ k[Len(out) + 1] = m /\ \A i \in 1 .. Len(out) : k[i] = out[i]
      /\ DOMAIN k = 1 .. Len(out) + 1 /\ DOMAIN out = 1 .. Len(out)
  BY <1>1
<1>3. PICK H : H = {i \in DOMAIN out : Typed(out[i], q)}  OBVIOUS
<1>4. PICK K : K = {i \in DOMAIN k : Typed(k[i], q)}  OBVIOUS
<1>5. IsFiniteSet(H)
  <2>1. IsFiniteSet(1 .. Len(out))
    <3>1. Len(out) \in Int /\ 1 \in Int  BY ONLY <1>2
    <3> QED  BY ONLY <3>1, FS_Interval
  <2>2. H \subseteq 1 .. Len(out)  BY <1>2, <1>3
  <2> QED  BY ONLY <2>1, <2>2, FS_Subset
<1>6. Cardinality(H) \in Nat  BY <1>5, FS_CardinalityType
<1>7. Len(out) + 1 \notin H  BY <1>2, <1>3
<1>8. CASE Typed(m, q)
  <2>1. K = H \cup {Len(out) + 1}
    <3>1. 1 .. Len(out) + 1 = (1 .. Len(out)) \cup {Len(out) + 1}  BY ONLY <1>2
    <3> QED  BY <1>2, <1>3, <1>4, <1>8, <3>1
  <2>2. Cardinality(K) = Cardinality(H) + 1
    BY ONLY <1>5, <1>7, <2>1, FS_AddElement
  <2> QED  BY <1>1, <1>3, <1>4, <1>6, <1>8, <2>2 DEF Count, Holds
<1>9. CASE ~Typed(m, q)
  <2>1. K = H
    <3>1. 1 .. Len(out) + 1 = (1 .. Len(out)) \cup {Len(out) + 1}  BY ONLY <1>2
    <3> QED  BY <1>2, <1>3, <1>4, <1>9, <3>1
  <2>2. Count(k, q) = Count(out, q) /\ Count(out, q) \in Nat
    BY ONLY <1>3, <1>4, <1>6, <2>1 DEF Count
  <2>3. Holds(m, q) = 0  BY <1>9 DEF Holds
  <2> QED  BY ONLY <1>1, <2>2, <2>3
<1> QED  BY <1>8, <1>9

(* A turn of sanitize_orphaned_tool_use adds no text but its message's.    *)
LEMMA SanitizeStepCounts ==
    ASSUME NEW Ids, NEW Txt, NEW out \in Seq(Proper(Ids, Txt)), NEW m \in Proper(Ids, Txt), NEW q
    PROVE  Count(SanitizeStep(out, m), q) = Count(out, q) + Holds(m, q)
<1>0. PICK missing : missing = MissingResults(out, m)  OBVIOUS
<1>1. out # <<>> => Last(out) \in Proper(Ids, Txt)
  BY DEF Last
<1>2. missing \subseteq Ids  BY <1>0, <1>1 DEF MissingResults, Proper, Message
<1>3. CASE missing = {}
  <2>1. SanitizeStep(out, m) = Append(out, m)  BY <1>0, <1>3 DEF SanitizeStep
  <2> QED  BY <2>1, CountAppend
<1>4. CASE missing # {} /\ m.results # {}
  <2>0. PICK n : n = [m EXCEPT !.results = @ \cup missing]  OBVIOUS
  <2>1. SanitizeStep(out, m) = Append(out, n)  BY <1>0, <1>4, <2>0 DEF SanitizeStep
  <2>2. n \in Proper(Ids, Txt) /\ n.texts = m.texts /\ n.role = m.role
    BY <1>2, <1>4, <2>0 DEF Proper, Message
  <2>3. Count(Append(out, n), q) = Count(out, q) + Holds(n, q)  BY <2>2, CountAppend
  <2> QED  BY <2>1, <2>2, <2>3 DEF Holds, Typed, is_user_message
<1>5. CASE missing # {} /\ m.results = {}
  <2>0. PICK n : n = UserResults(missing)  OBVIOUS
  <2>1. SanitizeStep(out, m) = out \o <<n, m>>  BY <1>0, <1>5, <2>0 DEF SanitizeStep
  <2>2. n \in Proper(Ids, Txt) /\ n.texts = {}
    BY <1>2, <2>0 DEF Proper, Message, UserResults
  <2>3. PICK k : k = Append(out, n)  OBVIOUS
  <2>4. k \in Seq(Proper(Ids, Txt))  BY <2>2, <2>3
  <2>5. Count(out, q) \in Nat /\ Count(k, q) = Count(out, q) + Holds(n, q)
    BY <2>2, <2>3, CountAppend
  <2>6. Count(k, q) = Count(out, q)  BY <2>2, <2>5 DEF Holds, Typed
  <2>7. Append(k, m) = out \o <<n, m>>  BY <2>2, <2>3
  <2>8. Count(Append(k, m), q) = Count(k, q) + Holds(m, q)  BY <2>4, CountAppend
  <2> QED  BY <2>1, <2>6, <2>7, <2>8
<1> QED  BY <1>3, <1>4, <1>5

(* sanitize_orphaned_tool_use keeps every text that users typed.           *)
LEMMA SanitizeCounts ==
    ASSUME NEW Ids, NEW Txt, NEW msgs \in Seq(Proper(Ids, Txt)), NEW q
    PROVE  Count(sanitize_orphaned_tool_use(msgs), q) = Count(msgs, q)
<1>0. PICK S : S = Sanitized(msgs)  OBVIOUS
<1>1. Len(msgs) \in Nat  OBVIOUS
<1>2. S = [i \in 0 .. Len(msgs) |-> IF i = 0 THEN <<>> ELSE SanitizeStep(S[i-1], msgs[i])]
  BY <1>0, <1>1, SanitizedSteps
<1>3. PICK T : T = {i \in 0 .. Len(msgs) : Count(S[i], q) = Count(SubSeq(msgs, 1, i), q)}
  OBVIOUS
<1>4. 0 \in T
  <2>1. S[0] = <<>>  BY <1>1, <1>2
  <2>2. SubSeq(msgs, 1, 0) = <<>>  BY SubSeqEmpty
  <2>3. 0 \in 0 .. Len(msgs)  BY <1>1
  <2> QED  BY ONLY <1>3, <2>1, <2>2, <2>3
<1>5. ASSUME NEW n \in 0 .. Len(msgs) - 1, n \in T  PROVE n + 1 \in T
  <2>1. n + 1 \in 1 .. Len(msgs) /\ n + 1 # 0 /\ n + 1 - 1 = n /\ n + 1 \in 0 .. Len(msgs)
        /\ n \in 0 .. Len(msgs)
    BY <1>1
  <2>2. S[n + 1] = SanitizeStep(S[n], msgs[n + 1])  BY <1>2, <2>1
  <2>3. msgs[n + 1] \in Proper(Ids, Txt)  BY <2>1
  <2>4. S[n] \in Seq(Proper(Ids, Txt))  BY <1>0, <2>1, SanitizedAnswers
  <2>5. Count(S[n + 1], q) = Count(S[n], q) + Holds(msgs[n + 1], q)
    BY <2>2, <2>3, <2>4, SanitizeStepCounts
  <2>6. PICK f : f = SubSeq(msgs, 1, n)  OBVIOUS
  <2>7. SubSeq(msgs, 1, n + 1) = Append(f, msgs[n + 1]) /\ f \in Seq(Proper(Ids, Txt))
    BY <2>6, PrefixStep
  <2>8. Count(Append(f, msgs[n + 1]), q) = Count(f, q) + Holds(msgs[n + 1], q)
    BY <2>3, <2>7, CountAppend
  <2>9. Count(S[n], q) = Count(f, q)  BY <1>3, <1>5, <2>6
  <2>10. Count(S[n + 1], q) = Count(SubSeq(msgs, 1, n + 1), q)
    BY ONLY <2>5, <2>7, <2>8, <2>9
  <2> QED  BY ONLY <1>3, <2>1, <2>10
<1>6. \A n \in 0 .. Len(msgs) : n \in T
  <2>1. \A n \in 0 .. Len(msgs) - 1 : n \in T => n + 1 \in T  BY <1>5
  <2> QED  BY ONLY <1>1, <1>4, <2>1, SetInduction
<1>7. PICK out : out = S[Len(msgs)]  OBVIOUS
<1>8. Count(out, q) = Count(msgs, q) /\ out \in Seq(Proper(Ids, Txt))
  <2>1. Len(msgs) \in T /\ Len(msgs) \in 0 .. Len(msgs)  BY ONLY <1>1, <1>6
  <2>2. SubSeq(msgs, 1, Len(msgs)) = msgs  BY SubSeqFull
  <2>3. Count(out, q) = Count(msgs, q)  BY <1>3, <1>7, <2>1, <2>2
  <2> QED  BY <1>0, <1>7, <2>1, <2>3, SanitizedAnswers
<1>9. sanitize_orphaned_tool_use(msgs) = AnswerTail(out)
  BY <1>0, <1>7 DEF sanitize_orphaned_tool_use
<1>10. CASE out # <<>> /\ Last(out).uses # {}
  <2>0. PICK n : n = UserResults(Last(out).uses)  OBVIOUS
  <2>1. AnswerTail(out) = Append(out, n)  BY <1>10, <2>0 DEF AnswerTail
  <2>2. Last(out) \in Proper(Ids, Txt)  BY <1>8, <1>10 DEF Last
  <2>3. n \in Proper(Ids, Txt) /\ n.texts = {}
    BY <2>0, <2>2 DEF Proper, Message, UserResults
  <2>4. Count(out, q) \in Nat /\ Count(Append(out, n), q) = Count(out, q) + Holds(n, q)
    BY <1>8, <2>3, CountAppend
  <2>5. Count(Append(out, n), q) = Count(out, q)  BY <2>3, <2>4 DEF Holds, Typed
  <2> QED  BY <1>8, <1>9, <2>1, <2>5
<1>11. CASE ~(out # <<>> /\ Last(out).uses # {})
  BY <1>8, <1>9, <1>11 DEF AnswerTail
<1> QED  BY <1>10, <1>11

-----------------------------------------------------------------------------
(* The loop of merge_interrupt_markers: its output holds a text as often   *)
(* as the messages the loop is done with, among them the one that has just *)
(* been merged.                                                            *)
MergeCounts(msgs, st, i, Ids, Txt, q) ==
    /\ st \in [out : Seq(Proper(Ids, Txt)), skip : {"no", "absorbed", "unseen"}]
    /\ st.skip # "absorbed" => Count(st.out, q) = Count(SubSeq(msgs, 1, i), q)
    /\ st.skip = "absorbed" =>
         i < Len(msgs) /\ Count(st.out, q) = Count(SubSeq(msgs, 1, i + 1), q)

(* One turn keeps it: what is dropped is a legacy event, and what a text   *)
(* is merged into has no text.                                             *)
LEMMA MergeStepCounts ==
    ASSUME NEW Ids, NEW Txt, InterruptMarker \in Txt, NEW q, q # InterruptMarker,
           NEW msgs \in Seq(Proper(Ids, Txt)),
           NEW i \in 1 .. Len(msgs), NEW st, MergeCounts(msgs, st, i - 1, Ids, Txt, q)
    PROVE  MergeCounts(msgs, MergeStep(msgs, st, i), i, Ids, Txt, q)
<1> DEFINE P(j) == SubSeq(msgs, 1, j)
<1>0. PICK m : m = msgs[i]  OBVIOUS
<1>1. m \in Proper(Ids, Txt) /\ i - 1 + 1 = i /\ i - 1 \in 0 .. Len(msgs) - 1 /\ Len(msgs) \in Nat
  BY <1>0
<1>2. /\ st.out \in Seq(Proper(Ids, Txt)) /\ st.skip \in {"no", "absorbed", "unseen"}
      /\ st = [out |-> st.out, skip |-> st.skip]
  BY DEF MergeCounts
<1>3. /\ st.skip # "absorbed" => Count(st.out, q) = Count(P(i - 1), q)
      /\ st.skip = "absorbed" => Count(st.out, q) = Count(P(i), q)
  BY <1>1 DEF MergeCounts
<1>4. ASSUME NEW j \in 0 .. Len(msgs) - 1
      PROVE  Count(P(j), q) \in Nat /\ Count(P(j + 1), q) = Count(P(j), q) + Holds(msgs[j + 1], q)
  <2>1. PICK f : f = P(j)  OBVIOUS
  <2>2. P(j + 1) = Append(f, msgs[j + 1]) /\ f \in Seq(Proper(Ids, Txt))  BY <2>1, PrefixStep
  <2>3. msgs[j + 1] \in Proper(Ids, Txt)  OBVIOUS
  <2>4. Count(f, q) \in Nat /\ Count(Append(f, msgs[j + 1]), q) = Count(f, q) + Holds(msgs[j + 1], q)
    BY <2>2, <2>3, CountAppend
  <2> QED  BY ONLY <2>1, <2>2, <2>4
<1>5. Count(P(i), q) = Count(P(i - 1), q) + Holds(m, q) /\ Count(P(i - 1), q) \in Nat
  <2>1. /\ Count(P(i - 1), q) \in Nat
        /\ Count(P(i - 1 + 1), q) = Count(P(i - 1), q) + Holds(msgs[i - 1 + 1], q)
    BY ONLY <1>1, <1>4
  <2> QED  BY ONLY <1>0, <1>1, <2>1
<1> HIDE DEF P
<1>6. CASE st.skip = "absorbed"
  <2>1. MergeStep(msgs, st, i) = [st EXCEPT !.skip = "unseen"]
    BY <1>6 DEF MergeStep
  <2>2. MergeStep(msgs, st, i) = [out |-> st.out, skip |-> "unseen"]  BY <1>2, <2>1
  <2> QED  BY <1>2, <1>3, <1>6, <2>2 DEF MergeCounts, P
<1>7. CASE st.skip = "unseen" \/ (st.skip = "no" /\ ~is_interrupt_event_marker(m))
  <2>0. PICK k : k = Append(st.out, m)  OBVIOUS
  <2>1. MergeStep(msgs, st, i) = [out |-> k, skip |-> "no"]
    BY <1>0, <1>7, <2>0 DEF MergeStep
  <2>2. k \in Seq(Proper(Ids, Txt)) /\ Count(k, q) = Count(st.out, q) + Holds(m, q)
    BY <1>1, <1>2, <2>0, CountAppend
  <2>3. st.skip # "absorbed"  BY <1>7
  <2>4. Count(k, q) = Count(P(i), q)  BY ONLY <1>3, <1>5, <2>2, <2>3
  <2> QED  BY <2>1, <2>2, <2>4 DEF MergeCounts, P
<1>8. CASE st.skip = "no" /\ is_interrupt_event_marker(m)
  <2>1. Holds(m, q) = 0  BY <1>8 DEF is_interrupt_event_marker, Holds, Typed, is_user_message
  <2>2. Count(st.out, q) = Count(P(i), q) /\ Count(P(i), q) \in Nat
    <3>1. st.skip # "absorbed"  BY <1>8
    <3> QED  BY ONLY <1>3, <1>5, <2>1, <3>1
  <2>3. CASE /\ st.out # <<>> /\ is_user_tool_result_only(Last(st.out))
             /\ i < Len(msgs) /\ has_plain_user_text(msgs[i + 1])
    <3>0. PICK n : n = MergedMessage(Last(st.out), msgs[i + 1])  OBVIOUS
    <3>1. PICK k : k = Append(Front(st.out), n)  OBVIOUS
    <3>2. MergeStep(msgs, st, i) = [out |-> k, skip |-> "absorbed"]
      BY <1>0, <1>8, <2>3, <3>0, <3>1 DEF MergeStep
    <3>3. Last(st.out) \in Proper(Ids, Txt) /\ msgs[i + 1] \in Proper(Ids, Txt)
      <4>1. i + 1 \in 1 .. Len(msgs)  BY <2>3
      <4> QED  BY <1>2, <2>3, <4>1 DEF Last
    <3>4. /\ n \in Proper(Ids, Txt) /\ n.role = Last(st.out).role
          /\ n.texts = Last(st.out).texts \cup {InterruptMarker} \cup msgs[i + 1].texts
      BY <3>0, <3>3 DEF MergedMessage, Proper, Message
    <3>5. Last(st.out).texts = {} /\ is_user_message(Last(st.out)) /\ is_user_message(msgs[i + 1])
      BY <2>3 DEF is_user_tool_result_only, has_plain_user_text
    <3>6. Holds(n, q) = Holds(msgs[i + 1], q) /\ Holds(Last(st.out), q) = 0
      BY <3>4, <3>5 DEF Holds, Typed, is_user_message
    <3>7. PICK f : f = Front(st.out)  OBVIOUS
    <3>8. f \in Seq(Proper(Ids, Txt)) /\ Append(f, Last(st.out)) = st.out
      BY <1>2, <2>3, <3>7, FrontProperties, FrontThenLast
    <3>9. Count(f, q) \in Nat /\ Count(st.out, q) = Count(f, q) + Holds(Last(st.out), q)
      BY <3>3, <3>8, CountAppend
    <3>10. k \in Seq(Proper(Ids, Txt)) /\ Count(k, q) = Count(f, q) + Holds(n, q)
      BY <3>1, <3>4, <3>7, <3>8, CountAppend
    <3>11. Count(P(i + 1), q) = Count(P(i), q) + Holds(msgs[i + 1], q)
      <4>1. i \in 0 .. Len(msgs) - 1  BY <1>1, <2>3
      <4> QED  BY ONLY <1>4, <4>1
    <3>12. Count(k, q) = Count(P(i + 1), q)
      BY ONLY <2>2, <3>6, <3>9, <3>10, <3>11
    <3> QED  BY <2>3, <3>2, <3>10, <3>12 DEF MergeCounts, P
  <2>4. CASE ~(/\ st.out # <<>> /\ is_user_tool_result_only(Last(st.out))
               /\ i < Len(msgs) /\ has_plain_user_text(msgs[i + 1]))
    <3>1. MergeStep(msgs, st, i) = [st EXCEPT !.skip = "no"]
      BY <1>0, <1>8, <2>4 DEF MergeStep
    <3>2. MergeStep(msgs, st, i) = [out |-> st.out, skip |-> "no"]  BY <1>2, <3>1
    <3> QED  BY <1>2, <2>2, <3>2 DEF MergeCounts, P
  <2> QED  BY <2>3, <2>4
<1> QED  BY <1>2, <1>6, <1>7, <1>8

(* merge_interrupt_markers keeps every text that users typed.              *)
LEMMA MergeKeepsCounts ==
    ASSUME NEW Ids, NEW Txt, InterruptMarker \in Txt, NEW q, q # InterruptMarker,
           NEW msgs \in Seq(Proper(Ids, Txt))
    PROVE  Count(merge_interrupt_markers(msgs), q) = Count(msgs, q)
<1>0. PICK S : S = Merged(msgs)  OBVIOUS
<1>1. Len(msgs) \in Nat  OBVIOUS
<1>2. S = [i \in 0 .. Len(msgs) |-> IF i = 0 THEN [out |-> <<>>, skip |-> "no"]
                                    ELSE MergeStep(msgs, S[i-1], i)]
  BY <1>0, <1>1, MergedSteps
<1>3. PICK T : T = {i \in 0 .. Len(msgs) : MergeCounts(msgs, S[i], i, Ids, Txt, q)}
  OBVIOUS
<1>4. 0 \in T
  <2>1. S[0] = [out |-> <<>>, skip |-> "no"]  BY <1>1, <1>2
  <2>2. SubSeq(msgs, 1, 0) = <<>>  BY SubSeqEmpty
  <2>3. S[0].out = <<>> /\ S[0].skip = "no" /\ <<>> \in Seq(Proper(Ids, Txt))  BY <2>1
  <2>4. S[0] \in [out : Seq(Proper(Ids, Txt)), skip : {"no", "absorbed", "unseen"}]
    BY ONLY <2>1, <2>3
  <2>5. Count(S[0].out, q) = Count(SubSeq(msgs, 1, 0), q)  BY ONLY <2>2, <2>3
  <2>6. S[0].skip # "absorbed"  BY ONLY <2>3
  <2>7. MergeCounts(msgs, S[0], 0, Ids, Txt, q)  BY ONLY <2>4, <2>5, <2>6 DEF MergeCounts
  <2>8. 0 \in 0 .. Len(msgs)  BY <1>1
  <2> QED  BY ONLY <1>3, <2>7, <2>8
<1>5. ASSUME NEW n \in 0 .. Len(msgs) - 1, n \in T  PROVE n + 1 \in T
  <2>1. n + 1 \in 1 .. Len(msgs) /\ n + 1 # 0 /\ n + 1 - 1 = n /\ n + 1 \in 0 .. Len(msgs)
    BY <1>1
  <2>2. S[n + 1] = MergeStep(msgs, S[n], n + 1)  BY <1>2, <2>1
  <2>3. MergeCounts(msgs, S[n], n + 1 - 1, Ids, Txt, q)  BY <1>3, <1>5, <2>1
  <2>4. MergeCounts(msgs, S[n + 1], n + 1, Ids, Txt, q)
    BY <2>1, <2>2, <2>3, MergeStepCounts
  <2> QED  BY <1>3, <2>1, <2>4
<1>6. \A n \in 0 .. Len(msgs) : n \in T
  <2>1. \A n \in 0 .. Len(msgs) - 1 : n \in T => n + 1 \in T  BY <1>5
  <2> QED  BY ONLY <1>1, <1>4, <2>1, SetInduction
<1>7. MergeCounts(msgs, S[Len(msgs)], Len(msgs), Ids, Txt, q)
  <2>1. Len(msgs) \in T  BY ONLY <1>1, <1>6
  <2> QED  BY ONLY <1>3, <2>1
<1>8. SubSeq(msgs, 1, Len(msgs)) = msgs  BY SubSeqFull
<1>9. Count(S[Len(msgs)].out, q) = Count(SubSeq(msgs, 1, Len(msgs)), q)
  <2>1. ~(Len(msgs) < Len(msgs))  BY ONLY <1>1
  <2> QED  BY ONLY <1>7, <2>1 DEF MergeCounts
<1> QED  BY ONLY <1>0, <1>8, <1>9 DEF merge_interrupt_markers

(* So do the two repairs together.                                         *)
LEMMA RepairedCounts ==
    ASSUME NEW Ids, NEW Txt, InterruptMarker \in Txt, NEW q, q # InterruptMarker,
           NEW msgs \in Seq(Proper(Ids, Txt))
    PROVE  Count(Repaired(msgs), q) = Count(msgs, q)
<1>1. PICK k : k = sanitize_orphaned_tool_use(msgs)  OBVIOUS
<1>2. k \in Seq(Proper(Ids, Txt)) /\ Count(k, q) = Count(msgs, q)
  BY <1>1, SanitizeAnswers, SanitizeCounts
<1>3. Count(merge_interrupt_markers(k), q) = Count(k, q)  BY <1>2, MergeKeepsCounts
<1> QED  BY <1>1, <1>2, <1>3 DEF Repaired

-----------------------------------------------------------------------------
(* Threads of current builds.                                              *)

(* One turn of sanitize_orphaned_tool_use on such a thread: the message    *)
(* follows the prefix as it is or with the results it lacks.               *)
LEMMA SanitizeStepOrderly ==
    ASSUME NEW Ids, NEW Txt, NEW out \in Seq(Proper(Ids, Txt)), Orderly(out),
           NEW m \in Proper(Ids, Txt), Fits(out, m), ~is_interrupt_event_marker(m),
           out # <<>> => m.role # Last(out).role,
           out # <<>> /\ Last(out).uses # {} => m.results # {}
    PROVE  /\ SanitizeStep(out, m) \in Seq(Proper(Ids, Txt)) /\ Orderly(SanitizeStep(out, m))
           /\ SanitizeStep(out, m) # <<>> /\ Last(SanitizeStep(out, m)).uses = m.uses
           /\ Last(SanitizeStep(out, m)).role = m.role
<1>0. PICK missing : missing = MissingResults(out, m)  OBVIOUS
<1>1. out # <<>> => Last(out) \in Proper(Ids, Txt)
  BY DEF Last
<1>2. missing \subseteq Ids  BY <1>0, <1>1 DEF MissingResults, Proper, Message
<1>3. missing # {} => out # <<>> /\ m.results # {}
  BY <1>0 DEF MissingResults
<1>4. CASE missing = {}
  <2>1. SanitizeStep(out, m) = Append(out, m)  BY <1>0, <1>4 DEF SanitizeStep
  <2>2. out # <<>> => m.results = Last(out).uses  BY <1>0, <1>4 DEF MissingResults, Fits
  <2>3. out = <<>> => m.results = {}  BY DEF Fits
  <2>4. Follows(out, m)  BY <2>2, <2>3 DEF Follows
  <2>5. Append(out, m) \in Seq(Proper(Ids, Txt)) /\ Orderly(Append(out, m))
    BY <2>4, OrderlyAppend
  <2>6. Append(out, m) # <<>> /\ Last(Append(out, m)) = m  BY LastOfAppend
  <2> QED  BY <2>1, <2>5, <2>6
<1>5. CASE missing # {}
  <2>0. PICK n : n = [m EXCEPT !.results = @ \cup missing]  OBVIOUS
  <2>1. SanitizeStep(out, m) = Append(out, n)  BY <1>0, <1>3, <1>5, <2>0 DEF SanitizeStep
  <2>2. /\ n \in Proper(Ids, Txt) /\ n.results = m.results \cup missing
        /\ n.uses = m.uses /\ n.role = m.role
    BY <1>2, <1>3, <1>5, <2>0 DEF Proper, Message
  <2>3. n.results = Last(out).uses  BY <1>0, <1>3, <1>5, <2>2 DEF MissingResults, Fits
  <2>4. Follows(out, n)  BY <1>3, <1>5, <2>2, <2>3 DEF Follows, is_interrupt_event_marker
  <2>5. Append(out, n) \in Seq(Proper(Ids, Txt)) /\ Orderly(Append(out, n))
    BY <2>2, <2>4, OrderlyAppend
  <2>6. Append(out, n) # <<>> /\ Last(Append(out, n)) = n  BY <2>2, LastOfAppend
  <2> QED  BY <2>1, <2>2, <2>5, <2>6
<1> QED  BY <1>4, <1>5

(* A thread of a current build is orderly once sanitized.                  *)
LEMMA ModernOrderly ==
    ASSUME NEW Ids, NEW Txt, NEW msgs \in Seq(Proper(Ids, Txt)), NoOrphanedToolResult(msgs),
           RolesAlternate(msgs), Modern(msgs)
    PROVE  /\ sanitize_orphaned_tool_use(msgs) \in Seq(Proper(Ids, Txt))
           /\ Orderly(sanitize_orphaned_tool_use(msgs))
<1>0. PICK S : S = Sanitized(msgs)  OBVIOUS
<1>1. Len(msgs) \in Nat /\ DOMAIN msgs = 1 .. Len(msgs)  OBVIOUS
<1>2. S = [i \in 0 .. Len(msgs) |-> IF i = 0 THEN <<>> ELSE SanitizeStep(S[i-1], msgs[i])]
  BY <1>0, <1>1, SanitizedSteps
<1> DEFINE OK(i) == /\ S[i] \in Seq(Proper(Ids, Txt)) /\ Orderly(S[i])
                    /\ i = 0 => S[i] = <<>>
                    /\ i # 0 => /\ S[i] # <<>> /\ Last(S[i]).uses = msgs[i].uses
                                /\ Last(S[i]).role = msgs[i].role
<1>3. PICK T : T = {i \in 0 .. Len(msgs) : OK(i)}  OBVIOUS
<1>4. 0 \in T
  <2>1. S[0] = <<>>  BY <1>1, <1>2
  <2>2. OK(0)  BY <2>1, OrderlyEmpty
  <2>3. 0 \in 0 .. Len(msgs)  BY <1>1
  <2> QED  BY ONLY <1>3, <2>2, <2>3
<1>5. ASSUME NEW n \in 0 .. Len(msgs) - 1, n \in T  PROVE n + 1 \in T
  <2>1. n + 1 \in 1 .. Len(msgs) /\ n + 1 # 0 /\ n + 1 - 1 = n /\ n + 1 \in 0 .. Len(msgs)
    BY <1>1
  <2>2. S[n + 1] = SanitizeStep(S[n], msgs[n + 1])  BY <1>2, <2>1
  <2>3. msgs[n + 1] \in Proper(Ids, Txt)  BY <2>1
  <2>4. OK(n)  BY <1>3, <1>5
  <2>5. Fits(S[n], msgs[n + 1])  BY <2>4, NextFits
  <2>6. ~is_interrupt_event_marker(msgs[n + 1])  BY <1>1, <2>1 DEF Modern
  <2>7. ASSUME S[n] # <<>>
        PROVE  /\ msgs[n + 1].role # Last(S[n]).role
               /\ Last(S[n]).uses # {} => msgs[n + 1].results # {}
    <3>1. n # 0  BY <2>4, <2>7
    <3>0. n \in 1 .. Len(msgs) - 1 /\ n \in 1 .. Len(msgs) /\ n # Len(msgs)
      BY ONLY n \in 0 .. Len(msgs) - 1, Len(msgs) \in Nat, <3>1
    <3>2. n \in 1 .. Len(msgs) - 1 /\ n \in DOMAIN msgs /\ n # Len(msgs)
      BY ONLY <1>1, <3>0
    <3>3. msgs[n].role # msgs[n + 1].role  BY <3>2 DEF RolesAlternate
    <3>4. msgs[n].uses # {} => msgs[n + 1].results # {}  BY <3>2 DEF Modern
    <3> QED  BY <2>4, <3>1, <3>3, <3>4
  <2>8. OK(n + 1)  BY <2>1, <2>2, <2>3, <2>4, <2>5, <2>6, <2>7, SanitizeStepOrderly
  <2> QED  BY ONLY <1>3, <2>1, <2>8
<1>6. \A n \in 0 .. Len(msgs) : n \in T
  <2>1. \A n \in 0 .. Len(msgs) - 1 : n \in T => n + 1 \in T  BY <1>5
  <2> QED  BY ONLY <1>1, <1>4, <2>1, SetInduction
<1>7. PICK out : out = S[Len(msgs)]  OBVIOUS
<1>8. out \in Seq(Proper(Ids, Txt)) /\ Orderly(out)
  <2>1. Len(msgs) \in T  BY ONLY <1>1, <1>6
  <2> QED  BY <1>3, <1>7, <2>1
<1>9. sanitize_orphaned_tool_use(msgs) = AnswerTail(out)
  BY <1>0, <1>7 DEF sanitize_orphaned_tool_use
<1> QED  BY <1>8, <1>9, AnswerTailOrderly

(* So the next query makes a valid request of it.                          *)
LEMMA ModernReplayable ==
    ASSUME NEW Ids, NEW Txt, InterruptMarker \in Txt, NEW query \in Txt,
           NEW msgs \in Seq(Proper(Ids, Txt)), NoOrphanedToolResult(msgs),
           RolesAlternate(msgs), Modern(msgs)
    PROVE  ReplayValid(AddQuery(Repaired(msgs), query))
<1>1. PICK k : k = sanitize_orphaned_tool_use(msgs)  OBVIOUS
<1>2. k \in Seq(Proper(Ids, Txt)) /\ Orderly(k)  BY <1>1, ModernOrderly
<1>3. Repaired(msgs) = k  BY <1>1, <1>2, MergedKeepsOrderly DEF Repaired
<1>4. NoOrphanedToolUse(k)  BY <1>1, SanitizeAnswers
<1>5. PICK a : a = AddQuery(k, query)  OBVIOUS
<1>6. a \in Seq(Proper(Ids, Txt)) /\ NoOrphanedToolUse(a)  BY <1>2, <1>4, <1>5, AddQueryNoOrphan
<1>7. Orderly(a)  BY <1>2, <1>4, <1>5, AddQueryOrderly
<1> QED  BY <1>3, <1>5, <1>6, <1>7, OrderlyIsValid

-----------------------------------------------------------------------------
(* The threads a daemon may find.                                          *)

ThreadTexts == Queries \cup {"answer", LegacyEvent, InterruptMarker}

(* What every build keeps, whatever it was doing when it stopped: roles    *)
(* alternate and a reply holds results only of the tool uses before it.    *)
ThreadInv ==
    /\ thread \in Seq(Proper(ToolIds, ThreadTexts))
    /\ RolesAlternate(thread)
    /\ NoOrphanedToolResult(thread)

(* A message of the other role that fits keeps it.                         *)
LEMMA ThreadGrows ==
    ASSUME ThreadInv, NEW m \in Proper(ToolIds, ThreadTexts), Fits(thread, m),
           thread # <<>> => Last(thread).role # m.role, thread' = Append(thread, m)
    PROVE  ThreadInv'
<1> DEFINE M == Proper(ToolIds, ThreadTexts)
<1> HIDE DEF M
<1>1. thread \in Seq(M) /\ m \in M  BY DEF M, ThreadInv
<1>2. PICK k : k = Append(thread, m)  OBVIOUS
<1>3. /\ k \in Seq(M) /\ Len(k) = Len(thread) + 1 /\ k[Len(thread) + 1] = m
      /\ \A i \in 1 .. Len(thread) : k[i] = thread[i]
  BY <1>1, <1>2
<1>4. Len(thread) \in Nat /\ (Len(thread) > 0 <=> thread # <<>>)  BY <1>1
<1>5. RolesAlternate(k)
  <2> SUFFICES ASSUME NEW i \in 1 .. Len(k) - 1  PROVE k[i].role # k[i + 1].role
    BY DEF RolesAlternate
  <2>1. i \in 1 .. Len(thread) /\ k[i] = thread[i]  BY <1>3, <1>4
  <2>2. CASE i = Len(thread)  BY <1>3, <1>4, <2>1, <2>2 DEF Last
  <2>3. CASE i < Len(thread)
    <3>1. i \in 1 .. Len(thread) - 1 /\ i + 1 \in 1 .. Len(thread)  BY <1>4, <2>1, <2>3
    <3> QED  BY <1>3, <2>1, <3>1 DEF ThreadInv, RolesAlternate
  <2>4. i = Len(thread) \/ i < Len(thread)
    <3>1. i \in 1 .. Len(thread)  BY <2>1
    <3> QED  BY ONLY <1>4, <3>1
  <2> QED  BY ONLY <2>2, <2>3, <2>4
<1>6. NoOrphanedToolResult(k)  BY <1>2, PairedAppend DEF ThreadInv
<1>7. thread' = k  BY <1>2
<1> QED  BY <1>3, <1>5, <1>6, <1>7 DEF ThreadInv, M

(* ThreadInv holds of every thread the builds can leave behind.            *)
THEOREM ThreadInvHolds == Spec => []ThreadInv
<1>1. Init => ThreadInv
  <2>1. 1 .. Len(<<>>) - 1 = {} /\ <<>> \in Seq(Proper(ToolIds, ThreadTexts))  OBVIOUS
  <2> QED  BY <2>1, EmptyPaired DEF Init, ThreadInv, RolesAlternate
<1>2. ThreadInv /\ [Next]_thread => ThreadInv'
  <2> SUFFICES ASSUME ThreadInv, [Next]_thread  PROVE ThreadInv'  OBVIOUS
  <2>1. thread # <<>> => Newest = Last(thread) /\ Last(thread) \in Proper(ToolIds, ThreadTexts)
    BY DEF Newest, Last, ThreadInv
  <2>2. thread = <<>> => Newest.uses = {} /\ Newest.role = "assistant"
    BY DEF Newest, AssistantText
  <2>3. CASE AddUser
    <3>1. PICK m \in UserTurns(Newest) : thread' = Append(thread, m)  BY <2>3 DEF AddUser
    <3>2. Newest.role = "assistant"  BY <2>3 DEF AddUser
    <3>3. CASE \E q \in Queries : m = UserText(q)
      <4>1. PICK q \in Queries : m = UserText(q)  BY <3>3
      <4>2. m \in Proper(ToolIds, ThreadTexts) /\ m.results = {} /\ m.role = "user"
        BY <4>1 DEF UserText, Proper, Message, ThreadTexts
      <4> QED  BY <2>1, <3>1, <3>2, <4>2, ThreadGrows DEF Fits
    <3>4. CASE m \in Replies(Newest)
      <4>1. PICK ids \in (SUBSET Newest.uses) \ {{}}, ts \in {{}} \cup {{q} : q \in Queries} :
              m = [UserResults(ids) EXCEPT !.texts = ts]
        BY <3>4 DEF Replies
      <4>2. ts \subseteq ThreadTexts  BY DEF ThreadTexts
      <4>3. thread # <<>>  BY <2>2
      <4>4. ids \subseteq ToolIds  BY <2>1, <4>3 DEF Proper, Message
      <4>5. m = [role |-> "user", uses |-> {}, results |-> ids, texts |-> ts]
        BY <4>1 DEF UserResults
      <4>6. m \in Proper(ToolIds, ThreadTexts) /\ m.results = ids /\ m.role = "user"
        BY <4>2, <4>4, <4>5 DEF Proper, Message
      <4>7. Fits(thread, m)  BY <2>1, <4>3, <4>6 DEF Fits
      <4> QED  BY <2>1, <3>1, <3>2, <4>6, <4>7, ThreadGrows
    <3> QED  BY <3>3, <3>4 DEF UserTurns
  <2>4. CASE AddAssistant
    <3>1. PICK m \in AssistantTurns : thread' = Append(thread, m)  BY <2>4 DEF AddAssistant
    <3>2. Newest.role = "user"  BY <2>4 DEF AddAssistant
    <3>3. m \in Proper(ToolIds, ThreadTexts) /\ m.results = {} /\ m.role = "assistant"
      BY DEF AssistantTurns, AssistantUses, AssistantText, Proper, Message, ThreadTexts
    <3>4. Fits(thread, m)  BY <3>3 DEF Fits
    <3> QED  BY <2>1, <3>1, <3>2, <3>3, <3>4, ThreadGrows
  <2>5. CASE thread' = thread  BY <2>5 DEF ThreadInv
  <2> QED  BY <2>3, <2>4, <2>5 DEF Next
<1> QED  BY <1>1, <1>2, PTL DEF Spec

(* Whatever thread the daemon finds, the repair leaves every tool use      *)
(* answered and every result paired, now and when it is repaired again, it *)
(* reports a change exactly when there was one to make, keeps every query, *)
(* and a thread of a current build goes on with the next query             *)
(* (conversation_mgr.rs, repair at startup and at each chat message).      *)
THEOREM RepairedThreadIsUsable == Spec => []RepairedThreadUsable
<1> DEFINE P == Proper(ToolIds, ThreadTexts)
<1>1. InterruptMarker \in ThreadTexts  BY DEF ThreadTexts
<1>2. ThreadInv => RepairedThreadUsable
  <2> SUFFICES ASSUME ThreadInv  PROVE RepairedThreadUsable  OBVIOUS
  <2>1. thread \in Seq(P) /\ RolesAlternate(thread) /\ NoOrphanedToolResult(thread)
    BY DEF ThreadInv
  <2>2. SanitizeRepairs
    <3>1. PICK clean : clean = sanitize_orphaned_tool_use(thread)  OBVIOUS
    <3>2. clean \in Seq(P) /\ NoOrphanedToolUse(clean)  BY <2>1, <3>1, SanitizeAnswers
    <3>3. NoOrphanedToolResult(clean)  BY <2>1, <3>1, SanitizePairs
    <3>4. (clean = thread) <=> NoOrphanedToolUse(thread)  BY <2>1, <3>1, SanitizeChanges
    <3>5. sanitize_orphaned_tool_use(clean) = clean  BY <3>2, SanitizeChanges
    <3> QED  BY <3>1, <3>2, <3>3, <3>4, <3>5 DEF SanitizeRepairs
  <2>3. RepairKeepsToolPairs
    <3>1. PICK once : once = Repaired(thread)  OBVIOUS
    <3>2. PICK twice : twice = Repaired(once)  OBVIOUS
    <3>3. once \in Seq(P) /\ NoOrphanedToolUse(once) /\ NoOrphanedToolResult(once)
      BY <1>1, <2>1, <3>1, RepairedPaired
    <3>4. NoOrphanedToolUse(twice) /\ NoOrphanedToolResult(twice)
      BY <1>1, <3>2, <3>3, RepairedPaired
    <3> QED  BY <3>1, <3>2, <3>3, <3>4 DEF RepairKeepsToolPairs
  <2>4. RepairKeepsQueries
    <3>1. \A q \in Queries : Count(Repaired(thread), q) = Count(thread, q)
      <4> SUFFICES ASSUME NEW q \in Queries  PROVE Count(Repaired(thread), q) = Count(thread, q)
        OBVIOUS
      <4>1. q # InterruptMarker  BY QueriesAssumption
      <4> QED  BY <1>1, <2>1, <4>1, RepairedCounts
    <3>2. PICK k : k = Repaired(thread)  OBVIOUS
    <3>3. \A q \in Queries : Count(k, q) = Count(thread, q)  BY <3>1, <3>2
    <3>4. UserTexts(k) = {<<q, Count(k, q)>> : q \in Queries}  BY DEF UserTexts, Count
    <3>5. UserTexts(thread) = {<<q, Count(thread, q)>> : q \in Queries}  BY DEF UserTexts, Count
    <3>6. UserTexts(k) = UserTexts(thread)  BY <3>3, <3>4, <3>5
    <3> QED  BY <3>2, <3>6 DEF RepairKeepsQueries
  <2>5. NextTurnReplayable
    <3> SUFFICES ASSUME Modern(thread), NEW q \in Queries
                 PROVE  ReplayValid(AddQuery(Repaired(thread), q))
      BY DEF NextTurnReplayable
    <3>1. q \in ThreadTexts  BY DEF ThreadTexts
    <3> QED  BY <1>1, <2>1, <3>1, ModernReplayable
  <2> QED  BY <2>2, <2>3, <2>4, <2>5 DEF RepairedThreadUsable
<1> QED  BY <1>2, ThreadInvHolds, PTL

(* f holds the concatenations of the first i sequences of p, for i up to n. *)
FlatTo(p, n, f) == f = [i \in 1 .. n |-> IF i = 1 THEN p[i] ELSE f[i-1] \o p[i]]
Flat(p, f) == FlatTo(p, Len(p), f)

(* What Flat says of one position.                                         *)
LEMMA FlatAt ==
    ASSUME NEW p, NEW n, NEW f, FlatTo(p, n, f), NEW i \in 1 .. n
    PROVE  f[i] = IF i = 1 THEN p[i] ELSE f[i-1] \o p[i]
<1> DEFINE e(j) == IF j = 1 THEN p[j] ELSE f[j-1] \o p[j]
<1>1. f = [j \in 1 .. n |-> e(j)]  BY DEF FlatTo
<1> HIDE DEF e
<1>2. f[i] = e(i)  BY <1>1
<1> QED  BY <1>2 DEF e

(* Flat, from what it says of each position.                               *)
LEMMA FlatIs ==
    ASSUME NEW p, NEW n, NEW f, DOMAIN f = 1 .. n, f = [i \in DOMAIN f |-> f[i]],
           \A i \in 1 .. n : f[i] = IF i = 1 THEN p[i] ELSE f[i-1] \o p[i]
    PROVE  FlatTo(p, n, f)
<1> DEFINE e(j) == IF j = 1 THEN p[j] ELSE f[j-1] \o p[j]
<1>1. \A i \in 1 .. n : f[i] = e(i)  OBVIOUS
<1> HIDE DEF e
<1>2. f = [j \in 1 .. n |-> e(j)]  BY <1>1
<1> QED  BY <1>2 DEF e, FlatTo

(* FlattenSeq is a loop over the sequences, and Flat describes it.         *)
LEMMA FlatExists ==
    ASSUME NEW p, NEW N \in Nat
    PROVE  \E f : FlatTo(p, N, f)
<1>0. PICK T : T = {n \in 0 .. N : \E f : FlatTo(p, n, f)}
  OBVIOUS
<1>1. 0 \in T
  <2>0. PICK f : f = [i \in 1 .. 0 |-> <<>>]  OBVIOUS
  <2>1. DOMAIN f = 1 .. 0 /\ f = [i \in DOMAIN f |-> f[i]]  BY <2>0
  <2>2. 1 .. 0 = {}  OBVIOUS
  <2>3. \A i \in 1 .. 0 : f[i] = IF i = 1 THEN p[i] ELSE f[i-1] \o p[i]  BY ONLY <2>2
  <2>4. FlatTo(p, 0, f)  BY ONLY <2>1, <2>3, FlatIs
  <2> QED  BY <1>0, <2>4
<1>2. ASSUME NEW n \in 0 .. N - 1, n \in T  PROVE n + 1 \in T
  <2>1. PICK f : FlatTo(p, n, f)  BY <1>0, <1>2
  <2>2. PICK g : g = [i \in 1 .. n + 1 |-> IF i = n + 1 THEN (IF i = 1 THEN p[i] ELSE f[n] \o p[n + 1]) ELSE f[i]]
    OBVIOUS
  <2>3. \A i \in 1 .. n + 1 : g[i] = IF i = 1 THEN p[i] ELSE g[i-1] \o p[i]
    <3> SUFFICES ASSUME NEW i \in 1 .. n + 1
                 PROVE g[i] = IF i = 1 THEN p[i] ELSE g[i-1] \o p[i]
      OBVIOUS
    <3>1. CASE i = n + 1
      <4>1. i # 1 => g[i - 1] = f[n]  BY <2>2, <3>1
      <4> QED  BY <2>2, <3>1, <4>1
    <3>2. CASE i \in 1 .. n /\ i # 1
      <4>1. g[i - 1] = f[i - 1] /\ g[i] = f[i]  BY <2>2, <3>2
      <4>0. i \in 1 .. n  BY <3>2
      <4>2. f[i] = IF i = 1 THEN p[i] ELSE f[i - 1] \o p[i]  BY ONLY <2>1, <4>0, FlatAt
      <4> QED  BY <3>2, <4>1, <4>2
    <3>3. CASE i \in 1 .. n /\ i = 1
      <4>1. g[i] = f[i]  BY <2>2, <3>3
      <4>2. f[i] = p[i]  BY <2>1, <3>3, FlatAt
      <4> QED  BY <3>3, <4>1, <4>2
    <3> QED  BY <3>1, <3>2, <3>3
  <2>4. DOMAIN g = 1 .. n + 1 /\ g = [i \in DOMAIN g |-> g[i]]  BY <2>2
  <2>5. FlatTo(p, n + 1, g)  BY <2>3, <2>4, FlatIs
  <2> QED  BY <1>0, <2>5
<1>3. \A n \in 0 .. N : n \in T
  <2>1. \A n \in 0 .. N - 1 : n \in T => n + 1 \in T  BY <1>2
  <2> QED  BY ONLY N \in Nat, <1>1, <2>1, SetInduction
<1>4. N \in T  BY ONLY N \in Nat, <1>3
<1> QED  BY <1>0, <1>4

(* FlattenSeq ends with the last concatenation.                            *)
LEMMA FlatSteps ==
    ASSUME NEW p, Len(p) \in Nat, Len(p) # 0
    PROVE  \E f : Flat(p, f) /\ FlattenSeq(p) = f[Len(p)]
<1>1. PICK h : h = CHOOSE f : f = [i \in 1 .. Len(p) |-> IF i = 1 THEN p[i] ELSE f[i-1] \o p[i]]
  OBVIOUS
<1>2. Flat(p, h)  BY <1>1, FlatExists DEF Flat, FlatTo
<1>3. FlattenSeq(p) = h[Len(p)]  BY <1>1 DEF FlattenSeq
<1> QED  BY <1>2, <1>3

(* The concatenations are sequences, and depend on what is in front only.  *)
LEMMA FlatTyped ==
    ASSUME NEW S, NEW p \in Seq(Seq(S)), NEW f, Flat(p, f)
    PROVE  \A i \in 1 .. Len(p) : f[i] \in Seq(S)
<1>0. PICK T : T = {i \in 0 .. Len(p) : i # 0 => f[i] \in Seq(S)}  OBVIOUS
<1>1. Len(p) \in Nat  OBVIOUS
<1>2. 0 \in T  BY <1>0, <1>1
<1>3. ASSUME NEW n \in 0 .. Len(p) - 1, n \in T  PROVE n + 1 \in T
  <2>1. n + 1 \in 1 .. Len(p) /\ n + 1 \in 0 .. Len(p) /\ n + 1 - 1 = n /\ (n + 1 = 1 <=> n = 0)  BY <1>1
  <2>2. p[n + 1] \in Seq(S)  BY <2>1
  <2>3. f[n + 1] = IF n = 0 THEN p[n + 1] ELSE f[n] \o p[n + 1]  BY <2>1, FlatAt DEF Flat
  <2>4. n # 0 => f[n] \in Seq(S)  BY <1>0, <1>3
  <2>5. f[n + 1] \in Seq(S)  BY <2>2, <2>3, <2>4
  <2> QED  BY <1>0, <2>1, <2>5
<1>4. \A n \in 0 .. Len(p) : n \in T
  <2>1. \A n \in 0 .. Len(p) - 1 : n \in T => n + 1 \in T  BY <1>3
  <2> QED  BY ONLY <1>1, <1>2, <2>1, SetInduction
<1>5. ASSUME NEW i \in 1 .. Len(p)  PROVE f[i] \in Seq(S)
  <2>1. i \in 0 .. Len(p) /\ i # 0  BY <1>1
  <2> QED  BY <1>0, <1>4, <2>1
<1> QED  BY <1>5

(* q begins with p.                                                        *)
Begins(p, q) == Len(p) <= Len(q) /\ (\A i \in 1 .. Len(p) : q[i] = p[i])

(* The same beginning gives the same concatenations.                       *)
LEMMA FlatSame ==
    ASSUME NEW S, NEW p \in Seq(S), NEW q \in Seq(S), NEW f, NEW g, Flat(p, f), Flat(q, g),
           Begins(p, q)
    PROVE  \A i \in 1 .. Len(p) : g[i] = f[i]
<1>0. PICK T : T = {i \in 0 .. Len(p) : i # 0 => f[i] = g[i]}  OBVIOUS
<1>1. Len(p) \in Nat /\ Len(q) \in Nat /\ Len(p) <= Len(q)  BY DEF Begins
<1>2. 0 \in T  BY <1>0, <1>1
<1>3. ASSUME NEW n \in 0 .. Len(p) - 1, n \in T  PROVE n + 1 \in T
  <2>1. n + 1 \in 1 .. Len(p) /\ n + 1 \in 1 .. Len(q) /\ n + 1 \in 0 .. Len(p) /\ n + 1 - 1 = n /\ (n + 1 = 1 <=> n = 0)
    BY <1>1
  <2>2. p[n + 1] = q[n + 1]  BY <2>1 DEF Begins
  <2>3. f[n + 1] = IF n = 0 THEN p[n + 1] ELSE f[n] \o p[n + 1]  BY <2>1, FlatAt DEF Flat
  <2>4. g[n + 1] = IF n = 0 THEN q[n + 1] ELSE g[n] \o q[n + 1]  BY <2>1, FlatAt DEF Flat
  <2>5. n # 0 => f[n] = g[n]  BY <1>0, <1>3
  <2>6. f[n + 1] = g[n + 1]  BY <2>2, <2>3, <2>4, <2>5
  <2> QED  BY <1>0, <2>1, <2>6
<1>4. \A n \in 0 .. Len(p) : n \in T
  <2>1. \A n \in 0 .. Len(p) - 1 : n \in T => n + 1 \in T  BY <1>3
  <2> QED  BY ONLY <1>1, <1>2, <2>1, SetInduction
<1>5. ASSUME NEW i \in 1 .. Len(p)  PROVE g[i] = f[i]
  <2>1. i \in 0 .. Len(p) /\ i # 0  BY <1>1
  <2> QED  BY <1>0, <1>4, <2>1
<1> QED  BY <1>5

(* Nothing flattened.                                                      *)
LEMMA FlattenEmpty == FlattenSeq(<<>>) = <<>>
BY DEF FlattenSeq

(* FlattenSeq, one sequence more.                                          *)
LEMMA FlattenAppend ==
    ASSUME NEW S, NEW p \in Seq(Seq(S)), NEW x \in Seq(S)
    PROVE  /\ FlattenSeq(p) \in Seq(S)
           /\ FlattenSeq(Append(p, x)) = FlattenSeq(p) \o x
<1>1. PICK q : q = Append(p, x)  OBVIOUS
<1>2. /\ q \in Seq(Seq(S)) /\ Len(q) = Len(p) + 1 /\ q[Len(p) + 1] = x
      /\ \A i \in 1 .. Len(p) : q[i] = p[i]
  BY <1>1
<1>3. Len(p) \in Nat /\ Len(q) \in Nat  BY <1>2
<1>4. Len(q) # 0  BY <1>2, <1>3
<1>5. PICK g : Flat(q, g) /\ FlattenSeq(q) = g[Len(q)]  BY <1>3, <1>4, FlatSteps
<1>6. CASE p = <<>>
  <2>1. Len(q) = 1 /\ g[1] = q[1]  BY <1>2, <1>5, <1>6, FlatAt DEF Flat
  <2>2. FlattenSeq(p) = <<>>  BY <1>6, FlattenEmpty
  <2>3. q[1] = x  BY <1>2, <1>6
  <2> QED  BY <1>1, <1>5, <2>1, <2>2, <2>3
<1>7. CASE p # <<>>
  <2>1. Len(p) # 0  BY <1>7
  <2>2. PICK f : Flat(p, f) /\ FlattenSeq(p) = f[Len(p)]  BY <1>3, <2>1, FlatSteps
  <2>3. Len(p) \in 1 .. Len(p) /\ Len(p) <= Len(q)  BY <1>2, <1>3, <2>1
  <2>4. g[Len(p)] = f[Len(p)]
    <3>0. PICK M : M = Seq(S)  OBVIOUS
    <3>1. \A i \in 1 .. Len(p) : g[i] = f[i]
      <4>1. p \in Seq(M) /\ q \in Seq(M)  BY <1>2, <3>0
      <4>2. Begins(p, q)  BY <1>2, <2>3 DEF Begins
      <4> QED  BY ONLY <1>5, <2>2, <4>1, <4>2, FlatSame
    <3> QED  BY <2>3, <3>1
  <2>5. FlattenSeq(p) \in Seq(S)  BY <2>2, <2>3, FlatTyped
  <2>6. g[Len(q)] = g[Len(q) - 1] \o q[Len(q)]
    <3>1. Len(q) \in 1 .. Len(q) /\ Len(q) # 1  BY <1>2, <1>3, <2>1
    <3>0. PICK n : n = Len(q)  OBVIOUS
    <3>2. FlatTo(q, n, g) /\ n \in 1 .. n  BY <1>5, <3>0, <3>1 DEF Flat
    <3>3. g[n] = IF n = 1 THEN q[n] ELSE g[n - 1] \o q[n]  BY ONLY <3>2, FlatAt
    <3> QED  BY ONLY <3>0, <3>1, <3>3
  <2>7. Len(q) - 1 = Len(p)  BY <1>2, <1>3
  <2> QED  BY <1>1, <1>2, <1>5, <2>2, <2>4, <2>5, <2>6, <2>7
<1> QED  BY <1>6, <1>7

(* FlattenSeq of two sequences of sequences.                               *)
LEMMA FlattenConcat ==
    ASSUME NEW S, NEW p \in Seq(Seq(S)), NEW q \in Seq(Seq(S))
    PROVE  /\ FlattenSeq(p \o q) = FlattenSeq(p) \o FlattenSeq(q)
           /\ FlattenSeq(p) \in Seq(S)
<1>0. PICK M : M = Seq(S)  OBVIOUS
<1>1. p \in Seq(M) /\ q \in Seq(M) /\ Len(q) \in Nat  BY <1>0
<1> DEFINE OK(n) == FlattenSeq(p \o SubSeq(q, 1, n)) = FlattenSeq(p) \o FlattenSeq(SubSeq(q, 1, n))
<1>2. PICK T : T = {n \in 0 .. Len(q) : OK(n)}  OBVIOUS
<1>3. FlattenSeq(p) \in Seq(S)
  <2>1. <<>> \in Seq(S)  OBVIOUS
  <2> QED  BY <2>1, FlattenAppend
<1>4. 0 \in T
  <2>1. SubSeq(q, 1, 0) = <<>>  OBVIOUS
  <2>2. p \o <<>> = p  BY <1>1
  <2>3. FlattenSeq(p) \o <<>> = FlattenSeq(p)  BY <1>3
  <2>4. OK(0)  BY <2>1, <2>2, <2>3, FlattenEmpty
  <2> QED  BY <1>1, <1>2, <2>4
<1>5. ASSUME NEW n \in 0 .. Len(q) - 1, n \in T  PROVE n + 1 \in T
  <2>0. PICK r : r = SubSeq(q, 1, n)  OBVIOUS
  <2>1. SubSeq(q, 1, n + 1) = Append(r, q[n + 1]) /\ r \in Seq(M)  BY <1>1, <2>0, PrefixStep
  <2>2. PICK x : x = q[n + 1]  OBVIOUS
  <2>3. x \in Seq(S)
    <3>1. n + 1 \in 1 .. Len(q)  BY <1>1
    <3> QED  BY <2>2, <3>1
  <2>4. r \in Seq(Seq(S)) /\ p \o r \in Seq(Seq(S))  BY <1>0, <2>1
  <2>5. p \o Append(r, x) = Append(p \o r, x)  BY <2>3, <2>4
  <2>6. FlattenSeq(Append(p \o r, x)) = FlattenSeq(p \o r) \o x  BY <2>3, <2>4, FlattenAppend
  <2>7. FlattenSeq(Append(r, x)) = FlattenSeq(r) \o x /\ FlattenSeq(r) \in Seq(S)  BY <2>3, <2>4, FlattenAppend
  <2>8. FlattenSeq(p \o r) = FlattenSeq(p) \o FlattenSeq(r)  BY <1>2, <1>5, <2>0
  <2>9. (FlattenSeq(p) \o FlattenSeq(r)) \o x = FlattenSeq(p) \o (FlattenSeq(r) \o x)
    <3>1. PICK a, b : a = FlattenSeq(p) /\ b = FlattenSeq(r)  OBVIOUS
    <3>2. a \in Seq(S) /\ b \in Seq(S)  BY <1>3, <2>7, <3>1
    <3>3. (a \o b) \o x = a \o (b \o x)  BY ONLY <2>3, <3>2, ConcatAssociative
    <3> QED  BY ONLY <3>1, <3>3
  <2>10. OK(n + 1)  BY <2>1, <2>2, <2>5, <2>6, <2>7, <2>8, <2>9
  <2>11. n + 1 \in 0 .. Len(q)  BY <1>1
  <2> QED  BY ONLY <1>2, <2>10, <2>11
<1>6. \A n \in 0 .. Len(q) : n \in T
  <2>1. \A n \in 0 .. Len(q) - 1 : n \in T => n + 1 \in T  BY <1>5
  <2> QED  BY ONLY <1>1, <1>4, <2>1, SetInduction
<1>7. OK(Len(q))
  <2>1. Len(q) \in T  BY ONLY <1>1, <1>6
  <2> QED  BY ONLY <1>2, <2>1
<1>8. SubSeq(q, 1, Len(q)) = q  BY <1>1, SubSeqFull
<1> QED  BY <1>3, <1>7, <1>8

-----------------------------------------------------------------------------
(* How often.                                                              *)

(* A set of positions and the set with one position more.                  *)
LEMMA OnePosition ==
    ASSUME NEW n \in Nat, NEW H, NEW K, K \subseteq 1 .. n + 1, H = K \cap (1 .. n)
    PROVE  /\ Cardinality(H) \in Nat
           /\ n + 1 \in K => Cardinality(K) = Cardinality(H) + 1
           /\ n + 1 \notin K => Cardinality(K) = Cardinality(H)
<1>1. 1 .. n + 1 = (1 .. n) \cup {n + 1} /\ n + 1 \notin 1 .. n  BY ONLY n \in Nat
<1>2. IsFiniteSet(H)
  <2>1. IsFiniteSet(1 .. n)
    <3>1. n \in Int /\ 1 \in Int  BY ONLY n \in Nat
    <3> QED  BY ONLY <3>1, FS_Interval
  <2>2. H \subseteq 1 .. n  OBVIOUS
  <2> QED  BY ONLY <2>1, <2>2, FS_Subset
<1>3. Cardinality(H) \in Nat  BY <1>2, FS_CardinalityType
<1>4. CASE n + 1 \in K
  <2>1. K = H \cup {n + 1} /\ n + 1 \notin H  BY <1>1, <1>4
  <2>2. Cardinality(K) = Cardinality(H) + 1  BY ONLY <1>2, <2>1, FS_AddElement
  <2> QED  BY ONLY <1>3, <1>4, <2>2
<1>5. CASE n + 1 \notin K
  <2>1. K = H  BY <1>1, <1>5
  <2> QED  BY ONLY <1>3, <1>5, <2>1
<1> QED  BY <1>4, <1>5

(* The words of a text.                                                    *)
LEMMA WordsEmpty == ASSUME NEW w PROVE Words(<<>>, w) = 0
<1>1. {i \in DOMAIN <<>> : <<>>[i] = w} = {}
  <2>1. DOMAIN <<>> = {}  OBVIOUS
  <2> QED  BY <2>1
<1> QED  BY <1>1, FS_EmptySet DEF Words

(* How often w stands in <<x>>.                                            *)
Times(x, w) == IF x = w THEN 1 ELSE 0

(* One word more.                                                          *)
LEMMA WordsAppend ==
    ASSUME NEW S, NEW s \in Seq(S), NEW x \in S, NEW w
    PROVE  /\ Words(s, w) \in Nat
           /\ Words(Append(s, x), w) = Words(s, w) + Times(x, w)
<1>1. PICK k : k = Append(s, x)  OBVIOUS
<1>2. PICK n : n = Len(s)  OBVIOUS
<1>3. /\ n \in Nat /\ k[n + 1] = x /\ \A i \in 1 .. n : k[i] = s[i]
      /\ DOMAIN k = 1 .. n + 1 /\ DOMAIN s = 1 .. n
  BY <1>1, <1>2
<1>4. PICK H : H = {i \in DOMAIN s : s[i] = w}  OBVIOUS
<1>5. PICK K : K = {i \in DOMAIN k : k[i] = w}  OBVIOUS
<1>6. K \subseteq 1 .. n + 1  BY <1>3, <1>5
<1>7. H = K \cap (1 .. n)
  <2>1. \A i \in 1 .. n : i \in 1 .. n + 1  BY <1>3
  <2> QED  BY <1>3, <1>4, <1>5, <2>1
<1>8. n + 1 \in K <=> x = w
  <2>1. n + 1 \in 1 .. n + 1  BY <1>3
  <2> QED  BY <1>3, <1>5, <2>1
<1>9. /\ Cardinality(H) \in Nat
      /\ n + 1 \in K => Cardinality(K) = Cardinality(H) + 1
      /\ n + 1 \notin K => Cardinality(K) = Cardinality(H)
  BY ONLY <1>3, <1>6, <1>7, OnePosition
<1>10. Words(s, w) = Cardinality(H) /\ Words(k, w) = Cardinality(K)  BY <1>4, <1>5 DEF Words
<1> QED  BY ONLY <1>1, <1>8, <1>9, <1>10 DEF Times

(* Two texts have the words of both.                                       *)
LEMMA WordsConcat ==
    ASSUME NEW S, NEW s \in Seq(S), NEW t \in Seq(S), NEW w
    PROVE  /\ Words(s \o t, w) = Words(s, w) + Words(t, w)
           /\ Words(s, w) \in Nat /\ Words(t, w) \in Nat
<1>1. Len(t) \in Nat  OBVIOUS
<1> DEFINE OK(n) == /\ Words(s \o SubSeq(t, 1, n), w) = Words(s, w) + Words(SubSeq(t, 1, n), w)
                    /\ Words(SubSeq(t, 1, n), w) \in Nat
<1>2. PICK T : T = {n \in 0 .. Len(t) : OK(n)}  OBVIOUS
<1>3. Words(s, w) \in Nat
  <2>1. CASE S = {}
    <3>1. s = <<>>  BY <2>1
    <3> QED  BY <3>1, WordsEmpty
  <2>2. CASE S # {}  BY <2>2, WordsAppend
  <2> QED  BY <2>1, <2>2
<1>4. 0 \in T
  <2>1. SubSeq(t, 1, 0) = <<>>  OBVIOUS
  <2>2. s \o <<>> = s  OBVIOUS
  <2>3. Words(s, w) = Words(s, w) + 0 /\ 0 \in Nat  BY ONLY <1>3
  <2>4. OK(0)  BY <2>1, <2>2, <2>3, WordsEmpty
  <2> QED  BY <1>1, <1>2, <2>4
<1>5. ASSUME NEW n \in 0 .. Len(t) - 1, n \in T  PROVE n + 1 \in T
  <2>0. PICK r : r = SubSeq(t, 1, n)  OBVIOUS
  <2>1. SubSeq(t, 1, n + 1) = Append(r, t[n + 1]) /\ r \in Seq(S)  BY <2>0, PrefixStep
  <2>2. PICK x : x = t[n + 1]  OBVIOUS
  <2>3. x \in S
    <3>1. n + 1 \in 1 .. Len(t)  BY <1>1
    <3> QED  BY <2>2, <3>1
  <2>4. s \o r \in Seq(S)  BY <2>1
  <2>5. s \o Append(r, x) = Append(s \o r, x)  BY <2>1, <2>3
  <2>6. Words(Append(s \o r, x), w) = Words(s \o r, w) + Times(x, w)  BY <2>3, <2>4, WordsAppend
  <2>7. Words(Append(r, x), w) = Words(r, w) + Times(x, w)  BY <2>1, <2>3, WordsAppend
  <2>8. Words(s \o r, w) = Words(s, w) + Words(r, w) /\ Words(r, w) \in Nat  BY <1>2, <1>5, <2>0
  <2>9. Times(x, w) \in Nat  BY DEF Times
  <2>10. /\ Words(s \o Append(r, x), w) = Words(s, w) + Words(Append(r, x), w)
         /\ Words(Append(r, x), w) \in Nat
    BY ONLY <1>3, <2>5, <2>6, <2>7, <2>8, <2>9
  <2>11. OK(n + 1)  BY ONLY <2>1, <2>2, <2>10
  <2>12. n + 1 \in 0 .. Len(t)  BY <1>1
  <2> QED  BY ONLY <1>2, <2>11, <2>12
<1>6. \A n \in 0 .. Len(t) : n \in T
  <2>1. \A n \in 0 .. Len(t) - 1 : n \in T => n + 1 \in T  BY <1>5
  <2> QED  BY ONLY <1>1, <1>4, <2>1, SetInduction
<1>7. OK(Len(t))
  <2>1. Len(t) \in T  BY ONLY <1>1, <1>6
  <2> QED  BY ONLY <1>2, <2>1
<1>8. SubSeq(t, 1, Len(t)) = t  BY SubSeqFull
<1> QED  BY <1>3, <1>7, <1>8

(* A text of one word.                                                     *)
LEMMA WordsOne == ASSUME NEW x, NEW w PROVE Words(<<x>>, w) = Times(x, w)
<1>1. <<x>> = Append(<<>>, x) /\ <<>> \in Seq({x}) /\ x \in {x}  OBVIOUS
<1>2. Words(<<x>>, w) = Words(<<>>, w) + Times(x, w)  BY <1>1, WordsAppend
<1>3. Times(x, w) \in Nat  BY DEF Times
<1> QED  BY ONLY <1>2, <1>3, WordsEmpty

-----------------------------------------------------------------------------
(* The parts of a message.                                                 *)

(* The kinds of blocks, blocks of words W, and the bodies of one kind.     *)
Kinds == {"text", "thinking", "tool_use", "tool_result"}
BlockOf(W) == [t : Kinds, body : Seq(W)]
Pieces(blocks, t) == [i \in 1 .. Len(blocks) |-> IF blocks[i].t = t THEN blocks[i].body ELSE <<>>]

(* g of each element.                                                      *)
Map(g, x) == [i \in 1 .. Len(x) |-> g[x[i]]]
IsMap(g, S, V) == g \in [S -> V]

(* One element more, mapped.                                               *)
LEMMA MapAppend ==
    ASSUME NEW S, NEW V, NEW g, IsMap(g, S, V), NEW x \in Seq(S), NEW b \in S
    PROVE  Map(g, x) \in Seq(V) /\ Map(g, Append(x, b)) = Append(Map(g, x), g[b])
<1>3. PICK k : k = Append(x, b)  OBVIOUS
<1>4. PICK n : n = Len(x)  OBVIOUS
<1>5. /\ n \in Nat /\ Len(k) = n + 1 /\ k[n + 1] = b /\ (\A i \in 1 .. n : k[i] = x[i])
      /\ \A i \in 1 .. n : x[i] \in S
  BY <1>3, <1>4
<1>2. g \in [S -> V]  BY DEF IsMap
<1>6. PICK p : p = Map(g, x)  OBVIOUS
<1>7. p \in Seq(V) /\ Len(p) = n /\ (\A i \in 1 .. n : p[i] = g[x[i]])
  <2>1. p = [i \in 1 .. n |-> g[x[i]]]  BY <1>4, <1>6 DEF Map
  <2>2. p \in [1 .. n -> V]  BY <1>2, <1>5, <2>1
  <2> QED  BY <1>5, <2>1, <2>2, SeqDef
<1>8. PICK q : q = [i \in 1 .. n + 1 |-> g[k[i]]]  OBVIOUS
<1>9. PICK a : a = g[b]  OBVIOUS
<1>10. a \in V  BY <1>2, <1>9
<1>11. PICK r : r = Append(p, a)  OBVIOUS
<1>12. /\ r \in Seq(V) /\ Len(r) = n + 1 /\ r[n + 1] = a /\ (\A i \in 1 .. n : r[i] = p[i])
       /\ r = [i \in 1 .. n + 1 |-> r[i]]
  <2>1. p \in Seq(V) /\ Len(p) = n  BY <1>7
  <2>2. r \in Seq(V) /\ Len(r) = n + 1 /\ r[n + 1] = a /\ (\A i \in 1 .. n : r[i] = p[i])
    BY ONLY <1>5, <1>10, <1>11, <2>1, AppendProperties
  <2>3. r \in [1 .. Len(r) -> V]  BY ONLY <2>2, LenProperties
  <2> QED  BY ONLY <2>2, <2>3
<1>13. \A i \in 1 .. n + 1 : q[i] = r[i]
  <2> SUFFICES ASSUME NEW i \in 1 .. n + 1  PROVE q[i] = r[i]  OBVIOUS
  <2>1. CASE i = n + 1  BY <1>5, <1>8, <1>9, <1>12, <2>1
  <2>2. CASE i \in 1 .. n  BY <1>5, <1>7, <1>8, <1>12, <2>2
  <2> QED  BY <1>5, <2>1, <2>2
<1>14. q = r  BY <1>8, <1>12, <1>13
<1>15. Map(g, k) = q  BY <1>5, <1>8 DEF Map
<1> QED  BY <1>3, <1>6, <1>7, <1>9, <1>11, <1>14, <1>15

(* One block more has one piece more.                                      *)
LEMMA PiecesAppend ==
    ASSUME NEW W, NEW x \in Seq(BlockOf(W)), NEW b \in BlockOf(W), NEW t
    PROVE  /\ Pieces(x, t) \in Seq(Seq(W))
           /\ Pieces(Append(x, b), t) = Append(Pieces(x, t), IF b.t = t THEN b.body ELSE <<>>)
<1>0. PICK B, V : B = BlockOf(W) /\ V = Seq(W)  OBVIOUS
<1>1. PICK g : g = [c \in B |-> IF c.t = t THEN c.body ELSE <<>>]  OBVIOUS
<1>2. IsMap(g, B, V)
  <2>1. \A c \in B : (IF c.t = t THEN c.body ELSE <<>>) \in V  BY <1>0 DEF BlockOf
  <2> QED  BY <1>1, <2>1 DEF IsMap
<1>3. x \in Seq(B) /\ b \in B /\ Append(x, b) \in Seq(B)  BY <1>0
<1>4. \A y \in Seq(B) : Pieces(y, t) = Map(g, y)
  <2> SUFFICES ASSUME NEW y \in Seq(B)  PROVE Pieces(y, t) = Map(g, y)  OBVIOUS
  <2>1. \A i \in 1 .. Len(y) : y[i] \in B  OBVIOUS
  <2>2. \A i \in 1 .. Len(y) : g[y[i]] = IF y[i].t = t THEN y[i].body ELSE <<>>  BY <1>1, <2>1
  <2> QED  BY <2>2 DEF Pieces, Map
<1>5. Map(g, x) \in Seq(V) /\ Map(g, Append(x, b)) = Append(Map(g, x), g[b])
  BY ONLY <1>2, <1>3, MapAppend
<1>6. g[b] = IF b.t = t THEN b.body ELSE <<>>  BY <1>1, <1>3
<1> QED  BY <1>0, <1>3, <1>4, <1>5, <1>6

(* No blocks, no bodies.                                                   *)
LEMMA BodiesNone == ASSUME NEW t PROVE BodiesIn(<<>>, t) = <<>>
<1>1. [i \in 1 .. Len(<<>>) |-> IF <<>>[i].t = t THEN <<>>[i].body ELSE <<>>] = <<>>  OBVIOUS
<1> QED  BY <1>1, FlattenEmpty DEF BodiesIn

(* One block more.                                                         *)
LEMMA BodiesAppend ==
    ASSUME NEW W, NEW x \in Seq(BlockOf(W)), NEW b \in BlockOf(W), NEW t
    PROVE  /\ BodiesIn(x, t) \in Seq(W)
           /\ BodiesIn(Append(x, b), t) = BodiesIn(x, t) \o (IF b.t = t THEN b.body ELSE <<>>)
<1>1. PICK p : p = Pieces(x, t)  OBVIOUS
<1>2. PICK a : a = IF b.t = t THEN b.body ELSE <<>>  OBVIOUS
<1>3. p \in Seq(Seq(W)) /\ Pieces(Append(x, b), t) = Append(p, a)  BY <1>1, <1>2, PiecesAppend
<1>4. a \in Seq(W)  BY <1>2 DEF BlockOf
<1>5. FlattenSeq(p) \in Seq(W) /\ FlattenSeq(Append(p, a)) = FlattenSeq(p) \o a  BY <1>3, <1>4, FlattenAppend
<1>6. BodiesIn(x, t) = FlattenSeq(p) /\ BodiesIn(Append(x, b), t) = FlattenSeq(Append(p, a))
  BY <1>1, <1>3 DEF BodiesIn, Pieces
<1> QED  BY <1>2, <1>5, <1>6

(* Concatenation, once for all sequences.                                  *)
LEMMA Associative ==
    ASSUME NEW W  PROVE  \A c, d, f \in Seq(W) : (c \o d) \o f = c \o (d \o f)
BY ConcatAssociative

(* The bodies of two sequences of blocks.                                  *)
LEMMA BodiesConcat ==
    ASSUME NEW W, NEW x \in Seq(BlockOf(W)), NEW y \in Seq(BlockOf(W)), NEW t
    PROVE  /\ BodiesIn(x \o y, t) = BodiesIn(x, t) \o BodiesIn(y, t)
           /\ BodiesIn(x, t) \in Seq(W)
<1>0. PICK B : B = BlockOf(W)  OBVIOUS
<1>1. x \in Seq(B) /\ y \in Seq(B) /\ Len(y) \in Nat  BY <1>0
<1>9. \A c, d, f \in Seq(W) : (c \o d) \o f = c \o (d \o f)  BY Associative
<1> DEFINE OK(n) == BodiesIn(x \o SubSeq(y, 1, n), t) = BodiesIn(x, t) \o BodiesIn(SubSeq(y, 1, n), t)
<1>2. PICK T : T = {n \in 0 .. Len(y) : OK(n)}  OBVIOUS
<1>3. \A z \in Seq(B) : BodiesIn(z, t) \in Seq(W)
  <2>1. PICK b : b = Block("text", <<>>)  OBVIOUS
  <2>2. b \in B
    <3>0. <<>> \in Seq(W)  OBVIOUS
    <3>1. <<>> \in Seq(W) /\ "text" \in Kinds  BY ONLY <3>0 DEF Kinds
    <3> QED  BY <1>0, <2>1, <3>1 DEF BlockOf, Block
  <2> QED  BY <1>0, <2>2, BodiesAppend
<1>4. 0 \in T
  <2>1. SubSeq(y, 1, 0) = <<>>  OBVIOUS
  <2>2. x \o <<>> = x  BY <1>1
  <2>3. BodiesIn(x, t) \o <<>> = BodiesIn(x, t)
    <3>1. BodiesIn(x, t) \in Seq(W)  BY <1>1, <1>3
    <3> QED  BY ONLY <3>1, ConcatEmptySeq
  <2>4. OK(0)  BY <2>1, <2>2, <2>3, BodiesNone
  <2> QED  BY <1>1, <1>2, <2>4
<1>5. ASSUME NEW n \in 0 .. Len(y) - 1, n \in T  PROVE n + 1 \in T
  <2>0. PICK r : r = SubSeq(y, 1, n)  OBVIOUS
  <2>1. SubSeq(y, 1, n + 1) = Append(r, y[n + 1]) /\ r \in Seq(B)  BY <1>1, <2>0, PrefixStep
  <2>2. PICK b : b = y[n + 1]  OBVIOUS
  <2>3. b \in B
    <3>1. n + 1 \in 1 .. Len(y)  BY <1>1
    <3> QED  BY <1>1, <2>2, <3>1
  <2>4. x \o r \in Seq(B)  BY <1>1, <2>1
  <2>5. x \o Append(r, b) = Append(x \o r, b)  BY <1>1, <2>1, <2>3
  <2>6. PICK e : e = IF b.t = t THEN b.body ELSE <<>>  OBVIOUS
  <2>7. BodiesIn(Append(x \o r, b), t) = BodiesIn(x \o r, t) \o e  BY <1>0, <2>3, <2>4, <2>6, BodiesAppend
  <2>8. BodiesIn(Append(r, b), t) = BodiesIn(r, t) \o e  BY <1>0, <2>1, <2>3, <2>6, BodiesAppend
  <2>9. BodiesIn(x \o r, t) = BodiesIn(x, t) \o BodiesIn(r, t)  BY <1>2, <1>5, <2>0
  <2>10. (BodiesIn(x, t) \o BodiesIn(r, t)) \o e = BodiesIn(x, t) \o (BodiesIn(r, t) \o e)
    <3>1. PICK c, d : c = BodiesIn(x, t) /\ d = BodiesIn(r, t)  OBVIOUS
    <3>2. c \in Seq(W) /\ d \in Seq(W)  BY <1>1, <1>3, <2>1, <3>1
    <3>3. e \in Seq(W)  BY <1>0, <2>3, <2>6 DEF BlockOf
    <3>4. (c \o d) \o e = c \o (d \o e)
      <4>1. PICK f : f = e  OBVIOUS
      <4>0. c \in Seq(W) /\ d \in Seq(W) /\ f \in Seq(W)  BY ONLY <3>2, <3>3, <4>1
      <4>2. (c \o d) \o f = c \o (d \o f)  BY ONLY <1>9, <4>0
      <4> QED  BY ONLY <4>1, <4>2
    <3> QED  BY ONLY <3>1, <3>4
  <2>11. OK(n + 1)  BY <2>1, <2>2, <2>5, <2>7, <2>8, <2>9, <2>10
  <2>12. n + 1 \in 0 .. Len(y)  BY <1>1
  <2> QED  BY ONLY <1>2, <2>11, <2>12
<1>6. \A n \in 0 .. Len(y) : n \in T
  <2>1. \A n \in 0 .. Len(y) - 1 : n \in T => n + 1 \in T  BY <1>5
  <2> QED  BY ONLY <1>1, <1>4, <2>1, SetInduction
<1>7. OK(Len(y))
  <2>1. Len(y) \in T  BY ONLY <1>1, <1>6
  <2> QED  BY ONLY <1>2, <2>1
<1>8. SubSeq(y, 1, Len(y)) = y  BY <1>1, SubSeqFull
<1> QED  BY <1>1, <1>3, <1>7, <1>8

(* The bodies of one block.                                                *)
LEMMA BodiesOne ==
    ASSUME NEW W, NEW k \in Kinds, NEW body \in Seq(W), NEW t
    PROVE  /\ <<Block(k, body)>> \in Seq(BlockOf(W))
           /\ BodiesIn(<<Block(k, body)>>, t) = IF k = t THEN body ELSE <<>>
<1>0. PICK b : b = Block(k, body)  OBVIOUS
<1>1. b \in BlockOf(W) /\ b.t = k /\ b.body = body  BY <1>0 DEF BlockOf, Block
<1>2. <<b>> = Append(<<>>, b) /\ <<>> \in Seq(BlockOf(W))  OBVIOUS
<1>3. BodiesIn(Append(<<>>, b), t) = BodiesIn(<<>>, t) \o (IF b.t = t THEN b.body ELSE <<>>)
  <2>1. PICK x : x = <<>> /\ x \in Seq(BlockOf(W))  BY <1>2
  <2>2. BodiesIn(Append(x, b), t) = BodiesIn(x, t) \o (IF b.t = t THEN b.body ELSE <<>>)
    BY ONLY <1>1, <2>1, BodiesAppend
  <2> QED  BY ONLY <2>1, <2>2
<1>4. <<>> \o body = body /\ <<>> \o <<>> = <<>>  OBVIOUS
<1>5. <<b>> \in Seq(BlockOf(W))
  <2>1. PICK B : B = BlockOf(W)  OBVIOUS
  <2> QED  BY <1>1, <2>1
<1> QED  BY <1>0, <1>1, <1>2, <1>3, <1>4, <1>5, BodiesNone

(* The bodies of a block that may be missing.                              *)
LEMMA BodiesGiven ==
    ASSUME NEW W, NEW k \in Kinds, NEW body \in Seq(W), NEW t
    PROVE  /\ Given(k, body) \in Seq(BlockOf(W))
           /\ BodiesIn(Given(k, body), t) = IF k = t THEN body ELSE <<>>
<1>1. CASE body = <<>>  BY <1>1, BodiesNone DEF Given
<1>2. CASE body # <<>>
  <2>1. Given(k, body) = <<Block(k, body)>>  BY <1>2 DEF Given
  <2>2. PICK b : b = <<Block(k, body)>>  OBVIOUS
  <2>3. b \in Seq(BlockOf(W)) /\ BodiesIn(b, t) = IF k = t THEN body ELSE <<>>
    <3>1. <<Block(k, body)>> \in Seq(BlockOf(W))  BY BodiesOne
    <3>2. BodiesIn(<<Block(k, body)>>, t) = IF k = t THEN body ELSE <<>>  BY BodiesOne
    <3> QED  BY ONLY <2>2, <3>1, <3>2
  <2> QED  BY ONLY <2>1, <2>2, <2>3
<1> QED  BY <1>1, <1>2

(* One id more has one block more.                                         *)
LEMMA EachAppend ==
    ASSUME NEW W, NEW k \in Kinds, NEW ids \in Seq(W), NEW x \in W
    PROVE  /\ Each(k, ids) \in Seq(BlockOf(W))
           /\ Each(k, Append(ids, x)) = Append(Each(k, ids), Block(k, <<x>>))
<1>0. PICK B : B = BlockOf(W)  OBVIOUS
<1>1. PICK g : g = [c \in W |-> Block(k, <<c>>)]  OBVIOUS
<1>2. IsMap(g, W, B)
  <2>1. \A c \in W : Block(k, <<c>>) \in B  BY <1>0 DEF BlockOf, Block
  <2> QED  BY <1>1, <2>1 DEF IsMap
<1>3. Append(ids, x) \in Seq(W)  OBVIOUS
<1>4. \A y \in Seq(W) : Each(k, y) = Map(g, y)
  <2> SUFFICES ASSUME NEW y \in Seq(W)  PROVE Each(k, y) = Map(g, y)  OBVIOUS
  <2>1. \A i \in 1 .. Len(y) : y[i] \in W  OBVIOUS
  <2>2. \A i \in 1 .. Len(y) : g[y[i]] = Block(k, <<y[i]>>)  BY <1>1, <2>1
  <2> QED  BY <2>2 DEF Each, Map
<1>5. Map(g, ids) \in Seq(B) /\ Map(g, Append(ids, x)) = Append(Map(g, ids), g[x])
  BY ONLY <1>2, ids \in Seq(W), x \in W, MapAppend
<1>6. g[x] = Block(k, <<x>>)  BY <1>1
<1> QED  BY <1>0, <1>3, <1>4, <1>5, <1>6

(* No ids, no blocks.                                                      *)
LEMMA EachNone == ASSUME NEW k PROVE Each(k, <<>>) = <<>>
BY DEF Each

(* The bodies of the blocks of ids are the ids.                            *)
LEMMA BodiesEach ==
    ASSUME NEW W, NEW k \in Kinds, NEW ids, ids \in Seq(W), NEW t
    PROVE  /\ Each(k, ids) \in Seq(BlockOf(W))
           /\ BodiesIn(Each(k, ids), t) = IF k = t THEN ids ELSE <<>>
<1>0. PICK B : B = BlockOf(W)  OBVIOUS
<1>1. Len(ids) \in Nat  OBVIOUS
<1> DEFINE OK(r) == /\ Each(k, r) \in Seq(B)
                    /\ BodiesIn(Each(k, r), t) = IF k = t THEN r ELSE <<>>
<1>2. PICK T : T = {n \in 0 .. Len(ids) : OK(SubSeq(ids, 1, n))}  OBVIOUS
<1>4. 0 \in T
  <2>1. SubSeq(ids, 1, 0) = <<>>  OBVIOUS
  <2>2. <<>> \in Seq(B)  OBVIOUS
  <2>3. OK(<<>>)  BY <2>2, EachNone, BodiesNone
  <2>4. OK(SubSeq(ids, 1, 0))  BY ONLY <2>1, <2>3
  <2> QED  BY <1>1, <1>2, <2>4
<1>5. ASSUME NEW n \in 0 .. Len(ids) - 1, n \in T  PROVE n + 1 \in T
  <2>0. PICK r : r = SubSeq(ids, 1, n)  OBVIOUS
  <2>1. SubSeq(ids, 1, n + 1) = Append(r, ids[n + 1]) /\ r \in Seq(W)  BY <2>0, PrefixStep
  <2>2. PICK x : x = ids[n + 1]  OBVIOUS
  <2>3. x \in W
    <3>1. n + 1 \in 1 .. Len(ids)  BY <1>1
    <3> QED  BY <2>2, <3>1
  <2>4. OK(r)  BY <1>2, <1>5, <2>0
  <2>5. PICK e, b : e = Each(k, r) /\ b = Block(k, <<x>>)  OBVIOUS
  <2>6. Each(k, Append(r, x)) = Append(e, b) /\ e \in Seq(B)  BY <1>0, <2>1, <2>3, <2>5, EachAppend
  <2>7. b \in B /\ b.t = k /\ b.body = <<x>>  BY <1>0, <2>3, <2>5 DEF BlockOf, Block
  <2>8. Append(e, b) \in Seq(B)  BY ONLY <2>6, <2>7, AppendProperties
  <2>9. BodiesIn(Append(e, b), t) = BodiesIn(e, t) \o (IF b.t = t THEN b.body ELSE <<>>)
    BY ONLY <1>0, <2>6, <2>7, BodiesAppend
  <2>10. BodiesIn(Append(e, b), t) = IF k = t THEN Append(r, x) ELSE <<>>
    <3>1. CASE k = t
      <4>1. BodiesIn(Append(e, b), t) = r \o <<x>>  BY ONLY <2>4, <2>5, <2>7, <2>9, <3>1
      <4>2. r \o <<x>> = Append(r, x)  BY <2>1, <2>3
      <4> QED  BY ONLY <3>1, <4>1, <4>2
    <3>2. CASE k # t
      <4>1. BodiesIn(Append(e, b), t) = <<>> \o <<>>  BY ONLY <2>4, <2>5, <2>7, <2>9, <3>2
      <4>2. <<>> \o <<>> = <<>>  OBVIOUS
      <4> QED  BY ONLY <3>2, <4>1, <4>2
    <3> QED  BY <3>1, <3>2
  <2>11. OK(SubSeq(ids, 1, n + 1))  BY ONLY <2>1, <2>2, <2>6, <2>8, <2>10
  <2>12. n + 1 \in 0 .. Len(ids)  BY <1>1
  <2> QED  BY ONLY <1>2, <2>11, <2>12
<1>6. \A n \in 0 .. Len(ids) : n \in T
  <2>1. \A n \in 0 .. Len(ids) - 1 : n \in T => n + 1 \in T  BY <1>5
  <2> QED  BY ONLY <1>1, <1>4, <2>1, SetInduction
<1>7. OK(SubSeq(ids, 1, Len(ids)))
  <2>1. Len(ids) \in T  BY ONLY <1>1, <1>6
  <2> QED  BY ONLY <1>2, <2>1
<1>8. SubSeq(ids, 1, Len(ids)) = ids  BY SubSeqFull
<1>9. OK(ids)  BY ONLY <1>7, <1>8
<1> QED  BY ONLY <1>0, <1>9

(* strip_thinking removes the tags only.                                   *)
LEMMA StripAppend ==
    ASSUME NEW W, NEW s \in Seq(W), NEW x \in W
    PROVE  /\ strip_thinking(s) \in Seq(W)
           /\ strip_thinking(Append(s, x)) =
                 strip_thinking(s) \o (IF x \in {"<think>", "</think>"} THEN <<>> ELSE <<x>>)
<1>0. PICK V : V = Seq(W)  OBVIOUS
<1>1. PICK g : g = [c \in W |-> IF c \in {"<think>", "</think>"} THEN <<>> ELSE <<c>>]  OBVIOUS
<1>2. IsMap(g, W, V)
  <2>1. \A c \in W : (IF c \in {"<think>", "</think>"} THEN <<>> ELSE <<c>>) \in V  BY <1>0
  <2> QED  BY <1>1, <2>1 DEF IsMap
<1>3. Append(s, x) \in Seq(W)  OBVIOUS
<1>4. \A y \in Seq(W) : strip_thinking(y) = FlattenSeq(Map(g, y))
  <2> SUFFICES ASSUME NEW y \in Seq(W)  PROVE strip_thinking(y) = FlattenSeq(Map(g, y))  OBVIOUS
  <2>1. \A i \in 1 .. Len(y) : y[i] \in W  OBVIOUS
  <2>2. \A i \in 1 .. Len(y) : g[y[i]] = IF y[i] \in {"<think>", "</think>"} THEN <<>> ELSE <<y[i]>>
    BY <1>1, <2>1
  <2>3. Map(g, y) = [i \in 1 .. Len(y) |-> IF y[i] \in {"<think>", "</think>"} THEN <<>> ELSE <<y[i]>>]
    BY <2>2 DEF Map
  <2> QED  BY <2>3 DEF strip_thinking
<1>5. Map(g, s) \in Seq(V) /\ Map(g, Append(s, x)) = Append(Map(g, s), g[x])
  BY ONLY <1>2, s \in Seq(W), x \in W, MapAppend
<1>6. PICK p, a : p = Map(g, s) /\ a = g[x]  OBVIOUS
<1>7. p \in Seq(Seq(W)) /\ a \in Seq(W)  BY <1>0, <1>2, <1>5, <1>6 DEF IsMap
<1>8. FlattenSeq(p) \in Seq(W) /\ FlattenSeq(Append(p, a)) = FlattenSeq(p) \o a  BY ONLY <1>7, FlattenAppend
<1>9. a = IF x \in {"<think>", "</think>"} THEN <<>> ELSE <<x>>  BY <1>1, <1>6
<1> QED  BY <1>3, <1>4, <1>5, <1>6, <1>8, <1>9

(* The tags of reasoning in a text.                                        *)
Tag(w) == w \in {"<think>", "</think>"}

(* strip_thinking keeps every other word.                                  *)
LEMMA StripWords ==
    ASSUME NEW W, NEW s, s \in Seq(W), NEW w, ~Tag(w)
    PROVE  strip_thinking(s) \in Seq(W) /\ Words(strip_thinking(s), w) = Words(s, w)
<1>1. Len(s) \in Nat  OBVIOUS
<1> DEFINE OK(r) == strip_thinking(r) \in Seq(W) /\ Words(strip_thinking(r), w) = Words(r, w)
<1>2. PICK T : T = {n \in 0 .. Len(s) : OK(SubSeq(s, 1, n))}  OBVIOUS
<1>4. 0 \in T
  <2>1. SubSeq(s, 1, 0) = <<>>  OBVIOUS
  <2>2. strip_thinking(<<>>) = <<>>
    <3>1. [i \in 1 .. Len(<<>>) |-> IF <<>>[i] \in {"<think>", "</think>"} THEN <<>> ELSE <<<<>>[i]>>] = <<>>
      OBVIOUS
    <3> QED  BY <3>1, FlattenEmpty DEF strip_thinking
  <2>3. <<>> \in Seq(W)  OBVIOUS
  <2>4. OK(<<>>)  BY <2>2, <2>3
  <2>5. OK(SubSeq(s, 1, 0))  BY ONLY <2>1, <2>4
  <2> QED  BY <1>1, <1>2, <2>5
<1>5. ASSUME NEW n \in 0 .. Len(s) - 1, n \in T  PROVE n + 1 \in T
  <2>0. PICK r : r = SubSeq(s, 1, n)  OBVIOUS
  <2>1. SubSeq(s, 1, n + 1) = Append(r, s[n + 1]) /\ r \in Seq(W)  BY <2>0, PrefixStep
  <2>2. PICK x : x = s[n + 1]  OBVIOUS
  <2>3. x \in W
    <3>1. n + 1 \in 1 .. Len(s)  BY <1>1
    <3> QED  BY <2>2, <3>1
  <2>4. OK(r)  BY <1>2, <1>5, <2>0
  <2>5. PICK e : e = strip_thinking(r)  OBVIOUS
  <2>6. PICK a : a = IF x \in {"<think>", "</think>"} THEN <<>> ELSE <<x>>  OBVIOUS
  <2>7. strip_thinking(Append(r, x)) = e \o a  BY <2>1, <2>3, <2>5, <2>6, StripAppend
  <2>8. e \in Seq(W) /\ a \in Seq(W)  BY <2>3, <2>4, <2>5, <2>6
  <2>9. Words(e \o a, w) = Words(e, w) + Words(a, w) /\ Words(e, w) \in Nat  BY ONLY <2>8, WordsConcat
  <2>10. Words(a, w) = Times(x, w)
    <3>1. CASE Tag(x)
      <4>1. a = <<>> /\ x # w  BY <2>6, <3>1 DEF Tag
      <4> QED  BY ONLY <4>1, WordsEmpty DEF Times
    <3>2. CASE ~Tag(x)
      <4>1. a = <<x>>  BY <2>6, <3>2 DEF Tag
      <4> QED  BY ONLY <4>1, WordsOne
    <3> QED  BY <3>1, <3>2
  <2>11. Words(Append(r, x), w) = Words(r, w) + Times(x, w)  BY ONLY <2>1, <2>3, WordsAppend
  <2>12. e \o a \in Seq(W)  BY ONLY <2>8
  <2>13. OK(Append(r, x))  BY ONLY <2>4, <2>5, <2>7, <2>9, <2>10, <2>11, <2>12
  <2>14. OK(SubSeq(s, 1, n + 1))  BY ONLY <2>1, <2>2, <2>13
  <2>15. n + 1 \in 0 .. Len(s)  BY <1>1
  <2> QED  BY ONLY <1>2, <2>14, <2>15
<1>6. \A n \in 0 .. Len(s) : n \in T
  <2>1. \A n \in 0 .. Len(s) - 1 : n \in T => n + 1 \in T  BY <1>5
  <2> QED  BY ONLY <1>1, <1>4, <2>1, SetInduction
<1>7. OK(SubSeq(s, 1, Len(s)))
  <2>1. Len(s) \in T  BY ONLY <1>1, <1>6
  <2> QED  BY ONLY <1>2, <2>1
<1>8. SubSeq(s, 1, Len(s)) = s  BY SubSeqFull
<1>9. OK(s)  BY ONLY <1>7, <1>8
<1> QED  BY ONLY <1>9

(* The smallest of a set of positions.                                     *)
LEMMA Smallest ==
    ASSUME NEW T, T \subseteq Nat, T # {}
    PROVE  (CHOOSE i \in T : \A j \in T : i <= j) \in T
<1>1. \E i \in T : \A j \in T : i <= j  BY Least
<1> QED  BY <1>1

(* extract_thinking takes the two tags away and nothing else.              *)
LEMMA ThinkingParts ==
    ASSUME NEW W, NEW c, c \in Seq(W), NEW p, p = extract_thinking(c)
    PROVE  /\ p.thinking \in Seq(W) /\ p.text \in Seq(W)
           /\ \A w : ~Tag(w) => Words(p.thinking \o p.text, w) = Words(c, w)
<1> DEFINE open == {i \in DOMAIN c : c[i] = "<think>"}
           first == CHOOSE i \in open : \A j \in open : i <= j
           close == {i \in DOMAIN c : i > first /\ c[i] = "</think>"}
           last == CHOOSE i \in close : \A j \in close : i <= j
<1>1. p = IF open = {} \/ close = {} THEN [thinking |-> <<>>, text |-> c]
          ELSE [thinking |-> SubSeq(c, first + 1, last - 1),
                text |-> SubSeq(c, 1, first - 1) \o SubSeq(c, last + 1, Len(c))]
  BY DEF extract_thinking
<1>2. CASE open = {} \/ close = {}
  <2>1. p.thinking = <<>> /\ p.text = c  BY <1>1, <1>2
  <2>2. <<>> \o c = c /\ <<>> \in Seq(W)  OBVIOUS
  <2> QED  BY <2>1, <2>2
<1>3. CASE open # {} /\ close # {}
  <2>1. DOMAIN c = 1 .. Len(c) /\ Len(c) \in Nat  OBVIOUS
  <2>2. open \subseteq Nat /\ close \subseteq Nat  BY <2>1
  <2>3. first \in open
    <3> HIDE DEF open
    <3> QED  BY <1>3, <2>2, Smallest
  <2>4. last \in close
    <3> HIDE DEF close
    <3> QED  BY <1>3, <2>2, Smallest
  <2>5. PICK f, l : f = first /\ l = last  OBVIOUS
  <2>6. f \in 1 .. Len(c) /\ l \in 1 .. Len(c) /\ f < l /\ Tag(c[f]) /\ Tag(c[l])
    BY <2>1, <2>3, <2>4, <2>5 DEF Tag
  <2>7. p.thinking = SubSeq(c, f + 1, l - 1) /\ p.text = SubSeq(c, 1, f - 1) \o SubSeq(c, l + 1, Len(c))
    <3> HIDE DEF first, last, open, close
    <3>1. p = [thinking |-> SubSeq(c, first + 1, last - 1),
               text |-> SubSeq(c, 1, first - 1) \o SubSeq(c, last + 1, Len(c))]
      BY ONLY <1>1, <1>3
    <3>2. p = [thinking |-> SubSeq(c, f + 1, l - 1), text |-> SubSeq(c, 1, f - 1) \o SubSeq(c, l + 1, Len(c))]
      BY ONLY <2>5, <3>1
    <3> QED  BY ONLY <3>2
  <2> HIDE DEF first, last, open, close
  <2>8. PICK A, B, D : A = SubSeq(c, 1, f - 1) /\ B = SubSeq(c, f + 1, l - 1) /\ D = SubSeq(c, l + 1, Len(c))
    OBVIOUS
  <2>9. A \in Seq(W) /\ B \in Seq(W) /\ D \in Seq(W)
    <3>1. \A i \in 1 .. Len(c) : c[i] \in W  OBVIOUS
    <3>2. A \in Seq(W)
      <4>1. \A i \in 1 .. f - 1 : c[i] \in W  BY <2>1, <2>6, <3>1
      <4>2. 1 \in Int /\ f - 1 \in Int  BY <2>6
      <4> QED  BY ONLY <2>8, <4>1, <4>2, SubSeqProperties
    <3>3. B \in Seq(W)
      <4>1. \A i \in f + 1 .. l - 1 : c[i] \in W  BY <2>1, <2>6, <3>1
      <4>2. f + 1 \in Int /\ l - 1 \in Int  BY <2>6
      <4> QED  BY ONLY <2>8, <4>1, <4>2, SubSeqProperties
    <3>4. D \in Seq(W)
      <4>1. \A i \in l + 1 .. Len(c) : c[i] \in W  BY <2>1, <2>6, <3>1
      <4>2. l + 1 \in Int /\ Len(c) \in Int  BY <2>1, <2>6
      <4> QED  BY ONLY <2>8, <4>1, <4>2, SubSeqProperties
    <3> QED  BY <3>2, <3>3, <3>4
  <2>10. PICK a, b : a = <<c[f]>> /\ b = <<c[l]>>  OBVIOUS
  <2>11. a \in Seq(W) /\ b \in Seq(W)  BY <2>6, <2>10
  <2>12. c = A \o (a \o (B \o (b \o D)))
    <3>1. SubSeq(c, 1, Len(c)) = c  BY SubSeqFull
    <3>2. A \o SubSeq(c, f, Len(c)) = SubSeq(c, 1, Len(c))
      <4>1. 1 \in 1 .. Len(c) + 1 /\ f - 1 \in 1 - 1 .. Len(c) /\ Len(c) \in f - 1 .. Len(c) /\ f - 1 + 1 = f
        BY <2>1, <2>6
      <4>2. PICK k : k = f - 1  OBVIOUS
      <4>3. SubSeq(c, 1, k) \o SubSeq(c, k + 1, Len(c)) = SubSeq(c, 1, Len(c))
        BY ONLY c \in Seq(W), <4>1, <4>2, ConcatAdjacentSubSeq
      <4> QED  BY ONLY <2>8, <4>1, <4>2, <4>3
    <3>3. SubSeq(c, f, Len(c)) = a \o SubSeq(c, f + 1, Len(c))
      <4>1. f \in 1 .. Len(c) /\ Len(c) \in f .. Len(c)  BY <2>1, <2>6
      <4> QED  BY ONLY c \in Seq(W), <2>10, <4>1, SubSeqRecursiveFirst
    <3>4. B \o SubSeq(c, l, Len(c)) = SubSeq(c, f + 1, Len(c))
      <4>1. PICK k, m : k = l - 1 /\ m = f + 1  OBVIOUS
      <4>2. m \in 1 .. Len(c) + 1 /\ k \in m - 1 .. Len(c) /\ Len(c) \in k .. Len(c) /\ k + 1 = l
        BY <2>1, <2>6, <4>1
      <4>3. SubSeq(c, m, k) \o SubSeq(c, k + 1, Len(c)) = SubSeq(c, m, Len(c))
        BY ONLY c \in Seq(W), <4>2, ConcatAdjacentSubSeq
      <4> QED  BY ONLY <2>8, <4>1, <4>2, <4>3
    <3>5. SubSeq(c, l, Len(c)) = b \o D
      <4>1. l \in 1 .. Len(c) /\ Len(c) \in l .. Len(c)  BY <2>1, <2>6
      <4> QED  BY ONLY c \in Seq(W), <2>8, <2>10, <4>1, SubSeqRecursiveFirst
    <3> QED  BY ONLY <3>1, <3>2, <3>3, <3>4, <3>5
  <2>13. ASSUME NEW w, ~Tag(w)  PROVE Words(B \o (A \o D), w) = Words(c, w)
    <3>1. b \o D \in Seq(W) /\ B \o (b \o D) \in Seq(W) /\ a \o (B \o (b \o D)) \in Seq(W) /\ A \o D \in Seq(W)
      BY ONLY <2>9, <2>11, ConcatProperties
    <3>2. Words(a, w) = 0 /\ Words(b, w) = 0  BY <2>6, <2>10, <2>13, WordsOne DEF Times, Tag
    <3>3. Words(c, w) = Words(A, w) + Words(a \o (B \o (b \o D)), w)
      BY ONLY <2>9, <2>12, <3>1, WordsConcat
    <3>4. Words(a \o (B \o (b \o D)), w) = Words(a, w) + Words(B \o (b \o D), w)  BY ONLY <2>11, <3>1, WordsConcat
    <3>5. Words(B \o (b \o D), w) = Words(B, w) + Words(b \o D, w)  BY ONLY <2>9, <3>1, WordsConcat
    <3>6. Words(b \o D, w) = Words(b, w) + Words(D, w)  BY ONLY <2>9, <2>11, WordsConcat
    <3>7. Words(B \o (A \o D), w) = Words(B, w) + Words(A \o D, w)  BY ONLY <2>9, <3>1, WordsConcat
    <3>8. Words(A \o D, w) = Words(A, w) + Words(D, w) /\ Words(A, w) \in Nat /\ Words(D, w) \in Nat
      BY ONLY <2>9, WordsConcat
    <3>9. Words(B, w) \in Nat  BY ONLY <2>9, WordsConcat
    <3> QED  BY ONLY <3>2, <3>3, <3>4, <3>5, <3>6, <3>7, <3>8, <3>9
  <2>14. A \o D \in Seq(W)  BY ONLY <2>9
  <2> QED  BY ONLY <2>7, <2>8, <2>9, <2>13, <2>14
<1> QED  BY <1>2, <1>3

(* th and tx say what the reply said.                                      *)
Faithful(th, tx, reply) ==
    /\ \A w \in {"r", "t"} : Words(th \o tx, w) = Words(reply.reasoning \o reply.content, w)
    /\ reply.reasoning # <<>> => th = reply.reasoning

(* The blocks of an answer: reasoning, text and tool calls.                *)
Parted(blocks, th, tx, ids) ==
    blocks = (Given("thinking", th) \o Given("text", tx)) \o Each("tool_use", ids)

(* A reply of either API comes apart faithfully.                           *)
LEMMA ContentParts ==
    ASSUME NEW W, NEW reply, reply.reasoning \in Seq(W), reply.content \in Seq(W), NEW b
    PROVE  \E th, tx \in Seq(W) :
              Parted(ContentBlocks(b, reply), th, tx, reply.calls) /\ Faithful(th, tx, reply)
<1>0. PICK r, c : r = reply.reasoning /\ c = reply.content  OBVIOUS
<1>1. r \in Seq(W) /\ c \in Seq(W)  BY <1>0
<1>2. ~Tag("r") /\ ~Tag("t")  BY DEF Tag
<1>3. CASE BackendType[b] = "anthropic"
  <2>1. PICK s : s = strip_thinking(c)  OBVIOUS
  <2>2. s \in Seq(W) /\ \A w \in {"r", "t"} : Words(s, w) = Words(c, w)
    <3>1. s \in Seq(W) /\ Words(s, "r") = Words(c, "r")  BY <1>1, <1>2, <2>1, StripWords
    <3>2. Words(s, "t") = Words(c, "t")  BY <1>1, <1>2, <2>1, StripWords
    <3> QED  BY <3>1, <3>2
  <2>3. \A w \in {"r", "t"} : Words(r \o s, w) = Words(r \o c, w)
    <3> SUFFICES ASSUME NEW w \in {"r", "t"}  PROVE Words(r \o s, w) = Words(r \o c, w)  OBVIOUS
    <3>1. Words(r \o s, w) = Words(r, w) + Words(s, w)  BY ONLY <1>1, <2>2, WordsConcat
    <3>2. Words(r \o c, w) = Words(r, w) + Words(c, w)  BY ONLY <1>1, WordsConcat
    <3> QED  BY <2>2, <3>1, <3>2
  <2>4. Faithful(r, s, reply)  BY <1>0, <2>3 DEF Faithful
  <2>5. Parted(ContentBlocks(b, reply), r, s, reply.calls)
    BY <1>0, <1>3, <2>1 DEF Parted, ContentBlocks, parse_content_array
  <2> QED  BY <1>1, <2>2, <2>4, <2>5
<1>4. CASE BackendType[b] # "anthropic" /\ r # <<>>
  <2>1. Faithful(r, c, reply)  BY <1>0 DEF Faithful
  <2>2. Parted(ContentBlocks(b, reply), r, c, reply.calls)
    BY <1>0, <1>4 DEF Parted, ContentBlocks, parse_message_content_blocks
  <2> QED  BY <1>1, <2>1, <2>2
<1>5. CASE BackendType[b] # "anthropic" /\ r = <<>>
  <2>1. PICK p : p = extract_thinking(c)  OBVIOUS
  <2>2. /\ p.thinking \in Seq(W) /\ p.text \in Seq(W)
        /\ \A w : ~Tag(w) => Words(p.thinking \o p.text, w) = Words(c, w)
    BY ONLY <1>1, <2>1, ThinkingParts
  <2>3. \A w \in {"r", "t"} : Words(p.thinking \o p.text, w) = Words(c, w)  BY <1>2, <2>2
  <2>4. <<>> \o c = c  BY <1>1
  <2>5. Faithful(p.thinking, p.text, reply)  BY <1>0, <1>5, <2>3, <2>4 DEF Faithful
  <2>6. Parted(ContentBlocks(b, reply), p.thinking, p.text, reply.calls)
    BY <1>0, <1>5, <2>1 DEF Parted, ContentBlocks, parse_message_content_blocks
  <2> QED  BY <2>2, <2>5, <2>6
<1> QED  BY <1>3, <1>4, <1>5

(* The parts are the bodies of the blocks.                                 *)
LEMMA PartedBodies ==
    ASSUME NEW W, NEW th, th \in Seq(W), NEW tx, tx \in Seq(W), NEW ids, ids \in Seq(W),
           NEW blocks, Parted(blocks, th, tx, ids)
    PROVE  /\ blocks \in Seq(BlockOf(W))
           /\ BodiesIn(blocks, "thinking") = th /\ BodiesIn(blocks, "text") = tx
           /\ BodiesIn(blocks, "tool_use") = ids
           /\ (\E i \in DOMAIN blocks : blocks[i].t = "thinking") <=> th # <<>>
<1>0. PICK B : B = BlockOf(W)  OBVIOUS
<1>1. PICK x, y, z : x = Given("thinking", th) /\ y = Given("text", tx) /\ z = Each("tool_use", ids)
  OBVIOUS
<1>2. blocks = (x \o y) \o z  BY <1>1 DEF Parted
<1>3. "thinking" \in Kinds /\ "text" \in Kinds /\ "tool_use" \in Kinds  BY DEF Kinds
<1>4. x \in Seq(B) /\ \A t : BodiesIn(x, t) = IF t = "thinking" THEN th ELSE <<>>
  BY <1>0, <1>1, <1>3, BodiesGiven
<1>5. y \in Seq(B) /\ \A t : BodiesIn(y, t) = IF t = "text" THEN tx ELSE <<>>
  BY <1>0, <1>1, <1>3, BodiesGiven
<1>6. z \in Seq(B) /\ \A t : BodiesIn(z, t) = IF t = "tool_use" THEN ids ELSE <<>>
  BY <1>0, <1>1, <1>3, BodiesEach
<1>7. x \o y \in Seq(B) /\ blocks \in Seq(B)  BY ONLY <1>2, <1>4, <1>5, <1>6
<1>8. \A t : BodiesIn(blocks, t) = (BodiesIn(x, t) \o BodiesIn(y, t)) \o BodiesIn(z, t)
  <2> SUFFICES ASSUME NEW t  PROVE BodiesIn(blocks, t) = (BodiesIn(x, t) \o BodiesIn(y, t)) \o BodiesIn(z, t)
    OBVIOUS
  <2>1. PICK v : v = x \o y  OBVIOUS
  <2>4. v \in Seq(BlockOf(W)) /\ x \in Seq(BlockOf(W)) /\ y \in Seq(BlockOf(W)) /\ z \in Seq(BlockOf(W))
    BY ONLY <1>0, <1>4, <1>5, <1>6, <1>7, <2>1
  <2>2. BodiesIn(v \o z, t) = BodiesIn(v, t) \o BodiesIn(z, t)
    <3>1. v \in Seq(BlockOf(W)) /\ z \in Seq(BlockOf(W))  BY ONLY <2>4
    <3> QED  BY ONLY <3>1, BodiesConcat
  <2>3. BodiesIn(x \o y, t) = BodiesIn(x, t) \o BodiesIn(y, t)
    <3>1. x \in Seq(BlockOf(W)) /\ y \in Seq(BlockOf(W))  BY ONLY <2>4
    <3> QED  BY ONLY <3>1, BodiesConcat
  <2> QED  BY ONLY <1>2, <2>1, <2>2, <2>3
<1>9. BodiesIn(blocks, "thinking") = th
  <2>1. BodiesIn(blocks, "thinking") = (th \o <<>>) \o <<>>  BY <1>4, <1>5, <1>6, <1>8
  <2>2. (th \o <<>>) \o <<>> = th  OBVIOUS
  <2> QED  BY ONLY <2>1, <2>2
<1>10. BodiesIn(blocks, "text") = tx
  <2>1. BodiesIn(blocks, "text") = (<<>> \o tx) \o <<>>  BY <1>4, <1>5, <1>6, <1>8
  <2>2. (<<>> \o tx) \o <<>> = tx  OBVIOUS
  <2> QED  BY ONLY <2>1, <2>2
<1>11. BodiesIn(blocks, "tool_use") = ids
  <2>1. BodiesIn(blocks, "tool_use") = (<<>> \o <<>>) \o ids  BY <1>4, <1>5, <1>6, <1>8
  <2>2. (<<>> \o <<>>) \o ids = ids  OBVIOUS
  <2> QED  BY ONLY <2>1, <2>2
<1>12. CASE th # <<>>
  <2>1. x = <<Block("thinking", th)>>  BY <1>1, <1>12 DEF Given
  <2>2. Len(x) = 1 /\ x[1].t = "thinking"  BY <2>1 DEF Block
  <2>3. Len(x \o y) >= 1 /\ (x \o y)[1] = x[1]
    <3>1. Len(x) = 1 /\ Len(y) \in Nat /\ x \in Seq(B) /\ y \in Seq(B)  BY ONLY <1>4, <1>5, <2>2
    <3> QED  BY ONLY <3>1, ConcatProperties
  <2>4. 1 \in DOMAIN blocks /\ blocks[1] = (x \o y)[1]  BY <1>2, <1>6, <1>7, <2>3
  <2> QED  BY <1>0, <1>7, <1>9, <1>10, <1>11, <1>12, <2>2, <2>3, <2>4
<1>13. CASE th = <<>>
  <2>1. x = <<>>  BY <1>1, <1>13 DEF Given
  <2>2. PICK X : X = {c \in B : c.t # "thinking"}  OBVIOUS
  <2>3. y \in Seq(X)
    <3>1. CASE tx = <<>>
      <4>1. y = <<>>  BY <1>1, <3>1 DEF Given
      <4> QED  BY <4>1
    <3>2. CASE tx # <<>>
      <4>1. PICK c : c = Block("text", tx)  OBVIOUS
      <4>2. c \in X  BY <1>0, <1>3, <2>2, <4>1 DEF Block, BlockOf
      <4>3. y = <<c>>  BY <1>1, <3>2, <4>1 DEF Given
      <4> QED  BY <4>2, <4>3
    <3> QED  BY <3>1, <3>2
  <2>4. z \in Seq(X)
    <3>1. \A i \in 1 .. Len(z) : z[i] \in X
      <4> SUFFICES ASSUME NEW i \in 1 .. Len(z)  PROVE z[i] \in X  OBVIOUS
      <4>1. z[i] \in B  BY <1>6
      <4>2. z = [j \in 1 .. Len(ids) |-> Block("tool_use", <<ids[j]>>)]  BY <1>1 DEF Each
      <4>3. DOMAIN z = 1 .. Len(z)  BY <1>6
      <4>4. i \in 1 .. Len(ids)  BY <4>2, <4>3
      <4>5. z[i] = Block("tool_use", <<ids[i]>>)  BY <4>2, <4>4
      <4> QED  BY <2>2, <4>1, <4>5 DEF Block
    <3>2. Len(z) \in Nat /\ z \in [1 .. Len(z) -> X]
      <4>1. Len(z) \in Nat /\ z \in [1 .. Len(z) -> B]  BY ONLY <1>6, LenProperties
      <4> QED  BY <3>1, <4>1
    <3> QED  BY ONLY <3>2, SeqDef
  <2>5. blocks \in Seq(X)  BY <1>2, <2>1, <2>3, <2>4
  <2>6. \A i \in DOMAIN blocks : blocks[i] \in X  BY <2>5
  <2>7. ~ \E i \in DOMAIN blocks : blocks[i].t = "thinking"  BY <2>2, <2>6
  <2> QED  BY <1>0, <1>7, <1>9, <1>10, <1>11, <1>13, <2>7
<1> QED  BY <1>12, <1>13

(* What messages are made of.                                              *)
Vocabulary == {"q", "interrupted", "event", "r", "t", "<think>", "</think>", "c1", "c2"}
Part == BlockOf(Vocabulary)
Msg == [role : {"user", "assistant"}, blocks : Seq(Part)]
SaidOf == [reasoning : Seq(Vocabulary), content : Seq(Vocabulary), calls : Seq(Vocabulary)]

(* An assistant message on the wire is the same for both APIs.             *)
Wire(m) == WireMessage("assistant", Bodies(m, "text"), Bodies(m, "thinking"), Uses(m))

(* The parts of a message are texts.                                       *)
LEMMA BodiesTyped ==
    ASSUME NEW x \in Seq(Part), NEW t  PROVE BodiesIn(x, t) \in Seq(Vocabulary)
<1>1. x \in Seq(BlockOf(Vocabulary))  BY DEF Part
<1> QED  BY ONLY <1>1, BodiesConcat

(* Parts joined.                                                           *)
LEMMA PartsJoined ==
    ASSUME NEW x \in Seq(Part), NEW y \in Seq(Part), NEW t
    PROVE  BodiesIn(x \o y, t) = BodiesIn(x, t) \o BodiesIn(y, t)
<1>1. x \in Seq(BlockOf(Vocabulary)) /\ y \in Seq(BlockOf(Vocabulary))  BY DEF Part
<1> QED  BY ONLY <1>1, BodiesConcat

(* A reply consists of words.                                              *)
LEMMA SaysTyped ==
    ASSUME NEW reply \in Says
    PROVE  /\ reply.reasoning \in Seq(Vocabulary) /\ reply.content \in Seq(Vocabulary)
           /\ reply.calls \in Seq(Vocabulary)
<1>1. /\ <<>> \in Seq(Vocabulary) /\ <<"r">> \in Seq(Vocabulary) /\ <<"c1", "c2">> \in Seq(Vocabulary)
      /\ <<"t">> \in Seq(Vocabulary) /\ <<"<think>", "r", "</think>", "t">> \in Seq(Vocabulary)
      /\ <<"<think>", "r">> \in Seq(Vocabulary)
  BY DEF Vocabulary
<1> QED  BY <1>1 DEF Says

(* The blocks of a reply repeat what the model said.                       *)
LEMMA SaidInBlocks ==
    ASSUME NEW b, NEW reply \in Says, NEW blocks, blocks = ContentBlocks(b, reply)
    PROVE  /\ blocks \in Seq(Part)
           /\ SaysAgain(Wire(AssistantMessage(blocks)), Said(reply))
           /\ Uses(AssistantMessage(blocks)) = reply.calls
           /\ reply.calls \in Seq(Vocabulary) /\ Said(reply) \in SaidOf
<1>1. /\ reply.reasoning \in Seq(Vocabulary) /\ reply.content \in Seq(Vocabulary)
      /\ reply.calls \in Seq(Vocabulary)
  BY SaysTyped
<1>2. PICK th, tx \in Seq(Vocabulary) : Parted(blocks, th, tx, reply.calls) /\ Faithful(th, tx, reply)
  BY <1>1, ContentParts
<1>3. /\ blocks \in Seq(BlockOf(Vocabulary))
      /\ BodiesIn(blocks, "thinking") = th /\ BodiesIn(blocks, "text") = tx
      /\ BodiesIn(blocks, "tool_use") = reply.calls
  BY <1>1, <1>2, PartedBodies
<1>4. Wire(AssistantMessage(blocks)) = [role |-> "assistant", content |-> tx, reasoning |-> th, ids |-> reply.calls]
  BY <1>3 DEF Wire, WireMessage, AssistantMessage, Bodies, Uses
<1>5. SaysAgain(Wire(AssistantMessage(blocks)), Said(reply))
  BY <1>2, <1>4 DEF SaysAgain, Said, Faithful
<1>6. Uses(AssistantMessage(blocks)) = reply.calls  BY <1>3 DEF AssistantMessage, Bodies, Uses
<1>7. Said(reply) \in SaidOf  BY <1>1 DEF Said, SaidOf
<1> QED  BY <1>1, <1>3, <1>5, <1>6, <1>7 DEF Part

(* So do those of the message that ends a turn.                            *)
LEMMA SaidInFinal ==
    ASSUME NEW b, NEW reply \in Says, NEW blocks, blocks = ContentBlocks(b, reply)
    PROVE  /\ FinalBlocks(blocks) \in Seq(Part)
           /\ SaysAgain(Wire(AssistantMessage(FinalBlocks(blocks))), [Said(reply) EXCEPT !.calls = <<>>])
           /\ [Said(reply) EXCEPT !.calls = <<>>] \in SaidOf
<1>1. /\ reply.reasoning \in Seq(Vocabulary) /\ reply.content \in Seq(Vocabulary)
      /\ reply.calls \in Seq(Vocabulary)
  BY SaysTyped
<1>2. PICK th, tx \in Seq(Vocabulary) : Parted(blocks, th, tx, reply.calls) /\ Faithful(th, tx, reply)
  BY <1>1, ContentParts
<1>3. /\ blocks \in Seq(BlockOf(Vocabulary))
      /\ BodiesIn(blocks, "thinking") = th /\ BodiesIn(blocks, "text") = tx
      /\ BodiesIn(blocks, "tool_use") = reply.calls
      /\ (\E i \in DOMAIN blocks : blocks[i].t = "thinking") <=> th # <<>>
  <2>1. PICK ids : ids = reply.calls  OBVIOUS
  <2>2. th \in Seq(Vocabulary) /\ tx \in Seq(Vocabulary) /\ ids \in Seq(Vocabulary) /\ Parted(blocks, th, tx, ids)
    BY ONLY <1>1, <1>2, <2>1
  <2>3. /\ blocks \in Seq(BlockOf(Vocabulary))
        /\ BodiesIn(blocks, "thinking") = th /\ BodiesIn(blocks, "text") = tx
        /\ BodiesIn(blocks, "tool_use") = ids
        /\ (\E i \in DOMAIN blocks : blocks[i].t = "thinking") <=> th # <<>>
    BY ONLY <2>2, PartedBodies
  <2> QED  BY <2>1, <2>3
<1>4. PICK fin : fin = FinalBlocks(blocks)  OBVIOUS
<1>5. /\ fin \in Seq(Part)
      /\ BodiesIn(fin, "thinking") = th /\ BodiesIn(fin, "text") = tx
  <2>1. CASE th # <<>>
    <3>1. fin = blocks  BY <1>3, <1>4, <2>1 DEF FinalBlocks
    <3> QED  BY <1>3, <3>1 DEF Part
  <2>2. CASE th = <<>>
    <3>1. fin = <<Block("text", tx)>>  BY <1>3, <1>4, <2>2 DEF FinalBlocks
    <3>2. "text" \in Kinds  BY DEF Kinds
    <3>3. fin \in Seq(BlockOf(Vocabulary)) /\ \A t : BodiesIn(fin, t) = IF "text" = t THEN tx ELSE <<>>
      BY <1>2, <3>1, <3>2, BodiesOne
    <3> QED  BY <2>2, <3>3 DEF Part
  <2> QED  BY <2>1, <2>2
<1>6. PICK said : said = [Said(reply) EXCEPT !.calls = <<>>]  OBVIOUS
<1>7. said = [reasoning |-> reply.reasoning, content |-> reply.content, calls |-> <<>>]
  BY <1>6 DEF Said
<1>8. Wire(AssistantMessage(fin)).content = tx /\ Wire(AssistantMessage(fin)).reasoning = th
  BY <1>5 DEF Wire, WireMessage, AssistantMessage, Bodies
<1>9. SaysAgain(Wire(AssistantMessage(fin)), said)
  BY <1>2, <1>7, <1>8 DEF SaysAgain, Faithful
<1>10. said \in SaidOf
  <2>1. <<>> \in Seq(Vocabulary)  OBVIOUS
  <2> QED  BY <1>1, <1>7, <2>1 DEF SaidOf
<1> QED  BY <1>4, <1>5, <1>6, <1>9, <1>10

(* An event says nothing, as the model did.                                *)
LEMMA EventSilent ==
    LET blocks == <<Block("text", <<"event">>)>>
    IN  /\ blocks \in Seq(Part)
        /\ SaysAgain(Wire(AssistantMessage(blocks)), Silence)
        /\ Silence \in SaidOf
<1>1. PICK blocks : blocks = <<Block("text", <<"event">>)>>  OBVIOUS
<1>2. PICK tx : tx = <<"event">>  OBVIOUS
<1>3. tx \in Seq(Vocabulary) /\ "text" \in Kinds  BY <1>2 DEF Vocabulary, Kinds
<1>4. blocks \in Seq(BlockOf(Vocabulary)) /\ \A t : BodiesIn(blocks, t) = IF "text" = t THEN tx ELSE <<>>
  <2>1. blocks = <<Block("text", tx)>>  BY <1>1, <1>2
  <2>2. <<Block("text", tx)>> \in Seq(BlockOf(Vocabulary))  BY ONLY <1>3, BodiesOne
  <2>3. \A t : BodiesIn(<<Block("text", tx)>>, t) = IF "text" = t THEN tx ELSE <<>>  BY ONLY <1>3, BodiesOne
  <2> QED  BY ONLY <2>1, <2>2, <2>3
<1>5. PICK m : m = Wire(AssistantMessage(blocks))  OBVIOUS
<1>6. m.content = tx /\ m.reasoning = <<>>
  BY <1>4, <1>5 DEF Wire, WireMessage, AssistantMessage, Bodies
<1>7. <<>> \o tx = tx /\ <<>> \o <<>> = <<>>  BY <1>3
<1>8. Words(tx, "r") = 0 /\ Words(tx, "t") = 0  BY <1>2, WordsOne DEF Times
<1>9. SaysAgain(m, Silence)  BY <1>6, <1>7, <1>8, WordsEmpty DEF SaysAgain, Silence
<1>10. Silence \in SaidOf
  <2>1. <<>> \in Seq(Vocabulary)  OBVIOUS
  <2> QED  BY <2>1 DEF SaidOf, Silence
<1> QED  BY <1>1, <1>4, <1>5, <1>9, <1>10 DEF Part

(* A thread between a user and models that said tl: user and assistant     *)
(* messages alternate, each assistant message says what its model said,    *)
(* and the message after it holds the results of its tool calls.           *)
FromUser(m) == m \in Msg /\ m.role = "user" /\ Uses(m) = <<>>
FromModel(m, said) == m \in Msg /\ m.role = "assistant" /\ SaysAgain(Wire(m), said)

Thread(msgs, tl) ==
    /\ msgs \in Seq(Msg) /\ tl \in Seq(SaidOf)
    /\ Len(msgs) \in {2 * Len(tl), 2 * Len(tl) + 1}
    /\ \A k \in 1 .. Len(tl) : FromModel(msgs[2 * k], tl[k])
    /\ \A k \in 0 .. Len(tl) : 2 * k + 1 <= Len(msgs) =>
          /\ FromUser(msgs[2 * k + 1])
          /\ k > 0 => Results(msgs[2 * k + 1]) = Uses(msgs[2 * k])

(* It is the model's turn.                                                 *)
Asking(msgs, tl) == Thread(msgs, tl) /\ Len(msgs) = 2 * Len(tl) + 1

(* A new thread.                                                           *)
LEMMA ThreadEmpty == Thread(<<>>, <<>>)
<1>1. Len(<<>>) = 0 /\ 1 .. 0 = {} /\ <<>> \in Seq(Msg) /\ <<>> \in Seq(SaidOf)  OBVIOUS
<1> QED  BY <1>1 DEF Thread

(* A sequence with one element more.                                       *)
LEMMA OneMore ==
    ASSUME NEW S, NEW s \in Seq(S), NEW x \in S, NEW z, z = Append(s, x)
    PROVE  /\ z \in Seq(S) /\ Len(z) = Len(s) + 1 /\ z[Len(s) + 1] = x
           /\ \A i \in 1 .. Len(s) : z[i] = s[i]
OBVIOUS

(* The user answers.                                                       *)
LEMMA UserAnswers ==
    ASSUME NEW msgs, NEW tl, Thread(msgs, tl), Len(msgs) = 2 * Len(tl),
           NEW u, FromUser(u), msgs # <<>> => Results(u) = Uses(Last(msgs))
    PROVE  Asking(Append(msgs, u), tl)
<1>0. PICK n : n = Len(tl)  OBVIOUS
<1>1. msgs \in Seq(Msg) /\ tl \in Seq(SaidOf) /\ n \in Nat /\ Len(msgs) = 2 * n /\ u \in Msg
  BY <1>0 DEF Thread, FromUser
<1>2. PICK z : z = Append(msgs, u)  OBVIOUS
<1>3. z \in Seq(Msg) /\ Len(z) = 2 * n + 1 /\ z[2 * n + 1] = u /\ (\A i \in 1 .. 2 * n : z[i] = msgs[i])
  BY ONLY <1>1, <1>2, OneMore
<1>4. \A k \in 1 .. n : FromModel(z[2 * k], tl[k])
  <2> SUFFICES ASSUME NEW k \in 1 .. n  PROVE FromModel(z[2 * k], tl[k])  OBVIOUS
  <2>1. 2 * k \in 1 .. 2 * n  BY <1>1
  <2>2. FromModel(msgs[2 * k], tl[k])  BY <1>0 DEF Thread
  <2> QED  BY <1>3, <2>1, <2>2
<1>5. ASSUME NEW k \in 0 .. n
      PROVE  FromUser(z[2 * k + 1]) /\ (k > 0 => Results(z[2 * k + 1]) = Uses(z[2 * k]))
  <2>1. CASE k = n
    <3>1. k > 0 => z[2 * k] = Last(msgs) /\ msgs # <<>>
      <4>1. k > 0 => 2 * k \in 1 .. 2 * n  BY <1>1
      <4> QED  BY <1>1, <1>3, <2>1, <4>1 DEF Last
    <3> QED  BY <1>3, <2>1, <3>1
  <2>2. CASE k # n
    <3>1. 2 * k + 1 \in 1 .. 2 * n /\ 2 * k + 1 <= Len(msgs) /\ (k > 0 => 2 * k \in 1 .. 2 * n)
      BY <1>1, <2>2
    <3>2. FromUser(msgs[2 * k + 1]) /\ (k > 0 => Results(msgs[2 * k + 1]) = Uses(msgs[2 * k]))
      BY <1>0, <3>1 DEF Thread
    <3> QED  BY <1>3, <3>1, <3>2
  <2> QED  BY <2>1, <2>2
<1>6. Len(z) \in {2 * n, 2 * n + 1}  BY <1>3
<1>7. Asking(z, tl)  BY <1>0, <1>1, <1>3, <1>4, <1>5, <1>6 DEF Asking, Thread
<1> QED  BY <1>2, <1>7

(* The model replies.                                                      *)
LEMMA ModelReplies ==
    ASSUME NEW msgs, NEW tl, Asking(msgs, tl), NEW a, NEW said, FromModel(a, said), said \in SaidOf
    PROVE  /\ Thread(Append(msgs, a), Append(tl, said))
           /\ Len(Append(msgs, a)) = 2 * Len(Append(tl, said))
           /\ Append(msgs, a) # <<>> /\ Last(Append(msgs, a)) = a
<1>0. PICK n : n = Len(tl)  OBVIOUS
<1>1. msgs \in Seq(Msg) /\ tl \in Seq(SaidOf) /\ n \in Nat /\ Len(msgs) = 2 * n + 1 /\ a \in Msg
  BY <1>0 DEF Asking, Thread, FromModel
<1>2. PICK z, v : z = Append(msgs, a) /\ v = Append(tl, said)  OBVIOUS
<1>3. z \in Seq(Msg) /\ Len(z) = 2 * n + 2 /\ z[2 * n + 2] = a /\ (\A i \in 1 .. 2 * n + 1 : z[i] = msgs[i])
  <2>1. Len(msgs) + 1 = 2 * n + 2  BY <1>1
  <2>2. z \in Seq(Msg) /\ Len(z) = Len(msgs) + 1 /\ z[Len(msgs) + 1] = a /\ (\A i \in 1 .. Len(msgs) : z[i] = msgs[i])
    BY ONLY <1>1, <1>2, OneMore
  <2> QED  BY ONLY <1>1, <2>1, <2>2
<1>4. v \in Seq(SaidOf) /\ Len(v) = n + 1 /\ v[n + 1] = said /\ (\A i \in 1 .. n : v[i] = tl[i])
  BY <1>0, <1>1, <1>2
<1>5. ASSUME NEW k \in 1 .. n + 1  PROVE FromModel(z[2 * k], v[k])
  <2>1. CASE k = n + 1
    <3>1. 2 * k = 2 * n + 2  BY <1>1, <2>1
    <3> QED  BY <1>3, <1>4, <2>1, <3>1
  <2>2. CASE k # n + 1
    <3>1. k \in 1 .. n /\ 2 * k \in 1 .. 2 * n + 1  BY <1>1, <2>2
    <3>2. FromModel(msgs[2 * k], tl[k])  BY <1>0, <3>1 DEF Asking, Thread
    <3> QED  BY <1>3, <1>4, <3>1, <3>2
  <2> QED  BY <2>1, <2>2
<1>6. ASSUME NEW k \in 0 .. n + 1, 2 * k + 1 <= Len(z)
      PROVE  FromUser(z[2 * k + 1]) /\ (k > 0 => Results(z[2 * k + 1]) = Uses(z[2 * k]))
  <2>1. k \in 0 .. n /\ 2 * k + 1 \in 1 .. 2 * n + 1 /\ 2 * k + 1 <= Len(msgs) /\ (k > 0 => 2 * k \in 1 .. 2 * n + 1)
    BY <1>1, <1>3, <1>6
  <2>2. FromUser(msgs[2 * k + 1]) /\ (k > 0 => Results(msgs[2 * k + 1]) = Uses(msgs[2 * k]))
    BY <1>0, <2>1 DEF Asking, Thread
  <2> QED  BY <1>3, <2>1, <2>2
<1>7. Len(z) \in {2 * (n + 1), 2 * (n + 1) + 1} /\ Len(z) = 2 * Len(v)  BY <1>1, <1>3, <1>4
<1>8. Thread(z, v)  BY <1>3, <1>4, <1>5, <1>6, <1>7 DEF Thread
<1>9. z # <<>> /\ Last(z) = a  BY <1>1, <1>3 DEF Last
<1> QED  BY <1>2, <1>7, <1>8, <1>9

(* Before the user has answered.                                           *)
LEMMA BeforeAnswer ==
    ASSUME NEW msgs, NEW tl, Asking(msgs, tl)
    PROVE  /\ Thread(Front(msgs), tl) /\ Len(Front(msgs)) = 2 * Len(tl)
           /\ FromUser(Last(msgs)) /\ msgs # <<>>
           /\ Front(msgs) # <<>> => Results(Last(msgs)) = Uses(Last(Front(msgs)))
<1>0. PICK n : n = Len(tl)  OBVIOUS
<1>1. msgs \in Seq(Msg) /\ tl \in Seq(SaidOf) /\ n \in Nat /\ Len(msgs) = 2 * n + 1
  BY <1>0 DEF Asking, Thread
<1>2. msgs # <<>>  BY <1>1
<1>3. PICK z : z = Front(msgs)  OBVIOUS
<1>4. z \in Seq(Msg) /\ Len(z) = 2 * n /\ (\A i \in 1 .. 2 * n : z[i] = msgs[i])
  <2>1. z \in Seq(Msg) /\ Len(z) = Len(msgs) - 1 /\ (\A i \in 1 .. Len(msgs) - 1 : z[i] = msgs[i])
    BY ONLY <1>1, <1>2, <1>3, FrontProperties
  <2>2. Len(msgs) - 1 = 2 * n  BY <1>1
  <2> QED  BY ONLY <2>1, <2>2
<1>5. ASSUME NEW k \in 1 .. n  PROVE FromModel(z[2 * k], tl[k])
  <2>1. 2 * k \in 1 .. 2 * n  BY <1>1
  <2>2. FromModel(msgs[2 * k], tl[k])  BY <1>0 DEF Asking, Thread
  <2> QED  BY <1>4, <2>1, <2>2
<1>6. ASSUME NEW k \in 0 .. n, 2 * k + 1 <= Len(z)
      PROVE  FromUser(z[2 * k + 1]) /\ (k > 0 => Results(z[2 * k + 1]) = Uses(z[2 * k]))
  <2>1. 2 * k + 1 \in 1 .. 2 * n /\ 2 * k + 1 <= Len(msgs) /\ (k > 0 => 2 * k \in 1 .. 2 * n)
    BY <1>1, <1>4, <1>6
  <2>2. FromUser(msgs[2 * k + 1]) /\ (k > 0 => Results(msgs[2 * k + 1]) = Uses(msgs[2 * k]))
    BY <1>0, <2>1 DEF Asking, Thread
  <2> QED  BY <1>4, <2>1, <2>2
<1>7. Thread(z, tl)  BY <1>0, <1>1, <1>4, <1>5, <1>6 DEF Thread
<1>8. FromUser(Last(msgs)) /\ (z # <<>> => Results(Last(msgs)) = Uses(Last(z)))
  <2>1. n \in 0 .. n /\ 2 * n + 1 <= Len(msgs)  BY <1>1
  <2>2. FromUser(msgs[2 * n + 1]) /\ (n > 0 => Results(msgs[2 * n + 1]) = Uses(msgs[2 * n]))
    BY <1>0, <2>1 DEF Asking, Thread
  <2>3. z # <<>> => n > 0 /\ 2 * n \in 1 .. 2 * n /\ Last(z) = z[2 * n]  BY <1>1, <1>4 DEF Last
  <2>4. Last(msgs) = msgs[2 * n + 1]  BY <1>1 DEF Last
  <2> QED  BY <1>4, <2>2, <2>3, <2>4
<1> QED  BY <1>0, <1>2, <1>3, <1>4, <1>7, <1>8

(* Answers in place of the tail keep the results.                          *)
LEMMA AnswerMore ==
    ASSUME NEW msgs, NEW tl, Asking(msgs, tl), NEW u, FromUser(u), Results(u) = Results(Last(msgs))
    PROVE  Asking(Append(Front(msgs), u), tl)
<1>1. PICK f : f = Front(msgs)  OBVIOUS
<1>2. Thread(f, tl) /\ Len(f) = 2 * Len(tl) /\ (f # <<>> => Results(u) = Uses(Last(f)))
  BY <1>1, BeforeAnswer
<1>3. Asking(Append(f, u), tl)  BY ONLY <1>2, FromUser(u), UserAnswers
<1> QED  BY ONLY <1>1, <1>3

(* Tool results.                                                           *)
LEMMA AnswerIs ==
    ASSUME NEW ids \in Seq(Vocabulary)
    PROVE  FromUser(Answer(ids)) /\ Results(Answer(ids)) = ids
<1>1. PICK blocks : blocks = Each("tool_result", ids)  OBVIOUS
<1>2. "tool_result" \in Kinds  BY DEF Kinds
<1>3. blocks \in Seq(Part)  BY <1>1, <1>2, BodiesEach DEF Part
<1>4. BodiesIn(blocks, "tool_result") = ids /\ BodiesIn(blocks, "tool_use") = <<>>
  <2>1. \A t : BodiesIn(Each("tool_result", ids), t) = IF "tool_result" = t THEN ids ELSE <<>>
    BY ONLY <1>2, ids \in Seq(Vocabulary), BodiesEach
  <2> QED  BY <1>1, <2>1
<1> QED  BY <1>1, <1>3, <1>4 DEF Answer, UserMessage, FromUser, Msg, Results, Uses, Bodies

(* Text added to a user message leaves its results.                        *)
LEMMA TextAdded ==
    ASSUME NEW m, FromUser(m), NEW x \in Seq(Part),
           BodiesIn(x, "tool_use") = <<>>, BodiesIn(x, "tool_result") = <<>>
    PROVE  FromUser(UserMessage(m.blocks \o x)) /\ Results(UserMessage(m.blocks \o x)) = Results(m)
<1>1. PICK y : y = m.blocks  OBVIOUS
<1>2. y \in Seq(Part) /\ BodiesIn(y, "tool_use") = <<>>  BY <1>1 DEF FromUser, Msg, Uses, Bodies
<1>3. \A t : BodiesIn(y \o x, t) = BodiesIn(y, t) \o BodiesIn(x, t)  BY ONLY <1>2, x \in Seq(Part), PartsJoined
<1>4. y \o x \in Seq(Part)  BY <1>2
<1>5. BodiesIn(y, "tool_result") \in Seq(Vocabulary)  BY ONLY <1>2, BodiesTyped
<1>6. BodiesIn(y \o x, "tool_use") = <<>> \o <<>>  BY <1>2, <1>3
<1>7. BodiesIn(y \o x, "tool_result") = BodiesIn(y, "tool_result")
  <2>1. PICK r : r = BodiesIn(y, "tool_result")  OBVIOUS
  <2>2. r \o <<>> = r  BY <1>5, <2>1
  <2> QED  BY <1>3, <2>1, <2>2
<1>8. <<>> \o <<>> = <<>>  OBVIOUS
<1> QED  BY <1>1, <1>4, <1>6, <1>7, <1>8 DEF UserMessage, FromUser, Msg, Results, Uses, Bodies

(* The query goes into the thread, whatever the last turn left behind.     *)
LEMMA QueryJoins ==
    ASSUME NEW msgs, NEW tl, Thread(msgs, tl)
    PROVE  Asking(JoinQuery(Repair(msgs)), tl)
<1> DEFINE query == <<Block("text", <<"q">>)>>
<1>1. /\ query \in Seq(Part) /\ BodiesIn(query, "tool_use") = <<>> /\ BodiesIn(query, "tool_result") = <<>>
  <2>1. <<"q">> \in Seq(Vocabulary) /\ "text" \in Kinds  BY DEF Vocabulary, Kinds
  <2>2. PICK q : q = <<"q">>  OBVIOUS
  <2>3. q \in Seq(Vocabulary)  BY <2>1, <2>2
  <2>4. <<Block("text", q)>> \in Seq(BlockOf(Vocabulary))  BY ONLY <2>1, <2>3, BodiesOne
  <2>5. \A t : BodiesIn(<<Block("text", q)>>, t) = IF "text" = t THEN q ELSE <<>>  BY ONLY <2>1, <2>3, BodiesOne
  <2> QED  BY <2>2, <2>4, <2>5 DEF Part
<1>2. ASSUME NEW v, Asking(v, tl)  PROVE Asking(JoinQuery(v), tl)
  <2>1. v # <<>> /\ FromUser(Last(v))  BY <1>2, BeforeAnswer
  <2>2. PICK marker \in {<<>>, <<Block("text", <<"interrupted">>)>>} :
            JoinQuery(v) = Append(Front(v), UserMessage(Last(v).blocks \o marker \o query))
    <3> HIDE DEF query
    <3>1. Last(v).role = "user"  BY <2>1 DEF FromUser
    <3> QED  BY <2>1, <3>1 DEF JoinQuery, query
  <2>3. marker \in Seq(Part) /\ BodiesIn(marker, "tool_use") = <<>> /\ BodiesIn(marker, "tool_result") = <<>>
    <3>1. CASE marker = <<>>  BY <3>1, BodiesNone
    <3>2. CASE marker = <<Block("text", <<"interrupted">>)>>
      <4>1. PICK q : q = <<"interrupted">>  OBVIOUS
      <4>2. q \in Seq(Vocabulary) /\ "text" \in Kinds  BY <4>1 DEF Vocabulary, Kinds
      <4>3. <<Block("text", q)>> \in Seq(BlockOf(Vocabulary))  BY ONLY <4>2, BodiesOne
      <4>4. \A t : BodiesIn(<<Block("text", q)>>, t) = IF "text" = t THEN q ELSE <<>>  BY ONLY <4>2, BodiesOne
      <4> QED  BY <3>2, <4>1, <4>3, <4>4 DEF Part
    <3> QED  BY <3>1, <3>2
  <2> HIDE DEF query
  <2>4. PICK w : w = UserMessage(Last(v).blocks \o marker)  OBVIOUS
  <2>5. FromUser(w) /\ Results(w) = Results(Last(v)) /\ w.blocks = Last(v).blocks \o marker
    <3>1. PICK l : l = Last(v)  OBVIOUS
    <3>2. FromUser(UserMessage(l.blocks \o marker)) /\ Results(UserMessage(l.blocks \o marker)) = Results(l)
      BY ONLY <2>1, <2>3, <3>1, TextAdded
    <3> QED  BY <2>4, <3>1, <3>2 DEF UserMessage
  <2>6. PICK u : u = UserMessage(w.blocks \o query)  OBVIOUS
  <2>7. FromUser(u) /\ Results(u) = Results(w)  BY ONLY <1>1, <2>5, <2>6, TextAdded
  <2>8. JoinQuery(v) = Append(Front(v), u)  BY ONLY <2>2, <2>5, <2>6
  <2>9. Asking(Append(Front(v), u), tl)  BY ONLY <1>2, <2>5, <2>7, AnswerMore
  <2> QED  BY ONLY <2>8, <2>9
<1>3. CASE Asking(msgs, tl)
  <2>1. FromUser(Last(msgs))  BY <1>3, BeforeAnswer
  <2>2. Repair(msgs) = msgs  BY <2>1 DEF Repair, FromUser
  <2> QED  BY <1>2, <1>3, <2>2
<1>4. CASE Len(msgs) = 2 * Len(tl)
  <2>1. CASE msgs # <<>> /\ Uses(Last(msgs)) # <<>>
    <3>1. PICK ids : ids = Uses(Last(msgs))  OBVIOUS
    <3>2. ids \in Seq(Vocabulary)
      <4>1. Last(msgs) \in Msg  BY <2>1 DEF Thread, Last
      <4> QED  BY <3>1, <4>1, BodiesTyped DEF Uses, Bodies, Msg
    <3>3. Repair(msgs) = Append(msgs, Answer(ids))  BY <2>1, <3>1 DEF Repair
    <3>4. FromUser(Answer(ids)) /\ Results(Answer(ids)) = ids  BY <3>2, AnswerIs
    <3>5. Asking(Append(msgs, Answer(ids)), tl)
      <4>1. PICK u : u = Answer(ids)  OBVIOUS
      <4>2. FromUser(u) /\ (msgs # <<>> => Results(u) = Uses(Last(msgs)))  BY <3>1, <3>4, <4>1
      <4>3. Asking(Append(msgs, u), tl)  BY ONLY <1>4, <4>2, Thread(msgs, tl), UserAnswers
      <4> QED  BY <4>1, <4>3
    <3> QED  BY <1>2, <3>3, <3>5
  <2>2. CASE msgs = <<>> \/ Uses(Last(msgs)) = <<>>
    <3>1. Repair(msgs) = msgs  BY <2>2 DEF Repair
    <3>2. msgs # <<>> => Last(msgs).role # "user"
      <4> SUFFICES ASSUME msgs # <<>>  PROVE Last(msgs).role # "user"  OBVIOUS
      <4>1. PICK n : n = Len(tl)  OBVIOUS
      <4>2. n \in Nat /\ Len(msgs) = 2 * n /\ msgs \in Seq(Msg)  BY <1>4, <4>1 DEF Thread
      <4>3. n \in 1 .. n  BY <4>2
      <4>4. FromModel(msgs[2 * n], tl[n])  BY <4>1, <4>3 DEF Thread
      <4> QED  BY <4>2, <4>4 DEF FromModel, Last
    <3>3. JoinQuery(msgs) = Append(msgs, UserMessage(query))
      <4> HIDE DEF query
      <4> QED  BY <3>2 DEF JoinQuery, query
    <3> HIDE DEF query
    <3>4. PICK u : u = UserMessage(query)  OBVIOUS
    <3>5. FromUser(u) /\ Results(u) = <<>>
      BY <1>1, <3>4 DEF UserMessage, FromUser, Msg, Results, Uses, Bodies
    <3>6. msgs # <<>> => Results(u) = Uses(Last(msgs))  BY <2>2, <3>5
    <3>7. Asking(Append(msgs, u), tl)  BY ONLY <1>4, <3>5, <3>6, Thread(msgs, tl), UserAnswers
    <3> QED  BY ONLY <3>1, <3>3, <3>4, <3>7
  <2> QED  BY <2>1, <2>2
<1>5. Len(msgs) = 2 * Len(tl) \/ Len(msgs) = 2 * Len(tl) + 1  BY DEF Thread
<1> QED  BY <1>3, <1>4, <1>5 DEF Asking

(* Requests.                                                               *)
WireOf == [role : {"user", "assistant", "tool"}, content : Seq(Vocabulary),
           reasoning : Seq(Vocabulary), ids : Seq(Vocabulary)]

(* w carries n assistant messages, which say what the models said and are  *)
(* answered.                                                               *)
Carries(api, w, n, tl) ==
    /\ w \in Seq(WireOf) /\ Assistants(w, Len(w)) = n
    /\ \A i \in 1 .. Len(w) : w[i].role = "assistant" =>
          /\ Assistants(w, i) \in 1 .. n /\ SaysAgain(w[i], tl[Assistants(w, i)])
          /\ Answered(api, w, i)

(* A request in which no model has spoken.                                 *)
LEMMA CarriesNone ==
    ASSUME NEW api, NEW tl, NEW w, w \in Seq(WireOf), \A i \in 1 .. Len(w) : w[i].role # "assistant"
    PROVE  Carries(api, w, 0, tl)
<1>1. {j \in 1 .. Len(w) : w[j].role = "assistant"} = {}  OBVIOUS
<1>2. Assistants(w, Len(w)) = 0  BY <1>1, FS_EmptySet DEF Assistants
<1> QED  BY <1>2 DEF Carries

(* An assistant message more, and what answers it.                         *)
LEMMA CarriesMore ==
    ASSUME NEW api, NEW tl, NEW n \in Nat, NEW w, Carries(api, w, n, tl),
           NEW z, z \in Seq(WireOf), Len(z) > Len(w), \A i \in 1 .. Len(w) : z[i] = w[i],
           z[Len(w) + 1].role = "assistant", SaysAgain(z[Len(w) + 1], tl[n + 1]),
           \A i \in Len(w) + 2 .. Len(z) : z[i].role # "assistant",
           Answered(api, z, Len(w) + 1)
    PROVE  Carries(api, z, n + 1, tl)
<1>0. PICK L : L = Len(w)  OBVIOUS
<1>1. L \in Nat /\ Len(z) \in Nat /\ Len(z) > L /\ (\A i \in 1 .. L : z[i] = w[i]) /\ w \in Seq(WireOf)
      /\ Assistants(w, L) = n
  BY <1>0 DEF Carries
<1>2. ASSUME NEW i \in 1 .. L  PROVE Assistants(z, i) = Assistants(w, i)
  <2>1. \A j \in 1 .. i : j \in 1 .. L  BY <1>1
  <2>2. {j \in 1 .. i : z[j].role = "assistant"} = {j \in 1 .. i : w[j].role = "assistant"}  BY <1>1, <2>1
  <2> QED  BY <2>2 DEF Assistants
<1>3. Assistants(z, L + 1) = n + 1
  <2>1. PICK H : H = {j \in 1 .. L : w[j].role = "assistant"}  OBVIOUS
  <2>2. PICK K : K = {j \in 1 .. L + 1 : z[j].role = "assistant"}  OBVIOUS
  <2>3. K \subseteq 1 .. L + 1 /\ L + 1 \in K  BY <1>0, <1>1, <2>2
  <2>4. H = K \cap (1 .. L)
    <3>1. \A j \in 1 .. L : j \in 1 .. L + 1  BY <1>1
    <3> QED  BY <1>1, <2>1, <2>2, <3>1
  <2>5. Cardinality(K) = Cardinality(H) + 1  BY ONLY <1>1, <2>3, <2>4, OnePosition
  <2>6. Cardinality(H) = n  BY <1>1, <2>1 DEF Assistants
  <2> QED  BY <2>2, <2>5, <2>6 DEF Assistants
<1>4. Assistants(z, Len(z)) = n + 1
  <2>1. {j \in 1 .. Len(z) : z[j].role = "assistant"} = {j \in 1 .. L + 1 : z[j].role = "assistant"}
    <3>1. ASSUME NEW j \in 1 .. Len(z), z[j].role = "assistant"  PROVE j \in 1 .. L + 1
      <4>1. j \in L + 2 .. Len(z) \/ j \in 1 .. L + 1  BY <1>1
      <4> QED  BY <1>0, <3>1, <4>1
    <3>2. \A j \in 1 .. L + 1 : j \in 1 .. Len(z)  BY <1>1
    <3> QED  BY <3>1, <3>2
  <2> QED  BY <1>3, <2>1 DEF Assistants
<1>5. ASSUME NEW i \in 1 .. Len(z), z[i].role = "assistant"
      PROVE  /\ Assistants(z, i) \in 1 .. n + 1 /\ SaysAgain(z[i], tl[Assistants(z, i)])
             /\ Answered(api, z, i)
  <2>1. CASE i = L + 1  BY <1>0, <1>3, <2>1
  <2>2. CASE i \in 1 .. L
    <3>1. z[i] = w[i] /\ Assistants(z, i) = Assistants(w, i)  BY <1>1, <1>2, <2>2
    <3>2. Assistants(w, i) \in 1 .. n /\ SaysAgain(w[i], tl[Assistants(w, i)]) /\ Answered(api, w, i)
      BY <1>0, <1>5, <2>2, <3>1 DEF Carries
    <3>3. Answered(api, z, i)
      <4>1. CASE api = "anthropic"
        <5>1. i < L /\ w[i + 1].ids = w[i].ids  BY <1>0, <3>2, <4>1 DEF Answered
        <5>2. i + 1 \in 1 .. L /\ i < Len(z)  BY <1>1, <2>2, <5>1
        <5> QED  BY <1>1, <3>1, <4>1, <5>1, <5>2 DEF Answered
      <4>2. CASE api # "anthropic"
        <5>1. PICK m : m = Len(w[i].ids)  OBVIOUS
        <5>2. m \in Nat
          <6>1. w[i] \in WireOf  BY <1>0, <1>1, <2>2
          <6>2. w[i].ids \in Seq(Vocabulary)  BY ONLY <6>1 DEF WireOf
          <6> QED  BY ONLY <5>1, <6>2, LenProperties
        <5>3. /\ \A k \in 1 .. m : i + k <= L /\ w[i + k].role = "tool" /\ w[i + k].ids = <<w[i].ids[k]>>
              /\ i + m < L => w[i + m + 1].role # "tool"
          BY <1>0, <3>2, <4>2, <5>1 DEF Answered
        <5>4. ASSUME NEW k \in 1 .. m
              PROVE  i + k <= Len(z) /\ z[i + k].role = "tool" /\ z[i + k].ids = <<z[i].ids[k]>>
          <6>1. i + k \in 1 .. L /\ i + k <= Len(z)  BY <1>1, <2>2, <5>2, <5>3
          <6> QED  BY <1>1, <3>1, <5>3, <6>1
        <5>5. i + m <= L
          <6>1. CASE m = 0  BY <2>2, <6>1
          <6>2. CASE m # 0
            <7>1. m \in 1 .. m  BY <5>2, <6>2
            <7> QED  BY <5>3, <7>1
          <6> QED  BY <6>1, <6>2
        <5>6. z[i + m + 1].role # "tool"
          <6>1. CASE i + m < L
            <7>1. i + m + 1 \in 1 .. L  BY <1>1, <2>2, <5>2, <6>1
            <7> QED  BY <1>1, <5>3, <6>1, <7>1
          <6>2. CASE i + m = L  BY <1>0, <6>2
          <6> QED  BY <1>1, <2>2, <5>2, <5>5, <6>1, <6>2
        <5> QED  BY <3>1, <4>2, <5>1, <5>4, <5>6 DEF Answered
      <4> QED  BY <4>1, <4>2
    <3>4. Assistants(z, i) \in 1 .. n + 1  BY <3>1, <3>2
    <3> QED  BY <3>1, <3>2, <3>3, <3>4
  <2>3. i \in 1 .. L \/ i = L + 1
    <3>1. i \in L + 2 .. Len(z) \/ i \in 1 .. L \/ i = L + 1  BY <1>1
    <3> QED  BY <1>0, <1>5, <3>1
  <2> QED  BY <2>1, <2>2, <2>3
<1> QED  BY <1>4, <1>5 DEF Carries

(* The first messages of a thread.                                         *)
LEMMA PrefixIs ==
    ASSUME NEW S, NEW s \in Seq(S), NEW n \in 0 .. Len(s), NEW p, p = SubSeq(s, 1, n)
    PROVE  p \in Seq(S) /\ Len(p) = n /\ \A i \in 1 .. n : p[i] = s[i]
<1>1. \A i \in 1 .. n : s[i] \in S  OBVIOUS
<1>2. 1 \in Int /\ n \in Int /\ n \in Nat  OBVIOUS
<1>3. /\ p \in Seq(S) /\ Len(p) = IF 1 <= n THEN n - 1 + 1 ELSE 0
      /\ \A i \in 1 .. n - 1 + 1 : p[i] = s[1 + i - 1]
  BY ONLY <1>1, <1>2, p = SubSeq(s, 1, n), SubSeqProperties
<1> QED  BY <1>2, <1>3

(* The messages of Anthropic's API.                                        *)
Sent(m) == WireMessage(m.role, Bodies(m, "text"), Bodies(m, "thinking"),
                       IF m.role = "assistant" THEN Uses(m) ELSE Results(m))

(* Message i of the body is message i of the thread.                       *)
LEMMA BodyIs ==
    ASSUME NEW v \in Seq(Msg), NEW w, w = build_request_body(v)
    PROVE  /\ w \in Seq(WireOf) /\ Len(w) = Len(v)
           /\ \A i \in 1 .. Len(v) : /\ w[i] = Sent(v[i]) /\ w[i].role = v[i].role
                                     /\ v[i].role = "assistant" => w[i] = Wire(v[i])
                                     /\ v[i].role # "assistant" => w[i].ids = Results(v[i])
<1>1. Len(v) \in Nat /\ \A i \in 1 .. Len(v) : v[i] \in Msg  OBVIOUS
<1>2. w = [i \in 1 .. Len(v) |-> Sent(v[i])]  BY DEF build_request_body, Sent
<1>3. ASSUME NEW i \in 1 .. Len(v)  PROVE Sent(v[i]) \in WireOf
  <2>1. v[i].blocks \in Seq(Part) /\ v[i].role \in {"user", "assistant"}  BY <1>1 DEF Msg
  <2>2. \A t : Bodies(v[i], t) \in Seq(Vocabulary)  BY <2>1, BodiesTyped DEF Bodies
  <2> QED  BY <2>1, <2>2 DEF WireOf, WireMessage, Uses, Results, Sent
<1>4. ASSUME NEW i \in 1 .. Len(v)
      PROVE  /\ Sent(v[i]).role = v[i].role
             /\ v[i].role = "assistant" => Sent(v[i]) = Wire(v[i])
             /\ v[i].role # "assistant" => Sent(v[i]).ids = Results(v[i])
  BY DEF WireMessage, Wire, Sent
<1>5. w \in [1 .. Len(v) -> WireOf]  BY <1>2, <1>3
<1>6. w \in Seq(WireOf) /\ Len(w) = Len(v)
  <2>1. w \in Seq(WireOf)  BY ONLY <1>1, <1>5, SeqDef
  <2>2. DOMAIN w = 1 .. Len(v)  BY <1>5
  <2> QED  BY ONLY <1>1, <2>1, <2>2, LenProperties
<1> QED  BY <1>2, <1>4, <1>6

(* What becomes of a message in OpenAI's format.                           *)
Converted(m) == IF m.role = "assistant" THEN ConvertAssistant(m) ELSE ConvertUser(m)

(* A user message becomes its results, then its text.                      *)
LEMMA ConvertedUser ==
    ASSUME NEW m \in Msg, m.role # "assistant", NEW c, c = Converted(m)
    PROVE  /\ c \in Seq(WireOf) /\ Len(Results(m)) \in Nat
           /\ Len(c) \in {Len(Results(m)), Len(Results(m)) + 1}
           /\ \A k \in 1 .. Len(Results(m)) : c[k].role = "tool" /\ c[k].ids = <<Results(m)[k]>>
           /\ \A k \in 1 .. Len(c) : k > Len(Results(m)) => c[k].role = "user"
<1>1. m.blocks \in Seq(Part)  BY DEF Msg
<1>2. \A t : Bodies(m, t) \in Seq(Vocabulary)  BY <1>1, BodiesTyped DEF Bodies
<1>3. PICK ids : ids = Results(m)  OBVIOUS
<1>4. PICK n : n = Len(ids)  OBVIOUS
<1>5. ids \in Seq(Vocabulary) /\ n \in Nat /\ \A k \in 1 .. n : ids[k] \in Vocabulary
  BY <1>2, <1>3, <1>4 DEF Results
<1>6. PICK x : x = ToolMessages(m)  OBVIOUS
<1>7. x \in Seq(WireOf) /\ Len(x) = n /\ \A k \in 1 .. n : x[k].role = "tool" /\ x[k].ids = <<ids[k]>>
  <2>1. x = [k \in 1 .. n |-> WireMessage("tool", <<>>, <<>>, <<ids[k]>>)]  BY <1>3, <1>4, <1>6 DEF ToolMessages
  <2>2. ASSUME NEW k \in 1 .. n
        PROVE  /\ WireMessage("tool", <<>>, <<>>, <<ids[k]>>) \in WireOf
               /\ WireMessage("tool", <<>>, <<>>, <<ids[k]>>).role = "tool"
               /\ WireMessage("tool", <<>>, <<>>, <<ids[k]>>).ids = <<ids[k]>>
    <3>1. <<ids[k]>> \in Seq(Vocabulary) /\ <<>> \in Seq(Vocabulary)  BY <1>5
    <3> QED  BY <3>1 DEF WireMessage, WireOf
  <2>3. x \in [1 .. n -> WireOf] /\ \A k \in 1 .. n : x[k].role = "tool" /\ x[k].ids = <<ids[k]>>
    BY <2>1, <2>2
  <2>4. x \in Seq(WireOf)  BY ONLY <1>5, <2>3, SeqDef
  <2>5. DOMAIN x = 1 .. n  BY <2>3
  <2> QED  BY ONLY <1>5, <2>3, <2>4, <2>5, LenProperties
<1>8. PICK y : y = TextMessage(m)  OBVIOUS
<1>9. y \in Seq(WireOf) /\ Len(y) \in {0, 1} /\ (Len(y) = 1 => y[1].role = "user")
  <2>1. CASE Bodies(m, "text") = <<>>  BY <1>8, <2>1 DEF TextMessage
  <2>2. CASE Bodies(m, "text") # <<>>
    <3>1. PICK u : u = WireMessage("user", Bodies(m, "text"), <<>>, <<>>)  OBVIOUS
    <3>2. <<>> \in Seq(Vocabulary)  OBVIOUS
    <3>3. u \in WireOf /\ u.role = "user"  BY <1>2, <3>1, <3>2 DEF WireMessage, WireOf
    <3>4. y = <<u>>  BY <1>8, <2>2, <3>1 DEF TextMessage
    <3> QED  BY <3>3, <3>4
  <2> QED  BY <2>1, <2>2
<1>10. c = x \o y  BY <1>6, <1>8 DEF Converted, ConvertUser
<1>11. /\ c \in Seq(WireOf) /\ Len(c) = n + Len(y)
       /\ (\A k \in 1 .. n : c[k] = x[k]) /\ (Len(y) = 1 => c[n + 1] = y[1])
  <2>1. c \in Seq(WireOf) /\ Len(c) = Len(x) + Len(y)
        /\ \A i \in 1 .. Len(x) + Len(y) : c[i] = IF i <= Len(x) THEN x[i] ELSE y[i - Len(x)]
    BY ONLY <1>7, <1>9, <1>10, ConcatProperties
  <2>2. Len(y) = 1 => c[n + 1] = y[n + 1 - n]  BY ONLY <1>5, <1>7, <2>1
  <2>3. n + 1 - n = 1  BY ONLY <1>5
  <2>4. ASSUME NEW k \in 1 .. n  PROVE c[k] = x[k]
    <3>1. k \in 1 .. Len(x) + Len(y) /\ k <= Len(x)  BY <1>5, <1>7, <1>9
    <3> QED  BY <2>1, <3>1
  <2> QED  BY ONLY <1>7, <2>1, <2>2, <2>3, <2>4
<1>12. Len(c) \in {n, n + 1}
  <2>1. Len(y) \in {0, 1} /\ Len(c) = n + Len(y)  BY <1>9, <1>11
  <2>2. n \in Nat  BY <1>5
  <2>3. Len(y) = 0 => Len(c) = n  BY ONLY <2>1, <2>2
  <2>4. Len(y) = 1 => Len(c) = n + 1  BY ONLY <2>1, <2>2
  <2> QED  BY ONLY <2>1, <2>3, <2>4
<1>13. ASSUME NEW k \in 1 .. Len(c), k > n  PROVE c[k].role = "user"
  <2>1. Len(y) = 1 /\ k = n + 1
    <3>1. Len(y) \in {0, 1} /\ Len(c) = n + Len(y)  BY <1>9, <1>11
    <3>2. n \in Nat  BY <1>5
    <3>3. PICK p, q : p = Len(y) /\ q = Len(c)  OBVIOUS
    <3>4. p \in {0, 1} /\ q = n + p /\ k \in 1 .. q /\ k > n  BY <1>13, <3>1, <3>3
    <3>5. p = 1 /\ k = n + 1  BY ONLY <3>2, <3>4
    <3> QED  BY ONLY <3>3, <3>5
  <2> QED  BY <1>9, <1>11, <2>1
<1> QED  BY <1>3, <1>4, <1>5, <1>7, <1>11, <1>12, <1>13

(* A message more in OpenAI's format.                                      *)
LEMMA ConvertAppend ==
    ASSUME NEW v \in Seq(Msg), NEW m \in Msg
    PROVE  /\ convert_extra_messages(v) \in Seq(WireOf) /\ Converted(m) \in Seq(WireOf)
           /\ convert_extra_messages(Append(v, m)) = convert_extra_messages(v) \o Converted(m)
<1>0. PICK V : V = Seq(WireOf)  OBVIOUS
<1>1. PICK g : g = [c \in Msg |-> Converted(c)]  OBVIOUS
<1>2. \A c \in Msg : Converted(c) \in V
  <2> SUFFICES ASSUME NEW c \in Msg  PROVE Converted(c) \in V  OBVIOUS
  <2>1. CASE c.role # "assistant"  BY <1>0, <2>1, ConvertedUser
  <2>2. CASE c.role = "assistant"
    <3>1. c.blocks \in Seq(Part)  BY DEF Msg
    <3>2. \A t : Bodies(c, t) \in Seq(Vocabulary)  BY <3>1, BodiesTyped DEF Bodies
    <3>3. PICK a : a = Wire(c)  OBVIOUS
    <3>4. a \in WireOf  BY <3>2, <3>3 DEF Wire, WireMessage, WireOf, Uses
    <3>5. Converted(c) = <<a>>  BY <2>2, <3>3 DEF Converted, ConvertAssistant, Wire
    <3> QED  BY <1>0, <3>4, <3>5
  <2> QED  BY <2>1, <2>2
<1>3. IsMap(g, Msg, V)  BY <1>1, <1>2 DEF IsMap
<1>4. Append(v, m) \in Seq(Msg)  OBVIOUS
<1>5. \A y \in Seq(Msg) : convert_extra_messages(y) = FlattenSeq(Map(g, y))
  <2> SUFFICES ASSUME NEW y \in Seq(Msg)  PROVE convert_extra_messages(y) = FlattenSeq(Map(g, y))  OBVIOUS
  <2>1. \A i \in 1 .. Len(y) : y[i] \in Msg  OBVIOUS
  <2>2. \A i \in 1 .. Len(y) :
           g[y[i]] = IF y[i].role = "assistant" THEN ConvertAssistant(y[i]) ELSE ConvertUser(y[i])
    BY <1>1, <2>1 DEF Converted
  <2>3. Map(g, y) = [i \in 1 .. Len(y) |->
                        IF y[i].role = "assistant" THEN ConvertAssistant(y[i]) ELSE ConvertUser(y[i])]
    BY <2>2 DEF Map
  <2> QED  BY <2>3 DEF convert_extra_messages
<1>6. Map(g, v) \in Seq(V) /\ Map(g, Append(v, m)) = Append(Map(g, v), g[m])
  BY ONLY <1>3, v \in Seq(Msg), m \in Msg, MapAppend
<1>7. PICK p, a : p = Map(g, v) /\ a = g[m]  OBVIOUS
<1>8. p \in Seq(Seq(WireOf)) /\ a \in Seq(WireOf) /\ a = Converted(m)  BY <1>0, <1>1, <1>2, <1>6, <1>7
<1>9. FlattenSeq(p) \in Seq(WireOf) /\ FlattenSeq(Append(p, a)) = FlattenSeq(p) \o a  BY ONLY <1>8, FlattenAppend
<1> QED  BY <1>4, <1>5, <1>6, <1>7, <1>8, <1>9

(* The request about a thread, in the format of an API.                    *)
Messages(api, msgs) == IF api = "anthropic" THEN build_request_body(msgs) ELSE convert_extra_messages(msgs)

(* The first message asks.                                                 *)
LEMMA FirstAsks ==
    ASSUME NEW api, NEW tl, NEW v \in Seq(Msg), Len(v) = 1, v[1].role = "user"
    PROVE  Carries(api, Messages(api, v), 0, tl)
<1>1. v[1] \in Msg  OBVIOUS
<1>2. CASE api = "anthropic"
  <2>1. PICK w : w = build_request_body(v)  OBVIOUS
  <2>2. w \in Seq(WireOf) /\ Len(w) = Len(v) /\ \A i \in 1 .. Len(v) : w[i].role = v[i].role
    BY <2>1, BodyIs
  <2>3. \A i \in 1 .. Len(w) : w[i].role # "assistant"  BY <2>2
  <2> QED  BY <1>2, <2>1, <2>2, <2>3, CarriesNone DEF Messages
<1>3. CASE api # "anthropic"
  <2>0. PICK m : m = v[1]  OBVIOUS
  <2>1. PICK w : w = convert_extra_messages(v)  OBVIOUS
  <2>2. v = Append(<<>>, m) /\ <<>> \in Seq(Msg) /\ m \in Msg /\ m.role # "assistant"  BY <1>1, <2>0
  <2>3. convert_extra_messages(<<>>) = <<>>
    <3>1. [i \in 1 .. Len(<<>>) |->
             IF <<>>[i].role = "assistant" THEN ConvertAssistant(<<>>[i]) ELSE ConvertUser(<<>>[i])] = <<>>
      OBVIOUS
    <3> QED  BY <3>1, FlattenEmpty DEF convert_extra_messages
  <2>4. PICK c : c = Converted(m)  OBVIOUS
  <2>5. w = <<>> \o c /\ c \in Seq(WireOf)
    <3>1. PICK e : e = <<>> /\ e \in Seq(Msg)  BY <2>2
    <3>2. convert_extra_messages(Append(e, m)) = convert_extra_messages(e) \o Converted(m) /\ Converted(m) \in Seq(WireOf)
      BY ONLY <2>2, <3>1, ConvertAppend
    <3> QED  BY ONLY <2>1, <2>2, <2>3, <2>4, <3>1, <3>2
  <2>6. w = c  BY <2>5
  <2>7. /\ Len(Results(m)) \in Nat
        /\ \A k \in 1 .. Len(Results(m)) : c[k].role = "tool"
        /\ \A k \in 1 .. Len(c) : k > Len(Results(m)) => c[k].role = "user"
    BY <2>2, <2>4, ConvertedUser
  <2>8. \A i \in 1 .. Len(w) : w[i].role # "assistant"
    <3> SUFFICES ASSUME NEW i \in 1 .. Len(w)  PROVE w[i].role # "assistant"  OBVIOUS
    <3>1. i \in 1 .. Len(Results(m)) \/ i > Len(Results(m))  BY <2>5, <2>6, <2>7
    <3> QED  BY <2>6, <2>7, <3>1
  <2>9. Carries(api, w, 0, tl)  BY <2>5, <2>6, <2>8, CarriesNone
  <2> QED  BY <1>3, <2>1, <2>9 DEF Messages
<1> QED  BY <1>2, <1>3

(* Two messages more: the model's and the user's.                          *)
LEMMA TwoMore ==
    ASSUME NEW api, NEW tl, NEW n \in Nat, NEW v \in Seq(Msg), Carries(api, Messages(api, v), n, tl),
           NEW a, FromModel(a, tl[n + 1]), NEW u, FromUser(u), Results(u) = Uses(a)
    PROVE  Carries(api, Messages(api, Append(Append(v, a), u)), n + 1, tl)
<1>0. a \in Msg /\ u \in Msg /\ a.role = "assistant" /\ u.role = "user"  BY DEF FromModel, FromUser
<1>1. PICK x : x = Append(v, a)  OBVIOUS
<1>2. x \in Seq(Msg) /\ Len(x) = Len(v) + 1 /\ x[Len(v) + 1] = a /\ \A i \in 1 .. Len(v) : x[i] = v[i]
  BY ONLY <1>0, <1>1, v \in Seq(Msg), OneMore
<1>3. PICK y : y = Append(x, u)  OBVIOUS
<1>4. y \in Seq(Msg) /\ Len(y) = Len(x) + 1 /\ y[Len(x) + 1] = u /\ \A i \in 1 .. Len(x) : y[i] = x[i]
  BY ONLY <1>0, <1>2, <1>3, OneMore
<1>5. PICK w, z : w = Messages(api, v) /\ z = Messages(api, y)  OBVIOUS
<1>6. PICK L : L = Len(w)  OBVIOUS
<1>7. SaysAgain(Wire(a), tl[n + 1])  BY DEF FromModel
<1>8. Carries(api, w, n, tl)  BY <1>5
<1>9. w \in Seq(WireOf) /\ L \in Nat  BY <1>6, <1>8 DEF Carries
<1>10. PICK ids : ids = Uses(a)  OBVIOUS
<1>11. Wire(a).role = "assistant" /\ Wire(a).ids = ids  BY <1>10 DEF Wire, WireMessage
<1>12. CASE api = "anthropic"
  <2>1. /\ w \in Seq(WireOf) /\ Len(w) = Len(v)
        /\ \A i \in 1 .. Len(v) : w[i] = Sent(v[i])
    BY <1>5, <1>12, BodyIs DEF Messages
  <2>2. /\ z \in Seq(WireOf) /\ Len(z) = Len(y)
        /\ \A i \in 1 .. Len(y) : /\ z[i] = Sent(y[i]) /\ z[i].role = y[i].role
                                  /\ y[i].role = "assistant" => z[i] = Wire(y[i])
                                  /\ y[i].role # "assistant" => z[i].ids = Results(y[i])
    BY <1>4, <1>5, <1>12, BodyIs DEF Messages
  <2>3. Len(v) = L /\ Len(z) = L + 2 /\ Len(x) = L + 1 /\ Len(y) = L + 2  BY <1>2, <1>4, <1>6, <1>9, <2>1, <2>2
  <2>4. \A i \in 1 .. L : z[i] = w[i]
    <3> SUFFICES ASSUME NEW i \in 1 .. L  PROVE z[i] = w[i]  OBVIOUS
    <3>1. i \in 1 .. Len(v) /\ i \in 1 .. Len(x) /\ i \in 1 .. Len(y)  BY <1>9, <2>3
    <3> QED  BY <1>2, <1>4, <2>1, <2>2, <3>1
  <2>5. y[L + 1] = a /\ y[L + 2] = u
    <3>1. L + 1 \in 1 .. Len(x) /\ Len(v) + 1 = L + 1 /\ Len(x) + 1 = L + 2  BY <1>9, <2>3
    <3> QED  BY <1>2, <1>4, <3>1
  <2>6. L + 1 \in 1 .. Len(y) /\ L + 2 \in 1 .. Len(y) /\ L + 1 + 1 = L + 2  BY <1>9, <2>3
  <2>7. z[L + 1] = Wire(a)  BY <1>0, <2>2, <2>5, <2>6
  <2>8. z[L + 2].role = "user" /\ z[L + 2].ids = ids  BY <1>0, <1>10, <2>2, <2>5, <2>6
  <2>9. Answered(api, z, L + 1)
    <3>1. L + 1 < Len(z)  BY <1>9, <2>3
    <3> QED  BY <1>11, <1>12, <2>6, <2>7, <2>8, <3>1 DEF Answered
  <2>10. \A i \in L + 2 .. Len(z) : z[i].role # "assistant"
    <3>1. \A i \in L + 2 .. Len(z) : i = L + 2  BY <1>9, <2>3
    <3> QED  BY <2>8, <3>1
  <2>11. Len(z) > L  BY <1>9, <2>3
  <2>12. Carries(api, z, n + 1, tl)
    <3>1. z[L + 1].role = "assistant" /\ SaysAgain(z[L + 1], tl[n + 1])  BY <1>7, <1>11, <2>7
    <3>2. z \in Seq(WireOf)  BY <2>2
    <3> QED  BY ONLY n \in Nat, <1>6, <1>8, <2>4, <2>9, <2>10, <2>11, <3>1, <3>2, CarriesMore
  <2> QED  BY ONLY <1>1, <1>3, <1>5, <2>12
<1>13. CASE api # "anthropic"
  <2>1. PICK c : c = Converted(u)  OBVIOUS
  <2>2. PICK b : b = <<Wire(a)>>  OBVIOUS
  <2>3. Converted(a) = b  BY <1>0, <2>2 DEF Converted, ConvertAssistant, Wire
  <2>4. PICK s : s = convert_extra_messages(x)  OBVIOUS
  <2>5. s = w \o b /\ b \in Seq(WireOf)
    <3>1. /\ convert_extra_messages(Append(v, a)) = convert_extra_messages(v) \o Converted(a)
          /\ Converted(a) \in Seq(WireOf)
      BY ONLY <1>0, v \in Seq(Msg), ConvertAppend
    <3> QED  BY <1>1, <1>5, <1>13, <2>3, <2>4, <3>1 DEF Messages
  <2>6. z = s \o c /\ c \in Seq(WireOf)
    <3>1. /\ convert_extra_messages(Append(x, u)) = convert_extra_messages(x) \o Converted(u)
          /\ Converted(u) \in Seq(WireOf)
      BY ONLY <1>0, <1>2, ConvertAppend
    <3> QED  BY <1>3, <1>5, <1>13, <2>1, <2>4, <3>1 DEF Messages
  <2>7. PICK m : m = Len(ids)  OBVIOUS
  <2>8. /\ m \in Nat /\ Len(c) \in {m, m + 1}
        /\ \A k \in 1 .. m : c[k].role = "tool" /\ c[k].ids = <<ids[k]>>
        /\ \A k \in 1 .. Len(c) : k > m => c[k].role = "user"
    <3>1. Results(u) = ids /\ u.role # "assistant"  BY <1>0, <1>10
    <3>2. /\ Len(Results(u)) \in Nat
          /\ Len(c) \in {Len(Results(u)), Len(Results(u)) + 1}
          /\ \A k \in 1 .. Len(Results(u)) : c[k].role = "tool" /\ c[k].ids = <<Results(u)[k]>>
          /\ \A k \in 1 .. Len(c) : k > Len(Results(u)) => c[k].role = "user"
      BY ONLY <1>0, <2>1, <3>1, ConvertedUser
    <3> QED  BY ONLY <2>7, <3>1, <3>2
  <2>9. s \in Seq(WireOf) /\ Len(s) = L + 1 /\ s[L + 1] = Wire(a) /\ \A i \in 1 .. L : s[i] = w[i]
    <3>1. Wire(a) \in WireOf
      <4>1. Len(b) = 1 /\ b[1] = Wire(a)  BY <2>2
      <4>2. 1 \in 1 .. Len(b)  BY <4>1
      <4>3. b \in Seq(WireOf)  BY <2>5
      <4>4. b[1] \in WireOf  BY ONLY <4>2, <4>3, ElementOfSeq
      <4> QED  BY ONLY <4>1, <4>4
    <3>2. PICK e : e = Wire(a)  OBVIOUS
    <3>3. s = Append(w, e)  BY <1>9, <2>2, <2>5, <3>1, <3>2
    <3>4. s \in Seq(WireOf) /\ Len(s) = Len(w) + 1 /\ s[Len(w) + 1] = e /\ \A i \in 1 .. Len(w) : s[i] = w[i]
      BY ONLY <1>9, <3>1, <3>2, <3>3, OneMore
    <3> QED  BY ONLY <1>6, <3>2, <3>4
  <2>10. /\ z \in Seq(WireOf) /\ Len(z) = L + 1 + Len(c) /\ Len(c) \in Nat
         /\ \A i \in 1 .. L + 1 : z[i] = s[i]
         /\ \A k \in 1 .. Len(c) : z[L + 1 + k] = c[k]
    <3>1. /\ z \in Seq(WireOf) /\ Len(z) = Len(s) + Len(c)
          /\ \A i \in 1 .. Len(s) + Len(c) : z[i] = IF i <= Len(s) THEN s[i] ELSE c[i - Len(s)]
      BY ONLY <2>6, <2>9, ConcatProperties
    <3>2. Len(c) \in Nat  BY ONLY <2>8
    <3>3. Len(s) = L + 1 /\ L \in Nat  BY ONLY <1>9, <2>9
    <3>4. ASSUME NEW i \in 1 .. L + 1  PROVE z[i] = s[i]
      <4>1. i \in 1 .. Len(s) + Len(c) /\ i <= Len(s)  BY ONLY <3>2, <3>3, <3>4
      <4> QED  BY ONLY <3>1, <4>1
    <3>5. ASSUME NEW k \in 1 .. Len(c)  PROVE z[L + 1 + k] = c[k]
      <4>1. PICK i : i = L + 1 + k  OBVIOUS
      <4>2. i \in 1 .. Len(s) + Len(c) /\ ~(i <= Len(s)) /\ i - Len(s) = k  BY ONLY <3>2, <3>3, <3>5, <4>1
      <4>3. z[i] = IF i <= Len(s) THEN s[i] ELSE c[i - Len(s)]  BY ONLY <3>1, <4>2
      <4> QED  BY ONLY <4>1, <4>2, <4>3
    <3> QED  BY ONLY <3>1, <3>2, <3>3, <3>4, <3>5
  <2>11. z[L + 1] = Wire(a) /\ \A i \in 1 .. L : z[i] = w[i]
    <3>1. L + 1 \in 1 .. L + 1 /\ \A i \in 1 .. L : i \in 1 .. L + 1  BY ONLY <1>9
    <3> QED  BY ONLY <2>9, <2>10, <3>1
  <2>12. Answered(api, z, L + 1)
    <3>1. ASSUME NEW k \in 1 .. m
          PROVE  L + 1 + k <= Len(z) /\ z[L + 1 + k].role = "tool" /\ z[L + 1 + k].ids = <<ids[k]>>
      <4>1. k \in 1 .. Len(c) /\ L + 1 + k <= Len(z)  BY ONLY <1>9, <2>8, <2>10, <3>1
      <4> QED  BY ONLY <2>8, <2>10, <3>1, <4>1
    <3>2. ASSUME L + 1 + m < Len(z)  PROVE z[L + 1 + m + 1].role # "tool"
      <4>1. m + 1 \in 1 .. Len(c) /\ m + 1 > m /\ L + 1 + (m + 1) = L + 1 + m + 1
        BY ONLY <1>9, <2>8, <2>10, <3>2
      <4>2. z[L + 1 + (m + 1)].role = "user"  BY ONLY <2>8, <2>10, <4>1
      <4> QED  BY <4>1, <4>2
    <3>3. z[L + 1].ids = ids  BY <1>11, <2>11
    <3> QED  BY <1>13, <2>7, <3>1, <3>2, <3>3 DEF Answered
  <2>13. ASSUME NEW i \in L + 2 .. Len(z)  PROVE z[i].role # "assistant"
    <3>1. PICK k : k = i - (L + 1)  OBVIOUS
    <3>0. L \in Nat /\ m \in Nat /\ Len(c) \in Nat /\ Len(z) = L + 1 + Len(c)  BY ONLY <1>9, <2>8, <2>10
    <3>2. k \in 1 .. Len(c) /\ L + 1 + k = i /\ (k \in 1 .. m \/ k > m)  BY ONLY <2>13, <3>0, <3>1
    <3>3. z[i] = c[k]  BY ONLY <2>10, <3>2
    <3> QED  BY <2>8, <3>2, <3>3
  <2>14. Carries(api, z, n + 1, tl)
    <3>1. z[L + 1].role = "assistant" /\ SaysAgain(z[L + 1], tl[n + 1])  BY <1>7, <1>11, <2>11
    <3>2. z \in Seq(WireOf) /\ Len(z) > L  BY ONLY <1>9, <2>10
    <3>3. \A i \in L + 2 .. Len(z) : z[i].role # "assistant"  BY <2>13
    <3> QED  BY ONLY n \in Nat, <1>6, <1>8, <2>11, <2>12, <3>1, <3>2, <3>3, CarriesMore
  <2> QED  BY ONLY <1>1, <1>3, <1>5, <2>14
<1> QED  BY <1>12, <1>13

(* A thread whose last message asks, as a request.                         *)
LEMMA RequestCarries ==
    ASSUME NEW api, NEW msgs, NEW tl, Asking(msgs, tl)
    PROVE  Carries(api, Messages(api, msgs), Len(tl), tl)
<1>0. PICK n : n = Len(tl)  OBVIOUS
<1>1. msgs \in Seq(Msg) /\ n \in Nat /\ Len(msgs) = 2 * n + 1  BY <1>0 DEF Asking, Thread
<1> DEFINE OK(k) == Carries(api, Messages(api, SubSeq(msgs, 1, 2 * k + 1)), k, tl)
<1>2. PICK T : T = {k \in 0 .. n : OK(k)}  OBVIOUS
<1>3. 0 \in T
  <2>1. 1 \in 0 .. Len(msgs) /\ 0 \in 0 .. n /\ 2 * 0 + 1 = 1 /\ 2 * 0 + 1 <= Len(msgs)  BY <1>1
  <2>2. PICK p : p = SubSeq(msgs, 1, 1)  OBVIOUS
  <2>3. p \in Seq(Msg) /\ Len(p) = 1 /\ p[1] = msgs[1]  BY ONLY <1>1, <2>1, <2>2, PrefixIs
  <2>4. FromUser(msgs[1])  BY <1>0, <2>1 DEF Asking, Thread
  <2>5. Carries(api, Messages(api, p), 0, tl)
    <3>1. p[1].role = "user"  BY <2>3, <2>4 DEF FromUser
    <3> QED  BY ONLY <2>3, <3>1, FirstAsks
  <2>6. OK(0)  BY ONLY <2>1, <2>2, <2>5
  <2> QED  BY <1>2, <2>1, <2>6
<1>4. ASSUME NEW k \in 0 .. n - 1, k \in T  PROVE k + 1 \in T
  <2>1. /\ 2 * k + 1 \in 0 .. Len(msgs) - 1 /\ 2 * k + 2 \in 0 .. Len(msgs) - 1 /\ k \in Nat
        /\ 2 * k + 1 + 1 = 2 * k + 2 /\ 2 * k + 2 + 1 = 2 * (k + 1) + 1 /\ 2 * (k + 1) = 2 * k + 2
        /\ k + 1 \in 0 .. n /\ k + 1 \in 1 .. n /\ k + 1 > 0 /\ 2 * (k + 1) + 1 <= Len(msgs)
    BY <1>1
  <2>2. PICK p : p = SubSeq(msgs, 1, 2 * k + 1)  OBVIOUS
  <2>3. PICK a, u : a = msgs[2 * k + 2] /\ u = msgs[2 * (k + 1) + 1]  OBVIOUS
  <2>4. PICK i, j : i = 2 * k + 1 /\ j = 2 * k + 2  OBVIOUS
  <2>5. SubSeq(msgs, 1, i + 1) = Append(SubSeq(msgs, 1, i), msgs[i + 1]) /\ SubSeq(msgs, 1, i) \in Seq(Msg)
    BY ONLY <1>1, <2>1, <2>4, PrefixStep
  <2>6. SubSeq(msgs, 1, j + 1) = Append(SubSeq(msgs, 1, j), msgs[j + 1])
    BY ONLY <1>1, <2>1, <2>4, PrefixStep
  <2>7. SubSeq(msgs, 1, 2 * (k + 1) + 1) = Append(Append(p, a), u) /\ p \in Seq(Msg)
    BY ONLY <2>1, <2>2, <2>3, <2>4, <2>5, <2>6
  <2>8. Carries(api, Messages(api, p), k, tl)  BY <1>2, <1>4, <2>2
  <2>9. FromModel(msgs[2 * (k + 1)], tl[k + 1])  BY <1>0, <2>1 DEF Asking, Thread
  <2>10. FromUser(msgs[2 * (k + 1) + 1]) /\ Results(msgs[2 * (k + 1) + 1]) = Uses(msgs[2 * (k + 1)])
    BY <1>0, <2>1 DEF Asking, Thread
  <2>11. FromModel(a, tl[k + 1]) /\ FromUser(u) /\ Results(u) = Uses(a)  BY ONLY <2>1, <2>3, <2>9, <2>10
  <2>12. Carries(api, Messages(api, Append(Append(p, a), u)), k + 1, tl)
    BY ONLY <2>1, <2>7, <2>8, <2>11, TwoMore
  <2>13. OK(k + 1)  BY ONLY <2>7, <2>12
  <2> QED  BY ONLY <1>2, <2>1, <2>13
<1>5. \A k \in 0 .. n : k \in T
  <2>1. \A k \in 0 .. n - 1 : k \in T => k + 1 \in T  BY <1>4
  <2> QED  BY ONLY <1>1, <1>3, <2>1, SetInduction
<1>6. OK(n)
  <2>1. n \in T  BY ONLY <1>1, <1>5
  <2> QED  BY ONLY <1>2, <2>1
<1>7. SubSeq(msgs, 1, 2 * n + 1) = msgs
  <2>1. SubSeq(msgs, 1, Len(msgs)) = msgs  BY ONLY <1>1, SubSeqFull
  <2> QED  BY ONLY <1>1, <2>1
<1> QED  BY ONLY <1>0, <1>6, <1>7

(* What holds between the steps of a thread's turns: the thread alternates *)
(* and says what the models said, it asks while a request is under way,    *)
(* and so did the last request.                                            *)
ThreadHeld(msgs, tl) == Thread(msgs, tl) /\ (~Idle => Asking(msgs, tl))
LlmInv == ThreadHeld(extra_messages, told) /\ RequestsFaithful

(* The last request stays right when more is said.                         *)
LEMMA RequestStays ==
    ASSUME RequestsFaithful, UNCHANGED request, NEW said \in SaidOf, told \in Seq(SaidOf),
           told' \in {told, Append(told, said)}
    PROVE  RequestsFaithful'
<1>1. \A k \in DOMAIN told : k \in DOMAIN told' /\ told'[k] = told[k]
  <2>1. CASE told' = told  BY <2>1
  <2>2. CASE told' = Append(told, said)
    <3>1. PICK z : z = Append(told, said)  OBVIOUS
    <3>2. /\ z \in Seq(SaidOf) /\ Len(z) = Len(told) + 1
          /\ \A i \in 1 .. Len(told) : z[i] = told[i]
      BY <3>1, OneMore
    <3>3. DOMAIN z = 1 .. Len(told) + 1 /\ DOMAIN told = 1 .. Len(told) /\ Len(told) \in Nat  BY <3>2
    <3>4. \A k \in DOMAIN told : k \in DOMAIN z /\ z[k] = told[k]  BY <3>2, <3>3
    <3> QED  BY <2>2, <3>1, <3>4
  <2> QED  BY <2>1, <2>2
<1>2. RepliesKept'
  <2> SUFFICES ASSUME NEW i \in DOMAIN request.messages, request.messages[i].role = "assistant",
                      NEW k, k = Assistants(request.messages, i)
               PROVE  k \in DOMAIN told' /\ SaysAgain(request.messages[i], told'[k])
    BY DEF RepliesKept
  <2>1. k \in DOMAIN told /\ SaysAgain(request.messages[i], told[k])  BY DEF RequestsFaithful, RepliesKept
  <2> QED  BY <1>1, <2>1
<1>3. WireAnswersCalls'  BY DEF WireAnswersCalls, RequestsFaithful
<1> QED  BY <1>2, <1>3 DEF RequestsFaithful

(* A request about a thread that asks is right.                            *)
LEMMA RequestIsFaithful ==
    ASSUME NEW b, NEW msgs, NEW tl, Asking(msgs, tl), request' = Request(b, msgs), told' = tl
    PROVE  RequestsFaithful'
<1>1. PICK api, w : api = request'.api /\ w = request'.messages  OBVIOUS
<1>2. w = Messages(api, msgs)  BY <1>1 DEF Request, Messages
<1>3. Carries(api, w, Len(tl), tl)  BY <1>2, RequestCarries
<1>4. w \in Seq(WireOf) /\ DOMAIN w = 1 .. Len(w)
  <2>1. w \in Seq(WireOf)  BY <1>3 DEF Carries
  <2> QED  BY ONLY <2>1, LenProperties
<1>5. DOMAIN tl = 1 .. Len(tl)
  <2>1. tl \in Seq(SaidOf)  BY DEF Asking, Thread
  <2> QED  BY ONLY <2>1, LenProperties
<1>6. \A i \in DOMAIN w : w[i].role = "assistant" =>
         /\ Assistants(w, i) \in DOMAIN tl /\ SaysAgain(w[i], tl[Assistants(w, i)])
         /\ Answered(api, w, i)
  BY <1>3, <1>4, <1>5 DEF Carries
<1>7. RepliesKept'  BY <1>1, <1>6 DEF RepliesKept
<1>8. WireAnswersCalls'  BY <1>1, <1>6 DEF WireAnswersCalls
<1> QED  BY <1>7, <1>8 DEF RequestsFaithful

(* A turn ends with a message that says again what was said.               *)
LEMMA TurnEnds ==
    ASSUME LlmInv, ~Idle, NEW msg \in Seq(Part), NEW said \in SaidOf,
           SaysAgain(Wire(AssistantMessage(msg)), said), EndTurn(msg, said)
    PROVE  LlmInv'
<1>1. Asking(extra_messages, told) /\ told \in Seq(SaidOf)  BY DEF LlmInv, ThreadHeld, Thread
<1>2. PICK a : a = AssistantMessage(msg)  OBVIOUS
<1>3. FromModel(a, said)  BY <1>2 DEF FromModel, AssistantMessage, Msg
<1>4. Thread(Append(extra_messages, a), Append(told, said))  BY ONLY <1>1, <1>3, said \in SaidOf, ModelReplies
<1>5. Thread(extra_messages', told') /\ Idle'  BY <1>2, <1>4 DEF EndTurn, Idle, NoCall
<1>6. RequestsFaithful'  BY <1>1, RequestStays DEF EndTurn, LlmInv
<1> QED  BY <1>5, <1>6 DEF LlmInv, ThreadHeld

(* An event ends the turn.                                                 *)
LEMMA EventKeeps == ASSUME LlmInv, ~Idle, Event PROVE LlmInv'
<1>1. PICK msg : msg = <<Block("text", <<"event">>)>>  OBVIOUS
<1>2. msg \in Seq(Part) /\ SaysAgain(Wire(AssistantMessage(msg)), Silence) /\ Silence \in SaidOf
  BY <1>1, EventSilent
<1>3. EndTurn(msg, Silence)  BY <1>1 DEF Event
<1> QED  BY ONLY LlmInv, ~Idle, <1>2, <1>3, TurnEnds

(* An attempt more.                                                        *)
LEMMA AttemptKeeps ==
    ASSUME LlmInv, ~Idle, UNCHANGED <<extra_messages, request, told>>
    PROVE  LlmInv'
<1>1. Thread(extra_messages, told) /\ Asking(extra_messages, told)  BY DEF LlmInv, ThreadHeld
<1>2. RequestsFaithful'
  BY DEF LlmInv, RequestsFaithful, RepliesKept, WireAnswersCalls
<1> QED  BY <1>1, <1>2 DEF LlmInv, ThreadHeld

(* The loop sends again or gives up.                                       *)
LEMMA ConnectionLostKeeps == ASSUME LlmInv, ~Idle, ConnectionLost PROVE LlmInv'
BY AttemptKeeps, EventKeeps DEF ConnectionLost

(* The request of a turn.                                                  *)
LEMMA SendKeeps ==
    ASSUME NEW b, NEW msgs, NEW tl, Asking(msgs, tl), Send(b, msgs), told' = tl
    PROVE  LlmInv'
<1>1. request' = Request(b, msgs) /\ extra_messages' = msgs  BY DEF Send
<1>2. RequestsFaithful'  BY <1>1, RequestIsFaithful
<1> QED  BY <1>1, <1>2 DEF LlmInv, ThreadHeld, Asking

(* Tool calls and their results.                                           *)
LEMMA ToolRoundKeeps ==
    ASSUME LlmInv, ~Idle, NEW b, NEW reply \in Says, NEW stopped \in BOOLEAN,
           NEW blocks, blocks = ContentBlocks(b, reply), ToolRound(blocks, reply, stopped)
    PROVE  LlmInv'
<1>1. /\ blocks \in Seq(Part)
      /\ SaysAgain(Wire(AssistantMessage(blocks)), Said(reply))
      /\ Uses(AssistantMessage(blocks)) = reply.calls
      /\ reply.calls \in Seq(Vocabulary) /\ Said(reply) \in SaidOf
  BY SaidInBlocks
<1>2. Asking(extra_messages, told) /\ told \in Seq(SaidOf)  BY DEF LlmInv, ThreadHeld, Thread
<1>3. PICK a, u : a = AssistantMessage(blocks) /\ u = Answer(reply.calls)  OBVIOUS
<1>4. PICK said : said = Said(reply)  OBVIOUS
<1>5. FromModel(a, said) /\ said \in SaidOf  BY <1>1, <1>3, <1>4 DEF FromModel, AssistantMessage, Msg
<1>6. FromUser(u) /\ Results(u) = Uses(a)  BY <1>1, <1>3, AnswerIs
<1>7. PICK x, v : x = Append(extra_messages, a) /\ v = Append(told, said)  OBVIOUS
<1>8. Thread(x, v) /\ Len(x) = 2 * Len(v) /\ Last(x) = a  BY ONLY <1>2, <1>5, <1>7, ModelReplies
<1>9. Results(u) = Uses(Last(x))  BY ONLY <1>6, <1>8
<1>10. Asking(Append(x, u), v)  BY ONLY <1>6, <1>8, <1>9, UserAnswers
<1>11. extra_messages \o <<a, u>> = Append(x, u)
  <2>1. extra_messages \in Seq(Msg) /\ a \in Msg /\ u \in Msg  BY <1>2, <1>5, <1>6 DEF Asking, Thread, FromModel, FromUser
  <2> QED  BY ONLY <1>7, <2>1
<1>12. PICK msgs : msgs = extra_messages \o <<a, u>>  OBVIOUS
<1>13. Asking(msgs, v) /\ told' = v  BY <1>3, <1>4, <1>7, <1>10, <1>11, <1>12 DEF ToolRound
<1>14. CASE stopped
  <2>1. extra_messages' = msgs /\ call' = NoCall /\ UNCHANGED request  BY <1>3, <1>12, <1>14 DEF ToolRound
  <2>2. RequestsFaithful'  BY <1>2, <1>5, <1>7, <1>13, <2>1, RequestStays DEF LlmInv
  <2> QED  BY <1>13, <2>1, <2>2 DEF LlmInv, ThreadHeld, Asking
<1>15. CASE ~stopped
  <2>1. Send(call.backend, msgs)  BY <1>3, <1>12, <1>15 DEF ToolRound
  <2> QED  BY <1>13, <2>1, SendKeeps
<1> QED  BY <1>14, <1>15

(* Every later request brings back what the models have said, in the       *)
(* format of its API, and answers every tool call it holds right after it, *)
(* whatever went wrong before (server.rs handle_chat_message and           *)
(* run_agent_loop, anthropic.rs build_request_body, openai_compat.rs       *)
(* convert_extra_messages).                                                *)
THEOREM RequestsAreFaithful == LlmSpec => []RequestsFaithful
<1>1. LlmInit => LlmInv
  <2> SUFFICES ASSUME LlmInit  PROVE LlmInv  OBVIOUS
  <2>1. Thread(extra_messages, told) /\ Idle  BY ThreadEmpty DEF LlmInit, Idle, NoCall
  <2>2. RequestsFaithful
    <3>1. DOMAIN request.messages = {}  BY DEF LlmInit
    <3> QED  BY <3>1 DEF RequestsFaithful, RepliesKept, WireAnswersCalls
  <2> QED  BY <2>1, <2>2 DEF LlmInv, ThreadHeld
<1>2. LlmInv /\ [LlmNext]_llmVars => LlmInv'
  <2> SUFFICES ASSUME LlmInv, [LlmNext]_llmVars  PROVE LlmInv'  OBVIOUS
  <2>0. Thread(extra_messages, told) /\ told \in Seq(SaidOf)  BY DEF LlmInv, ThreadHeld, Thread
  <2>1. CASE \E b \in Backends : SelectModel(b)
    <3>1. UNCHANGED <<extra_messages, call, request, told>>  BY <2>1 DEF SelectModel
    <3> QED
      BY <3>1 DEF LlmInv, ThreadHeld, Idle, RequestsFaithful, RepliesKept, WireAnswersCalls
  <2>2. CASE ChatMessage
    <3>1. PICK msgs : msgs = JoinQuery(Repair(extra_messages))  OBVIOUS
    <3>2. Asking(msgs, told)  BY <2>0, <3>1, QueryJoins
    <3>3. Send(effective_backend, msgs) /\ told' = told  BY <2>2, <3>1 DEF ChatMessage
    <3> QED  BY ONLY <3>2, <3>3, SendKeeps
  <2>3. CASE ChatUnavailable
    <3>1. PICK msgs : msgs = JoinQuery(Repair(extra_messages))  OBVIOUS
    <3>2. Asking(msgs, told)  BY <2>0, <3>1, QueryJoins
    <3>3. PICK a : a = AssistantMessage(<<Block("text", <<"event">>)>>)  OBVIOUS
    <3>4. FromModel(a, Silence) /\ Silence \in SaidOf
      <4>1. PICK msg : msg = <<Block("text", <<"event">>)>>  OBVIOUS
      <4>2. msg \in Seq(Part) /\ SaysAgain(Wire(AssistantMessage(msg)), Silence) /\ Silence \in SaidOf
        BY <4>1, EventSilent
      <4> QED  BY <3>3, <4>1, <4>2 DEF FromModel, AssistantMessage, Msg
    <3>5. Thread(Append(msgs, a), Append(told, Silence))  BY ONLY <3>2, <3>4, ModelReplies
    <3>6. /\ extra_messages' = Append(msgs, a) /\ told' = Append(told, Silence)
          /\ UNCHANGED <<call, request>> /\ Idle
      BY <2>3, <3>1, <3>3 DEF ChatUnavailable
    <3>7. RequestsFaithful'  BY <2>0, <3>4, <3>6, RequestStays DEF LlmInv
    <3> QED  BY <3>5, <3>6, <3>7 DEF LlmInv, ThreadHeld, Idle
  <2>4. CASE ConnectError
    <3>1. ~Idle /\ (Retry \/ ConnectionLost)  BY <2>4 DEF ConnectError
    <3>2. CASE Retry  BY <3>1, <3>2, AttemptKeeps DEF Retry
    <3> QED  BY <3>1, <3>2, ConnectionLostKeeps
  <2>5. CASE Overloaded
    <3>1. ~Idle /\ (Retry \/ Event)  BY <2>5 DEF Overloaded
    <3>2. CASE Retry  BY <3>1, <3>2, AttemptKeeps DEF Retry
    <3> QED  BY <3>1, <3>2, EventKeeps
  <2>6. CASE BodyLost  BY <2>6, ConnectionLostKeeps DEF BodyLost
  <2>7. CASE Rejected  BY <2>7, EventKeeps DEF Rejected
  <2>8. ASSUME NEW reply \in Says, Reply(reply)  PROVE LlmInv'
    <3>1. PICK blocks : blocks = ContentBlocks(call.backend, reply)  OBVIOUS
    <3>2. /\ ~Idle
          /\ \/ Event
             \/ \E stopped \in BOOLEAN : ToolRound(blocks, reply, stopped)
             \/ EndTurn(FinalBlocks(blocks), [Said(reply) EXCEPT !.calls = <<>>])
      BY <2>8, <3>1 DEF Reply
    <3>3. CASE Event  BY <3>2, <3>3, EventKeeps
    <3>4. CASE \E stopped \in BOOLEAN : ToolRound(blocks, reply, stopped)
      BY <3>1, <3>2, <3>4, ToolRoundKeeps
    <3>5. CASE EndTurn(FinalBlocks(blocks), [Said(reply) EXCEPT !.calls = <<>>])
      <4>1. PICK msg, said : msg = FinalBlocks(blocks) /\ said = [Said(reply) EXCEPT !.calls = <<>>]  OBVIOUS
      <4>2. msg \in Seq(Part) /\ SaysAgain(Wire(AssistantMessage(msg)), said) /\ said \in SaidOf
        BY <3>1, <4>1, SaidInFinal
      <4>3. EndTurn(msg, said)  BY <3>5, <4>1
      <4> QED  BY ONLY LlmInv, <3>2, <4>2, <4>3, TurnEnds
    <3> QED  BY <3>2, <3>3, <3>4, <3>5
  <2>9. CASE UNCHANGED llmVars
    BY <2>9 DEF llmVars, LlmInv, ThreadHeld, Idle, RequestsFaithful, RepliesKept, WireAnswersCalls
  <2> QED  BY <2>1, <2>2, <2>3, <2>4, <2>5, <2>6, <2>7, <2>8, <2>9 DEF LlmNext
<1>3. LlmInv => RequestsFaithful  BY DEF LlmInv
<1> QED  BY <1>1, <1>2, <1>3, PTL DEF LlmSpec
=============================================================================
