----------------------- MODULE Conversation_proofs -----------------------
(***************************************************************************)
(* What the repair functions of Conversation do to a thread of any length. *)
(*                                                                         *)
(* The functions are loops, so every result is an induction over the index *)
(* of the loop.  It is done in the form "a set of indices that holds 0 and *)
(* the successor of each of its members holds them all" (SetInduction),    *)
(* and starts from the equations of the loop (SanitizedSteps, MergedSteps),*)
(* which first need a function that satisfies them (SanitizedExists,       *)
(* MergedExists).                                                          *)
(***************************************************************************)
EXTENDS Conversation, WellFoundedInduction, SequenceTheorems, TLAPS

(* Every nonempty set of natural numbers has a least element.              *)
LEMMA Least == ASSUME NEW T \in SUBSET Nat, T # {} PROVE \E m \in T : \A k \in T : m <= k
<1>0. \E R : R = OpToRel(<, Nat) /\ IsWellFoundedOn(R, Nat)
  BY NatLessThanWellFounded, Zenon
<1>1. PICK R : R = OpToRel(<, Nat) /\ IsWellFoundedOn(R, Nat)  BY <1>0, Zenon
<1>2. IsWellFoundedOn(R, Nat)  BY <1>1, Zenon
<1>3. \A x, y \in Nat : x < y => <<x, y>> \in R
  <2>1. R = {ss \in Nat \X Nat : ss[1] < ss[2]}  BY <1>1, Zenon DEF OpToRel
  <2> QED  BY ONLY <2>1
<1>4. \E m \in T : \A y \in T : ~ (<<y, m>> \in R)  BY <1>2, WFMin
<1>5. PICK m \in T : \A y \in T : ~ (<<y, m>> \in R)  BY <1>4
<1>6. \A k \in T : m <= k
  <2> SUFFICES ASSUME NEW k \in T  PROVE m <= k  OBVIOUS
  <2>1. m \in Nat /\ k \in Nat  OBVIOUS
  <2>2. ~(k < m)
    <3>1. ~(<<k, m>> \in R)  BY <1>5
    <3> QED  BY <1>3, <2>1, <3>1
  <2> QED  BY ONLY <2>1, <2>2
<1> QED  BY <1>6

(* Induction up to N, on the set of the numbers that have the property.    *)
LEMMA SetInduction ==
    ASSUME NEW T, 0 \in T, NEW N \in Nat, \A n \in 0 .. N - 1 : n \in T => n + 1 \in T
    PROVE  \A n \in 0 .. N : n \in T
<1> SUFFICES ASSUME \E n \in 0 .. N : n \notin T PROVE FALSE OBVIOUS
<1>0. PICK U : U = {n \in 0 .. N : n \notin T}  OBVIOUS
<1>1. U # {} /\ U \in SUBSET Nat BY <1>0
<1>2. PICK m \in U : \A k \in U : m <= k BY <1>1, Least
<1>3. m # 0 /\ m \in Nat /\ m-1 \in 0 .. N - 1 /\ m \notin T BY <1>0
<1>4. m-1 \in T BY <1>2, <1>3, <1>0
<1> QED BY <1>3, <1>4

(* Some function satisfies the recursion of Sanitized: one that does up to *)
(* n is extended to n + 1.                                                 *)
LEMMA SanitizedExists ==
    ASSUME NEW msgs, NEW N \in Nat
    PROVE  \E f : f = [i \in 0 .. N |-> IF i = 0 THEN <<>> ELSE SanitizeStep(f[i-1], msgs[i])]
<1>0. PICK T : T = {n \in 0 .. N : \E f : f = [i \in 0 .. n |-> IF i = 0 THEN <<>> ELSE SanitizeStep(f[i-1], msgs[i])]}
  OBVIOUS
<1>1. 0 \in T
  <2>0. PICK f : f = [i \in 0 .. 0 |-> <<>>]  OBVIOUS
  <2>1. f = [i \in 0 .. 0 |-> IF i = 0 THEN <<>> ELSE SanitizeStep(f[i-1], msgs[i])]
    BY <2>0
  <2> QED  BY <1>0, <2>1
<1>2. ASSUME NEW n \in 0 .. N - 1, n \in T  PROVE n + 1 \in T
  <2>1. PICK f : f = [i \in 0 .. n |-> IF i = 0 THEN <<>> ELSE SanitizeStep(f[i-1], msgs[i])]
    BY <1>0, <1>2
  <2>2. PICK g : g = [i \in 0 .. n + 1 |-> IF i = n + 1 THEN SanitizeStep(f[n], msgs[n + 1]) ELSE f[i]]
    OBVIOUS
  <2>3. \A i \in 0 .. n + 1 : g[i] = IF i = 0 THEN <<>> ELSE SanitizeStep(g[i-1], msgs[i])
    <3> SUFFICES ASSUME NEW i \in 0 .. n + 1
                 PROVE g[i] = IF i = 0 THEN <<>> ELSE SanitizeStep(g[i-1], msgs[i])
      OBVIOUS
    <3>1. CASE i = n + 1
      <4>1. g[i - 1] = f[n]  BY <2>2, <3>1
      <4> QED  BY <2>2, <3>1, <4>1
    <3>2. CASE i = 0  BY <2>1, <2>2, <3>2
    <3>3. CASE i \in 1 .. n
      <4>1. g[i - 1] = f[i - 1] /\ g[i] = f[i]  BY <2>2, <3>3
      <4> QED  BY <2>1, <3>3, <4>1
    <3> QED  BY <3>1, <3>2, <3>3
  <2>4. g = [i \in 0 .. n + 1 |-> IF i = 0 THEN <<>> ELSE SanitizeStep(g[i-1], msgs[i])]
    BY <2>2, <2>3
  <2> QED  BY <1>0, <2>4
<1>3. \A n \in 0 .. N : n \in T
  <2>1. \A n \in 0 .. N - 1 : n \in T => n + 1 \in T  BY <1>2
  <2> QED  BY ONLY N \in Nat, <1>1, <2>1, SetInduction
<1>4. N \in T  BY ONLY N \in Nat, <1>3
<1> QED  BY <1>0, <1>4

(* Sanitized(msgs) is the prefix repaired so far in front of each index of *)
(* the while loop of sanitize_orphaned_tool_use.                           *)
LEMMA SanitizedSteps ==
    ASSUME NEW msgs, Len(msgs) \in Nat
    PROVE  Sanitized(msgs) = [i \in 0 .. Len(msgs) |-> IF i = 0 THEN <<>> ELSE SanitizeStep(Sanitized(msgs)[i-1], msgs[i])]
BY SanitizedExists DEF Sanitized

-----------------------------------------------------------------------------
(* The messages the daemon writes: only assistants use tools, only user    *)
(* messages carry results.                                                 *)
Proper(Ids, Txt) ==
    {m \in Message(Ids, Txt) : /\ m.role = "user" => m.uses = {}
                               /\ m.role = "assistant" => m.results = {}}

(* Every tool use that is not in the last message is answered by the next. *)
AnsweredWithin(msgs) == \A i \in 1 .. Len(msgs) - 1 : msgs[i].uses \subseteq msgs[i + 1].results

(* A message that answers the last one can be appended.                    *)
LEMMA AnsweredAppend ==
    ASSUME NEW Ids, NEW Txt, NEW out \in Seq(Proper(Ids, Txt)), AnsweredWithin(out),
           NEW m \in Proper(Ids, Txt), out # <<>> => Last(out).uses \subseteq m.results
    PROVE  /\ Append(out, m) \in Seq(Proper(Ids, Txt))
           /\ AnsweredWithin(Append(out, m))
           /\ Append(out, m) # <<>>
           /\ Last(Append(out, m)) = m
<1> DEFINE M == Proper(Ids, Txt)
<1> HIDE DEF M
<1>1. /\ out \in Seq(M) /\ m \in M  BY DEF M
<1>2. PICK k : k = Append(out, m)  OBVIOUS
<1>3. /\ k \in Seq(M) /\ Len(k) = Len(out) + 1 /\ k[Len(out) + 1] = m
      /\ \A i \in 1 .. Len(out) : k[i] = out[i]
  BY <1>1, <1>2
<1>4. Len(out) \in Nat /\ (Len(out) > 0 => out # <<>>)  BY <1>1
<1>5. AnsweredWithin(k)
  <2> SUFFICES ASSUME NEW i \in 1 .. Len(k) - 1
               PROVE k[i].uses \subseteq k[i + 1].results
    BY DEF AnsweredWithin
  <2>1. i \in 1 .. Len(out) /\ k[i] = out[i]  BY <1>3, <1>4
  <2>2. CASE i = Len(out)  BY <1>3, <1>4, <2>1, <2>2 DEF Last
  <2>3. CASE i < Len(out)
    <3>1. i \in 1 .. Len(out) - 1 /\ i + 1 \in 1 .. Len(out)  BY <1>4, <2>1, <2>3
    <3> QED  BY <1>3, <2>1, <3>1 DEF AnsweredWithin
  <2> QED  BY <1>4, <2>1, <2>2, <2>3
<1>6. k # <<>> /\ Last(k) = m  BY <1>3, <1>4 DEF Last
<1> QED  BY <1>2, <1>3, <1>5, <1>6 DEF M

(* The empty thread has nothing to answer.                                 *)
LEMMA EmptyAnswered ==
    ASSUME NEW S
    PROVE  <<>> \in Seq(S) /\ AnsweredWithin(<<>>)
<1>1. 1 .. Len(<<>>) - 1 = {}  OBVIOUS
<1> QED  BY <1>1 DEF AnsweredWithin

(* One turn of the loop of sanitize_orphaned_tool_use keeps the prefix     *)
(* answered, whichever of its three branches it takes.                     *)
LEMMA SanitizeStepAnswers ==
    ASSUME NEW Ids, NEW Txt, NEW out \in Seq(Proper(Ids, Txt)), AnsweredWithin(out),
           NEW m \in Proper(Ids, Txt)
    PROVE  /\ SanitizeStep(out, m) \in Seq(Proper(Ids, Txt))
           /\ AnsweredWithin(SanitizeStep(out, m))
<1>0. PICK missing : missing = MissingResults(out, m)  OBVIOUS
<1>1. out # <<>> => Last(out) \in Proper(Ids, Txt)
  BY DEF Last
<1>2. missing \subseteq Ids  BY <1>0, <1>1 DEF MissingResults, Proper, Message
<1>3. CASE missing = {}
  <2>1. SanitizeStep(out, m) = Append(out, m)  BY <1>0, <1>3 DEF SanitizeStep
  <2>2. out # <<>> => Last(out).uses \subseteq m.results
    BY <1>0, <1>3 DEF MissingResults
  <2> QED  BY <2>1, <2>2, AnsweredAppend
<1>4. CASE missing # {} /\ m.results # {}
  <2>0. PICK n : n = [m EXCEPT !.results = @ \cup missing]  OBVIOUS
  <2>1. SanitizeStep(out, m) = Append(out, n)  BY <1>0, <1>4, <2>0 DEF SanitizeStep
  <2>2. n \in Proper(Ids, Txt) /\ n.results = m.results \cup missing
    BY <1>2, <1>4, <2>0 DEF Proper, Message
  <2>3. out # <<>> => Last(out).uses \subseteq n.results
    BY <1>0, <2>2 DEF MissingResults
  <2> QED  BY <2>1, <2>2, <2>3, AnsweredAppend
<1>5. CASE missing # {} /\ m.results = {}
  <2>0. PICK n : n = UserResults(missing)  OBVIOUS
  <2>1. SanitizeStep(out, m) = out \o <<n, m>>  BY <1>0, <1>5, <2>0 DEF SanitizeStep
  <2>2. n \in Proper(Ids, Txt) /\ n.results = missing /\ n.uses = {}
    BY <1>2, <2>0 DEF Proper, Message, UserResults
  <2>3. out # <<>> => Last(out).uses \subseteq n.results
    BY <1>0, <1>5, <2>2 DEF MissingResults
  <2>4. PICK k : k = Append(out, n)  OBVIOUS
  <2>5. k \in Seq(Proper(Ids, Txt)) /\ AnsweredWithin(k) /\ k # <<>> /\ Last(k) = n
    BY <2>2, <2>3, <2>4, AnsweredAppend
  <2>6. /\ Append(k, m) \in Seq(Proper(Ids, Txt)) /\ AnsweredWithin(Append(k, m))
    BY <2>2, <2>5, AnsweredAppend
  <2>7. Append(k, m) = out \o <<n, m>>  BY <2>2, <2>4
  <2> QED  BY <2>1, <2>6, <2>7
<1> QED  BY <1>3, <1>4, <1>5

(* So the prefix is answered at every index.                               *)
LEMMA SanitizedAnswers ==
    ASSUME NEW Ids, NEW Txt, NEW msgs \in Seq(Proper(Ids, Txt))
    PROVE  \A i \in 0 .. Len(msgs) : /\ Sanitized(msgs)[i] \in Seq(Proper(Ids, Txt))
                                     /\ AnsweredWithin(Sanitized(msgs)[i])
<1>0. PICK S : S = Sanitized(msgs)  OBVIOUS
<1>1. Len(msgs) \in Nat  OBVIOUS
<1>2. S = [i \in 0 .. Len(msgs) |-> IF i = 0 THEN <<>> ELSE SanitizeStep(S[i-1], msgs[i])]
  BY <1>0, <1>1, SanitizedSteps
<1>3. PICK T : T = {i \in 0 .. Len(msgs) : S[i] \in Seq(Proper(Ids, Txt)) /\ AnsweredWithin(S[i])}
  OBVIOUS
<1>4. 0 \in T
  <2>1. S[0] = <<>>  BY <1>1, <1>2
  <2>2. S[0] \in Seq(Proper(Ids, Txt)) /\ AnsweredWithin(S[0])
    BY <2>1, EmptyAnswered
  <2>3. 0 \in 0 .. Len(msgs)  BY <1>1
  <2> QED  BY ONLY <1>3, <2>2, <2>3
<1>5. ASSUME NEW n \in 0 .. Len(msgs) - 1, n \in T  PROVE n + 1 \in T
  <2>1. n + 1 \in 1 .. Len(msgs) /\ n + 1 # 0 /\ n + 1 - 1 = n /\ n + 1 \in 0 .. Len(msgs)
    BY <1>1
  <2>2. S[n + 1] = SanitizeStep(S[n], msgs[n + 1])  BY <1>2, <2>1
  <2>3. msgs[n + 1] \in Proper(Ids, Txt)  BY <2>1
  <2>4. S[n] \in Seq(Proper(Ids, Txt)) /\ AnsweredWithin(S[n])  BY <1>3, <1>5
  <2>5. S[n + 1] \in Seq(Proper(Ids, Txt)) /\ AnsweredWithin(S[n + 1])
    BY <2>2, <2>3, <2>4, SanitizeStepAnswers
  <2> QED  BY <1>3, <2>1, <2>5
<1>6. \A n \in 0 .. Len(msgs) : n \in T
  <2>1. \A n \in 0 .. Len(msgs) - 1 : n \in T => n + 1 \in T  BY <1>5
  <2> QED  BY ONLY <1>1, <1>4, <2>1, SetInduction
<1> QED  BY <1>0, <1>3, <1>6

(* No tool use is orphaned exactly when all are answered and none is in    *)
(* the last message.                                                       *)
LEMMA AnsweredMeansNoOrphan ==
    ASSUME NEW Ids, NEW Txt, NEW k \in Seq(Proper(Ids, Txt))
    PROVE  NoOrphanedToolUse(k) <=> AnsweredWithin(k) /\ (k # <<>> => Last(k).uses = {})
<1>0. Len(k) \in Nat /\ DOMAIN k = 1 .. Len(k) /\ (k # <<>> => Len(k) # 0)  OBVIOUS
<1>1. ASSUME AnsweredWithin(k), k # <<>> => Last(k).uses = {}
      PROVE  NoOrphanedToolUse(k)
  <2> SUFFICES ASSUME NEW i \in DOMAIN k, k[i].uses # {}
               PROVE  i < Len(k) /\ k[i].uses \subseteq k[i + 1].results
    BY DEF NoOrphanedToolUse
  <2>1. i \in 1 .. Len(k) /\ Len(k) \in Nat  BY <1>0
  <2>2. i # Len(k)  BY <1>1, <2>1 DEF Last
  <2> QED  BY <1>1, <2>1, <2>2 DEF AnsweredWithin
<1>2. ASSUME NoOrphanedToolUse(k)
      PROVE AnsweredWithin(k) /\ (k # <<>> => Last(k).uses = {})
  <2>1. AnsweredWithin(k)
    <3> SUFFICES ASSUME NEW i \in 1 .. Len(k) - 1
                 PROVE k[i].uses \subseteq k[i + 1].results
      BY DEF AnsweredWithin
    <3>1. i \in DOMAIN k /\ (k[i].uses # {} => k[i].uses \subseteq k[i + 1].results)
      BY <1>0, <1>2 DEF NoOrphanedToolUse
    <3> QED  BY <3>1
  <2>2. k # <<>> => Last(k).uses = {}
    BY <1>0, <1>2 DEF NoOrphanedToolUse, Last
  <2> QED  BY <2>1, <2>2
<1> QED  BY <1>1, <1>2

(* sanitize_orphaned_tool_use leaves no tool use without a result,         *)
(* whatever thread it is given.                                            *)
LEMMA SanitizeAnswers ==
    ASSUME NEW Ids, NEW Txt, NEW msgs \in Seq(Proper(Ids, Txt))
    PROVE  /\ sanitize_orphaned_tool_use(msgs) \in Seq(Proper(Ids, Txt))
           /\ NoOrphanedToolUse(sanitize_orphaned_tool_use(msgs))
<1>0. PICK out : out = Sanitized(msgs)[Len(msgs)]  OBVIOUS
<1>1. out \in Seq(Proper(Ids, Txt)) /\ AnsweredWithin(out)
  <2>1. Len(msgs) \in 0 .. Len(msgs)  OBVIOUS
  <2> QED  BY <1>0, <2>1, SanitizedAnswers
<1>2. sanitize_orphaned_tool_use(msgs) = AnswerTail(out)
  BY <1>0 DEF sanitize_orphaned_tool_use
<1>4. CASE out # <<>> /\ Last(out).uses # {}
  <2>0. PICK n : n = UserResults(Last(out).uses)  OBVIOUS
  <2>1. AnswerTail(out) = Append(out, n)  BY <1>4, <2>0 DEF AnswerTail
  <2>2. Last(out) \in Proper(Ids, Txt)  BY <1>1, <1>4 DEF Last
  <2>3. n \in Proper(Ids, Txt) /\ n.results = Last(out).uses /\ n.uses = {}
    BY <2>0, <2>2 DEF Proper, Message, UserResults
  <2>4. PICK k : k = Append(out, n)  OBVIOUS
  <2>5. k \in Seq(Proper(Ids, Txt)) /\ AnsweredWithin(k) /\ Last(k) = n
    BY <1>1, <2>3, <2>4, AnsweredAppend
  <2>6. NoOrphanedToolUse(k)  BY <2>3, <2>5, AnsweredMeansNoOrphan
  <2> QED  BY <1>2, <2>1, <2>4, <2>5, <2>6
<1>5. CASE ~(out # <<>> /\ Last(out).uses # {})
  <2>1. AnswerTail(out) = out  BY <1>5 DEF AnswerTail
  <2> QED  BY <1>1, <1>2, <1>5, <2>1, AnsweredMeansNoOrphan
<1> QED  BY <1>4, <1>5

(* What Front returns.                                                     *)
LEMMA FrontProperties ==
    ASSUME NEW S, NEW s \in Seq(S), s # <<>>
    PROVE  /\ Front(s) \in Seq(S) /\ Len(Front(s)) = Len(s) - 1
           /\ \A i \in 1 .. Len(s) - 1 : Front(s)[i] = s[i]
<1>1. Len(s) \in Nat \ {0} /\ 1 \in Int /\ Len(s) - 1 \in Int  OBVIOUS
<1>2. \A i \in 1 .. Len(s) - 1 : s[i] \in S  BY <1>1
<1>3. PICK n : n = Len(s) - 1  OBVIOUS
<1>4. /\ SubSeq(s, 1, n) \in Seq(S) /\ Len(SubSeq(s, 1, n)) = IF 1 <= n THEN n - 1 + 1 ELSE 0
      /\ \A i \in 1 .. n - 1 + 1 : SubSeq(s, 1, n)[i] = s[1 + i - 1]
  BY ONLY <1>1, <1>2, <1>3, SubSeqProperties
<1>5. Len(SubSeq(s, 1, n)) = n /\ \A i \in 1 .. n : SubSeq(s, 1, n)[i] = s[i]
  BY <1>1, <1>3, <1>4
<1> QED  BY <1>3, <1>4, <1>5 DEF Front

(* The last message and the front of an extended thread.                   *)
LEMMA LastOfAppend ==
    ASSUME NEW S, NEW s \in Seq(S), NEW m \in S
    PROVE  Append(s, m) # <<>> /\ Last(Append(s, m)) = m /\ Front(Append(s, m)) = s
  <1>1. PICK k : k = Append(s, m)  OBVIOUS
  <1>2. /\ k \in Seq(S) /\ Len(k) = Len(s) + 1 /\ k[Len(s) + 1] = m /\ Len(s) \in Nat
        /\ \A i \in 1 .. Len(s) : k[i] = s[i]
    BY <1>1
  <1>3. k # <<>>  BY <1>2
  <1>4. Last(k) = m  BY <1>2 DEF Last
  <1>5. /\ Front(k) \in Seq(S) /\ Len(Front(k)) = Len(k) - 1
        /\ \A i \in 1 .. Len(k) - 1 : Front(k)[i] = k[i]
    BY <1>2, <1>3, FrontProperties
  <1>6. PICK f : f = Front(k)  OBVIOUS
  <1>7. f \in Seq(S) /\ Len(f) = Len(s)  BY <1>2, <1>5, <1>6
  <1>8. \A i \in 1 .. Len(s) : f[i] = s[i]  BY <1>2, <1>5, <1>6
  <1>9. f = s  BY <1>7, <1>8
  <1> QED  BY <1>1, <1>3, <1>4, <1>6, <1>9

(* A thread is its front and its last message.                             *)
LEMMA FrontThenLast ==
    ASSUME NEW S, NEW s \in Seq(S), s # <<>>
    PROVE  Append(Front(s), Last(s)) = s
  <1>1. Len(s) \in Nat \ {0}  OBVIOUS
  <1>2. PICK f : f = Front(s)  OBVIOUS
  <1>3. /\ f \in Seq(S) /\ Len(f) = Len(s) - 1 /\ \A i \in 1 .. Len(s) - 1 : f[i] = s[i]
    BY <1>2, FrontProperties
  <1>4. PICK k : k = Append(f, s[Len(s)])  OBVIOUS
  <1>5. s[Len(s)] \in S  BY <1>1
  <1>6. /\ k \in Seq(S) /\ Len(k) = Len(s) /\ k[Len(s)] = s[Len(s)]
        /\ \A i \in 1 .. Len(s) - 1 : k[i] = f[i]
    BY <1>1, <1>3, <1>4, <1>5
  <1>7. \A i \in 1 .. Len(s) : k[i] = s[i]  BY <1>1, <1>3, <1>6
  <1>8. k = s  BY <1>6, <1>7
  <1> QED  BY <1>2, <1>4, <1>8 DEF Last

(* The last message may be replaced by one with the same results.          *)
LEMMA AnsweredReplaceLast ==
    ASSUME NEW Ids, NEW Txt, NEW out \in Seq(Proper(Ids, Txt)), AnsweredWithin(out), out # <<>>,
           NEW m \in Proper(Ids, Txt), m.results = Last(out).results
    PROVE  /\ Append(Front(out), m) \in Seq(Proper(Ids, Txt))
           /\ AnsweredWithin(Append(Front(out), m))
           /\ Append(Front(out), m) # <<>>
           /\ Last(Append(Front(out), m)) = m
<1>1. PICK f : f = Front(out)  OBVIOUS
<1>2. Len(out) \in Nat \ {0}  OBVIOUS
<1>3. /\ f \in Seq(Proper(Ids, Txt)) /\ Len(f) = Len(out) - 1
      /\ \A i \in 1 .. Len(out) - 1 : f[i] = out[i]
  BY <1>1, FrontProperties
<1>4. AnsweredWithin(f)
  <2> SUFFICES ASSUME NEW i \in 1 .. Len(f) - 1
               PROVE f[i].uses \subseteq f[i + 1].results
    BY DEF AnsweredWithin
  <2>1. i \in 1 .. Len(out) - 1 /\ i + 1 \in 1 .. Len(out) - 1  BY <1>2, <1>3
  <2> QED  BY <1>3, <2>1 DEF AnsweredWithin
<1>5. f # <<>> => Last(f).uses \subseteq m.results
  <2> SUFFICES ASSUME f # <<>>  PROVE Last(f).uses \subseteq m.results  OBVIOUS
  <2>1. Len(f) # 0 /\ Len(f) \in 1 .. Len(out) - 1  BY <1>2, <1>3
  <2>2. Last(f) = out[Len(f)] /\ Last(out) = out[Len(f) + 1]
    BY <1>2, <1>3, <2>1 DEF Last
  <2> QED  BY <2>1, <2>2 DEF AnsweredWithin
<1> QED  BY <1>1, <1>3, <1>4, <1>5, AnsweredAppend

(* Some function satisfies the recursion of Merged.                        *)
LEMMA MergedExists ==
    ASSUME NEW msgs, NEW N \in Nat
    PROVE  \E f : f = [i \in 0 .. N |-> IF i = 0 THEN [out |-> <<>>, skip |-> "no"]
                                        ELSE MergeStep(msgs, f[i-1], i)]
<1> DEFINE base == [out |-> <<>>, skip |-> "no"]
<1> HIDE DEF base
<1>0. PICK T : T = {n \in 0 .. N : \E f : f = [i \in 0 .. n |-> IF i = 0 THEN base ELSE MergeStep(msgs, f[i-1], i)]}
  OBVIOUS
<1>1. 0 \in T
  <2>0. PICK f : f = [i \in 0 .. 0 |-> base]  OBVIOUS
  <2>1. f = [i \in 0 .. 0 |-> IF i = 0 THEN base ELSE MergeStep(msgs, f[i-1], i)]
    BY <2>0
  <2> QED  BY <1>0, <2>1
<1>2. ASSUME NEW n \in 0 .. N - 1, n \in T  PROVE n + 1 \in T
  <2>1. PICK f : f = [i \in 0 .. n |-> IF i = 0 THEN base ELSE MergeStep(msgs, f[i-1], i)]
    BY <1>0, <1>2
  <2>2. PICK g : g = [i \in 0 .. n + 1 |-> IF i = n + 1 THEN MergeStep(msgs, f[n], n + 1) ELSE f[i]]
    OBVIOUS
  <2>3. \A i \in 0 .. n + 1 : g[i] = IF i = 0 THEN base ELSE MergeStep(msgs, g[i-1], i)
    <3> SUFFICES ASSUME NEW i \in 0 .. n + 1
                 PROVE g[i] = IF i = 0 THEN base ELSE MergeStep(msgs, g[i-1], i)
      OBVIOUS
    <3>1. CASE i = n + 1
      <4>1. g[i - 1] = f[n]  BY <2>2, <3>1
      <4> QED  BY <2>2, <3>1, <4>1
    <3>2. CASE i = 0  BY <2>1, <2>2, <3>2
    <3>3. CASE i \in 1 .. n
      <4>1. g[i - 1] = f[i - 1] /\ g[i] = f[i]  BY <2>2, <3>3
      <4> QED  BY <2>1, <3>3, <4>1
    <3> QED  BY <3>1, <3>2, <3>3
  <2>4. g = [i \in 0 .. n + 1 |-> IF i = 0 THEN base ELSE MergeStep(msgs, g[i-1], i)]
    BY <2>2, <2>3
  <2> QED  BY <1>0, <2>4
<1>3. \A n \in 0 .. N : n \in T
  <2>1. \A n \in 0 .. N - 1 : n \in T => n + 1 \in T  BY <1>2
  <2> QED  BY ONLY N \in Nat, <1>1, <2>1, SetInduction
<1>4. N \in T  BY ONLY N \in Nat, <1>3
<1>5. \E f : f = [i \in 0 .. N |-> IF i = 0 THEN base ELSE MergeStep(msgs, f[i-1], i)]
  BY <1>0, <1>4
<1> QED  BY <1>5 DEF base

(* Merged(msgs) is the state of the while loop of merge_interrupt_markers  *)
(* in front of each index.                                                 *)
LEMMA MergedSteps ==
    ASSUME NEW msgs, Len(msgs) \in Nat
    PROVE  Merged(msgs) = [i \in 0 .. Len(msgs) |-> IF i = 0 THEN [out |-> <<>>, skip |-> "no"]
                                ELSE MergeStep(msgs, Merged(msgs)[i-1], i)]
BY MergedExists DEF Merged

(* What that state keeps: the output is answered, and tool uses at its end *)
(* are answered by the next message, which the loop is about to look at.   *)
MergeOK(msgs, st, i, Ids, Txt) ==
    /\ st \in [out : Seq(Proper(Ids, Txt)), skip : {"no", "absorbed", "unseen"}]
    /\ AnsweredWithin(st.out)
    /\ st.out # <<>> /\ Last(st.out).uses # {} =>
         st.skip = "no" /\ i < Len(msgs) /\ Last(st.out).uses \subseteq msgs[i + 1].results

(* One turn of the loop of merge_interrupt_markers keeps it: a message     *)
(* that is dropped or merged away answers no tool use.                     *)
LEMMA MergeStepKeeps ==
    ASSUME NEW Ids, NEW Txt, InterruptMarker \in Txt,
           NEW msgs \in Seq(Proper(Ids, Txt)), NoOrphanedToolUse(msgs),
           NEW i \in 1 .. Len(msgs), NEW st, MergeOK(msgs, st, i - 1, Ids, Txt)
    PROVE  MergeOK(msgs, MergeStep(msgs, st, i), i, Ids, Txt)
<1>0. PICK m : m = msgs[i]  OBVIOUS
<1>1. m \in Proper(Ids, Txt) /\ i - 1 + 1 = i  BY <1>0
<1>2. st.out \in Seq(Proper(Ids, Txt)) /\ AnsweredWithin(st.out)
      /\ st.skip \in {"no", "absorbed", "unseen"}
      /\ st = [out |-> st.out, skip |-> st.skip]
  BY DEF MergeOK
<1>3. st.out # <<>> /\ Last(st.out).uses # {} => st.skip = "no" /\ Last(st.out).uses \subseteq m.results
  BY <1>0, <1>1 DEF MergeOK
<1>4. ASSUME st.out # <<>> => Last(st.out).uses \subseteq m.results
      PROVE  MergeOK(msgs, [out |-> Append(st.out, m), skip |-> "no"], i, Ids, Txt)
  <2>1. /\ Append(st.out, m) \in Seq(Proper(Ids, Txt)) /\ AnsweredWithin(Append(st.out, m))
        /\ Last(Append(st.out, m)) = m
    BY <1>1, <1>2, <1>4, AnsweredAppend
  <2>2. m.uses # {} => i < Len(msgs) /\ m.uses \subseteq msgs[i + 1].results
    BY <1>0 DEF NoOrphanedToolUse
  <2>3. PICK k : k = Append(st.out, m)  OBVIOUS
  <2>4. MergeOK(msgs, [out |-> k, skip |-> "no"], i, Ids, Txt)
    BY <2>1, <2>2, <2>3 DEF MergeOK
  <2> QED  BY <2>3, <2>4
<1>5. CASE st.skip = "absorbed"
  <2>1. MergeStep(msgs, st, i) = [st EXCEPT !.skip = "unseen"]
    BY <1>5 DEF MergeStep
  <2>2. MergeStep(msgs, st, i) = [out |-> st.out, skip |-> "unseen"]  BY <1>2, <2>1
  <2> QED  BY <1>2, <1>3, <1>5, <2>2 DEF MergeOK
<1>6. CASE st.skip = "unseen" \/ (st.skip = "no" /\ ~is_interrupt_event_marker(m))
  <2>1. MergeStep(msgs, st, i) = [out |-> Append(st.out, m), skip |-> "no"]
    BY <1>0, <1>6 DEF MergeStep
  <2>2. st.out # <<>> => Last(st.out).uses \subseteq m.results  BY <1>3
  <2> QED  BY <1>4, <2>1, <2>2
<1>7. CASE st.skip = "no" /\ is_interrupt_event_marker(m)
  <2>1. m.results = {}  BY <1>7 DEF is_interrupt_event_marker
  <2>2. st.out # <<>> => Last(st.out).uses = {}  BY <1>3, <2>1
  <2>3. CASE /\ st.out # <<>> /\ is_user_tool_result_only(Last(st.out))
             /\ i < Len(msgs) /\ has_plain_user_text(msgs[i + 1])
    <3>1. PICK n : n = MergedMessage(Last(st.out), msgs[i + 1])  OBVIOUS
    <3>2. MergeStep(msgs, st, i) = [out |-> Append(Front(st.out), n), skip |-> "absorbed"]
      BY <1>0, <1>7, <2>3, <3>1 DEF MergeStep
    <3>3. Last(st.out) \in Proper(Ids, Txt) /\ msgs[i + 1] \in Proper(Ids, Txt)
      <4>1. i + 1 \in 1 .. Len(msgs)  BY <2>3
      <4> QED  BY <1>2, <2>3, <4>1 DEF Last
    <3>4. n \in Proper(Ids, Txt) /\ n.results = Last(st.out).results /\ n.uses = Last(st.out).uses
      BY <3>1, <3>3 DEF MergedMessage, Proper, Message
    <3>5. /\ Append(Front(st.out), n) \in Seq(Proper(Ids, Txt))
          /\ AnsweredWithin(Append(Front(st.out), n))
          /\ Last(Append(Front(st.out), n)) = n
      BY <1>2, <2>3, <3>4, AnsweredReplaceLast
    <3>6. PICK k : k = Append(Front(st.out), n)  OBVIOUS
    <3>7. MergeOK(msgs, [out |-> k, skip |-> "absorbed"], i, Ids, Txt)
      BY <2>2, <2>3, <3>4, <3>5, <3>6 DEF MergeOK
    <3> QED  BY <3>2, <3>6, <3>7
  <2>4. CASE ~(/\ st.out # <<>> /\ is_user_tool_result_only(Last(st.out))
               /\ i < Len(msgs) /\ has_plain_user_text(msgs[i + 1]))
    <3>1. MergeStep(msgs, st, i) = [st EXCEPT !.skip = "no"]
      BY <1>0, <1>7, <2>4 DEF MergeStep
    <3>2. MergeStep(msgs, st, i) = [out |-> st.out, skip |-> "no"]  BY <1>2, <3>1
    <3> QED  BY <1>2, <2>2, <3>2 DEF MergeOK
  <2> QED  BY <2>3, <2>4
<1> QED  BY <1>2, <1>5, <1>6, <1>7

(* So it holds at every index.                                             *)
LEMMA MergedKeeps ==
    ASSUME NEW Ids, NEW Txt, InterruptMarker \in Txt,
           NEW msgs \in Seq(Proper(Ids, Txt)), NoOrphanedToolUse(msgs)
    PROVE  \A i \in 0 .. Len(msgs) : MergeOK(msgs, Merged(msgs)[i], i, Ids, Txt)
<1>0. PICK S : S = Merged(msgs)  OBVIOUS
<1>1. Len(msgs) \in Nat  OBVIOUS
<1>2. S = [i \in 0 .. Len(msgs) |-> IF i = 0 THEN [out |-> <<>>, skip |-> "no"]
                                    ELSE MergeStep(msgs, S[i-1], i)]
  BY <1>0, <1>1, MergedSteps
<1>3. PICK T : T = {i \in 0 .. Len(msgs) : MergeOK(msgs, S[i], i, Ids, Txt)}
  OBVIOUS
<1>4. 0 \in T
  <2>1. S[0] = [out |-> <<>>, skip |-> "no"]  BY <1>1, <1>2
  <2>2. MergeOK(msgs, S[0], 0, Ids, Txt)  BY <2>1, EmptyAnswered DEF MergeOK
  <2>3. 0 \in 0 .. Len(msgs)  BY <1>1
  <2> QED  BY ONLY <1>3, <2>2, <2>3
<1>5. ASSUME NEW n \in 0 .. Len(msgs) - 1, n \in T  PROVE n + 1 \in T
  <2>1. n + 1 \in 1 .. Len(msgs) /\ n + 1 # 0 /\ n + 1 - 1 = n /\ n + 1 \in 0 .. Len(msgs)
    BY <1>1
  <2>2. S[n + 1] = MergeStep(msgs, S[n], n + 1)  BY <1>2, <2>1
  <2>3. MergeOK(msgs, S[n], n + 1 - 1, Ids, Txt)  BY <1>3, <1>5, <2>1
  <2>4. MergeOK(msgs, S[n + 1], n + 1, Ids, Txt)
    BY <2>1, <2>2, <2>3, MergeStepKeeps
  <2> QED  BY <1>3, <2>1, <2>4
<1>6. \A n \in 0 .. Len(msgs) : n \in T
  <2>1. \A n \in 0 .. Len(msgs) - 1 : n \in T => n + 1 \in T  BY <1>5
  <2> QED  BY ONLY <1>1, <1>4, <2>1, SetInduction
<1> QED  BY <1>0, <1>3, <1>6

(* A thread repaired at startup or before a chat message has no orphaned   *)
(* tool use: merging the legacy interrupt events does not undo what        *)
(* sanitizing did. It holds of any sequence of proper messages, well       *)
(* formed as a thread or not.                                              *)
THEOREM RepairedNoOrphan ==
    ASSUME NEW Ids, NEW Txt, InterruptMarker \in Txt, NEW msgs \in Seq(Proper(Ids, Txt))
    PROVE  /\ Repaired(msgs) \in Seq(Proper(Ids, Txt))
           /\ NoOrphanedToolUse(Repaired(msgs))
<1>1. PICK k : k = sanitize_orphaned_tool_use(msgs)  OBVIOUS
<1>2. k \in Seq(Proper(Ids, Txt)) /\ NoOrphanedToolUse(k)  BY <1>1, SanitizeAnswers
<1>3. PICK st : st = Merged(k)[Len(k)]  OBVIOUS
<1>4. Len(k) \in Nat /\ Len(k) \in 0 .. Len(k)  BY <1>2
<1>5. MergeOK(k, st, Len(k), Ids, Txt)  BY <1>2, <1>3, <1>4, MergedKeeps
<1>6. /\ st.out \in Seq(Proper(Ids, Txt)) /\ AnsweredWithin(st.out)
      /\ st.out # <<>> => Last(st.out).uses = {}
  BY <1>4, <1>5 DEF MergeOK
<1>7. NoOrphanedToolUse(st.out)  BY <1>6, AnsweredMeansNoOrphan
<1> QED  BY <1>1, <1>3, <1>6, <1>7 DEF Repaired, merge_interrupt_markers

(* Adding a query, as a message or to the tail, orphans no tool use and    *)
(* leaves a user message at the end.                                       *)
THEOREM AddQueryNoOrphan ==
    ASSUME NEW Ids, NEW Txt, InterruptMarker \in Txt, NEW query \in Txt,
           NEW msgs \in Seq(Proper(Ids, Txt)), NoOrphanedToolUse(msgs)
    PROVE  /\ AddQuery(msgs, query) \in Seq(Proper(Ids, Txt))
           /\ NoOrphanedToolUse(AddQuery(msgs, query))
           /\ AddQuery(msgs, query) # <<>> /\ is_user_message(Last(AddQuery(msgs, query)))
<1>0. PICK k : k = AddQuery(msgs, query)  OBVIOUS
<1>1. AnsweredWithin(msgs) /\ (msgs # <<>> => Last(msgs).uses = {})
  BY AnsweredMeansNoOrphan
<1>2. /\ k \in Seq(Proper(Ids, Txt)) /\ AnsweredWithin(k) /\ k # <<>>
      /\ Last(k).uses = {} /\ is_user_message(Last(k))
  <2>1. CASE msgs # <<>> /\ is_user_message(Last(msgs))
    <3>1. PICK n : n = merge_user_query_into_tail(Last(msgs), query)  OBVIOUS
    <3>2. k = Append(Front(msgs), n)  BY <1>0, <2>1, <3>1 DEF AddQuery
    <3>3. Last(msgs) \in Proper(Ids, Txt)  BY <2>1 DEF Last
    <3>4. n \in Proper(Ids, Txt) /\ n.results = Last(msgs).results /\ n.uses = Last(msgs).uses
          /\ n.role = Last(msgs).role
      BY <3>1, <3>3 DEF merge_user_query_into_tail, Proper, Message
    <3>5. /\ Append(Front(msgs), n) \in Seq(Proper(Ids, Txt))
          /\ AnsweredWithin(Append(Front(msgs), n))
          /\ Append(Front(msgs), n) # <<>>
          /\ Last(Append(Front(msgs), n)) = n
      BY <1>1, <2>1, <3>4, AnsweredReplaceLast
    <3> QED  BY <1>1, <2>1, <3>2, <3>4, <3>5 DEF is_user_message
  <2>2. CASE ~(msgs # <<>> /\ is_user_message(Last(msgs)))
    <3>1. PICK n : n = UserText(query)  OBVIOUS
    <3>2. k = Append(msgs, n)  BY <1>0, <2>2, <3>1 DEF AddQuery
    <3>3. n \in Proper(Ids, Txt) /\ n.uses = {} /\ n.role = "user"
      BY <3>1 DEF UserText, Proper, Message
    <3>4. /\ Append(msgs, n) \in Seq(Proper(Ids, Txt))
          /\ AnsweredWithin(Append(msgs, n))
          /\ Append(msgs, n) # <<>>
          /\ Last(Append(msgs, n)) = n
      BY <1>1, <3>3, AnsweredAppend
    <3> QED  BY <3>2, <3>3, <3>4 DEF is_user_message
  <2> QED  BY <2>1, <2>2
<1>3. NoOrphanedToolUse(k)  BY <1>2, AnsweredMeansNoOrphan
<1> QED  BY <1>0, <1>2, <1>3

-----------------------------------------------------------------------------
(* A thread as current builds write it: valid but for tool uses at its     *)
(* end, and without legacy events.                                         *)
Orderly(msgs) ==
    /\ RolesAlternate(msgs) /\ NoOrphanedToolResult(msgs) /\ AnsweredWithin(msgs)
    /\ \A i \in DOMAIN msgs : ~is_interrupt_event_marker(msgs[i])

(* m continues an orderly thread.                                          *)
Follows(out, m) ==
    /\ out # <<>> => m.role # Last(out).role /\ m.results = Last(out).uses
    /\ out = <<>> => m.results = {}
    /\ ~is_interrupt_event_marker(m)

(* The empty thread is orderly.                                            *)
LEMMA OrderlyEmpty == Orderly(<<>>)
<1>1. 1 .. Len(<<>>) - 1 = {} /\ DOMAIN <<>> = {}  OBVIOUS
<1> QED  BY <1>1 DEF Orderly, RolesAlternate, NoOrphanedToolResult, AnsweredWithin

(* An orderly thread continued by a message that follows it is orderly.    *)
LEMMA OrderlyAppend ==
    ASSUME NEW Ids, NEW Txt, NEW out \in Seq(Proper(Ids, Txt)), Orderly(out),
           NEW m \in Proper(Ids, Txt), Follows(out, m)
    PROVE  Orderly(Append(out, m))
<1> DEFINE M == Proper(Ids, Txt)
<1> HIDE DEF M
<1>1. /\ out \in Seq(M) /\ m \in M  BY DEF M
<1>2. PICK k : k = Append(out, m)  OBVIOUS
<1>3. /\ k \in Seq(M) /\ Len(k) = Len(out) + 1 /\ k[Len(out) + 1] = m
      /\ \A i \in 1 .. Len(out) : k[i] = out[i]
      /\ DOMAIN k = 1 .. Len(out) + 1
  BY <1>1, <1>2
<1>4. Len(out) \in Nat /\ (Len(out) > 0 <=> out # <<>>) /\ DOMAIN out = 1 .. Len(out)
  BY <1>1
<1>5. AnsweredWithin(k)
  <2>1. out # <<>> => Last(out).uses \subseteq m.results  BY DEF Follows
  <2> QED  BY <1>2, <2>1, AnsweredAppend DEF Orderly
<1>6. RolesAlternate(k)
  <2> SUFFICES ASSUME NEW i \in 1 .. Len(k) - 1  PROVE k[i].role # k[i + 1].role
    BY DEF RolesAlternate
  <2>1. i \in 1 .. Len(out) /\ k[i] = out[i]  BY <1>3, <1>4
  <2>2. CASE i = Len(out)  BY <1>3, <1>4, <2>1, <2>2 DEF Last, Follows
  <2>3. CASE i < Len(out)
    <3>1. i \in 1 .. Len(out) - 1 /\ i + 1 \in 1 .. Len(out)  BY <1>4, <2>1, <2>3
    <3> QED  BY <1>3, <2>1, <3>1 DEF Orderly, RolesAlternate
  <2>4. i = Len(out) \/ i < Len(out)
    <3>1. i \in 1 .. Len(out)  BY <2>1
    <3>2. Len(out) \in Nat  BY <1>4
    <3> QED  BY ONLY <3>1, <3>2
  <2> QED  BY ONLY <2>2, <2>3, <2>4
<1>7. NoOrphanedToolResult(k)
  <2> SUFFICES ASSUME NEW i \in DOMAIN k, k[i].results # {}
               PROVE  i > 1 /\ k[i].results \subseteq k[i - 1].uses
    BY DEF NoOrphanedToolResult
  <2>1. CASE i = Len(out) + 1
    <3>1. k[i] = m /\ out # <<>>  BY <1>3, <2>1 DEF Follows
    <3>2. Len(out) \in 1 .. Len(out) /\ i - 1 = Len(out)  BY <1>4, <2>1, <3>1
    <3>3. k[i - 1] = Last(out)  BY <1>3, <3>2 DEF Last
    <3> QED  BY <1>4, <2>1, <3>1, <3>2, <3>3 DEF Follows
  <2>2. CASE i \in 1 .. Len(out)
    <3>1. k[i] = out[i] /\ i > 1 /\ out[i].results \subseteq out[i - 1].uses
      BY <1>3, <1>4, <2>2 DEF Orderly, NoOrphanedToolResult
    <3>2. i - 1 \in 1 .. Len(out)  BY <1>4, <2>2, <3>1
    <3> QED  BY <1>3, <3>1, <3>2
  <2> QED  BY <1>3, <1>4, <2>1, <2>2
<1>8. \A i \in DOMAIN k : ~is_interrupt_event_marker(k[i])
  <2> SUFFICES ASSUME NEW i \in DOMAIN k  PROVE ~is_interrupt_event_marker(k[i])
    OBVIOUS
  <2>1. CASE i = Len(out) + 1  BY <1>3, <2>1 DEF Follows
  <2>2. CASE i \in 1 .. Len(out)
    <3>1. k[i] = out[i] /\ i \in DOMAIN out  BY <1>3, <1>4, <2>2
    <3> QED  BY <3>1 DEF Orderly
  <2> QED  BY <1>3, <1>4, <2>1, <2>2
<1> QED  BY <1>2, <1>5, <1>6, <1>7, <1>8 DEF Orderly

(* So is an orderly thread without its last message, which follows it.     *)
LEMMA OrderlyFront ==
    ASSUME NEW Ids, NEW Txt, NEW out \in Seq(Proper(Ids, Txt)), Orderly(out), out # <<>>
    PROVE  /\ Front(out) \in Seq(Proper(Ids, Txt)) /\ Orderly(Front(out))
           /\ Front(out) # <<>> => /\ Last(Front(out)).role # Last(out).role
                                   /\ Last(Front(out)).uses = Last(out).results
           /\ Front(out) = <<>> => Last(out).results = {}
<1>1. PICK f : f = Front(out)  OBVIOUS
<1>2. Len(out) \in Nat \ {0} /\ DOMAIN out = 1 .. Len(out)  OBVIOUS
<1>3. /\ f \in Seq(Proper(Ids, Txt)) /\ Len(f) = Len(out) - 1
      /\ \A i \in 1 .. Len(out) - 1 : f[i] = out[i]
  BY <1>1, FrontProperties
<1>4. DOMAIN f = 1 .. Len(out) - 1 /\ (f # <<>> <=> Len(f) # 0)  BY <1>3
<1>5. Orderly(f)
  <2>1. RolesAlternate(f)
    <3> SUFFICES ASSUME NEW i \in 1 .. Len(f) - 1  PROVE f[i].role # f[i + 1].role
      BY DEF RolesAlternate
    <3>1. i \in 1 .. Len(out) - 1 /\ i + 1 \in 1 .. Len(out) - 1  BY <1>2, <1>3
    <3> QED  BY <1>3, <3>1 DEF Orderly, RolesAlternate
  <2>2. AnsweredWithin(f)
    <3> SUFFICES ASSUME NEW i \in 1 .. Len(f) - 1
                 PROVE f[i].uses \subseteq f[i + 1].results
      BY DEF AnsweredWithin
    <3>1. i \in 1 .. Len(out) - 1 /\ i + 1 \in 1 .. Len(out) - 1  BY <1>2, <1>3
    <3> QED  BY <1>3, <3>1 DEF Orderly, AnsweredWithin
  <2>3. NoOrphanedToolResult(f)
    <3> SUFFICES ASSUME NEW i \in DOMAIN f, f[i].results # {}
                 PROVE  i > 1 /\ f[i].results \subseteq f[i - 1].uses
      BY DEF NoOrphanedToolResult
    <3>1. i \in DOMAIN out /\ f[i] = out[i]  BY <1>2, <1>3, <1>4
    <3>2. i > 1 /\ out[i].results \subseteq out[i - 1].uses
      BY <3>1 DEF Orderly, NoOrphanedToolResult
    <3>3. i - 1 \in 1 .. Len(out) - 1  BY <1>2, <1>4, <3>2
    <3> QED  BY <1>3, <3>1, <3>2, <3>3
  <2>4. \A i \in DOMAIN f : ~is_interrupt_event_marker(f[i])
    BY <1>2, <1>3, <1>4 DEF Orderly
  <2> QED  BY <2>1, <2>2, <2>3, <2>4 DEF Orderly
<1>6. ASSUME f # <<>>
      PROVE  Last(f).role # Last(out).role /\ Last(f).uses = Last(out).results
  <2>1. Len(f) \in 1 .. Len(out) - 1 /\ Len(f) + 1 = Len(out)
    BY <1>2, <1>3, <1>4, <1>6
  <2>2. Last(f) = out[Len(f)] /\ Last(out) = out[Len(f) + 1]  BY <1>3, <2>1 DEF Last
  <2>3. Last(f).role # Last(out).role  BY <2>1, <2>2 DEF Orderly, RolesAlternate
  <2>4. Last(f).uses \subseteq Last(out).results
    BY <2>1, <2>2 DEF Orderly, AnsweredWithin
  <2>5. Last(out).results # {} => Last(out).results \subseteq Last(f).uses
    <3>1. Len(out) \in DOMAIN out  BY ONLY <1>2
    <3>0. Len(out) - 1 = Len(f)  BY ONLY <1>3
    <3>2. out[Len(out)].results # {} => out[Len(out)].results \subseteq out[Len(out) - 1].uses
      BY <3>1 DEF Orderly, NoOrphanedToolResult
    <3> QED  BY <2>1, <2>2, <3>0, <3>1, <3>2
  <2> QED  BY <2>3, <2>4, <2>5
<1>7. ASSUME f = <<>>  PROVE Last(out).results = {}
  <2>0. Len(f) = 0  BY ONLY <1>7
  <2>1. Len(out) = 1
    <3>1. Len(f) = Len(out) - 1  BY <1>3
    <3>2. Len(out) \in Nat  BY <1>2
    <3> QED  BY ONLY <2>0, <3>1, <3>2
  <2> QED  BY <1>2, <2>1 DEF Orderly, NoOrphanedToolResult, Last
<1> QED  BY <1>1, <1>3, <1>5, <1>6, <1>7

(* Prefixes grow by one message.                                           *)
LEMMA PrefixStep ==
    ASSUME NEW S, NEW s \in Seq(S), NEW n \in 0 .. Len(s) - 1
    PROVE  /\ SubSeq(s, 1, n + 1) = Append(SubSeq(s, 1, n), s[n + 1])
           /\ SubSeq(s, 1, n) \in Seq(S)
           /\ SubSeq(s, 1, n) # <<>> => n \in 1 .. Len(s) - 1 /\ Last(SubSeq(s, 1, n)) = s[n]
<1>1. Len(s) \in Nat /\ n + 1 \in 1 .. Len(s) /\ 1 \in Int /\ n \in Int /\ 1 \in 1 .. Len(s)
  OBVIOUS
<1>2. n + 1 - 1 = n /\ n - 1 + 1 = n  BY <1>1
<1>3. PICK f : f = SubSeq(s, 1, n)  OBVIOUS
<1>4. \A i \in 1 .. n : s[i] \in S  BY <1>1
<1>5. /\ f \in Seq(S) /\ Len(f) = IF 1 <= n THEN n - 1 + 1 ELSE 0
      /\ \A i \in 1 .. n - 1 + 1 : f[i] = s[1 + i - 1]
  BY ONLY <1>1, <1>3, <1>4, SubSeqProperties
<1>6. SubSeq(s, 1, n + 1) = SubSeq(s, 1, n + 1 - 1) \o <<s[n + 1]>>
  <2>1. n + 1 \in 1 .. Len(s)  BY <1>1
  <2> QED  BY ONLY <1>1, <2>1, s \in Seq(S), SubSeqRecursiveSecond
<1>7. Append(f, s[n + 1]) = f \o <<s[n + 1]>>
  BY <1>1, <1>5, AppendIsConcat
<1>8. f # <<>> => n \in 1 .. Len(s) - 1 /\ Last(f) = s[n]
  <2> SUFFICES ASSUME f # <<>>  PROVE n \in 1 .. Len(s) - 1 /\ Last(f) = s[n]
    OBVIOUS
  <2>1. Len(f) # 0  BY <1>5
  <2>2. 1 <= n /\ Len(f) = n  BY <1>1, <1>5, <2>1
  <2>3. f[n] = s[n]  BY <1>1, <1>5, <2>2
  <2> QED  BY <1>1, <2>2, <2>3 DEF Last
<1> QED  BY <1>2, <1>3, <1>5, <1>6, <1>7, <1>8

(* Where every tool use but those at the end is answered,                  *)
(* sanitize_orphaned_tool_use only answers the tail.                       *)
LEMMA SanitizedKeepsAnswered ==
    ASSUME NEW Ids, NEW Txt, NEW msgs \in Seq(Proper(Ids, Txt)), AnsweredWithin(msgs)
    PROVE  sanitize_orphaned_tool_use(msgs) = AnswerTail(msgs)
<1>0. PICK S : S = Sanitized(msgs)  OBVIOUS
<1>1. Len(msgs) \in Nat  OBVIOUS
<1>2. S = [i \in 0 .. Len(msgs) |-> IF i = 0 THEN <<>> ELSE SanitizeStep(S[i-1], msgs[i])]
  BY <1>0, <1>1, SanitizedSteps
<1>3. PICK T : T = {i \in 0 .. Len(msgs) : S[i] = SubSeq(msgs, 1, i)}  OBVIOUS
<1>4. 0 \in T
  <2>1. S[0] = <<>>  BY <1>1, <1>2
  <2>2. SubSeq(msgs, 1, 0) = <<>>  BY SubSeqEmpty
  <2>3. 0 \in 0 .. Len(msgs)  BY <1>1
  <2> QED  BY ONLY <1>3, <2>1, <2>2, <2>3
<1>5. ASSUME NEW n \in 0 .. Len(msgs) - 1, n \in T  PROVE n + 1 \in T
  <2>1. n + 1 \in 1 .. Len(msgs) /\ n + 1 # 0 /\ n + 1 - 1 = n /\ n + 1 \in 0 .. Len(msgs)
    BY <1>1
  <2>2. S[n + 1] = SanitizeStep(S[n], msgs[n + 1])  BY <1>2, <2>1
  <2>3. S[n] = SubSeq(msgs, 1, n)  BY <1>3, <1>5
  <2>4. SubSeq(msgs, 1, n + 1) = Append(S[n], msgs[n + 1])  BY <2>3, PrefixStep
  <2>5. S[n] # <<>> => n \in 1 .. Len(msgs) - 1 /\ Last(S[n]) = msgs[n]
    BY <2>3, PrefixStep
  <2>6. S[n] # <<>> => Last(S[n]).uses \subseteq msgs[n + 1].results
    BY <2>5 DEF AnsweredWithin
  <2>7. MissingResults(S[n], msgs[n + 1]) = {}  BY <2>6 DEF MissingResults
  <2>8. S[n + 1] = Append(S[n], msgs[n + 1])  BY <2>2, <2>7 DEF SanitizeStep
  <2>9. S[n + 1] = SubSeq(msgs, 1, n + 1)  BY ONLY <2>4, <2>8
  <2> QED  BY ONLY <1>3, <2>1, <2>9
<1>6. \A n \in 0 .. Len(msgs) : n \in T
  <2>1. \A n \in 0 .. Len(msgs) - 1 : n \in T => n + 1 \in T  BY <1>5
  <2> QED  BY ONLY <1>1, <1>4, <2>1, SetInduction
<1>7. S[Len(msgs)] = SubSeq(msgs, 1, Len(msgs))
  <2>1. Len(msgs) \in T  BY ONLY <1>1, <1>6
  <2> QED  BY ONLY <1>3, <2>1
<1>8. SubSeq(msgs, 1, Len(msgs)) = msgs  BY SubSeqFull
<1> QED  BY <1>0, <1>7, <1>8 DEF sanitize_orphaned_tool_use

(* On an orderly thread merge_interrupt_markers changes nothing.           *)
LEMMA MergedKeepsOrderly ==
    ASSUME NEW Ids, NEW Txt, NEW msgs \in Seq(Proper(Ids, Txt)), Orderly(msgs)
    PROVE  merge_interrupt_markers(msgs) = msgs
<1>0. PICK S : S = Merged(msgs)  OBVIOUS
<1>1. Len(msgs) \in Nat  OBVIOUS
<1>2. S = [i \in 0 .. Len(msgs) |-> IF i = 0 THEN [out |-> <<>>, skip |-> "no"]
                                    ELSE MergeStep(msgs, S[i-1], i)]
  BY <1>0, <1>1, MergedSteps
<1>3. PICK T : T = {i \in 0 .. Len(msgs) : S[i] = [out |-> SubSeq(msgs, 1, i), skip |-> "no"]}
  OBVIOUS
<1>4. 0 \in T
  <2>1. S[0] = [out |-> <<>>, skip |-> "no"]  BY <1>1, <1>2
  <2>2. SubSeq(msgs, 1, 0) = <<>>  BY SubSeqEmpty
  <2>3. 0 \in 0 .. Len(msgs)  BY <1>1
  <2> QED  BY ONLY <1>3, <2>1, <2>2, <2>3
<1>5. ASSUME NEW n \in 0 .. Len(msgs) - 1, n \in T  PROVE n + 1 \in T
  <2>1. n + 1 \in 1 .. Len(msgs) /\ n + 1 # 0 /\ n + 1 - 1 = n /\ n + 1 \in 0 .. Len(msgs)
    BY <1>1
  <2>2. S[n + 1] = MergeStep(msgs, S[n], n + 1)  BY <1>2, <2>1
  <2>3. S[n].out = SubSeq(msgs, 1, n) /\ S[n].skip = "no"  BY <1>3, <1>5
  <2>4. SubSeq(msgs, 1, n + 1) = Append(S[n].out, msgs[n + 1])  BY <2>3, PrefixStep
  <2>5. ~is_interrupt_event_marker(msgs[n + 1])
    <3>1. n + 1 \in DOMAIN msgs  BY <2>1
    <3> QED  BY <3>1 DEF Orderly
  <2>6. S[n + 1] = [out |-> Append(S[n].out, msgs[n + 1]), skip |-> "no"]
    BY <2>2, <2>3, <2>5 DEF MergeStep
  <2>7. S[n + 1] = [out |-> SubSeq(msgs, 1, n + 1), skip |-> "no"]
    BY ONLY <2>4, <2>6
  <2> QED  BY ONLY <1>3, <2>1, <2>7
<1>6. \A n \in 0 .. Len(msgs) : n \in T
  <2>1. \A n \in 0 .. Len(msgs) - 1 : n \in T => n + 1 \in T  BY <1>5
  <2> QED  BY ONLY <1>1, <1>4, <2>1, SetInduction
<1>7. S[Len(msgs)] = [out |-> SubSeq(msgs, 1, Len(msgs)), skip |-> "no"]
  <2>1. Len(msgs) \in T  BY ONLY <1>1, <1>6
  <2> QED  BY ONLY <1>3, <2>1
<1>8. SubSeq(msgs, 1, Len(msgs)) = msgs  BY SubSeqFull
<1> QED  BY <1>0, <1>7, <1>8 DEF merge_interrupt_markers

(* Answering the tail keeps a thread orderly.                              *)
LEMMA AnswerTailOrderly ==
    ASSUME NEW Ids, NEW Txt, NEW msgs \in Seq(Proper(Ids, Txt)), Orderly(msgs)
    PROVE  AnswerTail(msgs) \in Seq(Proper(Ids, Txt)) /\ Orderly(AnswerTail(msgs))
<1>1. CASE msgs # <<>> /\ Last(msgs).uses # {}
  <2>0. PICK n : n = UserResults(Last(msgs).uses)  OBVIOUS
  <2>1. AnswerTail(msgs) = Append(msgs, n)  BY <1>1, <2>0 DEF AnswerTail
  <2>2. Last(msgs) \in Proper(Ids, Txt)  BY <1>1 DEF Last
  <2>3. n \in Proper(Ids, Txt) /\ n.results = Last(msgs).uses /\ n.role = "user"
    BY <2>0, <2>2 DEF Proper, Message, UserResults
  <2>4. Last(msgs).role # "user"  BY <1>1, <2>2 DEF Proper
  <2>5. Follows(msgs, n)  BY <1>1, <2>3, <2>4 DEF Follows, is_interrupt_event_marker
  <2> QED  BY <2>1, <2>3, <2>5, OrderlyAppend
<1>2. CASE ~(msgs # <<>> /\ Last(msgs).uses # {})
  BY <1>2 DEF AnswerTail
<1> QED  BY <1>1, <1>2

(* The repair of an orderly thread changes none of its messages: it        *)
(* answers the tool uses at its end, if there are any, and that is all.    *)
THEOREM RepairedOrderly ==
    ASSUME NEW Ids, NEW Txt, NEW msgs \in Seq(Proper(Ids, Txt)), Orderly(msgs)
    PROVE  Repaired(msgs) = AnswerTail(msgs) /\ Orderly(Repaired(msgs))
<1>1. PICK k : k = AnswerTail(msgs)  OBVIOUS
<1>2. sanitize_orphaned_tool_use(msgs) = k
  BY <1>1, SanitizedKeepsAnswered DEF Orderly
<1>3. k \in Seq(Proper(Ids, Txt)) /\ Orderly(k)  BY <1>1, AnswerTailOrderly
<1>4. merge_interrupt_markers(k) = k  BY <1>3, MergedKeepsOrderly
<1> QED  BY <1>1, <1>2, <1>3, <1>4 DEF Repaired

(* A query can be added to an orderly thread whose tail is answered.       *)
LEMMA AddQueryOrderly ==
    ASSUME NEW Ids, NEW Txt, InterruptMarker \in Txt, NEW query \in Txt,
           NEW msgs \in Seq(Proper(Ids, Txt)), NoOrphanedToolUse(msgs), Orderly(msgs)
    PROVE  Orderly(AddQuery(msgs, query))
<1>0. PICK k : k = AddQuery(msgs, query)  OBVIOUS
<1>1. msgs # <<>> => Last(msgs).uses = {} /\ Last(msgs) \in Proper(Ids, Txt)
  BY AnsweredMeansNoOrphan DEF Last
<1>2. CASE msgs # <<>> /\ is_user_message(Last(msgs))
  <2>1. PICK n : n = merge_user_query_into_tail(Last(msgs), query)  OBVIOUS
  <2>2. k = Append(Front(msgs), n)  BY <1>0, <1>2, <2>1 DEF AddQuery
  <2>4. n \in Proper(Ids, Txt) /\ n.results = Last(msgs).results /\ n.role = Last(msgs).role
    BY <1>1, <1>2, <2>1 DEF merge_user_query_into_tail, Proper, Message
  <2>5. n.role = "user"  BY <1>2, <2>4 DEF is_user_message
  <2>6. /\ Front(msgs) \in Seq(Proper(Ids, Txt)) /\ Orderly(Front(msgs))
        /\ Front(msgs) # <<>> => /\ Last(Front(msgs)).role # Last(msgs).role
                                 /\ Last(Front(msgs)).uses = Last(msgs).results
        /\ Front(msgs) = <<>> => Last(msgs).results = {}
    BY <1>2, OrderlyFront
  <2>7. Follows(Front(msgs), n)
    BY <2>4, <2>5, <2>6 DEF Follows, is_interrupt_event_marker
  <2> QED  BY <1>0, <2>2, <2>4, <2>6, <2>7, OrderlyAppend
<1>3. CASE ~(msgs # <<>> /\ is_user_message(Last(msgs)))
  <2>1. PICK n : n = UserText(query)  OBVIOUS
  <2>2. k = Append(msgs, n)  BY <1>0, <1>3, <2>1 DEF AddQuery
  <2>3. n \in Proper(Ids, Txt) /\ n.results = {} /\ n.role = "user"
    BY <2>1 DEF UserText, Proper, Message
  <2>4. Follows(msgs, n)
    BY <1>1, <1>3, <2>3 DEF Follows, is_interrupt_event_marker, is_user_message
  <2> QED  BY <1>0, <2>2, <2>3, <2>4, OrderlyAppend
<1> QED  BY <1>2, <1>3

(* An orderly thread with an answered tail is what a model API accepts.    *)
LEMMA OrderlyIsValid ==
    ASSUME NEW Ids, NEW Txt, NEW msgs \in Seq(Proper(Ids, Txt)), Orderly(msgs), NoOrphanedToolUse(msgs)
    PROVE  ReplayValid(msgs)
BY DEF Orderly, ReplayValid
=============================================================================
