--------------------------- MODULE Terminal_proofs ---------------------------
(***************************************************************************)
(* Proofs about the terminal side of the client.                           *)
(*                                                                         *)
(* Keys (TermInv).  Every byte that was typed has one place: sent to the   *)
(* shell, in the interceptor's buffer, in its escape filter, in the        *)
(* detector of cursor reports, in the terminal, or taken.  In this order   *)
(* of places the numbers of the bytes increase, so that whatever moves a   *)
(* byte moves it to the end of the next place.  A byte may be sent past    *)
(* the buffer only when the buffer is empty.  That it is needs the prefix  *)
(* to be one byte long: then a buffer outside chat mode is at most the     *)
(* first byte of a character, whose second byte is the next to be read.    *)
(* With a longer prefix the escape key and backspace do overtake the       *)
(* bytes that wait in the buffer.                                          *)
(*                                                                         *)
(* Ghost (GhostInv).  A ghost was computed for the line that the tracker   *)
(* has, unless the client knows that it does not know the line.  Every     *)
(* operation that changes the line notes the change, and the completer     *)
(* hears of it before the read ends.                                       *)
(*                                                                         *)
(* Widgets (WidgetInv).  An open picker keeps its cursor within its        *)
(* viewport and the viewport within its items, and the screen is what      *)
(* drawing it would show.  A row that is rewritten lies as far from the    *)
(* hint line as RowsTo says, so that the two rows of a moved cursor are    *)
(* the two in which the old and the new screen differ.  A view's last      *)
(* offset is the least from which the rest fits, because the rows of more  *)
(* lines are a larger set.                                                 *)
(*                                                                         *)
(* A read feeds its bytes one by one (AfterFeeding, AfterDetecting,        *)
(* AfterBytes, AfterAnswers).  The inductions over them are on the set of  *)
(* the numbers of bytes for which the claim holds (SetInduction).          *)
(***************************************************************************)
EXTENDS Terminal, Widgets, FiniteSetTheorems, WellFoundedInduction, SequenceTheorems, TLAPS

(* Bytes in the order of their numbers, and sets of numbers one below the  *)
(* other.                                                                  *)
Byte == [c : STRING, id : Nat]
Rising(bs) == \A i, j \in 1 .. Len(bs) : i < j => bs[i].id < bs[j].id
Below(A, B) == \A x \in A, y \in B : x < y
IdSeq(bs) == [i \in DOMAIN bs |-> bs[i].id]

(* Every byte is in one place: sent (S), in the buffer (B), in the escape  *)
(* filter (R), still to come (the numbers L), or taken (G).                *)
Placed(S, B, R, L, G, all) ==
    /\ S \in Seq(Nat) /\ B \in Seq(Byte) /\ R \in Seq(Byte)
    /\ Increasing(S) /\ Rising(B) /\ Rising(R)
    /\ Below(Range(S), Ids(B)) /\ Below(Range(S), Ids(R)) /\ Below(Range(S), L)
    /\ Below(Ids(B), Ids(R)) /\ Below(Ids(B), L) /\ Below(Ids(R), L)
    /\ Range(S) \cup Ids(B) \cup Ids(R) \cup L \cup G = all
    /\ (Range(S) \cup Ids(B) \cup Ids(R) \cup L) \cap G = {}

(* A byte put behind others adds its number, and keeps the order when it   *)
(* is the highest.                                                         *)
LEMMA AppendFacts ==
    ASSUME NEW B \in Seq(Byte), NEW b \in Byte
    PROVE  /\ Append(B, b) \in Seq(Byte) /\ Ids(Append(B, b)) = Ids(B) \cup {b.id}
           /\ Rising(B) /\ Below(Ids(B), {b.id}) => Rising(Append(B, b))
<1>1. PICK r : r = Append(B, b)  OBVIOUS
<1>2. /\ r \in Seq(Byte) /\ Len(r) = Len(B) + 1 /\ Len(B) \in Nat /\ DOMAIN r = 1 .. Len(B) + 1
      /\ (\A i \in 1 .. Len(B) : r[i] = B[i]) /\ r[Len(B) + 1] = b /\ DOMAIN B = 1 .. Len(B)
  BY <1>1
<1>3. Ids(r) = Ids(B) \cup {b.id}  BY <1>2 DEF Ids
<1>4. ASSUME Rising(B), Below(Ids(B), {b.id})  PROVE Rising(r)
  <2>1. ASSUME NEW i \in 1 .. Len(r), NEW j \in 1 .. Len(r), i < j  PROVE r[i].id < r[j].id
    <3>1. i \in 1 .. Len(B) /\ B[i].id \in Ids(B)  BY <1>2, <2>1 DEF Ids
    <3>2. CASE j \in 1 .. Len(B)  BY <1>2, <1>4, <2>1, <3>1, <3>2 DEF Rising
    <3>3. CASE j = Len(B) + 1  BY <1>2, <1>4, <3>1, <3>3 DEF Below
    <3> QED  BY <1>2, <3>2, <3>3
  <2> QED  BY <2>1 DEF Rising
<1> QED  BY <1>1, <1>2, <1>3, <1>4

(* The numbers of bytes are natural numbers.                               *)
LEMMA IdsNat == ASSUME NEW B \in Seq(Byte) PROVE Ids(B) \subseteq Nat
<1>1. \A i \in DOMAIN B : B[i].id \in Nat
  <2>1. \A i \in DOMAIN B : B[i] \in Byte  OBVIOUS
  <2> QED  BY <2>1 DEF Byte
<1> QED  BY <1>1 DEF Ids

(* The empty sequence of bytes.                                            *)
LEMMA EmptyFacts == <<>> \in Seq(Byte) /\ Ids(<<>>) = {} /\ Rising(<<>>)
BY DEF Ids, Rising

(* Bytes written to the shell behind what was sent: the numbers that were  *)
(* sent are those of both, and increase when the new ones are higher.      *)
LEMMA IdSeqFacts ==
    ASSUME NEW S \in Seq(Nat), NEW B \in Seq(Byte)
    PROVE  /\ S \o IdSeq(B) \in Seq(Nat) /\ Range(S \o IdSeq(B)) = Range(S) \cup Ids(B)
           /\ Increasing(S) /\ Rising(B) /\ Below(Range(S), Ids(B)) => Increasing(S \o IdSeq(B))
<1>1. PICK q : q = IdSeq(B)  OBVIOUS
<1>2. /\ q \in Seq(Nat) /\ Len(q) = Len(B) /\ Len(B) \in Nat /\ DOMAIN B = 1 .. Len(B)
      /\ \A i \in 1 .. Len(B) : q[i] = B[i].id
  <2>1. Len(B) \in Nat /\ DOMAIN B = 1 .. Len(B) /\ \A i \in 1 .. Len(B) : B[i].id \in Nat
    <3>1. Len(B) \in Nat /\ DOMAIN B = 1 .. Len(B) /\ \A i \in 1 .. Len(B) : B[i] \in Byte  OBVIOUS
    <3> QED  BY <3>1 DEF Byte
  <2>2. q = [i \in 1 .. Len(B) |-> B[i].id]  BY <1>1, <2>1 DEF IdSeq
  <2>3. q \in [1 .. Len(B) -> Nat]  BY <2>1, <2>2
  <2>4. q \in Seq(Nat)  BY <2>1, <2>3, SeqDef
  <2> QED  BY <2>1, <2>2, <2>3, <2>4
<1>3. PICK r : r = S \o q  OBVIOUS
<1>n. PICK n : n = Len(S) /\ n \in Nat /\ DOMAIN S = 1 .. n  OBVIOUS
<1>4. /\ r \in Seq(Nat) /\ Len(r) = n + Len(B) /\ DOMAIN r = 1 .. n + Len(B)
      /\ \A i \in 1 .. n : r[i] = S[i]
      /\ \A i \in 1 .. Len(B) : r[n + i] = B[i].id
  <2>1. r \in Seq(Nat) /\ Len(r) = n + Len(B)
    <3>1. S \o q \in Seq(Nat) /\ Len(S \o q) = Len(S) + Len(q)  BY <1>2, ConcatProperties
    <3> QED  BY <1>2, <1>3, <1>n, <3>1
  <2>2. DOMAIN r = 1 .. n + Len(B)  BY <2>1
  <2>3. \A i \in 1 .. n + Len(q) : r[i] = IF i <= n THEN S[i] ELSE q[i - n]
    BY <1>2, <1>3, <1>n, ConcatProperties
  <2>4. ASSUME NEW i \in 1 .. n  PROVE r[i] = S[i]
    <3>1. i \in 1 .. n + Len(q) /\ i <= n  BY <1>2, <1>n
    <3> QED  BY <2>3, <3>1
  <2>5. ASSUME NEW i \in 1 .. Len(B)  PROVE r[n + i] = B[i].id
    <3>0. PICK k : k = n + i  OBVIOUS
    <3>1. k \in 1 .. n + Len(q) /\ ~(k <= n) /\ k - n = i  BY <1>2, <1>n, <3>0
    <3>2. r[k] = q[k - n]  BY <2>3, <3>1
    <3> QED  BY <1>2, <3>0, <3>1, <3>2
  <2> QED  BY <2>1, <2>2, <2>4, <2>5
<1>5. Range(r) = Range(S) \cup Ids(B)
  <2>1. ASSUME NEW i \in DOMAIN r  PROVE r[i] \in Range(S) \cup Ids(B)
    <3>1. CASE i \in 1 .. n  BY <1>n, <1>4, <3>1 DEF Range
    <3>2. CASE i \notin 1 .. n
      <4>1. i - n \in 1 .. Len(B) /\ n + (i - n) = i  BY <1>2, <1>n, <1>4, <3>2
      <4> QED  BY <1>2, <1>4, <4>1 DEF Ids
    <3> QED  BY <3>1, <3>2
  <2>2. ASSUME NEW i \in 1 .. n  PROVE S[i] \in Range(r)
    <3>1. i \in DOMAIN r  BY <1>2, <1>n, <1>4
    <3> QED  BY <1>4, <3>1 DEF Range
  <2>3. ASSUME NEW j \in 1 .. Len(B)  PROVE B[j].id \in Range(r)
    <3>1. n + j \in DOMAIN r  BY <1>2, <1>n, <1>4
    <3> QED  BY <1>4, <3>1 DEF Range
  <2>4. Range(r) \subseteq Range(S) \cup Ids(B)  BY <2>1 DEF Range
  <2>5. Range(S) \subseteq Range(r)  BY <1>n, <2>2 DEF Range
  <2>6. Ids(B) \subseteq Range(r)  BY <1>2, <2>3 DEF Ids
  <2> QED  BY <2>4, <2>5, <2>6
<1>6. ASSUME Increasing(S), Rising(B), Below(Range(S), Ids(B))  PROVE Increasing(r)
  <2>1. ASSUME NEW i \in DOMAIN r, NEW j \in DOMAIN r, i < j  PROVE r[i] < r[j]
    <3>0. i \in 1 .. n + Len(B) /\ j \in 1 .. n + Len(B)  BY <1>4
    <3>1. CASE i \in 1 .. n /\ j \in 1 .. n  BY <1>n, <1>4, <1>6, <2>1, <3>1 DEF Increasing
    <3>2. CASE i \in 1 .. n /\ j \notin 1 .. n
      <4>1. j - n \in 1 .. Len(B) /\ n + (j - n) = j  BY <1>2, <1>n, <3>0, <3>2
      <4>2. r[j] = B[j - n].id /\ r[i] = S[i]  BY <1>4, <3>2, <4>1
      <4>3. r[j] \in Ids(B) /\ r[i] \in Range(S)  BY <1>2, <1>n, <3>2, <4>1, <4>2 DEF Ids, Range
      <4> QED  BY <1>6, <4>3 DEF Below
    <3>3. CASE i \notin 1 .. n
      <4>0. i \in Int /\ j \in Int /\ i > n /\ j > n /\ Len(B) \in Nat
        BY <1>2, <1>n, <2>1, <3>0, <3>3
      <4>1. /\ j - n \in 1 .. Len(B) /\ n + (j - n) = j /\ i - n \in 1 .. Len(B) /\ n + (i - n) = i
            /\ i - n < j - n
        BY <1>n, <2>1, <3>0, <4>0
      <4>2. r[j] = B[j - n].id /\ r[i] = B[i - n].id  BY <1>4, <4>1
      <4> QED  BY <1>6, <4>1, <4>2 DEF Rising
    <3> QED  BY <3>1, <3>2, <3>3
  <2> QED  BY <2>1 DEF Increasing
<1> QED  BY <1>1, <1>3, <1>4, <1>5, <1>6

(* The next byte goes to the filter, to the buffer, or is taken.           *)
LEMMA ToFilter ==
    ASSUME NEW S, NEW B, NEW R, NEW L, NEW G, NEW all, NEW b \in Byte,
           Placed(S, B, R, L \cup {b.id}, G, all), Below({b.id}, L)
    PROVE  Placed(S, B, Append(R, b), L, G, all)
<1>1. /\ Append(R, b) \in Seq(Byte) /\ Ids(Append(R, b)) = Ids(R) \cup {b.id} /\ Rising(Append(R, b))
  BY AppendFacts DEF Placed, Below
<1>2. PICK r : r = Append(R, b)  OBVIOUS
<1> QED  BY <1>1, <1>2 DEF Placed, Below

(* The next byte goes behind the buffer, when the filter is empty.         *)
LEMMA ToBuffer ==
    ASSUME NEW S, NEW B, NEW L, NEW G, NEW all, NEW b \in Byte,
           Placed(S, B, <<>>, L \cup {b.id}, G, all), Below({b.id}, L)
    PROVE  Placed(S, Append(B, b), <<>>, L, G, all)
<1>1. /\ Append(B, b) \in Seq(Byte) /\ Ids(Append(B, b)) = Ids(B) \cup {b.id} /\ Rising(Append(B, b))
  BY AppendFacts DEF Placed, Below
<1>2. PICK r : r = Append(B, b)  OBVIOUS
<1>3. PICK e : e = <<>> /\ Ids(e) = {} /\ e \in Seq(Byte) /\ Rising(e)  BY EmptyFacts
<1> QED  BY <1>1, <1>2, <1>3 DEF Placed, Below

(* The next byte is taken.                                                 *)
LEMMA ByteTaken ==
    ASSUME NEW S, NEW B, NEW R, NEW L, NEW G, NEW all, NEW b \in Byte,
           Placed(S, B, R, L \cup {b.id}, G, all), Below({b.id}, L)
    PROVE  Placed(S, B, R, L, G \cup {b.id}, all)
<1>1. b.id \in Nat /\ \A x \in Nat : ~(x < x)  BY DEF Byte
<1>2. b.id \notin Range(S) \cup Ids(B) \cup Ids(R) \cup L
  BY <1>1 DEF Placed, Below
<1> QED  BY <1>2 DEF Placed, Below

(* What is held is sent or taken.                                          *)
LEMMA BufferSent ==
    ASSUME NEW S, NEW B, NEW R, NEW L, NEW G, NEW all, Placed(S, B, R, L, G, all)
    PROVE  Placed(S \o IdSeq(B), <<>>, R, L, G, all)
<1>1. /\ S \o IdSeq(B) \in Seq(Nat) /\ Range(S \o IdSeq(B)) = Range(S) \cup Ids(B) /\ Increasing(S \o IdSeq(B))
  BY IdSeqFacts DEF Placed
<1>2. PICK T : T = S \o IdSeq(B)  OBVIOUS
<1> QED  BY <1>1, <1>2, EmptyFacts DEF Placed, Below

(* What the filter holds is sent, when the buffer is empty.                *)
LEMMA FilterSent ==
    ASSUME NEW S, NEW R, NEW L, NEW G, NEW all, Placed(S, <<>>, R, L, G, all)
    PROVE  Placed(S \o IdSeq(R), <<>>, <<>>, L, G, all)
<1>1. /\ S \o IdSeq(R) \in Seq(Nat) /\ Range(S \o IdSeq(R)) = Range(S) \cup Ids(R) /\ Increasing(S \o IdSeq(R))
  BY IdSeqFacts DEF Placed
<1>2. PICK T : T = S \o IdSeq(R)  OBVIOUS
<1> QED  BY <1>1, <1>2, EmptyFacts DEF Placed, Below

(* What the buffer holds is taken.                                         *)
LEMMA BufferTaken ==
    ASSUME NEW S, NEW B, NEW R, NEW L, NEW G, NEW all, Placed(S, B, R, L, G, all)
    PROVE  Placed(S, <<>>, R, L, G \cup Ids(B), all)
<1>1. Ids(B) \cap (Range(S) \cup Ids(R) \cup L) = {}
  <2>1. Ids(B) \subseteq Nat /\ \A x \in Nat : ~(x < x)  BY IdsNat DEF Placed
  <2> QED  BY <2>1 DEF Placed, Below
<1> QED  BY <1>1, EmptyFacts DEF Placed, Below

(* What the filter holds is taken.                                         *)
LEMMA FilterTaken ==
    ASSUME NEW S, NEW B, NEW R, NEW L, NEW G, NEW all, Placed(S, B, R, L, G, all)
    PROVE  Placed(S, B, <<>>, L, G \cup Ids(R), all)
<1>1. Ids(R) \cap (Range(S) \cup Ids(B) \cup L) = {}
  <2>1. Ids(R) \subseteq Nat /\ \A x \in Nat : ~(x < x)  BY IdsNat DEF Placed
  <2> QED  BY <2>1 DEF Placed, Below
<1> QED  BY <1>1, EmptyFacts DEF Placed, Below

(* Sequences of bytes put behind each other, and cut.                      *)
LEMMA ConcatFacts ==
    ASSUME NEW B \in Seq(Byte), NEW D \in Seq(Byte)
    PROVE  /\ B \o D \in Seq(Byte) /\ Len(B \o D) = Len(B) + Len(D)
           /\ \A i \in 1 .. Len(B) : (B \o D)[i] = B[i]
           /\ \A i \in 1 .. Len(D) : (B \o D)[Len(B) + i] = D[i]
           /\ Ids(B \o D) = Ids(B) \cup Ids(D)
           /\ Rising(B) /\ Rising(D) /\ Below(Ids(B), Ids(D)) => Rising(B \o D)
<1>1. PICK r : r = B \o D  OBVIOUS
<1>m. PICK n : n = Len(B) /\ n \in Nat /\ DOMAIN B = 1 .. n  OBVIOUS
<1>k. PICK k : k = Len(D) /\ k \in Nat /\ DOMAIN D = 1 .. k  OBVIOUS
<1>n. n = Len(B) /\ n \in Nat /\ DOMAIN B = 1 .. n /\ k = Len(D) /\ k \in Nat /\ DOMAIN D = 1 .. k
  BY <1>m, <1>k
<1>2. r \in Seq(Byte) /\ Len(r) = n + k
  <2>1. B \o D \in Seq(Byte) /\ Len(B \o D) = Len(B) + Len(D)  BY ConcatProperties
  <2> QED  BY <1>1, <1>n, <2>1
<1>3. \A i \in 1 .. n + k : r[i] = IF i <= n THEN B[i] ELSE D[i - n]
  BY <1>1, <1>n, ConcatProperties
<1>4. DOMAIN r = 1 .. n + k  BY <1>2
<1>5. ASSUME NEW i \in 1 .. n  PROVE i \in DOMAIN r /\ r[i] = B[i]
  <2>1. i \in 1 .. n + k /\ i <= n  BY <1>n
  <2> QED  BY <1>3, <1>4, <2>1
<1>6. ASSUME NEW i \in 1 .. k  PROVE n + i \in DOMAIN r /\ r[n + i] = D[i]
  <2>0. PICK j : j = n + i  OBVIOUS
  <2>1. j \in 1 .. n + k /\ ~(j <= n) /\ j - n = i  BY <1>n, <2>0
  <2>2. r[j] = D[j - n]  BY <1>3, <2>1
  <2> QED  BY <1>4, <2>0, <2>1, <2>2
<1>7. ASSUME NEW i \in DOMAIN r, i \notin 1 .. n  PROVE i > n /\ i - n \in 1 .. k /\ r[i] = D[i - n]
  <2>1. i \in 1 .. n + k /\ ~(i <= n) /\ i > n /\ i - n \in 1 .. k  BY <1>4, <1>7, <1>n
  <2>2. r[i] = D[i - n]  BY <1>3, <2>1
  <2> QED  BY <2>1, <2>2
<1>8. Ids(r) = Ids(B) \cup Ids(D)
  <2>1. ASSUME NEW i \in DOMAIN r  PROVE r[i].id \in Ids(B) \cup Ids(D)
    <3>1. CASE i \in 1 .. n  BY <1>n, <1>5, <3>1 DEF Ids
    <3>2. CASE i \notin 1 .. n
      <4>1. i - n \in DOMAIN D /\ r[i] = D[i - n]  BY <1>7, <1>n, <3>2
      <4> QED  BY <4>1 DEF Ids
    <3> QED  BY <3>1, <3>2
  <2>2. Ids(r) \subseteq Ids(B) \cup Ids(D)  BY <2>1 DEF Ids
  <2>3. Ids(B) \subseteq Ids(r)
    <3>1. \A i \in DOMAIN B : B[i].id \in Ids(r)  BY <1>5, <1>n DEF Ids
    <3> QED  BY <3>1 DEF Ids
  <2>4. Ids(D) \subseteq Ids(r)
    <3>1. ASSUME NEW i \in DOMAIN D  PROVE D[i].id \in Ids(r)
      <4>1. n + i \in DOMAIN r /\ r[n + i] = D[i]  BY <1>6, <1>n
      <4> QED  BY <4>1 DEF Ids
    <3> QED  BY <3>1 DEF Ids
  <2> QED  BY <2>2, <2>3, <2>4
<1>9. ASSUME Rising(B), Rising(D), Below(Ids(B), Ids(D))  PROVE Rising(r)
  <2>1. ASSUME NEW i \in DOMAIN r, NEW j \in DOMAIN r, i < j  PROVE r[i].id < r[j].id
    <3>0. i \in Int /\ j \in Int /\ n \in Int  BY <1>4, <1>n
    <3>1. CASE i \in 1 .. n /\ j \in 1 .. n  BY <1>n, <1>5, <1>9, <2>1, <3>1 DEF Rising
    <3>2. CASE i \in 1 .. n /\ j \notin 1 .. n
      <4>1. r[i] = B[i] /\ i \in DOMAIN B  BY <1>5, <1>n, <3>2
      <4>2. r[j] = D[j - n] /\ j - n \in DOMAIN D  BY <1>7, <1>n, <3>2
      <4> QED  BY <1>9, <4>1, <4>2 DEF Ids, Below
    <3>3. CASE i \notin 1 .. n
      <4>1. i > n /\ j > n /\ j \notin 1 .. n  BY <1>7, <2>1, <3>0, <3>3
      <4>2. r[i] = D[i - n] /\ i - n \in 1 .. k /\ r[j] = D[j - n] /\ j - n \in 1 .. k  BY <1>7, <3>3, <4>1
      <4>3. i - n < j - n  BY <2>1, <3>0
      <4> QED  BY <1>9, <1>n, <4>2, <4>3 DEF Rising
    <3> QED  BY <3>1, <3>2, <3>3
  <2> QED  BY <1>2, <1>4, <2>1, <1>n DEF Rising
<1> QED  BY <1>1, <1>2, <1>5, <1>6, <1>8, <1>9, <1>n

(* A part of a sequence of bytes holds some of the bytes, in their order.  *)
LEMMA PartFacts ==
    ASSUME NEW B \in Seq(Byte), NEW a \in 1 .. Len(B) + 1, NEW z \in Int, z <= Len(B)
    PROVE  /\ SubSeq(B, a, z) \in Seq(Byte) /\ Ids(SubSeq(B, a, z)) \subseteq Ids(B)
           /\ Len(SubSeq(B, a, z)) = IF a <= z THEN z - a + 1 ELSE 0
           /\ \A i \in 1 .. Len(SubSeq(B, a, z)) : SubSeq(B, a, z)[i] = B[a + i - 1]
           /\ Rising(B) => Rising(SubSeq(B, a, z))
<1>1. PICK r : r = SubSeq(B, a, z)  OBVIOUS
<1>n. Len(B) \in Nat /\ DOMAIN B = 1 .. Len(B) /\ a \in Int  OBVIOUS
<1>2. /\ r \in Seq(Byte) /\ Len(r) = (IF a <= z THEN z - a + 1 ELSE 0) /\ Len(r) \in Nat
      /\ DOMAIN r = 1 .. Len(r)
      /\ \A i \in 1 .. Len(r) : r[i] = B[a + i - 1]
  <2>1. CASE a <= z
    <3>1. \A i \in a .. z : B[i] \in Byte  BY <1>n
    <3>2. r \in Seq(Byte)  BY <1>1, <1>n, <3>1, SubSeqProperties
    <3>3. Len(r) = z - a + 1  BY <1>1, <1>n, <2>1, SubSeqProperties
    <3>4. \A i \in 1 .. z - a + 1 : r[i] = B[a + i - 1]  BY <1>1, <1>n, <2>1, SubSeqProperties
    <3> QED  BY <2>1, <3>2, <3>3, <3>4
  <2>2. CASE ~(a <= z)
    <3>1. r = <<>>  BY <1>1, <1>n, <2>2
    <3> QED  BY <2>2, <3>1
  <2> QED  BY <2>1, <2>2
<1>3. ASSUME NEW i \in 1 .. Len(r)  PROVE a + i - 1 \in 1 .. Len(B) /\ r[i] = B[a + i - 1]
  BY <1>2, <1>n
<1>4. Ids(r) \subseteq Ids(B)
  <2>1. \A i \in DOMAIN r : r[i].id \in Ids(B)  BY <1>2, <1>3, <1>n DEF Ids
  <2> QED  BY <2>1 DEF Ids
<1>5. ASSUME Rising(B)  PROVE Rising(r)
  <2>1. ASSUME NEW i \in 1 .. Len(r), NEW j \in 1 .. Len(r), i < j  PROVE r[i].id < r[j].id
    <3>1. a + i - 1 < a + j - 1  BY <2>1, <1>2, <1>n
    <3> QED  BY <1>3, <1>5, <3>1 DEF Rising
  <2> QED  BY <2>1 DEF Rising
<1> QED  BY <1>1, <1>2, <1>4, <1>5

Upto(B, k) == SubSeq(B, 1, k)
Behind(B, k) == SubSeq(B, k + 1, Len(B))

(* A cut after the first k bytes: both sides keep their order, and every   *)
(* byte is on one side, the lower ones on the first.                       *)
LEMMA CutFacts ==
    ASSUME NEW B \in Seq(Byte), Rising(B), NEW k \in 0 .. Len(B)
    PROVE  /\ Upto(B, k) \in Seq(Byte) /\ Len(Upto(B, k)) = k /\ Rising(Upto(B, k))
           /\ \A i \in 1 .. k : Upto(B, k)[i] = B[i]
           /\ Behind(B, k) \in Seq(Byte) /\ Len(Behind(B, k)) = Len(B) - k /\ Rising(Behind(B, k))
           /\ \A i \in 1 .. Len(Behind(B, k)) : Behind(B, k)[i] = B[k + i]
           /\ Ids(Upto(B, k)) \cup Ids(Behind(B, k)) = Ids(B)
           /\ Below(Ids(Upto(B, k)), Ids(Behind(B, k))) /\ Ids(Upto(B, k)) \cap Ids(Behind(B, k)) = {}
<1>p. PICK P : P = Upto(B, k)  OBVIOUS
<1>q. PICK Q : Q = Behind(B, k)  OBVIOUS
<1>d. P = SubSeq(B, 1, k) /\ Q = SubSeq(B, k + 1, Len(B))  BY <1>p, <1>q DEF Upto, Behind
<1>n. Len(B) \in Nat /\ DOMAIN B = 1 .. Len(B) /\ k \in Nat /\ k <= Len(B)  OBVIOUS
<1>1. P \in Seq(Byte) /\ Len(P) = k /\ Rising(P) /\ (\A i \in 1 .. k : P[i] = B[i]) /\ DOMAIN P = 1 .. k
      /\ Ids(P) \subseteq Ids(B)
  <2>1. 1 \in 1 .. Len(B) + 1 /\ k \in Int  BY <1>n
  <2>2. /\ P \in Seq(Byte) /\ Ids(P) \subseteq Ids(B) /\ Len(P) = (IF 1 <= k THEN k - 1 + 1 ELSE 0)
        /\ (\A i \in 1 .. Len(P) : P[i] = B[1 + i - 1]) /\ Rising(P)
    BY <1>d, <1>n, <2>1, PartFacts
  <2>3. Len(P) = k  BY <1>n, <2>2
  <2>4. ASSUME NEW i \in 1 .. k  PROVE P[i] = B[i]
    <3>1. 1 + i - 1 = i  BY <1>n
    <3> QED  BY <2>2, <2>3, <3>1
  <2> QED  BY <2>2, <2>3, <2>4
<1>2. Q \in Seq(Byte) /\ Len(Q) = Len(B) - k /\ Rising(Q) /\ (\A i \in 1 .. Len(Q) : Q[i] = B[k + i])
      /\ DOMAIN Q = 1 .. Len(Q) /\ Ids(Q) \subseteq Ids(B)
  <2>1. k + 1 \in 1 .. Len(B) + 1 /\ Len(B) \in Int  BY <1>n
  <2>2. /\ Q \in Seq(Byte) /\ Ids(Q) \subseteq Ids(B)
        /\ Len(Q) = (IF k + 1 <= Len(B) THEN Len(B) - (k + 1) + 1 ELSE 0)
        /\ (\A i \in 1 .. Len(Q) : Q[i] = B[k + 1 + i - 1]) /\ Rising(Q)
    BY <1>d, <1>n, <2>1, PartFacts
  <2>3. Len(Q) = Len(B) - k
    <3>1. PICK n : n = Len(B) /\ n \in Nat /\ k \in 0 .. n  BY <1>n
    <3>2. (IF k + 1 <= n THEN n - (k + 1) + 1 ELSE 0) = n - k  BY ONLY <3>1
    <3> QED  BY <2>2, <3>1, <3>2
  <2>4. ASSUME NEW i \in 1 .. Len(Q)  PROVE Q[i] = B[k + i]
    <3>1. k + 1 + i - 1 = k + i  BY <1>n
    <3> QED  BY <2>2, <3>1
  <2> QED  BY <2>2, <2>3, <2>4
<1>3. Ids(B) \subseteq Ids(P) \cup Ids(Q)
  <2>1. ASSUME NEW i \in DOMAIN B  PROVE B[i].id \in Ids(P) \cup Ids(Q)
    <3>1. CASE i \in 1 .. k  BY <1>1, <3>1 DEF Ids
    <3>2. CASE i \notin 1 .. k
      <4>1. i - k \in 1 .. Len(Q) /\ k + (i - k) = i
        <5>1. PICK n : n = Len(B) /\ n \in Nat /\ k \in 0 .. n /\ i \in 1 .. n /\ Len(Q) = n - k
          BY <1>2, <1>n
        <5>2. i - k \in 1 .. n - k /\ k + (i - k) = i  BY ONLY <3>2, <5>1
        <5> QED  BY <5>1, <5>2
      <4>2. Q[i - k] = B[i] /\ i - k \in DOMAIN Q  BY <1>2, <4>1
      <4> QED  BY <4>2 DEF Ids
    <3> QED  BY <3>1, <3>2
  <2> QED  BY <2>1 DEF Ids
<1>4. Below(Ids(P), Ids(Q))
  <2>1. ASSUME NEW i \in DOMAIN P, NEW j \in DOMAIN Q  PROVE P[i].id < Q[j].id
    <3>1. i \in 1 .. Len(B) /\ k + j \in 1 .. Len(B) /\ i < k + j
      <4>1. PICK n : n = Len(B) /\ n \in Nat /\ k \in 0 .. n /\ i \in 1 .. k /\ j \in 1 .. n - k
        BY <1>1, <1>2, <1>n
      <4>2. i \in 1 .. n /\ k + j \in 1 .. n /\ i < k + j  BY ONLY <4>1
      <4> QED  BY <4>1, <4>2
    <3>2. B[i].id < B[k + j].id  BY <3>1 DEF Rising
    <3>3. P[i] = B[i] /\ Q[j] = B[k + j]  BY <1>1, <1>2
    <3> QED  BY <3>2, <3>3
  <2> QED  BY <2>1 DEF Ids, Below
<1>5. Ids(P) \cap Ids(Q) = {}
  <2>1. Ids(P) \subseteq Nat  BY <1>1, IdsNat
  <2>2. \A x \in Nat : ~(x < x)  OBVIOUS
  <2> QED  BY <1>4, <2>1, <2>2 DEF Below
<1> QED  BY <1>p, <1>q, <1>1, <1>2, <1>3, <1>4, <1>5

(* Some of what the filter holds moves to the buffer, the rest is taken.   *)
LEMMA FilterMoves ==
    ASSUME NEW S, NEW B, NEW R, NEW L, NEW G, NEW all, Placed(S, B, R, L, G, all),
           NEW D \in Seq(Byte), Rising(D), Ids(D) \subseteq Ids(R)
    PROVE  Placed(S, B \o D, <<>>, L, G \cup (Ids(R) \ Ids(D)), all)
<1>0. B \in Seq(Byte) /\ Rising(B) /\ Below(Ids(B), Ids(D))  BY DEF Placed, Below
<1>1. PICK r : r = B \o D  OBVIOUS
<1>2. r \in Seq(Byte) /\ Ids(r) = Ids(B) \cup Ids(D) /\ Rising(r)  BY <1>0, <1>1, ConcatFacts
<1>3. Ids(R) \cap (Range(S) \cup Ids(B) \cup L) = {}
  <2>1. Ids(R) \subseteq Nat /\ \A x \in Nat : ~(x < x)  BY IdsNat DEF Placed
  <2> QED  BY <2>1 DEF Placed, Below
<1>4. PICK e : e = <<>> /\ Ids(e) = {} /\ e \in Seq(Byte) /\ Rising(e)  BY EmptyFacts
<1>5. Placed(S, r, e, L, G \cup (Ids(R) \ Ids(D)), all)  BY <1>2, <1>3, <1>4 DEF Placed, Below
<1> QED  BY <1>1, <1>4, <1>5

(* The end of the buffer is taken, or some of what is to come.             *)
LEMMA BufferShortened ==
    ASSUME NEW S, NEW B, NEW R, NEW L, NEW G, NEW all, Placed(S, B, R, L, G, all),
           NEW k \in 0 .. Len(B)
    PROVE  Placed(S, Upto(B, k), R, L, G \cup Ids(Behind(B, k)), all)
<1>1. B \in Seq(Byte) /\ Rising(B)  BY DEF Placed
<1>2. PICK P : P = Upto(B, k)  OBVIOUS
<1>3. PICK Q : Q = Behind(B, k)  OBVIOUS
<1>4. /\ P \in Seq(Byte) /\ Rising(P) /\ Ids(P) \cup Ids(Q) = Ids(B) /\ Ids(P) \cap Ids(Q) = {}
  BY <1>1, <1>2, <1>3, CutFacts
<1>5. Ids(B) \cap (Range(S) \cup Ids(R) \cup L) = {}
  <2>1. Ids(B) \subseteq Nat /\ \A x \in Nat : ~(x < x)  BY IdsNat DEF Placed
  <2> QED  BY <2>1 DEF Placed, Below
<1>6. Placed(S, P, R, L, G \cup Ids(Q), all)  BY <1>4, <1>5 DEF Placed, Below
<1> QED  BY <1>2, <1>3, <1>6

(* Some of the bytes to come are taken.                                    *)
LEMMA LaterTaken ==
    ASSUME NEW S, NEW B, NEW R, NEW L, NEW G, NEW all, Placed(S, B, R, L, G, all),
           NEW E \in SUBSET L, E \subseteq Nat
    PROVE  Placed(S, B, R, L \ E, G \cup E, all)
<1>1. E \cap (Range(S) \cup Ids(B) \cup Ids(R)) = {}
  <2>1. \A x \in Nat : ~(x < x)  OBVIOUS
  <2> QED  BY <2>1 DEF Placed, Below
<1> QED  BY <1>1 DEF Placed, Below

-----------------------------------------------------------------------------
(* What the interceptor's and the loop's operators do to the bytes.        *)

(* The loop's state during a read: the buffer B, chat mode c, suppression  *)
(* s, the filter e, what was sent S and what was taken G.                  *)
LoopRecord(m) ==
    m = [ic |-> m.ic, sh |-> m.sh, cp |-> m.cp, timer |-> m.timer, sent |-> m.sent, gone |-> m.gone,
         blind |-> m.blind, asked |-> m.asked, queued |-> m.queued, triggered |-> m.triggered,
         chan |-> m.chan, redraw |-> m.redraw]

Interceptor(i, B, c, s, e) ==
    i = [buf |-> B, chat |-> c, supp |-> s, esc |-> e, content |-> i.content, recent |-> i.recent]

Has(m, B, c, s, e, S, G) ==
    LoopRecord(m) /\ Interceptor(m.ic, B, c, s, e) /\ m.sent = S /\ m.gone = G

(* Telling the completer that the line changed moves no byte.              *)
LEMMA ChangesHas ==
    ASSUME NEW m, NEW B, NEW c, NEW s, NEW e, NEW S, NEW G, Has(m, B, c, s, e, S, G)
    PROVE  Has(Changes(m), B, c, s, e, S, G)
<1> DEFINE told == m.sh.changed /\ ~m.sh.rl
<1>1. PICK x : x = [m.sh EXCEPT !.changed = FALSE]  OBVIOUS
<1>2. PICK y : y = IF told THEN on_input_changed(m.cp, m.sh.line, m.sh.seq) ELSE m.cp  OBVIOUS
<1>3. PICK z : z = ((m.blind /\ ~told) \/ (m.sh.changed /\ m.sh.rl))  OBVIOUS
<1>4. Changes(m) = [m EXCEPT !.sh = x, !.cp = y, !.blind = z]
  BY <1>1, <1>2, <1>3 DEF Changes, Has, LoopRecord
<1>5. PICK r : r = Changes(m)  OBVIOUS
<1> QED  BY <1>4, <1>5 DEF Has, LoopRecord, Interceptor

(* Forwarded sends its bytes to the shell, and no others.                  *)
LEMMA ForwardedHas ==
    ASSUME NEW m, NEW B, NEW c, NEW s, NEW e, NEW S, NEW G, Has(m, B, c, s, e, S, G), NEW bs
    PROVE  Has(Forwarded(m, bs), B, c, s, e, S \o IdSeq(bs), G)
<1> DEFINE cs == Classes(bs)
           report == m.sh.prompt /\ NeedsReport(cs)
           search == m.sh.prompt /\ ~NeedsReport(cs) /\ "^r" \in Range(cs)
           s1 == [m.sh EXCEPT !.rl = @ \/ report \/ search, !.isearch = @ \/ search]
           c1 == IF (report \/ search) /\ m.cp.ghost # None THEN Clear(m.cp) ELSE m.cp
<1>1. PICK x : x = feed_forwarded(s1, bs)  OBVIOUS
<1>2. PICK y : y = note_activity(c1)  OBVIOUS
<1>3. PICK z : z = (m.asked \/ (report /\ ~m.sh.rl))  OBVIOUS
<1>4. PICK w : w = m.sent \o IdSeq(bs)  OBVIOUS
<1>5. PICK r : r = [m EXCEPT !.sent = w, !.asked = z, !.sh = x, !.cp = y]  OBVIOUS
<1>6. Forwarded(m, bs) = Changes(r)
  BY <1>1, <1>2, <1>3, <1>4, <1>5 DEF Forwarded, Has, LoopRecord, IdSeq
<1>7. Has(r, B, c, s, e, S \o IdSeq(bs), G)  BY <1>4, <1>5 DEF Has, LoopRecord, Interceptor
<1> QED  BY <1>6, <1>7, ChangesHas

(* The flags that a typed key sets hold no byte.                           *)
LEMMA NoteTyping ==
    ASSUME NEW m, NEW B, NEW c, NEW s, NEW e, NEW S, NEW G, Has(m, B, c, s, e, S, G)
    PROVE  Has([m EXCEPT !.ic.content = TRUE, !.ic.recent = TRUE], B, c, s, e, S, G)
<1>0. PICK v : v = TRUE  OBVIOUS
<1>1. PICK r : r = [m EXCEPT !.ic.content = v]  OBVIOUS
<1>2. Has(r, B, c, s, e, S, G)  BY <1>1 DEF Has, LoopRecord, Interceptor
<1>3. PICK t : t = [r EXCEPT !.ic.recent = v]  OBVIOUS
<1>4. Has(t, B, c, s, e, S, G)  BY <1>2, <1>3 DEF Has, LoopRecord, Interceptor
<1> QED  BY <1>0, <1>1, <1>3, <1>4

(* Forward sends the bytes or, for a key that the ghost takes, takes them. *)
LEMMA ForwardHas ==
    ASSUME NEW m, NEW B, NEW c, NEW s, NEW e, NEW S, NEW G, Has(m, B, c, s, e, S, G), NEW bs
    PROVE  \/ Has(Forward(m, bs), B, c, s, e, S \o IdSeq(bs), G)
           \/ Has(Forward(m, bs), B, c, s, e, S, G \cup Ids(bs))
<1>1. PICK r : r = [m EXCEPT !.ic.content = TRUE, !.ic.recent = TRUE]  OBVIOUS
<1>2. Has(r, B, c, s, e, S, G)  BY <1>1, NoteTyping
<1>3. CASE Classes(bs) = <<"tab">> /\ r.cp.ghost # None
  <2>1. PICK x : x = Bumped(r.sh, r.sh.line \o r.cp.ghost)  OBVIOUS
  <2>2. PICK y : y = accept(r.cp)  OBVIOUS
  <2>3. Forward(m, bs) = [r EXCEPT !.gone = r.gone \cup Ids(bs), !.sh = x, !.cp = y]
    BY <1>1, <1>2, <1>3, <2>1, <2>2 DEF Forward, Lose, Has, LoopRecord
  <2>4. PICK t : t = Forward(m, bs)  OBVIOUS
  <2>5. Has(t, B, c, s, e, S, G \cup Ids(bs))  BY <1>2, <2>3, <2>4 DEF Has, LoopRecord, Interceptor
  <2> QED  BY <2>4, <2>5
<1>4. CASE Classes(bs) = <<"esc">> /\ r.cp.ghost # None
  <2>1. Classes(bs) # <<"tab">>  BY <1>4
  <2>2. PICK y : y = dismiss(r.cp)  OBVIOUS
  <2>3. Forward(m, bs) = [r EXCEPT !.gone = r.gone \cup Ids(bs), !.cp = y]
    BY <1>1, <1>2, <1>4, <2>1, <2>2 DEF Forward, Lose, Has, LoopRecord
  <2>4. PICK t : t = Forward(m, bs)  OBVIOUS
  <2>5. Has(t, B, c, s, e, S, G \cup Ids(bs))  BY <1>2, <2>3, <2>4 DEF Has, LoopRecord, Interceptor
  <2> QED  BY <2>4, <2>5
<1>5. CASE ~(Classes(bs) = <<"tab">> /\ r.cp.ghost # None) /\ ~(Classes(bs) = <<"esc">> /\ r.cp.ghost # None)
  <2>1. Forward(m, bs) = Forwarded(r, bs)  BY <1>1, <1>5 DEF Forward
  <2> QED  BY <1>2, <2>1, ForwardedHas
<1> QED  BY <1>3, <1>4, <1>5

(* Lose takes its bytes.                                                   *)
LEMMA LoseHas ==
    ASSUME NEW m, NEW B, NEW c, NEW s, NEW e, NEW S, NEW G, Has(m, B, c, s, e, S, G), NEW bs
    PROVE  Has(Lose(m, bs), B, c, s, e, S, G \cup Ids(bs))
<1>1. PICK r : r = Lose(m, bs)  OBVIOUS
<1> QED  BY <1>1 DEF Lose, Has, LoopRecord, Interceptor

(* An emptied interceptor has taken its buffer and has left chat mode.     *)
LEMMA EmptiedHas ==
    ASSUME NEW m, NEW B, NEW c, NEW s, NEW e, NEW S, NEW G, Has(m, B, c, s, e, S, G)
    PROVE  Has(Emptied(m), <<>>, FALSE, s, e, S, G \cup Ids(B))
<1>1. PICK r : r = Lose(m, B)  OBVIOUS
<1>2. Has(r, B, c, s, e, S, G \cup Ids(B))  BY <1>1, LoseHas
<1>3. m.ic.buf = B  BY DEF Has, Interceptor
<1>4. Emptied(m) = [r EXCEPT !.ic.buf = <<>>, !.ic.chat = FALSE]  BY <1>1, <1>3 DEF Emptied
<1>5. PICK t : t = Emptied(m)  OBVIOUS
<1>6. Has(t, <<>>, FALSE, s, e, S, G \cup Ids(B))
  <2>1. PICK u : u = [r EXCEPT !.ic.buf = <<>>]  OBVIOUS
  <2>2. Has(u, <<>>, c, s, e, S, G \cup Ids(B))  BY <1>2, <2>1 DEF Has, LoopRecord, Interceptor
  <2>3. PICK v : v = FALSE  OBVIOUS
  <2>4. t = [u EXCEPT !.ic.chat = v]  BY <1>4, <1>5, <2>1, <2>3
  <2>5. Has(t, <<>>, v, s, e, S, G \cup Ids(B))  BY <2>2, <2>4 DEF Has, LoopRecord, Interceptor
  <2> QED  BY <2>3, <2>5
<1> QED  BY <1>5, <1>6

(* Entering the chat takes the buffer.                                     *)
LEMMA ChatHas ==
    ASSUME NEW m, NEW B, NEW c, NEW s, NEW e, NEW S, NEW G, Has(m, B, c, s, e, S, G)
    PROVE  Has(Chat(m), <<>>, FALSE, s, e, S, G \cup Ids(B))
<1>1. PICK r : r = Emptied(m)  OBVIOUS
<1>2. Has(r, <<>>, FALSE, s, e, S, G \cup Ids(B))  BY <1>1, EmptiedHas
<1>3. PICK u : u = [r EXCEPT !.redraw = TRUE]  OBVIOUS
<1>4. Has(u, <<>>, FALSE, s, e, S, G \cup Ids(B))  BY <1>2, <1>3 DEF Has, LoopRecord, Interceptor
<1>5. PICK y : y = Clear(u.cp)  OBVIOUS
<1>6. Chat(m) = [u EXCEPT !.timer = FALSE, !.cp = y, !.queued = <<>>, !.chan = <<>>, !.triggered = FALSE]
  BY <1>1, <1>3, <1>4, <1>5 DEF Chat, enter_chat_mode, Has, LoopRecord
<1>7. PICK t : t = Chat(m)  OBVIOUS
<1>8. Has(t, <<>>, FALSE, s, e, S, G \cup Ids(B))  BY <1>4, <1>6, <1>7 DEF Has, LoopRecord, Interceptor
<1> QED  BY <1>7, <1>8

(* The answer to a byte that is kept moves no byte.                        *)
LEMMA BufferingHas ==
    ASSUME NEW m, NEW B, NEW c, NEW s, NEW e, NEW S, NEW G, Has(m, B, c, s, e, S, G)
    PROVE  Has(Buffering(m), B, c, s, e, S, G)
<1>1. PICK y : y = Clear(m.cp)  OBVIOUS
<1>2. PICK z : z = (m.timer /\ ~IsStrictPrefix(cfg.prefix, Classes(m.ic.buf)))  OBVIOUS
<1>3. \/ Buffering(m) = [m EXCEPT !.timer = TRUE, !.cp = y]
      \/ Buffering(m) = [m EXCEPT !.timer = z]
  BY <1>1, <1>2 DEF Buffering, Has, LoopRecord
<1>4. PICK t : t = Buffering(m)  OBVIOUS
<1> QED  BY <1>3, <1>4 DEF Has, LoopRecord, Interceptor

(* A lone escape is sent, or is taken by the ghost that it dismisses.      *)
LEMMA ForwardEscHas ==
    ASSUME NEW m, NEW B, NEW c, NEW s, NEW e, NEW S \in Seq(Nat), NEW G, Has(m, B, c, s, e, S, G),
           NEW bs \in Seq(Byte), Len(bs) = 1
    PROVE  \/ Has(ForwardEsc(m, bs), B, c, s, e, S \o IdSeq(bs), G)
           \/ Has(ForwardEsc(m, bs), B, c, s, e, S, G \cup Ids(bs))
<1>1. PICK r : r = [m EXCEPT !.ic.content = TRUE, !.ic.recent = TRUE]  OBVIOUS
<1>2. Has(r, B, c, s, e, S, G)  BY <1>1, NoteTyping
<1>3. PICK t : t = ForwardEsc(m, bs)  OBVIOUS
<1>4. CASE r.cp.ghost # None
  <2>1. PICK y : y = dismiss(r.cp)  OBVIOUS
  <2>2. t = [r EXCEPT !.gone = r.gone \cup Ids(bs), !.cp = y]
    BY <1>1, <1>2, <1>3, <1>4, <2>1 DEF ForwardEsc, Lose, Has, LoopRecord
  <2>3. Has(t, B, c, s, e, S, G \cup Ids(bs))  BY <1>2, <2>2 DEF Has, LoopRecord, Interceptor
  <2> QED  BY <1>3, <2>3
<1>5. CASE r.cp.ghost = None
  <2>1. PICK x : x = feed_forwarded(r.sh, bs)  OBVIOUS
  <2>2. PICK w : w = Append(r.sent, bs[1].id)  OBVIOUS
  <2>3. t = [r EXCEPT !.sent = w, !.sh = x]
    BY <1>1, <1>2, <1>3, <1>5, <2>1, <2>2 DEF ForwardEsc, Has, LoopRecord
  <2>4. w = S \o IdSeq(bs)
    <3>a. DOMAIN bs = 1 .. Len(bs) /\ \A i \in 1 .. Len(bs) : bs[i] \in Byte  BY ONLY bs \in Seq(Byte)
    <3>0. DOMAIN bs = 1 .. 1  BY <3>a
    <3>1. bs[1] \in Byte
      <4>1. 1 \in 1 .. Len(bs)  OBVIOUS
      <4> QED  BY <3>a, <4>1
    <3>2. IdSeq(bs) = <<bs[1].id>>
      <4>1. IdSeq(bs) = [i \in 1 .. 1 |-> bs[i].id]  BY <3>0 DEF IdSeq
      <4>2. IdSeq(bs) = [i \in 1 .. 1 |-> bs[1].id]  BY <4>1
      <4> QED  BY <4>2
    <3>3. bs[1].id \in Nat  BY <3>1 DEF Byte
    <3>4. r.sent = S  BY <1>2 DEF Has
    <3> QED  BY <2>2, <3>2, <3>3, <3>4
  <2>5. Has(t, B, c, s, e, S \o IdSeq(bs), G)  BY <1>2, <2>3, <2>4 DEF Has, LoopRecord, Interceptor
  <2> QED  BY <1>3, <2>5
<1> QED  BY <1>4, <1>5

(* A buffer outside chat mode is the first byte of a character.            *)
Half(B, c) == c = FALSE /\ B # <<>>

Modes == {"none", "esc", "csi", "paste", "paste_esc", "paste_csi"}

IcOK(B, c, s, e) ==
    /\ c \in BOOLEAN /\ s \in BOOLEAN
    /\ e = [mode |-> e.mode, raw |-> e.raw] /\ e.mode \in Modes
    /\ e.mode = "none" => e = NoFilter
    /\ e.mode = "esc" => Len(e.raw) = 1
    /\ s = TRUE => B = <<>> /\ c = FALSE
    /\ Half(B, c) => e = NoFilter

(* Every byte is in its place while those of L are still to be fed; only   *)
(* if h is the buffer half a character.                                    *)
Good(m, L, h) ==
    \E B, c, s, e, S, G : /\ Has(m, B, c, s, e, S, G) /\ IcOK(B, c, s, e)
                          /\ Placed(S, B, e.raw, L, G, 1 .. typed)
                          /\ Half(B, c) => h

(* The text of a bracketed paste is what the filter holds without the two  *)
(* markers.                                                                *)
LEMMA PastedFacts ==
    ASSUME NEW R \in Seq(Byte), Rising(R), NEW D, D = SubSeq(R, 5, Len(R) - 4)
    PROVE  D \in Seq(Byte) /\ Rising(D) /\ Ids(D) \subseteq Ids(R)
<1>0. PICK n : n = Len(R) /\ n \in Nat  OBVIOUS
<1>1. CASE n >= 4
  <2>1. 5 \in 1 .. n + 1 /\ n - 4 \in Int /\ n - 4 <= n  BY <1>0, <1>1
  <2> QED  BY <1>0, <2>1, PartFacts
<1>2. CASE ~(n >= 4)
  <2>1. 5 \in Int /\ n - 4 \in Int /\ n - 4 < 5  BY <1>0, <1>2
  <2>2. D = <<>>  BY <1>0, <2>1, SubSeqEmpty
  <2> QED  BY <2>2, EmptyFacts
<1> QED  BY <1>1, <1>2

(* The end of an escape sequence, by each of its results: the bytes that   *)
(* the filter held are sent, moved to the buffer or taken.                 *)
LEMMA EscResultKeeps ==
    ASSUME NEW m, NEW B, NEW c, NEW s, NEW S, NEW G, Has(m, B, c, s, NoFilter, S, G),
           IcOK(B, c, s, NoFilter), ~Half(B, c), NEW e, NEW L, Placed(S, B, e.raw, L, G, 1 .. typed),
           e.mode \in {"cancel", "ignore", "insert"}, NEW alone \in BOOLEAN, alone => Len(e.raw) = 1
    PROVE  Good(EscResult(m, e, alone), L, FALSE)
<1> DEFINE N == NoFilter
<1>0. PICK R : R = e.raw  OBVIOUS
<1>1. R \in Seq(Byte) /\ S \in Seq(Nat) /\ Rising(R)  BY <1>0 DEF Placed
<1>2. m.ic.chat = c /\ m.ic.buf = B /\ c \in BOOLEAN /\ s \in BOOLEAN /\ N.raw = <<>>
  BY DEF Has, Interceptor, IcOK, NoFilter
<1>3. PICK r : r = EscResult(m, e, alone)  OBVIOUS
<1>4. IcOK(<<>>, FALSE, s, N) /\ ~Half(<<>>, FALSE)  BY DEF IcOK, Half, NoFilter, Modes
<1>5. CASE e.mode = "cancel" /\ (c \/ B # <<>>)
  <2>1. PICK u : u = Lose(Emptied(m), R)  OBVIOUS
  <2>2. Has(u, <<>>, FALSE, s, N, S, (G \cup Ids(B)) \cup Ids(R))  BY <2>1, EmptiedHas, LoseHas
  <2>3. PICK v : v = FALSE  OBVIOUS
  <2>4. r = [u EXCEPT !.timer = v]  BY <1>0, <1>2, <1>3, <1>5, <2>1, <2>3 DEF EscResult
  <2>5. Has(r, <<>>, FALSE, s, N, S, (G \cup Ids(B)) \cup Ids(R))
    BY <2>2, <2>4 DEF Has, LoopRecord, Interceptor
  <2>6. Placed(S, <<>>, <<>>, L, (G \cup Ids(B)) \cup Ids(R), 1 .. typed)
    BY <1>0, BufferTaken, FilterTaken
  <2> QED  BY <1>2, <1>3, <1>4, <2>5, <2>6 DEF Good
<1>6. CASE e.mode = "ignore" /\ c
  <2>1. r = Lose(m, R)  BY <1>0, <1>2, <1>3, <1>6 DEF EscResult
  <2>2. Has(r, B, c, s, N, S, G \cup Ids(R))  BY <2>1, LoseHas
  <2>3. Placed(S, B, <<>>, L, G \cup Ids(R), 1 .. typed)  BY <1>0, FilterTaken
  <2> QED  BY <1>2, <1>3, <2>2, <2>3 DEF Good
<1>7. CASE e.mode = "insert" /\ (c \/ B # <<>>)
  <2>1. PICK D : D = SubSeq(R, 5, Len(R) - 4)  OBVIOUS
  <2>2. D \in Seq(Byte) /\ Rising(D) /\ Ids(D) \subseteq Ids(R)  BY <1>1, <2>1, PastedFacts
  <2>3. PICK u : u = [m EXCEPT !.ic.buf = m.ic.buf \o D, !.gone = m.gone \cup (Ids(R) \ Ids(D))]  OBVIOUS
  <2>4. Has(u, B \o D, c, s, N, S, G \cup (Ids(R) \ Ids(D)))
    <3>1. PICK X : X = B \o D  OBVIOUS
    <3>2. PICK Y : Y = G \cup (Ids(R) \ Ids(D))  OBVIOUS
    <3>3. PICK t : t = [m EXCEPT !.ic.buf = X]  OBVIOUS
    <3>4. Has(t, X, c, s, N, S, G)  BY <3>3 DEF Has, LoopRecord, Interceptor
    <3>5. u = [t EXCEPT !.gone = Y]
      <4>1. m.ic.buf = B /\ m.gone = G  BY <1>2 DEF Has
      <4> QED  BY <2>3, <3>1, <3>2, <3>3, <4>1
    <3>6. Has(u, X, c, s, N, S, Y)  BY <3>4, <3>5 DEF Has, LoopRecord, Interceptor
    <3> QED  BY <3>1, <3>2, <3>6
  <2>5. r = Buffering(u)
    BY <1>0, <1>2, <1>3, <1>7, <2>1, <2>3 DEF EscResult, Has, LoopRecord, Interceptor
  <2>6. Has(r, B \o D, c, s, N, S, G \cup (Ids(R) \ Ids(D)))  BY <2>4, <2>5, BufferingHas
  <2>7. Placed(S, B \o D, <<>>, L, G \cup (Ids(R) \ Ids(D)), 1 .. typed)  BY <1>0, <2>2, FilterMoves
  <2>8. c = TRUE /\ s = FALSE  BY <1>2, <1>7 DEF Half, IcOK
  <2>9. IcOK(B \o D, c, s, N) /\ ~Half(B \o D, c)  BY <2>8 DEF IcOK, Half, NoFilter, Modes
  <2> QED  BY <1>2, <1>3, <2>6, <2>7, <2>9 DEF Good
<1>8. CASE B = <<>> /\ c = FALSE
  <2>1. r = IF alone THEN ForwardEsc(m, R) ELSE Forward(m, R)
    BY <1>0, <1>2, <1>3, <1>8 DEF EscResult
  <2>2. \/ Has(r, B, c, s, N, S \o IdSeq(R), G)
        \/ Has(r, B, c, s, N, S, G \cup Ids(R))
    <3>1. CASE alone  BY <1>0, <1>1, <2>1, <3>1, ForwardEscHas
    <3>2. CASE ~alone  BY <2>1, <3>2, ForwardHas
    <3> QED  BY <3>1, <3>2
  <2>3. Placed(S, <<>>, R, L, G, 1 .. typed)  BY <1>0, <1>8
  <2>4. Placed(S \o IdSeq(R), <<>>, <<>>, L, G, 1 .. typed)  BY <2>3, FilterSent
  <2>5. Placed(S, <<>>, <<>>, L, G \cup Ids(R), 1 .. typed)  BY <2>3, FilterTaken
  <2> QED  BY <1>2, <1>3, <1>4, <1>8, <2>2, <2>4, <2>5 DEF Good
<1>9. \/ e.mode = "cancel" /\ (c \/ B # <<>>)
      \/ e.mode = "ignore" /\ c
      \/ e.mode = "insert" /\ (c \/ B # <<>>)
      \/ B = <<>> /\ c = FALSE
  BY <1>2 DEF Half
<1> QED  BY <1>5, <1>6, <1>7, <1>8, <1>9

(* A byte that is fed to a filter at work is kept in it.                   *)
LEMMA EscFeedFacts ==
    ASSUME NEW e, e.mode \in Modes \ {"none"}, NEW b
    PROVE  /\ EscFeed(e, b) = [mode |-> EscFeed(e, b).mode, raw |-> Append(e.raw, b)]
           /\ EscFeed(e, b).mode \in (Modes \ {"none", "esc"}) \cup {"cancel", "ignore", "insert"}
<1>1. PICK raw : raw = Append(e.raw, b)  OBVIOUS
<1>2. PICK p : p = Classes(SubSeq(e.raw, Len(e.raw) - 2 + 1, Len(e.raw)))  OBVIOUS
<1>3. PICK f : f = EscFeed(e, b)  OBVIOUS
<1>4. e.mode \in {"esc", "csi", "paste", "paste_esc", "paste_csi"}  BY DEF Modes
<1>5. \E x \in {"csi", "paste", "paste_esc", "paste_csi", "cancel", "ignore", "insert"} : f = [mode |-> x, raw |-> raw]
  <2>1. CASE e.mode = "esc"
    <3>1. f = [mode |-> IF b.c = "[" THEN "csi" ELSE "cancel", raw |-> raw]
      BY <1>1, <1>3, <2>1 DEF EscFeed
    <3> QED  BY <3>1
  <2>2. CASE e.mode = "csi"
    <3>1. f = [mode |-> CASE b.c \in Digits -> "csi"
                    [] b.c = "~" -> IF p = <<"[", "200">> THEN "paste" ELSE "ignore"
                    [] b.c \in Letters -> "ignore"
                    [] OTHER -> "cancel", raw |-> raw]
      BY <1>1, <1>2, <1>3, <2>2 DEF EscFeed
    <3> QED  BY <3>1 DEF Digits, Letters
  <2>3. CASE e.mode = "paste"
    <3>1. f = [mode |-> IF b.c = "esc" THEN "paste_esc" ELSE "paste", raw |-> raw]
      BY <1>1, <1>3, <2>3 DEF EscFeed
    <3> QED  BY <3>1
  <2>4. CASE e.mode = "paste_esc"
    <3>1. f = [mode |-> IF b.c = "[" THEN "paste_csi" ELSE "paste", raw |-> raw]
      BY <1>1, <1>3, <2>4 DEF EscFeed
    <3> QED  BY <3>1
  <2>5. CASE e.mode = "paste_csi"
    <3>1. f = [mode |-> CASE b.c \in Digits -> "paste_csi"
                    [] b.c = "~" /\ p = <<"[", "201">> -> "insert"
                    [] OTHER -> "paste", raw |-> raw]
      BY <1>1, <1>2, <1>3, <2>5 DEF EscFeed
    <3> QED  BY <3>1 DEF Digits
  <2> QED  BY <1>4, <2>1, <2>2, <2>3, <2>4, <2>5
<1> QED  BY <1>1, <1>3, <1>5 DEF Modes

(* The next byte is sent or taken at once, when nothing is held.           *)
LEMMA ByteForwarded ==
    ASSUME NEW S, NEW L, NEW G, NEW all, NEW b \in Byte,
           Placed(S, <<>>, <<>>, L \cup {b.id}, G, all), Below({b.id}, L)
    PROVE  /\ Placed(S \o IdSeq(<<b>>), <<>>, <<>>, L, G, all)
           /\ Placed(S, <<>>, <<>>, L, G \cup Ids(<<b>>), all)
<1>1. Append(<<>>, b) = <<b>>  OBVIOUS
<1>2. Placed(S, <<>>, <<b>>, L, G, all)
  <2>1. Placed(S, <<>>, Append(<<>>, b), L, G, all)  BY ToFilter
  <2> QED  BY <1>1, <2>1
<1> QED  BY <1>2, FilterSent, FilterTaken

(* A backspace on a buffer takes itself and the last character of the      *)
(* buffer.                                                                 *)
LEMMA BackspaceKeeps ==
    ASSUME NEW m, NEW B, NEW c, NEW s, NEW S, NEW G, Has(m, B, c, s, NoFilter, S, G),
           IcOK(B, c, s, NoFilter), ~Half(B, c), B # <<>>, NEW b \in Byte, NEW L, Below({b.id}, L),
           Placed(S, B, <<>>, L \cup {b.id}, G, 1 .. typed), Len(cfg.prefix) = 1
    PROVE  Good(Backspace(m, b), L, FALSE)
<1>0. B \in Seq(Byte) /\ m.ic.buf = B /\ m.ic.chat = c /\ c = TRUE /\ s = FALSE /\ NoFilter.raw = <<>>
  BY DEF Has, Interceptor, IcOK, Half, Placed, NoFilter
<1>1. PICK x : x = IF Last(B).c = "u2" THEN 2 ELSE 1  OBVIOUS
<1>2. PICK P : P = SubSeq(B, 1, Len(B) - x)  OBVIOUS
<1>3. PICK k : k \in 0 .. Len(B) /\ P = Upto(B, k) /\ Len(P) = k /\ P \in Seq(Byte)
  <2>0. PICK n : n = Len(B) /\ n \in Nat /\ n > 0  BY <1>0
  <2>1. B \in Seq(Byte) /\ Rising(B)  BY DEF Placed
  <2>2. CASE n - x >= 0
    <3>1. PICK k : k = n - x  OBVIOUS
    <3>2. k \in 0 .. n  BY <1>1, <2>0, <2>2, <3>1
    <3>3. P = Upto(B, k)  BY <1>2, <2>0, <3>1 DEF Upto
    <3> QED  BY <2>0, <2>1, <3>2, <3>3, CutFacts
  <2>3. CASE ~(n - x >= 0)
    <3>1. 1 \in Int /\ n - x \in Int /\ n - x < 1 /\ 0 \in Int /\ 0 < 1 /\ 0 \in 0 .. n  BY <1>1, <2>0, <2>3
    <3>2. P = <<>>  BY <1>2, <2>0, <3>1, SubSeqEmpty
    <3>3. Upto(B, 0) = <<>>  BY <3>1, SubSeqEmpty DEF Upto
    <3> QED  BY <2>0, <2>1, <3>1, <3>2, <3>3, CutFacts
  <2> QED  BY <2>2, <2>3
<1>4. PICK Q : Q = Behind(B, k)  OBVIOUS
<1>5. Q \in Seq(Byte) /\ Q = SubSeq(B, Len(P) + 1, Len(B))
  <2>1. B \in Seq(Byte) /\ Rising(B)  BY DEF Placed
  <2> QED  BY <1>3, <1>4, <2>1, CutFacts DEF Behind
<1>6. Ids(Append(Q, b)) = Ids(Q) \cup {b.id}  BY <1>5, AppendFacts
<1>7. PICK v : v = (c /\ k >= 1)  OBVIOUS
<1>8. PICK u : u = Lose(m, Append(Q, b))  OBVIOUS
<1>9. Has(u, B, c, s, NoFilter, S, G \cup (Ids(Q) \cup {b.id}))
  <2>1. Has(u, B, c, s, NoFilter, S, G \cup Ids(Append(Q, b)))  BY <1>8, LoseHas
  <2> QED  BY <1>6, <2>1
<1>10. PICK r : r = Backspace(m, b)  OBVIOUS
<1>11. r = [u EXCEPT !.ic.buf = P, !.ic.chat = v]
  <2>1. u.ic.chat = c  BY <1>9 DEF Has, Interceptor
  <2>2. r = [u EXCEPT !.ic.buf = P, !.ic.chat = @ /\ Len(P) >= Len(cfg.prefix)]
    BY <1>0, <1>1, <1>2, <1>5, <1>8, <1>10 DEF Backspace
  <2> QED  BY <1>3, <1>7, <1>9, <2>1, <2>2 DEF Has, LoopRecord, Interceptor
<1>12. Has(r, P, v, s, NoFilter, S, G \cup (Ids(Q) \cup {b.id}))
  <2>1. PICK t : t = [u EXCEPT !.ic.buf = P]  OBVIOUS
  <2>2. Has(t, P, c, s, NoFilter, S, G \cup (Ids(Q) \cup {b.id}))
    BY <1>9, <2>1 DEF Has, LoopRecord, Interceptor
  <2>3. r = [t EXCEPT !.ic.chat = v]  BY <1>11, <2>1
  <2> QED  BY <2>2, <2>3 DEF Has, LoopRecord, Interceptor
<1>13. Placed(S, P, <<>>, L, G \cup (Ids(Q) \cup {b.id}), 1 .. typed)
  <2>1. Placed(S, Upto(B, k), <<>>, L \cup {b.id}, G \cup Ids(Behind(B, k)), 1 .. typed)
    BY <1>3, BufferShortened
  <2>2. Placed(S, P, <<>>, L \cup {b.id}, G \cup Ids(Q), 1 .. typed)  BY <1>3, <1>4, <2>1
  <2>3. Placed(S, P, <<>>, L, (G \cup Ids(Q)) \cup {b.id}, 1 .. typed)  BY <2>2, ByteTaken
  <2>4. (G \cup Ids(Q)) \cup {b.id} = G \cup (Ids(Q) \cup {b.id})  OBVIOUS
  <2> QED  BY <2>3, <2>4
<1>14. v \in BOOLEAN /\ (v = FALSE => P = <<>>)
  <2>1. v = (k >= 1)  BY <1>0, <1>7
  <2>2. k = 0 => P = <<>>  BY <1>3
  <2>3. k \in Nat  BY <1>3
  <2>4. CASE k = 0
    <3>1. ~(k >= 1)  BY <2>4
    <3> QED  BY <2>1, <2>2, <2>4, <3>1
  <2>5. CASE k # 0
    <3>1. k >= 1  BY <2>3, <2>5
    <3> QED  BY <2>1, <3>1
  <2> QED  BY <2>4, <2>5
<1>15. IcOK(P, v, s, NoFilter) /\ ~Half(P, v)  BY <1>0, <1>14 DEF IcOK, Half, NoFilter, Modes
<1> QED  BY <1>0, <1>10, <1>12, <1>13, <1>15 DEF Good

(* What Flush, Typed and handle_enter do with a buffer that ends in the    *)
(* byte b.                                                                 *)
LEMMA BufferForwarded ==
    ASSUME NEW m, NEW B, NEW c, NEW s, NEW S, NEW G, Has(m, B, c, s, NoFilter, S, G), c = FALSE,
           NEW L, Placed(S, B, <<>>, L, G, 1 .. typed), s \in BOOLEAN
    PROVE  Good(Forward([m EXCEPT !.ic.buf = <<>>], B), L, FALSE)
<1>1. PICK u : u = [m EXCEPT !.ic.buf = <<>>]  OBVIOUS
<1>2. PICK E : E = <<>>  OBVIOUS
<1>3. Has(u, E, c, s, NoFilter, S, G)  BY <1>1, <1>2 DEF Has, LoopRecord, Interceptor
<1>4. PICK r : r = Forward(u, B)  OBVIOUS
<1>5. \/ Has(r, <<>>, c, s, NoFilter, S \o IdSeq(B), G)
      \/ Has(r, <<>>, c, s, NoFilter, S, G \cup Ids(B))
  BY <1>2, <1>3, <1>4, ForwardHas
<1>6. Placed(S \o IdSeq(B), <<>>, <<>>, L, G, 1 .. typed) /\ Placed(S, <<>>, <<>>, L, G \cup Ids(B), 1 .. typed)
  BY BufferSent, BufferTaken
<1>7. IcOK(<<>>, c, s, NoFilter) /\ ~Half(<<>>, c) /\ NoFilter.raw = <<>>  BY DEF IcOK, Half, NoFilter, Modes
<1> QED  BY <1>1, <1>4, <1>5, <1>6, <1>7 DEF Good

(* Entering the chat leaves nothing in the buffer.                         *)
LEMMA ChatKeeps ==
    ASSUME NEW m, NEW B, NEW c, NEW s, NEW S, NEW G, Has(m, B, c, s, NoFilter, S, G),
           NEW L, Placed(S, B, <<>>, L, G, 1 .. typed), s \in BOOLEAN
    PROVE  Good(Chat(m), L, FALSE)
<1>1. Has(Chat(m), <<>>, FALSE, s, NoFilter, S, G \cup Ids(B))  BY ChatHas
<1>2. Placed(S, <<>>, <<>>, L, G \cup Ids(B), 1 .. typed)  BY BufferTaken
<1>3. IcOK(<<>>, FALSE, s, NoFilter) /\ ~Half(<<>>, FALSE) /\ NoFilter.raw = <<>>
  BY DEF IcOK, Half, NoFilter, Modes
<1> QED  BY <1>1, <1>2, <1>3 DEF Good

(* A byte that was put behind the buffer: the buffer is sent, kept for the *)
(* chat, or kept as the first half of a character.                         *)
LEMMA TypedKeeps ==
    ASSUME NEW m, NEW B, NEW c, NEW s, NEW S, NEW G, Has(m, B, c, s, NoFilter, S, G),
           c \in BOOLEAN, s = FALSE, NEW L, Placed(S, B, <<>>, L, G, 1 .. typed),
           B # <<>>, Len(cfg.prefix) = 1, NEW b, Last(B) = b
    PROVE  Good(Typed(m), L, b.c = "u1")
<1>0. m.ic.buf = B /\ m.ic.chat = c /\ NoFilter.raw = <<>> /\ B \in Seq(Byte) /\ Len(B) \in Nat /\ Len(B) # 0
  BY DEF Has, Interceptor, NoFilter, Placed
<1>1. PICK n : n = Len(Classes(B))  OBVIOUS
<1>2. n = Len(B)
  <2>1. DOMAIN B = 1 .. Len(B)  BY <1>0
  <2>2. Classes(B) = [i \in 1 .. Len(B) |-> B[i].c]  BY <2>1 DEF Classes
  <2> QED  BY <1>0, <1>1, <2>2
<1>3. PICK r : r = Typed(m)  OBVIOUS
<1>4. PICK g : g = (n = 1 /\ (m.ic.recent \/ (~cfg.developer /\ m.ic.content)))  OBVIOUS
<1>5. PICK w : w = (n <= Len(cfg.prefix) /\ IsPrefix(Classes(B), cfg.prefix))  OBVIOUS
<1>6. CASE ~c /\ w /\ ~g
  <2>1. n = 1  BY <1>0, <1>2, <1>5, <1>6
  <2>2. PICK v : v = TRUE  OBVIOUS
  <2>3. PICK u : u = [m EXCEPT !.ic.chat = v]  OBVIOUS
  <2>4. r = Buffering(u)
    BY <1>0, <1>1, <1>3, <1>4, <1>5, <1>6, <2>1, <2>2, <2>3 DEF Typed
  <2>5. Has(u, B, v, s, NoFilter, S, G)  BY <2>3 DEF Has, LoopRecord, Interceptor
  <2>6. Has(r, B, v, s, NoFilter, S, G)  BY <2>4, <2>5, BufferingHas
  <2>7. IcOK(B, v, s, NoFilter) /\ ~Half(B, v)  BY <2>2 DEF IcOK, Half, NoFilter, Modes
  <2> QED  BY <1>0, <1>3, <2>6, <2>7 DEF Good
<1>7. CASE c
  <2>1. r = Chat(m) \/ r = Buffering(m)  BY <1>0, <1>3, <1>7 DEF Typed
  <2>2. CASE r = Chat(m)
    <3>1. s \in BOOLEAN  OBVIOUS
    <3>2. Good(r, L, FALSE)  BY <2>2, <3>1, ChatKeeps
    <3> QED  BY <1>3, <3>2 DEF Good
  <2>3. CASE r = Buffering(m)
    <3>1. Has(r, B, c, s, NoFilter, S, G)  BY <2>3, BufferingHas
    <3>2. IcOK(B, c, s, NoFilter) /\ ~Half(B, c)  BY <1>7 DEF IcOK, Half, NoFilter, Modes
    <3> QED  BY <1>0, <1>3, <3>1, <3>2 DEF Good
  <2> QED  BY <2>1, <2>2, <2>3
<1>8. CASE ~c /\ ~(w /\ ~g)
  <2>1. r = Flush(m)  BY <1>0, <1>1, <1>3, <1>4, <1>5, <1>8 DEF Typed
  <2>2. CASE b.c = "u1"
    <3>1. r = m  BY <1>0, <2>1, <2>2 DEF Flush
    <3>2. IcOK(B, c, s, NoFilter)  BY <1>8 DEF IcOK, Half, NoFilter, Modes
    <3> QED  BY <1>0, <1>3, <2>2, <3>1, <3>2 DEF Good
  <2>3. CASE b.c # "u1"
    <3>1. r = Forward([m EXCEPT !.ic.buf = <<>>], B)  BY <1>0, <2>1, <2>3 DEF Flush
    <3>2. Good(r, L, FALSE)  BY <1>8, <3>1, BufferForwarded
    <3> QED  BY <1>3, <3>2 DEF Good
  <2> QED  BY <2>2, <2>3
<1> QED  BY <1>6, <1>7, <1>8

(* One byte: it is in its place afterwards, and only the first byte of a   *)
(* character is left in the buffer outside chat mode.                      *)
LEMMA FeedKeeps ==
    ASSUME NEW m, NEW b \in Byte, NEW L, Below({b.id}, L), Len(cfg.prefix) = 1,
           Good(m, L \cup {b.id}, b.c = "u2")
    PROVE  Good(feed_byte(m, b), L, b.c = "u1")
<1>0. PICK B, c, s, e, S, G : /\ Has(m, B, c, s, e, S, G) /\ IcOK(B, c, s, e)
                              /\ Placed(S, B, e.raw, L \cup {b.id}, G, 1 .. typed)
                              /\ Half(B, c) => b.c = "u2"
  BY DEF Good
<1>1. /\ m.ic.buf = B /\ m.ic.chat = c /\ m.ic.supp = s /\ m.ic.esc = e /\ c \in BOOLEAN /\ s \in BOOLEAN
      /\ NoFilter.raw = <<>>
  BY <1>0 DEF Has, Interceptor, IcOK, NoFilter
<1>2. PICK r : r = feed_byte(m, b)  OBVIOUS
<1>3. SUFFICES Good(r, L, FALSE) \/ Good(r, L, b.c = "u1")  BY <1>2 DEF Good
<1>4. CASE e # NoFilter
  <2>1. e.mode \in Modes \ {"none"} /\ ~Half(B, c)  BY <1>0, <1>4 DEF IcOK
  <2>2. PICK f : f = EscFeed(e, b)  OBVIOUS
  <2>3. /\ f = [mode |-> f.mode, raw |-> f.raw] /\ f.raw = Append(e.raw, b)
        /\ f.mode \in (Modes \ {"none", "esc"}) \cup {"cancel", "ignore", "insert"}
    BY <2>1, <2>2, EscFeedFacts
  <2>4. Placed(S, B, f.raw, L, G, 1 .. typed)
    <3>1. Placed(S, B, Append(e.raw, b), L, G, 1 .. typed)  BY <1>0, ToFilter
    <3> QED  BY <2>3, <3>1
  <2>5. CASE f.mode \in {"cancel", "ignore", "insert"}
    <3>1. PICK u : u = [m EXCEPT !.ic.esc = NoFilter]  OBVIOUS
    <3>2. PICK N : N = NoFilter  OBVIOUS
    <3>3. Has(u, B, c, s, N, S, G)  BY <1>0, <3>1, <3>2 DEF Has, LoopRecord, Interceptor
    <3>4. r = EscResult(u, f, FALSE)  BY <1>1, <1>2, <1>4, <2>2, <2>5, <3>1 DEF feed_byte
    <3>5. IcOK(B, c, s, N)  BY <1>0, <3>2 DEF IcOK, NoFilter, Modes
    <3>6. Good(EscResult(u, f, FALSE), L, FALSE)
      BY <2>1, <2>4, <2>5, <3>2, <3>3, <3>5, EscResultKeeps
    <3> QED  BY <3>4, <3>6
  <2>6. CASE f.mode \in Modes \ {"none", "esc"}
    <3>1. r = [m EXCEPT !.ic.esc = f]
      BY <1>1, <1>2, <1>4, <2>2, <2>6 DEF feed_byte, Modes
    <3>2. Has(r, B, c, s, f, S, G)  BY <1>0, <3>1 DEF Has, LoopRecord, Interceptor
    <3>3. IcOK(B, c, s, f)  BY <1>0, <2>1, <2>3, <2>6 DEF IcOK
    <3> QED  BY <2>1, <2>4, <3>2, <3>3 DEF Good
  <2> QED  BY <2>3, <2>5, <2>6
<1>5. CASE e = NoFilter /\ b.c = "esc"
  <2>0. ~Half(B, c)  BY <1>0, <1>5
  <2>1. PICK f : f = [mode |-> "esc", raw |-> <<b>>]  OBVIOUS
  <2>2. r = [m EXCEPT !.ic.esc = f]  BY <1>1, <1>2, <1>5, <2>1 DEF feed_byte
  <2>3. Has(r, B, c, s, f, S, G)  BY <1>0, <2>2 DEF Has, LoopRecord, Interceptor
  <2>4. Placed(S, B, f.raw, L, G, 1 .. typed)
    <3>1. Placed(S, B, Append(<<>>, b), L, G, 1 .. typed)  BY <1>0, <1>1, <1>5, ToFilter
    <3>2. Append(<<>>, b) = f.raw  BY <2>1
    <3> QED  BY <3>1, <3>2
  <2>5. IcOK(B, c, s, f)  BY <1>0, <2>0, <2>1 DEF IcOK, Modes
  <2> QED  BY <2>0, <2>3, <2>4, <2>5 DEF Good
<1>6. ASSUME e = NoFilter, b.c # "esc"  PROVE Good(r, L, FALSE) \/ Good(r, L, b.c = "u1")
  <2>0. Placed(S, B, <<>>, L \cup {b.id}, G, 1 .. typed) /\ Has(m, B, c, s, NoFilter, S, G) /\ IcOK(B, c, s, NoFilter)
    BY <1>0, <1>1, <1>6
  <2>1. ASSUME B = <<>>, r = Forward(m, <<b>>)  PROVE Good(r, L, FALSE)
    <3>1. \/ Has(r, B, c, s, NoFilter, S \o IdSeq(<<b>>), G)
          \/ Has(r, B, c, s, NoFilter, S, G \cup Ids(<<b>>))
      BY <2>0, <2>1, ForwardHas
    <3>2. /\ Placed(S \o IdSeq(<<b>>), <<>>, <<>>, L, G, 1 .. typed)
          /\ Placed(S, <<>>, <<>>, L, G \cup Ids(<<b>>), 1 .. typed)
      BY <2>0, <2>1, ByteForwarded
    <3>3. ~Half(B, c)  BY <2>1 DEF Half
    <3> QED  BY <1>1, <2>0, <2>1, <3>1, <3>2, <3>3 DEF Good
  <2>d. PICK D : D = Append(B, b)  OBVIOUS
  <2>u. PICK u : u = [m EXCEPT !.ic.buf = D]  OBVIOUS
  <2>2. u = [m EXCEPT !.ic.buf = D] /\ D = Append(B, b)  BY <2>d, <2>u
  <2>k. ~s => r = FeedKey(m, b)  BY <1>1, <1>2, <1>6 DEF feed_byte
  <2>3. Has(u, D, c, s, NoFilter, S, G)  BY <2>0, <2>u DEF Has, LoopRecord, Interceptor
  <2>4. Placed(S, D, <<>>, L, G, 1 .. typed)  BY <2>0, <2>2, ToBuffer
  <2>5. B \in Seq(Byte)  BY <2>0 DEF Placed
  <2>6. D # <<>> /\ Last(D) = b  BY <2>2, <2>5 DEF Last
  <2>7. CASE s
    <3>1. B = <<>>  BY <2>0, <2>7 DEF IcOK
    <3>2. r = Forward(m, <<b>>)  BY <1>1, <1>2, <1>6, <2>7 DEF feed_byte
    <3> QED  BY <2>1, <3>1, <3>2
  <2>8. CASE ~s /\ b.c = "tab" /\ c
    <3>1. r = Lose(m, <<b>>)  BY <1>1, <2>k, <2>8 DEF FeedKey
    <3>2. Has(r, B, c, s, NoFilter, S, G \cup Ids(<<b>>))  BY <2>0, <3>1, LoseHas
    <3>3. Ids(<<b>>) = {b.id}  BY DEF Ids
    <3>4. Placed(S, B, <<>>, L, G \cup {b.id}, 1 .. typed)  BY <2>0, ByteTaken
    <3>5. ~Half(B, c)  BY <2>8 DEF Half
    <3> QED  BY <1>1, <2>0, <3>2, <3>3, <3>4, <3>5 DEF Good
  <2>9. CASE ~s /\ b.c = "tab" /\ ~c
    <3>1. r = Forward([m EXCEPT !.ic.buf = <<>>], D)  BY <1>1, <2>k, <2>2, <2>9 DEF FeedKey
    <3>2. [m EXCEPT !.ic.buf = <<>>] = [u EXCEPT !.ic.buf = <<>>]
      BY <2>0, <2>2 DEF Has, LoopRecord, Interceptor
    <3>3. c = FALSE  BY <1>1, <2>9
    <3> QED  BY <1>1, <2>3, <2>4, <3>1, <3>2, <3>3, BufferForwarded
  <2>10. CASE ~s /\ b.c = "bs"
    <3>0. ~Half(B, c)  BY <1>0, <2>10
    <3>1. CASE B # <<>>
      <4>1. c  BY <1>1, <3>0, <3>1 DEF Half
      <4>2. r = Backspace(m, b)  BY <1>1, <2>k, <2>10, <3>1, <4>1 DEF FeedKey
      <4> QED  BY <2>0, <3>0, <3>1, <4>2, BackspaceKeeps
    <3>2. CASE B = <<>>
      <4>1. r = Forward(m, <<b>>)  BY <1>1, <2>k, <2>10, <3>2 DEF FeedKey
      <4> QED  BY <2>1, <3>2, <4>1
    <3> QED  BY <3>1, <3>2
  <2>11. CASE ~s /\ b.c = "cr"
    <3>1. r = handle_enter(u)
      BY <1>1, <2>k, <2>0, <2>2, <2>11 DEF FeedKey, Has, LoopRecord, Interceptor
    <3>2. u.ic.chat = c /\ u.ic.buf = D  BY <2>3 DEF Has, Interceptor
    <3>3. CASE c
      <4>1. r = Chat(u)  BY <3>1, <3>2, <3>3 DEF handle_enter
      <4> QED  BY <1>1, <2>3, <2>4, <4>1, ChatKeeps
    <3>4. CASE ~c
      <4>1. PICK t : t = Forward([u EXCEPT !.ic.buf = <<>>], D)  OBVIOUS
      <4>2. PICK v : v = FALSE  OBVIOUS
      <4>3. r = [t EXCEPT !.ic.content = v]  BY <3>1, <3>2, <3>4, <4>1, <4>2 DEF handle_enter
      <4>4. c = FALSE  BY <1>1, <3>4
      <4>5. Good(t, L, FALSE)  BY <1>1, <2>3, <2>4, <4>1, <4>4, BufferForwarded
      <4>6. PICK B2, c2, s2, e2, S2, G2 : /\ Has(t, B2, c2, s2, e2, S2, G2) /\ IcOK(B2, c2, s2, e2)
                              /\ Placed(S2, B2, e2.raw, L, G2, 1 .. typed) /\ ~Half(B2, c2)
        BY <4>5 DEF Good
      <4>7. Has(r, B2, c2, s2, e2, S2, G2)  BY <4>3, <4>6 DEF Has, LoopRecord, Interceptor
      <4> QED  BY <4>6, <4>7 DEF Good
    <3> QED  BY <3>3, <3>4
  <2>12. CASE ~s /\ b.c \notin {"tab", "bs", "cr"}
    <3>1. r = Typed(u)
      BY <1>1, <2>k, <2>0, <2>2, <2>12 DEF FeedKey, Has, LoopRecord, Interceptor
    <3>2. s = FALSE  BY <1>1, <2>12
    <3> QED  BY <1>1, <2>3, <2>4, <2>6, <3>1, <3>2, TypedKeeps
  <2> QED  BY <1>1, <2>7, <2>8, <2>9, <2>10, <2>11, <2>12
<1> QED  BY <1>4, <1>5, <1>6

(* The end of a read.                                                      *)
LEMMA FinishKeeps ==
    ASSUME NEW m, NEW L, NEW h, Good(m, L, h)
    PROVE  Good(finish_batch(m), L, h)
<1>0. PICK B, c, s, e, S, G : /\ Has(m, B, c, s, e, S, G) /\ IcOK(B, c, s, e)
                              /\ Placed(S, B, e.raw, L, G, 1 .. typed) /\ (Half(B, c) => h)
  BY DEF Good
<1>1. m.ic.esc = e  BY <1>0 DEF Has, Interceptor
<1>2. CASE e.mode # "esc"  BY <1>1, <1>2 DEF finish_batch
<1>3. CASE e.mode = "esc"
  <2>1. e # NoFilter /\ ~Half(B, c) /\ Len(e.raw) = 1  BY <1>0, <1>3 DEF IcOK, NoFilter
  <2>2. PICK f : f = [e EXCEPT !.mode = "cancel"]  OBVIOUS
  <2>3. f.mode = "cancel" /\ f.raw = e.raw  BY <1>0, <2>2 DEF IcOK
  <2>4. PICK N : N = NoFilter  OBVIOUS
  <2>5. PICK u : u = [m EXCEPT !.ic.esc = N]  OBVIOUS
  <2>6. Has(u, B, c, s, N, S, G)  BY <1>0, <2>5 DEF Has, LoopRecord, Interceptor
  <2>7. IcOK(B, c, s, N)  BY <1>0, <2>4 DEF IcOK, NoFilter, Modes
  <2>8. finish_batch(m) = EscResult(u, f, TRUE)  BY <1>1, <1>3, <2>2, <2>4, <2>5 DEF finish_batch
  <2>9. Good(EscResult(u, f, TRUE), L, FALSE)
    <3>0. f.raw = e.raw  BY <2>3
    <3>1. Placed(S, B, f.raw, L, G, 1 .. typed)  BY <1>0, <3>0
    <3>2. Len(f.raw) = 1  BY <2>1, <3>0
    <3> QED  BY <2>1, <2>3, <2>4, <2>6, <2>7, <3>1, <3>2, EscResultKeeps
  <2> QED  BY <2>8, <2>9 DEF Good
<1> QED  BY <1>2, <1>3

-----------------------------------------------------------------------------
(* Reads of several bytes.                                                 *)

(* Every nonempty set of natural numbers has a least element.              *)
LEMMA Least == ASSUME NEW T \in SUBSET Nat, T # {} PROVE \E m \in T : \A k \in T : m <= k
<1>0. \E R : R = OpToRel(<, Nat) /\ IsWellFoundedOn(R, Nat)
  BY NatLessThanWellFounded, Zenon
<1>1. PICK R : R = OpToRel(<, Nat) /\ IsWellFoundedOn(R, Nat)  BY <1>0, Zenon
<1>2. IsWellFoundedOn(R, Nat)  BY <1>1, Zenon
<1>3. \A x, y \in Nat : x < y => <<x, y>> \in R
  <2>1. R = {ss \in Nat \X Nat : ss[1] < ss[2]}  BY <1>1, Zenon DEF OpToRel
  <2> QED  BY ONLY <2>1
<1>4. \E m \in T : \A y \in T : ~ (<<y, m>> \in R)  BY <1>2, WFMin
<1>5. PICK m \in T : \A y \in T : ~ (<<y, m>> \in R)  BY <1>4
<1>6. \A k \in T : m <= k
  <2> SUFFICES ASSUME NEW k \in T  PROVE m <= k  OBVIOUS
  <2>1. m \in Nat /\ k \in Nat  OBVIOUS
  <2>2. ~(k < m)
    <3>1. ~(<<k, m>> \in R)  BY <1>5
    <3> QED  BY <1>3, <2>1, <3>1
  <2> QED  BY ONLY <2>1, <2>2
<1> QED  BY <1>6

(* Induction up to N, on the set of the numbers that have the property.    *)
LEMMA SetInduction ==
    ASSUME NEW T, 0 \in T, NEW N \in Nat, \A n \in 0 .. N - 1 : n \in T => n + 1 \in T
    PROVE  \A n \in 0 .. N : n \in T
<1> SUFFICES ASSUME \E n \in 0 .. N : n \notin T PROVE FALSE OBVIOUS
<1>0. PICK U : U = {n \in 0 .. N : n \notin T}  OBVIOUS
<1>1. U # {} /\ U \in SUBSET Nat BY <1>0
<1>2. PICK m \in U : \A k \in U : m <= k BY <1>1, Least
<1>3. m # 0 /\ m \in Nat /\ m-1 \in 0 .. N - 1 /\ m \notin T BY <1>0
<1>4. m-1 \in T BY <1>2, <1>3, <1>0
<1> QED BY <1>3, <1>4

(* The bytes behind the first k.                                           *)
LEMMA BehindIds ==
    ASSUME NEW B \in Seq(Byte), Rising(B), NEW k \in 0 .. Len(B)
    PROVE  Ids(Behind(B, k)) = {B[j].id : j \in k + 1 .. Len(B)}
<1>1. PICK n : n = Len(B) /\ n \in Nat /\ k \in 0 .. n  OBVIOUS
<1>2. PICK Q : Q = Behind(B, k)  OBVIOUS
<1>3. Q \in Seq(Byte) /\ Len(Q) = n - k /\ \A i \in 1 .. Len(Q) : Q[i] = B[k + i]
  <2>1. /\ Behind(B, k) \in Seq(Byte) /\ Len(Behind(B, k)) = Len(B) - k
        /\ \A i \in 1 .. Len(Behind(B, k)) : Behind(B, k)[i] = B[k + i]
    BY CutFacts
  <2> QED  BY <1>1, <1>2, <2>1
<1>4. DOMAIN Q = 1 .. n - k  BY <1>3
<1>5. ASSUME NEW i \in 1 .. n - k  PROVE k + i \in k + 1 .. n /\ Q[i].id = B[k + i].id
  BY <1>1, <1>3
<1>6. ASSUME NEW j \in k + 1 .. n  PROVE j - k \in 1 .. n - k /\ Q[j - k].id = B[j].id
  <2>1. j - k \in 1 .. n - k /\ k + (j - k) = j  BY <1>1
  <2>2. Q[j - k] = B[k + (j - k)]  BY <1>3, <2>1
  <2> QED  BY <2>1, <2>2
<1>7. Ids(Q) \subseteq {B[j].id : j \in k + 1 .. n}  BY <1>4, <1>5 DEF Ids
<1>8. {B[j].id : j \in k + 1 .. n} \subseteq Ids(Q)
  <2>1. ASSUME NEW j \in k + 1 .. n  PROVE B[j].id \in Ids(Q)
    <3>1. j - k \in DOMAIN Q /\ Q[j - k].id = B[j].id  BY <1>4, <1>6
    <3> QED  BY <3>1 DEF Ids
  <2> QED  BY <2>1
<1> QED  BY <1>1, <1>2, <1>7, <1>8

(* The bytes behind the first k are the next one and those behind it, and  *)
(* the next one is the lowest.                                             *)
LEMMA NextBehind ==
    ASSUME NEW B \in Seq(Byte), Rising(B), NEW k \in 0 .. Len(B) - 1
    PROVE  /\ Ids(Behind(B, k)) = {B[k + 1].id} \cup Ids(Behind(B, k + 1))
           /\ Below({B[k + 1].id}, Ids(Behind(B, k + 1))) /\ B[k + 1] \in Byte
<1>1. PICK n : n = Len(B) /\ n \in Nat /\ k \in 0 .. n /\ k + 1 \in 0 .. n /\ k \in Nat  OBVIOUS
<1>2. Ids(Behind(B, k)) = {B[j].id : j \in k + 1 .. n}  BY <1>1, BehindIds
<1>3. Ids(Behind(B, k + 1)) = {B[j].id : j \in k + 1 + 1 .. n}  BY <1>1, BehindIds
<1>4. k + 1 .. n = {k + 1} \cup (k + 1 + 1 .. n)  BY <1>1
<1>5. \A j \in k + 1 + 1 .. n : B[k + 1].id < B[j].id
  <2>1. ASSUME NEW j \in k + 1 + 1 .. n  PROVE B[k + 1].id < B[j].id
    <3>1. k + 1 \in 1 .. n /\ j \in 1 .. n /\ k + 1 < j  BY <1>1
    <3> QED  BY <1>1, <3>1 DEF Rising
  <2> QED  BY <2>1
<1>6. B[k + 1] \in Byte  BY <1>1
<1>7. Below({B[k + 1].id}, Ids(Behind(B, k + 1)))  BY <1>3, <1>5 DEF Below
<1>8. Ids(Behind(B, k)) = {B[k + 1].id} \cup Ids(Behind(B, k + 1))  BY <1>2, <1>3, <1>4
<1> QED  BY <1>6, <1>7, <1>8

(* Behind no byte are all bytes, and behind all of them none.              *)
LEMMA AllBehind ==
    ASSUME NEW B \in Seq(Byte), Rising(B)
    PROVE  Ids(Behind(B, 0)) = Ids(B) /\ Ids(Behind(B, Len(B))) = {}
<1>1. PICK n : n = Len(B) /\ n \in Nat /\ 0 \in 0 .. n /\ n \in 0 .. n /\ DOMAIN B = 1 .. n  OBVIOUS
<1>2. Ids(Behind(B, 0)) = {B[j].id : j \in 0 + 1 .. n}  BY <1>1, BehindIds
<1>3. Ids(Behind(B, n)) = {B[j].id : j \in n + 1 .. n}  BY <1>1, BehindIds
<1>4. 0 + 1 = 1 /\ n + 1 .. n = {}  BY <1>1
<1> QED  BY <1>1, <1>2, <1>3, <1>4 DEF Ids

(* Some function satisfies the recursion of AfterFeeding.                 *)
LEMMA AfterFeedingExists ==
    ASSUME NEW m0, NEW bs, NEW N \in Nat
    PROVE  \E f : f = [i \in 0 .. N |-> IF i = 0 THEN m0 ELSE feed_byte(f[i - 1], bs[i])]
<1>0. PICK T : T = {n \in 0 .. N : \E f : f = [i \in 0 .. n |-> IF i = 0 THEN m0 ELSE feed_byte(f[i - 1], bs[i])]}
  OBVIOUS
<1>1. 0 \in T
  <2>0. PICK f : f = [i \in 0 .. 0 |-> m0]  OBVIOUS
  <2>1. f = [i \in 0 .. 0 |-> IF i = 0 THEN m0 ELSE feed_byte(f[i - 1], bs[i])]
    BY <2>0
  <2> QED  BY <1>0, <2>1
<1>2. ASSUME NEW n \in 0 .. N - 1, n \in T  PROVE n + 1 \in T
  <2>1. PICK f : f = [i \in 0 .. n |-> IF i = 0 THEN m0 ELSE feed_byte(f[i - 1], bs[i])]
    BY <1>0, <1>2
  <2>2. PICK g : g = [i \in 0 .. n + 1 |-> IF i = n + 1 THEN feed_byte(f[n], bs[n + 1]) ELSE f[i]]
    OBVIOUS
  <2>3. \A i \in 0 .. n + 1 : g[i] = IF i = 0 THEN m0 ELSE feed_byte(g[i - 1], bs[i])
    <3> SUFFICES ASSUME NEW i \in 0 .. n + 1
                 PROVE g[i] = IF i = 0 THEN m0 ELSE feed_byte(g[i - 1], bs[i])
      OBVIOUS
    <3>1. CASE i = n + 1
      <4>1. g[i - 1] = f[n]  BY <2>2, <3>1
      <4> QED  BY <2>2, <3>1, <4>1
    <3>2. CASE i = 0  BY <2>1, <2>2, <3>2
    <3>3. CASE i \in 1 .. n
      <4>1. g[i - 1] = f[i - 1] /\ g[i] = f[i]  BY <2>2, <3>3
      <4> QED  BY <2>1, <3>3, <4>1
    <3> QED  BY <3>1, <3>2, <3>3
  <2>4. g = [i \in 0 .. n + 1 |-> IF i = 0 THEN m0 ELSE feed_byte(g[i - 1], bs[i])]
    BY <2>2, <2>3
  <2> QED  BY <1>0, <2>4
<1>3. \A n \in 0 .. N : n \in T
  <2>1. \A n \in 0 .. N - 1 : n \in T => n + 1 \in T  BY <1>2
  <2> QED  BY ONLY N \in Nat, <1>1, <2>1, SetInduction
<1>4. N \in T  BY ONLY N \in Nat, <1>3
<1> QED  BY <1>0, <1>4

(* AfterFeeding satisfies its recursion.                                   *)
LEMMA FeedingSteps ==
    ASSUME NEW m0, NEW bs, Len(bs) \in Nat
    PROVE  AfterFeeding(m0, bs) = [i \in 0 .. Len(bs) |-> IF i = 0 THEN m0 ELSE feed_byte(AfterFeeding(m0, bs)[i - 1], bs[i])]
BY AfterFeedingExists DEF AfterFeeding

(* The first condition under which feeding may find or leave half a        *)
(* character in the buffer: before byte k + 1.                             *)
HalfBefore(bs, k) == bs # <<>> /\ IF k = 0 THEN bs[1].c = "u2" ELSE bs[k].c = "u1"

(* A read of bytes that holds whole characters, except at its ends, is fed *)
(* byte by byte: by induction on how many were fed, each is in its place.  *)
LEMMA ReadKeeps ==
    ASSUME NEW m0, NEW bs \in Seq(Byte), Rising(bs), NEW L, Below(Ids(bs), L), Len(cfg.prefix) = 1,
           \A i \in 1 .. Len(bs) - 1 : bs[i].c = "u1" => bs[i + 1].c = "u2",
           Good(m0, Ids(bs) \cup L, bs # <<>> /\ bs[1].c = "u2")
    PROVE  Good(AfterFeeding(m0, bs)[Len(bs)], L, bs # <<>> /\ bs[Len(bs)].c = "u1")
<1>n. PICK n : n = Len(bs) /\ n \in Nat  OBVIOUS
<1>f. PICK F : F = AfterFeeding(m0, bs)  OBVIOUS
<1>0. F = [i \in 0 .. n |-> IF i = 0 THEN m0 ELSE feed_byte(F[i - 1], bs[i])]  BY <1>n, <1>f, FeedingSteps
<1>t. PICK T : T = {k \in 0 .. n : Good(F[k], Ids(Behind(bs, k)) \cup L, HalfBefore(bs, k))}  OBVIOUS
<1>1. 0 \in T
  <2>1. F[0] = m0 /\ 0 \in 0 .. n  BY <1>0, <1>n
  <2>2. Ids(Behind(bs, 0)) = Ids(bs)  BY AllBehind
  <2>3. Good(m0, Ids(Behind(bs, 0)) \cup L, HalfBefore(bs, 0))  BY <2>2 DEF Good, HalfBefore
  <2> QED  BY <1>t, <2>1, <2>3
<1>2. ASSUME NEW k \in 0 .. n - 1, k \in T  PROVE k + 1 \in T
  <2>1. PICK b : b = bs[k + 1]  OBVIOUS
  <2>2. PICK M : M = Ids(Behind(bs, k + 1)) \cup L  OBVIOUS
  <2>3. /\ Ids(Behind(bs, k)) = {b.id} \cup Ids(Behind(bs, k + 1)) /\ b \in Byte
        /\ Below({b.id}, Ids(Behind(bs, k + 1)))
    BY <1>n, <2>1, NextBehind
  <2>4. Below({b.id}, M)
    <3>1. k + 1 \in DOMAIN bs  BY <1>n
    <3>2. b.id \in Ids(bs)  BY <2>1, <3>1 DEF Ids
    <3> QED  BY <2>2, <2>3, <3>2 DEF Below
  <2>5. HalfBefore(bs, k) => b.c = "u2"
    <3>1. CASE k = 0  BY <2>1, <3>1 DEF HalfBefore
    <3>2. CASE k # 0
      <4>1. k \in 1 .. Len(bs) - 1  BY <1>n, <3>2
      <4> QED  BY <2>1, <3>2, <4>1 DEF HalfBefore
    <3> QED  BY <3>1, <3>2
  <2>6. Ids(Behind(bs, k)) \cup L = M \cup {b.id}  BY <2>2, <2>3
  <2>7. Good(F[k], M \cup {b.id}, b.c = "u2")
    <3>1. Good(F[k], M \cup {b.id}, HalfBefore(bs, k))  BY <1>t, <1>2, <2>6
    <3> QED  BY <2>5, <3>1 DEF Good
  <2>8. Good(feed_byte(F[k], b), M, b.c = "u1")  BY <2>3, <2>4, <2>7, FeedKeeps
  <2>9. F[k + 1] = feed_byte(F[k], b) /\ k + 1 \in 0 .. n
    <3>0. PICK j : j = k + 1  OBVIOUS
    <3>1. j \in 0 .. n /\ j # 0 /\ j - 1 = k  BY <1>n, <3>0
    <3>2. F[j] = feed_byte(F[j - 1], bs[j])  BY <1>0, <3>1
    <3> QED  BY <2>1, <3>0, <3>1, <3>2
  <2>10. b.c = "u1" => HalfBefore(bs, k + 1)
    <3>1. bs # <<>> /\ k + 1 # 0  BY <1>n
    <3> QED  BY <2>1, <3>1 DEF HalfBefore
  <2>11. Good(F[k + 1], M, HalfBefore(bs, k + 1))  BY <2>8, <2>9, <2>10 DEF Good
  <2> QED  BY <1>t, <2>2, <2>9, <2>11
<1>3. \A k \in 0 .. n : k \in T
  <2>1. \A k \in 0 .. n - 1 : k \in T => k + 1 \in T  BY <1>2
  <2>2. n \in Nat  BY <1>n
  <2> QED  BY ONLY <2>2, <1>1, <2>1, SetInduction
<1>4. Good(F[n], Ids(Behind(bs, n)) \cup L, HalfBefore(bs, n))
  <2>1. n \in 0 .. n  BY <1>n
  <2>2. n \in T  BY <1>3, <2>1
  <2> QED  BY <1>t, <2>2
<1>5. Ids(Behind(bs, n)) \cup L = L  BY <1>n, AllBehind
<1>6. HalfBefore(bs, n) => bs # <<>> /\ bs[n].c = "u1"
  <2>1. bs # <<>> => n # 0  BY <1>n
  <2> QED  BY <2>1 DEF HalfBefore
<1>7. Good(F[n], L, HalfBefore(bs, n))  BY <1>4, <1>5
<1>8. Good(F[n], L, bs # <<>> /\ bs[n].c = "u1")  BY <1>6, <1>7 DEF Good
<1> QED  BY <1>f, <1>n, <1>8

-----------------------------------------------------------------------------
(* Cursor reports.                                                         *)

(* The first byte of a character is followed by the second, except at the  *)
(* end.                                                                    *)
Pairs(bs) == \A i \in 1 .. Len(bs) - 1 : bs[i].c = "u1" => bs[i + 1].c = "u2"
EndsHalf(bs) == bs # <<>> /\ bs[Len(bs)].c = "u1"

(* Characters stay whole when sequences are put behind each other where no *)
(* character is cut.                                                       *)
LEMMA PairsConcat ==
    ASSUME NEW A \in Seq(Byte), NEW B \in Seq(Byte), Pairs(A), Pairs(B), B # <<>>,
           EndsHalf(A) => B[1].c = "u2"
    PROVE  /\ Pairs(A \o B) /\ A \o B # <<>> /\ (A \o B)[Len(A \o B)] = B[Len(B)]
           /\ A # <<>> => (A \o B)[1] = A[1]
           /\ A = <<>> => (A \o B)[1] = B[1]
<1>m. PICK n : n = Len(A) /\ n \in Nat  OBVIOUS
<1>k. PICK k : k = Len(B) /\ k \in Nat /\ k > 0  OBVIOUS
<1>1. PICK r : r = A \o B  OBVIOUS
<1>2. /\ r \in Seq(Byte) /\ Len(r) = n + k
      /\ \A i \in 1 .. n : r[i] = A[i]
      /\ \A i \in 1 .. k : r[n + i] = B[i]
  BY <1>m, <1>k, <1>1, ConcatFacts
<1>3. ASSUME NEW i \in 1 .. Len(r) - 1, r[i].c = "u1"  PROVE r[i + 1].c = "u2"
  <2>1. CASE i \in 1 .. n - 1
    <3>1. i \in 1 .. n /\ i + 1 \in 1 .. n  BY <1>m, <2>1
    <3>2. r[i] = A[i] /\ r[i + 1] = A[i + 1]  BY <1>2, <3>1
    <3> QED  BY <1>3, <1>m, <2>1, <3>2 DEF Pairs
  <2>2. CASE i = n
    <3>1. n \in 1 .. n /\ 1 \in 1 .. k /\ n > 0  BY <1>2, <1>k, <1>m, <2>2
    <3>2. r[n] = A[n] /\ r[n + 1] = B[1]  BY <1>2, <3>1
    <3>3. A # <<>>  BY <1>m, <3>1
    <3>4. EndsHalf(A)  BY <1>3, <1>m, <2>2, <3>2, <3>3 DEF EndsHalf
    <3> QED  BY <2>2, <3>2, <3>4
  <2>3. CASE i > n
    <3>1. PICK j : j = i - n  OBVIOUS
    <3>2. j \in 1 .. k - 1 /\ j \in 1 .. k /\ j + 1 \in 1 .. k /\ n + j = i /\ n + (j + 1) = i + 1
      BY <1>2, <1>m, <1>k, <2>3, <3>1
    <3>3. r[n + j] = B[j] /\ r[n + (j + 1)] = B[j + 1]  BY <1>2, <3>2
    <3>4. r[i] = B[j] /\ r[i + 1] = B[j + 1]  BY <3>2, <3>3
    <3> QED  BY <1>3, <1>k, <3>2, <3>4 DEF Pairs
  <2> QED  BY <1>2, <1>m, <1>k, <2>1, <2>2, <2>3
<1>4. r # <<>> /\ r[Len(r)] = B[k]
  <2>1. k \in 1 .. k /\ n + k > 0  BY <1>m, <1>k
  <2>2. r[n + k] = B[k]  BY <1>2, <2>1
  <2> QED  BY <1>2, <2>1, <2>2
<1>5. A # <<>> => r[1] = A[1]
  <2>1. A # <<>> => 1 \in 1 .. n  BY <1>m
  <2> QED  BY <1>2, <2>1
<1>6. A = <<>> => r[1] = B[1]
  <2>1. ASSUME A = <<>>  PROVE r[1] = B[1]
    <3>1. n = 0 /\ 1 \in 1 .. k /\ n + 1 = 1  BY <1>m, <1>k, <2>1
    <3>2. r[n + 1] = B[1]  BY <1>2, <3>1
    <3> QED  BY <3>1, <3>2
  <2> QED  BY <2>1
<1> QED  BY <1>1, <1>k, <1>3, <1>4, <1>5, <1>6 DEF Pairs

(* What the detector has let through, what it holds and what it has taken, *)
(* while the bytes of L are still to be read, of all that there were.      *)
Detected(d, L, all) ==
    /\ d = [held |-> d.held, out |-> d.out, eaten |-> d.eaten]
    /\ Placed(<<>>, d.out, d.held, L, d.eaten, all)
    /\ \A i \in 1 .. Len(d.held) : d.held[i].c # "u1"
    /\ Pairs(d.out)

(* One byte for the detector of cursor reports: what it lets through,      *)
(* holds and has taken stay in order, and it lets a character pass whole.  *)
LEMMA DsrFeedKeeps ==
    ASSUME NEW d, NEW L, NEW all, NEW b \in Byte, Detected(d, L \cup {b.id}, all), Below({b.id}, L),
           EndsHalf(d.out) => d.held = <<>> /\ b.c = "u2"
    PROVE  /\ Detected(DsrFeed(d, b), L, all)
           /\ EndsHalf(DsrFeed(d, b).out) => DsrFeed(d, b).held = <<>> /\ b.c = "u1"
           /\ d.out # <<>> => DsrFeed(d, b).out # <<>> /\ DsrFeed(d, b).out[1] = d.out[1]
           /\ d.out = <<>> /\ d.held = <<>> /\ b.c = "u2"
                 => DsrFeed(d, b).out # <<>> /\ DsrFeed(d, b).out[1] = b
<1>0. PICK out : out = d.out  OBVIOUS
<1>1. PICK held : held = d.held  OBVIOUS
<1>2. PICK eaten : eaten = d.eaten  OBVIOUS
<1>3. d = [held |-> held, out |-> out, eaten |-> eaten]  BY <1>0, <1>1, <1>2 DEF Detected
<1>4. /\ Placed(<<>>, out, held, L \cup {b.id}, eaten, all) /\ Pairs(out)
      /\ held \in Seq(Byte) /\ out \in Seq(Byte) /\ Len(held) \in Nat
      /\ (\A i \in 1 .. Len(held) : held[i].c # "u1")
      /\ (EndsHalf(out) => held = <<>> /\ b.c = "u2")
  BY <1>0, <1>1, <1>2 DEF Detected, Placed
<1>5. PICK H : H = Append(held, b)  OBVIOUS
<1>6. /\ H \in Seq(Byte) /\ Len(H) = Len(held) + 1 /\ (\A i \in 1 .. Len(held) : H[i] = held[i])
      /\ H[Len(held) + 1] = b /\ H # <<>>
  BY <1>4, <1>5
<1>7. Placed(<<>>, out, H, L, eaten, all)  BY <1>4, <1>5, ToFilter
<1>8. PICK r : r = DsrFeed(d, b)  OBVIOUS
<1>9. PICK g : g = CASE Len(H) = 1 -> b.c = "esc" [] Len(H) = 2 -> b.c = "[" [] OTHER -> b.c \in Digits  OBVIOUS
<1>10. CASE g
  <2>1. r = [held |-> H, out |-> out, eaten |-> eaten]
    BY <1>3, <1>5, <1>8, <1>9, <1>10 DEF DsrFeed
  <2>2. b.c \notin {"u1", "u2"}  BY <1>9, <1>10 DEF Digits
  <2>3. \A i \in 1 .. Len(H) : H[i].c # "u1"  BY <1>4, <1>6, <2>2
  <2>4. Detected(r, L, all)  BY <1>4, <1>7, <2>1, <2>3 DEF Detected
  <2> QED  BY <1>0, <1>4, <1>8, <2>1, <2>2, <2>4
<1>11. CASE ~g /\ Len(H) > 2 /\ b.c = "R"
  <2>1. r = [held |-> <<>>, out |-> out, eaten |-> eaten \cup Ids(H)]
    BY <1>3, <1>5, <1>8, <1>9, <1>11 DEF DsrFeed
  <2>2. Placed(<<>>, out, <<>>, L, eaten \cup Ids(H), all)  BY <1>7, FilterTaken
  <2>3. Detected(r, L, all)  BY <1>4, <2>1, <2>2 DEF Detected
  <2> QED  BY <1>0, <1>4, <1>8, <1>11, <2>1, <2>3
<1>12. CASE ~g /\ ~(Len(H) > 2 /\ b.c = "R")
  <2>1. r = [held |-> <<>>, out |-> out \o H, eaten |-> eaten]
    BY <1>3, <1>5, <1>8, <1>9, <1>12 DEF DsrFeed
  <2>2. Placed(<<>>, out \o H, <<>>, L, eaten, all)
    <3>1. Placed(<<>>, out \o H, <<>>, L, eaten \cup (Ids(H) \ Ids(H)), all)
      <4>1. Rising(H)  BY <1>7 DEF Placed
      <4> QED  BY <1>6, <1>7, <4>1, FilterMoves
    <3>2. eaten \cup (Ids(H) \ Ids(H)) = eaten  OBVIOUS
    <3> QED  BY <3>1, <3>2
  <2>3. Pairs(H)
    <3>1. \A i \in 1 .. Len(H) - 1 : H[i].c # "u1"  BY <1>4, <1>6
    <3> QED  BY <3>1 DEF Pairs
  <2>4. EndsHalf(out) => H[1].c = "u2"
    <3>1. ASSUME EndsHalf(out)  PROVE H[1].c = "u2"
      <4>1. held = <<>> /\ b.c = "u2"  BY <1>4, <3>1
      <4>2. Len(held) + 1 = 1  BY <4>1
      <4> QED  BY <1>6, <4>1, <4>2
    <3> QED  BY <3>1
  <2>5. PICK X : X = out \o H  OBVIOUS
  <2>6. /\ Pairs(X) /\ X # <<>> /\ X[Len(X)] = H[Len(H)] /\ (out # <<>> => X[1] = out[1]) /\ (out = <<>> => X[1] = H[1])
    BY <1>4, <1>6, <2>3, <2>4, <2>5, PairsConcat
  <2>7. H[Len(H)] = b  BY <1>6
  <2>8. Detected(r, L, all)  BY <2>1, <2>2, <2>5, <2>6 DEF Detected
  <2>9. EndsHalf(X) => b.c = "u1"  BY <2>6, <2>7 DEF EndsHalf
  <2>10. held = <<>> => H[1] = b
    <3>1. held = <<>> => Len(held) + 1 = 1  OBVIOUS
    <3> QED  BY <1>6, <3>1
  <2> QED  BY <1>0, <1>1, <1>8, <2>1, <2>5, <2>6, <2>8, <2>9, <2>10
<1> QED  BY <1>10, <1>11, <1>12

(* The detector as a read finds it.                                        *)
Detector == [held |-> dsr, out |-> <<>>, eaten |-> {}]

(* Some function satisfies the recursion of AfterDetecting.                 *)
LEMMA AfterDetectingExists ==
    ASSUME NEW bs, NEW N \in Nat
    PROVE  \E f : f = [i \in 0 .. N |-> IF i = 0 THEN Detector ELSE DsrFeed(f[i - 1], bs[i])]
<1>0. PICK T : T = {n \in 0 .. N : \E f : f = [i \in 0 .. n |-> IF i = 0 THEN Detector ELSE DsrFeed(f[i - 1], bs[i])]}
  OBVIOUS
<1>1. 0 \in T
  <2>0. PICK f : f = [i \in 0 .. 0 |-> Detector]  OBVIOUS
  <2>1. f = [i \in 0 .. 0 |-> IF i = 0 THEN Detector ELSE DsrFeed(f[i - 1], bs[i])]
    BY <2>0
  <2> QED  BY <1>0, <2>1
<1>2. ASSUME NEW n \in 0 .. N - 1, n \in T  PROVE n + 1 \in T
  <2>1. PICK f : f = [i \in 0 .. n |-> IF i = 0 THEN Detector ELSE DsrFeed(f[i - 1], bs[i])]
    BY <1>0, <1>2
  <2>2. PICK g : g = [i \in 0 .. n + 1 |-> IF i = n + 1 THEN DsrFeed(f[n], bs[n + 1]) ELSE f[i]]
    OBVIOUS
  <2>3. \A i \in 0 .. n + 1 : g[i] = IF i = 0 THEN Detector ELSE DsrFeed(g[i - 1], bs[i])
    <3> SUFFICES ASSUME NEW i \in 0 .. n + 1
                 PROVE g[i] = IF i = 0 THEN Detector ELSE DsrFeed(g[i - 1], bs[i])
      OBVIOUS
    <3>1. CASE i = n + 1
      <4>1. g[i - 1] = f[n]  BY <2>2, <3>1
      <4> QED  BY <2>2, <3>1, <4>1
    <3>2. CASE i = 0  BY <2>1, <2>2, <3>2
    <3>3. CASE i \in 1 .. n
      <4>1. g[i - 1] = f[i - 1] /\ g[i] = f[i]  BY <2>2, <3>3
      <4> QED  BY <2>1, <3>3, <4>1
    <3> QED  BY <3>1, <3>2, <3>3
  <2>4. g = [i \in 0 .. n + 1 |-> IF i = 0 THEN Detector ELSE DsrFeed(g[i - 1], bs[i])]
    BY <2>2, <2>3
  <2> QED  BY <1>0, <2>4
<1>3. \A n \in 0 .. N : n \in T
  <2>1. \A n \in 0 .. N - 1 : n \in T => n + 1 \in T  BY <1>2
  <2> QED  BY ONLY N \in Nat, <1>1, <2>1, SetInduction
<1>4. N \in T  BY ONLY N \in Nat, <1>3
<1> QED  BY <1>0, <1>4

(* AfterDetecting satisfies its recursion.                                 *)
LEMMA DetectingSteps ==
    ASSUME NEW bs, Len(bs) \in Nat
    PROVE  AfterDetecting(bs) = [i \in 0 .. Len(bs) |-> IF i = 0 THEN Detector ELSE DsrFeed(AfterDetecting(bs)[i - 1], bs[i])]
BY AfterDetectingExists DEF AfterDetecting, Detector

(* A read of the bytes bs: what is let through keeps its order and its     *)
(* characters, and L is still to come.                                     *)
Through(d, bs, L, all) ==
    /\ Detected(d, L, all)
    /\ EndsHalf(d.out) => d.held = <<>> /\ EndsHalf(bs)
    /\ dsr = <<>> /\ bs # <<>> /\ bs[1].c = "u2" => d.out # <<>> /\ d.out[1].c = "u2"

(* A read through the detector, by induction on the bytes that it was fed. *)
LEMMA DetectKeeps ==
    ASSUME NEW bs \in Seq(Byte), Rising(bs), Pairs(bs), dsr \in Seq(Byte), Rising(dsr),
           \A i \in 1 .. Len(dsr) : dsr[i].c # "u1",
           NEW L, Below(Ids(dsr), Ids(bs)), Below(Ids(dsr), L), Below(Ids(bs), L)
    PROVE  Through(AfterDetecting(bs)[Len(bs)], bs, L, Ids(dsr) \cup Ids(bs) \cup L)
<1>n. PICK n : n = Len(bs) /\ n \in Nat  OBVIOUS
<1>f. PICK F : F = AfterDetecting(bs)  OBVIOUS
<1>d. PICK d0 : d0 = Detector /\ d0 = [held |-> dsr, out |-> <<>>, eaten |-> {}]  BY DEF Detector
<1>a. PICK all : all = Ids(dsr) \cup Ids(bs) \cup L  OBVIOUS
<1>0. F = [i \in 0 .. n |-> IF i = 0 THEN d0 ELSE DsrFeed(F[i - 1], bs[i])]
  BY <1>n, <1>f, <1>d, DetectingSteps
<1> DEFINE begins == dsr = <<>> /\ bs # <<>> /\ bs[1].c = "u2"
           P(k) == /\ Detected(F[k], Ids(Behind(bs, k)) \cup L, all)
                   /\ EndsHalf(F[k].out) => F[k].held = <<>> /\ k > 0 /\ bs[k].c = "u1"
                   /\ begins => IF k = 0 THEN F[k].out = <<>> /\ F[k].held = <<>>
                                ELSE F[k].out # <<>> /\ F[k].out[1].c = "u2"
<1>t. PICK T : T = {k \in 0 .. n : P(k)}  OBVIOUS
<1>1. 0 \in T
  <2>1. F[0] = d0 /\ 0 \in 0 .. n  BY <1>0, <1>n
  <2>2. Ids(Behind(bs, 0)) = Ids(bs)  BY AllBehind
  <2>3. Placed(<<>>, <<>>, dsr, Ids(bs) \cup L, {}, all)
    <3>1. <<>> \in Seq(Nat) /\ Range(<<>>) = {} /\ Increasing(<<>>)  BY DEF Range, Increasing
    <3>2. PICK E : E = <<>> /\ E \in Seq(Byte) /\ E \in Seq(Nat) /\ Range(E) = {} /\ Increasing(E) /\ Ids(E) = {} /\ Rising(E)
      BY <3>1, EmptyFacts
    <3>3. Placed(E, E, dsr, Ids(bs) \cup L, {}, all)  BY <1>a, <3>2 DEF Placed, Below
    <3> QED  BY <3>2, <3>3
  <2>4. Pairs(<<>>) /\ ~EndsHalf(<<>>)  BY DEF Pairs, EndsHalf
  <2>5. Detected(d0, Ids(bs) \cup L, all)  BY <1>d, <2>3, <2>4 DEF Detected
  <2>6. F[0].out = <<>> /\ F[0].held = dsr  BY <1>d, <2>1
  <2>7. Detected(F[0], Ids(Behind(bs, 0)) \cup L, all)  BY <2>1, <2>2, <2>5
  <2>8. ~EndsHalf(F[0].out)  BY <2>4, <2>6
  <2>9. P(0)  BY <2>6, <2>7, <2>8
  <2> QED  BY <1>t, <2>1, <2>9
<1>2. ASSUME NEW k \in 0 .. n - 1, k \in T  PROVE k + 1 \in T
  <2>1. PICK b : b = bs[k + 1]  OBVIOUS
  <2>2. PICK M : M = Ids(Behind(bs, k + 1)) \cup L  OBVIOUS
  <2>p. P(k)  BY <1>t, <1>2
  <2>3. /\ Ids(Behind(bs, k)) = {b.id} \cup Ids(Behind(bs, k + 1)) /\ b \in Byte
        /\ Below({b.id}, Ids(Behind(bs, k + 1)))
    BY <1>n, <2>1, NextBehind
  <2>4. Below({b.id}, M)
    <3>1. k + 1 \in DOMAIN bs  BY <1>n
    <3>2. b.id \in Ids(bs)  BY <2>1, <3>1 DEF Ids
    <3> QED  BY <2>2, <2>3, <3>2 DEF Below
  <2>5. EndsHalf(F[k].out) => F[k].held = <<>> /\ b.c = "u2"
    <3>1. ASSUME EndsHalf(F[k].out)  PROVE F[k].held = <<>> /\ b.c = "u2"
      <4>1. F[k].held = <<>> /\ k > 0 /\ bs[k].c = "u1"  BY <2>p, <3>1
      <4>2. k \in 1 .. Len(bs) - 1  BY <1>n, <4>1
      <4> QED  BY <2>1, <4>1, <4>2 DEF Pairs
    <3> QED  BY <3>1
  <2>6. Ids(Behind(bs, k)) \cup L = M \cup {b.id}  BY <2>2, <2>3
  <2>7. Detected(F[k], M \cup {b.id}, all)  BY <2>p, <2>6
  <2>j. PICK j : j = k + 1  OBVIOUS
  <2>8. F[j] = DsrFeed(F[k], b) /\ j \in 0 .. n /\ j > 0 /\ j # 0
    <3>1. j \in 0 .. n /\ j # 0 /\ j > 0 /\ j - 1 = k  BY <1>n, <2>j
    <3>2. F[j] = DsrFeed(F[j - 1], bs[j])  BY <1>0, <3>1
    <3> QED  BY <2>1, <2>j, <3>1, <3>2
  <2>9. /\ Detected(F[j], M, all)
        /\ EndsHalf(F[j].out) => F[j].held = <<>> /\ b.c = "u1"
        /\ F[k].out # <<>> => F[j].out # <<>> /\ F[j].out[1] = F[k].out[1]
        /\ F[k].out = <<>> /\ F[k].held = <<>> /\ b.c = "u2" => F[j].out # <<>> /\ F[j].out[1] = b
    <3>1. PICK d : d = F[k]  OBVIOUS
    <3>2. PICK r : r = DsrFeed(d, b)  OBVIOUS
    <3>3. /\ Detected(r, M, all)
          /\ EndsHalf(r.out) => r.held = <<>> /\ b.c = "u1"
          /\ d.out # <<>> => r.out # <<>> /\ r.out[1] = d.out[1]
          /\ d.out = <<>> /\ d.held = <<>> /\ b.c = "u2" => r.out # <<>> /\ r.out[1] = b
      BY <2>3, <2>4, <2>5, <2>7, <3>1, <3>2, DsrFeedKeeps
    <3>4. F[j] = r  BY <2>8, <3>1, <3>2
    <3> QED  BY <3>1, <3>3, <3>4
  <2>10. begins => F[j].out # <<>> /\ F[j].out[1].c = "u2"
    <3>1. CASE k = 0
      <4>1. begins => b.c = "u2"  BY <2>1, <3>1
      <4> QED  BY <2>p, <2>9, <3>1, <4>1
    <3>2. CASE k # 0  BY <2>p, <2>9, <3>2
    <3> QED  BY <3>1, <3>2
  <2>11. P(j)  BY <2>1, <2>2, <2>j, <2>8, <2>9, <2>10
  <2> QED  BY <1>t, <2>j, <2>8, <2>11
<1>3. \A k \in 0 .. n : k \in T
  <2>1. \A k \in 0 .. n - 1 : k \in T => k + 1 \in T  BY <1>2
  <2>2. n \in Nat  BY <1>n
  <2> QED  BY ONLY <2>2, <1>1, <2>1, SetInduction
<1>4. P(n)
  <2>1. n \in 0 .. n  BY <1>n
  <2>2. n \in T  BY <1>3, <2>1
  <2> QED  BY <1>t, <2>2
<1>5. Ids(Behind(bs, n)) \cup L = L  BY <1>n, AllBehind
<1>6. bs # <<>> => n # 0  BY <1>n
<1>7. n > 0 /\ bs[n].c = "u1" => EndsHalf(bs)
  <2>1. n > 0 => bs # <<>>  BY <1>n
  <2> QED  BY <1>n, <2>1 DEF EndsHalf
<1>8. Through(F[n], bs, L, all)  BY <1>4, <1>5, <1>6, <1>7 DEF Through
<1> QED  BY <1>a, <1>f, <1>n, <1>8

(* The same with the flush at the end of the read.                         *)
LEMMA DsrReadKeeps ==
    ASSUME NEW bs \in Seq(Byte), Rising(bs), Pairs(bs), dsr \in Seq(Byte), Rising(dsr),
           \A i \in 1 .. Len(dsr) : dsr[i].c # "u1",
           NEW L, Below(Ids(dsr), Ids(bs)), Below(Ids(dsr), L), Below(Ids(bs), L)
    PROVE  Through(DsrRead(bs), bs, L, Ids(dsr) \cup Ids(bs) \cup L)
<1>a. PICK all : all = Ids(dsr) \cup Ids(bs) \cup L  OBVIOUS
<1>d. PICK d : d = AfterDetecting(bs)[Len(bs)]  OBVIOUS
<1>1. Through(d, bs, L, all)  BY <1>a, <1>d, DetectKeeps
<1>2. PICK r : r = DsrRead(bs)  OBVIOUS
<1>3. CASE Len(d.held) # 1
  <2>1. r = d  BY <1>d, <1>2, <1>3 DEF DsrRead
  <2> QED  BY <1>1, <1>2, <1>a, <2>1
<1>4. CASE Len(d.held) = 1
  <2>0. PICK out : out = d.out  OBVIOUS
  <2>1. PICK held : held = d.held  OBVIOUS
  <2>2. PICK eaten : eaten = d.eaten  OBVIOUS
  <2>3. d = [held |-> held, out |-> out, eaten |-> eaten]  BY <1>1, <2>0, <2>1, <2>2 DEF Through, Detected
  <2>x. PICK X : X = out \o held  OBVIOUS
  <2>4. r = [held |-> <<>>, out |-> X, eaten |-> eaten]
    <3>1. r = [d EXCEPT !.held = <<>>, !.out = X]
      <4>1. r = [d EXCEPT !.held = <<>>, !.out = d.out \o d.held]  BY <1>2, <1>d, <1>4, <2>3 DEF DsrRead
      <4>2. d.out \o d.held = X  BY <2>0, <2>1, <2>x
      <4> QED  BY <4>1, <4>2
    <3> QED  BY <2>3, <3>1
  <2>5. /\ Placed(<<>>, out, held, L, eaten, all) /\ Pairs(out)
        /\ held \in Seq(Byte) /\ out \in Seq(Byte) /\ Len(held) = 1 /\ Rising(held)
        /\ (\A i \in 1 .. Len(held) : held[i].c # "u1")
        /\ (EndsHalf(out) => held = <<>>)
    BY <1>1, <1>4, <2>0, <2>1, <2>2 DEF Through, Detected, Placed
  <2>6. ~EndsHalf(out) /\ held # <<>> /\ held[1].c # "u1"
    <3>1. held # <<>> /\ 1 \in 1 .. Len(held)
      <4>1. PICK k : k = Len(held) /\ k = 1  BY <2>5
      <4>2. 1 \in 1 .. k  BY <4>1
      <4>3. held # <<>>
        <5>1. Len(<<>>) # 1  OBVIOUS
        <5>2. Len(held) = 1  BY <4>1
        <5> QED  BY ONLY <5>1, <5>2, Zenon
      <4> QED  BY <4>1, <4>2, <4>3
    <3> QED  BY <2>5, <3>1
  <2>7. Pairs(held)  BY <2>5 DEF Pairs
  <2>8. Placed(<<>>, out \o held, <<>>, L, eaten, all)
    <3>1. Placed(<<>>, out \o held, <<>>, L, eaten \cup (Ids(held) \ Ids(held)), all)  BY <2>5, FilterMoves
    <3>2. eaten \cup (Ids(held) \ Ids(held)) = eaten  OBVIOUS
    <3> QED  BY <3>1, <3>2
  <2>10. /\ Pairs(X) /\ X # <<>> /\ X[Len(X)] = held[Len(held)] /\ (out # <<>> => X[1] = out[1])
    BY <2>5, <2>6, <2>7, <2>x, PairsConcat
  <2>11. ~EndsHalf(X)  BY <2>5, <2>6, <2>10 DEF EndsHalf
  <2>12. Detected(r, L, all)  BY <2>4, <2>8, <2>x, <2>10 DEF Detected
  <2>13. dsr = <<>> /\ bs # <<>> /\ bs[1].c = "u2" => X # <<>> /\ X[1].c = "u2"
    BY <1>1, <2>0, <2>10 DEF Through
  <2>14. Through(r, bs, L, all)  BY <2>4, <2>x, <2>11, <2>12, <2>13 DEF Through
  <2> QED  BY <1>2, <1>a, <2>14
<1> QED  BY <1>3, <1>4

-----------------------------------------------------------------------------
(* Resets of the interceptor.                                              *)

(* The interceptor i becomes j and its other bytes are taken.              *)
Reset(i, j, B, c, s, e) ==
    /\ Interceptor(i, B, c, s, e)
    /\ \/ Interceptor(j, <<>>, FALSE, s, NoFilter)
       \/ Interceptor(j, <<>>, FALSE, TRUE, NoFilter)
       \/ Interceptor(j, B, c, FALSE, e)
       \/ j = i

(* A reset takes what it drops, and leaves at most the half of a character *)
(* that was there.                                                         *)
LEMMA ResetKeeps ==
    ASSUME NEW i, NEW j, NEW B, NEW c, NEW s, NEW e, Reset(i, j, B, c, s, e), IcOK(B, c, s, e),
           NEW S, NEW L, NEW G, NEW all, Placed(S, B, e.raw, L, G, all)
    PROVE  \E B2, c2, s2, e2 : /\ Interceptor(j, B2, c2, s2, e2) /\ IcOK(B2, c2, s2, e2)
                               /\ Placed(S, B2, e2.raw, L, G \cup Dropped(i, j), all)
                               /\ Half(B2, c2) => Half(B, c)
<1>0. PICK R : R = e.raw  OBVIOUS
<1>d. PICK D : D = G \cup Dropped(i, j)  OBVIOUS
<1> DEFINE Fits(B2, c2, s2, e2) ==
        /\ Interceptor(j, B2, c2, s2, e2) /\ IcOK(B2, c2, s2, e2)
        /\ Placed(S, B2, e2.raw, L, D, all) /\ (Half(B2, c2) => Half(B, c))
<1>1. B \in Seq(Byte) /\ R \in Seq(Byte) /\ s \in BOOLEAN /\ NoFilter.raw = <<>> /\ i.buf = B /\ i.esc = e
  BY <1>0 DEF Placed, IcOK, NoFilter, Reset, Interceptor
<1>2. Ids(Held(i)) = Ids(B) \cup Ids(R)
  <2>1. Held(i) = B \o R  BY <1>0, <1>1 DEF Held
  <2>2. Ids(B \o R) = Ids(B) \cup Ids(R)  BY <1>1, ConcatFacts
  <2> QED  BY <2>1, <2>2
<1>f. PICK f : f = FALSE  OBVIOUS
<1>t. PICK t : t = TRUE  OBVIOUS
<1>3. ASSUME NEW s2 \in BOOLEAN, Interceptor(j, <<>>, f, s2, NoFilter)
      PROVE  Fits(<<>>, f, s2, NoFilter)
  <2>1. j.buf = <<>> /\ j.esc.raw = <<>>  BY <1>1, <1>3 DEF Interceptor
  <2>2. Held(j) = <<>>  BY <2>1 DEF Held
  <2>3. Dropped(i, j) = Ids(B) \cup Ids(R)  BY <1>2, <2>2, EmptyFacts DEF Dropped
  <2>4. Placed(S, <<>>, <<>>, L, (G \cup Ids(B)) \cup Ids(R), all)  BY <1>0, BufferTaken, FilterTaken
  <2>5. (G \cup Ids(B)) \cup Ids(R) = D  BY <1>d, <2>3
  <2>6. Placed(S, <<>>, NoFilter.raw, L, D, all)  BY <1>1, <2>4, <2>5
  <2>7. IcOK(<<>>, f, s2, NoFilter) /\ ~Half(<<>>, f)  BY <1>f DEF IcOK, Half, NoFilter, Modes
  <2> QED  BY <1>3, <2>6, <2>7
<1>4. ASSUME NEW s2 \in BOOLEAN, Interceptor(j, B, c, s2, e), IcOK(B, c, s2, e)
      PROVE  Fits(B, c, s2, e)
  <2>1. j.buf = B /\ j.esc = e  BY <1>4 DEF Interceptor
  <2>2. Held(j) = Held(i)  BY <1>1, <2>1 DEF Held
  <2>3. Dropped(i, j) = {}  BY <2>2 DEF Dropped
  <2>4. D = G  BY <1>d, <2>3
  <2>5. Placed(S, B, e.raw, L, D, all)  BY <2>4
  <2> QED  BY <1>4, <2>5
<1>6. t \in BOOLEAN /\ f \in BOOLEAN  BY <1>f, <1>t
<1>7. IcOK(B, c, f, e)  BY <1>f DEF IcOK
<1>8. j = i => Interceptor(j, B, c, s, e)  BY DEF Reset
<1>9. \/ Interceptor(j, <<>>, f, s, NoFilter) \/ Interceptor(j, <<>>, f, t, NoFilter)
      \/ Interceptor(j, B, c, f, e) \/ j = i
  BY <1>f, <1>t DEF Reset
<1>10. \E B2, c2, s2, e2 : Fits(B2, c2, s2, e2)
  <2> HIDE DEF Fits
  <2> QED  BY <1>1, <1>3, <1>4, <1>6, <1>7, <1>8, <1>9
<1> QED  BY <1>10, <1>d

(* Suppression resets the interceptor.                                     *)
LEMMA SuppressedReset ==
    ASSUME NEW i, NEW B, NEW c, NEW s, NEW e, Interceptor(i, B, c, s, e), NEW on
    PROVE  Reset(i, set_suppressed(i, on), B, c, s, e)
<1>1. PICK j : j = set_suppressed(i, on)  OBVIOUS
<1>2. PICK t : t = TRUE  OBVIOUS
<1>3. PICK f : f = FALSE  OBVIOUS
<1>4. CASE on /\ ~i.supp
  <2>1. PICK E : E = <<>>  OBVIOUS
  <2>2. PICK F : F = NoFilter  OBVIOUS
  <2>3. PICK u : u = [i EXCEPT !.supp = t]  OBVIOUS
  <2>4. PICK v : v = [u EXCEPT !.chat = f]  OBVIOUS
  <2>5. Interceptor(v, B, f, t, e)
    <3>1. Interceptor(u, B, c, t, e)  BY <2>3 DEF Interceptor
    <3> QED  BY <3>1, <2>4 DEF Interceptor
  <2>w. PICK w : w = [v EXCEPT !.buf = E]  OBVIOUS
  <2>y. Interceptor(w, E, f, t, e)  BY <2>5, <2>w DEF Interceptor
  <2>6. j = [w EXCEPT !.esc = F]
    <3>1. j = [i EXCEPT !.supp = t, !.buf = E, !.chat = f, !.esc = F]
      BY <1>1, <1>2, <1>3, <1>4, <2>1, <2>2 DEF set_suppressed
    <3> QED  BY <2>3, <2>4, <2>w, <3>1 DEF Interceptor
  <2>7. Interceptor(j, E, f, t, F)  BY <2>y, <2>6 DEF Interceptor
  <2> QED  BY <1>1, <1>2, <1>3, <2>1, <2>2, <2>7 DEF Reset
<1>5. CASE ~(on /\ ~i.supp) /\ ~on /\ i.supp
  <2>1. PICK u : u = [i EXCEPT !.supp = f]  OBVIOUS
  <2>2. Interceptor(u, B, c, f, e)  BY <2>1 DEF Interceptor
  <2>3. j = [u EXCEPT !.content = f]  BY <1>1, <1>3, <1>5, <2>1 DEF set_suppressed, Interceptor
  <2>4. Interceptor(j, B, c, f, e)  BY <2>2, <2>3 DEF Interceptor
  <2> QED  BY <1>1, <1>3, <2>4 DEF Reset
<1>6. CASE ~(on /\ ~i.supp) /\ ~(~on /\ i.supp)
  <2>1. j = i  BY <1>1, <1>6 DEF set_suppressed
  <2> QED  BY <1>1, <2>1 DEF Reset
<1> QED  BY <1>4, <1>5, <1>6

(* A prompt resets the interceptor.                                        *)
LEMMA PromptResets ==
    ASSUME NEW i, NEW B, NEW c, NEW s, NEW e, Interceptor(i, B, c, s, e)
    PROVE  Reset(i, PromptReset(i), B, c, s, e)
<1>1. PICK j : j = PromptReset(i)  OBVIOUS
<1>2. PICK f : f = FALSE  OBVIOUS
<1>3. PICK u : u = [i EXCEPT !.chat = f]  OBVIOUS
<1>4. PICK v : v = [u EXCEPT !.content = f]  OBVIOUS
<1>5. Interceptor(u, B, f, s, e)  BY <1>3 DEF Interceptor
<1>6. Interceptor(v, B, f, s, e)  BY <1>4, <1>5 DEF Interceptor
<1>7. PICK E : E = <<>>  OBVIOUS
<1>8. PICK F : F = NoFilter  OBVIOUS
<1>w. PICK w : w = [v EXCEPT !.buf = E]  OBVIOUS
<1>y. Interceptor(w, E, f, s, e)  BY <1>6, <1>w DEF Interceptor
<1>9. j = [w EXCEPT !.esc = F]
  <2>1. j = [i EXCEPT !.chat = f, !.buf = E, !.esc = F, !.content = f]  BY <1>1, <1>2, <1>7, <1>8 DEF PromptReset
  <2> QED  BY <1>3, <1>4, <1>w, <2>1 DEF Interceptor
<1>10. Interceptor(j, E, f, s, F)  BY <1>y, <1>9 DEF Interceptor
<1> QED  BY <1>1, <1>2, <1>7, <1>8, <1>10 DEF Reset

-----------------------------------------------------------------------------
(* The invariant.                                                          *)

(* The prefix is one byte, as the default ":" is, and a key sends whole    *)
(* characters.                                                             *)
OneBytePrefix == \A c \in Settings : Len(c.prefix) = 1
WholeCharacters ==
    \A p \in Presses : \A i \in 1 .. Len(p) : p[i] = "u1" => i < Len(p) /\ p[i + 1] = "u2"

(* What the terminal and the cursor report detector hold, in order, with   *)
(* no character cut by the detector.                                       *)
Streams ==
    /\ typed \in Nat /\ Len(cfg.prefix) = 1
    /\ tty \in Seq(Byte) /\ Rising(tty) /\ Pairs(tty) /\ ~EndsHalf(tty)
    /\ dsr \in Seq(Byte) /\ Rising(dsr) /\ Below(Ids(dsr), Ids(tty))
    /\ \A i \in 1 .. Len(dsr) : dsr[i].c # "u1"

(* The interceptor keeps half a character only while the other half is the *)
(* next byte to be read.                                                   *)
Waiting ==
    \E B, c, s, e : /\ Interceptor(ic, B, c, s, e) /\ IcOK(B, c, s, e)
                    /\ Placed(sent, B, e.raw, Ids(dsr) \cup Ids(tty), gone, 1 .. typed)
                    /\ Half(B, c) => dsr = <<>> /\ tty # <<>> /\ tty[1].c = "u2"

TermInv == Streams /\ Waiting

(* Steps that leave the bytes alone.                                       *)
LEMMA KeptInv ==
    ASSUME TermInv, UNCHANGED <<tty, dsr, typed, sent, gone>>, Len(cfg'.prefix) = 1,
           \A B, c, s, e : Interceptor(ic, B, c, s, e) => Interceptor(ic', B, c, s, e)
    PROVE  TermInv'
<1>1. Streams'  BY DEF TermInv, Streams
<1>2. PICK B, c, s, e : /\ Interceptor(ic, B, c, s, e) /\ IcOK(B, c, s, e)
                        /\ Placed(sent, B, e.raw, Ids(dsr) \cup Ids(tty), gone, 1 .. typed)
                        /\ (Half(B, c) => dsr = <<>> /\ tty # <<>> /\ tty[1].c = "u2")
  BY DEF TermInv, Waiting
<1>3. Interceptor(ic', B, c, s, e)  BY <1>2
<1>4. Placed(sent', B, e.raw, Ids(dsr') \cup Ids(tty'), gone', 1 .. typed')  BY <1>2
<1>5. Half(B, c) => dsr' = <<>> /\ tty' # <<>> /\ tty'[1].c = "u2"  BY <1>2
<1>6. Waiting'  BY <1>2, <1>3, <1>4, <1>5 DEF Waiting
<1> QED  BY <1>1, <1>6 DEF TermInv

(* The flags of the interceptor hold no byte.                              *)
LEMMA ContentKept ==
    ASSUME NEW x \in BOOLEAN, NEW B, NEW c, NEW s, NEW e, NEW i, Interceptor(i, B, c, s, e)
    PROVE  Interceptor([i EXCEPT !.content = x], B, c, s, e) /\ Interceptor([i EXCEPT !.recent = x], B, c, s, e)
<1>0. PICK v : v = x  OBVIOUS
<1>1. PICK j : j = [i EXCEPT !.content = v]  OBVIOUS
<1>2. PICK k : k = [i EXCEPT !.recent = v]  OBVIOUS
<1>3. Interceptor(j, B, c, s, e)  BY <1>1 DEF Interceptor
<1>4. Interceptor(k, B, c, s, e)  BY <1>2 DEF Interceptor
<1> QED  BY <1>0, <1>1, <1>2, <1>3, <1>4

(* The loop's record at the start of a step has the bytes of the           *)
(* variables.                                                              *)
LEMMA ReadingHas ==
    ASSUME NEW B, NEW c, NEW s, NEW e, Interceptor(ic, B, c, s, e)
    PROVE  Has(Reading, B, c, s, e, sent, gone)
<1>1. PICK m : m = Reading  OBVIOUS
<1>2. LoopRecord(m) /\ m.ic = ic /\ m.sent = sent /\ m.gone = gone  BY <1>1 DEF Reading, LoopRecord
<1> QED  BY <1>1, <1>2 DEF Has

(* The loop goes on from a good state.                                     *)
LEMMA ResumeInv ==
    ASSUME NEW m, NEW h, Good(m, Ids(dsr') \cup Ids(tty'), h), Resume(m), typed' = typed,
           h => dsr' = <<>> /\ tty' # <<>> /\ tty'[1].c = "u2"
    PROVE  Waiting'
<1>1. PICK B, c, s, e, S, G : /\ Has(m, B, c, s, e, S, G) /\ IcOK(B, c, s, e)
                              /\ Placed(S, B, e.raw, Ids(dsr') \cup Ids(tty'), G, 1 .. typed)
                              /\ (Half(B, c) => h)
  BY DEF Good
<1>2. Interceptor(ic', B, c, s, e) /\ sent' = S /\ gone' = G  BY <1>1 DEF Has, Resume
<1>3. Placed(sent', B, e.raw, Ids(dsr') \cup Ids(tty'), gone', 1 .. typed')  BY <1>1, <1>2
<1> QED  BY <1>1, <1>2, <1>3 DEF Waiting

(* The prefix timeout opens the chat, which takes the buffer, or only      *)
(* stops the timer.                                                        *)
LEMMA PrefixTimeoutInv == ASSUME TermInv, PrefixTimeout PROVE TermInv'
<1>1. PICK B, c, s, e : /\ Interceptor(ic, B, c, s, e) /\ IcOK(B, c, s, e)
                        /\ Placed(sent, B, e.raw, Ids(dsr) \cup Ids(tty), gone, 1 .. typed)
                        /\ (Half(B, c) => dsr = <<>> /\ tty # <<>> /\ tty[1].c = "u2")
  BY DEF TermInv, Waiting
<1>2. dsr' = dsr /\ tty' = tty /\ typed' = typed /\ cfg' = cfg  BY DEF PrefixTimeout
<1>3. Has(Reading, B, c, s, e, sent, gone)  BY <1>1, ReadingHas
<1>4. PICK L : L = Ids(dsr) \cup Ids(tty) /\ L = Ids(dsr') \cup Ids(tty')  BY <1>2
<1>5. CASE Resume(Chat(Reading))
  <2>1. Has(Chat(Reading), <<>>, FALSE, s, e, sent, gone \cup Ids(B))  BY <1>3, ChatHas
  <2>2. Placed(sent, <<>>, e.raw, L, gone \cup Ids(B), 1 .. typed)  BY <1>1, <1>4, BufferTaken
  <2>3. IcOK(<<>>, FALSE, s, e) /\ ~Half(<<>>, FALSE)  BY <1>1 DEF IcOK, Half
  <2>4. Good(Chat(Reading), L, FALSE)  BY <2>1, <2>2, <2>3 DEF Good
  <2>5. Waiting'  BY <1>2, <1>4, <1>5, <2>4, ResumeInv
  <2>6. Streams'  BY <1>2 DEF TermInv, Streams
  <2> QED  BY <2>5, <2>6 DEF TermInv
<1>6. CASE Resume([Reading EXCEPT !.timer = FALSE])
  <2>1. PICK m : m = [Reading EXCEPT !.timer = FALSE]  OBVIOUS
  <2>2. m.ic = ic /\ m.sent = sent /\ m.gone = gone  BY <2>1 DEF Reading
  <2>3. ic' = ic /\ sent' = sent /\ gone' = gone  BY <1>6, <2>1, <2>2 DEF Resume
  <2>4. Len(cfg'.prefix) = 1  BY <1>2 DEF TermInv, Streams
  <2> QED  BY <1>2, <2>3, <2>4, KeptInv
<1> QED  BY <1>5, <1>6 DEF PrefixTimeout

(* A reset of the interceptor between two reads.                           *)
LEMMA ResetInv ==
    ASSUME TermInv, UNCHANGED <<tty, dsr, typed, sent, cfg>>, NEW j,
           \A B, c, s, e : Interceptor(ic, B, c, s, e) => Reset(ic, j, B, c, s, e),
           \A B, c, s, e : Interceptor(j, B, c, s, e) => Interceptor(ic', B, c, s, e),
           gone' = gone \cup Dropped(ic, j)
    PROVE  TermInv'
<1>1. PICK B, c, s, e : /\ Interceptor(ic, B, c, s, e) /\ IcOK(B, c, s, e)
                        /\ Placed(sent, B, e.raw, Ids(dsr) \cup Ids(tty), gone, 1 .. typed)
                        /\ (Half(B, c) => dsr = <<>> /\ tty # <<>> /\ tty[1].c = "u2")
  BY DEF TermInv, Waiting
<1>2. Reset(ic, j, B, c, s, e)  BY <1>1
<1>3. PICK B2, c2, s2, e2 :
        /\ Interceptor(j, B2, c2, s2, e2) /\ IcOK(B2, c2, s2, e2)
        /\ Placed(sent, B2, e2.raw, Ids(dsr) \cup Ids(tty), gone \cup Dropped(ic, j), 1 .. typed)
        /\ (Half(B2, c2) => Half(B, c))
  BY <1>1, <1>2, ResetKeeps
<1>4. Interceptor(ic', B2, c2, s2, e2)  BY <1>3
<1>5. Placed(sent', B2, e2.raw, Ids(dsr') \cup Ids(tty'), gone', 1 .. typed')  BY <1>3
<1>6. Half(B2, c2) => dsr' = <<>> /\ tty' # <<>> /\ tty'[1].c = "u2"  BY <1>1, <1>3
<1>7. Waiting'  BY <1>3, <1>4, <1>5, <1>6 DEF Waiting
<1>8. Streams'  BY DEF TermInv, Streams
<1> QED  BY <1>7, <1>8 DEF TermInv

(* The alternate screen suppresses the interceptor.                        *)
LEMMA AltScreenInv == ASSUME TermInv, AltScreen PROVE TermInv'
<1>1. PICK j : j = set_suppressed(ic, ~alt)  OBVIOUS
<1>2. ic' = [j EXCEPT !.content = FALSE] /\ gone' = gone \cup Dropped(ic, j)  BY <1>1 DEF AltScreen
<1>3. UNCHANGED <<tty, dsr, typed, sent, cfg>>  BY DEF AltScreen
<1>4. \A B, c, s, e : Interceptor(ic, B, c, s, e) => Reset(ic, j, B, c, s, e)  BY <1>1, SuppressedReset
<1>5. \A B, c, s, e : Interceptor(j, B, c, s, e) => Interceptor(ic', B, c, s, e)  BY <1>2, ContentKept
<1> QED  BY <1>2, <1>3, <1>4, <1>5, ResetInv

(* A prompt resets the interceptor between two reads.                      *)
LEMMA PromptStartInv == ASSUME TermInv, PromptStart PROVE TermInv'
<1>1. PICK j : j = PromptReset(ic)  OBVIOUS
<1>2. ic' = j /\ gone' = gone \cup Dropped(ic, j)  BY <1>1 DEF PromptStart
<1>3. UNCHANGED <<tty, dsr, typed, sent, cfg>>  BY DEF PromptStart
<1>4. \A B, c, s, e : Interceptor(ic, B, c, s, e) => Reset(ic, j, B, c, s, e)  BY <1>1, PromptResets
<1>5. \A B, c, s, e : Interceptor(j, B, c, s, e) => Interceptor(ic', B, c, s, e)  BY <1>2
<1> QED  BY <1>2, <1>3, <1>4, <1>5, ResetInv

(* What a cut of the terminal's bytes keeps of the characters.             *)
LEMMA CutPairs ==
    ASSUME NEW B \in Seq(Byte), Rising(B), Pairs(B), ~EndsHalf(B), NEW n \in 1 .. Len(B)
    PROVE  /\ Pairs(Upto(B, n)) /\ Upto(B, n) # <<>> /\ Upto(B, n)[1] = B[1]
           /\ Pairs(Behind(B, n)) /\ ~EndsHalf(Behind(B, n))
           /\ EndsHalf(Upto(B, n)) => Behind(B, n) # <<>> /\ Behind(B, n)[1].c = "u2"
<1>n. PICK k : k = Len(B) /\ k \in Nat /\ n \in 1 .. k /\ n \in 0 .. k  OBVIOUS
<1>p. PICK P : P = Upto(B, n)  OBVIOUS
<1>q. PICK Q : Q = Behind(B, n)  OBVIOUS
<1>1. /\ P \in Seq(Byte) /\ Len(P) = n /\ (\A i \in 1 .. n : P[i] = B[i])
      /\ Q \in Seq(Byte) /\ Len(Q) = k - n /\ (\A i \in 1 .. k - n : Q[i] = B[n + i])
  <2>1. /\ Upto(B, n) \in Seq(Byte) /\ Len(Upto(B, n)) = n /\ (\A i \in 1 .. n : Upto(B, n)[i] = B[i])
        /\ Behind(B, n) \in Seq(Byte) /\ Len(Behind(B, n)) = Len(B) - n
        /\ (\A i \in 1 .. Len(Behind(B, n)) : Behind(B, n)[i] = B[n + i])
    <3>1. n \in 0 .. Len(B)  BY <1>n
    <3> QED  BY <3>1, CutFacts
  <2> QED  BY <1>n, <1>p, <1>q, <2>1
<1>2. Pairs(P)
  <2>1. ASSUME NEW i \in 1 .. n - 1, P[i].c = "u1"  PROVE P[i + 1].c = "u2"
    <3>1. PICK j : j = i + 1  OBVIOUS
    <3>2. i \in 1 .. n /\ j \in 1 .. n /\ i \in 1 .. k - 1  BY <1>n, <3>1
    <3>3. P[i] = B[i] /\ P[j] = B[j]  BY <1>1, <3>2
    <3> QED  BY <1>n, <2>1, <3>1, <3>2, <3>3 DEF Pairs
  <2> QED  BY <1>1, <2>1 DEF Pairs
<1>3. P # <<>> /\ P[1] = B[1] /\ P[n] = B[n]
  <2>1. Len(P) > 0 /\ 1 \in 1 .. n /\ n \in 1 .. n  BY <1>1, <1>n
  <2> QED  BY <1>1, <2>1
<1>4. Pairs(Q)
  <2>1. ASSUME NEW i \in 1 .. (k - n) - 1, Q[i].c = "u1"  PROVE Q[i + 1].c = "u2"
    <3>1. PICK j : j = i + 1  OBVIOUS
    <3>2. PICK a : a = n + i  OBVIOUS
    <3>3. i \in 1 .. k - n /\ j \in 1 .. k - n /\ a \in 1 .. k - 1 /\ n + j = a + 1  BY <1>n, <3>1, <3>2
    <3>4. Q[i] = B[n + i] /\ Q[j] = B[n + j]  BY <1>1, <3>3
    <3>5. Q[i] = B[a] /\ Q[j] = B[a + 1]  BY <3>2, <3>3, <3>4
    <3> QED  BY <1>n, <2>1, <3>1, <3>3, <3>5 DEF Pairs
  <2> QED  BY <1>1, <2>1 DEF Pairs
<1>5. ~EndsHalf(Q)
  <2>1. ASSUME Q # <<>>  PROVE Q[Len(Q)].c # "u1"
    <3>1. PICK a : a = k - n  OBVIOUS
    <3>2. Len(Q) = a /\ a \in 1 .. k - n /\ n + a = k  BY <1>1, <1>n, <2>1, <3>1
    <3>3. Q[a] = B[n + a]  BY <1>1, <3>2
    <3>4. Q[a] = B[k] /\ B # <<>>  BY <1>n, <3>2, <3>3
    <3> QED  BY <1>n, <3>2, <3>4 DEF EndsHalf
  <2> QED  BY <2>1 DEF EndsHalf
<1>6. EndsHalf(P) => Q # <<>> /\ Q[1].c = "u2"
  <2>1. ASSUME EndsHalf(P)  PROVE Q # <<>> /\ Q[1].c = "u2"
    <3>1. B[n].c = "u1"  BY <1>1, <1>3, <2>1 DEF EndsHalf
    <3>2. B # <<>> /\ B[k].c # "u1"  BY <1>n DEF EndsHalf
    <3>3. n # k  BY <3>1, <3>2
    <3>4. n \in 1 .. k - 1 /\ 1 \in 1 .. k - n  BY <1>n, <3>3
    <3>5. Q[1] = B[n + 1]  BY <1>1, <3>4
    <3>6. B[n + 1].c = "u2"  BY <1>n, <3>1, <3>4 DEF Pairs
    <3>7. Q # <<>>  BY <1>1, <3>4
    <3> QED  BY <3>5, <3>6, <3>7
  <2> QED  BY <2>1
<1> QED  BY <1>p, <1>q, <1>2, <1>3, <1>4, <1>5, <1>6

(* A read of n bytes: they pass the detector, what it lets through is fed  *)
(* to the interceptor, and what a read cuts is completed by the next one.  *)
LEMMA ReadKeysInv == ASSUME TermInv, NEW n \in 1 .. Len(tty), ReadKeys(n) PROVE TermInv'
<1>1. PICK B, c, s, e : /\ Interceptor(ic, B, c, s, e) /\ IcOK(B, c, s, e)
                        /\ Placed(sent, B, e.raw, Ids(dsr) \cup Ids(tty), gone, 1 .. typed)
                        /\ (Half(B, c) => dsr = <<>> /\ tty # <<>> /\ tty[1].c = "u2")
  BY DEF TermInv, Waiting
<1>s. /\ tty \in Seq(Byte) /\ Rising(tty) /\ Pairs(tty) /\ ~EndsHalf(tty) /\ typed \in Nat
      /\ dsr \in Seq(Byte) /\ Rising(dsr) /\ Below(Ids(dsr), Ids(tty)) /\ Len(cfg.prefix) = 1
      /\ (\A i \in 1 .. Len(dsr) : dsr[i].c # "u1")
  BY DEF TermInv, Streams
<1>b. PICK bs : bs = Upto(tty, n)  OBVIOUS
<1>t. PICK later : later = Behind(tty, n)  OBVIOUS
<1>L. PICK L : L = Ids(later)  OBVIOUS
<1>2. /\ bs \in Seq(Byte) /\ Rising(bs) /\ later \in Seq(Byte) /\ Rising(later)
      /\ Ids(bs) \cup L = Ids(tty) /\ Below(Ids(bs), L)
  BY <1>s, <1>b, <1>t, <1>L, CutFacts
<1>3. /\ Pairs(bs) /\ bs # <<>> /\ bs[1] = tty[1] /\ Pairs(later) /\ ~EndsHalf(later)
      /\ (EndsHalf(bs) => later # <<>> /\ later[1].c = "u2")
  BY <1>s, <1>b, <1>t, CutPairs
<1>d. PICK d : d = DsrRead(bs)  OBVIOUS
<1>w. PICK W : W = Ids(dsr) \cup Ids(tty)  OBVIOUS
<1>4. Through(d, bs, L, W)
  <2>1. Below(Ids(dsr), Ids(bs)) /\ Below(Ids(dsr), L)  BY <1>s, <1>2 DEF Below
  <2>2. Ids(dsr) \cup Ids(bs) \cup L = W  BY <1>w, <1>2
  <2>3. Through(DsrRead(bs), bs, L, Ids(dsr) \cup Ids(bs) \cup L)  BY <1>s, <1>2, <1>3, <2>1, DsrReadKeeps
  <2> QED  BY <1>d, <2>2, <2>3
<1>o. PICK out : out = d.out  OBVIOUS
<1>h. PICK held : held = d.held  OBVIOUS
<1>e. PICK eaten : eaten = d.eaten  OBVIOUS
<1>5. /\ Placed(<<>>, out, held, L, eaten, W) /\ Pairs(out)
      /\ (\A i \in 1 .. Len(held) : held[i].c # "u1")
      /\ (EndsHalf(out) => held = <<>> /\ EndsHalf(bs))
      /\ (dsr = <<>> /\ bs # <<>> /\ bs[1].c = "u2" => out # <<>> /\ out[1].c = "u2")
  BY <1>4, <1>o, <1>h, <1>e DEF Through, Detected
<1>M. PICK M : M = Ids(held) \cup L  OBVIOUS
<1>6. /\ out \in Seq(Byte) /\ Rising(out) /\ held \in Seq(Byte) /\ Rising(held)
      /\ Below(Ids(out), M) /\ Below(Ids(held), L)
      /\ W \ eaten = Ids(out) \cup M /\ eaten \in SUBSET W
  <2>1. Range(<<>>) = {}  BY DEF Range
  <2>2. /\ out \in Seq(Byte) /\ Rising(out) /\ held \in Seq(Byte) /\ Rising(held)
        /\ Below(Ids(out), Ids(held)) /\ Below(Ids(out), L) /\ Below(Ids(held), L)
        /\ Range(<<>>) \cup Ids(out) \cup Ids(held) \cup L \cup eaten = W
        /\ (Range(<<>>) \cup Ids(out) \cup Ids(held) \cup L) \cap eaten = {}
    BY <1>5 DEF Placed
  <2>3. Below(Ids(out), M)  BY <1>M, <2>2 DEF Below
  <2>4. W \ eaten = Ids(out) \cup M /\ eaten \in SUBSET W  BY <1>M, <2>1, <2>2
  <2> QED  BY <2>2, <2>3, <2>4
<1>i. PICK i : i = IF alt THEN ic ELSE set_suppressed(ic, ~sh.prompt)  OBVIOUS
<1>7. Reset(ic, i, B, c, s, e)
  <2>1. CASE alt
    <3>1. i = ic  BY <1>i, <2>1
    <3> QED  BY <1>1, <3>1 DEF Reset
  <2>2. CASE ~alt
    <3>1. i = set_suppressed(ic, ~sh.prompt)  BY <1>i, <2>2
    <3> QED  BY <1>1, <3>1, SuppressedReset
  <2> QED  BY <2>1, <2>2
<1>g. PICK G : G = gone \cup Dropped(ic, i)  OBVIOUS
<1>8. PICK B2, c2, s2, e2 :
        /\ Interceptor(i, B2, c2, s2, e2) /\ IcOK(B2, c2, s2, e2)
        /\ Placed(sent, B2, e2.raw, W, G, 1 .. typed)
        /\ (Half(B2, c2) => Half(B, c))
  BY <1>1, <1>7, <1>w, <1>g, ResetKeeps
<1>9. Placed(sent, B2, e2.raw, Ids(out) \cup M, G \cup eaten, 1 .. typed)
  <2>1. eaten \subseteq Nat
    <3>1. Ids(dsr) \subseteq Nat /\ Ids(tty) \subseteq Nat  BY <1>s, IdsNat
    <3> QED  BY <1>6, <1>w, <3>1
  <2>2. Placed(sent, B2, e2.raw, W \ eaten, G \cup eaten, 1 .. typed)
    BY <1>6, <1>8, <2>1, LaterTaken
  <2> QED  BY <1>6, <2>2
<1>m. PICK m : m = [Reading EXCEPT !.ic = i, !.gone = @ \cup Dropped(ic, i) \cup d.eaten]  OBVIOUS
<1>10. Has(m, B2, c2, s2, e2, sent, G \cup eaten)
  <2>1. PICK r : r = Reading  OBVIOUS
  <2>2. LoopRecord(r) /\ r.sent = sent /\ r.gone = gone  BY <2>1 DEF Reading, LoopRecord
  <2>3. m = [r EXCEPT !.ic = i, !.gone = G \cup eaten]  BY <1>m, <1>g, <1>e, <2>1, <2>2 DEF LoopRecord
  <2>4. LoopRecord(m) /\ m.ic = i /\ m.sent = sent /\ m.gone = G \cup eaten
    BY <2>2, <2>3 DEF LoopRecord
  <2> QED  BY <1>8, <2>4 DEF Has
<1>11. Good(m, Ids(out) \cup M, out # <<>> /\ out[1].c = "u2")
  <2>1. Half(B2, c2) => out # <<>> /\ out[1].c = "u2"  BY <1>1, <1>3, <1>5, <1>8
  <2> QED  BY <1>8, <1>9, <1>10, <2>1 DEF Good
<1>f. PICK a : a = AfterFeeding(m, out)[Len(out)]  OBVIOUS
<1>12. Good(a, M, EndsHalf(out))
  <2>1. \A k \in 1 .. Len(out) - 1 : out[k].c = "u1" => out[k + 1].c = "u2"  BY <1>5 DEF Pairs
  <2>2. Good(a, M, out # <<>> /\ out[Len(out)].c = "u1")  BY <1>s, <1>6, <1>11, <1>f, <2>1, ReadKeeps
  <2> QED  BY <2>2 DEF EndsHalf
<1>z. PICK z : z = finish_batch(a)  OBVIOUS
<1>13. Good(z, M, EndsHalf(out))  BY <1>12, <1>z, FinishKeeps
<1>14. tty' = later /\ dsr' = held /\ typed' = typed /\ cfg' = cfg /\ Resume(z)
  BY <1>b, <1>t, <1>d, <1>o, <1>h, <1>i, <1>m, <1>f, <1>z DEF ReadKeys, Upto, Behind
<1>15. EndsHalf(out) => dsr' = <<>> /\ tty' # <<>> /\ tty'[1].c = "u2"  BY <1>3, <1>5, <1>14
<1>16. M = Ids(dsr') \cup Ids(tty')  BY <1>14, <1>M, <1>L
<1>17. Waiting'  BY <1>13, <1>14, <1>15, <1>16, ResumeInv
<1>18. Streams'  BY <1>s, <1>2, <1>3, <1>5, <1>6, <1>14, <1>L DEF Streams
<1> QED  BY <1>17, <1>18 DEF TermInv

(* New keys have the next numbers.                                         *)
LEMMA LaterCome ==
    ASSUME NEW S, NEW B, NEW R, NEW L, NEW G, NEW k \in Nat, NEW n \in Nat,
           Placed(S, B, R, L, G, 1 .. k), NEW X, X = k + 1 .. k + n
    PROVE  Placed(S, B, R, L \cup X, G, 1 .. k + n)
<1>1. (1 .. k) \cup X = 1 .. k + n /\ (\A x \in 1 .. k : x \notin X) /\ (\A x \in 1 .. k, y \in X : x < y)
  OBVIOUS
<1>2. /\ Range(S) \subseteq 1 .. k /\ Ids(B) \subseteq 1 .. k /\ Ids(R) \subseteq 1 .. k /\ G \subseteq 1 .. k
  BY DEF Placed
<1>3. PICK A : A = 1 .. k  OBVIOUS
<1>4. PICK Z : Z = 1 .. k + n  OBVIOUS
<1>5. /\ A \cup X = Z /\ (\A x \in A : x \notin X) /\ (\A x \in A, y \in X : x < y)
      /\ Range(S) \subseteq A /\ Ids(B) \subseteq A /\ Ids(R) \subseteq A /\ G \subseteq A
      /\ Placed(S, B, R, L, G, A)
  BY <1>1, <1>2, <1>3, <1>4
<1>6. Placed(S, B, R, L \cup X, G, Z)  BY ONLY <1>5 DEF Placed, Below
<1> QED  BY <1>4, <1>6

(* The bytes of a key.                                                     *)
LEMMA KeyBytes ==
    ASSUME WholeCharacters, NEW p \in Presses, NEW k \in Nat,
           NEW N, N = [i \in DOMAIN p |-> [c |-> p[i], id |-> k + i]]
    PROVE  /\ Len(p) \in Nat /\ N \in Seq(Byte) /\ Rising(N) /\ Ids(N) = k + 1 .. k + Len(p)
           /\ Pairs(N) /\ ~EndsHalf(N)
<1>1. PICK n : n = Len(p) /\ n \in Nat /\ DOMAIN p = 1 .. n /\ (\A i \in 1 .. n : p[i] \in STRING)
  BY TerminalAssumption
<1>2. N = [i \in 1 .. n |-> [c |-> p[i], id |-> k + i]]  BY <1>1
<1>3. \A i \in 1 .. n : N[i] \in Byte /\ N[i].c = p[i] /\ N[i].id = k + i  BY <1>1, <1>2 DEF Byte
<1>4. N \in Seq(Byte) /\ Len(N) = n /\ DOMAIN N = 1 .. n
  <2>1. N \in [1 .. n -> Byte]  BY <1>2, <1>3
  <2> QED  BY <1>1, <2>1, SeqDef
<1>5. Rising(N)
  <2>1. ASSUME NEW i \in 1 .. n, NEW j \in 1 .. n, i < j  PROVE N[i].id < N[j].id
    <3>1. k + i < k + j  BY <1>1, <2>1
    <3> QED  BY <1>3, <3>1
  <2> QED  BY <1>4, <2>1 DEF Rising
<1>6. Ids(N) = k + 1 .. k + n
  <2>1. Ids(N) = {k + i : i \in 1 .. n}
    <3>1. Ids(N) = {N[i].id : i \in 1 .. n}  BY <1>4 DEF Ids
    <3>2. \A i \in 1 .. n : N[i].id = k + i  BY <1>3
    <3> QED  BY ONLY <3>1, <3>2
  <2>2. ASSUME NEW x \in k + 1 .. k + n  PROVE x \in {k + i : i \in 1 .. n}
    <3>1. x - k \in 1 .. n /\ k + (x - k) = x  BY <1>1
    <3> QED  BY <3>1
  <2>3. ASSUME NEW i \in 1 .. n  PROVE k + i \in k + 1 .. k + n  BY <1>1
  <2> QED  BY <2>1, <2>2, <2>3
<1>7. \A i \in 1 .. n : N[i].c = "u1" => i < n /\ p[i + 1] = "u2"  BY <1>1, <1>3 DEF WholeCharacters
<1>8. Pairs(N)
  <2>1. ASSUME NEW i \in 1 .. n - 1, N[i].c = "u1"  PROVE N[i + 1].c = "u2"
    <3>1. PICK j : j = i + 1  OBVIOUS
    <3>2. i \in 1 .. n /\ j \in 1 .. n  BY <1>1, <3>1
    <3> QED  BY <1>3, <1>7, <2>1, <3>1, <3>2
  <2> QED  BY <1>4, <2>1 DEF Pairs
<1>9. ~EndsHalf(N)
  <2>1. N # <<>> => n \in 1 .. n  BY <1>1, <1>4
  <2>2. ~(n < n)  BY <1>1
  <2> QED  BY <1>4, <1>7, <2>1, <2>2 DEF EndsHalf
<1> QED  BY <1>1, <1>4, <1>5, <1>6, <1>8, <1>9

(* A key adds its bytes behind the others, with the next numbers.          *)
LEMMA PressInv == ASSUME TermInv, WholeCharacters, NEW p \in Presses, Press(p) PROVE TermInv'
<1>1. PICK B, c, s, e : /\ Interceptor(ic, B, c, s, e) /\ IcOK(B, c, s, e)
                        /\ Placed(sent, B, e.raw, Ids(dsr) \cup Ids(tty), gone, 1 .. typed)
                        /\ (Half(B, c) => dsr = <<>> /\ tty # <<>> /\ tty[1].c = "u2")
  BY DEF TermInv, Waiting
<1>s. /\ tty \in Seq(Byte) /\ Rising(tty) /\ Pairs(tty) /\ ~EndsHalf(tty) /\ typed \in Nat
      /\ dsr \in Seq(Byte) /\ Rising(dsr) /\ Below(Ids(dsr), Ids(tty)) /\ Len(cfg.prefix) = 1
      /\ (\A i \in 1 .. Len(dsr) : dsr[i].c # "u1")
  BY DEF TermInv, Streams
<1>n. PICK N : N = [i \in DOMAIN p |-> [c |-> p[i], id |-> typed + i]]  OBVIOUS
<1>2. /\ Len(p) \in Nat /\ N \in Seq(Byte) /\ Rising(N) /\ Ids(N) = typed + 1 .. typed + Len(p)
      /\ Pairs(N) /\ ~EndsHalf(N)
  BY <1>s, <1>n, KeyBytes
<1>k. PICK k : k = Len(p) /\ k \in Nat  BY <1>2
<1>3. /\ tty' = tty \o N /\ typed' = typed + k
      /\ dsr' = dsr /\ ic' = ic /\ cfg' = cfg /\ sent' = sent /\ gone' = gone
  BY <1>n, <1>k DEF Press, loop
<1>4. Ids(dsr) \cup Ids(tty) \subseteq 1 .. typed  BY <1>1 DEF Placed
<1>5. Below(Ids(dsr) \cup Ids(tty), Ids(N))
  <2>1. \A x \in 1 .. typed, y \in typed + 1 .. typed + k : x < y  BY <1>s, <1>k
  <2> QED  BY <1>2, <1>4, <1>k, <2>1 DEF Below
<1>t. PICK T : T = tty \o N  OBVIOUS
<1>6. T \in Seq(Byte) /\ Ids(T) = Ids(tty) \cup Ids(N) /\ Rising(T)
  <2>1. Below(Ids(tty), Ids(N))  BY <1>5 DEF Below
  <2> QED  BY <1>s, <1>2, <1>t, <2>1, ConcatFacts
<1>7. Pairs(T) /\ ~EndsHalf(T) /\ (tty # <<>> => T # <<>> /\ T[1] = tty[1])
  <2>1. CASE N = <<>>
    <3>1. T = tty  BY <1>s, <1>t, <2>1
    <3> QED  BY <1>s, <3>1
  <2>2. CASE N # <<>>
    <3>1. /\ Pairs(T) /\ T # <<>> /\ T[Len(T)] = N[Len(N)] /\ (tty # <<>> => T[1] = tty[1])
      BY <1>s, <1>2, <1>t, <2>2, PairsConcat
    <3>2. ~EndsHalf(T)  BY <1>2, <2>2, <3>1 DEF EndsHalf
    <3> QED  BY <3>1, <3>2
  <2> QED  BY <2>1, <2>2
<1>8. Below(Ids(dsr), Ids(T))  BY <1>s, <1>5, <1>6 DEF Below
<1>9. Streams'
  <2>1. typed' \in Nat  BY <1>s, <1>3, <1>k
  <2>2. tty' = T  BY <1>3, <1>t
  <2> QED  BY <1>s, <1>3, <1>6, <1>7, <1>8, <2>1, <2>2 DEF Streams
<1>10. Waiting'
  <2>1. Ids(N) = typed + 1 .. typed + k  BY <1>2, <1>k
  <2>2. Placed(sent, B, e.raw, (Ids(dsr) \cup Ids(tty)) \cup Ids(N), gone, 1 .. typed + k)
    BY <1>1, <1>s, <1>k, <2>1, LaterCome
  <2>3. (Ids(dsr) \cup Ids(tty)) \cup Ids(N) = Ids(dsr') \cup Ids(tty')  BY <1>3, <1>6, <1>t
  <2>4. Placed(sent', B, e.raw, Ids(dsr') \cup Ids(tty'), gone', 1 .. typed')  BY <1>3, <2>2, <2>3
  <2>5. Half(B, c) => dsr' = <<>> /\ tty' # <<>> /\ tty'[1].c = "u2"  BY <1>1, <1>3, <1>7, <1>t
  <2> QED  BY <1>1, <1>3, <2>4, <2>5 DEF Waiting
<1> QED  BY <1>9, <1>10 DEF TermInv

(* Nothing was typed yet.                                                  *)
LEMMA InitInv == ASSUME Init PROVE TermInv
<1>1. PICK f : f = FALSE  OBVIOUS
<1>2. PICK E : E = <<>> /\ E \in Seq(Byte) /\ Ids(E) = {} /\ Rising(E) /\ E \in Seq(Nat) /\ Range(E) = {} /\ Increasing(E)
  <2>1. <<>> \in Seq(Nat) /\ Range(<<>>) = {} /\ Increasing(<<>>)  BY DEF Range, Increasing
  <2> QED  BY <2>1, EmptyFacts
<1>3. tty = E /\ dsr = E /\ typed = 0 /\ sent = E /\ gone = {}  BY <1>2 DEF Init
<1>4. Interceptor(ic, E, f, f, NoFilter)
  <2>1. ic = [buf |-> E, chat |-> f, supp |-> f, esc |-> NoFilter, content |-> f, recent |-> f]
    BY <1>1, <1>2 DEF Init
  <2> QED  BY <2>1 DEF Interceptor
<1>5. IcOK(E, f, f, NoFilter) /\ ~Half(E, f) /\ NoFilter.raw = E  BY <1>1, <1>2 DEF IcOK, Half, NoFilter, Modes
<1>6. Placed(E, E, E, Ids(E) \cup Ids(E), {}, 1 .. 0)
  <2>1. 1 .. 0 = {}  OBVIOUS
  <2> QED  BY <1>2, <2>1 DEF Placed, Below
<1>7. Waiting
  <2>1. Placed(sent, E, NoFilter.raw, Ids(dsr) \cup Ids(tty), gone, 1 .. typed)  BY <1>3, <1>5, <1>6
  <2> QED  BY <1>4, <1>5, <2>1 DEF Waiting
<1>8. Streams
  <2>1. Pairs(<<>>) /\ ~EndsHalf(<<>>) /\ Len(<<>>) = 0  BY DEF Pairs, EndsHalf
  <2>2. Len(cfg.prefix) = 1
    <3>1. cfg.prefix = <<":">>  BY DEF Init
    <3> QED  BY <3>1
  <2>3. \A i \in 1 .. Len(dsr) : dsr[i].c # "u1"
    <3>1. Len(dsr) = 0  BY <1>2, <1>3, <2>1
    <3> QED  BY <3>1
  <2>4. Below(Ids(dsr), Ids(tty))  BY <1>2, <1>3 DEF Below
  <2> QED  BY <1>2, <1>3, <2>1, <2>2, <2>3, <2>4 DEF Streams
<1> QED  BY <1>7, <1>8 DEF TermInv

(* The steps that change neither the bytes nor the interceptor's buffers.  *)
LEMMA QuietInv ==
    ASSUME TermInv, OneBytePrefix,
           \/ Echo \/ CommandStart \/ Cleanup \/ TakeAnswer \/ QueueTimeout \/ ReportTimeout
           \/ GhostTimeout \/ Pause
           \/ \E line \in {sh.line, <<"b">>}, end \in BOOLEAN : ReadlineReport(line, end)
           \/ \E old \in SUBSET cp.reqs : SendRequest(old)
           \/ \E c \in Settings : ConfigPush(c)
           \/ \E q \in flying, text \in Texts \cup {None} : Answer(q, text)
           \/ UNCHANGED vars
    PROVE  TermInv'
<1>1. UNCHANGED <<tty, dsr, typed, sent, gone>>
  BY DEF Echo, CommandStart, Cleanup, TakeAnswer, QueueTimeout, ReportTimeout, GhostTimeout, Pause,
         ReadlineReport, SendRequest, ConfigPush, Answer, vars, loop, env, hist
<1>2. Len(cfg'.prefix) = 1
  <2>1. cfg' = cfg \/ cfg' \in Settings
    BY DEF Echo, CommandStart, Cleanup, TakeAnswer, QueueTimeout, ReportTimeout, GhostTimeout, Pause,
           ReadlineReport, SendRequest, ConfigPush, Answer, vars, loop, env, hist
  <2> QED  BY <2>1 DEF TermInv, Streams, OneBytePrefix
<1>3. \/ ic' = ic
      \/ \E x \in BOOLEAN : ic' = [ic EXCEPT !.content = x] \/ ic' = [ic EXCEPT !.recent = x]
  <2>1. CASE Echo \/ CommandStart  BY <2>1 DEF Echo, CommandStart
  <2>2. CASE Pause  BY <2>2 DEF Pause
  <2>3. ASSUME NEW line, NEW end, ReadlineReport(line, end)
        PROVE  \E x \in BOOLEAN : ic' = [ic EXCEPT !.content = x]
    <3>1. ic' = [ic EXCEPT !.content = (line # <<>>)]  BY <2>3 DEF ReadlineReport
    <3>2. (line # <<>>) \in BOOLEAN  OBVIOUS
    <3> QED  BY <3>1, <3>2
  <2>4. CASE \/ Cleanup \/ TakeAnswer \/ QueueTimeout \/ ReportTimeout \/ GhostTimeout \/ UNCHANGED vars
             \/ \E old \in SUBSET cp.reqs : SendRequest(old)
             \/ \E c \in Settings : ConfigPush(c)
             \/ \E q \in flying, text \in Texts \cup {None} : Answer(q, text)
    BY <2>4 DEF Cleanup, TakeAnswer, QueueTimeout, ReportTimeout, GhostTimeout,
                SendRequest, ConfigPush, Answer, vars, loop, env, hist
  <2> QED  BY <2>1, <2>2, <2>3, <2>4
<1>4. \A B, c, s, e : Interceptor(ic, B, c, s, e) => Interceptor(ic', B, c, s, e)
  <2>1. CASE ic' = ic  BY <2>1
  <2>2. ASSUME NEW x \in BOOLEAN, ic' = [ic EXCEPT !.content = x] \/ ic' = [ic EXCEPT !.recent = x],
               NEW B, NEW c, NEW s, NEW e, Interceptor(ic, B, c, s, e)
        PROVE  Interceptor(ic', B, c, s, e)
    <3>1. Interceptor([ic EXCEPT !.content = x], B, c, s, e) /\ Interceptor([ic EXCEPT !.recent = x], B, c, s, e)
      BY <2>2, ContentKept
    <3> QED  BY <2>2, <3>1
  <2> QED  BY <1>3, <2>1, <2>2
<1> QED  BY <1>1, <1>2, <1>4, KeptInv

(* Every step, one case per action.                                        *)
LEMMA NextInv == ASSUME TermInv, OneBytePrefix, WholeCharacters, [Next]_vars PROVE TermInv'
<1>1. ASSUME NEW n \in 1 .. Len(tty), ReadKeys(n)  PROVE TermInv'  BY <1>1, ReadKeysInv
<1>2. CASE PrefixTimeout  BY <1>2, PrefixTimeoutInv
<1>3. CASE AltScreen  BY <1>3, AltScreenInv
<1>4. CASE PromptStart  BY <1>4, PromptStartInv
<1>5. ASSUME NEW p \in Presses, Press(p)  PROVE TermInv'  BY <1>5, PressInv
<1>6. CASE \/ Echo \/ CommandStart \/ Cleanup \/ TakeAnswer \/ QueueTimeout \/ ReportTimeout
           \/ GhostTimeout \/ Pause
           \/ \E line \in {sh.line, <<"b">>}, end \in BOOLEAN : ReadlineReport(line, end)
           \/ \E old \in SUBSET cp.reqs : SendRequest(old)
           \/ \E c \in Settings : ConfigPush(c)
           \/ \E q \in flying, text \in Texts \cup {None} : Answer(q, text)
           \/ UNCHANGED vars
  BY <1>6, QuietInv
<1> QED  BY <1>1, <1>2, <1>3, <1>4, <1>5, <1>6 DEF Next

(* Every byte that was typed is in exactly one place, in the order of      *)
(* typing: sent to the shell, in the interceptor's buffer, in the escape   *)
(* filter, in the detector of cursor reports, still in the terminal, or    *)
(* taken by omnish (interceptor.rs feed_byte, probe.rs, main.rs main       *)
(* loop).                                                                  *)
THEOREM TermInvHolds == ASSUME OneBytePrefix, WholeCharacters PROVE Spec => []TermInv
<1>1. Init => TermInv  BY InitInv
<1>2. TermInv /\ [Next]_vars => TermInv'  BY NextInv
<1> QED  BY <1>1, <1>2, PTL DEF Spec

(* Bytes that are in their places were sent in order and were not both     *)
(* sent and taken.                                                         *)
LEMMA PlacedInOrder == ASSUME TermInv PROVE KeysInOrder
<1>1. PICK B, c, s, e : /\ Interceptor(ic, B, c, s, e) /\ IcOK(B, c, s, e)
                        /\ Placed(sent, B, e.raw, Ids(dsr) \cup Ids(tty), gone, 1 .. typed)
  BY DEF TermInv, Waiting
<1>s. tty \in Seq(Byte) /\ Rising(tty) /\ dsr \in Seq(Byte) /\ Rising(dsr) /\ Below(Ids(dsr), Ids(tty))
  BY DEF TermInv, Streams
<1>r. PICK R : R = e.raw  OBVIOUS
<1>2. /\ sent \in Seq(Nat) /\ B \in Seq(Byte) /\ R \in Seq(Byte)
      /\ Increasing(sent) /\ Rising(B) /\ Rising(R)
      /\ Below(Range(sent), Ids(B)) /\ Below(Range(sent), Ids(R)) /\ Below(Range(sent), Ids(dsr) \cup Ids(tty))
      /\ Below(Ids(B), Ids(R)) /\ Below(Ids(B), Ids(dsr) \cup Ids(tty)) /\ Below(Ids(R), Ids(dsr) \cup Ids(tty))
      /\ Range(sent) \cup Ids(B) \cup Ids(R) \cup (Ids(dsr) \cup Ids(tty)) \cup gone = 1 .. typed
      /\ (Range(sent) \cup Ids(B) \cup Ids(R) \cup (Ids(dsr) \cup Ids(tty))) \cap gone = {}
  BY <1>1, <1>r DEF Placed
<1>3. PICK H : H = B \o R  OBVIOUS
<1>4. Held(ic) = H  BY <1>1, <1>r, <1>3 DEF Held, Interceptor
<1>5. H \in Seq(Byte) /\ Ids(H) = Ids(B) \cup Ids(R) /\ Rising(H)  BY <1>2, <1>3, ConcatFacts
<1>6. PICK U : U = H \o dsr  OBVIOUS
<1>7. U \in Seq(Byte) /\ Ids(U) = Ids(H) \cup Ids(dsr) /\ Rising(U)
  <2>1. Below(Ids(H), Ids(dsr))  BY <1>2, <1>5 DEF Below
  <2> QED  BY <1>s, <1>5, <1>6, <2>1, ConcatFacts
<1>8. PICK W : W = U \o tty  OBVIOUS
<1>9. W \in Seq(Byte) /\ Ids(W) = Ids(U) \cup Ids(tty) /\ Rising(W)
  <2>1. Below(Ids(U), Ids(tty))  BY <1>s, <1>2, <1>5, <1>7 DEF Below
  <2> QED  BY <1>s, <1>7, <1>8, <2>1, ConcatFacts
<1>10. Below(Range(sent), Ids(W))  BY <1>2, <1>5, <1>7, <1>9 DEF Below
<1>11. PICK ids : ids = sent \o IdSeq(W)  OBVIOUS
<1>12. Range(ids) = Range(sent) \cup Ids(W) /\ Increasing(ids)  BY <1>2, <1>9, <1>10, <1>11, IdSeqFacts
<1>13. Range(ids) \cup gone = 1 .. typed /\ Range(ids) \cap gone = {}  BY <1>2, <1>5, <1>7, <1>9, <1>12
<1>14. Held(ic) \o dsr \o tty = W  BY <1>4, <1>6, <1>8
<1>15. IdSeq(W) = [i \in DOMAIN W |-> W[i].id]  BY DEF IdSeq
<1> QED  BY <1>11, <1>12, <1>13, <1>14, <1>15 DEF KeysInOrder

(* What reaches the shell is a subsequence of what was typed, in its       *)
(* order, and what is missing was taken by the chat, by a completion or by *)
(* a reset, or is still on its way.                                        *)
THEOREM KeysKeepTheirOrder == ASSUME OneBytePrefix, WholeCharacters PROVE Spec => []KeysInOrder
<1>1. TermInv => KeysInOrder  BY PlacedInOrder
<1> QED  BY <1>1, TermInvHolds, PTL

-----------------------------------------------------------------------------
(* The ghost.                                                              *)

(* Classes; the provers do not know that a literal is a string.            *)
Sign == STRING \cup Printable \cup {"none"}

(* The tracker and the completer: their fields, as far as the ghost needs. *)
Line(s) ==
    /\ s = [line |-> s.line, prompt |-> s.prompt, seq |-> s.seq, changed |-> s.changed, esc |-> s.esc,
            rl |-> s.rl, end |-> s.end, isearch |-> s.isearch]
    /\ s.line \in Seq(Sign) /\ s.seq \in Nat

Completer(c) ==
    /\ c = [ghost |-> c.ghost, for |-> c.for, reqs |-> c.reqs, pending |-> c.pending, sent |-> c.sent,
            dismissed |-> c.dismissed]
    /\ c.ghost \in Seq(Sign) /\ c.for \in Seq(Sign)

(* A ghost for the line: it is shown behind it and is not empty.           *)
For(c, line) == c.ghost # None => c.for = line /\ c.ghost # <<>>

(* The absent ghost and the empty line.                                    *)
LEMMA NoneFacts == None \in Seq(Sign) /\ <<>> \in Seq(Sign)
<1>1. "none" \in Sign  BY DEF Sign
<1>2. <<"none">> \in Seq(Sign)  BY <1>1
<1> QED  BY <1>2 DEF None

(* A new line is noted as a change.                                        *)
LEMMA BumpedFacts ==
    ASSUME NEW s, Line(s), NEW line \in Seq(Sign)
    PROVE  Line(Bumped(s, line)) /\ Bumped(s, line).changed /\ Bumped(s, line).line = line
<1>1. PICK t : t = TRUE  OBVIOUS
<1>2. PICK k : k = s.seq + 1  OBVIOUS
<1>3. PICK u : u = [s EXCEPT !.line = line, !.seq = k]  OBVIOUS
<1>4. PICK r : r = [u EXCEPT !.changed = t]  OBVIOUS
<1>5. r = Bumped(s, line)  BY <1>1, <1>2, <1>3, <1>4 DEF Bumped, Line
<1>6. Line(u) /\ u.line = line
  <2>1. k \in Nat  BY <1>2 DEF Line
  <2> QED  BY <1>3, <2>1 DEF Line
<1>7. Line(r) /\ r.line = line /\ r.changed = t  BY <1>4, <1>6 DEF Line
<1> QED  BY <1>1, <1>5, <1>7

(* A byte for the tracker of the shell's line: the line stays or the       *)
(* change is noted, and a noted change is not forgotten.                   *)
LEMMA FeedLineFacts ==
    ASSUME NEW s, Line(s), NEW c
    PROVE  /\ Line(FeedLine(s, c)) /\ (FeedLine(s, c).line = s.line \/ FeedLine(s, c).changed)
           /\ (s.changed => FeedLine(s, c).changed)
<1>1. PICK r : r = FeedLine(s, c)  OBVIOUS
<1>2. ASSUME NEW x, r = [s EXCEPT !.esc = x]
      PROVE  Line(r) /\ r.line = s.line /\ r.changed = s.changed
  BY <1>2 DEF Line
<1>3. ASSUME NEW t, Line(t), t.changed = s.changed, NEW l \in Seq(Sign), r = Bumped(t, l)
      PROVE  Line(r) /\ r.changed
  BY <1>3, BumpedFacts
<1>4. CASE s.esc \in {1, 2}
  <2>1. PICK x : x = IF c = "[" THEN 2 ELSE 0  OBVIOUS
  <2>2. PICK y : y = IF c \in Letters \cup {"~", "["} THEN 0 ELSE 2  OBVIOUS
  <2>3. r = [s EXCEPT !.esc = x] \/ r = [s EXCEPT !.esc = y]
    <3>1. CASE s.esc = 1
      <4>1. r = [s EXCEPT !.esc = x]  BY <1>1, <2>1, <3>1 DEF FeedLine
      <4> QED  BY <4>1
    <3>2. CASE s.esc = 2
      <4>1. r = [s EXCEPT !.esc = y]  BY <1>1, <2>2, <3>2 DEF FeedLine
      <4> QED  BY <4>1
    <3> QED  BY <1>4, <3>1, <3>2
  <2> QED  BY <1>1, <1>2, <2>3
<1>5. CASE s.esc \notin {1, 2}
  <2>1. CASE c = "esc"
    <3>1. r = [s EXCEPT !.esc = 1]  BY <1>1, <1>5, <2>1 DEF FeedLine, Printable, Digits, Letters
    <3> QED  BY <1>1, <1>2, <3>1
  <2>2. CASE c = "cr"
    <3>0. PICK f : f = FALSE  OBVIOUS
    <3>1. PICK t : t = [s EXCEPT !.prompt = f]  OBVIOUS
    <3>2. Line(t) /\ t.changed = s.changed  BY <3>1 DEF Line
    <3>3. r = Bumped(t, <<>>)  BY <1>1, <1>5, <2>2, <3>0, <3>1 DEF FeedLine, Printable, Digits, Letters
    <3> QED  BY <1>1, <1>3, <3>2, <3>3, NoneFacts
  <2>3. CASE c = "bs" /\ s.line # <<>>
    <3>1. r = Bumped(s, Front(s.line))  BY <1>1, <1>5, <2>3 DEF FeedLine, Printable, Digits, Letters
    <3>2. Front(s.line) \in Seq(Sign)  BY <2>3 DEF Line, Front
    <3> QED  BY <1>1, <1>3, <3>1, <3>2
  <2>4. CASE c \in Printable
    <3>0. c # "esc" /\ c # "cr" /\ c # "bs"  BY <2>4 DEF Printable, Digits, Letters
    <3>s. c \in Sign  BY <2>4 DEF Sign
    <3>1. r = Bumped(s, Append(s.line, c))  BY <1>1, <1>5, <2>4, <3>0 DEF FeedLine, Printable, Digits, Letters
    <3>2. Append(s.line, c) \in Seq(Sign)  BY <3>s DEF Line
    <3> QED  BY <1>1, <1>3, <3>1, <3>2
  <2>5. CASE c # "esc" /\ c # "cr" /\ ~(c = "bs" /\ s.line # <<>>) /\ c \notin Printable
    <3>1. r = s  BY <1>1, <1>5, <2>5 DEF FeedLine, Printable, Digits, Letters
    <3> QED  BY <1>1, <3>1
  <2> QED  BY <2>1, <2>2, <2>3, <2>4, <2>5
<1> QED  BY <1>4, <1>5

(* Some function satisfies the recursion of AfterBytes.                 *)
LEMMA AfterBytesExists ==
    ASSUME NEW s, NEW bs, NEW N \in Nat
    PROVE  \E f : f = [i \in 0 .. N |-> IF i = 0 THEN s ELSE FeedLine(f[i - 1], bs[i].c)]
<1>0. PICK T : T = {n \in 0 .. N : \E f : f = [i \in 0 .. n |-> IF i = 0 THEN s ELSE FeedLine(f[i - 1], bs[i].c)]}
  OBVIOUS
<1>1. 0 \in T
  <2>0. PICK f : f = [i \in 0 .. 0 |-> s]  OBVIOUS
  <2>1. f = [i \in 0 .. 0 |-> IF i = 0 THEN s ELSE FeedLine(f[i - 1], bs[i].c)]
    BY <2>0
  <2> QED  BY <1>0, <2>1
<1>2. ASSUME NEW n \in 0 .. N - 1, n \in T  PROVE n + 1 \in T
  <2>1. PICK f : f = [i \in 0 .. n |-> IF i = 0 THEN s ELSE FeedLine(f[i - 1], bs[i].c)]
    BY <1>0, <1>2
  <2>2. PICK g : g = [i \in 0 .. n + 1 |-> IF i = n + 1 THEN FeedLine(f[n], bs[n + 1].c) ELSE f[i]]
    OBVIOUS
  <2>3. \A i \in 0 .. n + 1 : g[i] = IF i = 0 THEN s ELSE FeedLine(g[i - 1], bs[i].c)
    <3> SUFFICES ASSUME NEW i \in 0 .. n + 1
                 PROVE g[i] = IF i = 0 THEN s ELSE FeedLine(g[i - 1], bs[i].c)
      OBVIOUS
    <3>1. CASE i = n + 1
      <4>1. g[i - 1] = f[n]  BY <2>2, <3>1
      <4> QED  BY <2>2, <3>1, <4>1
    <3>2. CASE i = 0  BY <2>1, <2>2, <3>2
    <3>3. CASE i \in 1 .. n
      <4>1. g[i - 1] = f[i - 1] /\ g[i] = f[i]  BY <2>2, <3>3
      <4> QED  BY <2>1, <3>3, <4>1
    <3> QED  BY <3>1, <3>2, <3>3
  <2>4. g = [i \in 0 .. n + 1 |-> IF i = 0 THEN s ELSE FeedLine(g[i - 1], bs[i].c)]
    BY <2>2, <2>3
  <2> QED  BY <1>0, <2>4
<1>3. \A n \in 0 .. N : n \in T
  <2>1. \A n \in 0 .. N - 1 : n \in T => n + 1 \in T  BY <1>2
  <2> QED  BY ONLY N \in Nat, <1>1, <2>1, SetInduction
<1>4. N \in T  BY ONLY N \in Nat, <1>3
<1> QED  BY <1>0, <1>4

(* AfterBytes satisfies its recursion.                                     *)
LEMMA AfterBytesSteps ==
    ASSUME NEW s, NEW bs, Len(bs) \in Nat
    PROVE  AfterBytes(s, bs) = [i \in 0 .. Len(bs) |-> IF i = 0 THEN s ELSE FeedLine(AfterBytes(s, bs)[i - 1], bs[i].c)]
BY AfterBytesExists DEF AfterBytes

(* The same for the bytes of a write, by induction on them.                *)
LEMMA FeedForwardedFacts ==
    ASSUME NEW s, Line(s), NEW bs \in Seq(Byte)
    PROVE  /\ Line(feed_forwarded(s, bs))
           /\ (feed_forwarded(s, bs).line = s.line \/ feed_forwarded(s, bs).changed)
           /\ (s.changed => feed_forwarded(s, bs).changed)
<1>n. PICK n : n = Len(bs) /\ n \in Nat  OBVIOUS
<1>f. PICK F : F = AfterBytes(s, bs)  OBVIOUS
<1>0. F = [i \in 0 .. n |-> IF i = 0 THEN s ELSE FeedLine(F[i - 1], bs[i].c)]  BY <1>n, <1>f, AfterBytesSteps
<1> DEFINE P(k) == Line(F[k]) /\ (F[k].line = s.line \/ F[k].changed) /\ (s.changed => F[k].changed)
<1>t. PICK T : T = {k \in 0 .. n : P(k)}  OBVIOUS
<1>1. 0 \in T
  <2>1. F[0] = s /\ 0 \in 0 .. n  BY <1>0, <1>n
  <2> QED  BY <1>t, <2>1
<1>2. ASSUME NEW k \in 0 .. n - 1, k \in T  PROVE k + 1 \in T
  <2>1. PICK j : j = k + 1  OBVIOUS
  <2>2. j \in 0 .. n /\ j # 0 /\ j - 1 = k  BY <1>n, <2>1
  <2>3. F[j] = FeedLine(F[k], bs[j].c)  BY <1>0, <2>2
  <2>4. PICK u : u = F[k]  OBVIOUS
  <2>5. Line(u) /\ (u.line = s.line \/ u.changed) /\ (s.changed => u.changed)  BY <1>t, <1>2, <2>4
  <2>6. PICK r : r = FeedLine(u, bs[j].c)  OBVIOUS
  <2>7. Line(r) /\ (r.line = u.line \/ r.changed) /\ (u.changed => r.changed)  BY <2>5, <2>6, FeedLineFacts
  <2>8. F[j] = r  BY <2>3, <2>4, <2>6
  <2>9. P(j)  BY <2>5, <2>7, <2>8
  <2> QED  BY <1>t, <2>1, <2>2, <2>9
<1>3. \A k \in 0 .. n : k \in T
  <2>1. \A k \in 0 .. n - 1 : k \in T => k + 1 \in T  BY <1>2
  <2>2. n \in Nat  BY <1>n
  <2> QED  BY ONLY <2>2, <1>1, <2>1, SetInduction
<1>4. P(n)
  <2>1. n \in 0 .. n  BY <1>n
  <2> QED  BY <1>3, <1>t, <2>1
<1>5. feed_forwarded(s, bs) = F[n] \/ feed_forwarded(s, bs) = s  BY <1>f, <1>n DEF feed_forwarded
<1> QED  BY <1>4, <1>5

(* What is typed into a ghost is cut from it.                              *)
LEMMA InputChangedFacts ==
    ASSUME NEW c, Completer(c), NEW line \in Seq(Sign), NEW seq
    PROVE  Completer(on_input_changed(c, line, seq)) /\ For(on_input_changed(c, line, seq), line)
<1>1. PICK r : r = on_input_changed(c, line, seq)  OBVIOUS
<1>2. PICK n : n = Len(line) - Len(c.for)  OBVIOUS
<1>3. PICK k : k = (/\ c.ghost # None /\ IsPrefix(c.for, line) /\ n < Len(c.ghost)
                    /\ SubSeq(c.ghost, 1, n) = SubSeq(line, Len(c.for) + 1, Len(line)))
  OBVIOUS
<1>4. PICK a : a = note_activity(c)  OBVIOUS
<1>5. Completer(a) /\ a.ghost = c.ghost /\ a.for = c.for
  <2>1. PICK q : q = {[x EXCEPT !.typed = TRUE] : x \in c.reqs}  OBVIOUS
  <2>2. a = [c EXCEPT !.reqs = q]  BY <1>4, <2>1 DEF note_activity, Completer
  <2> QED  BY <2>2 DEF Completer
<1>6. PICK d : d = IF a.dismissed # line THEN None ELSE a.dismissed  OBVIOUS
<1>7. PICK g : g = IF k THEN SubSeq(c.ghost, n + 1, Len(c.ghost)) ELSE None  OBVIOUS
<1>8. PICK f : f = IF k THEN line ELSE c.for  OBVIOUS
<1>9. r = [a EXCEPT !.pending = seq, !.dismissed = d, !.ghost = g, !.for = f]
  <2>1. r = [a EXCEPT !.pending = seq, !.dismissed = IF @ # line THEN None ELSE @,
                      !.ghost = IF k THEN SubSeq(@, n + 1, Len(@)) ELSE None,
                      !.for = IF k THEN line ELSE @]
    BY <1>1, <1>2, <1>3, <1>4 DEF on_input_changed
  <2> QED  BY <1>5, <1>6, <1>7, <1>8, <2>1 DEF Completer
<1>10. k => g \in Seq(Sign) /\ g # <<>>
  <2>1. PICK h : h = c.ghost /\ h \in Seq(Sign)  BY DEF Completer
  <2>2. ASSUME k  PROVE SubSeq(h, n + 1, Len(h)) \in Seq(Sign) /\ SubSeq(h, n + 1, Len(h)) # <<>>
    <3>1. PICK z : z = Len(h) /\ z \in Nat  BY <2>1
    <3>2. n \in Nat /\ n < z
      <4>1. Len(line) \in Nat /\ Len(c.for) \in Nat  BY DEF Completer
      <4>2. Len(c.for) <= Len(line) /\ n < Len(c.ghost)  BY <1>3, <2>2 DEF IsPrefix
      <4> QED  BY <1>2, <2>1, <3>1, <4>1, <4>2
    <3>3. n + 1 \in 1 .. z + 1 /\ z \in 0 .. z /\ n + 1 <= z  BY <3>1, <3>2
    <3>4. PICK y : y = n + 1  OBVIOUS
    <3>5. SubSeq(h, y, z) \in Seq(Sign) /\ Len(SubSeq(h, y, z)) = z - y + 1
      <4>1. y \in 1 .. Len(h) /\ z \in y .. Len(h)  BY <3>1, <3>2, <3>3, <3>4
      <4> QED  BY <2>1, <3>1, <4>1
    <3>6. z - y + 1 > 0  BY <3>1, <3>2, <3>4
    <3>7. SubSeq(h, y, z) # <<>>
      <4>1. PICK w : w = SubSeq(h, y, z)  OBVIOUS
      <4>2. w \in Seq(Sign) /\ Len(w) > 0  BY <3>5, <3>6, <4>1
      <4>3. w # <<>>  BY <4>2
      <4> QED  BY <4>1, <4>3
    <3>8. SubSeq(h, n + 1, Len(h)) = SubSeq(h, y, z)  BY <3>1, <3>4
    <3> QED  BY <3>5, <3>7, <3>8
  <2> QED  BY <1>7, <2>1, <2>2
<1>11. g \in Seq(Sign) /\ f \in Seq(Sign)  BY <1>7, <1>8, <1>10, NoneFacts DEF Completer
<1>12. Completer(r) /\ r.ghost = g /\ r.for = f  BY <1>5, <1>9, <1>11 DEF Completer
<1>13. For(r, line)  BY <1>7, <1>8, <1>10, <1>12 DEF For
<1> QED  BY <1>1, <1>12, <1>13

(* An answer that is taken up is for the line, which is not all of it.     *)
LEMMA ResponseFacts ==
    ASSUME NEW c, Completer(c), NEW line \in Seq(Sign), NEW r, r.text \in Seq(Sign)
    PROVE  Completer(on_response(c, r, line)) /\ (For(c, line) => For(on_response(c, r, line), line))
<1>1. PICK o : o = on_response(c, r, line)  OBVIOUS
<1>2. PICK mine : mine = {q \in c.reqs : q.seq = r.seq}  OBVIOUS
<1>3. PICK input : input = (CHOOSE q \in mine : TRUE).input  OBVIOUS
<1>4. PICK x : x = c.reqs \ mine  OBVIOUS
<1>5. PICK less : less = [c EXCEPT !.reqs = x]  OBVIOUS
<1>6. Completer(less) /\ less.ghost = c.ghost /\ less.for = c.for  BY <1>5 DEF Completer
<1>7. PICK text : text = r.text /\ text \in Seq(Sign)  OBVIOUS
<1>8. PICK g : g = SubSeq(text, Len(line) + 1, Len(text))  OBVIOUS
<1>9. \/ o = less
      \/ o = [less EXCEPT !.ghost = None]
      \/ o = [less EXCEPT !.ghost = g, !.for = line] /\ IsPrefix(line, text) /\ line # text
  BY <1>1, <1>2, <1>3, <1>4, <1>5, <1>7, <1>8 DEF on_response
<1>10. CASE o = less  BY <1>1, <1>6, <1>10 DEF For
<1>11. CASE o = [less EXCEPT !.ghost = None]
  <2>1. PICK z : z = None  OBVIOUS
  <2>2. Completer(o) /\ o.ghost = z  BY <1>6, <1>11, <2>1, NoneFacts DEF Completer
  <2> QED  BY <1>1, <2>1, <2>2 DEF For
<1>12. CASE o = [less EXCEPT !.ghost = g, !.for = line] /\ IsPrefix(line, text) /\ line # text
  <2>1. PICK a : a = Len(line) /\ a \in Nat  OBVIOUS
  <2>2. PICK z : z = Len(text) /\ z \in Nat  BY <1>7
  <2>3. a < z
    <3>1. a <= z /\ SubSeq(line, 1, a) = SubSeq(text, 1, a)  BY <1>12, <2>1, <2>2 DEF IsPrefix
    <3>2. ASSUME a = z  PROVE FALSE
      <4>1. SubSeq(line, 1, a) = line  BY <2>1
      <4>2. SubSeq(text, 1, a) = text  BY <1>7, <2>2, <3>2
      <4> QED  BY <1>12, <3>1, <4>1, <4>2
    <3> QED  BY <2>1, <2>2, <3>1, <3>2
  <2>4. g \in Seq(Sign) /\ g # <<>>
    <3>1. PICK y : y = a + 1  OBVIOUS
    <3>2. y \in 1 .. Len(text) /\ z \in y .. Len(text)  BY <2>1, <2>2, <2>3, <3>1
    <3>3. SubSeq(text, y, z) \in Seq(Sign) /\ Len(SubSeq(text, y, z)) = z - y + 1  BY <1>7, <2>2, <3>2
    <3>4. z - y + 1 > 0  BY <2>1, <2>2, <2>3, <3>1
    <3>5. g = SubSeq(text, y, z)  BY <1>8, <2>1, <2>2, <3>1
    <3>6. g \in Seq(Sign) /\ Len(g) > 0  BY <3>3, <3>4, <3>5
    <3>7. g # <<>>  BY <3>6
    <3> QED  BY <3>6, <3>7
  <2>5. Completer(o) /\ o.ghost = g /\ o.for = line  BY <1>6, <1>12, <2>4 DEF Completer
  <2> QED  BY <1>1, <2>4, <2>5 DEF For
<1> QED  BY <1>9, <1>10, <1>11, <1>12

(* Some function satisfies the recursion of AfterAnswers.                 *)
LEMMA AfterAnswersExists ==
    ASSUME NEW c, NEW rs, NEW line, NEW N \in Nat
    PROVE  \E f : f = [i \in 0 .. N |-> IF i = 0 THEN c ELSE on_response(f[i - 1], rs[i], line)]
<1>0. PICK T : T = {n \in 0 .. N : \E f : f = [i \in 0 .. n |-> IF i = 0 THEN c ELSE on_response(f[i - 1], rs[i], line)]}
  OBVIOUS
<1>1. 0 \in T
  <2>0. PICK f : f = [i \in 0 .. 0 |-> c]  OBVIOUS
  <2>1. f = [i \in 0 .. 0 |-> IF i = 0 THEN c ELSE on_response(f[i - 1], rs[i], line)]
    BY <2>0
  <2> QED  BY <1>0, <2>1
<1>2. ASSUME NEW n \in 0 .. N - 1, n \in T  PROVE n + 1 \in T
  <2>1. PICK f : f = [i \in 0 .. n |-> IF i = 0 THEN c ELSE on_response(f[i - 1], rs[i], line)]
    BY <1>0, <1>2
  <2>2. PICK g : g = [i \in 0 .. n + 1 |-> IF i = n + 1 THEN on_response(f[n], rs[n + 1], line) ELSE f[i]]
    OBVIOUS
  <2>3. \A i \in 0 .. n + 1 : g[i] = IF i = 0 THEN c ELSE on_response(g[i - 1], rs[i], line)
    <3> SUFFICES ASSUME NEW i \in 0 .. n + 1
                 PROVE g[i] = IF i = 0 THEN c ELSE on_response(g[i - 1], rs[i], line)
      OBVIOUS
    <3>1. CASE i = n + 1
      <4>1. g[i - 1] = f[n]  BY <2>2, <3>1
      <4> QED  BY <2>2, <3>1, <4>1
    <3>2. CASE i = 0  BY <2>1, <2>2, <3>2
    <3>3. CASE i \in 1 .. n
      <4>1. g[i - 1] = f[i - 1] /\ g[i] = f[i]  BY <2>2, <3>3
      <4> QED  BY <2>1, <3>3, <4>1
    <3> QED  BY <3>1, <3>2, <3>3
  <2>4. g = [i \in 0 .. n + 1 |-> IF i = 0 THEN c ELSE on_response(g[i - 1], rs[i], line)]
    BY <2>2, <2>3
  <2> QED  BY <1>0, <2>4
<1>3. \A n \in 0 .. N : n \in T
  <2>1. \A n \in 0 .. N - 1 : n \in T => n + 1 \in T  BY <1>2
  <2> QED  BY ONLY N \in Nat, <1>1, <2>1, SetInduction
<1>4. N \in T  BY ONLY N \in Nat, <1>3
<1> QED  BY <1>0, <1>4

(* AfterAnswers satisfies its recursion.                                   *)
LEMMA AfterAnswersSteps ==
    ASSUME NEW c, NEW rs, NEW line, Len(rs) \in Nat
    PROVE  AfterAnswers(c, rs, line) = [i \in 0 .. Len(rs) |-> IF i = 0 THEN c ELSE on_response(AfterAnswers(c, rs, line)[i - 1], rs[i], line)]
BY AfterAnswersExists DEF AfterAnswers

Reply == [seq : Nat, text : Seq(Sign)]

(* The answers that wait in the queue, one after the other, by induction.  *)
LEMMA AnsweredFacts ==
    ASSUME NEW c, Completer(c), NEW line \in Seq(Sign), NEW rs \in Seq(Reply)
    PROVE  Completer(Answered(c, rs, line)) /\ (For(c, line) => For(Answered(c, rs, line), line))
<1>n. PICK n : n = Len(rs) /\ n \in Nat  OBVIOUS
<1>f. PICK F : F = AfterAnswers(c, rs, line)  OBVIOUS
<1>0. F = [i \in 0 .. n |-> IF i = 0 THEN c ELSE on_response(F[i - 1], rs[i], line)]
  BY <1>n, <1>f, AfterAnswersSteps
<1> DEFINE P(k) == Completer(F[k]) /\ (For(c, line) => For(F[k], line))
<1>t. PICK T : T = {k \in 0 .. n : P(k)}  OBVIOUS
<1>1. 0 \in T
  <2>1. F[0] = c /\ 0 \in 0 .. n  BY <1>0, <1>n
  <2> QED  BY <1>t, <2>1
<1>2. ASSUME NEW k \in 0 .. n - 1, k \in T  PROVE k + 1 \in T
  <2>1. PICK j : j = k + 1  OBVIOUS
  <2>2. j \in 0 .. n /\ j # 0 /\ j - 1 = k /\ j \in 1 .. Len(rs)  BY <1>n, <2>1
  <2>3. F[j] = on_response(F[k], rs[j], line)  BY <1>0, <2>2
  <2>4. rs[j] \in Reply  BY <2>2
  <2>5. rs[j].text \in Seq(Sign)  BY <2>4 DEF Reply
  <2>6. Completer(F[k]) /\ (For(c, line) => For(F[k], line))  BY <1>t, <1>2
  <2>7. Completer(F[j]) /\ (For(F[k], line) => For(F[j], line))  BY <2>3, <2>5, <2>6, ResponseFacts
  <2>8. P(j)  BY <2>6, <2>7
  <2> QED  BY <1>t, <2>1, <2>2, <2>8
<1>3. \A k \in 0 .. n : k \in T
  <2>1. \A k \in 0 .. n - 1 : k \in T => k + 1 \in T  BY <1>2
  <2>2. n \in Nat  BY <1>n
  <2> QED  BY ONLY <2>2, <1>1, <2>1, SetInduction
<1>4. P(n)
  <2>1. n \in 0 .. n  BY <1>n
  <2> QED  BY <1>3, <1>t, <2>1
<1> QED  BY <1>4, <1>f, <1>n DEF Answered

-----------------------------------------------------------------------------
(* The ghost while a read is handled.                                      *)

FilterOK(e) ==
    /\ e = [mode |-> e.mode, raw |-> e.raw] /\ e.mode \in Modes /\ e.raw \in Seq(Byte)
    /\ e.mode = "none" => e = NoFilter

Shaped(i) ==
    /\ i = [buf |-> i.buf, chat |-> i.chat, supp |-> i.supp, esc |-> i.esc, content |-> i.content,
            recent |-> i.recent]
    /\ i.buf \in Seq(Byte) /\ FilterOK(i.esc)

Formed(m) ==
    /\ LoopRecord(m) /\ Shaped(m.ic) /\ Line(m.sh) /\ Completer(m.cp)
    /\ m.chan \in Seq(Reply) /\ m.queued \in Seq(Reply)

Sees(m) == Formed(m) /\ (m.blind \/ For(m.cp, m.sh.line))

(* The idle filter and the empty sequences.                                *)
LEMMA NoFilterOK == FilterOK(NoFilter) /\ <<>> \in Seq(Byte) /\ <<>> \in Seq(Reply)
BY DEF FilterOK, NoFilter, Modes

(* Changes that the ghost does not depend on.                              *)
LEMMA SameSight ==
    ASSUME NEW m, Sees(m), NEW r, LoopRecord(r), Shaped(r.ic), r.sh = m.sh, r.cp = m.cp,
           r.blind = m.blind, r.chan = m.chan, r.queued = m.queued
    PROVE  Sees(r)
BY DEF Sees, Formed

(* A new interceptor state changes nothing of the ghost.                   *)
LEMMA InterceptorSees ==
    ASSUME NEW m, Sees(m), NEW i, Shaped(i)
    PROVE  Sees([m EXCEPT !.ic = i])
<1>1. PICK r : r = [m EXCEPT !.ic = i]  OBVIOUS
<1>2. /\ LoopRecord(r) /\ r.ic = i /\ r.sh = m.sh /\ r.cp = m.cp /\ r.blind = m.blind /\ r.chan = m.chan
      /\ r.queued = m.queued
  BY <1>1 DEF Sees, Formed, LoopRecord
<1> QED  BY <1>1, <1>2, SameSight

(* Nor does a new buffer.                                                  *)
LEMMA BufferSees ==
    ASSUME NEW m, Sees(m), NEW B \in Seq(Byte)
    PROVE  Sees([m EXCEPT !.ic.buf = B])
<1>1. PICK i : i = [m.ic EXCEPT !.buf = B]  OBVIOUS
<1>2. Shaped(i)  BY <1>1 DEF Sees, Formed, Shaped
<1>3. [m EXCEPT !.ic.buf = B] = [m EXCEPT !.ic = i]  BY <1>1 DEF Sees, Formed, LoopRecord
<1> QED  BY <1>2, <1>3, InterceptorSees

(* Nor does a new state of the filter.                                     *)
LEMMA FilterSees ==
    ASSUME NEW m, Sees(m), NEW e, FilterOK(e)
    PROVE  Sees([m EXCEPT !.ic.esc = e])
<1>1. PICK i : i = [m.ic EXCEPT !.esc = e]  OBVIOUS
<1>2. Shaped(i)  BY <1>1 DEF Sees, Formed, Shaped
<1>3. [m EXCEPT !.ic.esc = e] = [m EXCEPT !.ic = i]  BY <1>1 DEF Sees, Formed, LoopRecord
<1> QED  BY <1>2, <1>3, InterceptorSees

(* Nor does a flag of the interceptor.                                     *)
LEMMA FlagSees ==
    ASSUME NEW m, Sees(m), NEW v
    PROVE  /\ Sees([m EXCEPT !.ic.chat = v]) /\ Sees([m EXCEPT !.ic.content = v])
           /\ Sees([m EXCEPT !.ic.recent = v])
<1>0. PICK x : x = v  OBVIOUS
<1>1. PICK i : i = [m.ic EXCEPT !.chat = x]  OBVIOUS
<1>2. PICK j : j = [m.ic EXCEPT !.content = x]  OBVIOUS
<1>3. PICK k : k = [m.ic EXCEPT !.recent = x]  OBVIOUS
<1>4. Shaped(i) /\ Shaped(j) /\ Shaped(k)
  <2>1. Shaped(i)  BY <1>1 DEF Sees, Formed, Shaped
  <2>2. Shaped(j)  BY <1>2 DEF Sees, Formed, Shaped
  <2>3. Shaped(k)  BY <1>3 DEF Sees, Formed, Shaped
  <2> QED  BY <2>1, <2>2, <2>3
<1>5. [m EXCEPT !.ic.chat = x] = [m EXCEPT !.ic = i]  BY <1>1 DEF Sees, Formed, LoopRecord
<1>6. [m EXCEPT !.ic.content = x] = [m EXCEPT !.ic = j]  BY <1>2 DEF Sees, Formed, LoopRecord
<1>7. [m EXCEPT !.ic.recent = x] = [m EXCEPT !.ic = k]  BY <1>3 DEF Sees, Formed, LoopRecord
<1> QED  BY <1>0, <1>4, <1>5, <1>6, <1>7, InterceptorSees

(* Nor do the two flags that a typed key sets.                             *)
LEMMA TypingSees ==
    ASSUME NEW m, Sees(m)
    PROVE  Sees([m EXCEPT !.ic.content = TRUE, !.ic.recent = TRUE])
<1>0. PICK v : v = TRUE  OBVIOUS
<1>1. PICK r : r = [m EXCEPT !.ic.content = v]  OBVIOUS
<1>2. Sees(r)  BY <1>1, FlagSees
<1>3. PICK t : t = [r EXCEPT !.ic.recent = v]  OBVIOUS
<1>4. Sees(t)  BY <1>2, <1>3, FlagSees
<1> QED  BY <1>0, <1>1, <1>3, <1>4

(* A change of the line is told to the completer, or blinds the ghost.     *)
LEMMA ChangesSees ==
    ASSUME NEW m, Formed(m), m.sh.changed \/ m.blind \/ For(m.cp, m.sh.line)
    PROVE  Sees(Changes(m))
<1> DEFINE told == m.sh.changed /\ ~m.sh.rl
<1>1. PICK x : x = [m.sh EXCEPT !.changed = FALSE]  OBVIOUS
<1>2. PICK y : y = IF told THEN on_input_changed(m.cp, m.sh.line, m.sh.seq) ELSE m.cp  OBVIOUS
<1>3. PICK z : z = ((m.blind /\ ~told) \/ (m.sh.changed /\ m.sh.rl))  OBVIOUS
<1>4. Changes(m) = [m EXCEPT !.sh = x, !.cp = y, !.blind = z]
  BY <1>1, <1>2, <1>3 DEF Changes, Formed, LoopRecord
<1>5. PICK r : r = Changes(m)  OBVIOUS
<1>6. /\ LoopRecord(r) /\ r.ic = m.ic /\ r.sh = x /\ r.cp = y /\ r.blind = z /\ r.chan = m.chan
      /\ r.queued = m.queued
  BY <1>4, <1>5 DEF Formed, LoopRecord
<1>7. Line(x) /\ x.line = m.sh.line
  <2>1. PICK f : f = FALSE  OBVIOUS
  <2>2. x = [m.sh EXCEPT !.changed = f]  BY <1>1, <2>1
  <2>3. Line(m.sh)  BY DEF Formed
  <2> QED  BY <2>2, <2>3 DEF Line
<1>8. Completer(y) /\ (told => For(y, m.sh.line))
  <2>1. Completer(m.cp) /\ m.sh.line \in Seq(Sign)  BY DEF Formed, Line
  <2>2. CASE told
    <3>1. y = on_input_changed(m.cp, m.sh.line, m.sh.seq)  BY <1>2, <2>2
    <3> QED  BY <2>1, <3>1, InputChangedFacts
  <2>3. CASE ~told  BY <1>2, <2>1, <2>3
  <2> QED  BY <2>2, <2>3
<1>9. z \/ For(y, x.line)
  <2>1. CASE told  BY <1>7, <1>8, <2>1
  <2>2. CASE ~told /\ m.sh.changed  BY <1>3, <2>2
  <2>3. CASE ~m.sh.changed
    <3>1. y = m.cp /\ (m.blind => z)  BY <1>2, <1>3, <2>3
    <3> QED  BY <1>7, <2>3, <3>1
  <2> QED  BY <2>1, <2>2, <2>3
<1>10. Sees(r)  BY <1>6, <1>7, <1>8, <1>9 DEF Sees, Formed
<1> QED  BY <1>5, <1>10

(* What the completer's small operations do to the ghost: accept, dismiss  *)
(* and a clear remove it, activity keeps it.                               *)
LEMMA ClearFacts ==
    ASSUME NEW c, Completer(c)
    PROVE  /\ Completer(Clear(c)) /\ Clear(c).ghost = None
           /\ Completer(note_activity(c)) /\ note_activity(c).ghost = c.ghost /\ note_activity(c).for = c.for
           /\ Completer(accept(c)) /\ accept(c).ghost = None
           /\ Completer(dismiss(c)) /\ dismiss(c).ghost = None
<1>1. PICK n : n = None /\ n \in Seq(Sign)  BY NoneFacts
<1>2. PICK E : E = <<>> /\ E \in Seq(Sign)  BY NoneFacts
<1>3. Completer(Clear(c)) /\ Clear(c).ghost = None
  <2>1. PICK r : r = [c EXCEPT !.ghost = n, !.for = E, !.dismissed = n, !.reqs = {}]  OBVIOUS
  <2>2. Completer(r) /\ r.ghost = n  BY <1>1, <1>2, <2>1 DEF Completer
  <2>3. r = Clear(c)  BY <1>1, <1>2, <2>1 DEF Clear
  <2> QED  BY <1>1, <2>2, <2>3
<1>4. Completer(note_activity(c)) /\ note_activity(c).ghost = c.ghost /\ note_activity(c).for = c.for
  <2>1. PICK q : q = {[x EXCEPT !.typed = TRUE] : x \in c.reqs}  OBVIOUS
  <2>2. note_activity(c) = [c EXCEPT !.reqs = q]  BY <2>1 DEF note_activity, Completer
  <2>3. PICK a : a = note_activity(c)  OBVIOUS
  <2>4. Completer(a) /\ a.ghost = c.ghost /\ a.for = c.for  BY <2>2, <2>3 DEF Completer
  <2> QED  BY <2>3, <2>4
<1>5. Completer(accept(c)) /\ accept(c).ghost = None
  <2>1. PICK r : r = [c EXCEPT !.ghost = n, !.for = E]  OBVIOUS
  <2>2. Completer(r) /\ r.ghost = n  BY <1>1, <1>2, <2>1 DEF Completer
  <2>3. r = accept(c)  BY <1>1, <1>2, <2>1 DEF accept
  <2> QED  BY <1>1, <2>2, <2>3
<1>6. Completer(dismiss(c)) /\ dismiss(c).ghost = None
  <2>0. PICK x : x = c.for  OBVIOUS
  <2>1. PICK r : r = [c EXCEPT !.ghost = n, !.for = E, !.dismissed = x]  OBVIOUS
  <2>2. Completer(r) /\ r.ghost = n  BY <1>1, <1>2, <2>1 DEF Completer
  <2>3. r = dismiss(c)  BY <1>1, <1>2, <2>0, <2>1 DEF dismiss
  <2> QED  BY <1>1, <2>2, <2>3
<1> QED  BY <1>3, <1>4, <1>5, <1>6

(* Bytes written to the shell change the line, and the completer is told   *)
(* of it.                                                                  *)
LEMMA ForwardedSees ==
    ASSUME NEW m, Sees(m), NEW bs \in Seq(Byte)
    PROVE  Sees(Forwarded(m, bs))
<1> DEFINE cs == Classes(bs)
           report == m.sh.prompt /\ NeedsReport(cs)
           search == m.sh.prompt /\ ~NeedsReport(cs) /\ "^r" \in Range(cs)
<1>a. PICK a : a = (m.sh.rl \/ report \/ search)  OBVIOUS
<1>b. PICK b : b = (m.sh.isearch \/ search)  OBVIOUS
<1>1. PICK s1 : s1 = [m.sh EXCEPT !.rl = a, !.isearch = b]  OBVIOUS
<1>2. Line(s1) /\ s1.line = m.sh.line /\ s1.changed = m.sh.changed
  <2>1. Line(m.sh)  BY DEF Sees, Formed
  <2>2. PICK t : t = [m.sh EXCEPT !.rl = a]  OBVIOUS
  <2>3. Line(t) /\ t.line = m.sh.line /\ t.changed = m.sh.changed  BY <2>1, <2>2 DEF Line
  <2>4. s1 = [t EXCEPT !.isearch = b]  BY <1>1, <2>2
  <2> QED  BY <2>3, <2>4 DEF Line
<1>3. PICK c1 : c1 = IF (report \/ search) /\ m.cp.ghost # None THEN Clear(m.cp) ELSE m.cp  OBVIOUS
<1>4. Completer(c1) /\ (For(m.cp, m.sh.line) => For(c1, m.sh.line))
  <2>1. Completer(m.cp)  BY DEF Sees, Formed
  <2>2. CASE c1 = Clear(m.cp)
    <3>1. Completer(c1) /\ c1.ghost = None  BY <2>1, <2>2, ClearFacts
    <3> QED  BY <3>1 DEF For
  <2>3. CASE c1 = m.cp  BY <2>1, <2>3
  <2> QED  BY <1>3, <2>2, <2>3
<1>5. PICK x : x = feed_forwarded(s1, bs)  OBVIOUS
<1>6. Line(x) /\ (x.line = s1.line \/ x.changed)  BY <1>2, <1>5, FeedForwardedFacts
<1>7. PICK y : y = note_activity(c1)  OBVIOUS
<1>8. Completer(y) /\ (For(m.cp, m.sh.line) => For(y, m.sh.line))
  <2>1. Completer(y) /\ y.ghost = c1.ghost /\ y.for = c1.for  BY <1>4, <1>7, ClearFacts
  <2> QED  BY <1>4, <2>1 DEF For
<1>9. PICK z : z = (m.asked \/ (report /\ ~m.sh.rl))  OBVIOUS
<1>10. PICK w : w = m.sent \o IdSeq(bs)  OBVIOUS
<1>11. PICK r : r = [m EXCEPT !.sent = w, !.asked = z, !.sh = x, !.cp = y]  OBVIOUS
<1>12. Forwarded(m, bs) = Changes(r)
  <2>1. s1 = [m.sh EXCEPT !.rl = @ \/ report \/ search, !.isearch = @ \/ search]
    BY <1>a, <1>b, <1>1 DEF Sees, Formed, Line
  <2> QED  BY <1>3, <1>5, <1>7, <1>9, <1>10, <1>11, <2>1 DEF Forwarded, Sees, Formed, LoopRecord, IdSeq
<1>13. /\ LoopRecord(r) /\ r.ic = m.ic /\ r.sh = x /\ r.cp = y /\ r.blind = m.blind /\ r.chan = m.chan
       /\ r.queued = m.queued
  BY <1>11 DEF Sees, Formed, LoopRecord
<1>14. Formed(r)  BY <1>6, <1>8, <1>13 DEF Sees, Formed
<1>15. r.sh.changed \/ r.blind \/ For(r.cp, r.sh.line)
  <2>1. m.blind \/ For(m.cp, m.sh.line)  BY DEF Sees
  <2> QED  BY <1>2, <1>6, <1>8, <1>13, <2>1
<1> QED  BY <1>12, <1>14, <1>15, ChangesSees

(* Tab accepts the ghost and the escape key dismisses it; every other key  *)
(* is written.                                                             *)
LEMMA ForwardSees ==
    ASSUME NEW m, Sees(m), NEW bs \in Seq(Byte)
    PROVE  Sees(Forward(m, bs))
<1>1. PICK r : r = [m EXCEPT !.ic.content = TRUE, !.ic.recent = TRUE]  OBVIOUS
<1>2. Sees(r)  BY <1>1, TypingSees
<1>s. LoopRecord(r) /\ Shaped(r.ic) /\ Line(r.sh) /\ Completer(r.cp) /\ r.chan \in Seq(Reply) /\ r.queued \in Seq(Reply)
  BY <1>2 DEF Sees, Formed
<1>t. PICK t : t = Forward(m, bs)  OBVIOUS
<1>3. CASE Classes(bs) = <<"tab">> /\ r.cp.ghost # None
  <2>1. PICK x : x = Bumped(r.sh, r.sh.line \o r.cp.ghost)  OBVIOUS
  <2>2. PICK y : y = accept(r.cp)  OBVIOUS
  <2>3. t = [r EXCEPT !.gone = r.gone \cup Ids(bs), !.sh = x, !.cp = y]
    BY <1>1, <1>s, <1>t, <1>3, <2>1, <2>2 DEF Forward, Lose, LoopRecord
  <2>4. /\ LoopRecord(t) /\ t.ic = r.ic /\ t.sh = x /\ t.cp = y /\ t.chan = r.chan /\ t.queued = r.queued
    BY <1>s, <2>3 DEF LoopRecord
  <2>5. r.sh.line \o r.cp.ghost \in Seq(Sign)
    <3>1. r.sh.line \in Seq(Sign) /\ r.cp.ghost \in Seq(Sign)  BY <1>s DEF Line, Completer
    <3> QED  BY <3>1
  <2>6. Line(x)  BY <1>s, <2>1, <2>5, BumpedFacts
  <2>7. Completer(y) /\ y.ghost = None  BY <1>s, <2>2, ClearFacts
  <2>8. Sees(t)  BY <1>s, <2>4, <2>6, <2>7 DEF Sees, Formed, For
  <2> QED  BY <1>t, <2>8
<1>4. CASE Classes(bs) = <<"esc">> /\ r.cp.ghost # None
  <2>1. Classes(bs) # <<"tab">>  BY <1>4
  <2>2. PICK y : y = dismiss(r.cp)  OBVIOUS
  <2>3. t = [r EXCEPT !.gone = r.gone \cup Ids(bs), !.cp = y]
    BY <1>1, <1>s, <1>t, <1>4, <2>1, <2>2 DEF Forward, Lose, LoopRecord
  <2>4. /\ LoopRecord(t) /\ t.ic = r.ic /\ t.sh = r.sh /\ t.cp = y /\ t.chan = r.chan /\ t.queued = r.queued
    BY <1>s, <2>3 DEF LoopRecord
  <2>5. Completer(y) /\ y.ghost = None  BY <1>s, <2>2, ClearFacts
  <2>6. Sees(t)  BY <1>s, <2>4, <2>5 DEF Sees, Formed, For
  <2> QED  BY <1>t, <2>6
<1>5. CASE ~(Classes(bs) = <<"tab">> /\ r.cp.ghost # None) /\ ~(Classes(bs) = <<"esc">> /\ r.cp.ghost # None)
  <2>1. Forward(m, bs) = Forwarded(r, bs)  BY <1>1, <1>5 DEF Forward
  <2> QED  BY <1>2, <2>1, ForwardedSees
<1> QED  BY <1>3, <1>4, <1>5

(* A lone escape dismisses the ghost or is written.                        *)
LEMMA ForwardEscSees ==
    ASSUME NEW m, Sees(m), NEW bs \in Seq(Byte)
    PROVE  Sees(ForwardEsc(m, bs))
<1>1. PICK r : r = [m EXCEPT !.ic.content = TRUE, !.ic.recent = TRUE]  OBVIOUS
<1>2. Sees(r)  BY <1>1, TypingSees
<1>s. LoopRecord(r) /\ Shaped(r.ic) /\ Line(r.sh) /\ Completer(r.cp) /\ r.chan \in Seq(Reply) /\ r.queued \in Seq(Reply)
  BY <1>2 DEF Sees, Formed
<1>t. PICK t : t = ForwardEsc(m, bs)  OBVIOUS
<1>4. CASE r.cp.ghost # None
  <2>1. PICK y : y = dismiss(r.cp)  OBVIOUS
  <2>2. t = [r EXCEPT !.gone = r.gone \cup Ids(bs), !.cp = y]
    BY <1>1, <1>s, <1>t, <1>4, <2>1 DEF ForwardEsc, Lose, LoopRecord
  <2>3. /\ LoopRecord(t) /\ t.ic = r.ic /\ t.sh = r.sh /\ t.cp = y /\ t.chan = r.chan /\ t.queued = r.queued
    BY <1>s, <2>2 DEF LoopRecord
  <2>4. Completer(y) /\ y.ghost = None  BY <1>s, <2>1, ClearFacts
  <2>5. Sees(t)  BY <1>s, <2>3, <2>4 DEF Sees, Formed, For
  <2> QED  BY <1>t, <2>5
<1>5. CASE r.cp.ghost = None
  <2>1. PICK x : x = feed_forwarded(r.sh, bs)  OBVIOUS
  <2>2. PICK w : w = Append(r.sent, bs[1].id)  OBVIOUS
  <2>3. t = [r EXCEPT !.sent = w, !.sh = x]
    BY <1>1, <1>s, <1>t, <1>5, <2>1, <2>2 DEF ForwardEsc, LoopRecord
  <2>4. /\ LoopRecord(t) /\ t.ic = r.ic /\ t.sh = x /\ t.cp = r.cp /\ t.chan = r.chan /\ t.queued = r.queued
    BY <1>s, <2>3 DEF LoopRecord
  <2>5. Line(x)  BY <1>s, <2>1, FeedForwardedFacts
  <2>6. Sees(t)  BY <1>s, <1>5, <2>4, <2>5 DEF Sees, Formed, For
  <2> QED  BY <1>t, <2>6
<1> QED  BY <1>4, <1>5

(* Bytes that are taken do not reach the line.                             *)
LEMMA LoseSees == ASSUME NEW m, Sees(m), NEW bs PROVE Sees(Lose(m, bs))
<1>1. PICK r : r = Lose(m, bs)  OBVIOUS
<1>2. PICK x : x = m.gone \cup Ids(bs)  OBVIOUS
<1>3. r = [m EXCEPT !.gone = x]  BY <1>1, <1>2 DEF Lose, Sees, Formed, LoopRecord
<1>4. /\ LoopRecord(r) /\ r.ic = m.ic /\ r.sh = m.sh /\ r.cp = m.cp /\ r.blind = m.blind /\ r.chan = m.chan
      /\ r.queued = m.queued
  BY <1>3 DEF Sees, Formed, LoopRecord
<1>5. Shaped(r.ic)  BY <1>4 DEF Sees, Formed
<1> QED  BY <1>1, <1>4, <1>5, SameSight

(* Nor does emptying the interceptor.                                      *)
LEMMA EmptiedSees == ASSUME NEW m, Sees(m) PROVE Sees(Emptied(m))
<1>1. PICK r : r = Lose(m, m.ic.buf)  OBVIOUS
<1>2. Sees(r)  BY <1>1, LoseSees
<1>3. PICK E : E = <<>> /\ E \in Seq(Byte)  BY NoFilterOK
<1>4. PICK u : u = [r EXCEPT !.ic.buf = E]  OBVIOUS
<1>5. Sees(u)  BY <1>2, <1>3, <1>4, BufferSees
<1>6. PICK v : v = FALSE  OBVIOUS
<1>7. Sees([u EXCEPT !.ic.chat = v])  BY <1>5, FlagSees
<1>8. Emptied(m) = [u EXCEPT !.ic.chat = v]  BY <1>1, <1>3, <1>4, <1>6 DEF Emptied
<1> QED  BY <1>7, <1>8

(* Entering the chat clears the ghost.                                     *)
LEMMA ChatSees == ASSUME NEW m, Sees(m) PROVE Sees(Chat(m))
<1>1. PICK r : r = Emptied(m)  OBVIOUS
<1>2. Sees(r)  BY <1>1, EmptiedSees
<1>s. LoopRecord(r) /\ Shaped(r.ic) /\ Line(r.sh) /\ Completer(r.cp)  BY <1>2 DEF Sees, Formed
<1>3. PICK y : y = Clear(r.cp)  OBVIOUS
<1>4. Completer(y) /\ y.ghost = None  BY <1>s, <1>3, ClearFacts
<1>5. PICK E : E = <<>> /\ E \in Seq(Reply)  BY NoFilterOK
<1>6. PICK t : t = Chat(m)  OBVIOUS
<1>7. t = [r EXCEPT !.redraw = TRUE, !.timer = FALSE, !.cp = y, !.queued = E, !.chan = E, !.triggered = FALSE]
  <2>1. PICK u : u = [r EXCEPT !.redraw = TRUE]  OBVIOUS
  <2>2. u.cp = r.cp  BY <1>s, <2>1 DEF LoopRecord
  <2>3. t = [u EXCEPT !.timer = FALSE, !.cp = y, !.queued = E, !.chan = E, !.triggered = FALSE]
    BY <1>1, <1>s, <1>3, <1>5, <1>6, <2>1, <2>2 DEF Chat, enter_chat_mode, LoopRecord
  <2> QED  BY <2>1, <2>3
<1>8. LoopRecord(t) /\ t.ic = r.ic /\ t.sh = r.sh /\ t.cp = y /\ t.chan = E /\ t.queued = E
  BY <1>s, <1>7 DEF LoopRecord
<1>9. Sees(t)  BY <1>s, <1>4, <1>5, <1>8 DEF Sees, Formed, For
<1> QED  BY <1>6, <1>9

(* The prefix alone clears the ghost, what follows it leaves the ghost.    *)
LEMMA BufferingSees == ASSUME NEW m, Sees(m) PROVE Sees(Buffering(m))
<1>s. /\ LoopRecord(m) /\ Shaped(m.ic) /\ Line(m.sh) /\ Completer(m.cp)
      /\ m.chan \in Seq(Reply) /\ m.queued \in Seq(Reply)
  BY DEF Sees, Formed
<1>1. PICK y : y = Clear(m.cp)  OBVIOUS
<1>2. PICK z : z = (m.timer /\ ~IsStrictPrefix(cfg.prefix, Classes(m.ic.buf)))  OBVIOUS
<1>4. PICK t : t = Buffering(m)  OBVIOUS
<1>3. \/ t = [m EXCEPT !.timer = TRUE, !.cp = y]
      \/ t = [m EXCEPT !.timer = z]
  BY <1>s, <1>1, <1>2, <1>4 DEF Buffering, LoopRecord
<1>5. CASE t = [m EXCEPT !.timer = TRUE, !.cp = y]
  <2>1. /\ LoopRecord(t) /\ t.ic = m.ic /\ t.sh = m.sh /\ t.cp = y /\ t.chan = m.chan /\ t.queued = m.queued
    BY <1>s, <1>5 DEF LoopRecord
  <2>2. Completer(y) /\ y.ghost = None  BY <1>s, <1>1, ClearFacts
  <2>3. Sees(t)  BY <1>s, <2>1, <2>2 DEF Sees, Formed, For
  <2> QED  BY <1>4, <2>3
<1>6. CASE t = [m EXCEPT !.timer = z]
  <2>1. /\ LoopRecord(t) /\ t.ic = m.ic /\ t.sh = m.sh /\ t.cp = m.cp /\ t.blind = m.blind /\ t.chan = m.chan
        /\ t.queued = m.queued
    BY <1>s, <1>6 DEF LoopRecord
  <2> QED  BY <1>s, <1>4, <2>1, SameSight
<1> QED  BY <1>3, <1>5, <1>6

(* The text of a paste is a sequence of bytes.                             *)
LEMMA PastedBytes ==
    ASSUME NEW R \in Seq(Byte)
    PROVE  SubSeq(R, 5, Len(R) - 4) \in Seq(Byte)
<1>0. PICK n : n = Len(R) /\ n \in Nat  OBVIOUS
<1>1. CASE n >= 4
  <2>1. 5 \in 1 .. n + 1 /\ n - 4 \in Int /\ n - 4 <= n  BY <1>0, <1>1
  <2> QED  BY <1>0, <2>1, PartFacts
<1>2. CASE ~(n >= 4)
  <2>1. 5 \in Int /\ n - 4 \in Int /\ n - 4 < 5  BY <1>0, <1>2
  <2>2. SubSeq(R, 5, n - 4) = <<>>  BY <1>0, <2>1, SubSeqEmpty
  <2> QED  BY <1>0, <2>2, NoFilterOK
<1> QED  BY <1>1, <1>2

(* The end of an escape sequence, by each of its results.                  *)
LEMMA EscResultSees ==
    ASSUME NEW m, Sees(m), NEW e, e.raw \in Seq(Byte), NEW alone
    PROVE  Sees(EscResult(m, e, alone))
<1>0. PICK R : R = e.raw /\ R \in Seq(Byte)  OBVIOUS
<1>1. PICK r : r = EscResult(m, e, alone)  OBVIOUS
<1>2. PICK busy : busy = (m.ic.chat \/ m.ic.buf # <<>>)  OBVIOUS
<1>3. PICK D : D = SubSeq(R, 5, Len(R) - 4)  OBVIOUS
<1>4. PICK X : X = m.ic.buf \o D  OBVIOUS
<1>5. PICK u : u = [m EXCEPT !.ic.buf = X, !.gone = m.gone \cup (Ids(R) \ Ids(D))]  OBVIOUS
<1>6. \/ r = [Lose(Emptied(m), R) EXCEPT !.timer = FALSE]
      \/ r = Lose(m, R)
      \/ r = Buffering(u)
      \/ r = ForwardEsc(m, R)
      \/ r = Forward(m, R)
  <2>1. u = [m EXCEPT !.ic.buf = @ \o D, !.gone = @ \cup (Ids(R) \ Ids(D))]
    BY <1>4, <1>5 DEF Sees, Formed, LoopRecord, Shaped
  <2> QED  BY <1>0, <1>1, <1>2, <1>3, <2>1 DEF EscResult
<1>7. CASE r = [Lose(Emptied(m), R) EXCEPT !.timer = FALSE]
  <2>1. PICK t : t = Lose(Emptied(m), R)  OBVIOUS
  <2>2. Sees(t)  BY <2>1, EmptiedSees, LoseSees
  <2>3. PICK v : v = FALSE  OBVIOUS
  <2>4. r = [t EXCEPT !.timer = v]  BY <1>7, <2>1, <2>3
  <2>5. /\ LoopRecord(r) /\ r.ic = t.ic /\ r.sh = t.sh /\ r.cp = t.cp /\ r.blind = t.blind /\ r.chan = t.chan
        /\ r.queued = t.queued
    BY <2>2, <2>4 DEF Sees, Formed, LoopRecord
  <2>6. Shaped(r.ic)  BY <2>2, <2>5 DEF Sees, Formed
  <2>7. Sees(r)  BY <2>2, <2>5, <2>6, SameSight
  <2> QED  BY <1>1, <2>7
<1>8. CASE r = Lose(m, R)  BY <1>1, <1>8, LoseSees
<1>9. CASE r = Buffering(u)
  <2>1. X \in Seq(Byte)
    <3>1. D \in Seq(Byte)  BY <1>0, <1>3, PastedBytes
    <3>2. m.ic.buf \in Seq(Byte)  BY DEF Sees, Formed, Shaped
    <3> QED  BY <1>4, <3>1, <3>2
  <2>2. PICK t : t = [m EXCEPT !.ic.buf = X]  OBVIOUS
  <2>3. Sees(t)  BY <2>1, <2>2, BufferSees
  <2>4. PICK g : g = m.gone \cup (Ids(R) \ Ids(D))  OBVIOUS
  <2>5. u = [t EXCEPT !.gone = g]  BY <1>5, <2>2, <2>4
  <2>6. /\ LoopRecord(u) /\ u.ic = t.ic /\ u.sh = t.sh /\ u.cp = t.cp /\ u.blind = t.blind /\ u.chan = t.chan
        /\ u.queued = t.queued
    BY <2>3, <2>5 DEF Sees, Formed, LoopRecord
  <2>7. Shaped(u.ic)  BY <2>3, <2>6 DEF Sees, Formed
  <2>8. Sees(u)  BY <2>3, <2>6, <2>7, SameSight
  <2> QED  BY <1>1, <1>9, <2>8, BufferingSees
<1>10. CASE r = ForwardEsc(m, R)  BY <1>0, <1>1, <1>10, ForwardEscSees
<1>11. CASE r = Forward(m, R)  BY <1>0, <1>1, <1>11, ForwardSees
<1> QED  BY <1>6, <1>7, <1>8, <1>9, <1>10, <1>11

(* A byte that was put behind the buffer.                                  *)
LEMMA TypedSees == ASSUME NEW m, Sees(m) PROVE Sees(Typed(m))
<1>1. PICK r : r = Typed(m)  OBVIOUS
<1>2. PICK v : v = (Len(Classes(m.ic.buf)) = Len(cfg.prefix))  OBVIOUS
<1>3. PICK u : u = [m EXCEPT !.ic.chat = v]  OBVIOUS
<1>4. r = Buffering(u) \/ r = Chat(m) \/ r = Buffering(m) \/ r = Flush(m)
  BY <1>1, <1>2, <1>3 DEF Typed
<1>5. Sees(u)  BY <1>3, FlagSees
<1>6. Sees(Flush(m))
  <2>1. PICK E : E = <<>> /\ E \in Seq(Byte)  BY NoFilterOK
  <2>2. PICK t : t = [m EXCEPT !.ic.buf = E]  OBVIOUS
  <2>3. Sees(t)  BY <2>1, <2>2, BufferSees
  <2>4. m.ic.buf \in Seq(Byte)  BY DEF Sees, Formed, Shaped
  <2>5. Sees(Forward(t, m.ic.buf))  BY <2>3, <2>4, ForwardSees
  <2>6. Flush(m) = m \/ Flush(m) = Forward(t, m.ic.buf)  BY <2>1, <2>2 DEF Flush
  <2> QED  BY <2>5, <2>6
<1> QED  BY <1>1, <1>4, <1>5, <1>6, BufferingSees, ChatSees

(* A backspace on a buffer.                                                *)
LEMMA BackspaceSees ==
    ASSUME NEW m, Sees(m), NEW b
    PROVE  Sees(Backspace(m, b))
<1>1. PICK B : B = m.ic.buf /\ B \in Seq(Byte)  BY DEF Sees, Formed, Shaped
<1>2. PICK n : n = IF Last(B).c = "u2" THEN 2 ELSE 1  OBVIOUS
<1>3. PICK P : P = SubSeq(B, 1, Len(B) - n)  OBVIOUS
<1>4. P \in Seq(Byte)
  <2>1. PICK k : k = Len(B) /\ k \in Nat  BY <1>1
  <2>2. PICK z : z = k - n  OBVIOUS
  <2>3. 1 \in 1 .. Len(B) + 1 /\ z \in Int /\ z <= Len(B)  BY <1>2, <2>1, <2>2
  <2>4. SubSeq(B, 1, z) \in Seq(Byte)  BY <1>1, <2>3, PartFacts
  <2> QED  BY <1>3, <2>1, <2>2, <2>4
<1>5. PICK u : u = Lose(m, Append(SubSeq(B, Len(P) + 1, Len(B)), b))  OBVIOUS
<1>6. Sees(u)  BY <1>5, LoseSees
<1>7. PICK v : v = (u.ic.chat /\ Len(P) >= Len(cfg.prefix))  OBVIOUS
<1>8. PICK t : t = [u EXCEPT !.ic.buf = P]  OBVIOUS
<1>9. Sees(t)  BY <1>4, <1>6, <1>8, BufferSees
<1>10. Sees([t EXCEPT !.ic.chat = v])  BY <1>9, FlagSees
<1>11. Backspace(m, b) = [t EXCEPT !.ic.chat = v]
  <2>1. Backspace(m, b) = [u EXCEPT !.ic.buf = P, !.ic.chat = @ /\ Len(P) >= Len(cfg.prefix)]
    BY <1>1, <1>2, <1>3, <1>5 DEF Backspace
  <2>2. t.ic.chat = u.ic.chat  BY <1>6, <1>8 DEF Sees, Formed, LoopRecord, Shaped
  <2> QED  BY <1>6, <1>7, <1>8, <2>1, <2>2 DEF Sees, Formed, LoopRecord, Shaped
<1> QED  BY <1>10, <1>11

(* A byte outside escape sequences.                                        *)
LEMMA FeedKeySees ==
    ASSUME NEW m, Sees(m), NEW b \in Byte
    PROVE  Sees(FeedKey(m, b))
<1>1. PICK B : B = m.ic.buf /\ B \in Seq(Byte)  BY DEF Sees, Formed, Shaped
<1>2. PICK D : D = Append(B, b)  OBVIOUS
<1>3. D \in Seq(Byte) /\ <<b>> \in Seq(Byte)  BY <1>1, <1>2
<1>4. PICK E : E = <<>> /\ E \in Seq(Byte)  BY NoFilterOK
<1>5. PICK x : x = [m EXCEPT !.ic.buf = E]  OBVIOUS
<1>6. PICK u : u = [m EXCEPT !.ic.buf = D]  OBVIOUS
<1>7. Sees(x) /\ Sees(u)  BY <1>3, <1>4, <1>5, <1>6, BufferSees
<1>8. u.ic.buf = D  BY <1>6 DEF Sees, Formed, LoopRecord, Shaped
<1>9. u = [m EXCEPT !.ic.buf = Append(@, b)]  BY <1>1, <1>2, <1>6 DEF Sees, Formed, LoopRecord, Shaped
<1>10. PICK r : r = FeedKey(m, b)  OBVIOUS
<1>11. \/ r = Lose(m, <<b>>) \/ r = Forward(x, D) \/ r = Backspace(m, b) \/ r = Forward(m, <<b>>)
       \/ r = handle_enter(u) \/ r = Typed(u)
  BY <1>1, <1>2, <1>4, <1>5, <1>9, <1>10 DEF FeedKey
<1>12. Sees(handle_enter(u))
  <2>1. PICK y : y = [u EXCEPT !.ic.buf = E]  OBVIOUS
  <2>2. Sees(y)  BY <1>4, <1>7, <2>1, BufferSees
  <2>3. PICK z : z = Forward(y, D)  OBVIOUS
  <2>4. Sees(z)  BY <1>3, <2>2, <2>3, ForwardSees
  <2>5. PICK v : v = FALSE  OBVIOUS
  <2>6. Sees([z EXCEPT !.ic.content = v])  BY <2>4, FlagSees
  <2>7. handle_enter(u) = Chat(u) \/ handle_enter(u) = [z EXCEPT !.ic.content = v]
    BY <1>4, <1>8, <2>1, <2>3, <2>5 DEF handle_enter
  <2> QED  BY <1>7, <2>6, <2>7, ChatSees
<1>13. Sees(Lose(m, <<b>>)) /\ Sees(Forward(x, D)) /\ Sees(Backspace(m, b)) /\ Sees(Forward(m, <<b>>)) /\ Sees(Typed(u))
  BY <1>3, <1>7, LoseSees, ForwardSees, BackspaceSees, TypedSees
<1> QED  BY <1>10, <1>11, <1>12, <1>13

(* A byte of a read.                                                       *)
LEMMA FeedSees ==
    ASSUME NEW m, Sees(m), NEW b \in Byte
    PROVE  Sees(feed_byte(m, b))
<1>1. PICK e : e = m.ic.esc /\ FilterOK(e)  BY DEF Sees, Formed, Shaped
<1>2. PICK f : f = EscFeed(e, b)  OBVIOUS
<1>3. PICK r : r = feed_byte(m, b)  OBVIOUS
<1>4. <<b>> \in Seq(Byte)  OBVIOUS
<1>5. CASE e # NoFilter
  <2>1. e.mode \in Modes \ {"none"}  BY <1>1, <1>5 DEF FilterOK
  <2>2. /\ f = [mode |-> f.mode, raw |-> f.raw] /\ f.raw = Append(e.raw, b)
        /\ f.mode \in (Modes \ {"none", "esc"}) \cup {"cancel", "ignore", "insert"}
    BY <1>2, <2>1, EscFeedFacts
  <2>3. f.raw \in Seq(Byte)  BY <1>1, <2>2 DEF FilterOK
  <2>4. CASE f.mode \in {"cancel", "ignore", "insert"}
    <3>1. PICK u : u = [m EXCEPT !.ic.esc = NoFilter]  OBVIOUS
    <3>2. Sees(u)  BY <3>1, FilterSees, NoFilterOK
    <3>3. r = EscResult(u, f, FALSE)  BY <1>1, <1>2, <1>3, <1>5, <2>4, <3>1 DEF feed_byte
    <3> QED  BY <1>3, <2>3, <3>2, <3>3, EscResultSees
  <2>5. CASE f.mode \in Modes \ {"none", "esc"}
    <3>1. r = [m EXCEPT !.ic.esc = f]  BY <1>1, <1>2, <1>3, <1>5, <2>5 DEF feed_byte, Modes
    <3>2. FilterOK(f)  BY <2>2, <2>3, <2>5 DEF FilterOK
    <3> QED  BY <1>3, <3>1, <3>2, FilterSees
  <2> QED  BY <2>2, <2>4, <2>5
<1>6. CASE e = NoFilter /\ b.c = "esc"
  <2>1. PICK g : g = [mode |-> "esc", raw |-> <<b>>]  OBVIOUS
  <2>2. FilterOK(g)  BY <1>4, <2>1 DEF FilterOK, Modes
  <2>3. r = [m EXCEPT !.ic.esc = g]  BY <1>1, <1>3, <1>6, <2>1 DEF feed_byte
  <2> QED  BY <1>3, <2>2, <2>3, FilterSees
<1>7. CASE e = NoFilter /\ b.c # "esc"
  <2>1. r = Forward(m, <<b>>) \/ r = FeedKey(m, b)  BY <1>1, <1>3, <1>7 DEF feed_byte
  <2> QED  BY <1>3, <1>4, <2>1, ForwardSees, FeedKeySees
<1> QED  BY <1>5, <1>6, <1>7

(* The end of a read.                                                      *)
LEMMA FinishSees == ASSUME NEW m, Sees(m) PROVE Sees(finish_batch(m))
<1>1. PICK e : e = m.ic.esc /\ FilterOK(e)  BY DEF Sees, Formed, Shaped
<1>2. PICK f : f = [e EXCEPT !.mode = "cancel"]  OBVIOUS
<1>3. f.raw \in Seq(Byte)  BY <1>1, <1>2 DEF FilterOK
<1>4. PICK u : u = [m EXCEPT !.ic.esc = NoFilter]  OBVIOUS
<1>5. Sees(u)  BY <1>4, FilterSees, NoFilterOK
<1>6. Sees(EscResult(u, f, TRUE))  BY <1>3, <1>5, EscResultSees
<1>7. finish_batch(m) = m \/ finish_batch(m) = EscResult(u, f, TRUE)  BY <1>1, <1>2, <1>4 DEF finish_batch
<1> QED  BY <1>6, <1>7

(* A read of several bytes, by induction on them.                          *)
LEMMA ReadSees ==
    ASSUME NEW m, Sees(m), NEW bs \in Seq(Byte)
    PROVE  Sees(AfterFeeding(m, bs)[Len(bs)])
<1>n. PICK n : n = Len(bs) /\ n \in Nat  OBVIOUS
<1>f. PICK F : F = AfterFeeding(m, bs)  OBVIOUS
<1>0. F = [i \in 0 .. n |-> IF i = 0 THEN m ELSE feed_byte(F[i - 1], bs[i])]  BY <1>n, <1>f, FeedingSteps
<1>t. PICK T : T = {k \in 0 .. n : Sees(F[k])}  OBVIOUS
<1>1. 0 \in T
  <2>1. F[0] = m /\ 0 \in 0 .. n  BY <1>0, <1>n
  <2> QED  BY <1>t, <2>1
<1>2. ASSUME NEW k \in 0 .. n - 1, k \in T  PROVE k + 1 \in T
  <2>1. PICK j : j = k + 1  OBVIOUS
  <2>2. j \in 0 .. n /\ j # 0 /\ j - 1 = k /\ j \in 1 .. Len(bs)  BY <1>n, <2>1
  <2>3. F[j] = feed_byte(F[k], bs[j])  BY <1>0, <2>2
  <2>4. bs[j] \in Byte  BY <2>2
  <2>5. Sees(F[k])  BY <1>t, <1>2
  <2>6. Sees(F[j])  BY <2>3, <2>4, <2>5, FeedSees
  <2> QED  BY <1>t, <2>1, <2>2, <2>6
<1>3. \A k \in 0 .. n : k \in T
  <2>1. \A k \in 0 .. n - 1 : k \in T => k + 1 \in T  BY <1>2
  <2>2. n \in Nat  BY <1>n
  <2> QED  BY ONLY <2>2, <1>1, <2>1, SetInduction
<1>4. Sees(F[n])
  <2>1. n \in 0 .. n  BY <1>n
  <2> QED  BY <1>3, <1>t, <2>1
<1> QED  BY <1>4, <1>f, <1>n

DetectorOK(d) ==
    /\ d = [held |-> d.held, out |-> d.out, eaten |-> d.eaten]
    /\ d.held \in Seq(Byte) /\ d.out \in Seq(Byte)

(* The detector of cursor reports passes bytes on.                         *)
LEMMA DetectorFeeds ==
    ASSUME NEW d, DetectorOK(d), NEW b \in Byte
    PROVE  DetectorOK(DsrFeed(d, b))
<1>1. PICK h : h = Append(d.held, b)  OBVIOUS
<1>2. PICK o : o = d.out \o h  OBVIOUS
<1>3. h \in Seq(Byte) /\ o \in Seq(Byte)
  <2>1. d.held \in Seq(Byte) /\ d.out \in Seq(Byte)  BY DEF DetectorOK
  <2>2. h \in Seq(Byte)  BY <1>1, <2>1
  <2> QED  BY <1>2, <2>1, <2>2
<1>4. PICK r : r = DsrFeed(d, b)  OBVIOUS
<1>5. PICK x : x = d.eaten \cup Ids(h)  OBVIOUS
<1>6. PICK E : E = <<>> /\ E \in Seq(Byte)  BY NoFilterOK
<1>7. \/ r = [d EXCEPT !.held = h]
      \/ r = [d EXCEPT !.held = E, !.eaten = x]
      \/ r = [d EXCEPT !.held = E, !.out = o]
  BY <1>1, <1>2, <1>4, <1>5, <1>6 DEF DsrFeed, DetectorOK
<1>8. DetectorOK(r)  BY <1>3, <1>6, <1>7 DEF DetectorOK
<1> QED  BY <1>4, <1>8

(* A read through the detector.                                            *)
LEMMA DetectedBytes ==
    ASSUME NEW bs \in Seq(Byte), dsr \in Seq(Byte)
    PROVE  DetectorOK(DsrRead(bs))
<1>n. PICK n : n = Len(bs) /\ n \in Nat  OBVIOUS
<1>f. PICK F : F = AfterDetecting(bs)  OBVIOUS
<1>0. F = [i \in 0 .. n |-> IF i = 0 THEN Detector ELSE DsrFeed(F[i - 1], bs[i])]  BY <1>n, <1>f, DetectingSteps
<1>t. PICK T : T = {k \in 0 .. n : DetectorOK(F[k])}  OBVIOUS
<1>1. 0 \in T
  <2>1. F[0] = Detector /\ 0 \in 0 .. n  BY <1>0, <1>n
  <2>2. DetectorOK(Detector)  BY NoFilterOK DEF Detector, DetectorOK
  <2> QED  BY <1>t, <2>1, <2>2
<1>2. ASSUME NEW k \in 0 .. n - 1, k \in T  PROVE k + 1 \in T
  <2>1. PICK j : j = k + 1  OBVIOUS
  <2>2. j \in 0 .. n /\ j # 0 /\ j - 1 = k /\ j \in 1 .. Len(bs)  BY <1>n, <2>1
  <2>3. F[j] = DsrFeed(F[k], bs[j])  BY <1>0, <2>2
  <2>4. bs[j] \in Byte  BY <2>2
  <2>5. DetectorOK(F[k])  BY <1>t, <1>2
  <2>6. DetectorOK(F[j])  BY <2>3, <2>4, <2>5, DetectorFeeds
  <2> QED  BY <1>t, <2>1, <2>2, <2>6
<1>3. \A k \in 0 .. n : k \in T
  <2>1. \A k \in 0 .. n - 1 : k \in T => k + 1 \in T  BY <1>2
  <2>2. n \in Nat  BY <1>n
  <2> QED  BY ONLY <2>2, <1>1, <2>1, SetInduction
<1>4. PICK d : d = F[n] /\ DetectorOK(d)
  <2>1. n \in 0 .. n  BY <1>n
  <2> QED  BY <1>3, <1>t, <2>1
<1>o. PICK o : o = d.out \o d.held  OBVIOUS
<1>5. o = d.out \o d.held /\ o \in Seq(Byte)
  <2>1. d.held \in Seq(Byte) /\ d.out \in Seq(Byte)  BY <1>4 DEF DetectorOK
  <2> QED  BY <1>o, <2>1
<1>6. PICK E : E = <<>> /\ E \in Seq(Byte)  BY NoFilterOK
<1>7. PICK r : r = DsrRead(bs)  OBVIOUS
<1>8. r = d \/ r = [d EXCEPT !.held = E, !.out = o]
  BY <1>n, <1>f, <1>4, <1>5, <1>6, <1>7 DEF DsrRead, DetectorOK
<1>9. DetectorOK(r)  BY <1>4, <1>5, <1>6, <1>8 DEF DetectorOK
<1> QED  BY <1>7, <1>9

-----------------------------------------------------------------------------
(* The ghost and the line, at every step.                                  *)

Request == [seq : Nat, input : Seq(Sign)]

GhostInv ==
    /\ typed \in Nat /\ tty \in Seq(Byte) /\ dsr \in Seq(Byte)
    /\ Shaped(ic) /\ Line(sh) /\ Completer(cp)
    /\ chan \in Seq(Reply) /\ queued \in Seq(Reply) /\ flying \subseteq Request
    /\ blind \/ For(cp, sh.line)

(* The loop's record at the start of a step.                               *)
LEMMA ReadingSees == ASSUME GhostInv PROVE Sees(Reading)
<1>1. PICK m : m = Reading  OBVIOUS
<1>2. /\ LoopRecord(m) /\ m.ic = ic /\ m.sh = sh /\ m.cp = cp /\ m.blind = blind /\ m.chan = chan
      /\ m.queued = queued
  BY <1>1 DEF Reading, LoopRecord
<1>3. Sees(m)  BY <1>2 DEF GhostInv, Sees, Formed
<1> QED  BY <1>1, <1>3

(* The loop goes on from a state with the right ghost.                     *)
LEMMA ResumeGhost ==
    ASSUME NEW m, Sees(m), Resume(m), typed' \in Nat, tty' \in Seq(Byte), dsr' \in Seq(Byte),
           flying' \subseteq Request
    PROVE  GhostInv'
<1>1. /\ ic' = m.ic /\ sh' = m.sh /\ cp' = m.cp /\ blind' = m.blind /\ chan' = m.chan /\ queued' = m.queued
  BY DEF Resume
<1> QED  BY <1>1 DEF Sees, Formed, GhostInv

(* Suppression keeps the shape of the interceptor.                         *)
LEMMA SuppressedShaped == ASSUME NEW i, Shaped(i), NEW on PROVE Shaped(set_suppressed(i, on))
<1>1. PICK j : j = set_suppressed(i, on)  OBVIOUS
<1>2. PICK t : t = TRUE  OBVIOUS
<1>3. PICK f : f = FALSE  OBVIOUS
<1>4. PICK E : E = <<>> /\ E \in Seq(Byte)  BY NoFilterOK
<1>5. PICK F : F = NoFilter /\ FilterOK(F)  BY NoFilterOK
<1>6. CASE on /\ ~i.supp
  <2>1. j = [i EXCEPT !.supp = t, !.buf = E, !.chat = f, !.esc = F]
    BY <1>1, <1>2, <1>3, <1>4, <1>5, <1>6 DEF set_suppressed
  <2>2. PICK u : u = [i EXCEPT !.supp = t]  OBVIOUS
  <2>3. Shaped(u)  BY <2>2 DEF Shaped
  <2>4. PICK v : v = [u EXCEPT !.chat = f]  OBVIOUS
  <2>5. Shaped(v)  BY <2>3, <2>4 DEF Shaped
  <2>6. PICK w : w = [v EXCEPT !.buf = E]  OBVIOUS
  <2>7. Shaped(w)  BY <1>4, <2>5, <2>6 DEF Shaped
  <2>8. j = [w EXCEPT !.esc = F]  BY <2>1, <2>2, <2>4, <2>6 DEF Shaped
  <2>9. Shaped(j)  BY <1>5, <2>7, <2>8 DEF Shaped
  <2> QED  BY <1>1, <2>9
<1>7. CASE ~(on /\ ~i.supp) /\ ~on /\ i.supp
  <2>1. PICK u : u = [i EXCEPT !.supp = f]  OBVIOUS
  <2>2. Shaped(u)  BY <2>1 DEF Shaped
  <2>3. j = [u EXCEPT !.content = f]  BY <1>1, <1>3, <1>7, <2>1 DEF set_suppressed, Shaped
  <2>4. Shaped(j)  BY <2>2, <2>3 DEF Shaped
  <2> QED  BY <1>1, <2>4
<1>8. CASE ~(on /\ ~i.supp) /\ ~(~on /\ i.supp)
  <2>1. j = i  BY <1>1, <1>8 DEF set_suppressed
  <2> QED  BY <1>1, <2>1
<1> QED  BY <1>6, <1>7, <1>8

(* Its flags keep it.                                                      *)
LEMMA FlagShaped ==
    ASSUME NEW i, Shaped(i), NEW v
    PROVE  Shaped([i EXCEPT !.content = v]) /\ Shaped([i EXCEPT !.recent = v])
<1>0. PICK x : x = v  OBVIOUS
<1>1. PICK j : j = [i EXCEPT !.content = x]  OBVIOUS
<1>2. PICK k : k = [i EXCEPT !.recent = x]  OBVIOUS
<1>3. Shaped(j)  BY <1>1 DEF Shaped
<1>4. Shaped(k)  BY <1>2 DEF Shaped
<1> QED  BY <1>0, <1>1, <1>2, <1>3, <1>4

(* A prompt keeps it.                                                      *)
LEMMA PromptShaped == ASSUME NEW i, Shaped(i) PROVE Shaped(PromptReset(i))
<1>1. PICK j : j = PromptReset(i)  OBVIOUS
<1>2. PICK f : f = FALSE  OBVIOUS
<1>3. PICK E : E = <<>> /\ E \in Seq(Byte)  BY NoFilterOK
<1>4. PICK F : F = NoFilter /\ FilterOK(F)  BY NoFilterOK
<1>5. j = [i EXCEPT !.chat = f, !.buf = E, !.esc = F, !.content = f]  BY <1>1, <1>2, <1>3, <1>4 DEF PromptReset
<1>6. PICK u : u = [i EXCEPT !.chat = f]  OBVIOUS
<1>7. Shaped(u)  BY <1>6 DEF Shaped
<1>8. PICK v : v = [u EXCEPT !.content = f]  OBVIOUS
<1>9. Shaped(v)  BY <1>7, <1>8 DEF Shaped
<1>10. PICK w : w = [v EXCEPT !.buf = E]  OBVIOUS
<1>11. Shaped(w)  BY <1>3, <1>9, <1>10 DEF Shaped
<1>12. j = [w EXCEPT !.esc = F]  BY <1>5, <1>6, <1>8, <1>10 DEF Shaped
<1>13. Shaped(j)  BY <1>4, <1>11, <1>12 DEF Shaped
<1> QED  BY <1>1, <1>13

(* A read of keys.                                                         *)
LEMMA ReadKeysGhost == ASSUME GhostInv, NEW n \in 1 .. Len(tty), ReadKeys(n) PROVE GhostInv'
<1>s. tty \in Seq(Byte) /\ dsr \in Seq(Byte) /\ Shaped(ic) /\ typed \in Nat /\ flying \subseteq Request
  BY DEF GhostInv
<1>1. PICK bs : bs = SubSeq(tty, 1, n)  OBVIOUS
<1>2. PICK later : later = SubSeq(tty, n + 1, Len(tty))  OBVIOUS
<1>3. bs \in Seq(Byte) /\ later \in Seq(Byte)
  <2>1. PICK k : k = Len(tty) /\ k \in Nat /\ n \in 1 .. k  BY <1>s
  <2>2. 1 \in 1 .. Len(tty) + 1 /\ n \in Int /\ n <= Len(tty)  BY <2>1
  <2>3. n + 1 \in 1 .. Len(tty) + 1 /\ Len(tty) \in Int /\ Len(tty) <= Len(tty)  BY <2>1
  <2>4. bs \in Seq(Byte)  BY <1>s, <1>1, <2>2, PartFacts
  <2>5. later \in Seq(Byte)  BY <1>s, <1>2, <2>3, PartFacts
  <2> QED  BY <2>4, <2>5
<1>4. PICK d : d = DsrRead(bs)  OBVIOUS
<1>5. d.held \in Seq(Byte) /\ d.out \in Seq(Byte)  BY <1>s, <1>3, <1>4, DetectedBytes DEF DetectorOK
<1>6. PICK i : i = IF alt THEN ic ELSE set_suppressed(ic, ~sh.prompt)  OBVIOUS
<1>7. Shaped(i)
  <2>1. CASE alt  BY <1>s, <1>6, <2>1
  <2>2. CASE ~alt  BY <1>s, <1>6, <2>2, SuppressedShaped
  <2> QED  BY <2>1, <2>2
<1>8. PICK g : g = gone \cup Dropped(ic, i) \cup d.eaten  OBVIOUS
<1>9. PICK m : m = [Reading EXCEPT !.ic = i, !.gone = @ \cup Dropped(ic, i) \cup d.eaten]  OBVIOUS
<1>10. Sees(m)
  <2>1. PICK r : r = Reading  OBVIOUS
  <2>2. Sees(r) /\ r.gone = gone
    <3>1. Sees(r)  BY <2>1, ReadingSees
    <3>2. r.gone = gone  BY <2>1 DEF Reading
    <3> QED  BY <3>1, <3>2
  <2>3. m = [r EXCEPT !.ic = i, !.gone = g]  BY <1>8, <1>9, <2>1, <2>2 DEF Sees, Formed, LoopRecord
  <2>4. /\ LoopRecord(m) /\ m.ic = i /\ m.sh = r.sh /\ m.cp = r.cp /\ m.blind = r.blind /\ m.chan = r.chan
        /\ m.queued = r.queued
    BY <2>2, <2>3 DEF Sees, Formed, LoopRecord
  <2> QED  BY <1>7, <2>2, <2>4, SameSight
<1>11. PICK z : z = finish_batch(AfterFeeding(m, d.out)[Len(d.out)])  OBVIOUS
<1>12. Sees(z)  BY <1>5, <1>10, <1>11, ReadSees, FinishSees
<1>13. tty' = later /\ dsr' = d.held /\ typed' = typed /\ flying' = flying /\ Resume(z)
  BY <1>1, <1>2, <1>4, <1>6, <1>9, <1>11 DEF ReadKeys
<1> QED  BY <1>s, <1>3, <1>5, <1>12, <1>13, ResumeGhost

(* The prefix timeout.                                                     *)
LEMMA PrefixTimeoutGhost == ASSUME GhostInv, PrefixTimeout PROVE GhostInv'
<1>1. dsr' = dsr /\ tty' = tty /\ typed' = typed /\ flying' = flying  BY DEF PrefixTimeout
<1>2. typed' \in Nat /\ tty' \in Seq(Byte) /\ dsr' \in Seq(Byte) /\ flying' \subseteq Request
  BY <1>1 DEF GhostInv
<1>3. Sees(Reading)  BY ReadingSees
<1>4. CASE Resume(Chat(Reading))
  <2>1. Sees(Chat(Reading))  BY <1>3, ChatSees
  <2> QED  BY <1>2, <1>4, <2>1, ResumeGhost
<1>5. CASE Resume([Reading EXCEPT !.timer = FALSE])
  <2>1. PICK r : r = Reading  OBVIOUS
  <2>2. PICK v : v = FALSE  OBVIOUS
  <2>3. PICK m : m = [r EXCEPT !.timer = v]  OBVIOUS
  <2>4. Sees(r)  BY <1>3, <2>1
  <2>5. /\ LoopRecord(m) /\ m.ic = r.ic /\ m.sh = r.sh /\ m.cp = r.cp /\ m.blind = r.blind /\ m.chan = r.chan
        /\ m.queued = r.queued
    BY <2>3, <2>4 DEF Sees, Formed, LoopRecord
  <2>6. Shaped(m.ic)  BY <2>4, <2>5 DEF Sees, Formed
  <2>7. Sees(m)  BY <2>4, <2>5, <2>6, SameSight
  <2>8. Resume(m)  BY <1>5, <2>1, <2>2, <2>3
  <2> QED  BY <1>2, <2>7, <2>8, ResumeGhost
<1> QED  BY <1>4, <1>5 DEF PrefixTimeout

(* The shell reports its line: the line is the reported one, the queued    *)
(* answers are given against it, and the held keys follow.                 *)
LEMMA ReportGhost ==
    ASSUME GhostInv, NEW line \in {sh.line, <<"b">>}, NEW end, ReadlineReport(line, end)
    PROVE  GhostInv'
<1>s. /\ Line(sh) /\ Completer(cp) /\ chan \in Seq(Reply) /\ queued \in Seq(Reply) /\ Shaped(ic)
      /\ (blind \/ For(cp, sh.line))
  BY DEF GhostInv
<1>l. line \in Seq(Sign)
  <2>1. sh.line \in Seq(Sign)  BY <1>s DEF Line
  <2>2. "b" \in Sign  BY DEF Sign, Printable, Letters
  <2>3. <<"b">> \in Seq(Sign)  BY <2>2
  <2> QED  BY <2>1, <2>3
<1>1. PICK s1 : s1 = set_readline(sh, line, end)  OBVIOUS
<1>2. Line(s1) /\ (s1.line = sh.line \/ s1.changed)
  <2>0. PICK f : f = FALSE  OBVIOUS
  <2>1. PICK t : t = [sh EXCEPT !.rl = f]  OBVIOUS
  <2>2. Line(t) /\ t.line = sh.line  BY <1>s, <2>1 DEF Line
  <2>3. PICK u : u = [t EXCEPT !.end = end]  OBVIOUS
  <2>4. Line(u) /\ u.line = sh.line  BY <2>2, <2>3 DEF Line
  <2>5. s1 = sh \/ s1 = u \/ s1 = Bumped(u, line)
    <3>1. u = [sh EXCEPT !.rl = FALSE, !.end = end]  BY <1>s, <2>0, <2>1, <2>3 DEF Line
    <3> QED  BY <1>1, <3>1 DEF set_readline
  <2>6. Line(Bumped(u, line)) /\ Bumped(u, line).changed  BY <1>l, <2>4, BumpedFacts
  <2> QED  BY <1>s, <2>4, <2>5, <2>6
<1>3. PICK c1 : c1 = CASE queued # <<>> /\ s1.end -> Answered(cp, queued, s1.line)
                       [] queued # <<>> /\ ~s1.end /\ cp.ghost # None -> Clear(cp)
                       [] OTHER -> cp
  OBVIOUS
<1>4. Completer(c1) /\ (For(cp, s1.line) => For(c1, s1.line))
  <2>1. s1.line \in Seq(Sign)  BY <1>2 DEF Line
  <2>2. CASE c1 = Answered(cp, queued, s1.line)  BY <1>s, <2>1, <2>2, AnsweredFacts
  <2>3. CASE c1 = Clear(cp)
    <3>1. Completer(c1) /\ c1.ghost = None  BY <1>s, <2>3, ClearFacts
    <3> QED  BY <3>1 DEF For
  <2>4. CASE c1 = cp  BY <1>s, <2>4
  <2>5. c1 = Answered(cp, queued, s1.line) \/ c1 = Clear(cp) \/ c1 = cp  BY <1>3
  <2> QED  BY <2>2, <2>3, <2>4, <2>5
<1>5. PICK r : r = Reading  OBVIOUS
<1>6. Sees(r) /\ r.sh = sh /\ r.cp = cp /\ r.blind = blind
  <2>1. Sees(r)  BY <1>5, ReadingSees
  <2>2. r.sh = sh /\ r.cp = cp /\ r.blind = blind  BY <1>5 DEF Reading
  <2> QED  BY <2>1, <2>2
<1>7. PICK m : m = [r EXCEPT !.sh = s1, !.cp = c1]  OBVIOUS
<1>8. /\ LoopRecord(m) /\ m.ic = r.ic /\ m.sh = s1 /\ m.cp = c1 /\ m.blind = blind /\ m.chan = r.chan
      /\ m.queued = r.queued
  BY <1>6, <1>7 DEF Sees, Formed, LoopRecord
<1>9. Formed(m)  BY <1>2, <1>4, <1>6, <1>8 DEF Sees, Formed
<1>10. m.sh.changed \/ m.blind \/ For(m.cp, m.sh.line)  BY <1>s, <1>2, <1>4, <1>8
<1>11. PICK z : z = Changes(m)  OBVIOUS
<1>12. Sees(z)  BY <1>9, <1>10, <1>11, ChangesSees
<1>13. sh' = z.sh /\ cp' = z.cp /\ blind' = z.blind
  BY <1>1, <1>3, <1>5, <1>7, <1>11 DEF ReadlineReport
<1>14. /\ ic' = [ic EXCEPT !.content = (line # <<>>)] /\ queued' = <<>> /\ chan' = chan
       /\ UNCHANGED <<tty, dsr, typed, flying>>
  BY DEF ReadlineReport
<1>15. Shaped(ic')  BY <1>s, <1>14, FlagShaped
<1>16. queued' \in Seq(Reply)  BY <1>14, NoFilterOK
<1>17. Line(sh') /\ Completer(cp') /\ (blind' \/ For(cp', sh'.line))  BY <1>12, <1>13 DEF Sees, Formed
<1>18. /\ typed' \in Nat /\ tty' \in Seq(Byte) /\ dsr' \in Seq(Byte) /\ chan' \in Seq(Reply)
       /\ flying' \subseteq Request
  BY <1>14 DEF GhostInv
<1> QED  BY <1>15, <1>16, <1>17, <1>18 DEF GhostInv

(* Steps of the completer and of the daemon.                               *)
LEMMA OtherGhost ==
    ASSUME GhostInv, UNCHANGED <<tty, dsr, typed>>, Shaped(ic'), Line(sh'), Completer(cp'),
           chan' \in Seq(Reply), queued' \in Seq(Reply), flying' \subseteq Request,
           blind' \/ For(cp', sh'.line)
    PROVE  GhostInv'
BY DEF GhostInv

(* What the invariant says of each variable.                               *)
LEMMA Unmoved ==
    ASSUME GhostInv
    PROVE  /\ Shaped(ic) /\ Line(sh) /\ Completer(cp) /\ chan \in Seq(Reply) /\ queued \in Seq(Reply)
           /\ flying \subseteq Request /\ (blind \/ For(cp, sh.line)) /\ sh.line \in Seq(Sign)
BY DEF GhostInv, Line

(* Output of the shell and a pause in typing.                              *)
LEMMA EchoGhost == ASSUME GhostInv, Echo \/ Pause PROVE GhostInv'
<1>f. PICK f : f = FALSE  OBVIOUS
<1>1. ic' = [ic EXCEPT !.content = f] \/ ic' = [ic EXCEPT !.recent = f]  BY <1>f DEF Echo, Pause
<1>a. Shaped(ic)  BY Unmoved
<1>b. Shaped([ic EXCEPT !.content = f]) /\ Shaped([ic EXCEPT !.recent = f])  BY <1>a, FlagShaped
<1>2. Shaped(ic')  BY <1>1, <1>b
<1>3. UNCHANGED <<tty, dsr, typed, sh, cp, chan, queued, flying, blind>>  BY DEF Echo, Pause, env, hist
<1> QED  BY <1>2, <1>3, Unmoved, OtherGhost

(* The alternate screen.                                                   *)
LEMMA AltScreenGhost == ASSUME GhostInv, AltScreen PROVE GhostInv'
<1>1. PICK j : j = set_suppressed(ic, ~alt)  OBVIOUS
<1>2. Shaped(j)  BY <1>1, Unmoved, SuppressedShaped
<1>3. ic' = [j EXCEPT !.content = FALSE]  BY <1>1 DEF AltScreen
<1>4. Shaped(ic')  BY <1>2, <1>3, FlagShaped
<1>5. UNCHANGED <<tty, dsr, typed, sh, cp, chan, queued, flying, blind>>  BY DEF AltScreen
<1> QED  BY <1>4, <1>5, Unmoved, OtherGhost

(* A prompt starts an empty line and clears the ghost.                     *)
LEMMA PromptStartGhost == ASSUME GhostInv, PromptStart PROVE GhostInv'
<1>1. ic' = PromptReset(ic) /\ sh' = on_prompt(sh) /\ cp' = Clear(cp) /\ queued' = <<>>  BY DEF PromptStart
<1>2. UNCHANGED <<tty, dsr, typed, chan, flying>>  BY DEF PromptStart
<1>3. Shaped(ic')  BY <1>1, Unmoved, PromptShaped
<1>4. Line(sh')
  <2>1. PICK t : t = TRUE  OBVIOUS
  <2>2. PICK f : f = FALSE  OBVIOUS
  <2>3. PICK a : a = [sh EXCEPT !.prompt = t]  OBVIOUS
  <2>4. Line(a)  BY <2>3, Unmoved DEF Line
  <2>5. PICK b : b = [a EXCEPT !.esc = 0]  OBVIOUS
  <2>6. Line(b)  BY <2>4, <2>5 DEF Line
  <2>7. PICK c : c = [b EXCEPT !.rl = f]  OBVIOUS
  <2>8. Line(c)  BY <2>6, <2>7 DEF Line
  <2>9. PICK d : d = [c EXCEPT !.end = t]  OBVIOUS
  <2>10. Line(d)  BY <2>8, <2>9 DEF Line
  <2>11. PICK e : e = [d EXCEPT !.isearch = f]  OBVIOUS
  <2>12. Line(e)  BY <2>10, <2>11 DEF Line
  <2>13. on_prompt(sh) = Bumped(e, <<>>)  BY <2>1, <2>2, <2>3, <2>5, <2>7, <2>9, <2>11 DEF on_prompt
  <2>14. Line(Bumped(e, <<>>))  BY <2>12, BumpedFacts, NoneFacts
  <2> QED  BY <1>1, <2>13, <2>14
<1>5. Completer(cp') /\ cp'.ghost = None  BY <1>1, Unmoved, ClearFacts
<1>6. For(cp', sh'.line)  BY <1>5 DEF For
<1>7. queued' \in Seq(Reply)  BY <1>1, NoFilterOK
<1> QED  BY <1>2, <1>3, <1>4, <1>5, <1>6, <1>7, Unmoved, OtherGhost

(* A command that starts clears the ghost.                                 *)
LEMMA CommandStartGhost == ASSUME GhostInv, CommandStart PROVE GhostInv'
<1>1. ic' = [ic EXCEPT !.content = FALSE] /\ cp' = Clear(cp) /\ queued' = <<>>  BY DEF CommandStart
<1>2. UNCHANGED <<tty, dsr, typed, sh, chan, flying>>  BY DEF CommandStart, env
<1>3. Shaped(ic')  BY <1>1, Unmoved, FlagShaped
<1>4. Completer(cp') /\ cp'.ghost = None  BY <1>1, Unmoved, ClearFacts
<1>5. For(cp', sh'.line)  BY <1>4 DEF For
<1>6. queued' \in Seq(Reply)  BY <1>1, NoFilterOK
<1> QED  BY <1>2, <1>3, <1>4, <1>5, <1>6, Unmoved, OtherGhost

(* Requests that are sent or forgotten.                                    *)
LEMMA RequestsKept ==
    ASSUME NEW c, Completer(c), NEW q, NEW x
    PROVE  /\ Completer([c EXCEPT !.reqs = q]) /\ (\A l : For(c, l) => For([c EXCEPT !.reqs = q], l))
           /\ Completer([c EXCEPT !.reqs = q, !.sent = x])
           /\ (\A l : For(c, l) => For([c EXCEPT !.reqs = q, !.sent = x], l))
<1>1. PICK d : d = [c EXCEPT !.reqs = q]  OBVIOUS
<1>2. Completer(d) /\ d.ghost = c.ghost /\ d.for = c.for  BY <1>1 DEF Completer
<1>3. PICK e : e = [c EXCEPT !.reqs = q, !.sent = x]  OBVIOUS
<1>4. Completer(e) /\ e.ghost = c.ghost /\ e.for = c.for  BY <1>3 DEF Completer
<1>5. \A l : For(c, l) => For(d, l) /\ For(e, l)  BY <1>2, <1>4 DEF For
<1> QED  BY <1>1, <1>2, <1>3, <1>4, <1>5

(* A request for a completion is sent.                                     *)
LEMMA SendRequestGhost == ASSUME GhostInv, NEW old, SendRequest(old) PROVE GhostInv'
<1>1. PICK c : c = [cp EXCEPT !.reqs = cp.reqs \ old]  OBVIOUS
<1>2. Completer(c) /\ (For(cp, sh.line) => For(c, sh.line))  BY <1>1, Unmoved, RequestsKept
<1>3. PICK q : q = c.reqs \cup {[seq |-> sh.seq, input |-> sh.line, typed |-> FALSE]}  OBVIOUS
<1>4. cp' = [c EXCEPT !.reqs = q, !.sent = sh.seq]
  <2>1. c = [cp EXCEPT !.reqs = @ \ old]  BY <1>1, Unmoved DEF Completer
  <2>2. cp' = mark_sent(c, sh.line, sh.seq)  BY <2>1 DEF SendRequest
  <2> QED  BY <1>2, <1>3, <2>2 DEF mark_sent, Completer
<1>5. Completer(cp') /\ (For(c, sh.line) => For(cp', sh.line))  BY <1>2, <1>4, RequestsKept
<1>6. flying' = flying \cup {[seq |-> sh.seq, input |-> sh.line]}  BY DEF SendRequest
<1>7. flying' \subseteq Request
  <2>1. sh.seq \in Nat /\ sh.line \in Seq(Sign)  BY Unmoved DEF Line
  <2>2. [seq |-> sh.seq, input |-> sh.line] \in Request  BY <2>1 DEF Request
  <2> QED  BY <1>6, <2>2, Unmoved
<1>8. UNCHANGED <<tty, dsr, typed, ic, sh, chan, queued, blind>>  BY DEF SendRequest
<1> QED  BY <1>2, <1>5, <1>7, <1>8, Unmoved, OtherGhost

(* Old requests are forgotten.                                             *)
LEMMA CleanupGhost == ASSUME GhostInv, Cleanup PROVE GhostInv'
<1>1. PICK old : cp' = [cp EXCEPT !.reqs = @ \ old]  BY DEF Cleanup
<1>2. PICK q : q = cp.reqs \ old  OBVIOUS
<1>3. cp' = [cp EXCEPT !.reqs = q]  BY <1>1, <1>2, Unmoved DEF Completer
<1>4. Completer(cp') /\ (For(cp, sh.line) => For(cp', sh.line))  BY <1>3, Unmoved, RequestsKept
<1>5. UNCHANGED <<tty, dsr, typed, ic, sh, chan, queued, flying, blind>>  BY DEF Cleanup, env, hist
<1> QED  BY <1>4, <1>5, Unmoved, OtherGhost

(* Waiting for the shell's report changes no line.                         *)
LEMMA LineAwaits ==
    ASSUME NEW s, Line(s), NEW x
    PROVE  Line([s EXCEPT !.rl = x]) /\ [s EXCEPT !.rl = x].line = s.line
<1>0. PICK v : v = x  OBVIOUS
<1>1. PICK t : t = [s EXCEPT !.rl = v]  OBVIOUS
<1>2. Line(t) /\ t.line = s.line  BY <1>1 DEF Line
<1> QED  BY <1>0, <1>1, <1>2

(* An answer of the daemon clears the ghost in chat mode; otherwise it is  *)
(* dropped or waits for the shell's report.                                *)
LEMMA TakeAnswerGhost == ASSUME GhostInv, TakeAnswer PROVE GhostInv'
<1>1. UNCHANGED <<tty, dsr, typed, ic, flying, blind>>  BY DEF TakeAnswer, hist
<1>2. chan # <<>> /\ chan' = Tail(chan)  BY DEF TakeAnswer
<1>3. chan' \in Seq(Reply) /\ Head(chan) \in Reply  BY <1>2, Unmoved
<1>4. CASE cp' = Clear(cp) /\ UNCHANGED <<sh, queued>>
  <2>1. Completer(cp') /\ cp'.ghost = None  BY <1>4, Unmoved, ClearFacts
  <2>2. For(cp', sh'.line)  BY <2>1 DEF For
  <2> QED  BY <1>1, <1>3, <1>4, <2>1, <2>2, Unmoved, OtherGhost
<1>5. CASE UNCHANGED <<cp, sh, queued>>  BY <1>1, <1>3, <1>5, Unmoved, OtherGhost
<1>6. CASE QueueAnswer(Head(chan)) /\ UNCHANGED cp
  <2>1. queued' = Append(queued, Head(chan))  BY <1>6 DEF QueueAnswer
  <2>2. queued' \in Seq(Reply)  BY <1>3, <2>1, Unmoved
  <2>3. Line(sh') /\ sh'.line = sh.line
    <3>1. CASE sh' = sh  BY <3>1, Unmoved
    <3>2. CASE sh' = [sh EXCEPT !.rl = TRUE]  BY <3>2, Unmoved, LineAwaits
    <3> QED  BY <1>6, <3>1, <3>2 DEF QueueAnswer
  <2> QED  BY <1>1, <1>3, <1>6, <2>2, <2>3, Unmoved, OtherGhost
<1> QED  BY <1>4, <1>5, <1>6 DEF TakeAnswer

(* The timeouts of the queue, of the report and of the ghost.              *)
LEMMA TimeoutsGhost == ASSUME GhostInv, QueueTimeout \/ ReportTimeout \/ GhostTimeout PROVE GhostInv'
<1>1. UNCHANGED <<tty, dsr, typed, ic, chan, flying, blind>>
  BY DEF QueueTimeout, ReportTimeout, GhostTimeout, env, hist
<1>2. CASE QueueTimeout
  <2>1. queued' = <<>> /\ sh' = sh  BY <1>2 DEF QueueTimeout
  <2>2. cp' = cp \/ cp' = Answered(cp, queued, sh.line)  BY <1>2 DEF QueueTimeout
  <2>3. Completer(cp') /\ (For(cp, sh.line) => For(cp', sh.line))  BY <2>2, Unmoved, AnsweredFacts
  <2>4. queued' \in Seq(Reply)  BY <2>1, NoFilterOK
  <2> QED  BY <1>1, <2>1, <2>3, <2>4, Unmoved, OtherGhost
<1>3. CASE ReportTimeout
  <2>1. sh' = [sh EXCEPT !.rl = FALSE] /\ UNCHANGED <<cp, queued>>  BY <1>3 DEF ReportTimeout
  <2>2. Line(sh') /\ sh'.line = sh.line  BY <2>1, Unmoved, LineAwaits
  <2> QED  BY <1>1, <2>1, <2>2, Unmoved, OtherGhost
<1>4. CASE GhostTimeout
  <2>1. cp' = Clear(cp) /\ UNCHANGED <<sh, queued>>  BY <1>4 DEF GhostTimeout
  <2>2. Completer(cp') /\ cp'.ghost = None  BY <2>1, Unmoved, ClearFacts
  <2>3. For(cp', sh'.line)  BY <2>2 DEF For
  <2> QED  BY <1>1, <2>1, <2>2, <2>3, Unmoved, OtherGhost
<1> QED  BY <1>2, <1>3, <1>4

(* A key is typed.                                                         *)
LEMMA PressGhost == ASSUME GhostInv, NEW p \in Presses, Press(p) PROVE GhostInv'
<1>s. typed \in Nat /\ tty \in Seq(Byte) /\ dsr \in Seq(Byte)  BY DEF GhostInv
<1>1. PICK n : n = Len(p) /\ n \in Nat /\ DOMAIN p = 1 .. n /\ (\A i \in 1 .. n : p[i] \in STRING)
  BY TerminalAssumption
<1>2. PICK N : N = [i \in DOMAIN p |-> [c |-> p[i], id |-> typed + i]]  OBVIOUS
<1>3. N \in Seq(Byte)
  <2>1. N = [i \in 1 .. n |-> [c |-> p[i], id |-> typed + i]]  BY <1>1, <1>2
  <2>2. \A i \in 1 .. n : N[i] \in Byte  BY <1>s, <1>1, <2>1 DEF Byte
  <2>3. N \in [1 .. n -> Byte]  BY <2>1, <2>2
  <2> QED  BY <1>1, <2>3, SeqDef
<1>4. tty' = tty \o N /\ typed' = typed + n  BY <1>1, <1>2 DEF Press
<1>5. tty' \in Seq(Byte) /\ typed' \in Nat
  <2>1. tty' \in Seq(Byte)  BY <1>s, <1>3, <1>4
  <2>2. typed' \in Nat  BY <1>s, <1>1, <1>4
  <2> QED  BY <2>1, <2>2
<1>6. UNCHANGED <<dsr, ic, sh, cp, chan, queued, flying, blind>>  BY DEF Press, loop
<1> QED  BY <1>5, <1>6 DEF GhostInv

(* The daemon answers a request.                                           *)
LEMMA AnswerGhost ==
    ASSUME GhostInv, NEW q \in flying, NEW text \in Texts \cup {None}, Answer(q, text)
    PROVE  GhostInv'
<1>1. text \in Seq(Sign)
  <2>1. CASE text \in Texts
    <3>1. text \in Seq(STRING)  BY <2>1, TerminalAssumption
    <3>2. PICK n : n = Len(text) /\ n \in Nat /\ text \in [1 .. n -> STRING]  BY <3>1
    <3>3. text \in [1 .. n -> Sign]  BY <3>2 DEF Sign
    <3> QED  BY <3>2, <3>3, SeqDef
  <2>2. CASE text = None  BY <2>2, NoneFacts
  <2> QED  BY <2>1, <2>2
<1>2. q.seq \in Nat  BY Unmoved DEF Request
<1>3. [seq |-> q.seq, text |-> text] \in Reply  BY <1>1, <1>2 DEF Reply
<1>4. chan' = Append(chan, [seq |-> q.seq, text |-> text]) /\ flying' = flying \ {q}  BY DEF Answer
<1>5. chan' \in Seq(Reply) /\ flying' \subseteq Request
  <2>1. chan' \in Seq(Reply)  BY <1>3, <1>4, Unmoved
  <2>2. flying' \subseteq Request  BY <1>4, Unmoved
  <2> QED  BY <2>1, <2>2
<1>6. UNCHANGED <<tty, dsr, typed, ic, sh, cp, queued, blind>>  BY DEF Answer, hist
<1> QED  BY <1>5, <1>6, Unmoved, OtherGhost

(* There is no ghost yet.                                                  *)
LEMMA GhostInit == ASSUME Init PROVE GhostInv
<1>1. PICK E : E = <<>> /\ E \in Seq(Byte) /\ E \in Seq(Reply) /\ E \in Seq(Sign)  BY NoFilterOK, NoneFacts
<1>2. PICK f : f = FALSE  OBVIOUS
<1>3. PICK t : t = TRUE  OBVIOUS
<1>4. PICK F : F = NoFilter /\ FilterOK(F)  BY NoFilterOK
<1>5. Shaped(ic)
  <2>1. ic = [buf |-> E, chat |-> f, supp |-> f, esc |-> F, content |-> f, recent |-> f]
    BY <1>1, <1>2, <1>4 DEF Init
  <2> QED  BY <1>1, <1>4, <2>1 DEF Shaped
<1>6. Line(sh)
  <2>1. sh = [line |-> E, prompt |-> t, seq |-> 0, changed |-> f, esc |-> 0, rl |-> f, end |-> t, isearch |-> f]
    BY <1>1, <1>2, <1>3 DEF Init
  <2> QED  BY <1>1, <2>1 DEF Line
<1>7. Completer(cp) /\ cp.ghost = None
  <2>1. PICK n : n = None /\ n \in Seq(Sign)  BY NoneFacts
  <2>2. cp = [ghost |-> n, for |-> E, reqs |-> {}, pending |-> 0, sent |-> -1, dismissed |-> n]
    BY <1>1, <2>1 DEF Init
  <2> QED  BY <1>1, <2>1, <2>2 DEF Completer
<1>8. For(cp, sh.line)  BY <1>7 DEF For
<1>9. /\ tty = E /\ dsr = E /\ typed = 0 /\ chan = E /\ queued = E /\ flying = {}  BY <1>1 DEF Init
<1> QED  BY <1>1, <1>5, <1>6, <1>7, <1>8, <1>9 DEF GhostInv

(* Every step, one case per action.                                        *)
LEMMA GhostNext == ASSUME GhostInv, [Next]_vars PROVE GhostInv'
<1>1. ASSUME NEW n \in 1 .. Len(tty), ReadKeys(n)  PROVE GhostInv'  BY <1>1, ReadKeysGhost
<1>2. CASE PrefixTimeout  BY <1>2, PrefixTimeoutGhost
<1>3. CASE Echo \/ Pause  BY <1>3, EchoGhost
<1>4. CASE AltScreen  BY <1>4, AltScreenGhost
<1>5. CASE PromptStart  BY <1>5, PromptStartGhost
<1>6. CASE CommandStart  BY <1>6, CommandStartGhost
<1>7. ASSUME NEW line \in {sh.line, <<"b">>}, NEW end \in BOOLEAN, ReadlineReport(line, end)  PROVE GhostInv'
  BY <1>7, ReportGhost
<1>8. ASSUME NEW old \in SUBSET cp.reqs, SendRequest(old)  PROVE GhostInv'  BY <1>8, SendRequestGhost
<1>9. CASE Cleanup  BY <1>9, CleanupGhost
<1>10. CASE TakeAnswer  BY <1>10, TakeAnswerGhost
<1>11. CASE QueueTimeout \/ ReportTimeout \/ GhostTimeout  BY <1>11, TimeoutsGhost
<1>12. ASSUME NEW c \in Settings, ConfigPush(c)  PROVE GhostInv'
  <2>1. UNCHANGED <<tty, dsr, typed, ic, sh, cp, chan, queued, flying, blind>>  BY <1>12 DEF ConfigPush, loop
  <2> QED  BY <2>1 DEF GhostInv
<1>13. ASSUME NEW p \in Presses, Press(p)  PROVE GhostInv'  BY <1>13, PressGhost
<1>14. ASSUME NEW q \in flying, NEW text \in Texts \cup {None}, Answer(q, text)  PROVE GhostInv'
  BY <1>14, AnswerGhost
<1>15. CASE UNCHANGED vars  BY <1>15 DEF GhostInv, vars, loop, env, hist
<1> QED
  BY <1>1, <1>2, <1>3, <1>4, <1>5, <1>6, <1>7, <1>8, <1>9, <1>10, <1>11, <1>12, <1>13, <1>14, <1>15 DEF Next

(* Whatever the order of keys, answers, reports and timeouts: unless the   *)
(* client knows that it does not know the line, a ghost that is shown was  *)
(* computed for the line that the tracker has (completion.rs               *)
(* on_input_changed, on_response, main.rs main loop).                      *)
THEOREM GhostInvHolds == Spec => []GhostInv
<1>1. Init => GhostInv  BY GhostInit
<1>2. GhostInv /\ [Next]_vars => GhostInv'  BY GhostNext
<1> QED  BY <1>1, <1>2, PTL DEF Spec

(* A ghost is shown only behind the line for which it was computed, or     *)
(* while the line is in doubt.                                             *)
THEOREM GhostKeepsToTheLine == Spec => []GhostFollowsLine
<1>1. GhostInv => GhostFollowsLine  BY DEF GhostInv, GhostFollowsLine, For
<1> QED  BY <1>1, GhostInvHolds, PTL

-----------------------------------------------------------------------------
(* Widgets *)

(* Row r of the picker p, with v items in its viewport.                    *)
Row(p, v, r) ==
    IF r = 1 THEN [above |-> p.scroll]
    ELSE IF r = 2 \/ r = v + 3 THEN "sep"
    ELSE IF r = v + 4 THEN [below |-> p.total - (p.scroll + v)]
    ELSE render_item(p, p.scroll + r - 3, p.scroll + r - 3 = p.cursor)

(* All rows of the picker p.                                               *)
Rows(p, v) == [r \in 1 .. v + 4 |-> Row(p, v, r)]

(* The constants.                                                          *)
LEMMA WidgetConstants ==
    MaxVisible \in Nat \ {0} /\ Height \in Nat \ {0} /\ Columns \in Nat \ {0} /\ Widths \subseteq Nat
BY WidgetShape DEF WidgetShape

(* The viewport of a picker.                                               *)
LEMMA VisibleFacts ==
    ASSUME NEW n \in Nat \ {0}
    PROVE  visible_count(n) \in 1 .. n
BY WidgetConstants DEF visible_count, Lesser

(* A picker whose viewport lies within its items and holds the cursor.     *)
Proper(p) ==
    /\ p.total \in Nat \ {0} /\ p.scroll \in Nat /\ p.cursor \in Nat
    /\ p.scroll + visible_count(p.total) <= p.total
    /\ p.scroll <= p.cursor /\ p.cursor < p.scroll + visible_count(p.total)

(* What is drawn, row by row.                                              *)
LEMMA DrawnRows ==
    ASSUME NEW p, Proper(p), NEW v, v = visible_count(p.total)
    PROVE  Drawn(p) = [rows |-> Rows(p, v), at |-> v + 3]
<1>1. PICK s, n : s = p.scroll /\ n = p.total  OBVIOUS
<1>2. v \in Nat \ {0} /\ s \in Nat /\ n \in Nat /\ s + v <= n  BY <1>1, VisibleFacts DEF Proper
<1>3. Lesser(s + v, n) = s + v /\ Minus(n, s + v) = n - (s + v) /\ (s + v) - s = v  BY <1>2 DEF Lesser, Minus
<1>4. PICK top : top = <<[above |-> s], "sep">>  OBVIOUS
<1>5. PICK mid : mid = [k \in 1 .. v |-> render_item(p, s + k - 1, s + k - 1 = p.cursor)]  OBVIOUS
<1>6. PICK bot : bot = <<"sep", [below |-> n - (s + v)]>>  OBVIOUS
<1>7. render_full(p) = top \o mid \o bot  BY <1>1, <1>3, <1>4, <1>5, <1>6 DEF render_full
<1>8. PICK A : A = {[above |-> s], "sep", [below |-> n - (s + v)]} \cup {mid[k] : k \in 1 .. v}  OBVIOUS
<1>9. top \in Seq(A) /\ Len(top) = 2 /\ top[1] = [above |-> s] /\ top[2] = "sep"  BY <1>4, <1>8
<1>10. bot \in Seq(A) /\ Len(bot) = 2 /\ bot[1] = "sep" /\ bot[2] = [below |-> n - (s + v)]  BY <1>6, <1>8
<1>11. mid \in Seq(A) /\ Len(mid) = v
  <2>1. mid \in [1 .. v -> A]  BY <1>5, <1>8
  <2> QED  BY <1>2, <2>1, SeqDef, LenProperties
<1>12. PICK tm : tm = top \o mid  OBVIOUS
<1>13. /\ tm \in Seq(A) /\ Len(tm) = 2 + v
       /\ \A i \in 1 .. 2 + v : tm[i] = IF i <= 2 THEN top[i] ELSE mid[i - 2]
  <2>1. /\ tm \in Seq(A) /\ Len(tm) = Len(top) + Len(mid)
        /\ \A i \in 1 .. Len(top) + Len(mid) : tm[i] = IF i <= Len(top) THEN top[i] ELSE mid[i - Len(top)]
    BY <1>9, <1>11, <1>12, ConcatProperties
  <2> QED  BY <1>9, <1>11, <2>1
<1>14. PICK all : all = tm \o bot  OBVIOUS
<1>15. /\ all \in Seq(A) /\ Len(all) = 2 + v + 2
       /\ \A i \in 1 .. 2 + v + 2 : all[i] = IF i <= 2 + v THEN tm[i] ELSE bot[i - (2 + v)]
  <2>1. /\ all \in Seq(A) /\ Len(all) = Len(tm) + Len(bot)
        /\ \A i \in 1 .. Len(tm) + Len(bot) : all[i] = IF i <= Len(tm) THEN tm[i] ELSE bot[i - Len(tm)]
    BY <1>10, <1>13, <1>14, ConcatProperties
  <2> QED  BY <1>10, <1>13, <2>1
<1>16. all = [r \in 1 .. v + 4 |-> all[r]]
  <2>1. all \in [1 .. Len(all) -> A]  BY <1>15, LenProperties
  <2>2. 1 .. Len(all) = 1 .. v + 4  BY <1>2, <1>15
  <2> QED  BY <2>1, <2>2
<1>17. ASSUME NEW r \in 1 .. v + 4  PROVE all[r] = Row(p, v, r)
  <2>1. r \in Int /\ 1 <= r /\ r <= v + 4  BY <1>2
  <2>2. all[r] = IF r <= 2 + v THEN tm[r] ELSE bot[r - (2 + v)]  BY <1>2, <1>15, <2>1
  <2>3. CASE r = 1
    <3>1. all[r] = top[1]  BY <1>2, <1>13, <2>2, <2>3
    <3> QED  BY <1>1, <1>9, <2>3, <3>1 DEF Row
  <2>4. CASE r = 2
    <3>1. all[r] = top[2]  BY <1>2, <1>13, <2>2, <2>4
    <3> QED  BY <1>9, <2>4, <3>1 DEF Row
  <2>5. CASE 3 <= r /\ r <= 2 + v
    <3>1. all[r] = mid[r - 2]  BY <1>2, <1>13, <2>1, <2>2, <2>5
    <3>2. r - 2 \in 1 .. v /\ s + (r - 2) - 1 = s + r - 3  BY <1>2, <2>1, <2>5
    <3>3. mid[r - 2] = render_item(p, s + r - 3, s + r - 3 = p.cursor)  BY <1>5, <3>2
    <3>4. r # 1 /\ r # 2 /\ r # v + 3 /\ r # v + 4  BY <1>2, <2>1, <2>5
    <3> QED  BY <1>1, <3>1, <3>3, <3>4 DEF Row
  <2>6. CASE r = v + 3
    <3>1. all[r] = bot[1]  BY <1>2, <2>2, <2>6
    <3>2. r # 1  BY <1>2, <2>6
    <3> QED  BY <1>10, <2>6, <3>1, <3>2 DEF Row
  <2>7. CASE r = v + 4
    <3>1. all[r] = bot[2]  BY <1>2, <2>2, <2>7
    <3>2. r # 1 /\ r # 2 /\ r # v + 3  BY <1>2, <2>7
    <3> QED  BY <1>1, <1>10, <2>7, <3>1, <3>2 DEF Row
  <2> QED  BY <1>2, <2>1, <2>3, <2>4, <2>5, <2>6, <2>7
<1>18. all = Rows(p, v)  BY <1>16, <1>17 DEF Rows
<1>19. render_full(p) = Rows(p, v)  BY <1>7, <1>12, <1>14, <1>18
<1> QED  BY <1>19 DEF Drawn

(* Rewriting the rows of two neighbours: the way up and down meets them.   *)
LEMMA RewrittenRows ==
    ASSUME NEW p, Proper(p), NEW q, Proper(q), q.total = p.total, q.scroll = p.scroll,
           q.multi = p.multi, q.checked = p.checked, q.disabled = p.disabled,
           q.cursor = p.cursor + 1 \/ q.cursor = p.cursor - 1
    PROVE  Rewritten(Drawn(p), q, p.cursor) = Drawn(q)
<1>1. PICK v : v = visible_count(p.total)  OBVIOUS
<1>2. PICK s, c, d : s = p.scroll /\ c = p.cursor /\ d = q.cursor  OBVIOUS
<1>3. /\ v \in Nat \ {0} /\ s \in Nat /\ c \in Nat /\ d \in Nat /\ (d = c + 1 \/ d = c - 1)
      /\ s <= c /\ c < s + v /\ s <= d /\ d < s + v
  BY <1>1, <1>2, VisibleFacts DEF Proper
<1>4. PICK R : R = Rows(p, v)  OBVIOUS
<1>5. Drawn(p) = [rows |-> R, at |-> v + 3]  BY <1>1, <1>4, DrawnRows
<1>6. Drawn(q) = [rows |-> Rows(q, v), at |-> v + 3]  BY <1>1, DrawnRows
<1>7. RowsTo(q, c) = v - (c - s) + 1 /\ RowsTo(q, d) = v - (d - s) + 1  BY <1>1, <1>2 DEF RowsTo
<1>8. PICK i, j : i = c - s + 3 /\ j = d - s + 3  OBVIOUS
<1>9. i \in 3 .. v + 2 /\ j \in 3 .. v + 2 /\ i # j  BY <1>3, <1>8
<1>10. PICK x, y : x = render_item(q, c, FALSE) /\ y = render_item(q, d, TRUE)  OBVIOUS
<1>11. PICK R1 : R1 = [R EXCEPT ![i] = x]  OBVIOUS
<1>12. PICK R2 : R2 = [R1 EXCEPT ![j] = y]  OBVIOUS
<1>13. Len(R) = v + 4 /\ DOMAIN R = 1 .. v + 4
  <2>1. PICK A : A = {Row(p, v, r) : r \in 1 .. v + 4}  OBVIOUS
  <2>2. R \in [1 .. v + 4 -> A]  BY <1>4, <2>1 DEF Rows
  <2>3. v + 4 \in Nat  BY <1>3
  <2> QED  BY <2>2, <2>3, SeqDef, LenProperties
<1>14. PICK A : A = {R[r] : r \in 1 .. v + 4} \cup {x, y}  OBVIOUS
<1>15. R1 \in [1 .. v + 4 -> A] /\ R2 \in [1 .. v + 4 -> A]
  <2>1. R \in [1 .. v + 4 -> A]  BY <1>4, <1>14 DEF Rows
  <2> QED  BY <1>11, <1>12, <1>14, <2>1
<1>16. Len(R1) = v + 4 /\ Len(R2) = v + 4
  <2>1. v + 4 \in Nat  BY <1>3
  <2>2. R1 \in Seq(A) /\ R2 \in Seq(A)  BY <1>15, <2>1, SeqDef
  <2>3. Len(R1) \in Nat /\ DOMAIN R1 = 1 .. Len(R1) /\ Len(R2) \in Nat /\ DOMAIN R2 = 1 .. Len(R2)
    BY <2>2, LenProperties
  <2> QED  BY <1>15, <2>1, <2>3
<1>17. PICK t : t = Drawn(p)  OBVIOUS
<1>18. Up(t, RowsTo(q, c)) = [rows |-> R, at |-> i - 1]
  <2>1. Minus(v + 3, v - (c - s) + 1) = i - 1  BY <1>3, <1>8 DEF Minus
  <2> QED  BY <1>5, <1>7, <1>17, <2>1 DEF Up
<1>19. PICK first : first = redraw_item(Up(t, RowsTo(q, c)), q, c, FALSE)  OBVIOUS
<1>20. first = [rows |-> R1, at |-> i - 1]
  <2>1. (i - 1) + 1 = i  BY <1>9
  <2>2. PICK w : w = Up(t, RowsTo(q, c))  OBVIOUS
  <2>3. w = [rows |-> R, at |-> i - 1] /\ first = redraw_item(w, q, c, FALSE)  BY <1>18, <1>19, <2>2
  <2>4. first = [w EXCEPT !.rows = [w.rows EXCEPT ![w.at + 1] = x]]  BY <1>10, <2>3 DEF redraw_item
  <2>5. w.at + 1 = i /\ w.rows = R  BY <2>1, <2>3
  <2> QED  BY <1>11, <2>3, <2>4, <2>5
<1>21. PICK moved : moved = IF d < c THEN Up(first, 1) ELSE Down(first, 1)  OBVIOUS
<1>22. moved = [rows |-> R1, at |-> j - 1]
  <2>1. CASE d < c
    <3>1. Minus(i - 1, 1) = j - 1  BY <1>3, <1>8, <2>1 DEF Minus
    <3> QED  BY <1>20, <1>21, <2>1, <3>1 DEF Up
  <2>2. CASE ~(d < c)
    <3>1. Lesser((i - 1) + 1, (v + 4) - 1) = j - 1  BY <1>3, <1>8, <2>2 DEF Lesser
    <3> QED  BY <1>16, <1>20, <1>21, <2>2, <3>1 DEF Down
  <2> QED  BY <2>1, <2>2
<1>23. PICK second : second = redraw_item(moved, q, d, TRUE)  OBVIOUS
<1>24. second = [rows |-> R2, at |-> j - 1]
  <2>1. (j - 1) + 1 = j  BY <1>9
  <2> QED  BY <1>10, <1>12, <1>22, <1>23, <2>1 DEF redraw_item
<1>25. Down(second, RowsTo(q, d)) = [rows |-> R2, at |-> v + 3]
  <2>1. Lesser((j - 1) + (v - (d - s) + 1), (v + 4) - 1) = v + 3  BY <1>3, <1>8 DEF Lesser
  <2> QED  BY <1>7, <1>16, <1>24, <2>1 DEF Down
<1>26. Rewritten(t, q, c) = Down(second, RowsTo(q, d))  BY <1>2, <1>19, <1>21, <1>23 DEF Rewritten
<1>27. R2 = Rows(q, v)
  <2>1. ASSUME NEW r \in 1 .. v + 4  PROVE R2[r] = Row(q, v, r)
    <3>1. R2[r] = IF r = j THEN y ELSE IF r = i THEN x ELSE Row(p, v, r)
      BY <1>4, <1>11, <1>12 DEF Rows
    <3>2. r \in Int  BY <1>3
    <3>3. CASE r = j
      <4>1. s + r - 3 = d /\ r # 1 /\ r # 2 /\ r # v + 3 /\ r # v + 4  BY <1>3, <1>8, <1>9, <3>3
      <4>2. Row(q, v, r) = render_item(q, d, d = q.cursor)  BY <1>2, <4>1 DEF Row
      <4>3. (d = q.cursor) = TRUE  BY <1>2
      <4> QED  BY <1>10, <3>1, <3>3, <4>2, <4>3
    <3>4. CASE r # j /\ r = i
      <4>1. s + r - 3 = c /\ r # 1 /\ r # 2 /\ r # v + 3 /\ r # v + 4  BY <1>3, <1>8, <1>9, <3>4
      <4>2. Row(q, v, r) = render_item(q, c, c = q.cursor)  BY <1>2, <4>1 DEF Row
      <4>3. (c = q.cursor) = FALSE  BY <1>2, <1>3
      <4> QED  BY <1>10, <3>1, <3>4, <4>2, <4>3
    <3>5. CASE r # j /\ r # i
      <4>1. s + r - 3 # c /\ s + r - 3 # d  BY <1>3, <1>8, <3>2, <3>5
      <4>2. (s + r - 3 = p.cursor) = (s + r - 3 = q.cursor)  BY <1>2, <4>1
      <4>3. render_item(p, s + r - 3, s + r - 3 = p.cursor) = render_item(q, s + r - 3, s + r - 3 = q.cursor)
        BY <4>2 DEF render_item
      <4> QED  BY <1>2, <3>1, <3>5, <4>3 DEF Row
    <3> QED  BY <3>3, <3>4, <3>5
  <2> QED  BY <1>15, <2>1 DEF Rows
<1> QED  BY <1>2, <1>6, <1>17, <1>25, <1>26, <1>27

(* Rewriting the row of the cursor, when its box changed.                  *)
LEMMA ToggledRow ==
    ASSUME NEW p, Proper(p), NEW q, Proper(q), q.total = p.total, q.scroll = p.scroll,
           q.multi = p.multi, q.cursor = p.cursor, q.disabled = p.disabled,
           \A i : i # p.cursor => (i \in q.checked <=> i \in p.checked), NEW i, i = p.cursor
    PROVE  Down(redraw_item(Up(Drawn(p), RowsTo(q, i)), q, i, TRUE), RowsTo(q, i)) = Drawn(q)
<1>1. PICK v : v = visible_count(p.total)  OBVIOUS
<1>2. PICK s, c : s = p.scroll /\ c = p.cursor  OBVIOUS
<1>3. v \in Nat \ {0} /\ s \in Nat /\ c \in Nat /\ s <= c /\ c < s + v
  BY <1>1, <1>2, VisibleFacts DEF Proper
<1>4. PICK R : R = Rows(p, v)  OBVIOUS
<1>5. Drawn(p) = [rows |-> R, at |-> v + 3]  BY <1>1, <1>4, DrawnRows
<1>6. Drawn(q) = [rows |-> Rows(q, v), at |-> v + 3]  BY <1>1, DrawnRows
<1>7. RowsTo(q, c) = v - (c - s) + 1  BY <1>1, <1>2 DEF RowsTo
<1>8. PICK k : k = c - s + 3  OBVIOUS
<1>9. k \in 3 .. v + 2  BY <1>3, <1>8
<1>10. PICK x : x = render_item(q, c, TRUE)  OBVIOUS
<1>11. PICK R1 : R1 = [R EXCEPT ![k] = x]  OBVIOUS
<1>12. PICK A : A = {R[r] : r \in 1 .. v + 4} \cup {x}  OBVIOUS
<1>13. R1 \in [1 .. v + 4 -> A]
  <2>1. R \in [1 .. v + 4 -> A]  BY <1>4, <1>12 DEF Rows
  <2> QED  BY <1>11, <1>12, <2>1
<1>14. Len(R1) = v + 4
  <2>1. v + 4 \in Nat  BY <1>3
  <2>2. R1 \in Seq(A)  BY <1>13, <2>1, SeqDef
  <2>3. Len(R1) \in Nat /\ DOMAIN R1 = 1 .. Len(R1)  BY <2>2, LenProperties
  <2> QED  BY <1>13, <2>1, <2>3
<1>15. PICK t : t = Drawn(p)  OBVIOUS
<1>16. Up(t, RowsTo(q, c)) = [rows |-> R, at |-> k - 1]
  <2>1. Minus(v + 3, v - (c - s) + 1) = k - 1  BY <1>3, <1>8 DEF Minus
  <2> QED  BY <1>5, <1>7, <1>15, <2>1 DEF Up
<1>17. PICK u : u = redraw_item(Up(t, RowsTo(q, c)), q, c, TRUE)  OBVIOUS
<1>18. u = [rows |-> R1, at |-> k - 1]
  <2>1. (k - 1) + 1 = k  BY <1>9
  <2>2. PICK w : w = Up(t, RowsTo(q, c))  OBVIOUS
  <2>3. w = [rows |-> R, at |-> k - 1] /\ u = redraw_item(w, q, c, TRUE)  BY <1>16, <1>17, <2>2
  <2>4. u = [w EXCEPT !.rows = [w.rows EXCEPT ![w.at + 1] = x]]  BY <1>10, <2>3 DEF redraw_item
  <2>5. w.at + 1 = k /\ w.rows = R  BY <2>1, <2>3
  <2> QED  BY <1>11, <2>3, <2>4, <2>5
<1>19. Down(u, RowsTo(q, c)) = [rows |-> R1, at |-> v + 3]
  <2>1. Lesser((k - 1) + (v - (c - s) + 1), (v + 4) - 1) = v + 3  BY <1>3, <1>8 DEF Lesser
  <2> QED  BY <1>7, <1>14, <1>18, <2>1 DEF Down
<1>20. R1 = Rows(q, v)
  <2>1. ASSUME NEW r \in 1 .. v + 4  PROVE R1[r] = Row(q, v, r)
    <3>1. R1[r] = IF r = k THEN x ELSE Row(p, v, r)  BY <1>4, <1>11 DEF Rows
    <3>2. r \in Int  BY <1>3
    <3>3. CASE r = k
      <4>1. s + r - 3 = c /\ r # 1 /\ r # 2 /\ r # v + 3 /\ r # v + 4  BY <1>3, <1>8, <1>9, <3>3
      <4>2. Row(q, v, r) = render_item(q, c, c = q.cursor)  BY <1>2, <4>1 DEF Row
      <4>3. (c = q.cursor) = TRUE  BY <1>2
      <4> QED  BY <1>10, <3>1, <3>3, <4>2, <4>3
    <3>4. CASE r # k
      <4>1. s + r - 3 # c  BY <1>3, <1>8, <3>2, <3>4
      <4>2. PICK m : m = s + r - 3  OBVIOUS
      <4>3. m \in q.checked <=> m \in p.checked  BY <1>2, <4>1, <4>2
      <4>4. render_item(p, m, m = p.cursor) = render_item(q, m, m = q.cursor)  BY <4>3 DEF render_item
      <4> QED  BY <1>2, <3>1, <3>4, <4>2, <4>4 DEF Row
    <3> QED  BY <3>3, <3>4
  <2> QED  BY <1>13, <2>1 DEF Rows
<1> QED  BY <1>2, <1>6, <1>15, <1>17, <1>19, <1>20

(* The rows of a line.                                                     *)
LEMMA RowsOfNat ==
    ASSUME NEW lines \in Seq(Nat), NEW i \in 0 .. Len(lines) - 1
    PROVE  RowsOf(lines, i) \in Nat
<1>1. PICK w : w = lines[i + 1] /\ w \in Nat
  <2>1. i + 1 \in 1 .. Len(lines)  OBVIOUS
  <2> QED  BY <2>1
<1>2. PICK x : x = w + Columns - 1  OBVIOUS
<1>3. x \in Nat /\ Columns \in Nat \ {0}  BY <1>1, <1>2, WidgetConstants
<1>4. x \div Columns \in Nat  BY ONLY <1>3
<1> QED  BY <1>1, <1>2, <1>4 DEF RowsOf

(* The rows of several lines: finitely many, and more for more lines.      *)
LEMMA ScreenFacts ==
    ASSUME NEW lines \in Seq(Nat), NEW i \in Nat, NEW k \in Int, i + k <= Len(lines)
    PROVE  IsFiniteSet(ScreenRows(lines, i, k)) /\ RowsFrom(lines, i, k) \in Nat
<1>1. PICK I : I = i .. i + k - 1  OBVIOUS
<1>2. IsFiniteSet(I)  BY <1>1, FS_Interval
<1>3. PICK f : f = [j \in I |-> {j} \X (1 .. RowsOf(lines, j))]  OBVIOUS
<1>4. PICK S : S = {{j} \X (1 .. RowsOf(lines, j)) : j \in I}  OBVIOUS
<1>5. f \in Surjection(I, S)
  <2>1. f \in [I -> S]  BY <1>3, <1>4
  <2>2. \A x \in S : \E j \in I : f[j] = x  BY <1>3, <1>4
  <2> QED  BY <2>1, <2>2 DEF Surjection
<1>6. IsFiniteSet(S)  BY <1>2, <1>5, FS_Surjection
<1>7. \A x \in S : IsFiniteSet(x)
  <2>1. SUFFICES ASSUME NEW j \in I  PROVE IsFiniteSet({j} \X (1 .. RowsOf(lines, j)))  BY <1>4
  <2>2. j \in 0 .. Len(lines) - 1  BY <1>1
  <2>3. RowsOf(lines, j) \in Nat  BY <2>2, RowsOfNat
  <2>4. IsFiniteSet(1 .. RowsOf(lines, j))
    <3>1. PICK b : b = RowsOf(lines, j) /\ b \in Int  BY <2>3
    <3>2. IsFiniteSet(1 .. b)  BY <3>1, FS_Interval
    <3> QED  BY <3>1, <3>2
  <2>5. IsFiniteSet({j})  BY FS_Singleton
  <2> QED  BY <2>4, <2>5, FS_Product
<1>8. IsFiniteSet(UNION S)  BY <1>6, <1>7, FS_UNION
<1>9. ScreenRows(lines, i, k) = UNION S  BY <1>1, <1>4 DEF ScreenRows
<1> QED  BY <1>8, <1>9, FS_CardinalityType DEF RowsFrom

(* More lines, from an earlier line on, have at least as many rows.        *)
LEMMA RowsGrow ==
    ASSUME NEW lines \in Seq(Nat), NEW i \in Nat, NEW k \in Int, NEW j \in Nat, NEW m \in Int,
           j <= i, i + k <= j + m, j + m <= Len(lines)
    PROVE  RowsFrom(lines, i, k) <= RowsFrom(lines, j, m)
<1>1. PICK A, B : A = ScreenRows(lines, i, k) /\ B = ScreenRows(lines, j, m)  OBVIOUS
<1>2. IsFiniteSet(B)  BY <1>1, ScreenFacts
<1>3. A \subseteq B
  <2>1. i .. i + k - 1 \subseteq j .. j + m - 1  OBVIOUS
  <2> QED  BY <1>1, <2>1 DEF ScreenRows
<1>4. Cardinality(A) <= Cardinality(B)  BY <1>2, <1>3, FS_Subset
<1> QED  BY <1>1, <1>4 DEF RowsFrom

(* One line.                                                               *)
LEMMA OneLine ==
    ASSUME NEW lines \in Seq(Nat), NEW i \in 0 .. Len(lines) - 1
    PROVE  RowsFrom(lines, i, 1) = RowsOf(lines, i)
<1>1. PICK n : n = RowsOf(lines, i) /\ n \in Nat  BY RowsOfNat
<1>2. i .. i + 1 - 1 = {i}  OBVIOUS
<1>3. ScreenRows(lines, i, 1) = {i} \X (1 .. n)  BY <1>1, <1>2 DEF ScreenRows
<1>4. IsFiniteSet(1 .. n) /\ Cardinality(1 .. n) = IF 1 > n THEN 0 ELSE n - 1 + 1
  <2>1. n \in Int /\ 1 \in Int  BY <1>1
  <2> QED  BY ONLY <2>1, FS_Interval
<1>5. Cardinality(1 .. n) = n  BY <1>1, <1>4
<1>6. IsFiniteSet({i}) /\ Cardinality({i}) = 1  BY FS_Singleton
<1>7. Cardinality({i} \X (1 .. n)) = 1 * n  BY <1>4, <1>5, <1>6, FS_Product
<1>8. 1 * n = n  BY <1>1
<1> QED  BY <1>1, <1>3, <1>7, <1>8 DEF RowsFrom

(* The lines from which the rest does not fit are those in front of the    *)
(* last offset.                                                            *)
LEMMA LastOffset ==
    ASSUME NEW lines \in Seq(Nat), NEW n, n = Len(lines), NEW last, last = max_scroll_offset(lines)
    PROVE  /\ last \in 0 .. n
           /\ \A i \in 0 .. n - 1 : RowsFrom(lines, i, n - i) > Height <=> i < last
<1>1. n \in Nat  OBVIOUS
<1>2. PICK over : over = {i \in 0 .. n - 1 : RowsFrom(lines, i, n - i) > Height}  OBVIOUS
<1>3. PICK T : T = {i \in 0 .. n : i \notin over}  OBVIOUS
<1>4. n \in T /\ T \in SUBSET Nat  BY <1>1, <1>2, <1>3
<1>5. PICK m \in T : \A k \in T : m <= k  BY <1>4, Least
<1>6. m \in 0 .. n /\ m \notin over  BY <1>3, <1>5
<1>7. ASSUME NEW i \in 0 .. n - 1  PROVE i \in over <=> i < m
  <2>1. CASE i < m
    <3>1. i \in 0 .. n /\ i \notin T  BY <1>1, <1>4, <1>5, <1>6, <2>1
    <3> QED  BY <1>3, <2>1, <3>1
  <2>2. CASE ~(i < m)
    <3>1. m \in 0 .. n - 1 /\ m <= i  BY <1>1, <1>6, <2>2
    <3>2. ~(RowsFrom(lines, m, n - m) > Height)  BY <1>2, <1>6, <3>1
    <3>3. RowsFrom(lines, i, n - i) <= RowsFrom(lines, m, n - m)
      <4>1. i \in Nat /\ m \in Nat /\ n - i \in Int /\ n - m \in Int /\ i + (n - i) = n /\ m + (n - m) = n
        BY <1>1, <3>1
      <4> QED  BY <1>1, <3>1, <4>1, RowsGrow
    <3>4. RowsFrom(lines, i, n - i) \in Nat /\ RowsFrom(lines, m, n - m) \in Nat
      <4>1. i \in Nat /\ m \in Nat /\ n - i \in Int /\ n - m \in Int /\ i + (n - i) = n /\ m + (n - m) = n
        BY <1>1, <3>1
      <4> QED  BY <1>1, <4>1, ScreenFacts
    <3>5. ~(RowsFrom(lines, i, n - i) > Height)  BY <3>2, <3>3, <3>4, WidgetConstants
    <3> QED  BY <1>2, <2>2, <3>5
  <2> QED  BY <2>1, <2>2
<1>8. last = m
  <2>0. last = IF over = {} THEN 0 ELSE (CHOOSE i \in over : \A j \in over : i >= j) + 1
    BY <1>2 DEF max_scroll_offset
  <2>1. CASE over = {}
    <3>1. 0 < m => 0 \in over  BY <1>1, <1>6, <1>7
    <3> QED  BY <1>6, <2>0, <2>1, <3>1
  <2>2. CASE over # {}
    <3>1. PICK a \in over : TRUE  BY <2>2
    <3>2. a \in 0 .. n - 1 /\ a < m  BY <1>2, <1>7, <3>1
    <3>3. PICK b : b = m - 1  OBVIOUS
    <3>4. b \in 0 .. n - 1 /\ b < m  BY <1>1, <1>6, <3>2, <3>3
    <3>5. b \in over /\ \A j \in over : b >= j
      <4>1. ASSUME NEW j \in over  PROVE b >= j
        <5>1. j \in 0 .. n - 1 /\ j < m  BY <1>2, <1>7
        <5> QED  BY <1>1, <1>6, <3>3, <5>1
      <4> QED  BY <1>7, <3>4, <4>1
    <3>6. PICK c : c = CHOOSE i \in over : \A j \in over : i >= j  OBVIOUS
    <3>7. c \in over /\ \A j \in over : c >= j  BY <3>5, <3>6
    <3>8. c \in Int /\ b \in Int /\ c >= b /\ b >= c  BY <1>1, <1>2, <3>4, <3>5, <3>7
    <3> QED  BY <1>6, <2>0, <2>2, <3>3, <3>6, <3>8
  <2> QED  BY <2>1, <2>2
<1>9. ASSUME NEW i \in 0 .. n - 1  PROVE RowsFrom(lines, i, n - i) > Height <=> i < last
  BY <1>2, <1>7, <1>8
<1> QED  BY <1>6, <1>8, <1>9

(* The last line is shown exactly when all lines from the offset on fit.   *)
LEMMA LastLineShown ==
    ASSUME NEW lines \in Seq(Nat), NEW n, n = Len(lines), NEW offset \in 0 .. n - 1,
           RowsOf(lines, n - 1) <= Height
    PROVE  n - 1 \in lines_shown(lines, offset) <=> ~(RowsFrom(lines, offset, n - offset) > Height)
<1>1. n \in Nat \ {0} /\ offset \in Nat /\ n - offset \in Nat \ {0}  OBVIOUS
<1>2. Lesser(offset, n) = offset  BY <1>1 DEF Lesser
<1>3. PICK K : K = 1 .. n - offset  OBVIOUS
<1>4. PICK fits : fits = {k \in K : k = 1 \/ RowsFrom(lines, offset, k) <= Height}  OBVIOUS
<1>5. lines_shown(lines, offset) = offset .. offset + Cardinality(fits) - 1
  BY <1>2, <1>3, <1>4 DEF lines_shown
<1>6. IsFiniteSet(K) /\ Cardinality(K) = n - offset
  <2>1. PICK b : b = n - offset /\ b \in Nat \ {0}  BY <1>1
  <2>2. IsFiniteSet(K) /\ Cardinality(K) = IF 1 > b THEN 0 ELSE b - 1 + 1  BY <1>3, <2>1, FS_Interval
  <2> QED  BY <2>1, <2>2
<1>7. fits \subseteq K /\ IsFiniteSet(fits) /\ Cardinality(fits) \in Nat /\ Cardinality(fits) <= n - offset
      /\ (Cardinality(fits) = n - offset => fits = K)
  <2>1. fits \subseteq K  BY <1>4
  <2>2. IsFiniteSet(fits) /\ Cardinality(fits) <= Cardinality(K) /\ (Cardinality(fits) = Cardinality(K) => fits = K)
    BY <1>6, <2>1, FS_Subset
  <2>3. Cardinality(fits) \in Nat  BY <2>2, FS_CardinalityType
  <2> QED  BY <1>6, <2>1, <2>2, <2>3
<1>8. n - 1 \in lines_shown(lines, offset) <=> Cardinality(fits) = n - offset
  <2>1. PICK a : a = Cardinality(fits) /\ a \in Nat /\ a <= n - offset  BY <1>7
  <2>2. n - 1 \in offset .. offset + a - 1 <=> a = n - offset  BY <1>1, <2>1
  <2> QED  BY <1>5, <2>1, <2>2
<1>9. \A k \in K : RowsFrom(lines, offset, k) \in Nat /\ RowsFrom(lines, offset, k) <= RowsFrom(lines, offset, n - offset)
  <2> TAKE k \in K
  <2>1. k \in Int /\ k <= n - offset /\ offset + k <= n /\ offset + (n - offset) = n /\ n - offset \in Int
    BY <1>1, <1>3
  <2>2. offset + k <= offset + (n - offset) /\ offset + (n - offset) <= Len(lines)  BY <1>1, <2>1
  <2> QED  BY <1>1, <2>1, <2>2, ScreenFacts, RowsGrow
<1>10. n - offset \in K  BY <1>1, <1>3
<1>11. PICK r : r = RowsFrom(lines, offset, n - offset) /\ r \in Nat  BY <1>9, <1>10
<1>12. CASE r > Height
  <2>1. n - offset # 1
    <3>1. ASSUME n - offset = 1  PROVE FALSE
      <4>1. offset = n - 1  BY <1>1, <3>1
      <4>2. r = RowsOf(lines, n - 1)  BY <1>1, <1>11, <3>1, <4>1, OneLine
      <4>3. RowsOf(lines, n - 1) \in Nat  BY <1>11, <4>2
      <4> QED  BY <1>12, <4>2, <4>3, WidgetConstants
    <3> QED  BY <3>1
  <2>2. n - offset \notin fits  BY <1>4, <1>11, <1>12, <2>1, WidgetConstants
  <2>3. fits # K  BY <1>10, <2>2
  <2> QED  BY <1>7, <1>8, <1>11, <1>12, <2>3
<1>13. CASE ~(r > Height)
  <2>1. \A k \in K : RowsFrom(lines, offset, k) <= Height
    <3> TAKE k \in K
    <3>1. RowsFrom(lines, offset, k) \in Nat /\ RowsFrom(lines, offset, k) <= r  BY <1>9, <1>11
    <3> QED  BY <1>11, <1>13, <3>1, WidgetConstants
  <2>2. fits = K  BY <1>4, <2>1
  <2> QED  BY <1>6, <1>8, <1>11, <1>13, <2>2
<1> QED  BY <1>12, <1>13

-----------------------------------------------------------------------------
(* The invariant.                                                          *)

(* An open picker is on the screen as it would be drawn.                   *)
PickInv ==
    \/ pick = Closed
    \/ /\ pick = [open |-> TRUE, total |-> pick.total, multi |-> pick.multi, disabled |-> pick.disabled,
                  checked |-> pick.checked, cursor |-> pick.cursor, scroll |-> pick.scroll]
       /\ Proper(pick) /\ term = Drawn(pick)

(* The view is not scrolled too far.                                       *)
ViewInv ==
    /\ view = [lines |-> view.lines, offset |-> view.offset, mode |-> view.mode]
    /\ view.lines \in Seq(Nat) /\ view.offset \in Nat
    /\ view.mode = "expanded" => view.lines # <<>> /\ view.offset <= max_scroll_offset(view.lines)

(* An open picker is proper and the screen shows it; the offset of a view  *)
(* that is browsed is at most the last one.                                *)
WidgetInv == PickInv /\ ViewInv

(* No picker is open and the view is empty.                                *)
LEMMA WidgetInitInv == ASSUME WidgetInit PROVE WidgetInv
BY DEF WidgetInit, WidgetInv, PickInv, ViewInv

(* A picker opens with the cursor in the middle of its viewport.           *)
LEMMA OpenInv ==
    ASSUME WidgetInv, NEW total \in 1 .. MaxItems, NEW multi, NEW initial \in 0 .. total, NEW disabled,
           run_picker(total, multi, initial, disabled)
    PROVE  PickInv'
<1>1. total \in Nat \ {0} /\ initial \in Nat
  <2>1. MaxItems \in Nat  BY WidgetShape DEF WidgetShape
  <2> QED  BY <2>1
<1>2. PICK v : v = visible_count(total)  OBVIOUS
<1>3. v \in 1 .. total  BY <1>1, <1>2, VisibleFacts
<1>4. PICK c : c = Lesser(initial, total - 1)  OBVIOUS
<1>5. c \in 0 .. total - 1  BY <1>1, <1>4 DEF Lesser
<1>6. PICK h : h = v \div 2 /\ h \in Nat /\ h < v  BY <1>1, <1>3
<1>7. PICK s : s = Lesser(Minus(c, h), Minus(total, v))  OBVIOUS
<1>8. s \in Nat /\ s + v <= total /\ s <= c /\ c < s + v  BY <1>1, <1>3, <1>5, <1>6, <1>7 DEF Lesser, Minus
<1>9. PICK p : p = [open |-> TRUE, total |-> total, multi |-> multi, disabled |-> disabled, checked |-> {},
                    cursor |-> c, scroll |-> s]
  OBVIOUS
<1>10. pick' = p /\ term' = Drawn(p)  BY <1>2, <1>4, <1>6, <1>7, <1>9 DEF run_picker
<1>11. Proper(p)  BY <1>1, <1>2, <1>5, <1>8, <1>9 DEF Proper
<1> QED  BY <1>9, <1>10, <1>11 DEF PickInv, Proper, Drawn

(* Two pickers that differ in the cursor and the scroll.                   *)
LEMMA MoveInv ==
    ASSUME WidgetInv, pick.open, NEW c \in Nat, NEW s \in Nat, NEW q, q = [pick EXCEPT !.cursor = c, !.scroll = s],
           c = pick.cursor + 1 \/ c = pick.cursor - 1,
           s + visible_count(pick.total) <= pick.total, s <= c, c < s + visible_count(pick.total),
           pick' = q,
           \/ term' = Drawn(q)
           \/ s = pick.scroll /\ term' = Rewritten(term, q, pick.cursor)
    PROVE  PickInv'
<1>1. /\ pick = [open |-> TRUE, total |-> pick.total, multi |-> pick.multi, disabled |-> pick.disabled,
                 checked |-> pick.checked, cursor |-> pick.cursor, scroll |-> pick.scroll]
      /\ Proper(pick) /\ term = Drawn(pick)
  BY DEF WidgetInv, PickInv, Closed
<1>2. q = [open |-> TRUE, total |-> pick.total, multi |-> pick.multi, disabled |-> pick.disabled,
           checked |-> pick.checked, cursor |-> c, scroll |-> s]
  BY <1>1
<1>3. Proper(q)  BY <1>1, <1>2 DEF Proper
<1>4. term' = Drawn(q)
  <2>1. CASE s = pick.scroll /\ term' = Rewritten(term, q, pick.cursor)
    <3>1. Rewritten(Drawn(pick), q, pick.cursor) = Drawn(q)  BY <1>1, <1>2, <1>3, <2>1, RewrittenRows
    <3> QED  BY <1>1, <2>1, <3>1
  <2> QED  BY <2>1
<1> QED  BY <1>2, <1>3, <1>4 DEF PickInv, Proper, Drawn

(* Up rewrites two rows, or draws all of them when the viewport moves.     *)
LEMMA PickerUpInv == ASSUME WidgetInv, PickerUp PROVE PickInv'
<1>1. PICK c : c = pick.cursor - 1  OBVIOUS
<1>2. PICK s : s = Lesser(pick.scroll, c)  OBVIOUS
<1>3. PICK q : q = [pick EXCEPT !.cursor = c, !.scroll = s]  OBVIOUS
<1>4. /\ pick.open /\ pick.cursor > 0 /\ pick' = q
      /\ term' = IF c < pick.scroll THEN Drawn(q) ELSE Rewritten(term, q, pick.cursor)
  BY <1>1, <1>2, <1>3 DEF PickerUp
<1>5. Proper(pick)  BY <1>4 DEF WidgetInv, PickInv, Closed
<1>6. PICK v : v = visible_count(pick.total) /\ v \in Nat \ {0}  BY <1>5, VisibleFacts DEF Proper
<1>7. /\ c \in Nat /\ s \in Nat /\ s + v <= pick.total /\ s <= c /\ c < s + v
      /\ ~(c < pick.scroll) => s = pick.scroll
  BY <1>1, <1>2, <1>4, <1>5, <1>6 DEF Proper, Lesser
<1> QED  BY <1>1, <1>3, <1>4, <1>6, <1>7, MoveInv

(* Down does the same.                                                     *)
LEMMA PickerDownInv == ASSUME WidgetInv, PickerDown PROVE PickInv'
<1>0. pick.open  BY DEF PickerDown
<1>1. Proper(pick)  BY <1>0 DEF WidgetInv, PickInv, Closed
<1>2. PICK v : v = visible_count(pick.total) /\ v \in Nat \ {0}  BY <1>1, VisibleFacts DEF Proper
<1>3. PICK c : c = pick.cursor + 1  OBVIOUS
<1>4. PICK s : s = IF c >= pick.scroll + v THEN c - v + 1 ELSE pick.scroll  OBVIOUS
<1>5. PICK q : q = [pick EXCEPT !.cursor = c, !.scroll = s]  OBVIOUS
<1>6. /\ pick.cursor < pick.total - 1 /\ pick' = q
      /\ term' = IF c >= pick.scroll + v THEN Drawn(q) ELSE Rewritten(term, q, pick.cursor)
  BY <1>2, <1>3, <1>4, <1>5 DEF PickerDown, Vis
<1>7. /\ c \in Nat /\ s \in Nat /\ s + v <= pick.total /\ s <= c /\ c < s + v
      /\ ~(c >= pick.scroll + v) => s = pick.scroll
  BY <1>1, <1>2, <1>3, <1>4, <1>6 DEF Proper
<1> QED  BY <1>0, <1>2, <1>3, <1>5, <1>6, <1>7, MoveInv

(* A box is checked or cleared: its row is rewritten.                      *)
LEMMA ToggleInv == ASSUME WidgetInv, Toggle PROVE PickInv'
<1>1. PICK i : i = pick.cursor  OBVIOUS
<1>2. PICK K : K = IF i \in pick.checked THEN pick.checked \ {i} ELSE pick.checked \cup {i}  OBVIOUS
<1>3. PICK q : q = [pick EXCEPT !.checked = K]  OBVIOUS
<1>4. /\ pick.open /\ pick' = q
      /\ term' = Down(redraw_item(Up(term, RowsTo(q, i)), q, i, TRUE), RowsTo(q, i))
  BY <1>1, <1>2, <1>3 DEF Toggle
<1>5. /\ pick = [open |-> TRUE, total |-> pick.total, multi |-> pick.multi, disabled |-> pick.disabled,
                 checked |-> pick.checked, cursor |-> pick.cursor, scroll |-> pick.scroll]
      /\ Proper(pick) /\ term = Drawn(pick)
  BY <1>4 DEF WidgetInv, PickInv, Closed
<1>6. q = [open |-> TRUE, total |-> pick.total, multi |-> pick.multi, disabled |-> pick.disabled,
           checked |-> K, cursor |-> pick.cursor, scroll |-> pick.scroll]
  <2>1. PICK p, a, b, d, e, f, g : /\ p = pick /\ a = pick.total /\ b = pick.multi /\ d = pick.disabled
                                   /\ e = pick.checked /\ f = pick.cursor /\ g = pick.scroll
    OBVIOUS
  <2>2. p = [open |-> TRUE, total |-> a, multi |-> b, disabled |-> d, checked |-> e, cursor |-> f, scroll |-> g]
        /\ q = [p EXCEPT !.checked = K]
    BY <1>3, <1>5, <2>1
  <2>3. q = [open |-> TRUE, total |-> a, multi |-> b, disabled |-> d, checked |-> K, cursor |-> f, scroll |-> g]
    BY ONLY <2>2
  <2> QED  BY <2>1, <2>3
<1>7. Proper(q)  BY <1>5, <1>6 DEF Proper
<1>8. \A j : j # pick.cursor => (j \in q.checked <=> j \in pick.checked)  BY <1>1, <1>2, <1>6
<1>9. Down(redraw_item(Up(Drawn(pick), RowsTo(q, i)), q, i, TRUE), RowsTo(q, i)) = Drawn(q)
  BY <1>1, <1>5, <1>6, <1>7, <1>8, ToggledRow
<1>10. term' = Drawn(q)  BY <1>4, <1>5, <1>9
<1> QED  BY <1>4, <1>6, <1>7, <1>10 DEF PickInv, Proper, Drawn

(* A picker that is neither changed nor redrawn, or is closed.             *)
LEMMA PickKept ==
    ASSUME WidgetInv, UNCHANGED <<pick, term>> \/ pick' = Closed
    PROVE  PickInv'
<1>1. CASE UNCHANGED <<pick, term>>  BY <1>1 DEF WidgetInv, PickInv, Proper, Drawn
<1>2. CASE pick' = Closed  BY <1>2 DEF PickInv
<1> QED  BY <1>1, <1>2

(* A step that leaves the view alone.                                      *)
LEMMA ViewKept == ASSUME WidgetInv, UNCHANGED view PROVE ViewInv'
BY DEF WidgetInv, ViewInv

(* The steps of the view.                                                  *)
LEMMA ViewSteps ==
    ASSUME WidgetInv,
           \/ \E w \in Widths : push_line(w)
           \/ enter_browse \/ exit_browse
           \/ \E n \in {1, Height} : scroll_up(n) \/ scroll_down(n)
    PROVE  ViewInv'
<1>1. PICK L, o, m : L = view.lines /\ o = view.offset /\ m = view.mode  OBVIOUS
<1>2. /\ view = [lines |-> L, offset |-> o, mode |-> m] /\ L \in Seq(Nat) /\ o \in Nat
      /\ m = "expanded" => L # <<>> /\ o <= max_scroll_offset(L)
  BY <1>1 DEF WidgetInv, ViewInv
<1>3. PICK last : last = max_scroll_offset(L)  OBVIOUS
<1>4. last \in 0 .. Len(L)  BY <1>2, <1>3, LastOffset
<1>5. last \in Nat  BY <1>2, <1>4
<1>6. ASSUME NEW L2 \in Seq(Nat), NEW o2 \in Nat, NEW m2, view' = [lines |-> L2, offset |-> o2, mode |-> m2],
             m2 = "expanded" => L2 # <<>> /\ o2 <= max_scroll_offset(L2)
      PROVE  ViewInv'
  <2>1. PICK w : w = view'  OBVIOUS
  <2>2. w = [lines |-> L2, offset |-> o2, mode |-> m2]  BY <1>6, <2>1
  <2>3. /\ w = [lines |-> w.lines, offset |-> w.offset, mode |-> w.mode]
        /\ w.lines \in Seq(Nat) /\ w.offset \in Nat
        /\ w.mode = "expanded" => w.lines # <<>> /\ w.offset <= max_scroll_offset(w.lines)
    BY <1>6, <2>2
  <2> QED  BY <2>1, <2>3 DEF ViewInv
<1>7. ASSUME NEW w \in Widths, push_line(w)  PROVE ViewInv'
  <2>1. w \in Nat  BY WidgetConstants
  <2>2. m = "compact" /\ view' = [lines |-> Append(L, w), offset |-> o, mode |-> m]  BY <1>1, <1>2, <1>7 DEF push_line
  <2>3. Append(L, w) \in Seq(Nat)  BY <1>2, <2>1
  <2>4. m # "expanded"  BY <2>2
  <2> QED  BY <1>2, <1>6, <2>2, <2>3, <2>4
<1>8. ASSUME enter_browse  PROVE ViewInv'
  <2>1. Total > 0 /\ view' = [lines |-> L, offset |-> last, mode |-> "expanded"]
    BY <1>1, <1>2, <1>3, <1>8 DEF enter_browse
  <2>2. L # <<>>  BY <1>1, <2>1 DEF Total
  <2>3. last <= max_scroll_offset(L)  BY <1>3, <1>5
  <2> QED  BY <1>2, <1>5, <1>6, <2>1, <2>2, <2>3
<1>9. ASSUME exit_browse  PROVE ViewInv'
  <2>1. view' = [lines |-> L, offset |-> o, mode |-> "compact"]  BY <1>1, <1>2, <1>9 DEF exit_browse
  <2> QED  BY <1>2, <1>6, <2>1
<1>10. ASSUME NEW n \in {1, Height}, scroll_up(n)  PROVE ViewInv'
  <2>1. n \in Nat  BY WidgetConstants
  <2>2. PICK u : u = Minus(o, n)  OBVIOUS
  <2>3. m = "expanded" /\ view' = [lines |-> L, offset |-> u, mode |-> m]  BY <1>1, <1>2, <1>10, <2>2 DEF scroll_up
  <2>4. u \in Nat /\ u <= o  BY <1>2, <2>1, <2>2 DEF Minus
  <2>5. L # <<>> /\ u <= max_scroll_offset(L)  BY <1>2, <1>3, <1>5, <2>3, <2>4
  <2> QED  BY <1>2, <1>6, <2>3, <2>4, <2>5
<1>11. ASSUME NEW n \in {1, Height}, scroll_down(n)  PROVE ViewInv'
  <2>1. n \in Nat  BY WidgetConstants
  <2>2. PICK u : u = Lesser(o + n, last)  OBVIOUS
  <2>3. m = "expanded" /\ view' = [lines |-> L, offset |-> u, mode |-> m]
    BY <1>1, <1>2, <1>3, <1>11, <2>2 DEF scroll_down
  <2>4. u \in Nat /\ u <= last  BY <1>2, <1>5, <2>1, <2>2 DEF Lesser
  <2>5. L # <<>> /\ u <= max_scroll_offset(L)  BY <1>2, <1>3, <2>3, <2>4
  <2> QED  BY <1>2, <1>6, <2>3, <2>4, <2>5
<1> QED  BY <1>7, <1>8, <1>9, <1>10, <1>11

(* Every step, one case per action.                                        *)
LEMMA WidgetNextInv == ASSUME WidgetInv, [WidgetNext]_widgetVars PROVE WidgetInv'
<1>1. CASE OpenPicker
  <2>1. PickInv'  BY <1>1, OpenInv DEF OpenPicker
  <2>2. UNCHANGED view  BY <1>1 DEF OpenPicker, run_picker
  <2> QED  BY <2>1, <2>2, ViewKept DEF WidgetInv
<1>2. CASE PickerUp \/ PickerDown \/ Toggle
  <2>1. PickInv'  BY <1>2, PickerUpInv, PickerDownInv, ToggleInv
  <2>2. UNCHANGED view  BY <1>2 DEF PickerUp, PickerDown, Toggle
  <2> QED  BY <2>1, <2>2, ViewKept DEF WidgetInv
<1>3. CASE Confirm \/ Shortcut \/ Cancel
  <2>1. pick' = Closed /\ UNCHANGED view  BY <1>3 DEF Confirm, Shortcut, Cancel, Close
  <2> QED  BY <2>1, PickKept, ViewKept DEF WidgetInv
<1>4. CASE \/ \E w \in Widths : push_line(w)
           \/ enter_browse \/ exit_browse
           \/ \E n \in {1, Height} : scroll_up(n) \/ scroll_down(n)
  <2>1. UNCHANGED <<pick, term>>  BY <1>4 DEF push_line, enter_browse, exit_browse, scroll_up, scroll_down
  <2>2. PickInv'  BY <2>1, PickKept
  <2>3. ViewInv'  BY <1>4, ViewSteps
  <2> QED  BY <2>2, <2>3 DEF WidgetInv
<1>5. CASE UNCHANGED widgetVars
  <2>1. UNCHANGED <<pick, term>> /\ UNCHANGED view  BY <1>5 DEF widgetVars
  <2> QED  BY <2>1, PickKept, ViewKept DEF WidgetInv
<1> QED  BY <1>1, <1>2, <1>3, <1>4, <1>5 DEF WidgetNext

(* In every state the screen under an open picker is what drawing it from  *)
(* nothing would show, and a view is not scrolled past its last offset,    *)
(* for every number of items and every width of lines (picker.rs           *)
(* run_picker, scroll_view.rs scroll_down).                                *)
THEOREM WidgetInvHolds == WidgetSpec => []WidgetInv
<1>1. WidgetInit => WidgetInv  BY WidgetInitInv
<1>2. WidgetInv /\ [WidgetNext]_widgetVars => WidgetInv'  BY WidgetNextInv
<1> QED  BY <1>1, <1>2, PTL DEF WidgetSpec

(* The rows that the picker rewrites leave the screen as drawing it all    *)
(* would; and a view shows its last line exactly when it is scrolled as    *)
(* far as it goes, although max_scroll_offset counts rows backwards and    *)
(* render_expanded fills the screen forwards (picker.rs PickerState,       *)
(* scroll_view.rs max_scroll_offset).                                      *)
THEOREM WidgetsShowTheirState == WidgetSpec => []WidgetsFaithful
<1>1. ASSUME WidgetInv  PROVE PickerScreenTrue
  <2>1. SUFFICES ASSUME pick.open
                 PROVE  pick.cursor \in pick.scroll .. pick.scroll + Vis - 1 /\ term = Drawn(pick)
    BY DEF PickerScreenTrue
  <2>2. Proper(pick) /\ term = Drawn(pick)  BY <1>1, <2>1 DEF WidgetInv, PickInv, Closed
  <2>3. PICK v : v = visible_count(pick.total) /\ v \in Nat \ {0}  BY <2>2, VisibleFacts DEF Proper
  <2>4. pick.cursor \in pick.scroll .. pick.scroll + v - 1  BY <2>2, <2>3 DEF Proper
  <2> QED  BY <2>2, <2>3, <2>4 DEF Vis
<1>2. ASSUME WidgetInv  PROVE BrowseReachesEnd
  <2>1. PICK L, n, o, last : L = view.lines /\ n = Len(L) /\ o = view.offset /\ last = max_scroll_offset(L)  OBVIOUS
  <2>2. SUFFICES ASSUME view.mode = "expanded", RowsOf(L, n - 1) <= Height
                 PROVE  o <= last /\ (o = last) = (n - 1 \in lines_shown(L, o))
    BY <2>1 DEF BrowseReachesEnd, Total
  <2>3. L \in Seq(Nat) /\ o \in Nat /\ L # <<>> /\ o <= last  BY <1>2, <2>1, <2>2 DEF WidgetInv, ViewInv
  <2>4. n \in Nat \ {0}  BY <2>1, <2>3
  <2>5. last \in 0 .. n /\ \A i \in 0 .. n - 1 : RowsFrom(L, i, n - i) > Height <=> i < last
    BY <2>1, <2>3, LastOffset
  <2>6. last <= n - 1
    <3>1. n - 1 \in 0 .. n - 1 /\ n - (n - 1) = 1  BY <2>4
    <3>2. RowsFrom(L, n - 1, 1) = RowsOf(L, n - 1) /\ RowsOf(L, n - 1) \in Nat
      BY <2>1, <2>3, <3>1, OneLine, RowsOfNat
    <3>3. ~(RowsFrom(L, n - 1, n - (n - 1)) > Height)  BY <2>2, <3>1, <3>2, WidgetConstants
    <3>4. ~(n - 1 < last)  BY <2>5, <3>1, <3>3
    <3> QED  BY <2>4, <2>5, <3>4
  <2>7. o \in 0 .. n - 1  BY <2>3, <2>4, <2>5, <2>6
  <2>8. n - 1 \in lines_shown(L, o) <=> ~(RowsFrom(L, o, n - o) > Height)  BY <2>1, <2>2, <2>3, <2>7, LastLineShown
  <2>9. (n - 1 \in lines_shown(L, o)) <=> ~(o < last)  BY <2>5, <2>7, <2>8
  <2>10. ~(o < last) <=> o = last  BY <2>3, <2>5
  <2> QED  BY <2>3, <2>9, <2>10
<1>3. WidgetInv => WidgetsFaithful  BY <1>1, <1>2 DEF WidgetsFaithful
<1> QED  BY <1>3, WidgetInvHolds, PTL
=============================================================================
