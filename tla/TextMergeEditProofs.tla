------------------------ MODULE TextMergeEditProofs ------------------------
(***************************************************************************)
(* Proofs about TextMerge, for any number of replicas, any base text and   *)
(* any bounds: where the operations of a replica land in what it sees, and *)
(* what an undo makes of that.                                             *)
(*                                                                         *)
(* The argument.  A replica's own operations observe all that it knows, so *)
(* they come last in the causal order of what it then knows, and their     *)
(* rank is the highest.  An edit that observes all there is sees the       *)
(* living characters, as its author did: it splices the text that is       *)
(* shown.  The batch splices it step by step, if each step stays within    *)
(* the text it finds; so it does on the collapsed document, which shows    *)
(* the same text.                                                          *)
(*                                                                         *)
(* The inverse of a step is deletes, from the last stretch to the first,   *)
(* then inserts, from the last gap to the first.  Neither moves a place    *)
(* that is still to be edited, so the text can be read off the characters  *)
(* of the merge: first without those of the targets, then with those that  *)
(* only the targets had deleted.                                           *)
(***************************************************************************)
EXTENDS TextMergeProofs

-----------------------------------------------------------------------------
(* A text as the characters at some places of a longer one.                *)

\* Two sequences, one behind the other, and a slice of one.
LEMMA JoinFacts ==
  ASSUME NEW T, NEW s \in Seq(T), NEW t \in Seq(T)
  PROVE  /\ s \o t \in Seq(T) /\ Len(s \o t) = Len(s) + Len(t)
         /\ \A i \in 1..Len(s) : (s \o t)[i] = s[i]
         /\ \A i \in 1..Len(t) : (s \o t)[Len(s) + i] = t[i]
  OBVIOUS

\* A slice of a text, given by where it begins and how long it is.
LEMMA SliceOfText ==
  ASSUME NEW T, NEW s \in Seq(T), NEW n \in Nat, NEW m \in Nat, n + m <= Len(s)
  PROVE  /\ SubSeq(s, n + 1, n + m) \in Seq(T)
         /\ Len(SubSeq(s, n + 1, n + m)) = m
         /\ \A i \in 1..m :
                n + i \in DOMAIN s /\ SubSeq(s, n + 1, n + m)[i] = s[n + i]
  OBVIOUS

\* A text with the stretch from..to of it replaced by another, mid.
Replaced(text, from, to, mid, new) ==
    /\ new \in Texts /\ Len(new) = from + Len(mid) + (Len(text) - to)
    /\ \A i \in 1..from : new[i] = text[i]
    /\ \A i \in 1..Len(mid) : new[from + i] = mid[i]
    /\ \A i \in 1..(Len(text) - to) : new[from + Len(mid) + i] = text[to + i]

\* Left, middle and right put together replace the stretch between.
LEMMA ReplacedFacts ==
  ASSUME NEW text \in Texts, NEW from \in Nat, NEW to \in Nat, from <= to, to <= Len(text),
         NEW mid \in Texts
  PROVE  Replaced(text, from, to, mid,
                  SubSeq(text, 1, from) \o mid \o SubSeq(text, to + 1, Len(text)))
<1>1. PICK left : left = SubSeq(text, 1, from)
  OBVIOUS
<1>2. PICK right : right = SubSeq(text, to + 1, Len(text))
  OBVIOUS
<1>3. text \in Seq(Labels) /\ mid \in Seq(Labels) /\ Len(text) \in Nat /\ Len(mid) \in Nat
  BY DEF Texts
<1>4. PICK m \in Nat : m = Len(text) - to /\ to + m = Len(text)
  BY <1>3
<1>5. left \in Seq(Labels) /\ Len(left) = from /\ \A i \in 1..from : left[i] = text[i]
  <2>1. 0 + from <= Len(text) /\ 0 + 1 = 1 /\ 0 + from = from /\ \A i \in 1..from : 0 + i = i
    BY <1>3
  <2>2. /\ SubSeq(text, 0 + 1, 0 + from) \in Seq(Labels)
        /\ Len(SubSeq(text, 0 + 1, 0 + from)) = from
        /\ \A i \in 1..from : SubSeq(text, 0 + 1, 0 + from)[i] = text[0 + i]
    BY <1>3, <2>1, SliceOfText
  <2>3. QED
    BY <1>1, <2>1, <2>2
<1>6. right \in Seq(Labels) /\ Len(right) = m /\ \A i \in 1..m : right[i] = text[to + i]
  <2>1. to + m <= Len(text)
    BY <1>3, <1>4
  <2>2. /\ SubSeq(text, to + 1, to + m) \in Seq(Labels)
        /\ Len(SubSeq(text, to + 1, to + m)) = m
        /\ \A i \in 1..m : SubSeq(text, to + 1, to + m)[i] = text[to + i]
    BY <1>3, <2>1, SliceOfText
  <2>3. QED
    BY <1>2, <1>4, <2>2
<1>7. PICK both : both = left \o mid
  OBVIOUS
<1>8. /\ both \in Seq(Labels) /\ Len(both) = from + Len(mid)
      /\ \A i \in 1..from : both[i] = left[i]
      /\ \A i \in 1..Len(mid) : both[from + i] = mid[i]
  <2>1. /\ left \o mid \in Seq(Labels) /\ Len(left \o mid) = Len(left) + Len(mid)
        /\ \A i \in 1..Len(left) : (left \o mid)[i] = left[i]
        /\ \A i \in 1..Len(mid) : (left \o mid)[Len(left) + i] = mid[i]
    BY <1>3, <1>5, JoinFacts
  <2>2. QED
    BY <1>5, <1>7, <2>1
<1>9. PICK new : new = both \o right
  OBVIOUS
<1>10. /\ new \in Seq(Labels) /\ Len(new) = (from + Len(mid)) + m
       /\ \A i \in 1..(from + Len(mid)) : new[i] = both[i]
       /\ \A i \in 1..m : new[from + Len(mid) + i] = right[i]
  <2>1. both \in Seq(Labels) /\ right \in Seq(Labels)
    BY <1>6, <1>8
  <2>2. /\ both \o right \in Seq(Labels) /\ Len(both \o right) = Len(both) + Len(right)
        /\ \A i \in 1..Len(both) : (both \o right)[i] = both[i]
        /\ \A i \in 1..Len(right) : (both \o right)[Len(both) + i] = right[i]
    BY <2>1, JoinFacts
  <2>3. Len(both) = from + Len(mid) /\ Len(right) = m
    BY <1>6, <1>8
  <2>4. QED
    BY <1>9, <2>2, <2>3
<1>11. (\A i \in 1..from : i \in 1..(from + Len(mid)))
       /\ \A i \in 1..Len(mid) : from + i \in 1..(from + Len(mid))
  BY <1>3
<1>12. Replaced(text, from, to, mid, new)
  BY <1>4, <1>5, <1>6, <1>8, <1>10, <1>11 DEF Replaced, Texts
<1>13. QED
  BY <1>1, <1>2, <1>7, <1>9, <1>12

\* The text has the characters at the places S, in order.
Reads(text, q, n, S, label) ==
    /\ Enumerates(q, n, S)
    /\ text \in Texts /\ Len(text) = n
    /\ \A i \in 1..n : text[i] = label[q[i]]

\* The same, spelled out.
ReadOff(text, q, n, S, label) ==
    /\ n \in Nat /\ text \in Texts /\ Len(text) = n
    /\ \A i \in 1..n : q[i] \in S /\ q[i] \in Nat /\ text[i] = label[q[i]]
    /\ \A i, j \in 1..n : i < j => q[i] < q[j]
    /\ \A x \in S : \E i \in 1..n : q[i] = x

\* Reading, spelled out.
LEMMA ReadsFacts ==
  ASSUME NEW S \in SUBSET Nat, NEW text, NEW q, NEW n, NEW label, Reads(text, q, n, S, label)
  PROVE  ReadOff(text, q, n, S, label)
<1>1. \A i \in 1..n : q[i] \in S
  BY DEF Reads, Enumerates
<1>2. QED
  BY <1>1 DEF Reads, Enumerates, ReadOff

\* One text has what stands at one set of places.
LEMMA ReadsAgree ==
  ASSUME NEW S \in SUBSET Nat, NEW t, NEW q, NEW n, NEW u, NEW r, NEW m,
         NEW label, NEW other, \A x \in S : label[x] = other[x],
         Reads(t, q, n, S, label), Reads(u, r, m, S, other)
  PROVE  t = u
<1>1. n = m /\ q = r
  BY EnumerationsAgree DEF Reads
<1>2. t \in Seq(Labels) /\ u \in Seq(Labels) /\ Len(t) = Len(u) /\ n \in Nat /\ Len(t) = n
  BY <1>1, ReadsFacts DEF ReadOff, Texts
<1>3. ASSUME NEW i \in 1..n PROVE t[i] = u[i]
  <2>1. q[i] \in S /\ t[i] = label[q[i]]
    BY DEF Reads, Enumerates
  <2>2. u[i] = other[r[i]]
    BY <1>1 DEF Reads
  <2>3. QED
    BY <1>1, <2>1, <2>2
<1>4. QED
  BY <1>2, <1>3, SeqEqual

\* Deleting takes the characters of a stretch of the text.
LEMMA CutReads ==
  ASSUME NEW S \in SUBSET Nat, NEW text, NEW q, NEW n, NEW label, Reads(text, q, n, S, label),
         NEW op, op.kind = "delete", op.from \in Nat, op.to \in Nat,
         op.from <= op.to, op.to <= n
  PROVE  \E r : Reads(Spliced(text, op), r, n - (op.to - op.from),
                      S \ {q[i] : i \in (op.from + 1)..op.to}, label)
<1>1. PICK from \in Nat, to \in Nat : from = op.from /\ to = op.to /\ from <= to /\ to <= n
  OBVIOUS
<1>2. /\ n \in Nat /\ text \in Texts /\ Len(text) = n
      /\ \A i \in 1..n : q[i] \in S /\ q[i] \in Nat /\ text[i] = label[q[i]]
      /\ \A i, j \in 1..n : i < j => q[i] < q[j]
      /\ \A x \in S : \E i \in 1..n : q[i] = x
  <2>1. ReadOff(text, q, n, S, label)
    BY ReadsFacts
  <2>2. QED
    BY <2>1 DEF ReadOff
<1>3. n \in Nat
  BY <1>2
<1>4. PICK new : new = Spliced(text, op)
  OBVIOUS
<1>5. PICK w \in Nat : w = to - from
  BY <1>1
<1>6. PICK m \in Nat : m = n - w /\ m = from + (n - to)
  BY <1>1, <1>5, <1>3
<1>7. PICK C : C = {q[i] : i \in (from + 1)..to}
  OBVIOUS
<1>8. /\ new \in Texts /\ Len(new) = m
      /\ \A i \in 1..from : new[i] = text[i]
      /\ \A i \in 1..(n - to) : new[from + i] = text[to + i]
  <2>1. PICK left : left = SubSeq(text, 1, from)
    OBVIOUS
  <2>2. PICK right : right = SubSeq(text, to + 1, Len(text))
    OBVIOUS
  <2>3. Replaced(text, from, to, <<>>, left \o <<>> \o right)
    BY <1>1, <1>2, <2>1, <2>2, NoText, ReplacedFacts
  <2>4. left \o <<>> = left
    <3>1. text \in Seq(Labels) /\ 0 + from <= Len(text) /\ 0 + from = from
      BY <1>1, <1>2 DEF Texts
    <3>2. SubSeq(text, 0 + 1, 0 + from) \in Seq(Labels)
      BY <3>1, SliceOfText
    <3>3. left \in Seq(Labels)
      BY <2>1, <3>1, <3>2
    <3>4. QED
      BY <3>3, ConcatEmptySeq
  <2>5. new = left \o right
    BY <1>1, <1>4, <2>1, <2>2 DEF Spliced
  <2>6. Replaced(text, from, to, <<>>, new)
    BY <2>3, <2>4, <2>5
  <2>7. Len(<<>>) = 0 /\ from + 0 = from
    OBVIOUS
  <2>8. QED
    BY <1>2, <1>6, <2>6, <2>7 DEF Replaced
<1>9. PICK r : r = [i \in 1..m |-> IF i <= from THEN q[i] ELSE q[i + w]]
  OBVIOUS
<1>10. ASSUME NEW i \in 1..m
      PROVE  \/ i <= from /\ i \in 1..from /\ i \in 1..n /\ r[i] = q[i]
             \/ /\ ~(i <= from) /\ i + w \in 1..n /\ to < i + w /\ r[i] = q[i + w]
                /\ i - from \in 1..(n - to) /\ from + (i - from) = i
                /\ to + (i - from) = i + w
  <2>1. r[i] = IF i <= from THEN q[i] ELSE q[i + w]
    BY <1>9
  <2>2. i \in Nat /\ 1 <= i /\ i <= m
    BY <1>6
  <2>3. CASE i <= from
    BY <1>1, <1>3, <2>1, <2>2, <2>3
  <2>4. CASE ~(i <= from)
    BY <1>1, <1>5, <1>6, <1>3, <2>1, <2>2, <2>4
  <2>5. QED
    BY <2>3, <2>4
<1>11. ASSUME NEW i \in 1..m PROVE new[i] = label[r[i]]
  <2>1. CASE i <= from
    BY <1>2, <1>8, <1>10, <2>1
  <2>2. CASE ~(i <= from)
    <3>1. new[from + (i - from)] = text[to + (i - from)]
      BY <1>8, <1>10, <2>2
    <3>2. new[i] = text[i + w] /\ i + w \in 1..n /\ r[i] = q[i + w]
      BY <1>10, <2>2, <3>1
    <3>3. QED
      BY <1>2, <3>2
  <2>3. QED
    BY <2>1, <2>2
<1>12. \A i, j \in 1..n : q[i] = q[j] => i = j
  <2>1. ASSUME NEW i \in 1..n, NEW j \in 1..n, q[i] = q[j], i # j PROVE FALSE
    <3>1. i < j \/ j < i
      BY <1>2, <2>1
    <3>2. q[i] < q[j] \/ q[j] < q[i]
      BY <1>2, <3>1
    <3>3. q[i] \in Nat /\ q[j] \in Nat
      BY <1>2
    <3>4. QED
      BY <2>1, <3>2, <3>3
  <2>2. QED
    BY <2>1
<1>13. ASSUME NEW i \in 1..m PROVE r[i] \in S \ C
  <2>1. PICK k \in 1..n : r[i] = q[k] /\ (k <= from \/ to < k)
    BY <1>1, <1>2, <1>10
  <2>2. ASSUME NEW j \in (from + 1)..to PROVE q[j] # q[k]
    <3>1. j \in 1..n /\ j # k
      BY <1>1, <1>2, <2>1
    <3>2. QED
      BY <1>12, <3>1
  <2>3. q[k] \in S
    BY <1>2
  <2>4. QED
    BY <1>7, <2>1, <2>2, <2>3
<1>14. ASSUME NEW i \in 1..m, NEW j \in 1..m, i < j PROVE r[i] < r[j]
  <2>1. PICK k \in 1..n : r[i] = q[k] /\ (IF i <= from THEN k = i ELSE k = i + w)
    BY <1>10
  <2>2. PICK l \in 1..n : r[j] = q[l] /\ (IF j <= from THEN l = j ELSE l = j + w)
    BY <1>10
  <2>3. k < l
    BY <1>1, <1>2, <1>6, <1>14, <2>1, <2>2
  <2>4. QED
    BY <1>2, <2>1, <2>2, <2>3
<1>15. ASSUME NEW x \in S \ C PROVE \E i \in 1..m : r[i] = x
  <2>1. PICK k \in 1..n : q[k] = x
    BY <1>2
  <2>2. k \notin (from + 1)..to
    BY <1>7, <2>1
  <2>3. CASE k <= from
    <3>1. k \in 1..m
      BY <1>1, <1>6, <1>3, <2>3
    <3>2. r[k] = q[k]
      BY <1>9, <2>3, <3>1
    <3>3. QED
      BY <2>1, <3>1, <3>2
  <2>4. CASE to < k
    <3>1. k - w \in 1..m /\ ~(k - w <= from) /\ (k - w) + w = k
      BY <1>1, <1>5, <1>6, <1>3, <2>4
    <3>2. r[k - w] = q[k]
      BY <1>9, <3>1
    <3>3. QED
      BY <2>1, <3>1, <3>2
  <2>5. QED
    BY <1>1, <1>2, <2>2, <2>3, <2>4
<1>16. Enumerates(r, m, S \ C)
  <2>1. r \in [1..m -> S \ C]
    BY <1>9, <1>13
  <2>2. QED
    BY <1>14, <1>15, <2>1 DEF Enumerates
<1>17. Reads(new, r, m, S \ C, label)
  BY <1>8, <1>11, <1>16 DEF Reads
<1>18. m = n - (op.to - op.from) /\ C = {q[i] : i \in (op.from + 1)..op.to}
  BY <1>1, <1>5, <1>6, <1>7
<1>19. QED
  BY <1>4, <1>17, <1>18

\* Inserting puts characters into the text, where their places are in the longer.
LEMMA PutReads ==
  ASSUME NEW S \in SUBSET Nat, NEW text, NEW q, NEW n, NEW label, Reads(text, q, n, S, label),
         NEW op, op.kind = "insert", op.from \in Nat, op.from <= n,
         NEW B \in SUBSET Nat, NEW b, NEW w, Reads(op.text, b, w, B, label),
         \A i \in 1..n : \A k \in 1..w :
             (i <= op.from => q[i] < b[k]) /\ (op.from < i => b[k] < q[i])
  PROVE  \E r : Reads(Spliced(text, op), r, n + w, S \cup B, label)
<1>1. PICK from \in Nat : from = op.from /\ from <= n
  OBVIOUS
<1>2. PICK mid : mid = op.text
  OBVIOUS
<1>3. ReadOff(text, q, n, S, label) /\ ReadOff(mid, b, w, B, label)
  BY <1>2, ReadsFacts
<1>4. /\ n \in Nat /\ text \in Texts /\ Len(text) = n
      /\ \A i \in 1..n : q[i] \in S /\ q[i] \in Nat /\ text[i] = label[q[i]]
      /\ \A i, j \in 1..n : i < j => q[i] < q[j]
      /\ \A x \in S : \E i \in 1..n : q[i] = x
  BY <1>3 DEF ReadOff
<1>5. /\ w \in Nat /\ mid \in Texts /\ Len(mid) = w
      /\ \A i \in 1..w : b[i] \in B /\ b[i] \in Nat /\ mid[i] = label[b[i]]
      /\ \A i, j \in 1..w : i < j => b[i] < b[j]
      /\ \A x \in B : \E i \in 1..w : b[i] = x
  BY <1>3 DEF ReadOff
<1>6. n \in Nat /\ w \in Nat
  BY <1>4, <1>5
<1>7. PICK new : new = Spliced(text, op)
  OBVIOUS
<1>8. PICK m \in Nat : m = n + w
  BY <1>6
<1>9. /\ new \in Texts /\ Len(new) = m
      /\ \A i \in 1..from : new[i] = text[i]
      /\ \A i \in 1..w : new[from + i] = mid[i]
      /\ \A i \in 1..(n - from) : new[from + w + i] = text[from + i]
  <2>1. from <= from /\ from <= Len(text)
    BY <1>1, <1>4
  <2>2. Replaced(text, from, from, mid,
                 SubSeq(text, 1, from) \o mid \o SubSeq(text, from + 1, Len(text)))
    BY <1>4, <1>5, <2>1, ReplacedFacts
  <2>3. new = SubSeq(text, 1, from) \o mid \o SubSeq(text, from + 1, Len(text))
    BY <1>1, <1>2, <1>7 DEF Spliced
  <2>4. Replaced(text, from, from, mid, new)
    BY <2>2, <2>3
  <2>5. from + w + (n - from) = m
    BY <1>6, <1>8
  <2>6. QED
    BY <1>4, <1>5, <2>4, <2>5 DEF Replaced
<1>10. PICK r : r = [i \in 1..m |-> IF i <= from THEN q[i]
                                    ELSE IF i <= from + w THEN b[i - from] ELSE q[i - w]]
  OBVIOUS
\* Which place of which text it comes from.
<1> DEFINE Left(i) == i <= from /\ i \in 1..n /\ i \in 1..from /\ r[i] = q[i] /\ new[i] = text[i]
           Mid(i) == /\ from < i /\ i <= from + w /\ i - from \in 1..w
                     /\ r[i] = b[i - from] /\ new[i] = mid[i - from]
           Right(i) == /\ from + w < i /\ i - w \in 1..n /\ from < i - w
                       /\ r[i] = q[i - w] /\ new[i] = text[i - w]
<1>11. ASSUME NEW i \in 1..m PROVE i \in Nat /\ (Left(i) \/ Mid(i) \/ Right(i))
  <2>1. r[i] = IF i <= from THEN q[i] ELSE IF i <= from + w THEN b[i - from] ELSE q[i - w]
    BY <1>10
  <2>2. i \in Nat /\ 1 <= i /\ i <= m
    BY <1>8
  <2>3. CASE i <= from
    <3>1. i \in 1..n /\ i \in 1..from
      BY <1>1, <1>6, <2>2, <2>3
    <3>2. QED
      BY <1>9, <2>1, <2>2, <2>3, <3>1
  <2>4. CASE from < i /\ i <= from + w
    <3>1. i - from \in 1..w /\ from + (i - from) = i /\ ~(i <= from)
      BY <1>1, <1>6, <2>2, <2>4
    <3>2. new[from + (i - from)] = mid[i - from]
      BY <1>9, <3>1
    <3>3. QED
      BY <2>1, <2>2, <2>4, <3>1, <3>2
  <2>5. CASE from + w < i
    <3>1. /\ i - from - w \in 1..(n - from) /\ from + w + (i - from - w) = i
          /\ from + (i - from - w) = i - w /\ ~(i <= from) /\ ~(i <= from + w)
          /\ i - w \in 1..n /\ from < i - w
      BY <1>1, <1>6, <1>8, <2>2, <2>5
    <3>2. new[from + w + (i - from - w)] = text[from + (i - from - w)]
      BY <1>9, <3>1
    <3>3. new[i] = text[i - w] /\ r[i] = q[i - w]
      BY <2>1, <3>1, <3>2
    <3>4. QED
      BY <2>2, <2>5, <3>1, <3>3
  <2>6. QED
    BY <1>1, <1>6, <2>2, <2>3, <2>4, <2>5
<1>12. ASSUME NEW i \in 1..m PROVE r[i] \in S \cup B /\ new[i] = label[r[i]]
  <2>1. CASE Left(i)
    BY <1>4, <2>1
  <2>2. CASE Mid(i)
    BY <1>5, <2>2
  <2>3. CASE Right(i)
    BY <1>4, <2>3
  <2>4. QED
    BY <1>11, <2>1, <2>2, <2>3
<1>13. ASSUME NEW i \in 1..m, NEW j \in 1..m, i < j PROVE r[i] < r[j]
  <2>1. i \in Nat /\ j \in Nat
    BY <1>11
  <2>2. ASSUME Left(i), Left(j) PROVE r[i] < r[j]
    BY <1>4, <1>13, <2>2
  <2>3. ASSUME Left(i), Mid(j) PROVE r[i] < r[j]
    BY <1>1, <2>3
  <2>4. ASSUME Left(i), Right(j) PROVE r[i] < r[j]
    <3>1. i < j - w
      BY <1>1, <1>6, <2>1, <2>4
    <3>2. QED
      BY <1>4, <2>4, <3>1
  <2>5. ASSUME Mid(i), Mid(j) PROVE r[i] < r[j]
    <3>1. i - from < j - from
      BY <1>1, <1>13, <2>1
    <3>2. QED
      BY <1>5, <2>5, <3>1
  <2>6. ASSUME Mid(i), Right(j) PROVE r[i] < r[j]
    BY <1>1, <2>6
  <2>7. ASSUME Right(i), Right(j) PROVE r[i] < r[j]
    <3>1. i - w < j - w
      BY <1>6, <1>13, <2>1
    <3>2. QED
      BY <1>4, <2>7, <3>1
  <2>8. ~(Mid(i) /\ Left(j)) /\ ~(Right(i) /\ Left(j)) /\ ~(Right(i) /\ Mid(j))
    BY <1>1, <1>6, <1>13, <2>1
  <2> HIDE DEF Left, Mid, Right
  <2>9. QED
    BY <1>11, <2>2, <2>3, <2>4, <2>5, <2>6, <2>7, <2>8
<1>14. ASSUME NEW x \in S \cup B PROVE \E i \in 1..m : r[i] = x
  <2>1. CASE x \in B
    <3>1. PICK k \in 1..w : b[k] = x
      BY <1>5, <2>1
    <3>2. from + k \in 1..m /\ ~(from + k <= from) /\ from + k <= from + w /\ (from + k) - from = k
      BY <1>1, <1>6, <1>8
    <3>3. r[from + k] = b[k]
      BY <1>10, <3>2
    <3>4. QED
      BY <3>1, <3>2, <3>3
  <2>2. CASE x \in S
    <3>1. PICK k \in 1..n : q[k] = x
      BY <1>4, <2>2
    <3>2. CASE k <= from
      <4>1. k \in 1..m
        BY <1>6, <1>8
      <4>2. r[k] = q[k]
        BY <1>10, <3>2, <4>1
      <4>3. QED
        BY <3>1, <4>1, <4>2
    <3>3. CASE ~(k <= from)
      <4>1. k + w \in 1..m /\ ~(k + w <= from) /\ ~(k + w <= from + w) /\ (k + w) - w = k
        BY <1>1, <1>6, <1>8, <3>3
      <4>2. r[k + w] = q[k]
        BY <1>10, <4>1
      <4>3. QED
        BY <3>1, <4>1, <4>2
    <3>4. QED
      BY <3>2, <3>3
  <2>3. QED
    BY <2>1, <2>2
<1>15. Enumerates(r, m, S \cup B)
  <2>1. r \in [1..m -> S \cup B]
    BY <1>10, <1>12
  <2>2. QED
    BY <1>8, <1>13, <1>14, <2>1 DEF Enumerates
<1>16. Reads(new, r, m, S \cup B, label)
  BY <1>9, <1>12, <1>15 DEF Reads
<1>17. QED
  BY <1>7, <1>8, <1>16

-----------------------------------------------------------------------------
(* An edit by someone who knows all that has been done.                    *)

\* The places of the living atoms; what is written at each place.
LivePlaces(atoms) == {i \in DOMAIN atoms : Alive(atoms[i])}
LabelsOf(atoms) == [i \in DOMAIN atoms |-> atoms[i].label]

\* The text of atoms has the labels of the live ones.
LEMMA TextReads ==
  ASSUME NEW atoms \in Seq(Atoms)
  PROVE  Reads(TextOf(atoms), Ascending(LivePlaces(atoms)), Len(TextOf(atoms)),
               LivePlaces(atoms), LabelsOf(atoms))
<1>1. PICK S : S = LivePlaces(atoms)
  OBVIOUS
<1>2. /\ Len(atoms) \in Nat /\ DOMAIN atoms = 1..Len(atoms) /\ atoms \in [1..Len(atoms) -> Atoms]
  BY SequenceFacts
<1>3. S \in SUBSET (1..Len(atoms)) /\ S \in SUBSET Nat
  BY <1>1, <1>2 DEF LivePlaces
<1>4. IsFiniteSet(S)
  <2>1. IsFiniteSet(1..Len(atoms))
    BY <1>2, FS_Interval
  <2>2. QED
    BY <1>3, <2>1, FS_Subset
<1>5. PICK q : q = Ascending(S)
  OBVIOUS
<1>6. PICK n : n = Cardinality(S)
  OBVIOUS
<1>7. Enumerates(q, n, S)
  BY <1>3, <1>4, <1>5, <1>6, AscendingEnumerates
<1>8. n \in Nat /\ q \in [1..n -> S]
  BY <1>7 DEF Enumerates
<1>9. PICK live : live = Live(atoms)
  OBVIOUS
<1>10. live = [k \in 1..n |-> atoms[q[k]]]
  <2>1. q = Ascending({i \in DOMAIN atoms : Alive(atoms[i])})
    BY <1>1, <1>5 DEF LivePlaces
  <2>2. DOMAIN q = 1..n
    BY <1>8
  <2>3. QED
    BY <1>9, <2>1, <2>2 DEF Live
<1>11. PICK text : text = TextOf(atoms)
  OBVIOUS
<1>12. text = [k \in 1..n |-> live[k].label]
  <2>1. DOMAIN live = 1..n
    BY <1>10
  <2>2. QED
    BY <1>9, <1>11, <2>1 DEF TextOf
<1>13. text \in Texts
  BY <1>11, LiveProps
<1>14. Len(text) = n
  <2>1. DOMAIN text = 1..n
    BY <1>12
  <2>2. text \in Seq(Labels)
    BY <1>13 DEF Texts
  <2>3. DOMAIN text = 1..Len(text) /\ Len(text) \in Nat
    BY <2>2, SequenceFacts
  <2>4. QED
    BY <1>8, <2>1, <2>3
<1>15. ASSUME NEW k \in 1..n PROVE text[k] = LabelsOf(atoms)[q[k]]
  <2>1. q[k] \in DOMAIN atoms
    BY <1>2, <1>3, <1>8
  <2>2. text[k] = atoms[q[k]].label
    BY <1>10, <1>12
  <2>3. QED
    BY <2>1, <2>2 DEF LabelsOf
<1>16. QED
  BY <1>1, <1>5, <1>7, <1>11, <1>13, <1>14, <1>15 DEF Reads

\* Places are numbers.
LEMMA LivePlacesType ==
  ASSUME NEW atoms \in Seq(Atoms)
  PROVE  LivePlaces(atoms) \in SUBSET Nat
<1>1. DOMAIN atoms = 1..Len(atoms) /\ Len(atoms) \in Nat
  BY SequenceFacts
<1>2. QED
  BY <1>1 DEF LivePlaces

\* Whoever reads the live places in their order reads the text.
LEMMA ReadsText ==
  ASSUME NEW atoms \in Seq(Atoms), NEW text, NEW q, NEW n, NEW label,
         \A i \in LivePlaces(atoms) : label[i] = LabelsOf(atoms)[i],
         Reads(text, q, n, LivePlaces(atoms), label)
  PROVE  text = TextOf(atoms)
<1>1. PICK S \in SUBSET Nat : S = LivePlaces(atoms)
  BY LivePlacesType
<1>2. PICK u : u = TextOf(atoms)
  OBVIOUS
<1>3. \E r, m : Reads(u, r, m, S, LabelsOf(atoms))
  BY <1>1, <1>2, TextReads
<1>4. PICK r, m : Reads(u, r, m, S, LabelsOf(atoms))
  BY <1>3
<1>5. text = u
  BY <1>1, <1>4, ReadsAgree
<1>6. QED
  BY <1>2, <1>5

\* op observes all that has been done to the atoms.
KnowsAll(atoms, op) == \A i \in DOMAIN atoms :
    /\ atoms[i].by = Base \/ Observes(op, atoms[i].by)
    /\ \A d \in atoms[i].gone : Observes(op, d)

\* Then what it sees is what is alive.
LEMMA KnowsAllSees ==
  ASSUME NEW atoms \in Seq(Atoms), NEW op, KnowsAll(atoms, op)
  PROVE  /\ Visible(atoms, op) = Ascending(LivePlaces(atoms))
         /\ Seen(atoms, op) = LivePlaces(atoms)
<1>1. ASSUME NEW i \in DOMAIN atoms PROVE Sees(op, atoms[i]) <=> Alive(atoms[i])
  <2>1. (\A d \in atoms[i].gone : ~Observes(op, d)) <=> atoms[i].gone = {}
    BY DEF KnowsAll
  <2>2. QED
    BY <2>1 DEF KnowsAll, Sees, Alive
<1>2. Seen(atoms, op) = LivePlaces(atoms)
  BY <1>1 DEF Seen, LivePlaces
<1>3. Visible(atoms, op) = Ascending(Seen(atoms, op))
  BY DEF Visible, Seen, Sees
<1>4. QED
  BY <1>2, <1>3

\* A place of the text that op may name.
Fits(text, op) ==
    /\ op.from <= Len(text)
    /\ op.kind = "delete" => op.from <= op.to /\ op.to <= Len(text)

\* A delete by someone who knows all splices the text that shows.
LEMMA DeleteSplices ==
  ASSUME NEW atoms \in Seq(Atoms), NEW op \in Operations, KnowsAll(atoms, op),
         op.kind = "delete", Fits(TextOf(atoms), op), NEW rank
  PROVE  TextOf(Edited(atoms, op, rank)) = Spliced(TextOf(atoms), op)
<1>1. PICK S \in SUBSET Nat : S = LivePlaces(atoms)
  BY LivePlacesType
<1>2. PICK text : text = TextOf(atoms)
  OBVIOUS
<1>3. PICK n : n = Len(text)
  OBVIOUS
<1>4. PICK q : q = Ascending(S)
  OBVIOUS
<1>5. PICK label : label = LabelsOf(atoms)
  OBVIOUS
<1>6. Reads(text, q, n, S, label)
  BY <1>1, <1>2, <1>3, <1>4, <1>5, TextReads
<1>7. op.from \in Nat /\ op.to \in Nat /\ op.from <= op.to /\ op.to <= n
  BY <1>2, <1>3, OperationFacts DEF Fits
<1>8. PICK C : C = {q[i] : i \in (op.from + 1)..op.to}
  OBVIOUS
<1>9. \E r, m : Reads(Spliced(text, op), r, m, S \ C, label)
  BY <1>6, <1>7, <1>8, CutReads
<1>10. PICK struck : struck = StruckBy(atoms, op)
  OBVIOUS
<1>11. struck = C
  <2>1. Visible(atoms, op) = q
    BY <1>1, <1>4, KnowsAllSees
  <2>2. Len(q) = n
    <3>1. n \in Nat /\ q \in [1..n -> S]
      BY <1>6 DEF Reads, Enumerates
    <3>2. q \in Seq(S)
      BY <3>1
    <3>3. QED
      BY <3>1, <3>2
  <2>3. Least2(op.to, n) = op.to
    <3>1. n \in Nat
      BY <1>6 DEF Reads, Enumerates
    <3>2. QED
      BY <1>7, <3>1 DEF Least2
  <2>4. QED
    BY <1>8, <1>10, <2>1, <2>2, <2>3 DEF StruckBy
<1>12. PICK new : new = Edited(atoms, op, rank)
  OBVIOUS
<1>13. new = Struck(atoms, op, struck)
  BY <1>10, <1>12, EditedAs
<1>14. new \in Seq(Atoms) /\ DOMAIN new = DOMAIN atoms
  BY <1>13, StruckProps
<1>15. ASSUME NEW i \in DOMAIN atoms
       PROVE  /\ Alive(new[i]) <=> Alive(atoms[i]) /\ i \notin struck
              /\ new[i].label = atoms[i].label
  <2>1. new[i] = IF i \in struck THEN [atoms[i] EXCEPT !.gone = @ \cup {op}] ELSE atoms[i]
    BY <1>13 DEF Struck
  <2>2. atoms[i] \in Atoms
    BY SequenceFacts
  <2>3. CASE i \in struck
    <3>1. new[i].gone # {} /\ new[i].label = atoms[i].label
      BY <2>1, <2>2, <2>3 DEF Atoms
    <3>2. QED
      BY <2>3, <3>1 DEF Alive
  <2>4. CASE i \notin struck
    BY <2>1, <2>4
  <2>5. QED
    BY <2>3, <2>4
<1>16. LivePlaces(new) = S \ C
  BY <1>1, <1>11, <1>14, <1>15 DEF LivePlaces
<1>17. \A i \in LivePlaces(new) : label[i] = LabelsOf(new)[i]
  <2>1. \A i \in DOMAIN atoms : label[i] = LabelsOf(new)[i]
    BY <1>5, <1>14, <1>15 DEF LabelsOf
  <2>2. QED
    BY <1>14, <2>1 DEF LivePlaces
<1>18. Spliced(text, op) = TextOf(new)
  BY <1>9, <1>14, <1>16, <1>17, ReadsText
<1>19. QED
  BY <1>2, <1>12, <1>18

\* With nothing there that it does not know of, an insert lands at its anchor.
LEMMA LandsAtAnchor ==
  ASSUME NEW atoms \in Seq(Atoms), NEW op \in Operations, KnowsAll(atoms, op), NEW rank
  PROVE  Landing(atoms, op, rank) = Anchor(atoms, op)
<1>1. PICK at : at = Landing(atoms, op, rank)
  OBVIOUS
<1>2. PICK anchor : anchor = Anchor(atoms, op)
  OBVIOUS
<1>3. LandsBehind(atoms, op, rank, at)
  BY <1>1, LandingBehind
<1>4. /\ Len(atoms) \in Nat /\ DOMAIN atoms = 1..Len(atoms)
  BY SequenceFacts
<1>5. anchor \in 0..Len(atoms)
  BY <1>2, AnchorProps
<1>6. at \in 0..Len(atoms) /\ anchor <= at
      /\ \A i \in (anchor + 1)..at : Stepped(atoms, op, rank, i)
  BY <1>2, <1>3 DEF LandsBehind
<1>7. SUFFICES ASSUME at # anchor PROVE FALSE
  BY <1>1, <1>2
<1>8. anchor + 1 \in (anchor + 1)..at /\ anchor + 1 \in DOMAIN atoms
  BY <1>4, <1>5, <1>6, <1>7
<1>9. Stepped(atoms, op, rank, anchor + 1)
  BY <1>6, <1>8
<1>10. QED
  BY <1>8, <1>9 DEF Stepped, KnowsAll

\* So does an insert.
LEMMA InsertSplices ==
  ASSUME NEW atoms \in Seq(Atoms), NEW op \in Operations, KnowsAll(atoms, op),
         op.kind = "insert", Fits(TextOf(atoms), op), NEW rank
  PROVE  TextOf(Edited(atoms, op, rank)) = Spliced(TextOf(atoms), op)
<1>1. PICK S \in SUBSET Nat : S = LivePlaces(atoms)
  BY LivePlacesType
<1>2. PICK text : text = TextOf(atoms)
  OBVIOUS
<1>3. PICK n : n = Len(text)
  OBVIOUS
<1>4. PICK q : q = Ascending(S)
  OBVIOUS
<1>5. Reads(text, q, n, S, LabelsOf(atoms))
  BY <1>1, <1>2, <1>3, <1>4, TextReads
<1>6. ReadOff(text, q, n, S, LabelsOf(atoms))
  BY <1>5, ReadsFacts
<1>7. /\ n \in Nat /\ text \in Texts /\ Len(text) = n
      /\ \A i \in 1..n : q[i] \in S /\ q[i] \in Nat /\ text[i] = LabelsOf(atoms)[q[i]]
      /\ \A i, j \in 1..n : i < j => q[i] < q[j]
      /\ \A x \in S : \E i \in 1..n : q[i] = x
  BY <1>6 DEF ReadOff
<1>8. PICK from \in Nat : from = op.from /\ from <= n
  BY <1>2, <1>3, OperationFacts DEF Fits
<1>9. PICK at : at = Landing(atoms, op, rank)
  OBVIOUS
<1>10. at = IF from = 0 THEN 0 ELSE q[from]
  <2>1. Visible(atoms, op) = q
    BY <1>1, <1>4, KnowsAllSees
  <2>2. Len(q) = n
    <3>1. n \in Nat /\ q \in [1..n -> S]
      BY <1>5 DEF Reads, Enumerates
    <3>2. q \in Seq(S)
      BY <3>1
    <3>3. QED
      BY <3>1, <3>2
  <2>3. Least2(op.from, n) = from
    BY <1>7, <1>8 DEF Least2
  <2>4. at = Anchor(atoms, op)
    BY <1>9, LandsAtAnchor
  <2>5. QED
    BY <2>1, <2>2, <2>3, <2>4 DEF Anchor, Offset
<1>11. PICK new : new = Edited(atoms, op, rank)
  OBVIOUS
<1>12. PICK w : w = Len(op.text)
  OBVIOUS
<1>13. at \in 0..Len(atoms)
  <2>1. Landing(atoms, op, rank) = Anchor(atoms, op)
    BY LandsAtAnchor
  <2>2. QED
    BY <1>9, <2>1, AnchorProps
<1>14. PutsIn(atoms, op, at, w, new)
  <2>1. new = PutIn(atoms, op, at)
    BY <1>9, <1>11, EditedAs
  <2>2. QED
    BY <1>12, <1>13, <2>1, PutInFacts
<1>15. /\ w \in Nat /\ Len(atoms) \in Nat /\ at \in Nat /\ new \in Seq(Atoms)
       /\ DOMAIN new = 1..(Len(atoms) + w) /\ DOMAIN atoms = 1..Len(atoms)
  BY <1>13, <1>14 DEF PutsIn
<1>16. \A i \in S : i \in DOMAIN atoms /\ Alive(atoms[i]) /\ i \in Nat
  BY <1>1, <1>15 DEF LivePlaces
\* Where the live atoms are now, and where the new ones.
<1>17. PICK e : e = [i \in S |-> IF i <= at THEN i ELSE i + w]
  OBVIOUS
<1>18. PICK T : T = {e[i] : i \in S}
  OBVIOUS
<1>19. PICK r : r = [i \in 1..n |-> e[q[i]]]
  OBVIOUS
<1>20. \A i \in S : e[i] \in DOMAIN new /\ e[i] \in Nat /\ new[e[i]] = atoms[i]
  <2>1. ASSUME NEW i \in S PROVE e[i] \in DOMAIN new /\ new[e[i]] = atoms[i]
    <3>1. /\ i <= at => i \in DOMAIN new /\ new[i] = atoms[i]
          /\ ~(i <= at) => i + w \in DOMAIN new /\ new[i + w] = atoms[i]
      BY <1>14, <1>16, ShiftedPlace
    <3>2. QED
      BY <1>17, <3>1
  <2>2. \A i \in DOMAIN new : i \in Nat
    BY <1>15
  <2>3. QED
    BY <2>1, <2>2
<1>21. T \in SUBSET Nat
  BY <1>18, <1>20
<1>22. \A i, j \in S : i < j => e[i] < e[j]
  BY <1>15, <1>16, <1>17
<1>23. Reads(text, r, n, T, LabelsOf(new))
  <2>1. r \in [1..n -> T]
    BY <1>7, <1>18, <1>19
  <2>2. \A i, j \in 1..n : i < j => r[i] < r[j]
    BY <1>7, <1>19, <1>22
  <2>3. ASSUME NEW x \in T PROVE \E i \in 1..n : r[i] = x
    <3>1. PICK y \in S : x = e[y]
      BY <1>18
    <3>2. PICK i \in 1..n : q[i] = y
      BY <1>7
    <3>3. QED
      BY <1>19, <3>1, <3>2
  <2>4. ASSUME NEW i \in 1..n PROVE text[i] = LabelsOf(new)[r[i]]
    <3>1. q[i] \in S /\ r[i] = e[q[i]] /\ text[i] = LabelsOf(atoms)[q[i]]
      BY <1>7, <1>19
    <3>2. new[r[i]] = atoms[q[i]] /\ r[i] \in DOMAIN new /\ q[i] \in DOMAIN atoms
      BY <1>16, <1>20, <3>1
    <3>3. QED
      BY <3>1, <3>2 DEF LabelsOf
  <2>5. QED
    BY <1>7, <2>1, <2>2, <2>3, <2>4 DEF Reads, Enumerates
<1>24. PICK b : b = [k \in 1..w |-> at + k]
  OBVIOUS
<1>25. PICK B : B = (at + 1)..(at + w)
  OBVIOUS
<1>26. Reads(op.text, b, w, B, LabelsOf(new)) /\ B \in SUBSET Nat
  <2>1. b \in [1..w -> B] /\ \A i, j \in 1..w : i < j => b[i] < b[j]
    BY <1>15, <1>24, <1>25
  <2>2. ASSUME NEW x \in B PROVE \E i \in 1..w : b[i] = x
    <3>1. x - at \in 1..w /\ at + (x - at) = x
      BY <1>15, <1>25
    <3>2. QED
      BY <1>24, <3>1
  <2>3. ASSUME NEW k \in 1..w PROVE op.text[k] = LabelsOf(new)[b[k]]
    <3>1. new[at + k].label = op.text[k]
      BY <1>14 DEF PutsIn
    <3>2. at + k \in DOMAIN new
      BY <1>13, <1>15
    <3>3. QED
      BY <1>24, <3>1, <3>2 DEF LabelsOf
  <2>4. op.text \in Texts
    BY OperationFacts
  <2>5. QED
    BY <1>12, <1>15, <1>25, <2>1, <2>2, <2>3, <2>4 DEF Reads, Enumerates
<1>27. ASSUME NEW i \in 1..n, NEW k \in 1..w
       PROVE  (i <= from => r[i] < b[k]) /\ (from < i => b[k] < r[i])
  <2>1. r[i] = e[q[i]] /\ b[k] = at + k /\ k \in Nat /\ 1 <= k /\ k <= w /\ q[i] \in Nat /\ q[i] \in S
    <3>1. r[i] = e[q[i]] /\ q[i] \in Nat /\ q[i] \in S
      BY <1>7, <1>19
    <3>2. b[k] = at + k
      BY <1>24
    <3>3. k \in Nat /\ 1 <= k /\ k <= w
      BY <1>15
    <3>4. QED
      BY <3>1, <3>2, <3>3
  <2>2. i \in Nat /\ 1 <= i /\ i <= n
    BY <1>7
  <2>3. ASSUME i <= from PROVE q[i] <= at
    <3>1. from # 0 /\ from \in 1..n
      BY <1>7, <1>8, <2>2, <2>3
    <3>2. i = from \/ q[i] < q[from]
      BY <1>7, <1>8, <2>2, <2>3, <3>1
    <3>3. q[from] \in Nat
      BY <1>7, <3>1
    <3>4. QED
      BY <1>10, <2>1, <3>1, <3>2, <3>3
  <2>4. ASSUME from < i PROVE at < q[i]
    <3>1. CASE from = 0
      <4>1. q[i] # 0
        BY <1>15, <1>16, <2>1
      <4>2. QED
        BY <1>10, <2>1, <3>1, <4>1
    <3>2. CASE from # 0
      <4>1. from \in 1..n
        BY <1>7, <1>8, <3>2
      <4>2. q[from] < q[i]
        BY <1>7, <2>4, <4>1
      <4>3. QED
        BY <1>10, <3>2, <4>2
    <3>3. QED
      BY <3>1, <3>2
  <2>5. e[q[i]] = IF q[i] <= at THEN q[i] ELSE q[i] + w
    BY <1>17, <2>1
  <2>6. ASSUME i <= from PROVE r[i] < b[k]
    BY <1>15, <2>1, <2>3, <2>5, <2>6
  <2>7. ASSUME from < i PROVE b[k] < r[i]
    <3>1. at < q[i] /\ ~(q[i] <= at)
      BY <1>15, <2>1, <2>4, <2>7
    <3>2. QED
      BY <1>15, <2>1, <2>5, <3>1
  <2>8. QED
    BY <2>6, <2>7
<1>28. \E s, m : Reads(Spliced(text, op), s, m, T \cup B, LabelsOf(new))
  <2>1. op.from \in Nat /\ op.from <= n
    BY <1>8
  <2>2. \A i \in 1..n : \A k \in 1..w :
            (i <= op.from => r[i] < b[k]) /\ (op.from < i => b[k] < r[i])
    BY <1>8, <1>27
  <2>3. QED
    BY <1>21, <1>23, <1>26, <2>1, <2>2, PutReads
<1>29. LivePlaces(new) = T \cup B
  <2>1. ASSUME NEW p \in LivePlaces(new) PROVE p \in T \cup B
    <3>1. p \in DOMAIN new /\ Alive(new[p])
      BY DEF LivePlaces
    <3>2. \/ p \in DOMAIN atoms /\ p <= at /\ new[p] = atoms[p]
          \/ at < p /\ p <= at + w
          \/ at + w < p /\ p - w \in DOMAIN atoms /\ at < p - w /\ new[p] = atoms[p - w]
      BY <1>14, <3>1, Stretches
    <3>3. p \in Nat
      BY <1>15, <3>1
    <3>4. CASE p \in DOMAIN atoms /\ p <= at /\ new[p] = atoms[p]
      <4>1. p \in S
        BY <1>1, <3>1, <3>4 DEF LivePlaces
      <4>2. e[p] = p
        BY <1>17, <3>4, <4>1
      <4>3. QED
        BY <1>18, <4>1, <4>2
    <3>5. CASE at < p /\ p <= at + w
      BY <1>15, <1>25, <3>3, <3>5
    <3>6. CASE at + w < p /\ p - w \in DOMAIN atoms /\ at < p - w /\ new[p] = atoms[p - w]
      <4>1. p - w \in S
        BY <1>1, <3>1, <3>6 DEF LivePlaces
      <4>2. ~(p - w <= at) /\ (p - w) + w = p
        BY <1>15, <3>3, <3>6
      <4>3. e[p - w] = p
        BY <1>17, <4>1, <4>2
      <4>4. QED
        BY <1>18, <4>1, <4>3
    <3>7. QED
      BY <3>2, <3>4, <3>5, <3>6
  <2>2. ASSUME NEW p \in T PROVE p \in LivePlaces(new)
    <3>1. PICK i \in S : p = e[i]
      BY <1>18
    <3>2. QED
      BY <1>16, <1>20, <3>1 DEF LivePlaces
  <2>3. ASSUME NEW p \in B PROVE p \in LivePlaces(new)
    <3>1. p - at \in 1..w /\ at + (p - at) = p /\ p \in DOMAIN new
      BY <1>13, <1>15, <1>25
    <3>2. ~new[at + (p - at)].dead /\ new[at + (p - at)].gone = {}
      BY <1>14, <3>1 DEF PutsIn
    <3>3. QED
      BY <3>1, <3>2 DEF LivePlaces, Alive
  <2>4. QED
    BY <2>1, <2>2, <2>3
<1>30. Spliced(text, op) = TextOf(new)
  BY <1>15, <1>28, <1>29, ReadsText
<1>31. QED
  BY <1>2, <1>11, <1>30

-----------------------------------------------------------------------------
(* A batch of edits, each observing all before it.                         *)

\* What has been done to the atoms, operations of K did.
DoneBy(atoms, K) == \A i \in DOMAIN atoms : atoms[i].by \in K \cup {Base} /\ atoms[i].gone \subseteq K

\* An edit adds nobody but its operation.
LEMMA EditedDoneBy ==
  ASSUME NEW atoms \in Seq(Atoms), NEW K, DoneBy(atoms, K), NEW op \in Operations, NEW rank
  PROVE  Edited(atoms, op, rank) \in Seq(Atoms) /\ DoneBy(Edited(atoms, op, rank), K \cup {op})
<1>1. PICK new : new = Edited(atoms, op, rank)
  OBVIOUS
<1>2. CASE op.kind = "insert"
  <2>1. PICK at : at = Landing(atoms, op, rank)
    OBVIOUS
  <2>2. at \in 0..Len(atoms)
    BY <2>1, LandingBehind DEF LandsBehind
  <2>3. PICK w : w = Len(op.text)
    OBVIOUS
  <2>4. PutsIn(atoms, op, at, w, new)
    <3>1. new = PutIn(atoms, op, at)
      BY <1>1, <1>2, <2>1, EditedAs
    <3>2. QED
      BY <2>2, <2>3, <3>1, PutInFacts
  <2>5. ASSUME NEW i \in DOMAIN new
        PROVE  new[i].by \in K \cup {op} \cup {Base} /\ new[i].gone \subseteq K \cup {op}
    <3>1. \/ i \in DOMAIN atoms /\ new[i] = atoms[i]
          \/ new[i].by = op /\ new[i].gone = {}
          \/ i - w \in DOMAIN atoms /\ new[i] = atoms[i - w]
      BY <2>4, Stretches
    <3>2. QED
      BY <3>1 DEF DoneBy
  <2>6. new \in Seq(Atoms)
    BY <2>4 DEF PutsIn
  <2>7. QED
    BY <1>1, <2>5, <2>6 DEF DoneBy
<1>3. CASE op.kind # "insert"
  <2>1. PICK struck : struck = StruckBy(atoms, op)
    OBVIOUS
  <2>2. new = Struck(atoms, op, struck)
    BY <1>1, <1>3, <2>1, EditedAs
  <2>3. new \in Seq(Atoms) /\ DOMAIN new = DOMAIN atoms
    BY <2>2, StruckProps
  <2>4. ASSUME NEW i \in DOMAIN new
        PROVE  new[i].by \in K \cup {op} \cup {Base} /\ new[i].gone \subseteq K \cup {op}
    <3>1. new[i] = IF i \in struck THEN [atoms[i] EXCEPT !.gone = @ \cup {op}] ELSE atoms[i]
      BY <2>2, <2>3 DEF Struck
    <3>2. atoms[i] \in Atoms
      BY <2>3, SequenceFacts
    <3>3. new[i].by = atoms[i].by /\ new[i].gone \subseteq atoms[i].gone \cup {op}
      BY <3>1, <3>2 DEF Atoms
    <3>4. QED
      BY <2>3, <3>3 DEF DoneBy
  <2>5. QED
    BY <1>1, <2>3, <2>4 DEF DoneBy
<1>4. QED
  BY <1>2, <1>3

\* Each operation of a batch observes what there was, and those before it.
Batch(new, n, K) ==
    /\ n \in Nat /\ new \in Seq(Operations) /\ Len(new) = n
    /\ \A i \in 1..n : \A o \in K : Observes(new[i], o) /\ ~Observes(o, new[i]) /\ o # new[i]
    /\ \A i, j \in 1..n : Observes(new[i], new[j]) <=> j < i

\* What SplicedBy iterates.
Splicings(f, N, text, batch) ==
    f = [n \in 0..N |-> IF n = 0 THEN text ELSE Spliced(f[n - 1], batch[n])]

\* Splicing goes on for any number of steps.
LEMMA SplicingIsDefined ==
  ASSUME NEW text, NEW batch
  PROVE  \A N \in Nat : \E f : Splicings(f, N, text, batch)
<1> DEFINE T == {N \in Nat : \E f : Splicings(f, N, text, batch)}
<1>1. 0 \in T
  <2>1. Splicings([n \in 0..0 |-> text], 0, text, batch)
    BY DEF Splicings
  <2>2. QED
    BY <2>1
<1>2. ASSUME NEW N \in Nat, N \in T PROVE N + 1 \in T
  <2>1. PICK f : Splicings(f, N, text, batch)
    BY <1>2
  <2>2. PICK M : M = N + 1
    OBVIOUS
  <2>3. PICK g : g = [n \in 0..M |-> IF n = M THEN Spliced(f[N], batch[M]) ELSE f[n]]
    OBVIOUS
  <2>4. ASSUME NEW n \in 0..M
        PROVE  g[n] = IF n = 0 THEN text ELSE Spliced(g[n - 1], batch[n])
    <3>1. CASE n = M
      <4>1. g[n - 1] = f[N] /\ g[n] = Spliced(f[N], batch[M]) /\ n # 0
        BY <2>2, <2>3, <3>1
      <4>2. QED
        BY <3>1, <4>1
    <3>2. CASE n = 0
      BY <2>1, <2>2, <2>3, <3>2 DEF Splicings
    <3>3. CASE n \in 1..N
      <4>1. g[n] = f[n] /\ g[n - 1] = f[n - 1] /\ n \in 0..N /\ n # 0
        BY <2>2, <2>3, <3>3
      <4>2. f[n] = Spliced(f[n - 1], batch[n])
        BY <2>1, <4>1 DEF Splicings
      <4>3. QED
        BY <4>1, <4>2
    <3>4. QED
      BY <2>2, <3>1, <3>2, <3>3
  <2>5. g = [n \in 0..M |-> IF n = 0 THEN text ELSE Spliced(g[n - 1], batch[n])]
    BY <2>3, <2>4
  <2>6. Splicings(g, M, text, batch)
    BY <2>5 DEF Splicings
  <2>7. QED
    BY <2>2, <2>6
<1> HIDE DEF T
<1>3. \A N \in Nat : N \in T
  BY <1>1, <1>2, SetInduction
<1>4. QED
  BY <1>3 DEF T

\* SplicedBy, as the last of its steps.
LEMMA SplicedByAs ==
  ASSUME NEW text, NEW batch, NEW N \in Nat, Len(batch) = N
  PROVE  \E f : Splicings(f, N, text, batch) /\ SplicedBy(text, batch) = f[N]
<1>1. PICK f : f = CHOOSE g : Splicings(g, N, text, batch)
  OBVIOUS
<1>2. Splicings(f, N, text, batch)
  BY <1>1, SplicingIsDefined
<1>3. SplicedBy(text, batch) = f[N]
  BY <1>1 DEF SplicedBy, Splicings
<1>4. QED
  BY <1>2, <1>3

\* There is one sequence of texts.
LEMMA SplicingsAgree ==
  ASSUME NEW text, NEW batch, NEW N \in Nat, NEW f, Splicings(f, N, text, batch),
         NEW g, Splicings(g, N, text, batch)
  PROVE  \A n \in 0..N : f[n] = g[n]
<1> DEFINE T == {n \in Nat : n <= N => f[n] = g[n]}
<1>1. 0 \in T
  BY DEF Splicings
<1>2. ASSUME NEW n \in Nat, n \in T PROVE n + 1 \in T
  <2>1. SUFFICES ASSUME n + 1 <= N PROVE f[n + 1] = g[n + 1]
    OBVIOUS
  <2>2. n + 1 \in 0..N /\ n + 1 # 0 /\ (n + 1) - 1 = n /\ n <= N
    BY <2>1
  <2>3. f[n] = g[n]
    BY <1>2, <2>2
  <2>4. f[n + 1] = Spliced(f[n], batch[n + 1]) /\ g[n + 1] = Spliced(g[n], batch[n + 1])
    BY <2>2 DEF Splicings
  <2>5. QED
    BY <2>3, <2>4
<1>3. \A n \in Nat : n \in T
  BY <1>1, <1>2, SetInduction
<1>4. QED
  BY <1>3

\* Each edit of a batch does to the text what it says.
LEMMA BatchSplices ==
  ASSUME NEW atoms \in Seq(Atoms), NEW K, DoneBy(atoms, K), NEW new, NEW n, Batch(new, n, K),
         \A k \in 1..n : new[k].kind \in {"insert", "delete"},
         NEW rank, NEW g, Iterated(g, n, atoms, new, rank),
         NEW f, Splicings(f, n, TextOf(atoms), new), \A k \in 1..n : Fits(f[k - 1], new[k])
  PROVE  TextOf(g[n]) = f[n]
<1> DEFINE P(k) == /\ g[k] \in Seq(Atoms) /\ DoneBy(g[k], K \cup Firsts(new, k))
                   /\ TextOf(g[k]) = f[k]
           T == {k \in Nat : k <= n => P(k)}
<1>1. 0 \in T
  <2>1. g[0] = atoms /\ f[0] = TextOf(atoms)
    BY DEF Batch, Iterated, Splicings
  <2>2. Firsts(new, 0) = {}
    BY FirstsProps
  <2>3. QED
    BY <2>1, <2>2
<1>2. ASSUME NEW k \in Nat, k \in T PROVE k + 1 \in T
  <2>1. SUFFICES ASSUME k + 1 <= n PROVE P(k + 1)
    OBVIOUS
  <2>2. PICK m : m = k + 1
    OBVIOUS
  <2>3. n \in Nat
    BY DEF Batch
  <2>4. m \in 0..n /\ m \in 1..n /\ m # 0 /\ m - 1 = k /\ k <= n
    BY <2>1, <2>2, <2>3
  <2>5. PICK R : R = g[k]
    OBVIOUS
  <2>6. PICK D : D = K \cup Firsts(new, k)
    OBVIOUS
  <2>7. PICK op : op = new[m]
    OBVIOUS
  <2>8. R \in Seq(Atoms) /\ DoneBy(R, D) /\ TextOf(R) = f[k]
    BY <1>2, <2>4, <2>5, <2>6
  <2>9. op \in Operations /\ op.kind \in {"insert", "delete"}
    <3>1. \A i \in 1..n : new[i] \in Operations
      BY DEF Batch
    <3>2. QED
      BY <2>4, <2>7, <3>1
  <2>10. g[m] = Edited(R, op, rank) /\ f[m] = Spliced(f[k], op)
    BY <2>4, <2>5, <2>7 DEF Iterated, Splicings
  <2>11. \A x \in D : Observes(op, x)
    <3>1. \A x \in K : Observes(op, x)
      BY <2>4, <2>7 DEF Batch
    <3>2. ASSUME NEW i \in 1..k PROVE Observes(op, new[i])
      <4>1. i \in 1..n /\ i < m
        BY <2>2, <2>3, <2>4
      <4>2. QED
        BY <2>4, <2>7, <4>1 DEF Batch
    <3>3. QED
      BY <2>6, <3>1, <3>2 DEF Firsts
  <2>12. KnowsAll(R, op)
    BY <2>8, <2>11 DEF KnowsAll, DoneBy
  <2>13. Fits(TextOf(R), op)
    BY <2>4, <2>7, <2>8
  <2>14. TextOf(Edited(R, op, rank)) = Spliced(TextOf(R), op)
    BY <2>8, <2>9, <2>12, <2>13, InsertSplices, DeleteSplices
  <2>15. g[m] \in Seq(Atoms) /\ DoneBy(g[m], D \cup {op})
    BY <2>8, <2>9, <2>10, EditedDoneBy
  <2>16. D \cup {op} = K \cup Firsts(new, m)
    <3>1. Firsts(new, m) = Firsts(new, k) \cup {new[m]}
      BY <2>2, FirstsProps
    <3>2. QED
      BY <2>6, <2>7, <3>1
  <2>17. QED
    BY <2>2, <2>8, <2>10, <2>14, <2>15, <2>16
<1>3. \A k \in Nat : k \in T
  BY <1>1, <1>2, SetInduction
<1>4. n \in Nat /\ n <= n
  BY DEF Batch
<1>5. n \in T
  BY <1>3, <1>4
<1> HIDE DEF P
<1>6. P(n)
  BY <1>4, <1>5
<1>7. QED
  BY <1>6 DEF P

-----------------------------------------------------------------------------
(* The causal order of what was known, and a batch.                        *)

\* A sequence of n different newcomers adds n to a set.
LEMMA NewcomersCounted ==
  ASSUME NEW set, IsFiniteSet(set), NEW new, NEW n \in Nat,
         \A i, j \in 1..n : new[i] = new[j] => i = j, \A i \in 1..n : new[i] \notin set
  PROVE  /\ IsFiniteSet(set \cup Firsts(new, n))
         /\ Cardinality(set \cup Firsts(new, n)) = Cardinality(set) + n
         /\ Cardinality(set) \in Nat
<1>1. PICK T : T = Firsts(new, n)
  OBVIOUS
<1>2. PICK f : f = [i \in 1..n |-> new[i]]
  OBVIOUS
<1>3. f \in Bijection(1..n, T)
  <2>1. f \in [1..n -> T] /\ \A t \in T : \E i \in 1..n : f[i] = t
    BY <1>1, <1>2 DEF Firsts
  <2>2. \A i, j \in 1..n : f[i] = f[j] => i = j
    BY <1>2
  <2>3. QED
    BY <2>1, <2>2 DEF Bijection, Injection, Surjection, IsInjective
<1>4. IsFiniteSet(1..n) /\ Cardinality(1..n) = n
  BY FS_Interval
<1>5. IsFiniteSet(T) /\ Cardinality(T) = n
  BY <1>3, <1>4, FS_Bijection DEF ExistsBijection
<1>6. set \cap T = {}
  BY <1>1 DEF Firsts
<1>7. /\ IsFiniteSet(set \cup T)
      /\ Cardinality(set \cup T) = Cardinality(set) + Cardinality(T) - Cardinality(set \cap T)
  BY <1>5, FS_Union
<1>8. Cardinality(set \cap T) = 0 /\ Cardinality(set) \in Nat
  BY <1>6, FS_EmptySet, FS_CardinalityType
<1>9. QED
  BY <1>1, <1>5, <1>7, <1>8

\* What CausalOrder iterates.
Ordering(f, set) ==
    f = [n \in 0..Cardinality(set) |->
            IF n = 0 THEN <<>> ELSE Append(f[n - 1], NextReady(set, Range(f[n - 1])))]

\* The causal order, as the last of its steps.
LEMMA CausalOrderIs ==
  ASSUME NEW set, Orderable(set)
  PROVE  /\ Cardinality(set) \in Nat
         /\ \E f : /\ Ordering(f, set) /\ CausalOrder(set) = f[Cardinality(set)]
                   /\ \A n \in 0..Cardinality(set) : Begins(f[n], set, n)
<1>1. PICK N \in Nat : N = Cardinality(set)
  BY FS_CardinalityType DEF Orderable
<1>2. PICK f : f = CHOOSE g : Ordering(g, set)
  OBVIOUS
<1>3. Ordering(f, set)
  <2>1. \E g : Ordering(g, set)
    BY <1>1, OrderIsDefined DEF Ordering
  <2>2. QED
    BY <1>2, <2>1
<1>4. CausalOrder(set) = f[N]
  BY <1>1, <1>2 DEF CausalOrder, NextReady, Ready, Ordering
<1> DEFINE T == {n \in Nat : n <= N => Begins(f[n], set, n)}
<1>5. 0 \in T
  <2>1. f[0] = <<>>
    BY <1>1, <1>3 DEF Ordering
  <2>2. Begins(<<>>, set, 0)
    BY DEF Begins
  <2>3. QED
    BY <2>1, <2>2
<1>6. ASSUME NEW n \in Nat, n \in T PROVE n + 1 \in T
  <2>1. SUFFICES ASSUME n + 1 <= N PROVE Begins(f[n + 1], set, n + 1)
    OBVIOUS
  <2>2. n + 1 \in 0..N /\ n + 1 # 0 /\ (n + 1) - 1 = n /\ n <= N /\ n < N
    BY <1>1, <2>1
  <2>3. Begins(f[n], set, n)
    BY <1>6, <2>2
  <2>4. f[n + 1] = Append(f[n], NextReady(set, Range(f[n])))
    BY <1>1, <1>3, <2>2 DEF Ordering
  <2>5. QED
    BY <1>1, <2>2, <2>3, <2>4, BeginsFurther
<1> HIDE DEF T
<1>7. \A n \in Nat : n \in T
  BY <1>5, <1>6, SetInduction
<1>8. \A n \in 0..N : Begins(f[n], set, n)
  BY <1>7 DEF T
<1>9. QED
  BY <1>1, <1>3, <1>4, <1>8

\* Before the end something is missing.
LEMMA NotAllYet ==
  ASSUME NEW set, IsFiniteSet(set), NEW n \in Nat, n < Cardinality(set),
         NEW order, Begins(order, set, n)
  PROVE  Range(order) \in SUBSET set /\ Range(order) # set
<1>1. order \in Seq(set) /\ Len(order) = n
  BY DEF Begins
<1>2. Range(order) \in SUBSET set /\ Range(order) = {order[i] : i \in 1..n}
  BY <1>1, RangeOfSeq, RangeEquality
<1>3. order \in [1..n -> Range(order)] /\ \A y \in Range(order) : \E i \in 1..n : order[i] = y
  BY <1>1, <1>2
<1>4. order \in Surjection(1..n, Range(order))
  BY <1>3 DEF Surjection
<1>5. IsFiniteSet(1..n) /\ Cardinality(1..n) = n
  BY FS_Interval
<1>6. Cardinality(Range(order)) <= n
  BY <1>4, <1>5, FS_Surjection
<1>7. Cardinality(set) \in Nat
  BY FS_CardinalityType
<1>8. QED
  BY <1>2, <1>6, <1>7

\* While not all that was known is through, no operation of the batch is ready.
LEMMA KnownComeFirst ==
  ASSUME NEW K, NEW new, NEW n, Batch(new, n, K), NEW all, all = K \cup Firsts(new, n),
         NEW done \in SUBSET K, done # K
  PROVE  NextReady(all, done) = NextReady(K, done)
<1>1. PICK o \in K : o \notin done
  OBVIOUS
<1>2. \A x : x \in Firsts(new, n) <=> \E i \in 1..n : x = new[i]
  BY DEF Firsts
<1>3. ASSUME NEW x \in Firsts(new, n) PROVE x \notin Ready(all, done) /\ x \notin K
  <2>1. PICK i \in 1..n : x = new[i]
    BY <1>2
  <2>2. Observes(x, o) /\ o \in all /\ x \notin K
    BY <2>1 DEF Batch
  <2>3. QED
    BY <1>1, <2>2 DEF Ready
<1>4. ASSUME NEW x \in K PROVE x \in Ready(all, done) <=> x \in Ready(K, done)
  <2>1. \A y \in Firsts(new, n) : ~Observes(x, y)
    BY <1>2 DEF Batch
  <2>2. QED
    BY <2>1 DEF Ready
<1>5. Ready(all, done) = Ready(K, done)
  BY <1>3, <1>4 DEF Ready
<1>6. QED
  BY <1>5 DEF NextReady

\* Then they come one after the other.
LEMMA BatchComesInOrder ==
  ASSUME NEW K, NEW new, NEW n, Batch(new, n, K), NEW all, all = K \cup Firsts(new, n),
         NEW k \in 1..n, NEW done, done = K \cup Firsts(new, k - 1)
  PROVE  NextReady(all, done) = new[k]
<1>1. n \in Nat /\ k \in Nat
  BY DEF Batch
<1>2. /\ \A x : x \in Firsts(new, n) <=> \E i \in 1..n : x = new[i]
      /\ \A x : x \in Firsts(new, k - 1) <=> \E i \in 1..(k - 1) : x = new[i]
  BY DEF Firsts
<1>3. \A i \in 1..(k - 1) : i \in 1..n /\ i < k
  BY <1>1
<1>4. new[k] \in Ready(all, done)
  <2>1. new[k] \in all
    BY <1>2
  <2>2. new[k] \notin done
    <3>1. new[k] \notin K
      BY DEF Batch
    <3>2. ASSUME NEW i \in 1..(k - 1) PROVE new[k] # new[i]
      <4>1. Observes(new[k], new[i]) /\ ~Observes(new[i], new[i])
        BY <1>1, <1>3 DEF Batch
      <4>2. QED
        BY <4>1
    <3>3. QED
      BY <1>2, <3>1, <3>2
  <2>3. ASSUME NEW y \in all, Observes(new[k], y) PROVE y \in done
    <3>1. CASE y \in K
      BY <3>1
    <3>2. CASE y \notin K
      <4>1. PICK i \in 1..n : y = new[i]
        BY <1>2, <3>2
      <4>2. i < k
        BY <2>3, <4>1 DEF Batch
      <4>3. i \in 1..(k - 1)
        BY <1>1, <4>2
      <4>4. QED
        BY <1>2, <4>1, <4>3
    <3>3. QED
      BY <3>1, <3>2
  <2>4. QED
    BY <2>1, <2>2, <2>3 DEF Ready
<1>5. ASSUME NEW x \in Ready(all, done) PROVE x = new[k]
  <2>1. x \in all /\ x \notin done /\ \A y \in all : Observes(x, y) => y \in done
    BY DEF Ready
  <2>2. PICK i \in 1..n : x = new[i]
    BY <1>2, <2>1
  <2>3. i \notin 1..(k - 1)
    BY <1>2, <2>1, <2>2
  <2>4. CASE k < i
    <3>1. Observes(x, new[k])
      BY <2>2, <2>4 DEF Batch
    <3>2. new[k] \in done
      BY <1>4, <2>1, <3>1 DEF Ready
    <3>3. QED
      BY <1>4, <3>2 DEF Ready
  <2>5. CASE ~(k < i)
    <3>1. i = k
      BY <1>1, <2>3, <2>5
    <3>2. QED
      BY <2>2, <3>1
  <2>6. QED
    BY <2>4, <2>5
<1>6. Ready(all, done) = {new[k]}
  BY <1>4, <1>5
<1>7. QED
  BY <1>6 DEF NextReady

\* A sequence that goes on behind another with the first n of a third.
GoesOn(order, before, new, n) ==
    /\ Len(before) \in Nat /\ n \in Nat /\ Len(order) = Len(before) + n
    /\ \A i \in 1..Len(before) : order[i] = before[i]
    /\ \A i \in 1..n : order[Len(before) + i] = new[i]

\* One more of the batch goes on the order.
LEMMA GoesOnFurther ==
  ASSUME NEW T, NEW order \in Seq(T), NEW before, NEW new, NEW n, GoesOn(order, before, new, n)
  PROVE  GoesOn(Append(order, new[n + 1]), before, new, n + 1)
<1>1. PICK c \in Nat : c = Len(before)
  BY DEF GoesOn
<1>2. n \in Nat /\ Len(order) = c + n
  BY <1>1 DEF GoesOn
<1>3. PICK m \in Nat : m = n + 1
  BY <1>2
<1>4. PICK longer : longer = Append(order, new[m])
  OBVIOUS
<1>5. Len(longer) = c + m /\ longer[c + m] = new[m] /\ \A i \in 1..(c + n) : longer[i] = order[i]
  <2>1. /\ Len(Append(order, new[m])) = Len(order) + 1
        /\ Append(order, new[m])[Len(order) + 1] = new[m]
        /\ \A i \in 1..Len(order) : Append(order, new[m])[i] = order[i]
    <3>1. order \in Seq(T \cup {new[m]}) /\ new[m] \in T \cup {new[m]}
      <4>1. order \in [1..Len(order) -> T] /\ Len(order) \in Nat
        OBVIOUS
      <4>2. QED
        BY <4>1
    <3>2. QED
      BY <3>1, AppendProperties
  <2>2. (c + n) + 1 = c + m
    BY <1>2, <1>3
  <2>3. QED
    BY <1>2, <1>4, <2>1, <2>2
<1>6. (\A i \in 1..c : i \in 1..(c + n)) /\ \A i \in 1..n : c + i \in 1..(c + n)
  BY <1>2
<1>7. \A i \in 1..m : i \in 1..n \/ i = m
  BY <1>2, <1>3
<1>8. GoesOn(longer, before, new, m)
  BY <1>1, <1>2, <1>3, <1>5, <1>6, <1>7 DEF GoesOn
<1>9. QED
  BY <1>3, <1>4, <1>8

\* The members of a sequence that goes on.
LEMMA GoesOnRange ==
  ASSUME NEW T, NEW order \in Seq(T), NEW S, NEW before \in Seq(S), NEW new, NEW n,
         GoesOn(order, before, new, n)
  PROVE  Range(order) = Range(before) \cup Firsts(new, n)
<1>1. PICK c \in Nat : c = Len(before)
  BY DEF GoesOn
<1>2. n \in Nat /\ DOMAIN order = 1..(c + n) /\ DOMAIN before = 1..c
  BY <1>1 DEF GoesOn
<1>3. /\ \A i \in 1..c : order[i] = before[i]
      /\ \A i \in 1..n : order[c + i] = new[i]
  BY <1>1 DEF GoesOn
<1>4. (\A i \in 1..c : i \in 1..(c + n)) /\ \A i \in 1..n : c + i \in 1..(c + n)
  BY <1>2
<1>5. ASSUME NEW i \in 1..(c + n) PROVE i \in 1..c \/ \E j \in 1..n : i = c + j
  <2>1. CASE i <= c
    BY <1>1, <2>1
  <2>2. CASE ~(i <= c)
    <3>1. i - c \in 1..n /\ i = c + (i - c)
      BY <1>1, <1>2, <2>2
    <3>2. QED
      BY <3>1
  <2>3. QED
    BY <2>1, <2>2
<1>6. Range(order) = {order[i] : i \in 1..(c + n)} /\ Range(before) = {before[i] : i \in 1..c}
      /\ Firsts(new, n) = {new[i] : i \in 1..n}
  BY <1>2 DEF Range, Firsts
<1>7. ASSUME NEW x \in Range(order) PROVE x \in Range(before) \cup Firsts(new, n)
  <2>1. PICK i \in 1..(c + n) : x = order[i]
    BY <1>6
  <2>2. QED
    BY <1>3, <1>5, <1>6, <2>1
<1>8. ASSUME NEW x \in Range(before) \cup Firsts(new, n) PROVE x \in Range(order)
  BY <1>3, <1>4, <1>6
<1>9. QED
  BY <1>7, <1>8

\* causal_order puts a batch behind all that it observes, in its order.
LEMMA OrderGoesOn ==
  ASSUME NEW K, Orderable(K), NEW new, NEW n, Batch(new, n, K),
         NEW all, all = K \cup Firsts(new, n), Orderable(all)
  PROVE  GoesOn(CausalOrder(all), CausalOrder(K), new, n)
<1>1. n \in Nat
  BY DEF Batch
<1>2. PICK c \in Nat : c = Cardinality(K)
  BY CausalOrderIs
<1>3. Cardinality(all) = c + n
  <2>1. \A i, j \in 1..n : new[i] = new[j] => i = j
    <3>1. ASSUME NEW i \in 1..n, NEW j \in 1..n, new[i] = new[j], i < j PROVE FALSE
      <4>1. Observes(new[j], new[i]) /\ ~Observes(new[j], new[j])
        BY <1>1, <3>1 DEF Batch
      <4>2. QED
        BY <3>1, <4>1
    <3>2. \A i, j \in 1..n : i = j \/ i < j \/ j < i
      BY <1>1
    <3>3. QED
      BY <3>1, <3>2
  <2>2. \A i \in 1..n : new[i] \notin K
    BY DEF Batch
  <2>3. IsFiniteSet(K)
    BY DEF Orderable
  <2>4. QED
    BY <1>1, <1>2, <2>1, <2>2, <2>3, NewcomersCounted
<1>4. PICK f : /\ Ordering(f, K) /\ CausalOrder(K) = f[c]
               /\ \A m \in 0..c : Begins(f[m], K, m)
  BY <1>2, CausalOrderIs
<1>5. PICK h : /\ Ordering(h, all) /\ CausalOrder(all) = h[c + n]
               /\ \A m \in 0..(c + n) : Begins(h[m], all, m)
  BY <1>3, CausalOrderIs
<1>6. \A m \in 0..c : h[m] = f[m]
  <2> DEFINE T == {m \in Nat : m <= c => h[m] = f[m]}
  <2>1. 0 \in T
    BY <1>1, <1>2, <1>3, <1>4, <1>5 DEF Ordering
  <2>2. ASSUME NEW k \in Nat, k \in T PROVE k + 1 \in T
    <3>1. SUFFICES ASSUME k + 1 <= c PROVE h[k + 1] = f[k + 1]
      OBVIOUS
    <3>2. PICK m : m = k + 1
      OBVIOUS
    <3>3. m \in 0..c /\ m \in 0..(c + n) /\ m # 0 /\ m - 1 = k /\ k < c /\ k \in 0..c
      BY <1>1, <3>1, <3>2
    <3>4. h[k] = f[k]
      BY <2>2, <3>3
    <3>5. PICK done : done = Range(f[k])
      OBVIOUS
    <3>6. done \in SUBSET K /\ done # K
      <4>1. Begins(f[k], K, k)
        BY <1>4, <3>3
      <4>2. QED
        BY <1>2, <3>3, <3>5, <4>1, NotAllYet DEF Orderable
    <3>7. NextReady(all, done) = NextReady(K, done)
      BY <3>6, KnownComeFirst
    <3>8. f[m] = Append(f[k], NextReady(K, done))
      BY <1>2, <1>4, <3>3, <3>5 DEF Ordering
    <3>9. h[m] = Append(f[k], NextReady(all, done))
      BY <1>3, <1>5, <3>3, <3>4, <3>5 DEF Ordering
    <3>10. QED
      BY <3>2, <3>7, <3>8, <3>9
  <2> HIDE DEF T
  <2>3. \A m \in Nat : m \in T
    BY <2>1, <2>2, SetInduction
  <2>4. QED
    BY <2>3 DEF T
<1>7. PICK before : before = f[c]
  OBVIOUS
<1>8. before \in Seq(K) /\ Len(before) = c /\ Range(before) = K
  <2>1. Begins(before, K, c)
    BY <1>4, <1>7
  <2>2. Linearizes(before, K)
    BY <1>4, <1>7, CausalOrderProps
  <2>3. QED
    BY <2>1, <2>2 DEF Begins, Linearizes
<1> DEFINE T == {j \in Nat : j <= n => GoesOn(h[c + j], before, new, j)}
<1>9. 0 \in T
  <2>1. h[c + 0] = before
    BY <1>6, <1>7
  <2>2. GoesOn(before, before, new, 0)
    BY <1>8 DEF GoesOn
  <2>3. QED
    BY <2>1, <2>2
<1>10. ASSUME NEW j \in Nat, j \in T PROVE j + 1 \in T
  <2>1. SUFFICES ASSUME j + 1 <= n PROVE GoesOn(h[c + (j + 1)], before, new, j + 1)
    OBVIOUS
  <2>2. PICK k : k = j + 1
    OBVIOUS
  <2>3. k \in 1..n /\ k - 1 = j /\ j <= n
    BY <1>1, <2>1, <2>2
  <2>4. PICK m : m = c + k
    OBVIOUS
  <2>5. m \in 0..(c + n) /\ m # 0 /\ m - 1 = c + j /\ c + j \in 0..(c + n)
    BY <1>1, <2>2, <2>3, <2>4
  <2>6. PICK order : order = h[c + j]
    OBVIOUS
  <2>7. GoesOn(order, before, new, j)
    BY <1>10, <2>3, <2>6
  <2>8. order \in Seq(all)
    <3>1. Begins(order, all, c + j)
      BY <1>5, <2>5, <2>6
    <3>2. QED
      BY <3>1 DEF Begins
  <2>9. Range(order) = K \cup Firsts(new, j)
    BY <1>8, <2>7, <2>8, GoesOnRange
  <2>10. h[m] = Append(order, NextReady(all, Range(order)))
    BY <1>3, <1>5, <2>5, <2>6 DEF Ordering
  <2>11. NextReady(all, Range(order)) = new[k]
    BY <2>3, <2>9, BatchComesInOrder
  <2>12. h[m] = Append(order, new[j + 1])
    BY <2>2, <2>10, <2>11
  <2>13. GoesOn(Append(order, new[j + 1]), before, new, j + 1)
    BY <2>7, <2>8, GoesOnFurther
  <2>14. QED
    BY <2>2, <2>4, <2>12, <2>13
<1> HIDE DEF T
<1>11. \A j \in Nat : j \in T
  BY <1>9, <1>10, SetInduction
<1>12. GoesOn(h[c + n], before, new, n)
  BY <1>1, <1>11 DEF T
<1>13. QED
  BY <1>4, <1>5, <1>7, <1>12

-----------------------------------------------------------------------------
(* The merge of what was known, and a batch.                               *)

\* Only the ranks of what has been done matter to an edit.
LEMMA EditedAgrees ==
  ASSUME NEW atoms \in Seq(Atoms), NEW K, DoneBy(atoms, K), NEW op \in K, op \in Operations,
         NEW rank, NEW other, \A x \in K : rank[x] = other[x]
  PROVE  Edited(atoms, op, rank) = Edited(atoms, op, other)
<1>1. CASE op.kind = "insert"
  <2>1. PICK at : at = Landing(atoms, op, rank)
    OBVIOUS
  <2>2. PICK to : to = Landing(atoms, op, other)
    OBVIOUS
  <2>3. LandsBehind(atoms, op, rank, at) /\ LandsBehind(atoms, op, other, to)
    BY <2>1, <2>2, LandingBehind
  <2>4. PICK anchor : anchor = Anchor(atoms, op)
    OBVIOUS
  <2>5. /\ Len(atoms) \in Nat /\ DOMAIN atoms = 1..Len(atoms) /\ anchor \in 0..Len(atoms)
    BY <2>4, AnchorProps, SequenceFacts
  <2>6. ASSUME NEW i \in DOMAIN atoms
        PROVE  Stepped(atoms, op, rank, i) <=> Stepped(atoms, op, other, i)
    <3>1. atoms[i].by # Base => rank[atoms[i].by] = other[atoms[i].by]
      BY DEF DoneBy
    <3>2. rank[op] = other[op]
      OBVIOUS
    <3>3. QED
      BY <3>1, <3>2 DEF Stepped
  <2>7. /\ at \in 0..Len(atoms) /\ anchor <= at
        /\ \A i \in (anchor + 1)..at : Stepped(atoms, op, rank, i)
        /\ at < Len(atoms) => ~Stepped(atoms, op, rank, at + 1)
    BY <2>3, <2>4 DEF LandsBehind
  <2>8. /\ to \in 0..Len(atoms) /\ anchor <= to
        /\ \A i \in (anchor + 1)..to : Stepped(atoms, op, other, i)
        /\ to < Len(atoms) => ~Stepped(atoms, op, other, to + 1)
    BY <2>3, <2>4 DEF LandsBehind
  <2>9. ~(at < to)
    <3>1. SUFFICES ASSUME at < to PROVE FALSE
      OBVIOUS
    <3>2. at + 1 \in (anchor + 1)..to /\ at + 1 \in DOMAIN atoms /\ at < Len(atoms)
      BY <2>5, <2>7, <2>8, <3>1
    <3>3. QED
      BY <2>6, <2>7, <2>8, <3>2
  <2>10. ~(to < at)
    <3>1. SUFFICES ASSUME to < at PROVE FALSE
      OBVIOUS
    <3>2. to + 1 \in (anchor + 1)..at /\ to + 1 \in DOMAIN atoms /\ to < Len(atoms)
      BY <2>5, <2>7, <2>8, <3>1
    <3>3. QED
      BY <2>6, <2>7, <2>8, <3>2
  <2>11. at = to
    <3>1. at \in Nat /\ to \in Nat
      BY <2>5, <2>7, <2>8
    <3>2. QED
      BY <2>9, <2>10, <3>1
  <2>12. QED
    BY <1>1, <2>1, <2>2, <2>11, EditedAs
<1>2. CASE op.kind # "insert"
  BY <1>2, EditedAs
<1>3. QED
  BY <1>1, <1>2

\* A text that nobody has edited.
LEMMA FreshFacts ==
  ASSUME NEW text \in Texts
  PROVE  Fresh(text) \in Seq(Atoms) /\ DoneBy(Fresh(text), {}) /\ TextOf(Fresh(text)) = text
<1>1. PICK atoms : atoms = Fresh(text)
  OBVIOUS
<1>2. PICK n \in Nat : n = Len(text) /\ DOMAIN text = 1..n /\ text \in [1..n -> Labels]
  <2>1. text \in Seq(Labels)
    BY DEF Texts
  <2>2. QED
    BY <2>1, SequenceFacts
<1>3. atoms = [i \in 1..n |-> [label |-> text[i], by |-> Base, dead |-> FALSE, gone |-> {}]]
  BY <1>1, <1>2 DEF Fresh
<1>4. atoms \in [1..n -> Atoms]
  BY <1>2, <1>3 DEF Atoms
<1>5. atoms \in Seq(Atoms)
  BY <1>4
<1>6. DoneBy(atoms, {})
  BY <1>3 DEF DoneBy
<1>7. DOMAIN atoms = 1..n
  BY <1>3
<1>8. LivePlaces(atoms) = 1..n
  BY <1>3, <1>7 DEF LivePlaces, Alive
<1>9. PICK q : q = [i \in 1..n |-> i]
  OBVIOUS
<1>10. Enumerates(q, n, 1..n)
  BY <1>9 DEF Enumerates
<1>11. \A i \in 1..n : text[i] = LabelsOf(atoms)[q[i]]
  BY <1>3, <1>7, <1>9 DEF LabelsOf
<1>12. Reads(text, q, n, LivePlaces(atoms), LabelsOf(atoms))
  BY <1>2, <1>8, <1>10, <1>11 DEF Reads
<1>13. text = TextOf(atoms)
  BY <1>5, <1>12, ReadsText
<1>14. QED
  BY <1>1, <1>5, <1>6, <1>13

\* A rank is a place, and stays so when the order goes on.
LEMMA RanksGoOn ==
  ASSUME NEW K, NEW before, Linearizes(before, K), NEW all, NEW order, Linearizes(order, all),
         NEW new, NEW n, GoesOn(order, before, new, n)
  PROVE  \A x \in K : RankIn(before)[x] = RankIn(order)[x]
<1>1. DOMAIN before = 1..Len(before) /\ DOMAIN order = 1..Len(order)
      /\ Len(before) \in Nat /\ Len(order) \in Nat
  BY SequenceFacts DEF Linearizes
<1>2. Len(order) = Len(before) + n /\ n \in Nat
      /\ \A i \in 1..Len(before) : order[i] = before[i]
  BY DEF GoesOn
<1>3. ASSUME NEW x \in K PROVE RankIn(before)[x] = RankIn(order)[x]
  <2>1. PICK i \in DOMAIN before : before[i] = x
    BY DEF Linearizes, Range
  <2>2. i \in DOMAIN order /\ order[i] = x
    BY <1>1, <1>2, <2>1
  <2>3. RankIn(before)[before[i]] = i
    BY <2>1, RankProps
  <2>4. RankIn(order)[order[i]] = i
    BY <2>2, RankProps
  <2>5. QED
    BY <2>1, <2>2, <2>3, <2>4
<1>4. QED
  BY <1>3

\* A batch with no write leaves the last write of the run where it is.
LEMMA ResetStays ==
  ASSUME NEW before \in Seq(Operations), NEW order \in Seq(Operations), NEW new, NEW n,
         GoesOn(order, before, new, n), \A k \in 1..n : new[k].kind # "write"
  PROVE  ResetIn(order) = ResetIn(before)
<1>1. PICK c \in Nat : c = Len(before) /\ DOMAIN before = 1..c
  BY SequenceFacts
<1>2. /\ n \in Nat /\ DOMAIN order = 1..(c + n)
      /\ \A i \in 1..c : order[i] = before[i]
      /\ \A i \in 1..n : order[c + i] = new[i]
  BY <1>1, SequenceFacts DEF GoesOn
<1>3. ASSUME NEW i \in 1..(c + n), order[i].kind = "write"
      PROVE  i \in 1..c
  <2>1. SUFFICES ASSUME ~(i <= c) PROVE FALSE
    BY <1>1
  <2>2. i - c \in 1..n /\ c + (i - c) = i
    BY <1>1, <1>2, <2>1
  <2>3. order[c + (i - c)] = new[i - c]
    BY <1>2, <2>2
  <2>4. QED
    BY <1>3, <2>2, <2>3
<1>4. \A i \in 1..c : i \in 1..(c + n)
  BY <1>2
<1>5. {i \in DOMAIN order : order[i].kind = "write"}
      = {i \in DOMAIN before : before[i].kind = "write"}
  BY <1>1, <1>2, <1>3, <1>4
<1>6. QED
  BY <1>5 DEF ResetIn

\* A write is the last itself.
LEMMA ResetComes ==
  ASSUME NEW order \in Seq(Operations), NEW m \in Nat, m # 0, Len(order) = m,
         order[m].kind = "write"
  PROVE  ResetIn(order) = m
<1>1. DOMAIN order = 1..m
  BY SequenceFacts
<1>2. PICK Z : Z = {0} \cup {i \in DOMAIN order : order[i].kind = "write"}
  OBVIOUS
<1>3. Z \in SUBSET (0..m) /\ Z \in SUBSET Nat /\ Z # {} /\ m \in Z
  BY <1>1, <1>2
<1>4. IsFiniteSet(Z)
  <2>1. IsFiniteSet(0..m)
    BY FS_Interval
  <2>2. QED
    BY <1>3, <2>1, FS_Subset
<1>5. Max(Z) \in Z /\ \A z \in Z : Max(Z) >= z
  BY <1>3, <1>4, MaxProps
<1>6. Max(Z) \in 0..m /\ Max(Z) >= m
  BY <1>3, <1>5
<1>7. Max(Z) = m
  BY <1>6
<1>8. QED
  BY <1>2, <1>7 DEF ResetIn

\* Where a merge starts, nothing is anybody's.
LEMMA StartFacts ==
  ASSUME NEW K, K \subseteq Operations, NEW order, Linearizes(order, K),
         NEW atoms \in Seq(Atoms), DoneBy(atoms, {})
  PROVE  StartOf(atoms, order) \in Seq(Atoms) /\ DoneBy(StartOf(atoms, order), {})
<1>1. PICK r : r = ResetIn(order)
  OBVIOUS
<1>2. r \in 0..Len(order)
  BY <1>1, ResetProps
<1>3. CASE r = 0
  BY <1>1, <1>3 DEF StartOf
<1>4. CASE r # 0
  <2>1. order \in Seq(K) /\ r \in DOMAIN order
    BY <1>2, <1>4 DEF Linearizes
  <2>2. order[r] \in Operations
    BY <2>1
  <2>3. order[r].text \in Texts
    BY <2>2, OperationFacts
  <2>4. QED
    BY <1>1, <1>4, <2>3, FreshFacts DEF StartOf
<1>5. QED
  BY <1>3, <1>4

\* Edits by K leave what is done by K.
LEMMA IteratedDoneBy ==
  ASSUME NEW K, K \subseteq Operations, NEW atoms \in Seq(Atoms), DoneBy(atoms, K),
         NEW edits, NEW m \in Nat, \A i \in 1..m : edits[i] \in K,
         NEW rank, NEW f, Iterated(f, m, atoms, edits, rank)
  PROVE  \A i \in 0..m : f[i] \in Seq(Atoms) /\ DoneBy(f[i], K)
<1> DEFINE P(i) == f[i] \in Seq(Atoms) /\ DoneBy(f[i], K)
           T == {i \in Nat : i <= m => P(i)}
<1>1. 0 \in T
  BY DEF Iterated
<1>2. ASSUME NEW i \in Nat, i \in T PROVE i + 1 \in T
  <2>1. SUFFICES ASSUME i + 1 <= m PROVE P(i + 1)
    OBVIOUS
  <2>2. i + 1 \in 0..m /\ i + 1 \in 1..m /\ i + 1 # 0 /\ (i + 1) - 1 = i /\ i <= m
    BY <2>1
  <2>3. f[i + 1] = Edited(f[i], edits[i + 1], rank)
    BY <2>2 DEF Iterated
  <2>4. edits[i + 1] \in K /\ edits[i + 1] \in Operations
    BY <2>2
  <2>5. f[i] \in Seq(Atoms) /\ DoneBy(f[i], K)
    BY <1>2, <2>2
  <2>6. f[i + 1] \in Seq(Atoms) /\ DoneBy(f[i + 1], K \cup {edits[i + 1]})
    BY <2>3, <2>4, <2>5, EditedDoneBy
  <2>7. K \cup {edits[i + 1]} = K
    BY <2>4
  <2>8. QED
    BY <2>6, <2>7
<1> HIDE DEF T
<1>3. \A i \in Nat : i \in T
  BY <1>1, <1>2, SetInduction
<1>4. QED
  BY <1>3 DEF T

\* What merging with a batch makes of the merge without it: its edits, one after
\* the other.
EditedBy(rest, atoms, new, n, rank) ==
    \E g : Iterated(g, n, atoms, new, rank) /\ rest = g[n]

\* The merge of all is the merge of what was known, edited by the batch.
LEMMA MergeGoesOn ==
  ASSUME NEW K, Orderable(K), NEW new, NEW n, Batch(new, n, K),
         NEW all, all = K \cup Firsts(new, n), Orderable(all),
         \A k \in 1..n : new[k].kind # "write",
         NEW atoms \in Seq(Atoms), DoneBy(atoms, {})
  PROVE  /\ Merge(atoms, K) \in Seq(Atoms) /\ DoneBy(Merge(atoms, K), K)
         /\ EditedBy(Merge(atoms, all), Merge(atoms, K), new, n, RankIn(CausalOrder(all)))
<1>1. PICK before : before = CausalOrder(K)
  OBVIOUS
<1>2. PICK order : order = CausalOrder(all)
  OBVIOUS
<1>3. Linearizes(before, K) /\ Linearizes(order, all)
  BY <1>1, <1>2, CausalOrderProps
<1>4. GoesOn(order, before, new, n)
  BY <1>1, <1>2, OrderGoesOn
<1>5. K \subseteq Operations /\ all \subseteq Operations
  BY DEF Orderable
<1>6. before \in Seq(K) /\ before \in Seq(Operations) /\ order \in Seq(Operations)
  <2>1. before \in Seq(K) /\ order \in Seq(all)
    BY <1>3 DEF Linearizes
  <2>2. QED
    BY <1>5, <2>1
<1>7. PICK r : r = ResetIn(before)
  OBVIOUS
<1>8. ResetIn(order) = r
  BY <1>4, <1>6, <1>7, ResetStays
<1>9. r \in Nat /\ r <= Len(before) /\ Len(before) \in Nat /\ DOMAIN before = 1..Len(before)
  <2>1. r \in 0..Len(before)
    BY <1>3, <1>7, ResetProps
  <2>2. Len(before) \in Nat /\ DOMAIN before = 1..Len(before)
    BY <1>6, SequenceFacts
  <2>3. QED
    BY <2>1, <2>2
<1>10. PICK c \in Nat : c = Len(before)
  BY <1>9
<1>11. PICK m \in Nat : m = c - r /\ r + m = c
  <2>1. r \in Nat /\ r <= c
    BY <1>9, <1>10
  <2>2. c - r \in Nat /\ r + (c - r) = c
    BY <2>1
  <2>3. QED
    BY <2>2
<1>12. n \in Nat /\ Len(order) = c + n /\ (\A i \in 1..c : order[i] = before[i])
       /\ \A i \in 1..n : order[c + i] = new[i]
  BY <1>4, <1>10 DEF GoesOn
<1>13. PICK M \in Nat : M = m + n /\ r + M = c + n
  <2>1. r \in Nat /\ n \in Nat
    BY <1>9, <1>12
  <2>2. m + n \in Nat /\ r + (m + n) = c + n
    BY <1>11, <2>1
  <2>3. QED
    BY <2>2
<1>14. PICK start : start = StartOf(atoms, before)
  OBVIOUS
<1>15. start \in Seq(Atoms) /\ DoneBy(start, {})
  BY <1>3, <1>5, <1>14, StartFacts
<1>16. StartOf(atoms, order) = start
  <2>1. r # 0 => r \in 1..c
    BY <1>9, <1>10
  <2>2. r # 0 => order[r] = before[r]
    BY <1>12, <2>1
  <2>3. QED
    BY <1>7, <1>8, <1>14, <2>2 DEF StartOf
<1>17. PICK edits : edits = EditsAfter(before)
  OBVIOUS
<1>18. PICK more : more = EditsAfter(order)
  OBVIOUS
<1>19. Len(edits) = m /\ \A i \in 1..m : r + i \in DOMAIN before /\ edits[i] = before[r + i]
  <2>1. r + m = Len(before)
    BY <1>10, <1>11
  <2>2. edits = SubSeq(before, r + 1, Len(before))
    BY <1>7, <1>17 DEF EditsAfter
  <2>3. QED
    BY <1>6, <1>9, <2>1, <2>2, SuffixFacts
<1>20. Len(more) = M /\ \A i \in 1..M : more[i] = order[r + i]
  <2>1. r + M = Len(order)
    BY <1>12, <1>13
  <2>2. more = SubSeq(order, r + 1, Len(order))
    BY <1>8, <1>18 DEF EditsAfter
  <2>3. order \in Seq(Operations) /\ r \in Nat
    BY <1>6, <1>9
  <2>4. QED
    BY <2>1, <2>2, <2>3, SuffixFacts
<1>21. \A i \in 1..m : edits[i] = more[i] /\ edits[i] \in K
  <2>1. ASSUME NEW i \in 1..m PROVE edits[i] = more[i] /\ edits[i] \in K
    <3>1. r \in Nat /\ n \in Nat
      BY <1>9, <1>12
    <3>2. i \in 1..M /\ r + i \in 1..c
      BY <3>1, <1>11, <1>13
    <3>3. edits[i] = before[r + i] /\ more[i] = order[r + i] /\ order[r + i] = before[r + i]
      BY <1>12, <1>19, <1>20, <3>2
    <3>4. before[r + i] \in K
      BY <1>6, <1>19
    <3>5. QED
      BY <3>3, <3>4
  <2>2. QED
    BY <2>1
<1>22. \A j \in 1..n : more[m + j] = new[j]
  <2>1. ASSUME NEW j \in 1..n PROVE more[m + j] = new[j]
    <3>1. m + j \in 1..M /\ r + (m + j) = c + j
      BY <1>9, <1>10, <1>11, <1>12, <1>13
    <3>2. QED
      BY <1>12, <1>20, <3>1
  <2>2. QED
    BY <2>1
<1>23. PICK rank : rank = RankIn(before)
  OBVIOUS
<1>24. PICK other : other = RankIn(order)
  OBVIOUS
<1>25. \A x \in K : rank[x] = other[x]
  BY <1>3, <1>4, <1>23, <1>24, RanksGoOn
<1>26. PICK f : Iterated(f, m, start, edits, rank) /\ Merge(atoms, K) = f[m]
  <2>1. \E f : Iterated(f, m, start, edits, rank) /\ Resolved(start, edits, rank) = f[m]
    BY <1>19, ResolvedAs
  <2>2. Merge(atoms, K) = Resolved(start, edits, rank)
    BY <1>1, <1>14, <1>17, <1>23 DEF Merge
  <2>3. QED
    BY <2>1, <2>2
<1>27. PICK h : Iterated(h, M, start, more, other) /\ Merge(atoms, all) = h[M]
  <2>1. \E h : Iterated(h, M, start, more, other) /\ Resolved(start, more, other) = h[M]
    BY <1>20, ResolvedAs
  <2>2. Merge(atoms, all) = Resolved(start, more, other)
    BY <1>2, <1>16, <1>18, <1>24 DEF Merge
  <2>3. QED
    BY <2>1, <2>2
<1>28. \A i \in 0..m : f[i] \in Seq(Atoms) /\ DoneBy(f[i], K)
  <2>1. DoneBy(start, K)
    BY <1>15 DEF DoneBy
  <2>2. \A i \in 1..m : edits[i] \in K
    BY <1>21
  <2>3. Iterated(f, m, start, edits, rank)
    BY <1>26
  <2>4. K \subseteq Operations /\ start \in Seq(Atoms)
    BY <1>5, <1>15
  <2>5. QED
    BY <2>1, <2>2, <2>3, <2>4, IteratedDoneBy
<1>29. \A i \in 0..m : f[i] = h[i]
  <2> DEFINE T == {i \in Nat : i <= m => f[i] = h[i]}
  <2>1. 0 \in T
    BY <1>11, <1>13, <1>26, <1>27 DEF Iterated
  <2>2. ASSUME NEW i \in Nat, i \in T PROVE i + 1 \in T
    <3>1. SUFFICES ASSUME i + 1 <= m PROVE f[i + 1] = h[i + 1]
      OBVIOUS
    <3>2. PICK k : k = i + 1
      OBVIOUS
    <3>3. k \in 0..m /\ k \in 1..m /\ k \in 0..M /\ k # 0 /\ k - 1 = i /\ i \in 0..m
      BY <1>12, <1>13, <3>1, <3>2
    <3>4. f[k] = Edited(f[i], edits[k], rank) /\ h[k] = Edited(h[i], more[k], other)
      BY <1>26, <1>27, <3>3 DEF Iterated
    <3>5. edits[k] = more[k] /\ edits[k] \in K /\ edits[k] \in Operations /\ f[i] = h[i]
      BY <1>5, <1>21, <2>2, <3>3
    <3>6. f[i] \in Seq(Atoms) /\ DoneBy(f[i], K)
      BY <1>28, <3>3
    <3>7. Edited(f[i], edits[k], rank) = Edited(f[i], edits[k], other)
      BY <1>25, <3>5, <3>6, EditedAgrees
    <3>8. QED
      BY <3>2, <3>4, <3>5, <3>7
  <2> HIDE DEF T
  <2>3. \A i \in Nat : i \in T
    BY <2>1, <2>2, SetInduction
  <2>4. QED
    BY <2>3 DEF T
<1>30. PICK g : g = [j \in 0..n |-> h[m + j]]
  OBVIOUS
<1>31. Iterated(g, n, Merge(atoms, K), new, other)
  <2>1. ASSUME NEW j \in 0..n
        PROVE  g[j] = IF j = 0 THEN Merge(atoms, K) ELSE Edited(g[j - 1], new[j], other)
    <3>1. CASE j = 0
      <4>1. g[0] = h[m] /\ f[m] = h[m]
        BY <1>11, <1>12, <1>29, <1>30
      <4>2. QED
        BY <1>26, <3>1, <4>1
    <3>2. CASE j # 0
      <4>1. j \in 1..n /\ j - 1 \in 0..n /\ m + j \in 0..M /\ m + j # 0 /\ (m + j) - 1 = m + (j - 1)
        BY <1>12, <1>13, <3>2
      <4>2. h[m + j] = Edited(h[(m + j) - 1], more[m + j], other)
        BY <1>27, <4>1 DEF Iterated
      <4>3. g[j] = h[m + j] /\ g[j - 1] = h[m + (j - 1)] /\ more[m + j] = new[j]
        BY <1>22, <1>30, <4>1
      <4>4. QED
        BY <3>2, <4>1, <4>2, <4>3
    <3>3. QED
      BY <3>1, <3>2
  <2>2. g = [j \in 0..n |-> IF j = 0 THEN Merge(atoms, K) ELSE Edited(g[j - 1], new[j], other)]
    BY <1>30, <2>1
  <2>3. QED
    BY <2>2 DEF Iterated
<1>32. g[n] = Merge(atoms, all)
  BY <1>12, <1>13, <1>27, <1>30
<1>33. Merge(atoms, K) \in Seq(Atoms) /\ DoneBy(Merge(atoms, K), K)
  BY <1>11, <1>26, <1>28
<1>34. EditedBy(Merge(atoms, all), Merge(atoms, K), new, n, other)
  BY <1>31, <1>32 DEF EditedBy
<1>35. QED
  BY <1>2, <1>24, <1>33, <1>34

-----------------------------------------------------------------------------
(* A batch of operations lands where it was typed.                          *)

\* A batch that is one write of the run is all there is to the text.
LEMMA WriteLands ==
  ASSUME NEW K, Orderable(K), NEW new, Batch(new, 1, K), new[1].kind = "write",
         NEW all, all = K \cup Firsts(new, 1), Orderable(all), NEW atoms
  PROVE  TextOf(Merge(atoms, all)) = new[1].text
<1>1. PICK before : before = CausalOrder(K)
  OBVIOUS
<1>2. PICK order : order = CausalOrder(all)
  OBVIOUS
<1>3. GoesOn(order, before, new, 1)
  BY <1>1, <1>2, OrderGoesOn
<1>4. order \in Seq(Operations)
  <2>1. order \in Seq(all) /\ all \subseteq Operations
    BY <1>2, CausalOrderProps DEF Linearizes, Orderable
  <2>2. QED
    BY <2>1
<1>5. PICK c \in Nat : c = Len(before)
  BY <1>3 DEF GoesOn
<1>6. PICK m \in Nat : m = c + 1 /\ m # 0
  OBVIOUS
<1>7. Len(order) = m /\ order[m] = new[1]
  BY <1>3, <1>5, <1>6 DEF GoesOn
<1>8. ResetIn(order) = m
  BY <1>4, <1>6, <1>7, ResetComes
<1>9. StartOf(atoms, order) = Fresh(new[1].text)
  BY <1>6, <1>7, <1>8 DEF StartOf
<1>10. Len(EditsAfter(order)) = 0
  <2>1. m + 0 = Len(order) /\ 0 \in Nat
    BY <1>7
  <2>2. Len(SubSeq(order, m + 1, Len(order))) = 0
    BY <1>4, <1>6, <2>1, SuffixFacts
  <2>3. QED
    BY <1>8, <2>2 DEF EditsAfter
<1>11. Merge(atoms, all) = Fresh(new[1].text)
  <2>1. PICK start : start = StartOf(atoms, order)
    OBVIOUS
  <2>2. PICK edits : edits = EditsAfter(order)
    OBVIOUS
  <2>3. PICK rank : rank = RankIn(order)
    OBVIOUS
  <2>4. Len(edits) = 0 /\ 0 \in Nat
    BY <1>10, <2>2
  <2>5. PICK f : Iterated(f, 0, start, edits, rank) /\ Resolved(start, edits, rank) = f[0]
    BY <2>4, ResolvedAs
  <2>6. f[0] = start
    BY <2>5 DEF Iterated
  <2>7. Merge(atoms, all) = Resolved(start, edits, rank)
    BY <1>2, <2>1, <2>2, <2>3 DEF Merge
  <2>8. QED
    BY <1>9, <2>1, <2>5, <2>6, <2>7
<1>12. new[1].text \in Texts
  <2>1. new \in Seq(Operations) /\ Len(new) = 1
    BY DEF Batch
  <2>2. new[1] \in Operations
    BY <2>1
  <2>3. QED
    BY <2>2 DEF Operations
<1>13. QED
  BY <1>11, <1>12, FreshFacts

\* Operations that make sense of a text, one after the other: one write of the
\* run, or inserts and deletes within what the ones before have left.
Suits(text, new, n) ==
    \/ n = 1 /\ new[1].kind = "write"
    \/ /\ \A k \in 1..n : new[k].kind \in {"insert", "delete"}
       /\ \E f : Splicings(f, n, text, new) /\ \A k \in 1..n : Fits(f[k - 1], new[k])

\* What an author who knows all there is does lands where they see it.
LEMMA BatchLands ==
  ASSUME NEW K, Orderable(K), NEW new, NEW n, Batch(new, n, K),
         NEW all, all = K \cup Firsts(new, n), Orderable(all),
         NEW atoms \in Seq(Atoms), DoneBy(atoms, {}),
         Suits(TextOf(Merge(atoms, K)), new, n)
  PROVE  TextOf(Merge(atoms, all)) = SplicedBy(TextOf(Merge(atoms, K)), new)
<1>1. PICK text : text = TextOf(Merge(atoms, K))
  OBVIOUS
<1>2. n \in Nat /\ Len(new) = n
  BY DEF Batch
<1>3. PICK f : Splicings(f, n, text, new) /\ SplicedBy(text, new) = f[n]
  BY <1>2, SplicedByAs
<1>4. CASE n = 1 /\ new[1].kind = "write"
  <2>1. TextOf(Merge(atoms, all)) = new[1].text
    BY <1>4, WriteLands
  <2>2. f[1] = Spliced(f[0], new[1])
    BY <1>3, <1>4 DEF Splicings
  <2>3. Spliced(f[0], new[1]) = new[1].text
    BY <1>4 DEF Spliced
  <2>4. QED
    BY <1>1, <1>3, <1>4, <2>1, <2>2, <2>3
<1>5. CASE /\ \A k \in 1..n : new[k].kind \in {"insert", "delete"}
           /\ \E g : Splicings(g, n, text, new) /\ \A k \in 1..n : Fits(g[k - 1], new[k])
  <2>1. \A k \in 1..n : new[k].kind # "write"
    BY <1>5
  <2>2. Merge(atoms, K) \in Seq(Atoms) /\ DoneBy(Merge(atoms, K), K)
    BY <2>1, MergeGoesOn
  <2>3. PICK rank : rank = RankIn(CausalOrder(all))
    OBVIOUS
  <2>4. EditedBy(Merge(atoms, all), Merge(atoms, K), new, n, rank)
    BY <2>1, <2>3, MergeGoesOn
  <2>5. PICK g : Iterated(g, n, Merge(atoms, K), new, rank) /\ Merge(atoms, all) = g[n]
    BY <2>4 DEF EditedBy
  <2>6. \A k \in 1..n : Fits(f[k - 1], new[k])
    <3>1. PICK h : Splicings(h, n, text, new) /\ \A k \in 1..n : Fits(h[k - 1], new[k])
      BY <1>5
    <3>2. \A k \in 0..n : h[k] = f[k]
      BY <1>2, <1>3, <3>1, SplicingsAgree
    <3>3. ASSUME NEW k \in 1..n PROVE Fits(f[k - 1], new[k])
      <4>1. k - 1 \in 0..n
        BY <1>2
      <4>2. QED
        BY <3>1, <3>2, <4>1
    <3>4. QED
      BY <3>3
  <2>7. PICK merged : merged = Merge(atoms, K)
    OBVIOUS
  <2>8. TextOf(g[n]) = f[n]
    BY <1>1, <1>3, <1>5, <2>2, <2>5, <2>6, <2>7, BatchSplices
  <2>9. QED
    BY <1>1, <1>3, <2>5, <2>8
<1>6. QED
  BY <1>1, <1>4, <1>5 DEF Suits

\* Part of what can be ordered can be.
LEMMA PartOrderable ==
  ASSUME NEW set, Orderable(set), NEW part, part \subseteq set
  PROVE  Orderable(part)
<1>1. part \subseteq Operations /\ IsFiniteSet(part)
  BY FS_Subset DEF Orderable
<1>2. Distinct(part) /\ Clocked(part)
  BY DEF Orderable, Distinct, Clocked
<1>3. QED
  BY <1>1, <1>2 DEF Orderable

\* Minted operations are a batch, with what their author knew or without.
LEMMA MintedBatch ==
  ASSUME CausalOK, NEW a \in Actors, NEW new, NEW n, Anew(new, a, n)
  PROVE  /\ Firsts(new, n) = Range(new)
         /\ Orderable(known[a] \cup Firsts(new, n)) /\ Orderable(Firsts(new, n))
         /\ Batch(new, n, known[a]) /\ Batch(new, n, {})
<1>1. new \in Seq(Operations) /\ n \in Nat /\ DOMAIN new = 1..n
  BY DEF Anew
<1>2. Len(new) = n
  BY <1>1
<1>3. Firsts(new, n) = Range(new)
  BY <1>1 DEF Firsts, Range
<1>4. PICK more : more = ops \cup Range(new)
  OBVIOUS
<1>5. Orderable(more)
  BY <1>4, AddedInOrder
<1>6. known[a] \subseteq ops
  BY HeldFacts
<1>7. Orderable(known[a] \cup Firsts(new, n)) /\ Orderable(Firsts(new, n))
  BY <1>3, <1>4, <1>5, <1>6, PartOrderable
<1>8. \A i, j \in 1..n : Observes(new[i], new[j]) <=> j < i
  BY DEF Anew
<1>9. \A i \in 1..n : \A o \in known[a] :
          Observes(new[i], o) /\ ~Observes(o, new[i]) /\ o # new[i]
  BY <1>6 DEF Anew
<1>10. Batch(new, n, known[a]) /\ Batch(new, n, {})
  BY <1>1, <1>2, <1>8, <1>9 DEF Batch
<1>11. QED
  BY <1>3, <1>7, <1>10

\* A batch, sorted by its counters, is itself.
LEMMA BatchInOrder ==
  ASSUME NEW new \in Seq(Operations), NEW n \in Nat, DOMAIN new = 1..n,
         \A i, j \in 1..n : new[i].seq < new[j].seq <=> i < j
  PROVE  InOrder(Firsts(new, n), LAMBDA x, y : x.seq < y.seq) = new
<1>1. PICK S : S = Firsts(new, n)
  OBVIOUS
<1>2. \A i, j \in 1..n : new[i] = new[j] => i = j
  <2>1. ASSUME NEW i \in 1..n, NEW j \in 1..n, new[i] = new[j] PROVE i = j
    <3>1. \A x \in Nat : ~(x < x)
      OBVIOUS
    <3>2. new[i].seq \in Nat
      <4>1. new[i] \in Operations
        OBVIOUS
      <4>2. QED
        BY <4>1, OperationFacts
    <3>3. ~(new[i].seq < new[j].seq) /\ ~(new[j].seq < new[i].seq)
      BY <2>1, <3>1, <3>2
    <3>4. ~(i < j) /\ ~(j < i)
      BY <3>3
    <3>5. QED
      BY <3>4
  <2>2. QED
    BY <2>1
<1>3. \A k \in 0..n : Cardinality(Firsts(new, k)) = k
  <2>1. ASSUME NEW k \in 0..n PROVE Cardinality(Firsts(new, k)) = k
    <3>1. \A i, j \in 1..k : new[i] = new[j] => i = j
      BY <1>2
    <3>2. k \in Nat /\ IsFiniteSet({}) /\ \A i \in 1..k : new[i] \notin {}
      BY FS_EmptySet
    <3>3. Cardinality({} \cup Firsts(new, k)) = Cardinality({}) + k
      BY <3>1, <3>2, NewcomersCounted
    <3>4. {} \cup Firsts(new, k) = Firsts(new, k) /\ Cardinality({}) = 0
      BY FS_EmptySet
    <3>5. QED
      BY <3>2, <3>3, <3>4
  <2>2. QED
    BY <2>1
<1>4. Cardinality(S) = n
  BY <1>1, <1>3
<1>5. \A k \in 1..n : new[k] \in S /\ Cardinality({y \in S : y.seq < new[k].seq}) = k - 1
  <2>1. ASSUME NEW k \in 1..n
        PROVE  new[k] \in S /\ Cardinality({y \in S : y.seq < new[k].seq}) = k - 1
    <3>1. {y \in S : y.seq < new[k].seq} = {new[i] : i \in {j \in 1..n : j < k}}
      BY <1>1 DEF Firsts
    <3>2. {j \in 1..n : j < k} = 1..(k - 1) /\ k - 1 \in 0..n
      OBVIOUS
    <3>3. {y \in S : y.seq < new[k].seq} = Firsts(new, k - 1)
      BY <3>1, <3>2 DEF Firsts
    <3>4. QED
      BY <1>1, <1>3, <3>2, <3>3 DEF Firsts
  <2>2. QED
    BY <2>1
<1>6. ASSUME NEW k \in 1..n
      PROVE  (CHOOSE x \in S : Cardinality({y \in S : y.seq < x.seq}) = k - 1) = new[k]
  <2>1. ASSUME NEW x \in S, Cardinality({y \in S : y.seq < x.seq}) = k - 1
        PROVE  x = new[k]
    <3>1. PICK i \in 1..n : x = new[i]
      BY <1>1 DEF Firsts
    <3>2. i - 1 = k - 1
      BY <1>5, <2>1, <3>1
    <3>3. i = k
      BY <3>2
    <3>4. QED
      BY <3>1, <3>3
  <2>2. QED
    BY <1>5, <2>1
<1>7. InOrder(S, LAMBDA x, y : x.seq < y.seq) = [k \in 1..n |-> new[k]]
  BY <1>4, <1>6 DEF InOrder
<1>8. new = [k \in 1..n |-> new[k]]
  OBVIOUS
<1>9. QED
  BY <1>1, <1>7, <1>8

\* Merging with nothing.
LEMMA MergeNothing ==
  ASSUME NEW atoms \in Seq(Atoms)
  PROVE  Merge(atoms, {}) = atoms
<1>1. PICK order : order = CausalOrder({})
  OBVIOUS
<1>2. Orderable({})
  BY FS_EmptySet DEF Orderable, Distinct, Clocked
<1>3. order \in Seq({}) /\ Linearizes(order, {})
  BY <1>1, <1>2, CausalOrderProps DEF Linearizes
<1>4. Len(order) = 0 /\ order \in Seq(Operations)
  BY <1>3
<1>5. ResetIn(order) = 0
  <2>1. ResetIn(order) \in 0..Len(order)
    BY <1>3, ResetProps
  <2>2. QED
    BY <1>4, <2>1
<1>6. Len(EditsAfter(order)) = 0
  <2>1. 0 + 0 = Len(order) /\ 0 \in Nat
    BY <1>4
  <2>2. Len(SubSeq(order, 0 + 1, Len(order))) = 0
    BY <1>4, <2>1, SuffixFacts
  <2>3. QED
    BY <1>5, <2>2 DEF EditsAfter
<1>7. StartOf(atoms, order) = atoms
  BY <1>5 DEF StartOf
<1>8. PICK edits : edits = EditsAfter(order)
  OBVIOUS
<1>9. PICK rank : rank = RankIn(order)
  OBVIOUS
<1>10. Len(edits) = 0 /\ 0 \in Nat
  BY <1>6, <1>8
<1>11. PICK f : Iterated(f, 0, atoms, edits, rank) /\ Resolved(atoms, edits, rank) = f[0]
  BY <1>10, ResolvedAs
<1>12. f[0] = atoms
  BY <1>11 DEF Iterated
<1>13. Merge(atoms, {}) = Resolved(atoms, edits, rank)
  BY <1>1, <1>7, <1>8, <1>9 DEF Merge
<1>14. QED
  BY <1>11, <1>12, <1>13

\* The run between merges shows the text that it was merged to.
LEMMA CollapsedFacts ==
  ASSUME NEW atoms \in Seq(Atoms)
  PROVE  /\ Collapsed(atoms) \in Seq(Atoms) /\ DoneBy(Collapsed(atoms), {})
         /\ TextOf(Collapsed(atoms)) = TextOf(atoms)
<1>1. PICK old : old = Collapsed(atoms)
  OBVIOUS
<1>2. DOMAIN atoms = 1..Len(atoms) /\ Len(atoms) \in Nat
  BY SequenceFacts
<1>3. DOMAIN old = DOMAIN atoms
  BY <1>1 DEF Collapsed
<1>4. \A i \in DOMAIN atoms : old[i] = [label |-> atoms[i].label, by |-> Base,
                                         dead |-> ~Alive(atoms[i]), gone |-> {}]
  BY <1>1 DEF Collapsed
<1>5. \A i \in DOMAIN atoms : atoms[i].label \in Labels
  <2>1. \A i \in DOMAIN atoms : atoms[i] \in Atoms
    OBVIOUS
  <2>2. QED
    BY <2>1 DEF Atoms
<1>6. \A i \in DOMAIN atoms : old[i] \in Atoms /\ old[i].by = Base /\ old[i].gone = {}
      /\ old[i].label = atoms[i].label /\ (Alive(old[i]) <=> Alive(atoms[i]))
  <2>1. ASSUME NEW i \in DOMAIN atoms
        PROVE  old[i] \in Atoms /\ old[i].by = Base /\ old[i].gone = {}
               /\ old[i].label = atoms[i].label /\ (Alive(old[i]) <=> Alive(atoms[i]))
    <3>1. PICK dead \in BOOLEAN : dead = ~Alive(atoms[i])
      BY DEF Alive
    <3>2. old[i] = [label |-> atoms[i].label, by |-> Base, dead |-> dead, gone |-> {}]
      BY <1>4, <3>1
    <3>3. old[i] \in Atoms
      BY <1>5, <3>2 DEF Atoms
    <3>4. Alive(old[i]) <=> ~dead
      <4>1. old[i].dead = dead /\ old[i].gone = {}
        BY <3>2
      <4>2. QED
        BY <4>1 DEF Alive
    <3>5. Alive(old[i]) <=> Alive(atoms[i])
      <4>1. CASE Alive(atoms[i])
        <5>1. ~dead
          BY <3>1, <4>1
        <5>2. QED
          BY <3>4, <4>1, <5>1
      <4>2. CASE ~Alive(atoms[i])
        <5>1. dead
          BY <3>1, <4>2
        <5>2. QED
          BY <3>4, <4>2, <5>1
      <4>3. QED
        BY <4>1, <4>2
    <3>6. QED
      BY <3>2, <3>3, <3>5
  <2>2. QED
    BY <2>1
<1>7. old = [i \in 1..Len(atoms) |-> old[i]]
  BY <1>1, <1>2 DEF Collapsed
<1>8. old \in Seq(Atoms)
  BY <1>2, <1>6, <1>7
<1>9. DoneBy(old, {})
  BY <1>3, <1>6 DEF DoneBy
<1>10. LivePlaces(old) = LivePlaces(atoms)
  BY <1>3, <1>6 DEF LivePlaces
<1>11. \A i \in LivePlaces(old) : LabelsOf(atoms)[i] = LabelsOf(old)[i]
  BY <1>3, <1>6 DEF LivePlaces, LabelsOf
<1>12. TextOf(atoms) = TextOf(old)
  <2>1. PICK text : text = TextOf(atoms)
    OBVIOUS
  <2>2. PICK q : q = Ascending(LivePlaces(atoms))
    OBVIOUS
  <2>3. PICK label : label = LabelsOf(atoms)
    OBVIOUS
  <2>4. PICK n : n = Len(text)
    OBVIOUS
  <2>5. Reads(text, q, n, LivePlaces(old), label)
    BY <1>10, <2>1, <2>2, <2>3, <2>4, TextReads
  <2>6. QED
    BY <1>8, <1>11, <2>1, <2>3, <2>5, ReadsText
<1>13. QED
  BY <1>1, <1>8, <1>9, <1>12

\* What somebody mints lands where they see it.
LEMMA MintedSplices ==
  ASSUME CausalOK, NEW a \in Actors, NEW new, NEW n, Anew(new, a, n),
         Suits(Shown(known[a]), new, n)
  PROVE  Shown(known[a] \cup Range(new)) = SplicedBy(Shown(known[a]), new)
<1>1. PICK K : K = known[a]
  OBVIOUS
<1>2. PICK all : all = K \cup Firsts(new, n)
  OBVIOUS
<1>3. Orderable(K) /\ Orderable(all) /\ Batch(new, n, K) /\ Firsts(new, n) = Range(new)
  BY <1>1, <1>2, MintedBatch, HeldFacts
<1>4. PICK start : start = Fresh(BaseText)
  OBVIOUS
<1>5. start \in Seq(Atoms) /\ DoneBy(start, {})
  BY <1>4, BaseTextType, FreshFacts
<1>6. Shown(K) = TextOf(Merge(start, K)) /\ Shown(all) = TextOf(Merge(start, all))
  BY <1>4 DEF Shown, Merged
<1>7. Suits(TextOf(Merge(start, K)), new, n)
  BY <1>1, <1>6
<1>8. TextOf(Merge(start, all)) = SplicedBy(TextOf(Merge(start, K)), new)
  BY <1>2, <1>3, <1>5, <1>7, BatchLands
<1>9. QED
  BY <1>1, <1>2, <1>3, <1>6, <1>8

\* What is minted, and suits the text its author sees, lands there.
LEMMA MintedLands ==
  ASSUME CausalOK, NEW a \in Actors, NEW new, NEW n, Anew(new, a, n),
         Suits(Shown(known[a]), new, n)
  PROVE  Landed(a, Range(new))
<1>1. PICK own : own = Range(new)
  OBVIOUS
<1>2. Orderable(own) /\ Batch(new, n, {}) /\ Firsts(new, n) = own
  BY <1>1, MintedBatch
<1>3. PICK text : text = Shown(known[a])
  OBVIOUS
<1>4. Shown(known[a] \cup own) = SplicedBy(text, new)
  BY <1>1, <1>3, MintedSplices
<1>5. InOrder(own, LAMBDA x, y : x.seq < y.seq) = new
  <2>1. new \in Seq(Operations) /\ n \in Nat /\ DOMAIN new = 1..n
        /\ \A i \in 1..n : new[i].seq = Highest(known[a], a) + i
    BY DEF Anew
  <2>2. PICK h \in Nat : h = Highest(known[a], a)
    BY CountsOfHeld
  <2>3. \A i, j \in 1..n : h + i < h + j <=> i < j
    BY <2>1
  <2>4. \A i, j \in 1..n : new[i].seq < new[j].seq <=> i < j
    BY <2>1, <2>2, <2>3
  <2>5. QED
    BY <1>2, <2>1, <2>4, BatchInOrder
<1>6. PICK kept : kept = Collapsed(Merged(known[a]))
  OBVIOUS
<1>7. kept \in Seq(Atoms) /\ DoneBy(kept, {}) /\ TextOf(kept) = text
  BY <1>3, <1>6, ShownProps, CollapsedFacts DEF Shown
<1>8. TextOf(Merge(kept, own)) = SplicedBy(text, new)
  <2>1. Merge(kept, {}) = kept
    BY <1>7, MergeNothing
  <2>2. Suits(TextOf(Merge(kept, {})), new, n)
    BY <1>3, <1>7, <2>1
  <2>3. Orderable({}) /\ own = {} \cup Firsts(new, n)
    BY <1>2, PartOrderable
  <2>4. TextOf(Merge(kept, own)) = SplicedBy(TextOf(Merge(kept, {})), new)
    BY <1>2, <1>7, <2>2, <2>3, BatchLands
  <2>5. QED
    BY <1>7, <2>1, <2>4
<1>9. QED
  BY <1>1, <1>3, <1>4, <1>5, <1>6, <1>8 DEF Landed

-----------------------------------------------------------------------------
(* What is typed and rewritten suits the text.                             *)

\* Minting does not change what an operation does to the text.
LEMMA MintedSuits ==
  ASSUME CausalOK, NEW a \in Actors, NEW kinds \in Seq(Kinds), NEW n, n = Len(kinds),
         NEW text, Suits(text, kinds, n)
  PROVE  Suits(text, Minted(a, kinds), n)
<1>1. PICK new : new = Minted(a, kinds)
  OBVIOUS
<1>2. n \in Nat /\ \A k \in 1..n : /\ new[k].kind = kinds[k].kind /\ new[k].from = kinds[k].from
                                   /\ new[k].to = kinds[k].to /\ new[k].text = kinds[k].text
  <2>1. n \in Nat /\ \A k \in 1..n : MintedAs(new[k], a, k, kinds[k])
    BY <1>1, MintedProps
  <2>2. QED
    BY <2>1 DEF MintedAs
<1>3. \A k \in 1..n : \A t : Spliced(t, new[k]) = Spliced(t, kinds[k])
  BY <1>2 DEF Spliced
<1>4. \A k \in 1..n : \A t : Fits(t, kinds[k]) => Fits(t, new[k])
  BY <1>2 DEF Fits
<1>5. CASE n = 1 /\ kinds[1].kind = "write"
  BY <1>1, <1>2, <1>5 DEF Suits
<1>6. CASE /\ \A k \in 1..n : kinds[k].kind \in {"insert", "delete"}
           /\ \E f : Splicings(f, n, text, kinds) /\ \A k \in 1..n : Fits(f[k - 1], kinds[k])
  <2>1. PICK f : Splicings(f, n, text, kinds) /\ \A k \in 1..n : Fits(f[k - 1], kinds[k])
    BY <1>6
  <2>2. ASSUME NEW k \in 0..n
        PROVE  f[k] = IF k = 0 THEN text ELSE Spliced(f[k - 1], new[k])
    <3>1. CASE k = 0
      BY <2>1, <3>1 DEF Splicings
    <3>2. CASE k # 0
      <4>1. k \in 1..n
        BY <1>2, <3>2
      <4>2. f[k] = Spliced(f[k - 1], kinds[k])
        BY <2>1, <3>2 DEF Splicings
      <4>3. QED
        BY <1>3, <3>2, <4>1, <4>2
    <3>3. QED
      BY <3>1, <3>2
  <2>3. f = [k \in 0..n |-> f[k]]
    BY <2>1 DEF Splicings
  <2>4. Splicings(f, n, text, new)
    BY <2>2, <2>3 DEF Splicings
  <2>5. \A k \in 1..n : Fits(f[k - 1], new[k])
    BY <1>4, <2>1
  <2>6. QED
    BY <1>1, <1>2, <1>6, <2>4, <2>5 DEF Suits
<1>7. QED
  BY <1>5, <1>6 DEF Suits

\* A gesture replaces a stretch of the text its author looks at.
LEMMA GestureSuits ==
  ASSUME NEW text \in Texts, NEW from \in Nat, NEW to \in Nat, from <= to, to <= Len(text),
         NEW kinds, NEW n, NEW mid \in Texts,
         \/ n = 1 /\ kinds[1] = Kind("delete", from, to, <<>>)
         \/ n = 1 /\ kinds[1] = Kind("insert", from, 0, mid)
         \/ n = 2 /\ kinds[1] = Kind("delete", from, to, <<>>)
                  /\ kinds[2] = Kind("insert", from, 0, mid)
  PROVE  Suits(text, kinds, n)
<1>1. n \in Nat /\ \A k \in 1..n : k = 1 \/ k = 2
  OBVIOUS
<1>2. PICK f : Splicings(f, n, text, kinds)
  BY <1>1, SplicingIsDefined
<1>3. f[0] = text /\ (n = 2 => f[1] = Spliced(text, kinds[1]))
  BY <1>1, <1>2 DEF Splicings
<1>4. Len(text) \in Nat
  BY DEF Texts
<1>5. Fits(text, kinds[1]) /\ kinds[1].kind \in {"insert", "delete"}
  <2>1. from <= Len(text)
    BY <1>4
  <2>2. QED
    BY <2>1 DEF Fits, Kind
<1>6. n = 2 => Fits(f[1], kinds[2]) /\ kinds[2].kind \in {"insert", "delete"}
  <2>1. SUFFICES ASSUME n = 2 PROVE Fits(f[1], kinds[2]) /\ kinds[2].kind \in {"insert", "delete"}
    OBVIOUS
  <2>2. PICK left : left = SubSeq(text, 1, from)
    OBVIOUS
  <2>3. PICK right : right = SubSeq(text, to + 1, Len(text))
    OBVIOUS
  <2>4. f[1] = left \o right
    <3>1. kinds[1].kind = "delete" /\ kinds[1].from = from /\ kinds[1].to = to
      BY <2>1 DEF Kind
    <3>2. Spliced(text, kinds[1]) = SubSeq(text, 1, from) \o SubSeq(text, to + 1, Len(text))
      BY <3>1 DEF Spliced
    <3>3. QED
      BY <1>3, <2>1, <2>2, <2>3, <3>2
  <2>5. left \in Seq(Labels) /\ Len(left) = from
    <3>1. text \in Seq(Labels) /\ 0 + from <= Len(text) /\ 0 + 1 = 1 /\ 0 + from = from
      BY <1>4 DEF Texts
    <3>2. /\ SubSeq(text, 0 + 1, 0 + from) \in Seq(Labels)
          /\ Len(SubSeq(text, 0 + 1, 0 + from)) = from
      BY <3>1, SliceOfText
    <3>3. QED
      BY <2>2, <3>1, <3>2
  <2>6. right \in Seq(Labels) /\ Len(right) \in Nat
    <3>1. PICK m \in Nat : to + m = Len(text)
      BY <1>4
    <3>2. text \in Seq(Labels) /\ to + m <= Len(text)
      BY <1>4, <3>1 DEF Texts
    <3>3. SubSeq(text, to + 1, to + m) \in Seq(Labels) /\ Len(SubSeq(text, to + 1, to + m)) = m
      BY <3>2, SliceOfText
    <3>4. QED
      BY <2>3, <3>1, <3>3
  <2>7. Len(f[1]) = from + Len(right)
    BY <2>4, <2>5, <2>6, JoinFacts
  <2>8. from <= Len(f[1])
    BY <2>6, <2>7
  <2>9. QED
    BY <2>1, <2>8 DEF Fits, Kind
<1>7. \A k \in 1..n : Fits(f[k - 1], kinds[k]) /\ kinds[k].kind \in {"insert", "delete"}
  <2>1. ASSUME NEW k \in 1..n
        PROVE  Fits(f[k - 1], kinds[k]) /\ kinds[k].kind \in {"insert", "delete"}
    <3>1. CASE k = 1
      BY <1>3, <1>5, <3>1
    <3>2. CASE k = 2
      <4>1. n = 2 /\ k - 1 = 1
        BY <3>2
      <4>2. QED
        BY <1>6, <3>2, <4>1
    <3>3. QED
      BY <1>1, <3>1, <3>2
  <2>2. QED
    BY <2>1
<1>8. QED
  BY <1>2, <1>7 DEF Suits
-----------------------------------------------------------------------------
(* A sequence sorted by ranks.                                             *)

\* A strict order of all the members of a set.
Orders(R, S) ==
    /\ \A x \in S : <<x, x>> \notin R
    /\ \A x, y \in S : x = y \/ <<x, y>> \in R \/ <<y, x>> \in R
    /\ \A x, y, z \in S : <<x, y>> \in R /\ <<y, z>> \in R => <<x, z>> \in R

\* f lists the n members of S in the order R.
Sorts(f, n, S, R) ==
    /\ n \in Nat /\ f \in [1..n -> S]
    /\ \A i, j \in 1..n : i < j => <<f[i], f[j]>> \in R
    /\ \A x \in S : \E i \in 1..n : f[i] = x

\* Each behind as many as come before it: that sorts them.
LEMMA RanksSort ==
  ASSUME NEW S, IsFiniteSet(S), NEW R, Orders(R, S), NEW n, n = Cardinality(S),
         NEW f \in [1..n -> S], \A k \in 1..n : Cardinality(Below(S, R, f[k])) = k - 1
  PROVE  Sorts(f, n, S, R)
<1>1. n \in Nat
  BY FS_CardinalityType
<1>2. /\ \A x \in S : <<x, x>> \notin R
      /\ \A x, y \in S : x = y \/ <<x, y>> \in R \/ <<y, x>> \in R
      /\ \A x, y, z \in S : <<x, y>> \in R /\ <<y, z>> \in R => <<x, z>> \in R
  BY DEF Orders
<1>3. ASSUME NEW x \in S
      PROVE  IsFiniteSet(Below(S, R, x)) /\ Cardinality(Below(S, R, x)) \in 0..(n - 1)
  <2>1. x \notin Below(S, R, x) /\ Below(S, R, x) \subseteq S
    BY <1>2 DEF Below
  <2>2. IsFiniteSet(Below(S, R, x)) /\ Cardinality(Below(S, R, x)) <= n
        /\ Cardinality(Below(S, R, x)) # n /\ Cardinality(Below(S, R, x)) \in Nat
    BY <2>1, FS_Subset, FS_CardinalityType
  <2>3. QED
    BY <1>1, <2>2
<1>4. ASSUME NEW x \in S, NEW y \in S, <<x, y>> \in R
      PROVE  Cardinality(Below(S, R, x)) < Cardinality(Below(S, R, y))
  <2>1. Below(S, R, x) \subseteq Below(S, R, y) /\ x \in Below(S, R, y) /\ x \notin Below(S, R, x)
    BY <1>2, <1>4 DEF Below
  <2>2. IsFiniteSet(Below(S, R, y)) /\ Below(S, R, x) # Below(S, R, y)
    BY <1>3, <2>1
  <2>3. Cardinality(Below(S, R, x)) <= Cardinality(Below(S, R, y))
        /\ Cardinality(Below(S, R, x)) # Cardinality(Below(S, R, y))
    BY <2>1, <2>2, FS_Subset
  <2>4. Cardinality(Below(S, R, x)) \in Nat /\ Cardinality(Below(S, R, y)) \in Nat
    BY <1>3
  <2>5. QED
    BY <2>3, <2>4
<1>5. ASSUME NEW i \in 1..n, NEW j \in 1..n, i < j PROVE <<f[i], f[j]>> \in R
  <2>1. f[i] \in S /\ f[j] \in S
    OBVIOUS
  <2>2. Cardinality(Below(S, R, f[i])) = i - 1 /\ Cardinality(Below(S, R, f[j])) = j - 1
    OBVIOUS
  <2>3. f[i] # f[j]
    BY <1>5, <2>2
  <2>4. <<f[j], f[i]>> \notin R
    <3>1. SUFFICES ASSUME <<f[j], f[i]>> \in R PROVE FALSE
      OBVIOUS
    <3>2. j - 1 < i - 1
      BY <1>4, <2>1, <2>2, <3>1
    <3>3. QED
      BY <1>5, <3>2
  <2>5. QED
    BY <1>2, <2>1, <2>3, <2>4
<1>6. ASSUME NEW x \in S PROVE \E i \in 1..n : f[i] = x
  <2>1. PICK k \in Nat : k = Cardinality(Below(S, R, x)) /\ k < n
    BY <1>1, <1>3
  <2>2. PICK i \in 1..n : i = k + 1 /\ i - 1 = k
    BY <1>1, <2>1
  <2>3. f[i] \in S /\ Cardinality(Below(S, R, f[i])) = k
    BY <2>2
  <2>4. \A m \in Nat : ~(m < m)
    OBVIOUS
  <2>5. <<f[i], x>> \notin R /\ <<x, f[i]>> \notin R
    BY <1>4, <2>1, <2>3, <2>4
  <2>6. QED
    BY <1>2, <2>3, <2>5
<1>7. QED
  BY <1>1, <1>5, <1>6 DEF Sorts

\* The deletes of an undo, from the last to the first.
LEMMA LastFirstSorts ==
  ASSUME NEW S \in SUBSET (Nat \X Nat), IsFiniteSet(S),
         \A r, s \in S : r[1] = s[1] => r = s
  PROVE  Sorts(LastFirst(S), Cardinality(S), S, {p \in S \X S : p[1][1] > p[2][1]})
<1>1. PICK R : R = {p \in S \X S : p[1][1] > p[2][1]}
  OBVIOUS
<1>2. \A x, y \in S : <<x, y>> \in R <=> x[1] > y[1]
  BY <1>1
<1>3. \A x \in S : x[1] \in Nat
  OBVIOUS
<1>4. Orders(R, S)
  BY <1>2, <1>3 DEF Orders
<1>5. PICK n : n = Cardinality(S)
  OBVIOUS
<1>6. PICK f : f = LastFirst(S)
  OBVIOUS
<1>7. n \in Nat /\ f \in [1..n -> S]
  BY <1>5, <1>6, LastFirstProps
<1>8. \A x \in S : Below(S, R, x) = {y \in S : y[1] > x[1]}
  BY <1>2 DEF Below
<1>9. ASSUME NEW k \in 1..n PROVE Cardinality(Below(S, R, f[k])) = k - 1
  <2>1. f[k] = CHOOSE x \in S : Cardinality({y \in S : y[1] > x[1]}) = k - 1
    BY <1>5, <1>6, <1>9 DEF LastFirst, InOrder
  <2>2. \E x \in S : Cardinality(Below(S, R, x)) = k - 1
    BY <1>4, <1>5, EveryPlaceIsTaken DEF Orders
  <2>3. \E x \in S : Cardinality({y \in S : y[1] > x[1]}) = k - 1
    BY <1>8, <2>2
  <2>4. f[k] \in S /\ Cardinality({y \in S : y[1] > f[k][1]}) = k - 1
    BY <2>1, <2>3
  <2>5. QED
    BY <1>8, <2>4
<1>10. Sorts(f, n, S, R)
  BY <1>4, <1>5, <1>7, <1>9, RanksSort
<1>11. QED
  BY <1>1, <1>5, <1>6, <1>10

\* The first m of the places are those of low, and no others are.
Leads(q, n, S, low, p, m) ==
    /\ m \in Nat /\ m <= n
    /\ \A i \in 1..m : q[i] = p[i] /\ q[i] \in low
    /\ \A i \in 1..n : m < i => q[i] \in S \ low

\* The places before all others come first.
LEMMA LeadingPlaces ==
  ASSUME NEW S \in SUBSET Nat, NEW q, NEW n, Enumerates(q, n, S),
         NEW low, low \subseteq S, \A x \in S \ low : \A y \in low : y < x,
         NEW p, NEW m, Enumerates(p, m, low)
  PROVE  Leads(q, n, S, low, p, m)
<1>1. /\ n \in Nat /\ q \in [1..n -> S] /\ (\A i \in 1..n : q[i] \in S /\ q[i] \in Nat)
      /\ \A i, j \in 1..n : i < j => q[i] < q[j]
      /\ \A x \in S : \E i \in 1..n : q[i] = x
  BY DEF Enumerates
<1>2. PICK I : I = {i \in 1..n : q[i] \in low}
  OBVIOUS
<1>3. I \in SUBSET Nat /\ I \in SUBSET (1..n) /\ IsFiniteSet(I)
  <2>1. IsFiniteSet(1..n)
    BY <1>1, FS_Interval
  <2>2. QED
    BY <1>1, <1>2, <2>1, FS_Subset
<1>4. PICK c : c = Max({0} \cup I)
  OBVIOUS
<1>5. c \in Nat /\ (\A i \in I : i <= c) /\ (c \in I \/ (c = 0 /\ I = {}))
  <2>1. I \in SUBSET (Nat \ {0})
    BY <1>1, <1>3
  <2>2. QED
    BY <1>3, <1>4, <2>1, GreatestNumber
<1>6. ASSUME NEW i \in I, NEW j \in 1..n, j < i PROVE j \in I
  <2>1. i \in 1..n /\ q[i] \in low
    BY <1>2
  <2>2. q[j] < q[i] /\ q[j] \in S /\ q[j] \in Nat /\ q[i] \in Nat
    BY <1>1, <1>6, <2>1
  <2>3. ~(q[i] < q[j])
    BY <2>2
  <2>4. q[j] \in low
    BY <2>1, <2>2, <2>3
  <2>5. QED
    BY <1>2, <2>4
<1>7. c <= n /\ \A i \in 1..c : i \in 1..n /\ q[i] \in low
  <2>1. c <= n
    BY <1>1, <1>3, <1>5
  <2>2. ASSUME NEW i \in 1..c PROVE i \in 1..n /\ q[i] \in low
    <3>1. i \in 1..n /\ c \in I
      BY <1>1, <1>5, <2>1
    <3>2. i \in I
      BY <1>5, <1>6, <3>1
    <3>3. QED
      BY <1>2, <3>1, <3>2
  <2>3. QED
    BY <2>1, <2>2
<1>8. PICK r : r = [i \in 1..c |-> q[i]]
  OBVIOUS
<1>9. Enumerates(r, c, low)
  <2>1. r \in [1..c -> low]
    BY <1>7, <1>8
  <2>2. \A i, j \in 1..c : i < j => r[i] < r[j]
    BY <1>1, <1>7, <1>8
  <2>3. ASSUME NEW x \in low PROVE \E i \in 1..c : r[i] = x
    <3>1. PICK i \in 1..n : q[i] = x
      BY <1>1
    <3>2. i \in I
      BY <1>2, <3>1
    <3>3. i \in 1..c
      BY <1>5, <3>2
    <3>4. QED
      BY <1>8, <3>1, <3>3
  <2>4. QED
    BY <1>5, <2>1, <2>2, <2>3 DEF Enumerates
<1>10. low \in SUBSET Nat
  OBVIOUS
<1>11. c = m /\ r = p
  BY <1>9, <1>10, EnumerationsAgree
<1>12. \A i \in 1..m : q[i] = p[i] /\ q[i] \in low
  BY <1>7, <1>8, <1>11
<1>13. ASSUME NEW i \in 1..n, m < i PROVE q[i] \in S \ low
  <2>1. i \notin I
    <3>1. ~(i <= c)
      BY <1>5, <1>11, <1>13
    <3>2. QED
      BY <1>5, <3>1
  <2>2. QED
    BY <1>1, <1>2, <2>1
<1>14. QED
  BY <1>5, <1>7, <1>11, <1>12, <1>13 DEF Leads

\* The live atoms, by their places.
LiveAt(atoms, at, n) ==
    /\ Live(atoms) = [k \in 1..n |-> atoms[at[k]]]
    /\ Reads(TextOf(atoms), at, n, LivePlaces(atoms), LabelsOf(atoms))

\* The living atoms stand at the live places, in their order.
LEMMA LiveFacts ==
  ASSUME NEW atoms \in Seq(Atoms)
  PROVE  LiveAt(atoms, Ascending(LivePlaces(atoms)), Len(TextOf(atoms)))
<1>1. PICK n : n = Len(TextOf(atoms))
  OBVIOUS
<1>2. PICK at : at = Ascending(LivePlaces(atoms))
  OBVIOUS
<1>3. Reads(TextOf(atoms), at, n, LivePlaces(atoms), LabelsOf(atoms))
  BY <1>1, <1>2, TextReads
<1>4. DOMAIN at = 1..n
  BY <1>3 DEF Reads, Enumerates
<1>5. Live(atoms) = [k \in 1..n |-> atoms[at[k]]]
  <2>1. at = Ascending({i \in DOMAIN atoms : Alive(atoms[i])})
    BY <1>2 DEF LivePlaces
  <2>2. QED
    BY <1>4, <2>1 DEF Live
<1>6. QED
  BY <1>1, <1>2, <1>3, <1>5 DEF LiveAt
-----------------------------------------------------------------------------
(* The deletes of an undo: the stretches of text from its targets.         *)

\* The i-th of the living atoms is text of the targets.
Ours(atoms, targets, i) == i \in DOMAIN Live(atoms) /\ Live(atoms)[i].by \in targets

\* A stretch of the targets' text, no longer one of which is.
OwnRange(atoms, targets, n, r) ==
    /\ r \in (0..n) \X (0..n) /\ r[1] < r[2]
    /\ ~Ours(atoms, targets, r[1]) /\ ~Ours(atoms, targets, r[2] + 1)
    /\ \A i \in (r[1] + 1)..r[2] : Ours(atoms, targets, i)

\* OwnRanges has just these.
LEMMA RangeFacts ==
  ASSUME NEW atoms, NEW targets, NEW n, n = Len(Live(atoms)), NEW r
  PROVE  r \in OwnRanges(atoms, targets) <=> OwnRange(atoms, targets, n, r)
  BY DEF OwnRanges, OwnRange, Ours

\* Two such stretches do not overlap.
LEMMA RangesApart ==
  ASSUME NEW atoms, NEW targets, NEW n \in Nat, NEW r, NEW s,
         OwnRange(atoms, targets, n, r), OwnRange(atoms, targets, n, s), r[1] > s[1]
  PROVE  s[2] <= r[1]
<1>1. r[1] \in Nat /\ s[1] \in Nat /\ s[2] \in Nat
  BY DEF OwnRange
<1>2. SUFFICES ASSUME r[1] < s[2] PROVE FALSE
  BY <1>1
<1>3. r[1] \in (s[1] + 1)..s[2]
  BY <1>1, <1>2
<1>4. QED
  BY <1>3 DEF OwnRange

\* Whatever is the targets' own is in one of them.
LEMMA RangesCover ==
  ASSUME NEW atoms, NEW targets, NEW n \in Nat, DOMAIN Live(atoms) = 1..n,
         NEW i \in 1..n, Ours(atoms, targets, i)
  PROVE  \E r : OwnRange(atoms, targets, n, r) /\ r[1] < i /\ i <= r[2]
<1> DEFINE ours(j) == Ours(atoms, targets, j)
<1>1. ~ours(0) /\ ~ours(n + 1)
  BY DEF Ours
<1> HIDE DEF ours
<1>2. PICK before : before = {j \in 0..(i - 1) : ~ours(j)}
  OBVIOUS
<1>3. PICK after : after = {j \in i..n : \A k \in i..j : ours(k)}
  OBVIOUS
<1>4. before \in SUBSET Nat /\ IsFiniteSet(before) /\ before # {}
  <2>1. 0 \in before
    BY <1>1, <1>2
  <2>2. IsFiniteSet(0..(i - 1)) /\ before \subseteq 0..(i - 1)
    BY <1>2, FS_Interval
  <2>3. before \in SUBSET Nat
    BY <1>2
  <2>4. IsFiniteSet(before)
    BY <2>2, FS_Subset
  <2>5. QED
    BY <2>1, <2>3, <2>4
<1>5. after \in SUBSET Nat /\ IsFiniteSet(after) /\ after # {}
  <2>1. i \in after
    BY <1>3 DEF ours
  <2>2. IsFiniteSet(i..n) /\ after \subseteq i..n
    BY <1>3, FS_Interval
  <2>3. after \in SUBSET Nat
    BY <1>3
  <2>4. IsFiniteSet(after)
    BY <2>2, FS_Subset
  <2>5. QED
    BY <2>1, <2>3, <2>4
<1>6. PICK s : s = Max(before)
  OBVIOUS
<1>7. s \in before /\ \A j \in before : s >= j
  BY <1>4, <1>6, MaxProps
<1>8. PICK e : e = Max(after)
  OBVIOUS
<1>9. e \in after /\ \A j \in after : e >= j
  BY <1>5, <1>8, MaxProps
<1>10. s \in 0..(i - 1) /\ ~ours(s) /\ e \in i..n /\ \A k \in i..e : ours(k)
  BY <1>2, <1>3, <1>7, <1>9
<1>11. ~ours(e + 1)
  <2>1. SUFFICES ASSUME ours(e + 1) PROVE FALSE
    OBVIOUS
  <2>2. e # n
    BY <1>1, <2>1
  <2>3. e + 1 \in i..n
    BY <1>10, <2>2
  <2>4. \A k \in i..(e + 1) : k \in i..e \/ k = e + 1
    BY <1>10
  <2>5. e + 1 \in after
    BY <1>3, <1>10, <2>1, <2>3, <2>4
  <2>6. ~(e >= e + 1)
    BY <1>10
  <2>7. QED
    BY <1>9, <2>5, <2>6
<1>12. ASSUME NEW k \in (s + 1)..e PROVE ours(k)
  <2>1. CASE k \in i..e
    BY <1>10, <2>1
  <2>2. CASE k \notin i..e
    <3>1. k \in 0..(i - 1) /\ ~(s >= k)
      BY <1>10, <2>2
    <3>2. QED
      BY <1>2, <1>7, <3>1
  <2>3. QED
    BY <2>1, <2>2
<1>13. PICK r : r = <<s, e>>
  OBVIOUS
<1>14. r \in (0..n) \X (0..n) /\ r[1] = s /\ r[2] = e /\ s < e /\ s < i /\ i <= e
  BY <1>10, <1>13
<1>15. OwnRange(atoms, targets, n, r)
  BY <1>10, <1>11, <1>12, <1>14 DEF OwnRange, ours
<1>16. QED
  BY <1>14, <1>15

\* What the first k deletes leave of the places at[1..n].
Uncut(at, n, ranges, k) ==
    {at[i] : i \in {j \in 1..n : \A m \in 1..k : ~(ranges[m][1] < j /\ j <= ranges[m][2])}}

\* One delete more, before all of those.
LEMMA OneCutMore ==
  ASSUME NEW A \in SUBSET Nat, NEW at, NEW n, Enumerates(at, n, A), NEW ranges, NEW k \in Nat,
         NEW from \in Nat, NEW to \in Nat, ranges[k + 1][1] = from, ranges[k + 1][2] = to,
         from <= to, to <= n, \A m \in 1..k : ranges[m][1] \in Nat /\ to <= ranges[m][1],
         NEW text, NEW q, NEW w, NEW label, Reads(text, q, w, Uncut(at, n, ranges, k), label),
         NEW op, op.kind = "delete", op.from = from, op.to = to
  PROVE  /\ Fits(text, op)
         /\ \E r, v : Reads(Spliced(text, op), r, v, Uncut(at, n, ranges, k + 1), label)
<1>1. PICK S : S = Uncut(at, n, ranges, k)
  OBVIOUS
<1>2. /\ n \in Nat /\ (\A i \in 1..n : at[i] \in A /\ at[i] \in Nat)
      /\ \A i, j \in 1..n : i < j => at[i] < at[j]
  BY DEF Enumerates
<1>3. S \in SUBSET Nat
  BY <1>1, <1>2 DEF Uncut
<1>4. PICK low : low = {at[i] : i \in 1..to}
  OBVIOUS
<1>5. PICK p : p = [i \in 1..to |-> at[i]]
  OBVIOUS
<1>6. \A i \in 1..to : i \in 1..n
  BY <1>2
<1>7. Enumerates(p, to, low)
  <2>1. p \in [1..to -> low] /\ \A x \in low : \E i \in 1..to : p[i] = x
    BY <1>4, <1>5
  <2>2. \A i, j \in 1..to : i < j => p[i] < p[j]
    BY <1>2, <1>5, <1>6
  <2>3. QED
    BY <2>1, <2>2 DEF Enumerates
<1>8. low \subseteq S
  <2>1. ASSUME NEW i \in 1..to PROVE at[i] \in S
    <3>1. i \in 1..n /\ \A m \in 1..k : ~(ranges[m][1] < i)
      BY <1>6
    <3>2. QED
      BY <1>1, <3>1 DEF Uncut
  <2>2. QED
    BY <1>4, <2>1
<1>9. \A x \in S \ low : \A y \in low : y < x
  <2>1. ASSUME NEW x \in S \ low, NEW y \in low PROVE y < x
    <3>1. PICK j \in 1..n : x = at[j]
      BY <1>1 DEF Uncut
    <3>2. PICK i \in 1..to : y = at[i]
      BY <1>4
    <3>3. ~(j \in 1..to)
      BY <1>4, <2>1, <3>1
    <3>4. i < j /\ i \in 1..n
      BY <1>2, <1>6, <3>3
    <3>5. QED
      BY <1>2, <3>1, <3>2, <3>4
  <2>2. QED
    BY <2>1
<1>10. Reads(text, q, w, S, label)
  BY <1>1
<1>11. Enumerates(q, w, S) /\ w = Len(text)
  BY <1>10 DEF Reads
<1>12. to <= w /\ \A i \in 1..to : q[i] = p[i]
  <2>1. Leads(q, w, S, low, p, to)
    BY <1>3, <1>7, <1>8, <1>9, <1>11, LeadingPlaces
  <2>2. QED
    BY <2>1 DEF Leads
<1>13. w \in Nat
  BY <1>11 DEF Enumerates
<1>14. Fits(text, op)
  <2>1. from <= w
    BY <1>12, <1>13
  <2>2. QED
    BY <1>11, <1>12, <2>1 DEF Fits
<1>15. PICK r : Reads(Spliced(text, op), r, w - (to - from), S \ {q[i] : i \in (from + 1)..to}, label)
  <2>1. op.from \in Nat /\ op.to \in Nat /\ op.from <= op.to /\ op.to <= w
    BY <1>12
  <2>2. \E r : Reads(Spliced(text, op), r, w - (op.to - op.from),
                     S \ {q[i] : i \in (op.from + 1)..op.to}, label)
    BY <1>3, <1>10, <2>1, CutReads
  <2>3. QED
    BY <2>2
<1>16. S \ {q[i] : i \in (from + 1)..to} = Uncut(at, n, ranges, k + 1)
  <2>1. \A i \in (from + 1)..to : i \in 1..to /\ i \in 1..n /\ q[i] = at[i] /\ from < i /\ i <= to
    BY <1>5, <1>6, <1>12
  <2>2. \A m : m \in 1..(k + 1) <=> (m \in 1..k \/ m = k + 1)
    OBVIOUS
  <2>3. ASSUME NEW x \in S, x \notin {q[i] : i \in (from + 1)..to}
        PROVE  x \in Uncut(at, n, ranges, k + 1)
    <3>1. PICK j \in 1..n : x = at[j] /\ \A m \in 1..k : ~(ranges[m][1] < j /\ j <= ranges[m][2])
      BY <1>1 DEF Uncut
    <3>2. ~(from < j /\ j <= to)
      <4>1. SUFFICES ASSUME from < j, j <= to PROVE FALSE
        OBVIOUS
      <4>2. j \in (from + 1)..to
        BY <4>1
      <4>3. q[j] = x
        BY <2>1, <3>1, <4>2
      <4>4. QED
        BY <2>3, <4>2, <4>3
    <3>3. \A m \in 1..(k + 1) : ~(ranges[m][1] < j /\ j <= ranges[m][2])
      BY <2>2, <3>1, <3>2
    <3>4. QED
      BY <3>1, <3>3 DEF Uncut
  <2>4. ASSUME NEW x \in Uncut(at, n, ranges, k + 1)
        PROVE  x \in S /\ x \notin {q[i] : i \in (from + 1)..to}
    <3>1. PICK j \in 1..n : x = at[j]
                            /\ \A m \in 1..(k + 1) : ~(ranges[m][1] < j /\ j <= ranges[m][2])
      BY DEF Uncut
    <3>2. (\A m \in 1..k : ~(ranges[m][1] < j /\ j <= ranges[m][2])) /\ ~(from < j /\ j <= to)
      BY <2>2, <3>1
    <3>3. x \in S
      BY <1>1, <3>1, <3>2 DEF Uncut
    <3>4. ASSUME NEW i \in (from + 1)..to PROVE q[i] # x
      <4>1. i # j /\ i \in 1..n
        BY <2>1, <3>2
      <4>2. i < j \/ j < i
        BY <1>2, <4>1
      <4>3. at[i] \in Nat /\ at[j] \in Nat /\ (at[i] < at[j] \/ at[j] < at[i])
        BY <1>2, <4>1, <4>2
      <4>4. at[i] # at[j]
        BY <4>3
      <4>5. QED
        BY <2>1, <3>1, <4>4
    <3>5. QED
      BY <3>3, <3>4
  <2>5. QED
    BY <2>3, <2>4
<1>17. QED
  BY <1>14, <1>15, <1>16

\* The deletes of an undo, each within the text that those before have left.
Cuts(atoms, targets, nd, kinds) ==
    /\ nd = Cardinality(OwnRanges(atoms, targets))
    /\ \A k \in 1..nd : /\ kinds[k].kind = "delete"
                        /\ kinds[k].from = LastFirst(OwnRanges(atoms, targets))[k][1]
                        /\ kinds[k].to = LastFirst(OwnRanges(atoms, targets))[k][2]

\* The live text that is not from the targets.
Theirs(atoms, targets) == {p \in LivePlaces(atoms) : atoms[p].by \notin targets}

\* The ranges of an undo, from the last to the first, and apart.
RangesOf(ranges, nd, atoms, targets, n) ==
    /\ nd \in Nat
    /\ \A k \in 1..nd : OwnRange(atoms, targets, n, ranges[k])
    /\ \A k \in 1..nd : \A m \in 1..nd : m < k => ranges[k][2] <= ranges[m][1]
    /\ \A r : OwnRange(atoms, targets, n, r) => \E k \in 1..nd : ranges[k] = r

\* LastFirst lists them from the last to the first.
LEMMA RangesInOrder ==
  ASSUME NEW atoms \in Seq(Atoms), NEW targets, NEW n, n = Len(Live(atoms)),
         NEW nd, nd = Cardinality(OwnRanges(atoms, targets)),
         NEW ranges, ranges = LastFirst(OwnRanges(atoms, targets))
  PROVE  RangesOf(ranges, nd, atoms, targets, n)
<1>1. PICK S : S = OwnRanges(atoms, targets)
  OBVIOUS
<1>2. S \in SUBSET (Nat \X Nat) /\ IsFiniteSet(S) /\ \A r, s \in S : r[1] = s[1] => r = s
  BY <1>1, RangesProps
<1>3. PICK R : R = {p \in S \X S : p[1][1] > p[2][1]}
  OBVIOUS
<1>4. Sorts(ranges, nd, S, R)
  BY <1>1, <1>2, <1>3, LastFirstSorts
<1>5. /\ nd \in Nat /\ (\A k \in 1..nd : ranges[k] \in S)
      /\ (\A i, j \in 1..nd : i < j => <<ranges[i], ranges[j]>> \in R)
      /\ \A r \in S : \E k \in 1..nd : ranges[k] = r
  BY <1>4 DEF Sorts
<1>6. n \in Nat
  <2>1. Live(atoms) \in Seq(Atoms)
    BY LiveProps
  <2>2. QED
    BY <2>1
<1>7. \A r : r \in S <=> OwnRange(atoms, targets, n, r)
  BY <1>1, RangeFacts
<1>8. ASSUME NEW k \in 1..nd, NEW m \in 1..nd, m < k PROVE ranges[k][2] <= ranges[m][1]
  <2>1. ranges[m][1] > ranges[k][1]
    <3>1. <<ranges[m], ranges[k]>> \in R
      BY <1>5, <1>8
    <3>2. QED
      BY <1>3, <3>1
  <2>2. OwnRange(atoms, targets, n, ranges[m]) /\ OwnRange(atoms, targets, n, ranges[k])
    BY <1>5, <1>7
  <2>3. QED
    BY <1>6, <2>1, <2>2, RangesApart
<1>9. QED
  BY <1>5, <1>7, <1>8 DEF RangesOf

\* When all are deleted, the text that is not from the targets is left.
LEMMA AllCut ==
  ASSUME NEW atoms \in Seq(Atoms), NEW targets, NEW at, NEW n, LiveAt(atoms, at, n),
         NEW ranges, NEW nd, RangesOf(ranges, nd, atoms, targets, n)
  PROVE  Uncut(at, n, ranges, nd) = Theirs(atoms, targets)
<1>1. PICK A : A = LivePlaces(atoms)
  OBVIOUS
<1>2. Enumerates(at, n, A)
  BY <1>1 DEF LiveAt, Reads
<1>3. n \in Nat /\ (\A i \in 1..n : at[i] \in A) /\ \A x \in A : \E i \in 1..n : at[i] = x
  BY <1>2 DEF Enumerates
<1>4. DOMAIN Live(atoms) = 1..n /\ \A i \in 1..n : Live(atoms)[i] = atoms[at[i]]
  BY DEF LiveAt
<1>5. nd \in Nat
  BY DEF RangesOf
<1>6. ASSUME NEW i \in 1..n
      PROVE  (\E k \in 1..nd : ranges[k][1] < i /\ i <= ranges[k][2]) <=> atoms[at[i]].by \in targets
  <2>1. ASSUME NEW k \in 1..nd, ranges[k][1] < i, i <= ranges[k][2]
        PROVE  atoms[at[i]].by \in targets
    <3>1. OwnRange(atoms, targets, n, ranges[k])
      BY DEF RangesOf
    <3>2. i \in (ranges[k][1] + 1)..ranges[k][2]
      <4>1. ranges[k][1] \in Nat /\ ranges[k][2] \in Nat
        BY <3>1 DEF OwnRange
      <4>2. QED
        BY <1>3, <2>1, <4>1
    <3>3. Ours(atoms, targets, i)
      BY <3>1, <3>2 DEF OwnRange
    <3>4. QED
      BY <1>4, <3>3 DEF Ours
  <2>2. ASSUME atoms[at[i]].by \in targets
        PROVE  \E k \in 1..nd : ranges[k][1] < i /\ i <= ranges[k][2]
    <3>1. Ours(atoms, targets, i)
      BY <1>4, <2>2 DEF Ours
    <3>2. PICK r : OwnRange(atoms, targets, n, r) /\ r[1] < i /\ i <= r[2]
      BY <1>3, <1>4, <3>1, RangesCover
    <3>3. PICK k \in 1..nd : ranges[k] = r
      BY <3>2 DEF RangesOf
    <3>4. QED
      BY <3>2, <3>3
  <2>3. QED
    BY <2>1, <2>2
<1>7. ASSUME NEW x PROVE x \in Uncut(at, n, ranges, nd) <=> x \in Theirs(atoms, targets)
  <2>1. ASSUME x \in Uncut(at, n, ranges, nd) PROVE x \in Theirs(atoms, targets)
    <3>1. PICK i \in 1..n : x = at[i] /\ \A m \in 1..nd : ~(ranges[m][1] < i /\ i <= ranges[m][2])
      BY <2>1 DEF Uncut
    <3>2. atoms[at[i]].by \notin targets
      BY <1>6, <3>1
    <3>3. QED
      BY <1>1, <1>3, <3>1, <3>2 DEF Theirs
  <2>2. ASSUME x \in Theirs(atoms, targets) PROVE x \in Uncut(at, n, ranges, nd)
    <3>1. x \in A /\ atoms[x].by \notin targets
      BY <1>1, <2>2 DEF Theirs
    <3>2. PICK i \in 1..n : at[i] = x
      BY <1>3, <3>1
    <3>3. \A m \in 1..nd : ~(ranges[m][1] < i /\ i <= ranges[m][2])
      BY <1>6, <3>1, <3>2
    <3>4. QED
      BY <3>2, <3>3 DEF Uncut
  <2>3. QED
    BY <2>1, <2>2
<1>8. QED
  BY <1>7

\* The deletes of an undo fit, and leave the text that is not the targets'.
LEMMA CutsRead ==
  ASSUME NEW atoms \in Seq(Atoms), NEW targets, NEW nd, NEW kinds,
         Cuts(atoms, targets, nd, kinds), NEW N \in Nat, nd <= N,
         NEW f, Splicings(f, N, TextOf(atoms), kinds)
  PROVE  /\ nd \in Nat /\ \A k \in 1..nd : Fits(f[k - 1], kinds[k])
         /\ \E q, w : Reads(f[nd], q, w, Theirs(atoms, targets), LabelsOf(atoms))
<1>1. PICK text : text = TextOf(atoms)
  OBVIOUS
<1>2. PICK n : n = Len(text)
  OBVIOUS
<1>3. PICK at : at = Ascending(LivePlaces(atoms))
  OBVIOUS
<1>4. PICK A \in SUBSET Nat : A = LivePlaces(atoms)
  BY LivePlacesType
<1>5. PICK label : label = LabelsOf(atoms)
  OBVIOUS
<1>6. LiveAt(atoms, at, n) /\ Reads(text, at, n, A, label)
  <2>1. LiveAt(atoms, at, n)
    BY <1>1, <1>2, <1>3, LiveFacts
  <2>2. QED
    BY <1>1, <1>4, <1>5, <2>1 DEF LiveAt
<1>7. Enumerates(at, n, A) /\ n \in Nat
  BY <1>6 DEF Reads, Enumerates
<1>8. n = Len(Live(atoms))
  <2>1. DOMAIN Live(atoms) = 1..n
    BY <1>6 DEF LiveAt
  <2>2. Live(atoms) \in Seq(Atoms)
    BY LiveProps
  <2>3. DOMAIN Live(atoms) = 1..Len(Live(atoms)) /\ Len(Live(atoms)) \in Nat
    BY <2>2, SequenceFacts
  <2>4. QED
    BY <1>7, <2>1, <2>3
<1>9. PICK ranges : ranges = LastFirst(OwnRanges(atoms, targets))
  OBVIOUS
<1>10. RangesOf(ranges, nd, atoms, targets, n)
  BY <1>8, <1>9, RangesInOrder DEF Cuts
<1>11. nd \in Nat
  BY <1>10 DEF RangesOf
<1>12. \A k \in 1..nd : kinds[k].kind = "delete" /\ kinds[k].from = ranges[k][1]
                        /\ kinds[k].to = ranges[k][2]
  BY <1>9 DEF Cuts
<1> DEFINE P(k) == \E q, w : Reads(f[k], q, w, Uncut(at, n, ranges, k), label)
           T == {k \in Nat : k <= nd => P(k) /\ (k # 0 => Fits(f[k - 1], kinds[k]))}
<1>13. 0 \in T
  <2>1. f[0] = text
    BY <1>1 DEF Splicings
  <2>2. Uncut(at, n, ranges, 0) = {at[i] : i \in 1..n}
    BY DEF Uncut
  <2>3. {at[i] : i \in 1..n} = A
    BY <1>7 DEF Enumerates
  <2>4. P(0)
    BY <1>6, <2>1, <2>2, <2>3
  <2>5. QED
    BY <2>4
<1>14. ASSUME NEW k \in Nat, k \in T PROVE k + 1 \in T
  <2>1. SUFFICES ASSUME k + 1 <= nd PROVE P(k + 1) /\ Fits(f[k], kinds[k + 1])
    OBVIOUS
  <2>2. PICK i : i = k + 1
    OBVIOUS
  <2>3. i \in 1..nd /\ i \in 0..N /\ i # 0 /\ i - 1 = k /\ k <= nd
    BY <1>11, <2>1, <2>2
  <2>4. PICK q, w : Reads(f[k], q, w, Uncut(at, n, ranges, k), label)
    BY <1>14, <2>3
  <2>5. f[i] = Spliced(f[k], kinds[i])
    BY <2>3 DEF Splicings
  <2>6. PICK op : op = kinds[i]
    OBVIOUS
  <2>7. PICK from \in Nat, to \in Nat :
            from = ranges[i][1] /\ to = ranges[i][2] /\ from <= to /\ to <= n
    <3>1. OwnRange(atoms, targets, n, ranges[i])
      BY <1>10, <2>3 DEF RangesOf
    <3>2. ranges[i][1] \in 0..n /\ ranges[i][2] \in 0..n /\ ranges[i][1] < ranges[i][2]
      BY <3>1 DEF OwnRange
    <3>3. QED
      BY <1>7, <3>2
  <2>8. op.kind = "delete" /\ op.from = from /\ op.to = to
    BY <1>12, <2>3, <2>6, <2>7
  <2>9. \A m \in 1..k : ranges[m][1] \in Nat /\ to <= ranges[m][1]
    <3>1. ASSUME NEW m \in 1..k PROVE ranges[m][1] \in Nat /\ to <= ranges[m][1]
      <4>1. m \in 1..nd /\ m < i
        BY <1>11, <2>1, <2>2
      <4>2. OwnRange(atoms, targets, n, ranges[m]) /\ ranges[i][2] <= ranges[m][1]
        BY <1>10, <2>3, <4>1 DEF RangesOf
      <4>3. QED
        BY <2>7, <4>2 DEF OwnRange
    <3>2. QED
      BY <3>1
  <2>10. PICK t : t = f[k]
    OBVIOUS
  <2>11. Reads(t, q, w, Uncut(at, n, ranges, k), label)
    BY <2>4, <2>10
  <2>12. ranges[k + 1][1] = from /\ ranges[k + 1][2] = to
    BY <2>2, <2>7
  <2>13. /\ Fits(t, op)
         /\ \E r, v : Reads(Spliced(t, op), r, v, Uncut(at, n, ranges, k + 1), label)
    BY <1>7, <2>7, <2>8, <2>9, <2>11, <2>12, OneCutMore
  <2>14. QED
    BY <2>2, <2>5, <2>6, <2>10, <2>13
<1> HIDE DEF T
<1>15. \A k \in Nat : k \in T
  BY <1>13, <1>14, SetInduction
<1>16. \A k \in 1..nd : Fits(f[k - 1], kinds[k])
  BY <1>15 DEF T
<1>17. P(nd)
  BY <1>11, <1>15 DEF T
<1>18. Uncut(at, n, ranges, nd) = Theirs(atoms, targets)
  BY <1>6, <1>10, AllCut
<1>19. QED
  BY <1>5, <1>11, <1>16, <1>17, <1>18
-----------------------------------------------------------------------------
(* The inserts of an undo: the text that only its targets had deleted.     *)

\* The targets' text left out, what stands before gap g.
Low(atoms, targets, at, g) == {at[i] : i \in {j \in 1..g : atoms[at[j]].by \notin targets}}

\* That is as much text as the inverse counts up to the gap.
LEMMA KeptLow ==
  ASSUME NEW atoms \in Seq(Atoms), NEW targets, NEW at, NEW n, LiveAt(atoms, at, n),
         NEW g \in 0..n
  PROVE  /\ Low(atoms, targets, at, g) \subseteq Theirs(atoms, targets)
         /\ \E p : Enumerates(p, Kept(atoms, targets, g), Low(atoms, targets, at, g))
<1>1. /\ n \in Nat /\ (\A i \in 1..n : at[i] \in LivePlaces(atoms))
      /\ \A i, j \in 1..n : i < j => at[i] < at[j]
  BY DEF LiveAt, Reads, Enumerates
<1>2. \A i \in 1..n : Live(atoms)[i] = atoms[at[i]]
  BY DEF LiveAt
<1>3. PICK I : I = {i \in 1..g : atoms[at[i]].by \notin targets}
  OBVIOUS
<1>4. PICK c : c = Cardinality(I)
  OBVIOUS
<1>5. PICK low : low = {at[i] : i \in I}
  OBVIOUS
<1>6. g \in Nat /\ \A i \in 1..g : i \in 1..n
  BY <1>1
<1>7. low = Low(atoms, targets, at, g)
  BY <1>3, <1>5 DEF Low
<1>8. I = {i \in 1..g : Live(atoms)[i].by \notin targets}
  BY <1>2, <1>3, <1>6
<1>9. c = Kept(atoms, targets, g)
  BY <1>4, <1>8 DEF Kept
<1>10. I \in SUBSET Nat /\ IsFiniteSet(I) /\ I \subseteq 1..g
  <2>1. IsFiniteSet(1..g) /\ I \subseteq 1..g /\ I \in SUBSET Nat
    BY <1>3, <1>6, FS_Interval
  <2>2. QED
    BY <2>1, FS_Subset
<1>11. PICK e : Enumerates(e, c, I)
  BY <1>4, <1>10, AscendingEnumerates
<1>12. /\ c \in Nat /\ (\A k \in 1..c : e[k] \in I)
       /\ (\A i, j \in 1..c : i < j => e[i] < e[j])
       /\ \A x \in I : \E k \in 1..c : e[k] = x
  BY <1>11 DEF Enumerates
<1>13. \A k \in 1..c : e[k] \in 1..n
  BY <1>6, <1>10, <1>12
<1>14. PICK p : p = [k \in 1..c |-> at[e[k]]]
  OBVIOUS
<1>15. Enumerates(p, c, low)
  <2>1. p \in [1..c -> low]
    BY <1>5, <1>12, <1>14
  <2>2. \A i, j \in 1..c : i < j => p[i] < p[j]
    BY <1>1, <1>12, <1>13, <1>14
  <2>3. \A x \in low : \E k \in 1..c : p[k] = x
    BY <1>5, <1>12, <1>14
  <2>4. QED
    BY <1>12, <2>1, <2>2, <2>3 DEF Enumerates
<1>16. low \subseteq Theirs(atoms, targets)
  BY <1>1, <1>3, <1>5, <1>6 DEF Theirs
<1>17. QED
  BY <1>7, <1>9, <1>15, <1>16

\* What stands behind a gap stands behind all that stands before it.
LEMMA LowIsFirst ==
  ASSUME NEW atoms \in Seq(Atoms), NEW targets, NEW at, NEW n, LiveAt(atoms, at, n),
         NEW g \in 0..n, NEW low, low = Low(atoms, targets, at, g),
         NEW x \in Theirs(atoms, targets), x \notin low
  PROVE  \E j \in 1..n : x = at[j] /\ g < j
<1>1. n \in Nat /\ \A y \in LivePlaces(atoms) : \E i \in 1..n : at[i] = y
  BY DEF LiveAt, Reads, Enumerates
<1>2. PICK j \in 1..n : x = at[j] /\ atoms[at[j]].by \notin targets
  BY <1>1 DEF Theirs
<1>3. j \notin 1..g
  BY <1>2 DEF Low
<1>4. QED
  BY <1>1, <1>2, <1>3

\* An offset among the text that outlasts the undo.
LEMMA KeptFits ==
  ASSUME NEW atoms \in Seq(Atoms), NEW targets, NEW at, NEW n, LiveAt(atoms, at, n),
         NEW g \in 0..n, NEW q, NEW w, Enumerates(q, w, Theirs(atoms, targets))
  PROVE  Kept(atoms, targets, g) <= w
<1>1. PICK low : low = Low(atoms, targets, at, g)
  OBVIOUS
<1>2. PICK c : c = Kept(atoms, targets, g)
  OBVIOUS
<1>3. PICK S : S = Theirs(atoms, targets)
  OBVIOUS
<1>4. low \subseteq S /\ \E p : Enumerates(p, c, low)
  BY <1>1, <1>2, <1>3, KeptLow
<1>5. PICK p : Enumerates(p, c, low)
  BY <1>4
<1>6. S \in SUBSET Nat
  <2>1. LivePlaces(atoms) \in SUBSET Nat
    BY LivePlacesType
  <2>2. QED
    BY <1>3, <2>1 DEF Theirs
<1>7. \A x \in S \ low : \A y \in low : y < x
  <2>1. ASSUME NEW x \in S \ low, NEW y \in low PROVE y < x
    <3>1. PICK j \in 1..n : x = at[j] /\ g < j
      BY <1>1, <1>3, LowIsFirst
    <3>2. PICK i \in 1..g : y = at[i]
      BY <1>1 DEF Low
    <3>3. n \in Nat /\ \A k, l \in 1..n : k < l => at[k] < at[l]
      BY DEF LiveAt, Reads, Enumerates
    <3>4. i \in 1..n /\ i < j
      BY <3>1, <3>3
    <3>5. QED
      BY <3>1, <3>2, <3>3, <3>4
  <2>2. QED
    BY <2>1
<1>8. Leads(q, w, S, low, p, c)
  BY <1>3, <1>4, <1>5, <1>6, <1>7, LeadingPlaces
<1>9. QED
  BY <1>2, <1>8 DEF Leads

\* A text does not get shorter by inserts.
LEMMA InsertsFit ==
  ASSUME NEW text, NEW kinds, NEW N \in Nat, NEW nd \in Nat, nd <= N,
         NEW f, Splicings(f, N, text, kinds), NEW w \in Nat, f[nd] \in Texts, Len(f[nd]) = w,
         \A k \in 1..N : nd < k => /\ kinds[k].kind = "insert" /\ kinds[k].text \in Texts
                                   /\ kinds[k].from \in Nat /\ kinds[k].from <= w
  PROVE  \A k \in 1..N : nd < k => Fits(f[k - 1], kinds[k])
<1> DEFINE P(k) == f[k] \in Texts /\ w <= Len(f[k])
           T == {j \in Nat : nd + j <= N => P(nd + j)}
<1>1. 0 \in T
  OBVIOUS
<1>2. ASSUME NEW j \in Nat, j \in T PROVE j + 1 \in T
  <2>1. SUFFICES ASSUME nd + (j + 1) <= N PROVE P(nd + (j + 1))
    OBVIOUS
  <2>2. PICK k \in Nat : k = nd + (j + 1)
    OBVIOUS
  <2>3. k \in 1..N /\ nd < k /\ k \in 0..N /\ k # 0 /\ k - 1 = nd + j /\ nd + j <= N
    BY <2>1, <2>2
  <2>4. P(nd + j)
    BY <1>2, <2>3
  <2>5. PICK t : t = f[nd + j]
    OBVIOUS
  <2>6. t \in Texts /\ w <= Len(t) /\ Len(t) \in Nat
    BY <2>4, <2>5 DEF Texts
  <2>7. PICK from \in Nat, mid \in Texts :
            from = kinds[k].from /\ mid = kinds[k].text /\ from <= w
    BY <2>3
  <2>8. f[k] = SubSeq(t, 1, from) \o mid \o SubSeq(t, from + 1, Len(t))
    <3>1. f[k] = Spliced(f[k - 1], kinds[k])
      BY <2>3 DEF Splicings
    <3>2. kinds[k].kind = "insert"
      BY <2>3
    <3>3. QED
      BY <2>3, <2>5, <2>7, <3>1, <3>2 DEF Spliced
  <2>9. from <= from /\ from <= Len(t)
    BY <2>6, <2>7
  <2>10. Replaced(t, from, from, mid, f[k])
    BY <2>6, <2>8, <2>9, ReplacedFacts
  <2>11. f[k] \in Texts /\ Len(f[k]) = from + Len(mid) + (Len(t) - from)
    BY <2>10 DEF Replaced
  <2>12. Len(mid) \in Nat
    BY DEF Texts
  <2>13. w <= Len(f[k])
    BY <2>6, <2>9, <2>11, <2>12
  <2>14. QED
    BY <2>2, <2>11, <2>13
<1> HIDE DEF T
<1>3. \A j \in Nat : j \in T
  BY <1>1, <1>2, SetInduction
<1>4. ASSUME NEW k \in 1..N, nd < k PROVE Fits(f[k - 1], kinds[k])
  <2>1. PICK j \in Nat : nd + j = k - 1 /\ nd + j <= N
    <3>1. (k - 1) - nd \in Nat /\ nd + ((k - 1) - nd) = k - 1 /\ k - 1 <= N
      BY <1>4
    <3>2. QED
      BY <3>1
  <2>2. f[k - 1] \in Texts /\ w <= Len(f[k - 1])
    BY <1>3, <2>1 DEF T
  <2>3. Len(f[k - 1]) \in Nat
    BY <2>2 DEF Texts
  <2>4. kinds[k].from \in Nat /\ kinds[k].from <= w /\ kinds[k].kind = "insert"
    BY <1>4
  <2>5. kinds[k].from <= Len(f[k - 1])
    BY <2>2, <2>3, <2>4
  <2>6. QED
    BY <2>4, <2>5 DEF Fits
<1>5. QED
  BY <1>4

\* A gap is a number of live atoms, those before what was lost there.
LEMMA GapFacts ==
  ASSUME NEW atoms \in Seq(Atoms), NEW at, NEW n, LiveAt(atoms, at, n),
         NEW p \in DOMAIN atoms, NEW g, g = LiveBefore(atoms, p)
  PROVE  g \in 0..n /\ \A k \in 1..n : k <= g <=> at[k] < p
<1>1. PICK A \in SUBSET Nat : A = LivePlaces(atoms)
  BY LivePlacesType
<1>2. Enumerates(at, n, A)
  BY <1>1 DEF LiveAt, Reads
<1>3. Len(atoms) \in Nat /\ DOMAIN atoms = 1..Len(atoms)
  BY SequenceFacts
<1>4. p \in Nat
  BY <1>3
<1>5. PICK low : low = {x \in A : x < p}
  OBVIOUS
<1>6. low = {j \in 1..(p - 1) : Alive(atoms[j])}
  <2>1. \A j \in Nat : j \in DOMAIN atoms /\ j < p <=> j \in 1..(p - 1)
    BY <1>3, <1>4
  <2>2. \A j \in A : j \in Nat
    OBVIOUS
  <2>3. \A j : j \in A <=> j \in DOMAIN atoms /\ Alive(atoms[j])
    BY <1>1 DEF LivePlaces
  <2>4. \A j \in 1..(p - 1) : j \in Nat
    OBVIOUS
  <2>5. ASSUME NEW j PROVE j \in low <=> (j \in 1..(p - 1) /\ Alive(atoms[j]))
    BY <1>5, <2>1, <2>2, <2>3, <2>4
  <2>6. QED
    BY <2>5
<1>7. IsFiniteSet(low) /\ low \in SUBSET Nat
  <2>1. IsFiniteSet(1..(p - 1))
    BY <1>4, FS_Interval
  <2>2. low \subseteq 1..(p - 1)
    BY <1>6
  <2>3. IsFiniteSet(low)
    BY <2>1, <2>2, FS_Subset
  <2>4. QED
    BY <1>5, <2>3
<1>8. g = Cardinality(low)
  BY <1>6 DEF LiveBefore
<1>9. Enumerates(Ascending(low), g, low)
  BY <1>7, <1>8, AscendingEnumerates
<1>10. PICK e : Enumerates(e, g, low)
  BY <1>9
<1>11. low \subseteq A /\ \A x \in A \ low : \A y \in low : y < x
  BY <1>4, <1>5
<1>12. Leads(at, n, A, low, e, g)
  BY <1>2, <1>10, <1>11, LeadingPlaces
<1>13. g \in Nat /\ g <= n /\ n \in Nat
  BY <1>2, <1>12 DEF Leads, Enumerates
<1>14. ASSUME NEW k \in 1..n PROVE k <= g <=> at[k] < p
  <2>1. k <= g => at[k] \in low
    BY <1>12, <1>13 DEF Leads
  <2>2. g < k => at[k] \in A \ low
    BY <1>12 DEF Leads
  <2>3. CASE k <= g
    BY <1>5, <2>1, <2>3
  <2>4. CASE g < k
    <3>1. ~(at[k] < p) /\ ~(k <= g)
      BY <1>5, <1>13, <2>2, <2>4
    <3>2. QED
      BY <3>1
  <2>5. QED
    BY <1>13, <2>3, <2>4
<1>15. QED
  BY <1>13, <1>14

\* The gaps of an undo, from the last offset to the first.
GapsOf(gaps, ng, atoms, targets) ==
    /\ ng \in Nat /\ \A k \in 1..ng : gaps[k] \in Gaps(atoms, targets)
    /\ \A i, j \in 1..ng : i < j =>
           \/ Kept(atoms, targets, gaps[i]) > Kept(atoms, targets, gaps[j])
           \/ /\ Kept(atoms, targets, gaps[i]) = Kept(atoms, targets, gaps[j])
              /\ gaps[i] < gaps[j]
    /\ \A g \in Gaps(atoms, targets) : \E k \in 1..ng : gaps[k] = g

\* GapsBackwards lists them so that what is kept before them only shrinks.
LEMMA GapsInOrder ==
  ASSUME NEW atoms \in Seq(Atoms), NEW targets, NEW gaps, gaps = GapsBackwards(atoms, targets)
  PROVE  \E ng \in Nat : DOMAIN gaps = 1..ng /\ GapsOf(gaps, ng, atoms, targets)
<1>1. PICK S : S = Gaps(atoms, targets)
  OBVIOUS
<1>2. S \in SUBSET (0..Len(atoms)) /\ Len(atoms) \in Nat
  <2>1. \A i \in DOMAIN atoms : LiveBefore(atoms, i) \in 0..Len(atoms)
    BY CountProps
  <2>2. QED
    BY <1>1, <2>1 DEF Gaps
<1>3. S \in SUBSET Nat /\ IsFiniteSet(S)
  <2>1. PICK I : I = 0..Len(atoms)
    OBVIOUS
  <2>2. IsFiniteSet(I) /\ S \in SUBSET I /\ I \subseteq Nat
    BY <1>2, <2>1, FS_Interval
  <2>3. QED
    BY <2>2, FS_Subset
<1> DEFINE k(g) == Kept(atoms, targets, g)
           before(g, h) == k(g) > k(h) \/ (k(g) = k(h) /\ g < h)
<1>4. PICK R : R = {p \in S \X S : before(p[1], p[2])}
  OBVIOUS
<1>5. \A x, y \in S : <<x, y>> \in R <=> before(x, y)
  BY <1>4
<1>6. \A x \in S : x \in Nat /\ k(x) \in Nat
  BY <1>3, CountProps
<1>7. /\ \A x \in S : ~before(x, x)
      /\ \A x, y \in S : x = y \/ before(x, y) \/ before(y, x)
      /\ \A x, y, z \in S : before(x, y) /\ before(y, z) => before(x, z)
  <2> HIDE DEF k
  <2> QED
    BY <1>6
<1>8. Orders(R, S)
  <2> HIDE DEF before
  <2> QED
    BY <1>5, <1>7 DEF Orders
<1>9. \A x \in S : Below(S, R, x) = {y \in S : before(y, x)}
  <2> HIDE DEF before
  <2> QED
    BY <1>5 DEF Below
<1>10. PICK n : n = Cardinality(S)
  OBVIOUS
<1>11. n \in Nat
  BY <1>3, <1>10, FS_CardinalityType
<1>12. \A i \in 1..n : \E x \in S : Cardinality({y \in S : before(y, x)}) = i - 1
  <2> HIDE DEF before
  <2>1. ASSUME NEW i \in 1..n PROVE \E x \in S : Cardinality(Below(S, R, x)) = i - 1
    BY <1>3, <1>8, <1>10, EveryPlaceIsTaken DEF Orders
  <2>2. QED
    BY <1>9, <2>1
<1>13. gaps = [i \in 1..n |->
          CHOOSE x \in S : Cardinality({y \in S : before(y, x)}) = i - 1]
  BY <1>1, <1>10 DEF GapsBackwards, InOrder
<1>14. ASSUME NEW i \in 1..n PROVE gaps[i] \in S /\ Cardinality(Below(S, R, gaps[i])) = i - 1
  <2> HIDE DEF before
  <2>1. gaps[i] \in S /\ Cardinality({y \in S : before(y, gaps[i])}) = i - 1
    BY <1>12, <1>13
  <2>2. QED
    BY <1>9, <2>1
<1>15. gaps \in [1..n -> S]
  <2> HIDE DEF before
  <2> QED
    BY <1>13, <1>14
<1>16. Sorts(gaps, n, S, R)
  <2> HIDE DEF before
  <2> QED
    BY <1>3, <1>8, <1>10, <1>14, <1>15, RanksSort
<1>17. GapsOf(gaps, n, atoms, targets)
  <2>1. \A i, j \in 1..n : i < j => before(gaps[i], gaps[j])
    <3> HIDE DEF before
    <3> QED
      BY <1>5, <1>14, <1>16 DEF Sorts
  <2>2. (\A i \in 1..n : gaps[i] \in S) /\ \A g \in S : \E i \in 1..n : gaps[i] = g
    <3> HIDE DEF before
    <3> QED
      BY <1>14, <1>16 DEF Sorts
  <2>3. QED
    BY <1>1, <1>11, <2>1, <2>2 DEF GapsOf
<1>18. QED
  BY <1>11, <1>15, <1>17

\* The inserts of an undo, behind nd deletes.
Puts(atoms, targets, nd, ng, kinds, gaps) ==
    /\ GapsOf(gaps, ng, atoms, targets)
    /\ \A k \in 1..ng : kinds[nd + k] = Kind("insert", Kept(atoms, targets, gaps[k]), 0,
                                             LostText(atoms, targets, gaps[k]))

\* The inverse is the deletes, then the inserts.
LEMMA InvertedIs ==
  ASSUME NEW set, NEW atoms \in Seq(Atoms), atoms = Merged(set), NEW targets,
         NEW kinds, kinds = Inverted(set, targets)
  PROVE  \E nd, ng \in Nat : \E gaps :
             /\ Len(kinds) = nd + ng
             /\ Cuts(atoms, targets, nd, kinds) /\ Puts(atoms, targets, nd, ng, kinds, gaps)
<1>1. PICK deletes : deletes = LastFirst(OwnRanges(atoms, targets))
  OBVIOUS
<1>2. PICK nd : nd = Cardinality(OwnRanges(atoms, targets))
  OBVIOUS
<1>3. nd \in Nat /\ deletes \in [1..nd -> OwnRanges(atoms, targets)]
      /\ OwnRanges(atoms, targets) \subseteq Nat \X Nat
  BY <1>1, <1>2, RangesProps, LastFirstProps
<1>4. PICK gaps : gaps = GapsBackwards(atoms, targets)
  OBVIOUS
<1>5. PICK ng \in Nat : DOMAIN gaps = 1..ng /\ GapsOf(gaps, ng, atoms, targets)
  BY <1>4, GapsInOrder
<1>6. PICK d : d = [i \in 1..nd |-> Kind("delete", deletes[i][1], deletes[i][2], <<>>)]
  OBVIOUS
<1>7. PICK g : g = [i \in 1..ng |-> Kind("insert", Kept(atoms, targets, gaps[i]), 0,
                                         LostText(atoms, targets, gaps[i]))]
  OBVIOUS
<1>8. kinds = d \o g
  <2>1. DOMAIN deletes = 1..nd
    BY <1>3
  <2>2. QED
    BY <1>1, <1>4, <1>5, <1>6, <1>7, <2>1 DEF Inverted
<1>9. PICK V : V = (Range(d) \cup Range(g))
  OBVIOUS
<1>10. d \in Seq(V) /\ g \in Seq(V) /\ Len(d) = nd /\ Len(g) = ng
  <2>1. d \in [1..nd -> V] /\ g \in [1..ng -> V]
    BY <1>6, <1>7, <1>9 DEF Range
  <2>2. QED
    BY <1>3, <2>1
<1>11. /\ Len(kinds) = nd + ng /\ (\A i \in 1..nd : kinds[i] = d[i])
       /\ \A i \in 1..ng : kinds[nd + i] = g[i]
  <2>1. d \in Seq(V) /\ g \in Seq(V)
    BY <1>10
  <2>2. /\ d \o g \in Seq(V) /\ Len(d \o g) = Len(d) + Len(g)
        /\ \A i \in 1..Len(d) : (d \o g)[i] = d[i]
        /\ \A i \in 1..Len(g) : (d \o g)[Len(d) + i] = g[i]
    BY <2>1, JoinFacts
  <2>3. QED
    BY <1>8, <1>10, <2>2
<1>12. Cuts(atoms, targets, nd, kinds)
  <2>1. ASSUME NEW k \in 1..nd
        PROVE  kinds[k].kind = "delete" /\ kinds[k].from = deletes[k][1] /\ kinds[k].to = deletes[k][2]
    <3>1. kinds[k] = Kind("delete", deletes[k][1], deletes[k][2], <<>>)
      BY <1>6, <1>11
    <3>2. QED
      BY <3>1 DEF Kind
  <2>2. QED
    BY <1>1, <1>2, <2>1 DEF Cuts
<1>13. Puts(atoms, targets, nd, ng, kinds, gaps)
  BY <1>5, <1>7, <1>11 DEF Puts
<1>14. QED
  BY <1>3, <1>11, <1>12, <1>13

\* The inverse suits the text that shows.
LEMMA InvertedSuits ==
  ASSUME NEW set, NEW atoms \in Seq(Atoms), atoms = Merged(set), NEW targets,
         NEW kinds, kinds = Inverted(set, targets)
  PROVE  Suits(TextOf(atoms), kinds, Len(kinds))
<1>1. PICK nd, ng, gaps :
          /\ nd \in Nat /\ ng \in Nat /\ Len(kinds) = nd + ng
          /\ Cuts(atoms, targets, nd, kinds) /\ Puts(atoms, targets, nd, ng, kinds, gaps)
  BY InvertedIs
<1>2. PICK N \in Nat : N = nd + ng /\ N = Len(kinds) /\ nd <= N
  BY <1>1
<1>3. PICK text : text = TextOf(atoms)
  OBVIOUS
<1>4. PICK at : at = Ascending(LivePlaces(atoms))
  OBVIOUS
<1>5. PICK n : n = Len(text)
  OBVIOUS
<1>6. LiveAt(atoms, at, n)
  BY <1>3, <1>4, <1>5, LiveFacts
<1>7. PICK f : Splicings(f, N, text, kinds)
  BY <1>2, SplicingIsDefined
<1>8. (\A k \in 1..nd : Fits(f[k - 1], kinds[k]))
      /\ \E q, w : Reads(f[nd], q, w, Theirs(atoms, targets), LabelsOf(atoms))
  BY <1>1, <1>2, <1>3, <1>7, CutsRead
<1>9. PICK q, w : Reads(f[nd], q, w, Theirs(atoms, targets), LabelsOf(atoms))
  BY <1>8
<1>10. w \in Nat /\ f[nd] \in Texts /\ Len(f[nd]) = w /\ Enumerates(q, w, Theirs(atoms, targets))
  BY <1>9 DEF Reads, Enumerates
<1>11. ASSUME NEW k \in 1..ng
       PROVE  /\ kinds[nd + k].kind = "insert" /\ kinds[nd + k].text \in Texts
              /\ kinds[nd + k].from \in Nat /\ kinds[nd + k].from <= w
  <2>1. PICK g : g = gaps[k]
    OBVIOUS
  <2>2. g \in Gaps(atoms, targets)
    BY <1>1, <2>1 DEF Puts, GapsOf
  <2>3. PICK p \in DOMAIN atoms : g = LiveBefore(atoms, p)
    BY <2>2 DEF Gaps
  <2>4. g \in 0..n
    BY <1>6, <2>3, GapFacts
  <2>5. Kept(atoms, targets, g) <= w
    BY <1>6, <1>10, <2>4, KeptFits
  <2>6. g \in Nat
    BY <1>3, <1>5, <2>4
  <2>7. Kept(atoms, targets, g) \in Nat /\ LostText(atoms, targets, g) \in Texts
    BY <2>6, CountProps, LostTextType
  <2>8. kinds[nd + k] = Kind("insert", Kept(atoms, targets, g), 0, LostText(atoms, targets, g))
    BY <1>1, <2>1 DEF Puts
  <2>9. QED
    BY <2>5, <2>7, <2>8 DEF Kind
<1>12. ASSUME NEW k \in 1..N, nd < k
       PROVE  /\ kinds[k].kind = "insert" /\ kinds[k].text \in Texts
              /\ kinds[k].from \in Nat /\ kinds[k].from <= w
  <2>1. PICK i \in 1..ng : k = nd + i
    <3>1. k - nd \in 1..ng /\ k = nd + (k - nd)
      BY <1>1, <1>2, <1>12
    <3>2. QED
      BY <3>1
  <2>2. QED
    BY <1>11, <2>1
<1>13. \A k \in 1..N : nd < k => Fits(f[k - 1], kinds[k])
  BY <1>1, <1>2, <1>7, <1>10, <1>12, InsertsFit
<1>14. ASSUME NEW k \in 1..N
       PROVE  Fits(f[k - 1], kinds[k]) /\ kinds[k].kind \in {"insert", "delete"}
  <2>1. CASE nd < k
    BY <1>12, <1>13, <2>1
  <2>2. CASE ~(nd < k)
    <3>1. k \in 1..nd
      BY <1>1, <2>2
    <3>2. kinds[k].kind = "delete"
      BY <1>1, <3>1 DEF Cuts
    <3>3. QED
      BY <1>8, <3>1, <3>2
  <2>3. QED
    BY <2>1, <2>2
<1>15. QED
  BY <1>2, <1>3, <1>7, <1>14 DEF Suits

-----------------------------------------------------------------------------
(* Every step lands where it was typed.                                     *)

\* Lists of one and of two.
LEMMA ListFacts ==
  ASSUME NEW d, NEW t
  PROVE  /\ Len(<<d>>) = 1 /\ <<d>>[1] = d
         /\ Len(<<d>> \o <<t>>) = 2 /\ (<<d>> \o <<t>>)[1] = d /\ (<<d>> \o <<t>>)[2] = t
<1>1. Len(<<d>>) = 1 /\ <<d>>[1] = d
  OBVIOUS
<1>2. Len(<<d>> \o <<t>>) = 2
  OBVIOUS
<1>3. (<<d>> \o <<t>>)[1] = d /\ (<<d>> \o <<t>>)[2] = t
  OBVIOUS
<1>4. QED
  BY <1>1, <1>2, <1>3

\* A gesture suits the text it is made in.
LEMMA GestureKinds ==
  ASSUME CausalOK, NEW a \in Actors, NEW from \in Nat, NEW to \in Nat, NEW size \in Nat,
         from <= to, to <= Len(Shown(known[a])), from < to \/ size > 0, NEW text, NEW kinds,
         text = [i \in 1..size |->
                    <<a, Highest(known[a], a) + (IF from < to THEN 2 ELSE 1), i>>],
         kinds = (IF from < to THEN <<Kind("delete", from, to, <<>>)>> ELSE <<>>)
                 \o (IF size > 0 THEN <<Kind("insert", from, 0, text)>> ELSE <<>>)
  PROVE  Suits(Shown(known[a]), kinds, Len(kinds))
<1>1. PICK d : d = Kind("delete", from, to, <<>>)
  OBVIOUS
<1>2. PICK t : t = Kind("insert", from, 0, text)
  OBVIOUS
<1>3. PICK shown \in Texts : shown = Shown(known[a])
  BY ShownProps
<1>4. text \in Texts
  <2>1. PICK m \in Nat : m = IF from < to THEN 2 ELSE 1
    OBVIOUS
  <2>2. text = [i \in 1..size |-> <<a, Highest(known[a], a) + m, i>>]
    BY <2>1
  <2>3. QED
    BY <2>2, TypedText
<1>5. PICK n : n = Len(kinds)
  OBVIOUS
<1>6. \/ n = 1 /\ kinds[1] = d
      \/ n = 1 /\ kinds[1] = t
      \/ n = 2 /\ kinds[1] = d /\ kinds[2] = t
  <2>1. CASE ~(size > 0)
    <3>1. kinds = <<d>> \o <<>>
      BY <1>1, <2>1
    <3>2. kinds = <<d>>
      BY <3>1, TwoKinds
    <3>3. QED
      BY <1>5, <3>2, ListFacts
  <2>2. CASE size > 0 /\ from < to
    <3>1. kinds = <<d>> \o <<t>>
      BY <1>1, <1>2, <2>2
    <3>2. Len(<<d>> \o <<t>>) = 2 /\ (<<d>> \o <<t>>)[1] = d /\ (<<d>> \o <<t>>)[2] = t
      BY ListFacts
    <3>3. Len(kinds) = 2 /\ kinds[1] = d /\ kinds[2] = t
      BY <3>1, <3>2, Zenon
    <3>4. QED
      BY <1>5, <3>3
  <2>3. CASE size > 0 /\ ~(from < to)
    <3>1. kinds = <<>> \o <<t>>
      BY <1>2, <2>3
    <3>2. kinds = <<t>>
      BY <3>1, TwoKinds
    <3>3. QED
      BY <1>5, <3>2, ListFacts
  <2>4. QED
    BY <2>1, <2>2, <2>3
<1>7. to <= Len(shown)
  BY <1>3
<1>8. Suits(shown, kinds, n)
  BY <1>1, <1>2, <1>4, <1>6, <1>7, GestureSuits
<1>9. QED
  BY <1>3, <1>5, <1>8

\* A write of the whole run suits any text.
LEMMA RewriteKinds ==
  ASSUME CausalOK, NEW a \in Actors, NEW kinds,
         kinds = <<Kind("write", 0, 0, <<<<a, Highest(known[a], a) + 1, 1>>>>)>>
  PROVE  kinds \in Seq(Kinds) /\ Suits(Shown(known[a]), kinds, Len(kinds))
<1>1. PICK text : text = <<<<a, Highest(known[a], a) + 1, 1>>>>
  OBVIOUS
<1>2. text \in Texts
  <2>1. [i \in 1..1 |-> <<a, Highest(known[a], a) + 1, i>>] \in Texts
    BY TypedText
  <2>2. text = [i \in 1..1 |-> <<a, Highest(known[a], a) + 1, i>>]
    BY <1>1
  <2>3. QED
    BY <2>1, <2>2
<1>3. PICK k : k = Kind("write", 0, 0, text)
  OBVIOUS
<1>4. k \in Kinds /\ k.kind = "write"
  BY <1>2, <1>3 DEF Kind, Kinds
<1>5. kinds = <<k>>
  BY <1>1, <1>3
<1>6. kinds \in Seq(Kinds) /\ Len(kinds) = 1 /\ kinds[1] = k
  BY <1>4, <1>5
<1>7. QED
  BY <1>4, <1>6 DEF Suits

\* The inverse of a step suits the text that shows.
LEMMA InverseKinds ==
  ASSUME CausalOK, NEW a \in Actors, NEW step \in Steps, NEW kinds,
         kinds = InverseOfStep(a, step)
  PROVE  kinds \in Seq(Kinds) /\ Suits(Shown(known[a]), kinds, Len(kinds))
<1>1. PICK atoms \in Seq(Atoms) : atoms = Merged(known[a])
  BY ShownProps
<1>2. PICK text : text = TextOf(atoms)
  OBVIOUS
<1>3. text = Shown(known[a])
  BY <1>1, <1>2 DEF Shown
<1>4. CASE kinds = Inverted(known[a], step.ops)
  <2>1. kinds \in Seq(Kinds)
    BY <1>1, <1>4, InvertedProps
  <2>2. Suits(text, kinds, Len(kinds))
    BY <1>1, <1>2, <1>4, InvertedSuits
  <2>3. QED
    BY <1>3, <2>1, <2>2
<1>5. CASE kinds = <<Kind("write", 0, 0, step.was)>>
  <2>1. PICK k : k = Kind("write", 0, 0, step.was)
    OBVIOUS
  <2>2. k \in Kinds /\ k.kind = "write"
    BY <2>1 DEF Steps, Kind, Kinds
  <2>3. kinds \in Seq(Kinds) /\ Len(kinds) = 1 /\ kinds[1] = k
    BY <1>5, <2>1, <2>2
  <2>4. QED
    BY <2>2, <2>3 DEF Suits
<1>6. CASE kinds = <<>>
  <2>1. kinds \in Seq(Kinds) /\ Len(kinds) = 0 /\ 0 \in Nat
    BY <1>6
  <2>2. PICK f : Splicings(f, 0, text, kinds)
    BY <2>1, SplicingIsDefined
  <2>3. Suits(text, kinds, 0)
    BY <2>2 DEF Suits
  <2>4. QED
    BY <1>3, <2>1, <2>3
<1>7. QED
  BY <1>4, <1>5, <1>6 DEF InverseOfStep

\* Every batch of its own that a replica has minted has landed.
OwnLands == \A a \in Actors : \A own \in {Own(a, known'[a] \ known[a])} \ {{}} : Landed(a, own)

\* What a step mints lands.
LEMMA MintLands ==
  ASSUME CausalOK, NEW a \in Actors, NEW kinds \in Seq(Kinds), Mint(a, kinds),
         Suits(Shown(known[a]), kinds, Len(kinds))
  PROVE  OwnLands
<1>1. PICK new : new = Minted(a, kinds)
  OBVIOUS
<1>2. PICK n : n = Len(kinds)
  OBVIOUS
<1>3. Anew(new, a, n) /\ MintedBy(new, a)
  BY <1>1, <1>2, MintedAnew DEF Mint, MintedBy
<1>4. PICK text : text = Shown(known[a])
  OBVIOUS
<1>5. Suits(text, new, n)
  BY <1>1, <1>2, <1>4, MintedSuits
<1>6. Landed(a, Range(new))
  BY <1>3, <1>4, <1>5, MintedLands
<1>7. \A m \in Range(new) : m \notin ops /\ m.actor = a
  BY <1>3 DEF Anew, Range
<1>8. known \in [Actors -> SUBSET ops] /\ known' = [known EXCEPT ![a] = @ \cup Range(new)]
  BY <1>3 DEF CausalOK, MintedBy
<1>9. Own(a, known'[a] \ known[a]) = Range(new)
  BY <1>7, <1>8 DEF Own
<1>10. \A b \in Actors \ {a} : Own(b, known'[b] \ known[b]) = {}
  BY <1>8 DEF Own
<1>11. QED
  BY <1>6, <1>9, <1>10 DEF OwnLands

\* A gesture lands.
LEMMA GestureLands ==
  ASSUME CausalOK, NEW a \in Actors, NEW from \in Nat, NEW to \in Nat, NEW size \in Nat,
         from <= to, to <= Len(Shown(known[a])), Input(a, from, to, size)
  PROVE  OwnLands
<1>1. PICK text : text = [i \in 1..size |->
                <<a, Highest(known[a], a) + (IF from < to THEN 2 ELSE 1), i>>]
  OBVIOUS
<1>2. PICK kinds :
        kinds = (IF from < to THEN <<Kind("delete", from, to, <<>>)>> ELSE <<>>)
                \o (IF size > 0 THEN <<Kind("insert", from, 0, text)>> ELSE <<>>)
  OBVIOUS
<1>3. Mint(a, kinds) /\ (from < to \/ size > 0)
  BY <1>1, <1>2 DEF Input
<1>4. kinds \in Seq(Kinds)
  BY <1>1, <1>2, InputKinds
<1>5. Suits(Shown(known[a]), kinds, Len(kinds))
  BY <1>1, <1>2, <1>3, GestureKinds
<1>6. QED
  BY <1>3, <1>4, <1>5, MintLands

\* Whoever receives an operation mints none.
LEMMA DeliverLands ==
  ASSUME CausalOK, NEW a \in Actors, NEW op \in ops, Deliver(a, op)
  PROVE  OwnLands
<1>1. /\ known \in [Actors -> SUBSET ops] /\ known' = [known EXCEPT ![a] = @ \cup {op}]
      /\ op \notin known[a] /\ Own(a, ops) \subseteq known[a]
  BY DEF CausalOK, Deliver
<1>2. Own(a, known'[a] \ known[a]) = {}
  BY <1>1 DEF Own
<1>3. \A b \in Actors \ {a} : Own(b, known'[b] \ known[b]) = {}
  BY <1>1 DEF Own
<1>4. QED
  BY <1>2, <1>3 DEF OwnLands

\* Whatever others have done before, what a person types, deletes, rewrites or
\* undoes lands where they see it (text_sequence.rs, inverse.rs); and merging it
\* into the open document gives the text that merging the whole log gives
\* (collaboration.rs remateralise_in_session).
THEOREM EditsLandWhereTyped == Spec => LandsWhereTyped
<1>1. ASSUME IInv, [Next]_vars PROVE [OwnLands]_vars
  <2>1. CASE UNCHANGED vars
    BY <2>1
  <2>2. CASE Next
    <3>1. CausalOK /\ HistoryOK
      BY <1>1 DEF IInv
    <3>2. PICK a \in Actors :
            \/ \E to \in 0..Len(Shown(known[a])) : \E from \in 0..to :
                   \E size \in {0, MaxText} : Input(a, from, to, size)
            \/ Rewrite(a) \/ Fail(a)
            \/ \E verb \in {"undo", "redo"} : Step(a, verb)
            \/ \E op \in ops : Deliver(a, op)
      BY <2>2 DEF Next
    <3>3. ASSUME NEW to \in 0..Len(Shown(known[a])), NEW from \in 0..to,
                 NEW size \in {0, MaxText}, Input(a, from, to, size)
          PROVE  OwnLands
      <4>1. Shown(known[a]) \in Texts
        BY <3>1, ShownProps
      <4>2. Len(Shown(known[a])) \in Nat
        BY <4>1 DEF Texts
      <4>3. /\ to \in Nat /\ from \in Nat /\ size \in Nat
            /\ from <= to /\ to <= Len(Shown(known[a]))
        BY <4>2, TextMergeAssumption
      <4>4. QED
        BY <3>1, <3>3, <4>3, GestureLands
    <3>4. ASSUME Rewrite(a) PROVE OwnLands
      <4>1. PICK kinds : kinds = <<Kind("write", 0, 0, <<<<a, Highest(known[a], a) + 1, 1>>>>)>>
        OBVIOUS
      <4>2. Mint(a, kinds)
        BY <3>4, <4>1 DEF Rewrite
      <4>3. kinds \in Seq(Kinds) /\ Suits(Shown(known[a]), kinds, Len(kinds))
        BY <3>1, <4>1, RewriteKinds
      <4>4. QED
        BY <3>1, <4>2, <4>3, MintLands
    <3>5. ASSUME NEW verb \in {"undo", "redo"}, Step(a, verb) PROVE OwnLands
      <4>1. PICK last : last = Last(history[a][verb])
        OBVIOUS
      <4>2. PICK kinds : kinds = InverseOfStep(a, last)
        OBVIOUS
      <4>3. history[a][verb] # <<>> /\ Mint(a, kinds)
        BY <3>5, <4>1, <4>2 DEF Step
      <4>4. last \in Steps
        <5>1. OwnSteps(history[a][verb], Own(a, known[a]))
          BY <3>1 DEF HistoryOK
        <5>2. QED
          BY <4>1, <4>3, <5>1, StackFront
      <4>5. kinds \in Seq(Kinds) /\ Suits(Shown(known[a]), kinds, Len(kinds))
        BY <3>1, <4>2, <4>4, InverseKinds
      <4>6. QED
        BY <3>1, <4>3, <4>5, MintLands
    <3>6. ASSUME NEW op \in ops, Deliver(a, op) PROVE OwnLands
      BY <3>1, <3>6, DeliverLands
    <3>7. ASSUME Fail(a) PROVE OwnLands
      BY <3>1, <3>7 DEF Fail, OwnLands, Own, CausalOK
    <3>8. QED
      BY <3>2, <3>3, <3>4, <3>5, <3>6, <3>7
  <2>3. QED
    BY <1>1, <2>1, <2>2
<1>2. QED
  BY <1>1, Inductive, PTL DEF Spec, LandsWhereTyped, OwnLands

-----------------------------------------------------------------------------
(* What an undo takes back.                                                *)

\* A merge of the whole log has no text that was dead before.
NoneDead(atoms) == \A i \in DOMAIN atoms : ~atoms[i].dead

\* No edit makes text dead.
LEMMA EditedNoneDead ==
  ASSUME NEW atoms \in Seq(Atoms), NoneDead(atoms), NEW op \in Operations, NEW rank
  PROVE  Edited(atoms, op, rank) \in Seq(Atoms) /\ NoneDead(Edited(atoms, op, rank))
<1>1. PICK new : new = Edited(atoms, op, rank)
  OBVIOUS
<1>2. CASE op.kind = "insert"
  <2>1. PICK at : at = Landing(atoms, op, rank)
    OBVIOUS
  <2>2. at \in 0..Len(atoms)
    BY <2>1, LandingBehind DEF LandsBehind
  <2>3. PICK w : w = Len(op.text)
    OBVIOUS
  <2>4. PutsIn(atoms, op, at, w, new)
    <3>1. new = PutIn(atoms, op, at)
      BY <1>1, <1>2, <2>1, EditedAs
    <3>2. QED
      BY <2>2, <2>3, <3>1, PutInFacts
  <2>5. ASSUME NEW i \in DOMAIN new PROVE ~new[i].dead
    <3>1. \/ i \in DOMAIN atoms /\ new[i] = atoms[i]
          \/ ~new[i].dead
          \/ i - w \in DOMAIN atoms /\ new[i] = atoms[i - w]
      BY <2>4, Stretches
    <3>2. QED
      BY <3>1 DEF NoneDead
  <2>6. new \in Seq(Atoms)
    BY <2>4 DEF PutsIn
  <2>7. QED
    BY <1>1, <2>5, <2>6 DEF NoneDead
<1>3. CASE op.kind # "insert"
  <2>1. PICK struck : struck = StruckBy(atoms, op)
    OBVIOUS
  <2>2. new = Struck(atoms, op, struck)
    BY <1>1, <1>3, <2>1, EditedAs
  <2>3. new \in Seq(Atoms) /\ DOMAIN new = DOMAIN atoms
    BY <2>2, StruckProps
  <2>4. ASSUME NEW i \in DOMAIN new PROVE ~new[i].dead
    <3>1. new[i] = IF i \in struck THEN [atoms[i] EXCEPT !.gone = @ \cup {op}] ELSE atoms[i]
      BY <2>2, <2>3 DEF Struck
    <3>2. atoms[i] \in Atoms
      BY <2>3, SequenceFacts
    <3>3. new[i].dead = atoms[i].dead
      BY <3>1, <3>2 DEF Atoms
    <3>4. QED
      BY <2>3, <3>3 DEF NoneDead
  <2>5. QED
    BY <1>1, <2>3, <2>4 DEF NoneDead
<1>4. QED
  BY <1>2, <1>3

\* Nor do edits, one after the other.
LEMMA IteratedNoneDead ==
  ASSUME NEW K, K \subseteq Operations, NEW atoms \in Seq(Atoms), NoneDead(atoms),
         NEW edits, NEW m \in Nat, \A i \in 1..m : edits[i] \in K,
         NEW rank, NEW f, Iterated(f, m, atoms, edits, rank)
  PROVE  NoneDead(f[m])
<1> DEFINE P(i) == f[i] \in Seq(Atoms) /\ NoneDead(f[i])
           T == {i \in Nat : i <= m => P(i)}
<1>1. 0 \in T
  BY DEF Iterated
<1>2. ASSUME NEW i \in Nat, i \in T PROVE i + 1 \in T
  <2>1. SUFFICES ASSUME i + 1 <= m PROVE P(i + 1)
    OBVIOUS
  <2>2. i + 1 \in 0..m /\ i + 1 \in 1..m /\ i + 1 # 0 /\ (i + 1) - 1 = i /\ i <= m
    BY <2>1
  <2>3. f[i + 1] = Edited(f[i], edits[i + 1], rank)
    BY <2>2 DEF Iterated
  <2>4. edits[i + 1] \in Operations
    BY <2>2
  <2>5. f[i] \in Seq(Atoms) /\ NoneDead(f[i])
    BY <1>2, <2>2
  <2>6. QED
    BY <2>3, <2>4, <2>5, EditedNoneDead
<1> HIDE DEF T
<1>3. \A i \in Nat : i \in T
  BY <1>1, <1>2, SetInduction
<1>4. QED
  BY <1>3 DEF T

\* Nor is there any in a text.
LEMMA FreshNoneDead ==
  ASSUME NEW text \in Texts
  PROVE  NoneDead(Fresh(text))
<1>1. text \in Seq(Labels)
  BY DEF Texts
<1>2. QED
  BY <1>1 DEF NoneDead, Fresh

\* Nor in the merge.
LEMMA MergedNoneDead ==
  ASSUME NEW K, Orderable(K)
  PROVE  NoneDead(Merged(K))
<1>1. PICK order : order = CausalOrder(K)
  OBVIOUS
<1>2. Linearizes(order, K) /\ K \subseteq Operations
  BY <1>1, CausalOrderProps DEF Orderable
<1>3. PICK r : r = ResetIn(order)
  OBVIOUS
<1>4. r \in 0..Len(order) /\ Len(order) \in Nat /\ order \in Seq(K) /\ DOMAIN order = 1..Len(order)
  BY <1>2, <1>3, ResetProps DEF Linearizes
<1>5. PICK base : base = Fresh(BaseText)
  OBVIOUS
<1>6. base \in Seq(Atoms) /\ NoneDead(base) /\ DoneBy(base, {})
  BY <1>5, BaseTextType, FreshFacts, FreshNoneDead
<1>7. PICK start : start = StartOf(base, order)
  OBVIOUS
<1>8. start \in Seq(Atoms)
  BY <1>2, <1>6, <1>7, StartFacts
<1>9. NoneDead(start)
  <2>1. CASE r = 0
    BY <1>3, <1>6, <1>7, <2>1 DEF StartOf
  <2>2. CASE r # 0
    <3>1. r \in DOMAIN order
      BY <1>4, <2>2
    <3>2. order[r] \in Operations
      BY <1>2, <1>4, <3>1
    <3>3. order[r].text \in Texts
      BY <3>2, OperationFacts
    <3>4. QED
      BY <1>3, <1>7, <2>2, <3>3, FreshNoneDead DEF StartOf
  <2>3. QED
    BY <2>1, <2>2
<1>10. PICK m \in Nat : r + m = Len(order)
  <2>1. Len(order) - r \in Nat /\ r + (Len(order) - r) = Len(order)
    BY <1>4
  <2>2. QED
    BY <2>1
<1>11. PICK edits : edits = EditsAfter(order)
  OBVIOUS
<1>12. Len(edits) = m /\ \A i \in 1..m : edits[i] \in K
  <2>1. order \in Seq(Operations) /\ r \in Nat
    BY <1>2, <1>4
  <2>2. edits = SubSeq(order, r + 1, Len(order))
    BY <1>3, <1>11 DEF EditsAfter
  <2>3. Len(edits) = m /\ \A i \in 1..m : r + i \in DOMAIN order /\ edits[i] = order[r + i]
    BY <1>10, <2>1, <2>2, SuffixFacts
  <2>4. \A i \in DOMAIN order : order[i] \in K
    BY <1>4
  <2>5. QED
    BY <2>3, <2>4
<1>13. PICK rank : rank = RankIn(order)
  OBVIOUS
<1>14. PICK f : Iterated(f, m, start, edits, rank) /\ Resolved(start, edits, rank) = f[m]
  BY <1>12, ResolvedAs
<1>15. Merged(K) = f[m]
  BY <1>1, <1>5, <1>7, <1>11, <1>13, <1>14 DEF Merged, Merge
<1>16. NoneDead(f[m])
  BY <1>2, <1>8, <1>9, <1>12, <1>14, IteratedNoneDead
<1>17. QED
  BY <1>15, <1>16

\* The text at some places of a sequence of atoms.
LabelsAt(atoms, S) == [i \in DOMAIN Ascending(S) |-> atoms[Ascending(S)[i]].label]

\* It is read in their order.
LEMMA LabelsRead ==
  ASSUME NEW atoms \in Seq(Atoms), NEW S, S \subseteq DOMAIN atoms
  PROVE  /\ S \in SUBSET Nat
         /\ Reads(LabelsAt(atoms, S), Ascending(S), Cardinality(S), S, LabelsOf(atoms))
<1>1. Len(atoms) \in Nat /\ DOMAIN atoms = 1..Len(atoms) /\ atoms \in [1..Len(atoms) -> Atoms]
  BY SequenceFacts
<1>2. S \in SUBSET (1..Len(atoms)) /\ S \in SUBSET Nat
  BY <1>1
<1>3. IsFiniteSet(S)
  <2>1. IsFiniteSet(1..Len(atoms))
    BY <1>1, FS_Interval
  <2>2. QED
    BY <1>2, <2>1, FS_Subset
<1>4. PICK q : q = Ascending(S)
  OBVIOUS
<1>5. PICK n : n = Cardinality(S)
  OBVIOUS
<1>6. Enumerates(q, n, S)
  BY <1>2, <1>3, <1>4, <1>5, AscendingEnumerates
<1>7. n \in Nat /\ q \in [1..n -> S]
  BY <1>6 DEF Enumerates
<1>8. PICK text : text = LabelsAt(atoms, S)
  OBVIOUS
<1>9. text = [k \in 1..n |-> atoms[q[k]].label]
  <2>1. DOMAIN q = 1..n
    BY <1>7
  <2>2. QED
    BY <1>4, <1>8, <2>1 DEF LabelsAt
<1>10. \A k \in 1..n : q[k] \in DOMAIN atoms
  BY <1>1, <1>2, <1>7
<1>11. \A k \in 1..n : atoms[q[k]].label \in Labels
  <2>1. ASSUME NEW k \in 1..n PROVE atoms[q[k]].label \in Labels
    <3>1. atoms[q[k]] \in Atoms
      BY <1>1, <1>10
    <3>2. QED
      BY <3>1 DEF Atoms
  <2>2. QED
    BY <2>1
<1>12. text \in Texts /\ Len(text) = n
  <2>1. text \in [1..n -> Labels]
    BY <1>9, <1>11
  <2>2. text \in Seq(Labels) /\ Len(text) = n
    BY <1>7, <2>1
  <2>3. QED
    BY <2>2 DEF Texts
<1>13. \A k \in 1..n : text[k] = LabelsOf(atoms)[q[k]]
  BY <1>9, <1>10 DEF LabelsOf
<1>14. QED
  BY <1>2, <1>4, <1>5, <1>6, <1>8, <1>12, <1>13 DEF Reads

\* What stood at gap g.
LostAt(atoms, targets, g) ==
    {i \in DOMAIN atoms : LostTo(atoms[i], targets) /\ LiveBefore(atoms, i) = g}

\* The inverse inserts it.
LEMMA LostReads ==
  ASSUME NEW atoms \in Seq(Atoms), NEW targets, NEW g
  PROVE  /\ LostAt(atoms, targets, g) \in SUBSET Nat
         /\ \E b, w : Reads(LostText(atoms, targets, g), b, w,
                            LostAt(atoms, targets, g), LabelsOf(atoms))
<1>1. PICK S : S = LostAt(atoms, targets, g)
  OBVIOUS
<1>2. S \subseteq DOMAIN atoms
  BY <1>1 DEF LostAt
<1>3. LostText(atoms, targets, g) = LabelsAt(atoms, S)
  BY <1>1 DEF LostText, LabelsAt, LostAt
<1>4. S \in SUBSET Nat /\ Reads(LabelsAt(atoms, S), Ascending(S), Cardinality(S), S, LabelsOf(atoms))
  BY <1>2, LabelsRead
<1>5. QED
  BY <1>1, <1>3, <1>4

\* Further on, no less is kept.
LEMMA KeptGrows ==
  ASSUME NEW atoms \in Seq(Atoms), NEW targets, NEW g \in Nat, NEW h \in Nat, g <= h
  PROVE  Kept(atoms, targets, g) <= Kept(atoms, targets, h)
<1>1. PICK G : G = {i \in 1..g : Live(atoms)[i].by \notin targets}
  OBVIOUS
<1>2. PICK H : H = {i \in 1..h : Live(atoms)[i].by \notin targets}
  OBVIOUS
<1>3. G \subseteq H
  BY <1>1, <1>2
<1>4. IsFiniteSet(H)
  <2>1. IsFiniteSet(1..h) /\ H \subseteq 1..h
    BY <1>2, FS_Interval
  <2>2. QED
    BY <2>1, FS_Subset
<1>5. Cardinality(G) <= Cardinality(H)
  BY <1>3, <1>4, FS_Subset
<1>6. QED
  BY <1>1, <1>2, <1>5 DEF Kept

\* Without a tie, the inserts of an undo go from the last gap to the first.
LEMMA GapsGoBack ==
  ASSUME NEW atoms \in Seq(Atoms), NEW targets, NEW ng, NEW gaps,
         GapsOf(gaps, ng, atoms, targets),
         \A g, h \in Gaps(atoms, targets) :
             g # h => Kept(atoms, targets, g) # Kept(atoms, targets, h)
  PROVE  \A i, j \in 1..ng : i < j => gaps[j] < gaps[i]
<1> DEFINE kept(g) == Kept(atoms, targets, g)
<1>1. ASSUME NEW i \in 1..ng, NEW j \in 1..ng, i < j PROVE gaps[j] < gaps[i]
  <2>1. PICK g, h : g = gaps[i] /\ h = gaps[j]
    OBVIOUS
  <2>2. g \in Gaps(atoms, targets) /\ h \in Gaps(atoms, targets)
    BY <2>1 DEF GapsOf
  <2>3. g \in Nat /\ h \in Nat
    <3>1. \A p \in DOMAIN atoms : LiveBefore(atoms, p) \in 0..Len(atoms)
      BY CountProps
    <3>2. Len(atoms) \in Nat
      BY SequenceFacts
    <3>3. QED
      BY <2>2, <3>1, <3>2 DEF Gaps
  <2>4. kept(g) > kept(h) \/ (kept(g) = kept(h) /\ g < h)
    BY <1>1, <2>1 DEF GapsOf
  <2>5. kept(g) \in Nat /\ kept(h) \in Nat
    BY <2>3, CountProps
  <2>6. g <= h => kept(g) <= kept(h)
    BY <2>3, KeptGrows
  <2>7. g # h => kept(g) # kept(h)
    BY <2>2
  <2> HIDE DEF kept
  <2>8. h < g
    BY <2>3, <2>4, <2>5, <2>6, <2>7
  <2>9. QED
    BY <2>1, <2>8
<1>2. QED
  BY <1>1

\* One insert of an undo puts what stood at its gap between what stands before
\* and behind that gap.
LEMMA OnePutMore ==
  ASSUME NEW atoms \in Seq(Atoms), NEW targets, NEW at, NEW n, LiveAt(atoms, at, n),
         NEW g \in Gaps(atoms, targets), NEW M,
         \A x \in M : x \in DOMAIN atoms /\ g < LiveBefore(atoms, x),
         NEW text, NEW q, NEW w,
         Reads(text, q, w, Theirs(atoms, targets) \cup M, LabelsOf(atoms)),
         NEW op, op = Kind("insert", Kept(atoms, targets, g), 0, LostText(atoms, targets, g))
  PROVE  \E r, v : Reads(Spliced(text, op), r, v,
                         (Theirs(atoms, targets) \cup M) \cup LostAt(atoms, targets, g),
                         LabelsOf(atoms))
<1>1. PICK theirs : theirs = Theirs(atoms, targets)
  OBVIOUS
<1>2. PICK S : S = theirs \cup M
  OBVIOUS
<1>3. PICK B \in SUBSET Nat : B = LostAt(atoms, targets, g)
  BY LostReads
<1>4. PICK label : label = LabelsOf(atoms)
  OBVIOUS
<1>5. PICK lost : lost = LostText(atoms, targets, g)
  OBVIOUS
<1>6. PICK b, m : Reads(lost, b, m, B, label)
  BY <1>3, <1>4, <1>5, LostReads
<1>7. DOMAIN atoms = 1..Len(atoms) /\ Len(atoms) \in Nat
  BY SequenceFacts
<1>8. S \in SUBSET Nat
  <2>1. LivePlaces(atoms) \in SUBSET Nat
    BY LivePlacesType
  <2>2. theirs \in SUBSET Nat
    BY <1>1, <2>1 DEF Theirs
  <2>3. \A x \in M : x \in Nat
    BY <1>7
  <2>4. QED
    BY <1>2, <2>2, <2>3
<1>9. Reads(text, q, w, S, label)
  BY <1>1, <1>2, <1>4
<1>10. /\ n \in Nat /\ (\A i \in 1..n : at[i] \in Nat /\ at[i] \in LivePlaces(atoms))
       /\ \A i, j \in 1..n : i < j => at[i] < at[j]
  <2>1. LivePlaces(atoms) \in SUBSET Nat
    BY LivePlacesType
  <2>2. QED
    BY <2>1 DEF LiveAt, Reads, Enumerates
<1>11. PICK p \in DOMAIN atoms : g = LiveBefore(atoms, p)
  BY DEF Gaps
<1>12. g \in 0..n /\ g \in Nat
  <2>1. g \in 0..n
    BY <1>11, GapFacts
  <2>2. QED
    BY <1>10, <2>1
<1>13. PICK low : low = Low(atoms, targets, at, g)
  OBVIOUS
<1>14. PICK c : c = Kept(atoms, targets, g)
  OBVIOUS
<1>15. low \subseteq theirs /\ \E e : Enumerates(e, c, low)
  BY <1>1, <1>12, <1>13, <1>14, KeptLow
<1>16. PICK e : Enumerates(e, c, low)
  BY <1>15
<1>17. ASSUME NEW y \in low PROVE \E i \in 1..n : y = at[i] /\ i <= g
  <2>1. PICK i \in 1..g : y = at[i]
    BY <1>13 DEF Low
  <2>2. i \in 1..n /\ i <= g
    BY <1>10, <1>12
  <2>3. QED
    BY <2>1, <2>2
<1>18. ASSUME NEW x \in M
       PROVE  \E h \in 1..n : g < h /\ x \in DOMAIN atoms /\ \A k \in 1..n : k <= h <=> at[k] < x
  <2>1. PICK h : h = LiveBefore(atoms, x)
    OBVIOUS
  <2>2. x \in DOMAIN atoms /\ g < h
    BY <2>1
  <2>3. h \in 0..n /\ \A k \in 1..n : k <= h <=> at[k] < x
    BY <2>1, <2>2, GapFacts
  <2>4. h \in 1..n
    BY <1>10, <1>12, <2>2, <2>3
  <2>5. QED
    BY <2>2, <2>3, <2>4
<1>19. ASSUME NEW x \in theirs, x \notin low PROVE \E j \in 1..n : x = at[j] /\ g < j
  BY <1>1, <1>12, <1>13, <1>19, LowIsFirst
<1>20. ASSUME NEW x \in S \ low, NEW y \in low PROVE y < x
  <2>1. PICK i \in 1..n : y = at[i] /\ i <= g
    BY <1>17
  <2>2. CASE x \in M
    <3>1. PICK h \in 1..n : g < h /\ x \in DOMAIN atoms /\ \A k \in 1..n : k <= h <=> at[k] < x
      BY <1>18, <2>2
    <3>2. i <= h
      BY <1>10, <1>12, <2>1, <3>1
    <3>3. QED
      BY <2>1, <3>1, <3>2
  <2>3. CASE x \notin M
    <3>1. PICK j \in 1..n : x = at[j] /\ g < j
      BY <1>2, <1>19, <1>20, <2>3
    <3>2. i < j
      BY <1>10, <1>12, <2>1, <3>1
    <3>3. QED
      BY <1>10, <2>1, <3>1, <3>2
  <2>4. QED
    BY <2>2, <2>3
<1>21. Leads(q, w, S, low, e, c)
  <2>1. Enumerates(q, w, S)
    BY <1>9 DEF Reads
  <2>2. low \subseteq S
    BY <1>2, <1>15
  <2>3. \A x \in S \ low : \A y \in low : y < x
    BY <1>20
  <2>4. QED
    BY <1>8, <1>16, <2>1, <2>2, <2>3, LeadingPlaces
<1>22. ASSUME NEW z \in B
       PROVE  /\ z \in DOMAIN atoms /\ z \in Nat /\ z \notin LivePlaces(atoms)
              /\ \A k \in 1..n : k <= g <=> at[k] < z
  <2>1. z \in DOMAIN atoms /\ LostTo(atoms[z], targets) /\ g = LiveBefore(atoms, z)
    BY <1>3 DEF LostAt
  <2>2. z \notin LivePlaces(atoms)
    BY <2>1 DEF LivePlaces, Alive, LostTo
  <2>3. \A k \in 1..n : k <= g <=> at[k] < z
    BY <2>1, GapFacts
  <2>4. QED
    BY <2>1, <2>2, <2>3
<1>23. ASSUME NEW y \in low, NEW z \in B PROVE y < z
  <2>1. PICK i \in 1..n : y = at[i] /\ i <= g
    BY <1>17
  <2>2. QED
    BY <1>22, <2>1
<1>24. ASSUME NEW x \in S \ low, NEW z \in B PROVE z < x
  <2>1. PICK j \in 1..n : g < j /\ at[j] <= x
    <3>1. CASE x \in M
      <4>1. PICK h \in 1..n : g < h /\ x \in DOMAIN atoms /\ \A k \in 1..n : k <= h <=> at[k] < x
        BY <1>18, <3>1
      <4>2. at[h] < x
        BY <1>10, <4>1
      <4>3. at[h] \in Nat /\ x \in Nat
        BY <1>8, <1>10, <1>24
      <4>4. QED
        BY <4>1, <4>2, <4>3
    <3>2. CASE x \notin M
      <4>1. PICK j \in 1..n : x = at[j] /\ g < j
        BY <1>2, <1>19, <1>24, <3>2
      <4>2. at[j] \in Nat
        BY <1>10
      <4>3. QED
        BY <4>1, <4>2
    <3>3. QED
      BY <3>1, <3>2
  <2>2. ~(at[j] < z)
    <3>1. ~(j <= g)
      BY <1>10, <1>12, <2>1
    <3>2. QED
      BY <1>22, <3>1
  <2>3. at[j] # z
    BY <1>10, <1>22
  <2>4. at[j] \in Nat /\ z \in Nat /\ x \in Nat
    BY <1>8, <1>10, <1>22, <1>24
  <2>5. QED
    BY <2>1, <2>2, <2>3, <2>4
<1>25. op.kind = "insert" /\ op.from = c /\ op.text = lost
  BY <1>5, <1>14 DEF Kind
<1>26. c \in Nat /\ c <= w
  BY <1>21 DEF Leads
<1>27. \A i \in 1..w : \A k \in 1..m :
           (i <= op.from => q[i] < b[k]) /\ (op.from < i => b[k] < q[i])
  <2>1. ASSUME NEW i \in 1..w, NEW k \in 1..m
        PROVE  (i <= c => q[i] < b[k]) /\ (c < i => b[k] < q[i])
    <3>1. b[k] \in B
      BY <1>6 DEF Reads, Enumerates
    <3>2. w \in Nat
      BY <1>9 DEF Reads, Enumerates
    <3>3. ASSUME i <= c PROVE q[i] < b[k]
      <4>1. i \in 1..c
        BY <1>26, <3>2, <3>3
      <4>2. q[i] \in low
        BY <1>21, <4>1 DEF Leads
      <4>3. QED
        BY <1>23, <3>1, <4>2
    <3>4. ASSUME c < i PROVE b[k] < q[i]
      <4>1. q[i] \in S \ low
        BY <1>21, <3>4 DEF Leads
      <4>2. QED
        BY <1>24, <3>1, <4>1
    <3>5. QED
      BY <3>3, <3>4
  <2>2. QED
    BY <1>25, <2>1
<1>28. Reads(op.text, b, m, B, label)
  BY <1>6, <1>25
<1>29. op.from \in Nat /\ op.from <= w
  BY <1>25, <1>26
<1>30. \E r : Reads(Spliced(text, op), r, w + m, S \cup B, label)
  BY <1>8, <1>9, <1>25, <1>27, <1>28, <1>29, PutReads
<1>31. QED
  BY <1>1, <1>2, <1>3, <1>4, <1>30

\* What the first k inserts of an undo bring back.
Returned(atoms, targets, gaps, k) ==
    {p \in DOMAIN atoms : /\ LostTo(atoms[p], targets)
                          /\ \E l \in 1..k : gaps[l] = LiveBefore(atoms, p)}

\* The inserts of an undo bring back what only its targets had deleted.
LEMMA PutsRead ==
  ASSUME NEW atoms \in Seq(Atoms), NEW targets, NEW nd \in Nat, NEW ng \in Nat, NEW kinds, NEW gaps,
         Puts(atoms, targets, nd, ng, kinds, gaps),
         \A g, h \in Gaps(atoms, targets) :
             g # h => Kept(atoms, targets, g) # Kept(atoms, targets, h),
         NEW N, N = nd + ng, NEW f, NEW start, Splicings(f, N, start, kinds),
         \E q, w : Reads(f[nd], q, w, Theirs(atoms, targets), LabelsOf(atoms))
  PROVE  \E q, w : Reads(f[N], q, w,
                         Theirs(atoms, targets) \cup Returned(atoms, targets, gaps, ng),
                         LabelsOf(atoms))
<1>1. PICK theirs : theirs = Theirs(atoms, targets)
  OBVIOUS
<1>2. PICK label : label = LabelsOf(atoms)
  OBVIOUS
<1>3. GapsOf(gaps, ng, atoms, targets)
  BY DEF Puts
<1>4. \A i, j \in 1..ng : i < j => gaps[j] < gaps[i]
  BY <1>3, GapsGoBack
<1>5. PICK at : at = Ascending(LivePlaces(atoms))
  OBVIOUS
<1>6. PICK n : LiveAt(atoms, at, n)
  BY <1>5, LiveFacts
<1> DEFINE back(k) == Returned(atoms, targets, gaps, k)
           P(k) == \E q, w : Reads(f[nd + k], q, w, theirs \cup back(k), label)
           T == {k \in Nat : k <= ng => P(k)}
<1>7. 0 \in T
  <2>1. back(0) = {}
    BY DEF Returned
  <2>2. theirs \cup back(0) = theirs /\ nd + 0 = nd
    BY <2>1
  <2>3. P(0)
    BY <1>1, <1>2, <2>2
  <2>4. QED
    BY <2>3
<1>8. ASSUME NEW k \in Nat, k \in T PROVE k + 1 \in T
  <2>1. SUFFICES ASSUME k + 1 <= ng PROVE P(k + 1)
    <3> HIDE DEF P
    <3> QED
      OBVIOUS
  <2>2. PICK i \in Nat : i = k + 1
    OBVIOUS
  <2>3. i \in 1..ng /\ k <= ng /\ nd + i \in 0..N /\ nd + i # 0 /\ (nd + i) - 1 = nd + k
    BY <2>1, <2>2
  <2>4. PICK M : M = back(k)
    OBVIOUS
  <2>5. PICK q, w : Reads(f[nd + k], q, w, theirs \cup M, label)
    BY <1>8, <2>3, <2>4
  <2>6. PICK g : g = gaps[i]
    OBVIOUS
  <2>7. g \in Gaps(atoms, targets)
    BY <1>3, <2>3, <2>6 DEF GapsOf
  <2>8. ASSUME NEW x \in M PROVE x \in DOMAIN atoms /\ g < LiveBefore(atoms, x)
    <3>1. x \in DOMAIN atoms /\ \E l \in 1..k : gaps[l] = LiveBefore(atoms, x)
      BY <2>4 DEF Returned
    <3>2. PICK l \in 1..k : gaps[l] = LiveBefore(atoms, x)
      BY <3>1
    <3>3. l \in 1..ng /\ l < i
      BY <2>1, <2>2
    <3>4. gaps[i] < gaps[l]
      BY <1>4, <2>3, <3>3
    <3>5. QED
      BY <2>6, <3>1, <3>2, <3>4
  <2>9. PICK op : op = kinds[nd + i]
    OBVIOUS
  <2>10. op = Kind("insert", Kept(atoms, targets, g), 0, LostText(atoms, targets, g))
    BY <2>3, <2>6, <2>9 DEF Puts
  <2>11. PICK t : t = f[nd + k]
    OBVIOUS
  <2>12. f[nd + i] = Spliced(t, op)
    BY <2>3, <2>9, <2>11 DEF Splicings
  <2>13. Reads(t, q, w, Theirs(atoms, targets) \cup M, LabelsOf(atoms))
    BY <1>1, <1>2, <2>5, <2>11
  <2>14. \E r, v : Reads(Spliced(t, op), r, v,
                         (Theirs(atoms, targets) \cup M) \cup LostAt(atoms, targets, g),
                         LabelsOf(atoms))
    BY <1>6, <2>7, <2>8, <2>10, <2>13, OnePutMore
  <2>15. M \cup LostAt(atoms, targets, g) = back(i)
    <3>1. ASSUME NEW p \in DOMAIN atoms
          PROVE  (\E l \in 1..i : gaps[l] = LiveBefore(atoms, p))
                 <=> \/ \E l \in 1..k : gaps[l] = LiveBefore(atoms, p)
                     \/ LiveBefore(atoms, p) = g
      <4>1. \A l : l \in 1..i <=> l \in 1..k \/ l = i
        BY <2>2
      <4>2. QED
        BY <2>6, <4>1
    <3>2. QED
      BY <2>4, <3>1 DEF Returned, LostAt
  <2>16. (theirs \cup M) \cup LostAt(atoms, targets, g) = theirs \cup back(i)
    BY <2>15
  <2>17. P(i)
    BY <1>1, <1>2, <2>12, <2>14, <2>16
  <2>18. QED
    BY <2>2, <2>17
<1> HIDE DEF T
<1>9. \A k \in Nat : k \in T
  BY <1>7, <1>8, SetInduction
<1>10. P(ng)
  <2> HIDE DEF P
  <2> QED
    BY <1>9 DEF T
<1>11. QED
  BY <1>1, <1>2, <1>10

\* The edits of an undo, one after the other, leave what there is without its
\* targets.
LEMMA InvertedTakesBack ==
  ASSUME NEW set, NEW atoms \in Seq(Atoms), atoms = Merged(set), NoneDead(atoms), NEW targets,
         ~Tied(set, targets), NEW kinds, kinds = Inverted(set, targets)
  PROVE  SplicedBy(TextOf(atoms), kinds) = Without(set, targets)
<1>1. PICK nd, ng, gaps :
          /\ nd \in Nat /\ ng \in Nat /\ Len(kinds) = nd + ng
          /\ Cuts(atoms, targets, nd, kinds) /\ Puts(atoms, targets, nd, ng, kinds, gaps)
  BY InvertedIs
<1>2. PICK N \in Nat : N = nd + ng /\ N = Len(kinds) /\ nd <= N
  BY <1>1
<1>3. PICK text : text = TextOf(atoms)
  OBVIOUS
<1>4. PICK f : Splicings(f, N, text, kinds) /\ SplicedBy(text, kinds) = f[N]
  <2>1. Len(kinds) = N
    BY <1>2
  <2>2. QED
    BY <2>1, SplicedByAs
<1>5. \E q, w : Reads(f[nd], q, w, Theirs(atoms, targets), LabelsOf(atoms))
  BY <1>1, <1>2, <1>3, <1>4, CutsRead
<1>6. \A g, h \in Gaps(atoms, targets) :
          g # h => Kept(atoms, targets, g) # Kept(atoms, targets, h)
  BY DEF Tied
<1>7. \E q, w : Reads(f[N], q, w,
                      Theirs(atoms, targets) \cup Returned(atoms, targets, gaps, ng),
                      LabelsOf(atoms))
  BY <1>1, <1>2, <1>4, <1>5, <1>6, PutsRead
<1>8. PICK W : W = {i \in DOMAIN atoms :
                       atoms[i].by \notin targets /\ atoms[i].gone \subseteq targets}
  OBVIOUS
<1>9. Theirs(atoms, targets) \cup Returned(atoms, targets, gaps, ng) = W
  <2>1. ASSUME NEW p \in DOMAIN atoms
        PROVE  p \in Returned(atoms, targets, gaps, ng) <=> LostTo(atoms[p], targets)
    <3>1. LostTo(atoms[p], targets) => LiveBefore(atoms, p) \in Gaps(atoms, targets)
      BY DEF Gaps
    <3>2. \A g \in Gaps(atoms, targets) : \E k \in 1..ng : gaps[k] = g
      BY <1>1 DEF Puts, GapsOf
    <3>3. QED
      BY <3>1, <3>2 DEF Returned
  <2>2. ASSUME NEW p \in DOMAIN atoms
        PROVE  p \in Theirs(atoms, targets)
               <=> atoms[p].gone = {} /\ atoms[p].by \notin targets
    BY DEF Theirs, LivePlaces, Alive, NoneDead
  <2>3. ASSUME NEW p \in DOMAIN atoms
        PROVE  p \in Theirs(atoms, targets) \cup Returned(atoms, targets, gaps, ng) <=> p \in W
    <3>1. CASE atoms[p].gone = {}
      BY <1>8, <2>1, <2>2, <3>1 DEF LostTo
    <3>2. CASE atoms[p].gone # {}
      BY <1>8, <2>1, <2>2, <3>2 DEF LostTo
    <3>3. QED
      BY <3>1, <3>2
  <2>4. /\ Theirs(atoms, targets) \subseteq DOMAIN atoms
        /\ Returned(atoms, targets, gaps, ng) \subseteq DOMAIN atoms /\ W \subseteq DOMAIN atoms
    BY <1>8 DEF Theirs, LivePlaces, Returned
  <2>5. QED
    BY <2>3, <2>4
<1>10. Without(set, targets) = LabelsAt(atoms, W)
  BY <1>8 DEF Without, LabelsAt
<1>11. W \subseteq DOMAIN atoms
  BY <1>8
<1>12. W \in SUBSET Nat /\ \E r, v : Reads(LabelsAt(atoms, W), r, v, W, LabelsOf(atoms))
  BY <1>11, LabelsRead
<1>13. PICK q, w : Reads(f[N], q, w, W, LabelsOf(atoms))
  BY <1>7, <1>9
<1>14. PICK r, v : Reads(LabelsAt(atoms, W), r, v, W, LabelsOf(atoms))
  BY <1>12
<1>15. PICK label : label = LabelsOf(atoms)
  OBVIOUS
<1>16. f[N] = LabelsAt(atoms, W)
  <2>1. Reads(f[N], q, w, W, label) /\ Reads(LabelsAt(atoms, W), r, v, W, label)
    BY <1>13, <1>14, <1>15
  <2>2. \A x \in W : label[x] = label[x]
    OBVIOUS
  <2>3. QED
    BY <1>12, <2>1, <2>2, ReadsAgree
<1>17. QED
  BY <1>3, <1>4, <1>10, <1>16

\* Minting does not change what a batch does to a text.
LEMMA MintedSplicedBy ==
  ASSUME CausalOK, NEW a \in Actors, NEW kinds \in Seq(Kinds), NEW text
  PROVE  SplicedBy(text, Minted(a, kinds)) = SplicedBy(text, kinds)
<1>1. PICK new : new = Minted(a, kinds)
  OBVIOUS
<1>2. PICK n : n = Len(kinds)
  OBVIOUS
<1>3. n \in Nat /\ new \in Seq(Operations) /\ DOMAIN new = 1..n
      /\ \A k \in 1..n : MintedAs(new[k], a, k, kinds[k])
  BY <1>1, <1>2, MintedProps
<1>4. Len(new) = n
  <2>1. DOMAIN new = 1..Len(new) /\ Len(new) \in Nat
    BY <1>3, SequenceFacts
  <2>2. QED
    BY <1>3, <2>1
<1>5. \A k \in 1..n : \A t : Spliced(t, new[k]) = Spliced(t, kinds[k])
  BY <1>3 DEF MintedAs, Spliced
<1>6. PICK f : Splicings(f, n, text, kinds) /\ SplicedBy(text, kinds) = f[n]
  BY <1>2, <1>3, SplicedByAs
<1>7. PICK g : Splicings(g, n, text, new) /\ SplicedBy(text, new) = g[n]
  BY <1>3, <1>4, SplicedByAs
<1>8. Splicings(g, n, text, kinds)
  <2>1. ASSUME NEW k \in 0..n
        PROVE  g[k] = IF k = 0 THEN text ELSE Spliced(g[k - 1], kinds[k])
    <3>1. CASE k = 0
      BY <1>7, <3>1 DEF Splicings
    <3>2. CASE k # 0
      <4>1. k \in 1..n
        BY <1>3, <3>2
      <4>2. g[k] = Spliced(g[k - 1], new[k])
        BY <1>7, <3>2 DEF Splicings
      <4>3. QED
        BY <1>5, <3>2, <4>1, <4>2
    <3>3. QED
      BY <3>1, <3>2
  <2>2. g = [k \in 0..n |-> g[k]]
    BY <1>7 DEF Splicings
  <2>3. QED
    BY <2>1, <2>2 DEF Splicings
<1>9. \A k \in 0..n : f[k] = g[k]
  BY <1>3, <1>6, <1>8, SplicingsAgree
<1>10. n \in 0..n
  BY <1>3
<1>11. QED
  BY <1>1, <1>6, <1>7, <1>9, <1>10

\* Undoing a step of typing leaves what there is without it.
LEMMA UndoneIs ==
  ASSUME CausalOK, NEW a \in Actors, NEW step \in Steps,
         \A op \in step.ops : op.kind # "write", ~Tied(known[a], step.ops)
  PROVE  Undone(a, step) = Without(known[a], step.ops)
<1>1. PICK K : K = known[a]
  OBVIOUS
<1>2. PICK kinds : kinds = InverseOfStep(a, step)
  OBVIOUS
<1>3. kinds = Inverted(K, step.ops)
  BY <1>1, <1>2 DEF InverseOfStep
<1>4. PICK text : text = Shown(K)
  OBVIOUS
<1>5. kinds \in Seq(Kinds) /\ Suits(text, kinds, Len(kinds))
  BY <1>1, <1>2, <1>4, InverseKinds
<1>6. PICK new : new = Minted(a, kinds)
  OBVIOUS
<1>7. Anew(new, a, Len(kinds)) /\ Suits(text, new, Len(kinds))
  BY <1>5, <1>6, MintedAnew, MintedSuits
<1>8. Shown(known[a] \cup Range(new)) = SplicedBy(Shown(known[a]), new)
  BY <1>1, <1>4, <1>7, MintedSplices
<1>9. SplicedBy(text, new) = SplicedBy(text, kinds)
  BY <1>5, <1>6, MintedSplicedBy
<1>10. PICK atoms \in Seq(Atoms) : atoms = Merged(K)
  BY <1>1, ShownProps
<1>11. NoneDead(atoms)
  <2>1. Orderable(K)
    BY <1>1, HeldFacts
  <2>2. QED
    BY <1>10, <2>1, MergedNoneDead
<1>12. text = TextOf(atoms)
  BY <1>4, <1>10 DEF Shown
<1>13. SplicedBy(text, kinds) = Without(K, step.ops)
  BY <1>1, <1>3, <1>10, <1>11, <1>12, InvertedTakesBack
<1>14. QED
  BY <1>1, <1>2, <1>4, <1>6, <1>8, <1>9, <1>13 DEF Undone

\* Wherever others have moved it, undo and redo of typing take back the actor's
\* own step and nothing else: its text goes, and what nobody but it has deleted
\* is back between its old neighbours, unless two stretches come back to one
\* offset (inverse.rs invert_text_operations).
THEOREM UndoIsItsOwn == Spec => []UndoTakesOnlyItsOwn
<1>1. IInv => UndoTakesOnlyItsOwn
  <2>1. SUFFICES ASSUME IInv, NEW a \in Actors, NEW verb \in {"undo", "redo"},
                        history[a][verb] # <<>>, NEW step, step = Last(history[a][verb]),
                        \A op \in step.ops : op.kind # "write", ~Tied(known[a], step.ops)
                 PROVE  Undone(a, step) = Without(known[a], step.ops)
    BY DEF UndoTakesOnlyItsOwn
  <2>2. CausalOK /\ HistoryOK
    BY <2>1 DEF IInv
  <2>3. step \in Steps
    <3>1. OwnSteps(history[a][verb], Own(a, known[a]))
      BY <2>1, <2>2 DEF HistoryOK
    <3>2. QED
      BY <2>1, <3>1, StackFront
  <2>4. QED
    BY <2>1, <2>2, <2>3, UndoneIs
<1>2. QED
  BY <1>1, Inductive, PTL
=============================================================================
