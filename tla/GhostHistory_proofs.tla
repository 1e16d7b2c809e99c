------------------------ MODULE GhostHistory_proofs ------------------------
(***************************************************************************)
(* The undo and redo of a text buffer restore the texts they promise: the  *)
(* buffer, with records that keep places counted in real lines and ghost   *)
(* lines, implements the abstract edit history, for every file, every      *)
(* inserted text and any number of edits, undos, redos and rescans in any  *)
(* order.                                                                  *)
(* The text of a buffer is taken with a line break behind each of its real *)
(* lines (Body).  A place that a record stores leads to the text that was  *)
(* above it when it was stored (Leads), and the text above it does not     *)
(* depend on ghost lines: so it is found again after a rescan moved them   *)
(* (ResolveIs).  A record fits two texts when its undo makes the first of  *)
(* the second (Fits) and can be redone when its redo makes the second of   *)
(* the first (Redoes).  HInv: there is a chain of texts that the records   *)
(* lead through one by one, whose element at the undo position is the text *)
(* of the buffer and whose elements between groups are the texts in the    *)
(* log.                                                                    *)
(* All of it needs that the last line of the buffer is real, which a       *)
(* rescan keeps as long as it places no ghost line past the last real line *)
(* (~ TrailingGhosts); with such lines an undo restores one line too many, *)
(* and the implementation fails.                                           *)
(***************************************************************************)
EXTENDS GhostBuffer_proofs

-----------------------------------------------------------------------------
(* Texts put together *)

(* The sequences s put together up to each of the first n                  *)
Sums(f, s, n) == \A i \in 1 .. n : f[i] = IF i = 1 THEN s[i] ELSE f[i - 1] \o s[i]

(* There are such sums, and the last one is the whole.                     *)
LEMMA FlattenSums ==
    ASSUME NEW s, IsSeq(s), NEW n \in Nat \ {0}, Len(s) = n
    PROVE  \E f : FlattenSeq(s) = f[n] /\ Sums(f, s, n)
<1>1. \E f : FlattenSeq(s) = f[Len(s)] /\ Sums(f, s, Len(s))
  <2>1. Len(s) # 0
    OBVIOUS
  <2> QED BY <2>1, FlattenSteps, Zenon DEF Sums
<1> QED BY <1>1

(* Sums of fewer of the sequences are the first sums.                      *)
LEMMA SumsUpTo ==
    ASSUME NEW n \in Nat, NEW f, NEW s, Sums(f, s, n), NEW m \in 0 .. n
    PROVE  Sums(f, s, m)
  BY DEF Sums

(* A sum is the one before and the next sequence.                          *)
LEMMA SumsNext ==
    ASSUME NEW n \in Nat, NEW f, NEW s, Sums(f, s, n), NEW i \in 1 .. n
    PROVE  f[i] = IF i = 1 THEN s[i] ELSE f[i - 1] \o s[i]
  BY Zenon DEF Sums

(* The value of the recursion depends on the sequences alone.              *)
LEMMA StepsAgree ==
    ASSUME NEW n \in Nat, NEW s, NEW f, NEW t, NEW g,
           \A i \in 1 .. n : s[i] = t[i], Sums(f, s, n), Sums(g, t, n)
    PROVE  \A i \in 1 .. n : f[i] = g[i]
<1> DEFINE Bad == {i \in 1 .. n : f[i] # g[i]}
<1>1. Bad = {}
  <2> SUFFICES ASSUME Bad # {} PROVE FALSE
    OBVIOUS
  <2>1. PICK m \in Bad : \A k \in Bad : m <= k
    <3>1. Bad \in SUBSET Nat
      OBVIOUS
    <3> HIDE DEF Bad
    <3> QED BY <3>1, LeastOf
  <2>2. m \in 1 .. n /\ f[m] # g[m]
    BY <2>1
  <2>7. f[m] = IF m = 1 THEN s[m] ELSE f[m - 1] \o s[m]
    BY <2>2, SumsNext
  <2>8. g[m] = IF m = 1 THEN t[m] ELSE g[m - 1] \o t[m]
    BY <2>2, SumsNext
  <2>9. s[m] = t[m]
    BY <2>2
  <2>3. m # 1
    BY <2>2, <2>7, <2>8, <2>9, Zenon
  <2>4. m - 1 \in 1 .. n /\ ~ (m <= m - 1)
    BY <2>2, <2>3
  <2>5. f[m - 1] = g[m - 1]
    BY <2>1, <2>4
  <2>6. f[m] = f[m - 1] \o s[m] /\ g[m] = g[m - 1] \o t[m] /\ s[m] = t[m]
    BY <2>3, <2>7, <2>8, <2>9, Zenon
  <2> QED BY <2>2, <2>5, <2>6, Zenon
<1> QED BY <1>1

(* No sequences make the empty one.                                        *)
LEMMA FlattenNone == FlattenSeq(<<>>) = <<>>
  BY EmptyIs, FlattenSteps

(* The last of the sequences comes last.                                   *)
LEMMA FlattenLast ==
    ASSUME NEW S, NEW s \in Seq(Seq(S)), NEW n \in Nat, Len(s) = n + 1
    PROVE  FlattenSeq(s) = FlattenSeq(SubSeq(s, 1, n)) \o s[n + 1]
<1> DEFINE t == SubSeq(s, 1, n)
<1>1. /\ IsSeq(s) /\ IsSeq(t) /\ Len(t) = n
      /\ \A i \in 1 .. n : s[i] = t[i]
  <2>1. IsSeq(s)
    BY SeqOver
  <2>2. /\ IsSeq(t) /\ Len(t) = IF 1 <= n THEN n - 1 + 1 ELSE 0
        /\ \A i \in 1 .. n - 1 + 1 : t[i] = s[1 + i - 1]
    BY SubSeqIs
  <2> HIDE DEF t
  <2> QED BY <2>1, <2>2
<1>2. s[n + 1] \in Seq(S)
  <2>1. n + 1 \in 1 .. Len(s)
    OBVIOUS
  <2> QED BY <2>1, ElementOfSeq
<1> HIDE DEF t
<1>3. PICK f : FlattenSeq(s) = f[n + 1] /\ Sums(f, s, n + 1)
  <2>1. n + 1 \in Nat \ {0}
    OBVIOUS
  <2> QED BY <1>1, <2>1, FlattenSums
<1>4. CASE n = 0
  <2>1. FlattenSeq(s) = s[1]
    <3>1. f[1] = s[1]
      <4>1. n + 1 \in Nat /\ 1 \in 1 .. n + 1
        OBVIOUS
      <4>2. f[1] = IF 1 = 1 THEN s[1] ELSE f[1 - 1] \o s[1]
        BY <1>3, <4>1, SumsNext
      <4> QED BY <4>2, Zenon
    <3> QED BY <1>3, <1>4, <3>1
  <2>2. FlattenSeq(t) = <<>>
    <3>1. Len(t) = 0
      BY <1>1, <1>4
    <3> QED BY <1>1, <3>1, FlattenSteps
  <2>3. <<>> \o s[1] = s[1]
    BY <1>2, <1>4, ConcatEmptySeq
  <2>4. s[n + 1] = s[1]
    BY <1>4
  <2>5. FlattenSeq(s) = FlattenSeq(t) \o s[n + 1]
    BY <2>1, <2>2, <2>3, <2>4, Zenon
  <2> QED BY <2>5 DEF t
<1>5. CASE n # 0
  <2>1. PICK g : FlattenSeq(t) = g[n] /\ Sums(g, t, n)
    <3>1. n \in Nat \ {0}
      BY <1>5
    <3> QED BY <1>1, <3>1, FlattenSums
  <2>2. Sums(f, s, n)
    BY <1>3, SumsUpTo
  <2>3. \A i \in 1 .. n : f[i] = g[i]
    <3>1. \A i \in 1 .. n : s[i] = t[i]
      BY <1>1
    <3>2. Sums(g, t, n)
      BY <2>1
    <3> QED BY <2>2, <3>1, <3>2, StepsAgree
  <2>4. f[n + 1] = f[n] \o s[n + 1]
    <3> DEFINE i == n + 1
    <3>1. i \in 1 .. n + 1 /\ i # 1 /\ i - 1 = n /\ n + 1 \in Nat
      BY <1>5
    <3> HIDE DEF i
    <3>2. f[i] = IF i = 1 THEN s[i] ELSE f[i - 1] \o s[i]
      <4> DEFINE N == n + 1
      <4>1. N \in Nat /\ Sums(f, s, N) /\ i \in 1 .. N
        BY <1>3, <3>1
      <4> HIDE DEF N
      <4> QED BY <4>1, SumsNext
    <3>3. f[i] = f[n] \o s[i]
      BY <3>1, <3>2, Zenon
    <3> QED BY <3>3 DEF i
  <2>5. f[n] = g[n]
    BY <1>5, <2>3
  <2> QED BY <1>3, <2>1, <2>4, <2>5 DEF t
<1> QED BY <1>4, <1>5

(* What is put together is a sequence of the same things.                  *)
LEMMA FlattenType ==
    ASSUME NEW S, NEW s \in Seq(Seq(S))
    PROVE  FlattenSeq(s) \in Seq(S)
<1> DEFINE N == Len(s)
           t(i) == SubSeq(s, 1, i)
           Bad == {i \in 0 .. N : FlattenSeq(t(i)) \notin Seq(S)}
<1>1. N \in Nat
  BY LenProperties
<1>2. \A i \in 0 .. N : t(i) \in Seq(Seq(S)) /\ Len(t(i)) = i /\ \A k \in 1 .. i : t(i)[k] = s[k]
  <2> TAKE i \in 0 .. N
  <2>1. \A k \in 1 .. i : s[k] \in Seq(S)
    BY <1>1, ElementOfSeq
  <2>2. /\ t(i) \in Seq(Seq(S)) /\ Len(t(i)) = IF 1 <= i THEN i - 1 + 1 ELSE 0
        /\ \A k \in 1 .. i - 1 + 1 : t(i)[k] = s[1 + k - 1]
    BY <2>1, SubSeqProperties
  <2> HIDE DEF t
  <2> QED BY <2>2
<1>3. Bad = {}
  <2> SUFFICES ASSUME Bad # {} PROVE FALSE
    OBVIOUS
  <2>1. PICK m \in Bad : \A k \in Bad : m <= k
    <3>1. Bad \in SUBSET Nat
      OBVIOUS
    <3> HIDE DEF Bad
    <3> QED BY <3>1, LeastOf
  <2>2. m \in 0 .. N /\ FlattenSeq(t(m)) \notin Seq(S)
    BY <2>1
  <2>3. m # 0
    <3>1. t(0) = <<>>
      BY SubSeqEmpty
    <3>2. <<>> \in Seq(S)
      OBVIOUS
    <3> HIDE DEF t
    <3> QED BY <2>2, <3>1, <3>2, FlattenNone
  <2>4. m - 1 \in 0 .. N /\ ~ (m <= m - 1) /\ m - 1 \in Nat /\ m = (m - 1) + 1 /\ m \in 1 .. N
    BY <2>2, <2>3
  <2>5. FlattenSeq(t(m - 1)) \in Seq(S)
    BY <2>1, <2>4
  <2>6. SubSeq(t(m), 1, m - 1) = t(m - 1)
    <3>1. /\ IsSeq(SubSeq(t(m), 1, m - 1)) /\ Len(SubSeq(t(m), 1, m - 1)) = m - 1
          /\ \A i \in 1 .. m - 1 : SubSeq(t(m), 1, m - 1)[i] = t(m)[i]
      <4> DEFINE u == t(m)
      <4> HIDE DEF u
      <4>1. /\ IsSeq(SubSeq(u, 1, m - 1))
            /\ Len(SubSeq(u, 1, m - 1)) = IF 1 <= m - 1 THEN m - 1 - 1 + 1 ELSE 0
            /\ \A i \in 1 .. m - 1 - 1 + 1 : SubSeq(u, 1, m - 1)[i] = u[1 + i - 1]
        BY <2>4, SubSeqIs
      <4> DEFINE v == SubSeq(u, 1, m - 1)
      <4> HIDE DEF v
      <4>2. IsSeq(v) /\ Len(v) = m - 1 /\ \A i \in 1 .. m - 1 : v[i] = u[i]
        BY <2>4, <4>1 DEF v
      <4> QED BY <4>2 DEF v, u
    <3>2. IsSeq(t(m - 1)) /\ Len(t(m - 1)) = m - 1
      <4>1. t(m - 1) \in Seq(Seq(S)) /\ Len(t(m - 1)) = m - 1
        BY <1>2, <2>4
      <4> QED BY <4>1, SeqOver
    <3>3. \A i \in 1 .. m - 1 : t(m)[i] = s[i] /\ t(m - 1)[i] = s[i]
      BY <1>2, <2>4
    <3> DEFINE u == SubSeq(t(m), 1, m - 1)
               v == t(m - 1)
    <3>4. IsSeq(u) /\ IsSeq(v) /\ Len(u) = Len(v) /\ \A i \in 1 .. Len(u) : u[i] = v[i]
      <4>1. Len(u) = m - 1 /\ Len(v) = m - 1 /\ IsSeq(u) /\ IsSeq(v)
        BY <3>1, <3>2
      <4>2. \A i \in 1 .. m - 1 : u[i] = v[i]
        BY <3>1, <3>3
      <4> HIDE DEF u, v
      <4> QED BY <4>1, <4>2
    <3> HIDE DEF u, v
    <3>5. u = [i \in 1 .. Len(u) |-> u[i]] /\ v = [i \in 1 .. Len(v) |-> v[i]]
      BY <3>4, SeqIs
    <3>6. u = v
      BY <3>4, <3>5
    <3> QED BY <3>6 DEF u, v
  <2>7. FlattenSeq(t(m)) = FlattenSeq(t(m - 1)) \o t(m)[m]
    <3>1. t(m) \in Seq(Seq(S)) /\ Len(t(m)) = (m - 1) + 1
      BY <1>2, <2>4
    <3> HIDE DEF t
    <3>2. FlattenSeq(t(m)) = FlattenSeq(SubSeq(t(m), 1, m - 1)) \o t(m)[(m - 1) + 1]
      BY <2>4, <3>1, FlattenLast
    <3> QED BY <2>4, <2>6, <3>2
  <2>8. t(m)[m] \in Seq(S)
    <3>1. t(m)[m] = s[m] /\ s[m] \in Seq(S)
      BY <1>2, <2>4, ElementOfSeq
    <3> QED BY <3>1
  <2> HIDE DEF t
  <2> QED BY <2>2, <2>5, <2>7, <2>8, ConcatProperties
<1>4. t(N) = s
  BY SubSeqFull
<1>5. N \in 0 .. N
  BY <1>1
<1> HIDE DEF t
<1>6. FlattenSeq(t(N)) \in Seq(S)
  BY <1>3, <1>5
<1> QED BY <1>4, <1>6

(* A part of a sequence, of things of one kind                             *)
LEMMA PartIs ==
    ASSUME NEW S, NEW s \in Seq(S), NEW m \in 1 .. Len(s) + 1, NEW n \in m - 1 .. Len(s)
    PROVE  /\ SubSeq(s, m, n) \in Seq(S) /\ Len(SubSeq(s, m, n)) = n - m + 1
           /\ \A i \in 1 .. n - m + 1 : SubSeq(s, m, n)[i] = s[m + i - 1]
<1>1. Len(s) \in Nat
  BY LenProperties
<1>2. m \in Int /\ n \in Int /\ n - m + 1 \in Nat
  BY <1>1
<1>3. \A i \in m .. n : s[i] \in S
  <2>1. \A i \in m .. n : i \in 1 .. Len(s)
    BY <1>1
  <2> QED BY <2>1, ElementOfSeq
<1>4. /\ SubSeq(s, m, n) \in Seq(S)
      /\ Len(SubSeq(s, m, n)) = IF m <= n THEN n - m + 1 ELSE 0
      /\ \A i \in 1 .. n - m + 1 : SubSeq(s, m, n)[i] = s[m + i - 1]
  BY <1>2, <1>3, SubSeqProperties
<1>5. (IF m <= n THEN n - m + 1 ELSE 0) = n - m + 1
  BY <1>1
<1> QED BY <1>4, <1>5

(* One more sequence comes behind the text of the others.                  *)
LEMMA FlattenOneMore ==
    ASSUME NEW S, NEW s \in Seq(Seq(S)), NEW e \in Seq(S)
    PROVE  /\ s \o <<e>> \in Seq(Seq(S)) /\ Len(s \o <<e>>) = Len(s) + 1
           /\ FlattenSeq(s \o <<e>>) = FlattenSeq(s) \o e
<1> DEFINE u == s \o <<e>>
           n == Len(s)
           t == SubSeq(u, 1, n)
<1>1. n \in Nat /\ <<e>> \in Seq(Seq(S)) /\ Len(<<e>>) = 1 /\ <<e>>[1] = e
  BY LenProperties
<1>2. /\ u \in Seq(Seq(S)) /\ Len(u) = n + 1
      /\ \A i \in 1 .. n + 1 : u[i] = IF i <= n THEN s[i] ELSE <<e>>[i - n]
  BY <1>1, ConcatProperties
<1> HIDE DEF u
<1>3. u[n + 1] = e /\ \A i \in 1 .. n : u[i] = s[i]
  <2>1. n + 1 \in 1 .. n + 1 /\ ~ (n + 1 <= n) /\ n + 1 - n = 1
    BY <1>1
  <2>2. \A i \in 1 .. n : i \in 1 .. n + 1 /\ i <= n
    BY <1>1
  <2> QED BY <1>1, <1>2, <2>1, <2>2
<1>4. /\ t \in Seq(Seq(S)) /\ Len(t) = n
      /\ \A i \in 1 .. n : t[i] = u[i]
  <2>1. 1 \in 1 .. Len(u) + 1 /\ n \in 1 - 1 .. Len(u) /\ n - 1 + 1 = n
    BY <1>1, <1>2
  <2>2. /\ t \in Seq(Seq(S)) /\ Len(t) = n - 1 + 1
        /\ \A i \in 1 .. n - 1 + 1 : t[i] = u[1 + i - 1]
    BY <1>2, <2>1, PartIs
  <2> HIDE DEF t
  <2> QED BY <1>1, <2>2
<1>5. t = s
  <2> HIDE DEF t
  <2>1. \A i \in 1 .. Len(t) : t[i] = s[i]
    BY <1>3, <1>4
  <2> QED BY <1>4, <2>1, SeqEqual
<1>6. FlattenSeq(u) = FlattenSeq(t) \o u[n + 1]
  BY <1>1, <1>2, FlattenLast
<1> HIDE DEF t
<1>7. FlattenSeq(u) = FlattenSeq(s) \o e
  BY <1>3, <1>5, <1>6, Zenon
<1> QED BY <1>2, <1>7 DEF u

(* A claim that holds for no sequences and goes on with each one: for the  *)
(* first sequences, up to where it fails first.                            *)
LEMMA FirstFailure ==
    ASSUME NEW N \in Nat, NEW Bad \in SUBSET (0 .. N), Bad # {}, 0 \notin Bad
    PROVE  \E m \in 1 .. N : m \in Bad /\ m - 1 \notin Bad /\ m - 1 \in 0 .. N
<1>1. Bad \in SUBSET Nat
  OBVIOUS
<1>2. PICK m \in Bad : \A k \in Bad : m <= k
  BY <1>1, LeastOf
<1>3. m \in 1 .. N /\ m - 1 \in 0 .. N /\ ~ (m <= m - 1)
  BY <1>2
<1> QED BY <1>2, <1>3

(* The first sequences up to one: those up to the one before and that one. *)
LEMMA PrefixNext ==
    ASSUME NEW S, NEW s \in Seq(S), NEW m \in 1 .. Len(s)
    PROVE  /\ SubSeq(s, 1, m - 1) \in Seq(S) /\ s[m] \in S
           /\ SubSeq(s, 1, m) = SubSeq(s, 1, m - 1) \o <<s[m]>>
<1>1. Len(s) \in Nat
  BY LenProperties
<1>2. 1 \in 1 .. Len(s) /\ m \in 1 .. Len(s) /\ 1 \in 1 .. Len(s) + 1 /\ m - 1 \in 1 - 1 .. Len(s)
  BY <1>1
<1>3. SubSeq(s, 1, m) = SubSeq(s, 1, m - 1) \o <<s[m]>>
  BY <1>2, SubSeqRecursiveSecond
<1>4. SubSeq(s, 1, m - 1) \in Seq(S)
  BY <1>2, PartIs
<1> QED BY <1>3, <1>4, ElementOfSeq

(* Sequences of members of S and their concatenation, under names that keep *)
(* the provers off the many facts they know of sequences.                  *)
Over(S, s) == s \in Seq(S)

a ++ b == a \o b

(* What the proofs below need of concatenation                             *)
LEMMA Joined ==
    ASSUME NEW S, NEW a, NEW b, Over(S, a), Over(S, b)
    PROVE  Over(S, a ++ b) /\ Len(a ++ b) = Len(a) + Len(b) /\ Len(a) \in Nat
  BY ConcatProperties, LenProperties DEF Over, ++

(* Concatenation does not care for the order in which it is done.          *)
LEMMA JoinedInAnyOrder ==
    ASSUME NEW S, NEW a, NEW b, NEW c, Over(S, a), Over(S, b), Over(S, c)
    PROVE  (a ++ b) ++ c = a ++ (b ++ c)
  BY DEF Over, ++

(* The empty sequence adds nothing on either side.                         *)
LEMMA JoinedWithNone ==
    ASSUME NEW S, NEW a, Over(S, a)
    PROVE  Over(S, <<>>) /\ a ++ <<>> = a /\ <<>> ++ a = a
  BY ConcatEmptySeq DEF Over, ++

(* Sequences of members of S make a sequence of members of S.              *)
LEMMA FlattenOver ==
    ASSUME NEW S, NEW s, Over(Seq(S), s)
    PROVE  Over(S, FlattenSeq(s))
  BY FlattenType DEF Over

(* One sequence more comes behind what the others make.                    *)
LEMMA FlattenOneMoreOver ==
    ASSUME NEW S, NEW s, Over(Seq(S), s), NEW e, Over(S, e)
    PROVE  Over(Seq(S), <<e>>) /\ FlattenSeq(s ++ <<e>>) = FlattenSeq(s) ++ e
<1>1. FlattenSeq(s ++ <<e>>) = FlattenSeq(s) ++ e
  BY FlattenOneMore DEF Over, ++
<1>2. Over(Seq(S), <<e>>)
  BY DEF Over
<1> QED BY <1>1, <1>2

(* A prefix is a shorter prefix and one member.                            *)
LEMMA PrefixOver ==
    ASSUME NEW S, NEW s, Over(S, s), NEW m \in 1 .. Len(s)
    PROVE  /\ Over(S, SubSeq(s, 1, m - 1)) /\ s[m] \in S
           /\ SubSeq(s, 1, m) = SubSeq(s, 1, m - 1) ++ <<s[m]>>
<1>1. s \in Seq(S)
  BY DEF Over
<1> QED BY <1>1, PrefixNext DEF Over, ++

(* Sequences of sequences, one behind the other                            *)
LEMMA FlattenConcat ==
    ASSUME NEW S, NEW s, Over(Seq(S), s), NEW t, Over(Seq(S), t)
    PROVE  FlattenSeq(s ++ t) = FlattenSeq(s) ++ FlattenSeq(t)
<1> DEFINE N == Len(t)
           part(i) == SubSeq(t, 1, i)
           Good(i) == FlattenSeq(s ++ part(i)) = FlattenSeq(s) ++ FlattenSeq(part(i))
           Bad == {i \in 0 .. N : ~ Good(i)}
<1>1. N \in Nat
  BY LenProperties DEF Over
<1>2. Over(S, FlattenSeq(s))
  BY FlattenOver
<1>3. Good(0)
  <2>1. part(0) = <<>>
    BY SubSeqEmpty
  <2>2. s ++ <<>> = s /\ FlattenSeq(s) ++ <<>> = FlattenSeq(s)
    BY <1>2, JoinedWithNone
  <2> HIDE DEF part
  <2> QED BY <2>1, <2>2, FlattenNone
<1>4. ASSUME NEW m \in 1 .. N, Good(m - 1) PROVE Good(m)
  <2> DEFINE p == part(m - 1)
             e == t[m]
  <2>1. Over(Seq(S), p) /\ Over(S, e) /\ part(m) = p ++ <<e>>
    <3>1. Over(Seq(S), p) /\ e \in Seq(S) /\ part(m) = p ++ <<e>>
      BY PrefixOver
    <3> QED BY <3>1 DEF Over
  <2>2. FlattenSeq(s ++ p) = FlattenSeq(s) ++ FlattenSeq(p)
    BY <1>4
  <2> HIDE DEF p, e, part
  <2>3. Over(Seq(S), s ++ p) /\ Over(Seq(S), <<e>>) /\ Over(S, FlattenSeq(p))
    BY <2>1, Joined, FlattenOneMoreOver, FlattenOver
  <2>4. s ++ (p ++ <<e>>) = (s ++ p) ++ <<e>>
    BY <2>1, <2>3, JoinedInAnyOrder
  <2>5. /\ FlattenSeq((s ++ p) ++ <<e>>) = FlattenSeq(s ++ p) ++ e
        /\ FlattenSeq(p ++ <<e>>) = FlattenSeq(p) ++ e
    BY <2>1, <2>3, FlattenOneMoreOver
  <2>6. (FlattenSeq(s) ++ FlattenSeq(p)) ++ e = FlattenSeq(s) ++ (FlattenSeq(p) ++ e)
    BY <1>2, <2>1, <2>3, JoinedInAnyOrder
  <2> QED BY <2>1, <2>2, <2>4, <2>5, <2>6
<1>5. Bad = {}
  <2> SUFFICES ASSUME Bad # {} PROVE FALSE
    OBVIOUS
  <2> HIDE DEF Good
  <2>1. Bad \in SUBSET (0 .. N) /\ 0 \notin Bad
    BY <1>3
  <2> HIDE DEF Bad
  <2>2. PICK m \in 1 .. N : m \in Bad /\ m - 1 \notin Bad /\ m - 1 \in 0 .. N
    BY <1>1, <2>1, FirstFailure
  <2>3. ~ Good(m) /\ Good(m - 1)
    BY <2>2 DEF Bad
  <2> QED BY <1>4, <2>3
<1>6. part(N) = t
  BY SubSeqFull DEF Over
<1>7. Good(N)
  <2> HIDE DEF Good
  <2>1. N \in 0 .. N
    BY <1>1
  <2> QED BY <1>5, <2>1
<1> HIDE DEF part
<1> QED BY <1>6, <1>7

(* A single sequence is what it makes.                                     *)
LEMMA FlattenSingle ==
    ASSUME NEW S, NEW e \in Seq(S)
    PROVE  FlattenSeq(<<e>>) = e
<1>1. <<>> \in Seq(Seq(S)) /\ <<e>> \in Seq(Seq(S))
  OBVIOUS
<1>2. <<>> \o <<e>> = <<e>> /\ <<>> \o e = e
  BY <1>1, ConcatEmptySeq
<1>3. FlattenSeq(<<>> \o <<e>>) = FlattenSeq(<<>>) \o e
  BY <1>1, FlattenOneMore
<1> QED BY <1>2, <1>3, FlattenNone, Zenon

(* Empty sequences make the empty one.                                     *)
LEMMA FlattenEmpties ==
    ASSUME NEW S, NEW s \in Seq(Seq(S)), \A i \in 1 .. Len(s) : s[i] = <<>>
    PROVE  FlattenSeq(s) = <<>>
<1>1. IsSeq(s) /\ IsSeq(<<>>) /\ Len(<<>>) = 0 /\ Len(s) \in Nat
  BY SeqOver, EmptyIs, LenProperties
<1>2. \A i \in 1 .. Len(s) : IsSeq(s[i])
  BY EmptyIs
<1>3. {} \in SUBSET (1 .. Len(s)) /\ Cardinality({}) = 0
  BY FS_EmptySet
<1>4. FlattenSeq(s) = FlattenSeq(<<>>)
  BY <1>1, <1>2, <1>3, FlattenSkips
<1> QED BY <1>4, FlattenNone

-----------------------------------------------------------------------------
(* Texts *)

(* A text is of characters and line breaks.                                *)
Text(s) == Over(Chars \union {EOL}, s)

(* A word is a text without line breaks: what a line holds.                *)
Word(s) == Over(Chars, s)

(* The line break as a text.                                               *)
Break == <<EOL>>

(* How many line breaks a text has.                                        *)
Eols(s) == Cardinality(EolsOf(s))

(* A text that line breaks end all of                                      *)
Ended(s) == s = <<>> \/ \E c : Text(c) /\ s = c ++ Break

(* Two texts make a text as long as both.                                  *)
LEMMA TextJoined ==
    ASSUME NEW a, NEW b, Text(a), Text(b)
    PROVE  Text(a ++ b) /\ Len(a ++ b) = Len(a) + Len(b) /\ Len(a) \in Nat
  BY Joined DEF Text

(* Three texts make the same text whichever two are joined first.          *)
LEMMA TextInAnyOrder ==
    ASSUME NEW a, NEW b, NEW c, Text(a), Text(b), Text(c)
    PROVE  (a ++ b) ++ c = a ++ (b ++ c)
  BY JoinedInAnyOrder DEF Text

(* The empty text adds nothing on either side.                             *)
LEMMA TextWithNone == Text(<<>>) /\ \A a : Text(a) => a ++ <<>> = a /\ <<>> ++ a = a
<1>1. <<>> \in Seq(Chars \union {EOL})
  OBVIOUS
<1>2. ASSUME NEW a, Text(a) PROVE a ++ <<>> = a /\ <<>> ++ a = a
  BY <1>2, JoinedWithNone DEF Text
<1> QED BY <1>1, <1>2 DEF Text, Over

(* A text has a length, and only the empty one has length 0.               *)
LEMMA TextLen ==
    ASSUME NEW a, Text(a)
    PROVE  Len(a) \in Nat /\ (Len(a) = 0 <=> a = <<>>) /\ IsSeq(a) /\ a \in Seq(Chars \union {EOL})
<1>1. a \in Seq(Chars \union {EOL})
  BY DEF Text, Over
<1> QED BY <1>1, SeqOver, LenProperties, EmptySeq

(* A line break is a text of one character, which is a line break.         *)
LEMMA BreakIs == Text(Break) /\ Len(Break) = 1 /\ Break # <<>> /\ Eols(Break) = 1 /\ Eols(<<>>) = 0
<1>1. Text(Break) /\ Len(Break) = 1
  BY DEF Text, Over, Break
<1>2. EolsOf(Break) = {1}
  BY DEF EolsOf, Break
<1>3. EolsOf(<<>>) = {}
  BY DEF EolsOf
<1> QED BY <1>1, <1>2, <1>3, FS_Singleton, FS_EmptySet, TextLen DEF Eols

(* Two texts have the line breaks of both.                                 *)
LEMMA EolsJoined ==
    ASSUME NEW a, NEW b, Text(a), Text(b)
    PROVE  Eols(a ++ b) = Eols(a) + Eols(b) /\ Eols(a) \in Nat /\ Eols(b) \in Nat
<1>1. IsSeq(a) /\ IsSeq(b)
  BY TextLen
<1> QED BY <1>1, EolsConcat, EolsAre DEF Eols, ++

(* A word is a text without line breaks.                                   *)
LEMMA WordIs ==
    ASSUME BufferAssumption, NEW w, Word(w)
    PROVE  Text(w) /\ Eols(w) = 0
<1>1. w \in Seq(Chars) /\ EOL \notin Chars
  BY DEF Word, Over, BufferAssumption
<1>2. w \in Seq(Chars \union {EOL})
  BY <1>1
<1>3. EolsOf(w) = {}
  <2>1. \A i \in DOMAIN w : w[i] \in Chars
    BY <1>1, ElementOfSeq, LenProperties
  <2> QED BY <1>1, <2>1 DEF EolsOf
<1> QED BY <1>2, <1>3, FS_EmptySet DEF Text, Over, Eols

(* A text is cut in two at any place.                                      *)
LEMMA TextCut ==
    ASSUME NEW s, Text(s), NEW x \in 0 .. Len(s)
    PROVE  /\ Text(SubSeq(s, 1, x)) /\ Len(SubSeq(s, 1, x)) = x
           /\ Text(SubSeq(s, x + 1, Len(s))) /\ Len(SubSeq(s, x + 1, Len(s))) = Len(s) - x
           /\ s = SubSeq(s, 1, x) ++ SubSeq(s, x + 1, Len(s))
<1> DEFINE S == Chars \union {EOL}
<1>1. s \in Seq(S) /\ Len(s) \in Nat
  BY TextLen
<1> HIDE DEF S
<1> DEFINE a == SubSeq(s, 1, x)
           m == x + 1
           b == SubSeq(s, m, Len(s))
<1>2. a \in Seq(S) /\ Len(a) = x /\ \A i \in 1 .. x : a[i] = s[i]
  <2>1. 1 \in 1 .. Len(s) + 1 /\ x \in 1 - 1 .. Len(s) /\ x \in Nat
    BY <1>1
  <2>2. /\ a \in Seq(S) /\ Len(a) = x - 1 + 1
        /\ \A i \in 1 .. x - 1 + 1 : a[i] = s[1 + i - 1]
    BY <1>1, <2>1, PartIs
  <2> HIDE DEF a
  <2> QED BY <2>1, <2>2
<1>3. b \in Seq(S) /\ Len(b) = Len(s) - x /\ \A i \in 1 .. Len(s) - x : b[i] = s[x + i]
  <2>1. m \in 1 .. Len(s) + 1 /\ Len(s) \in m - 1 .. Len(s) /\ x \in Nat
    BY <1>1
  <2> HIDE DEF m
  <2>2. /\ b \in Seq(S) /\ Len(b) = Len(s) - m + 1
        /\ \A i \in 1 .. Len(s) - m + 1 : b[i] = s[m + i - 1]
    BY <1>1, <2>1, PartIs
  <2> HIDE DEF b
  <2> QED BY <1>1, <2>1, <2>2 DEF m
<1> HIDE DEF a, b
<1>4. s = a \o b
  <2>1. a \o b \in Seq(S) /\ Len(a \o b) = Len(s)
    BY <1>1, <1>2, <1>3, ConcatProperties
  <2>2. \A i \in 1 .. Len(s) : s[i] = (a \o b)[i]
    <3>1. \A i \in 1 .. Len(a) + Len(b) : (a \o b)[i] = IF i <= Len(a) THEN a[i] ELSE b[i - Len(a)]
      BY <1>2, <1>3, ConcatProperties
    <3> SUFFICES ASSUME NEW i \in 1 .. Len(s) PROVE s[i] = (a \o b)[i]
      OBVIOUS
    <3>2. CASE i <= x
      BY <1>1, <1>2, <1>3, <3>1, <3>2
    <3>3. CASE ~ i <= x
      <4> DEFINE j == i - x
      <4>1. j \in 1 .. Len(s) - x /\ x + j = i
        BY <1>1, <3>3
      <4>2. b[j] = s[i]
        BY <1>3, <4>1
      <4> QED BY <1>1, <1>2, <1>3, <3>1, <3>3, <4>2
    <3> QED BY <3>2, <3>3
  <2> QED BY <1>1, <2>1, <2>2, SeqEqual
<1>5. Text(a) /\ Text(b) /\ s = a ++ b
  BY <1>2, <1>3, <1>4 DEF Text, Over, S, ++
<1> QED BY <1>2, <1>3, <1>5 DEF a, b, m

(* What comes before the end of a is a.                                    *)
LEMMA CutOff ==
    ASSUME NEW a, NEW b, Text(a), Text(b), NEW n, n = Len(a)
    PROVE  SubSeq(a ++ b, 1, n) = a
<1> DEFINE S == Chars \union {EOL}
           s == a ++ b
<1>1. a \in Seq(S) /\ b \in Seq(S) /\ Len(a) \in Nat /\ Len(b) \in Nat
  BY TextLen
<1>2. Text(s) /\ Len(s) = Len(a) + Len(b) /\ n \in 0 .. Len(s)
  BY <1>1, TextJoined
<1>3. \A i \in 1 .. n : s[i] = a[i]
  <2>1. \A i \in 1 .. Len(a) + Len(b) : (a \o b)[i] = IF i <= Len(a) THEN a[i] ELSE b[i - Len(a)]
    BY <1>1, ConcatProperties
  <2> QED BY <1>1, <2>1 DEF ++
<1> HIDE DEF s
<1>4. SubSeq(s, 1, n) \in Seq(S) /\ Len(SubSeq(s, 1, n)) = n
  BY <1>2, TextCut, TextLen
<1>5. \A i \in 1 .. n : SubSeq(s, 1, n)[i] = s[i]
  <2>1. \A i \in 1 .. n - 1 + 1 : SubSeq(s, 1, n)[i] = s[1 + i - 1]
    BY <1>1, SubSeqIs
  <2> QED BY <1>1, <2>1
<1> HIDE DEF S
<1>6. SubSeq(s, 1, n) = a
  BY <1>1, <1>3, <1>4, <1>5, SeqEqual
<1> QED BY <1>6 DEF s

(* Two equal texts have equal starts of the same length.                   *)
LEMMA SameStart ==
    ASSUME NEW a, NEW b, NEW c, NEW d, Text(a), Text(b), Text(c), Text(d),
           a ++ b = c ++ d, Len(a) = Len(c)
    PROVE  a = c
<1>1. SubSeq(a ++ b, 1, Len(a)) = a
  BY CutOff
<1>2. SubSeq(c ++ d, 1, Len(c)) = c
  BY CutOff
<1> QED BY <1>1, <1>2

(* Of two beginnings of a text the longer one goes on where the other ends.*)
LEMMA Overlap ==
    ASSUME NEW a, NEW b, NEW c, NEW d, Text(a), Text(b), Text(c), Text(d),
           a ++ b = c ++ d, Len(a) <= Len(c)
    PROVE  \E e : Text(e) /\ c = a ++ e /\ Len(c) = Len(a) + Len(e)
<1> DEFINE x == Len(a)
           h == SubSeq(c, 1, x)
           t == SubSeq(c, x + 1, Len(c))
<1>1. x \in Nat /\ Len(c) \in Nat /\ x \in 0 .. Len(c)
  BY TextLen
<1>2. Text(h) /\ Len(h) = x /\ Text(t) /\ c = h ++ t
  BY <1>1, TextCut
<1> HIDE DEF h, t, x
<1>3. (h ++ t) ++ d = h ++ (t ++ d) /\ Text(t ++ d)
  BY <1>2, TextInAnyOrder, TextJoined
<1>4. a = h
  BY <1>2, <1>3, SameStart DEF x
<1> QED BY <1>2, <1>4, TextJoined DEF x

(* Texts that are equal behind the same start.                             *)
LEMMA CancelStart ==
    ASSUME NEW a, NEW b, NEW c, Text(a), Text(b), Text(c), a ++ b = a ++ c
    PROVE  b = c
<1> DEFINE S == Chars \union {EOL}
<1>1. a \in Seq(S) /\ b \in Seq(S) /\ c \in Seq(S) /\ Len(a) \in Nat /\ Len(b) \in Nat /\ Len(c) \in Nat
  BY TextLen
<1> HIDE DEF S
<1>2. Len(b) = Len(c)
  BY <1>1, TextJoined
<1>3. a \o b = a \o c
  BY DEF ++
<1>4. ASSUME NEW i \in 1 .. Len(b) PROVE b[i] = c[i]
  <2>1. \A j \in 1 .. Len(a) + Len(b) :
            /\ (a \o b)[j] = IF j <= Len(a) THEN a[j] ELSE b[j - Len(a)]
            /\ (a \o c)[j] = IF j <= Len(a) THEN a[j] ELSE c[j - Len(a)]
    BY <1>1, <1>2, ConcatProperties
  <2> HIDE <1>3
  <2> DEFINE k == Len(a) + i
  <2>2. k \in 1 .. Len(a) + Len(b) /\ ~ k <= Len(a) /\ k - Len(a) = i
    BY <1>1
  <2> HIDE DEF k
  <2>3. (a \o b)[k] = b[i] /\ (a \o c)[k] = c[i]
    BY <2>1, <2>2
  <2> QED BY <1>3, <2>3
<1> QED BY <1>1, <1>2, <1>4, SeqEqual

(* Texts that are equal before the same end.                               *)
LEMMA CancelEnd ==
    ASSUME NEW a, NEW b, NEW c, Text(a), Text(b), Text(c), a ++ c = b ++ c
    PROVE  a = b
<1>1. Len(a) = Len(b)
  BY TextJoined, TextLen
<1> QED BY <1>1, SameStart

-----------------------------------------------------------------------------
(* Places that lead to a text *)

(* A line break behind a text ends its last line.                          *)
LEMMA BreakLast ==
    ASSUME NEW c, Text(c)
    PROVE  Text(c ++ Break) /\ Len(c ++ Break) = Len(c) + 1 /\ Eols(c ++ Break) = Eols(c) + 1
           /\ Ended(c ++ Break) /\ c ++ Break # <<>>
<1>1. Text(c ++ Break) /\ Len(c ++ Break) = Len(c) + 1 /\ Eols(c ++ Break) = Eols(c) + 1
  BY TextJoined, BreakIs, EolsJoined
<1>2. c ++ Break # <<>>
  BY <1>1, TextLen
<1> QED BY <1>1, <1>2 DEF Ended

(* The end of a text with line breaks all through ends with one.           *)
LEMMA EndedPart ==
    ASSUME NEW a, NEW b, Text(a), Text(b), Ended(a ++ b), b # <<>>
    PROVE  Ended(b) /\ Eols(b) >= 1
<1>1. a ++ b # <<>> /\ Len(b) >= 1 /\ Len(a) \in Nat /\ Len(b) \in Nat
  BY TextJoined, TextLen
<1>2. PICK c : Text(c) /\ a ++ b = c ++ Break
  BY <1>1 DEF Ended
<1>3. Len(a) <= Len(c)
  BY SMTT(30), <1>1, <1>2, TextJoined, BreakIs, TextLen
<1>4. PICK e : Text(e) /\ c = a ++ e
  BY <1>2, <1>3, Overlap, BreakIs
<1>5. a ++ b = a ++ (e ++ Break)
  BY <1>2, <1>4, TextInAnyOrder, BreakIs
<1>6. b = e ++ Break
  BY <1>4, <1>5, CancelStart, BreakLast
<1> QED BY <1>4, <1>6, BreakLast, EolsJoined, BreakIs

(* A text ends with a line break when its last part does.                  *)
LEMMA EndedJoined ==
    ASSUME NEW a, NEW b, Text(a), Text(b), Ended(b), b # <<>> \/ Ended(a)
    PROVE  Ended(a ++ b)
<1>1. CASE b = <<>>
  BY <1>1, TextWithNone
<1>2. CASE b # <<>>
  <2>1. PICK c : Text(c) /\ b = c ++ Break
    BY <1>2 DEF Ended
  <2>2. a ++ b = (a ++ c) ++ Break
    BY <2>1, TextInAnyOrder, BreakIs
  <2> QED BY <2>1, <2>2, BreakLast, TextJoined
<1> QED BY <1>1, <1>2

(* Of two beginnings that line breaks end, the one with more text has more *)
(* line breaks.                                                            *)
LEMMA SameLines ==
    ASSUME NEW a, NEW b, NEW c, NEW d, Text(a), Text(b), Text(c), Text(d),
           a ++ b = c ++ d, Ended(a), Ended(c), Eols(a) = Eols(c)
    PROVE  a = c
<1>1. ASSUME NEW p, NEW q, NEW r, NEW t, Text(p), Text(q), Text(r), Text(t),
             p ++ q = r ++ t, Ended(r), Eols(p) = Eols(r), Len(p) <= Len(r)
      PROVE  p = r
  <2>1. PICK e : Text(e) /\ r = p ++ e
    BY <1>1, Overlap
  <2>2. Eols(e) = 0
    BY SMTT(30), <1>1, <2>1, EolsJoined
  <2>3. e = <<>>
    BY <1>1, <2>1, <2>2, EndedPart
  <2> QED BY <1>1, <2>1, <2>3, TextWithNone
<1>2. Len(a) \in Nat /\ Len(c) \in Nat
  BY TextLen
<1>3. CASE Len(a) <= Len(c)
  BY <1>1, <1>3
<1>4. CASE Len(c) <= Len(a)
  BY <1>1, <1>4
<1> QED BY <1>2, <1>3, <1>4

(* A word that a text with a line break begins with ends before the break. *)
LEMMA WordInLine ==
    ASSUME BufferAssumption, NEW w, NEW c, NEW t, NEW d, Word(w), Text(c), Text(t), Text(d),
           w ++ c = t ++ (Break ++ d)
    PROVE  \E v : Text(v) /\ t = w ++ v /\ Len(t) = Len(w) + Len(v)
<1>1. Text(w) /\ Eols(w) = 0 /\ Len(w) \in Nat /\ Len(t) \in Nat /\ Text(Break ++ d)
  BY WordIs, TextLen, TextJoined, BreakIs
<1>2. CASE Len(w) <= Len(t)
  BY <1>1, <1>2, Overlap
<1>3. CASE Len(t) < Len(w)
  <2>1. PICK e : Text(e) /\ w = t ++ e /\ Len(w) = Len(t) + Len(e)
    BY <1>1, <1>3, Overlap
  <2>2. t ++ (e ++ c) = t ++ (Break ++ d)
    BY <1>1, <2>1, TextInAnyOrder
  <2>3. Break ++ d = e ++ c
    BY <1>1, <2>1, <2>2, CancelStart, TextJoined
  <2>4. Len(Break) <= Len(e)
    BY <1>1, <1>3, <2>1, TextLen, BreakIs
  <2>5. PICK f : Text(f) /\ e = Break ++ f
    <3>1. Text(Break) /\ Text(e)
      BY <2>1, BreakIs
    <3>2. \E f : Text(f) /\ e = Break ++ f /\ Len(e) = Len(Break) + Len(f)
      BY <2>3, <2>4, <3>1, Overlap
    <3> QED BY <3>2
  <2>6. Eols(e) >= 1
    BY <2>5, EolsJoined, BreakIs
  <2>7. Eols(w) >= 1
    BY <2>1, <2>6, EolsJoined
  <2> QED BY <1>1, <2>7
<1> QED BY <1>1, <1>2, <1>3

-----------------------------------------------------------------------------
(* Places and the text above them *)

(* The text above a place, as an undo record stores it, is a: so many lines*)
(* and so many characters of the next one.                                 *)
Leads(place, a) ==
    \E b, w :
        /\ Text(b) /\ Word(w) /\ a = b ++ w
        /\ Ended(b) /\ place.y = Eols(b) + 1 /\ place.x = Len(w)
        /\ place.nGhost \in Nat /\ (place.nGhost > 0 => place.x = 0)

(* A place that leads to a text counts the line breaks of that text.       *)
LEMMA LeadsText ==
    ASSUME BufferAssumption, NEW place, NEW a, Leads(place, a)
    PROVE  /\ Text(a) /\ place.y = Eols(a) + 1 /\ place.y \in Nat \ {0} /\ place.x \in Nat
           /\ place.nGhost \in Nat /\ IsPlace(place)
<1>1. PICK b, w :
        /\ Text(b) /\ Word(w) /\ a = b ++ w
        /\ Ended(b) /\ place.y = Eols(b) + 1 /\ place.x = Len(w) /\ place.nGhost \in Nat
  BY DEF Leads
<1>2. Text(w) /\ Eols(w) = 0 /\ Len(w) \in Nat
  BY <1>1, WordIs, TextLen
<1> QED BY <1>1, <1>2, TextJoined, EolsJoined DEF IsPlace

(* What a text with line breaks follows at a place in the ghost lines ends *)
(* with one.                                                               *)
LEMMA LeadsEnded ==
    ASSUME BufferAssumption, NEW place, NEW a, Leads(place, a)
    PROVE  place.x = 0 <=> Ended(a)
<1>1. PICK b, w :
        /\ Text(b) /\ Word(w) /\ a = b ++ w
        /\ Ended(b) /\ place.y = Eols(b) + 1 /\ place.x = Len(w)
  BY DEF Leads
<1>2. Text(w) /\ Eols(w) = 0 /\ (Len(w) = 0 <=> w = <<>>)
  BY <1>1, WordIs, TextLen
<1>3. CASE w = <<>>
  BY <1>1, <1>2, <1>3, TextWithNone
<1>4. CASE w # <<>>
  <2>1. ~ Ended(a)
    BY <1>1, <1>2, <1>4, EndedPart
  <2> QED BY <1>1, <1>2, <1>4, <2>1
<1> QED BY <1>3, <1>4

-----------------------------------------------------------------------------
(* Lines and the text they hold *)

(* A line of words, a ghost line of none                                   *)
IsWordLine(l) ==
    /\ IsLine(l) /\ Word(l.text) /\ (l.ghost => l.text = <<>>)
    /\ l.ghost \in BOOLEAN /\ l.eol \in BOOLEAN

(* Lines that hold words.                                                  *)
Proper(lines) == IsSeq(lines) /\ \A i \in 1 .. Len(lines) : IsWordLine(lines[i])

(* The text of real lines with a line break behind each, the last included *)
Row(l) == IF l.ghost THEN <<>> ELSE l.text ++ Break

(* What each line is in the file.                                          *)
Rows(lines) == [i \in 1 .. Len(lines) |-> Row(lines[i])]

(* The text of the buffer: the rows of its lines, one after the other.     *)
Body(lines) == FlattenSeq(Rows(lines))

(* Lines of words are a sequence of lines.                                 *)
LEMMA ProperIs ==
    ASSUME NEW lines, Proper(lines)
    PROVE  /\ IsLines(lines) /\ Len(lines) \in Nat
           /\ DOMAIN lines = 1 .. Len(lines) /\ lines = [i \in 1 .. Len(lines) |-> lines[i]]
  BY SeqIs DEF Proper, IsLines, IsWordLine

(* The row of a line is its text and one line break, that of a ghost line  *)
(* is empty.                                                               *)
LEMMA RowIs ==
    ASSUME BufferAssumption, NEW l, IsWordLine(l)
    PROVE  /\ Text(l.text) /\ Text(Row(l)) /\ Ended(Row(l))
           /\ Eols(Row(l)) = IF l.ghost THEN 0 ELSE 1
<1>1. Text(l.text) /\ Eols(l.text) = 0
  BY WordIs DEF IsWordLine
<1>2. CASE l.ghost
  BY <1>1, <1>2, BreakIs, TextWithNone DEF Row, Ended
<1>3. CASE ~ l.ghost
  BY <1>1, <1>3, BreakLast DEF Row
<1> QED BY <1>2, <1>3

(* The rows of lines are texts, and so is what they make together.         *)
LEMMA RowsAre ==
    ASSUME BufferAssumption, NEW lines, Proper(lines)
    PROVE  Over(Seq(Chars \union {EOL}), Rows(lines)) /\ Text(Body(lines))
<1> DEFINE S == Chars \union {EOL}
<1>1. Len(lines) \in Nat
  BY ProperIs
<1>2. \A i \in 1 .. Len(lines) : Row(lines[i]) \in Seq(S)
  BY RowIs DEF Proper, Text, Over
<1> HIDE DEF S
<1>3. Rows(lines) \in Seq(Seq(S))
  BY <1>1, <1>2, SeqDef DEF Rows
<1>4. Over(Seq(S), Rows(lines))
  BY <1>3 DEF Over
<1>5. Over(S, Body(lines))
  BY <1>4, FlattenOver DEF Body
<1> QED BY <1>4, <1>5 DEF Text, S

(* Lines one behind the other                                              *)
LEMMA ProperJoined ==
    ASSUME NEW s, NEW t, Proper(s), Proper(t)
    PROVE  /\ Proper(s ++ t) /\ Len(s ++ t) = Len(s) + Len(t)
           /\ \A i \in 1 .. Len(s) + Len(t) :
                  (s ++ t)[i] = IF i <= Len(s) THEN s[i] ELSE t[i - Len(s)]
<1>1. IsSeq(s) /\ IsSeq(t) /\ Len(s) \in Nat /\ Len(t) \in Nat
  BY SeqIs DEF Proper
<1>2. /\ IsSeq(s ++ t) /\ Len(s ++ t) = Len(s) + Len(t)
      /\ \A i \in 1 .. Len(s) + Len(t) :
             (s ++ t)[i] = IF i <= Len(s) THEN s[i] ELSE t[i - Len(s)]
  BY <1>1, ConcatIs DEF ++
<1>3. ASSUME NEW i \in 1 .. Len(s) + Len(t) PROVE IsWordLine((s ++ t)[i])
  <2>1. CASE i <= Len(s)
    BY <1>1, <1>2, <2>1 DEF Proper
  <2>2. CASE ~ i <= Len(s)
    <3>1. i - Len(s) \in 1 .. Len(t)
      BY <1>1, <2>2
    <3> QED BY <1>2, <2>2, <3>1 DEF Proper
  <2> QED BY <2>1, <2>2
<1> QED BY <1>2, <1>3 DEF Proper

(* The text of two sequences of lines is that of the one and of the other. *)
LEMMA BodyJoined ==
    ASSUME BufferAssumption, NEW s, NEW t, Proper(s), Proper(t)
    PROVE  Body(s ++ t) = Body(s) ++ Body(t)
<1> DEFINE S == Chars \union {EOL}
<1>1. Over(Seq(S), Rows(s)) /\ Over(Seq(S), Rows(t))
  BY RowsAre
<1>2. /\ Len(s) \in Nat /\ Len(t) \in Nat /\ Len(s ++ t) = Len(s) + Len(t)
      /\ \A i \in 1 .. Len(s) + Len(t) :
             (s ++ t)[i] = IF i <= Len(s) THEN s[i] ELSE t[i - Len(s)]
  BY ProperIs, ProperJoined
<1> HIDE DEF S
<1>3. Rows(s ++ t) = Rows(s) ++ Rows(t)
  <2> DEFINE r == Rows(s)
             q == Rows(t)
             u == Rows(s ++ t)
  <2>1. IsSeq(r) /\ IsSeq(q) /\ Len(r) = Len(s) /\ Len(q) = Len(t)
    BY <1>2, FunctionIsSeq DEF Rows
  <2>2. /\ \A i \in 1 .. Len(s) : r[i] = Row(s[i])
        /\ \A i \in 1 .. Len(t) : q[i] = Row(t[i])
        /\ u = [i \in 1 .. Len(s) + Len(t) |-> u[i]]
        /\ \A i \in 1 .. Len(s) + Len(t) : u[i] = Row((s ++ t)[i])
    BY <1>2 DEF Rows
  <2> HIDE DEF r, q, u
  <2>3. /\ IsSeq(r \o q) /\ Len(r \o q) = Len(s) + Len(t)
        /\ \A i \in 1 .. Len(s) + Len(t) :
              (r \o q)[i] = IF i <= Len(s) THEN r[i] ELSE q[i - Len(s)]
    BY <2>1, ConcatIs
  <2>4. r \o q = [i \in 1 .. Len(s) + Len(t) |-> (r \o q)[i]]
    BY <2>3, SeqIs
  <2>5. ASSUME NEW i \in 1 .. Len(s) + Len(t) PROVE u[i] = (r \o q)[i]
    <3>1. CASE i <= Len(s)
      BY <1>2, <2>2, <2>3, <3>1
    <3>2. CASE ~ i <= Len(s)
      <4>1. i - Len(s) \in 1 .. Len(t)
        BY <1>2, <3>2
      <4> QED BY <1>2, <2>2, <2>3, <3>2, <4>1
    <3> QED BY <3>1, <3>2
  <2>6. u = r \o q
    BY <2>2, <2>4, <2>5
  <2> QED BY <2>6 DEF ++, r, q, u
<1> QED BY <1>1, <1>3, FlattenConcat DEF Body

(* A part of lines of words is lines of words.                             *)
LEMMA ProperPart ==
    ASSUME NEW s, Proper(s), NEW m \in Nat \ {0}, NEW n \in 0 .. Len(s)
    PROVE  Proper(SubSeq(s, m, n)) /\ Len(SubSeq(s, m, n)) = (IF m <= n THEN n - m + 1 ELSE 0)
           /\ \A i \in 1 .. n - m + 1 : SubSeq(s, m, n)[i] = s[m + i - 1]
<1>1. /\ IsSeq(SubSeq(s, m, n))
      /\ Len(SubSeq(s, m, n)) = IF m <= n THEN n - m + 1 ELSE 0
      /\ \A i \in 1 .. n - m + 1 : SubSeq(s, m, n)[i] = s[m + i - 1]
  BY SubSeqIs
<1>2. Len(s) \in Nat
  BY ProperIs
<1>3. ASSUME NEW i \in 1 .. Len(SubSeq(s, m, n)) PROVE IsWordLine(SubSeq(s, m, n)[i])
  <2>1. i \in 1 .. n - m + 1 /\ m + i - 1 \in 1 .. Len(s)
    BY <1>1, <1>2
  <2> QED BY <1>1, <2>1 DEF Proper
<1> QED BY <1>1, <1>3 DEF Proper

(* No lines have no text.                                                  *)
LEMMA ProperNone == Proper(<<>>) /\ Len(<<>>) = 0 /\ Body(<<>>) = <<>>
<1>1. IsSeq(<<>>) /\ Len(<<>>) = 0
  BY EmptyIs
<1>2. Rows(<<>>) = <<>>
  BY <1>1 DEF Rows
<1> QED BY <1>1, <1>2, FlattenNone DEF Proper, Body

(* The text of a single line is its row.                                   *)
LEMMA ProperSingle ==
    ASSUME BufferAssumption, NEW l, IsWordLine(l)
    PROVE  Proper(<<l>>) /\ Len(<<l>>) = 1 /\ Body(<<l>>) = Row(l) /\ <<l>>[1] = l
<1>1. IsSeq(<<l>>) /\ Len(<<l>>) = 1 /\ <<l>>[1] = l
  BY SingleIs
<1>2. Proper(<<l>>)
  BY <1>1 DEF Proper
<1>3. Rows(<<l>>) = <<Row(l)>>
  BY <1>1 DEF Rows
<1>4. FlattenSeq(<<Row(l)>>) = Row(l)
  BY RowIs, FlattenSingle, TextLen
<1> QED BY <1>1, <1>2, <1>3, <1>4 DEF Body

(* The text depends on the texts of the lines and on which are ghosts, not *)
(* on their line breaks or flags.                                          *)
LEMMA BodyAlike ==
    ASSUME NEW s, NEW t, Len(t) = Len(s),
           \A i \in 1 .. Len(s) : s[i].text = t[i].text /\ s[i].ghost = t[i].ghost
    PROVE  Body(s) = Body(t)
<1>1. \A i \in 1 .. Len(s) : Row(s[i]) = Row(t[i])
  BY DEF Row
<1>2. Rows(s) = Rows(t)
  BY <1>1 DEF Rows
<1> QED BY <1>2 DEF Body

(* Ghost lines have no text: they are never in the file.                   *)
LEMMA BodyOfGhosts ==
    ASSUME BufferAssumption, NEW s, Proper(s), \A i \in 1 .. Len(s) : s[i].ghost
    PROVE  Body(s) = <<>>
<1> DEFINE S == Chars \union {EOL}
<1>1. Rows(s) \in Seq(Seq(S)) /\ Len(s) \in Nat
  BY RowsAre, ProperIs DEF Over
<1>2. \A i \in 1 .. Len(s) : Rows(s)[i] = <<>>
  BY DEF Rows, Row
<1>3. Len(Rows(s)) = Len(s)
  BY <1>1, FunctionIsSeq DEF Rows
<1> HIDE DEF S
<1> QED BY <1>1, <1>2, <1>3, FlattenEmpties DEF Body

(* Lines are cut in two anywhere.                                          *)
LEMMA LinesCut ==
    ASSUME NEW s, Proper(s), NEW n \in 0 .. Len(s)
    PROVE  /\ Proper(SubSeq(s, 1, n)) /\ Proper(SubSeq(s, n + 1, Len(s)))
           /\ Len(SubSeq(s, 1, n)) = n /\ Len(SubSeq(s, n + 1, Len(s))) = Len(s) - n
           /\ \A i \in 1 .. n : SubSeq(s, 1, n)[i] = s[i]
           /\ \A i \in 1 .. Len(s) - n : SubSeq(s, n + 1, Len(s))[i] = s[n + i]
           /\ s = SubSeq(s, 1, n) ++ SubSeq(s, n + 1, Len(s))
<1>1. Len(s) \in Nat /\ s = [i \in 1 .. Len(s) |-> s[i]]
  BY ProperIs
<1> DEFINE a == SubSeq(s, 1, n)
           m == n + 1
           b == SubSeq(s, m, Len(s))
<1>2. Proper(a) /\ Len(a) = n /\ \A i \in 1 .. n : a[i] = s[i]
  <2>1. /\ Proper(a) /\ Len(a) = (IF 1 <= n THEN n - 1 + 1 ELSE 0)
        /\ \A i \in 1 .. n - 1 + 1 : a[i] = s[1 + i - 1]
    <3>1. 1 \in Nat \ {0}
      OBVIOUS
    <3> QED BY <3>1, ProperPart
  <2> HIDE DEF a
  <2>2. n \in Nat /\ (IF 1 <= n THEN n - 1 + 1 ELSE 0) = n /\ n - 1 + 1 = n
    BY <1>1
  <2>3. ASSUME NEW i \in 1 .. n PROVE a[i] = s[i]
    <3>1. 1 + i - 1 = i
      OBVIOUS
    <3> QED BY <2>1, <2>2, <3>1
  <2> QED BY <2>1, <2>2, <2>3
<1>3. Proper(b) /\ Len(b) = Len(s) - n /\ \A i \in 1 .. Len(s) - n : b[i] = s[n + i]
  <2>1. m \in Nat \ {0} /\ Len(s) \in 0 .. Len(s)
    BY <1>1
  <2> HIDE DEF m
  <2>2. /\ Proper(b) /\ Len(b) = (IF m <= Len(s) THEN Len(s) - m + 1 ELSE 0)
        /\ \A i \in 1 .. Len(s) - m + 1 : b[i] = s[m + i - 1]
    BY <2>1, ProperPart
  <2> DEFINE L == Len(s)
  <2>3. L \in Nat /\ n \in 0 .. L /\ m = n + 1
    BY <1>1 DEF m
  <2> HIDE DEF b, L
  <2>4. (IF m <= L THEN L - m + 1 ELSE 0) = L - n /\ L - m + 1 = L - n
    BY <2>3
  <2>5. Proper(b) /\ Len(b) = L - n /\ \A i \in 1 .. L - n : b[i] = s[m + i - 1]
    BY <2>2, <2>4 DEF L
  <2>6. \A i \in 1 .. L - n : m + i - 1 = n + i
    BY <2>3
  <2>7. \A i \in 1 .. L - n : b[i] = s[n + i]
    BY <2>5, <2>6
  <2> QED BY <2>5, <2>7 DEF L
<1> HIDE DEF a, b
<1>4. s = a ++ b
  <2>1. /\ Proper(a ++ b) /\ Len(a ++ b) = Len(a) + Len(b)
        /\ \A i \in 1 .. Len(a) + Len(b) : (a ++ b)[i] = IF i <= Len(a) THEN a[i] ELSE b[i - Len(a)]
    BY <1>2, <1>3, ProperJoined
  <2>2. a ++ b = [i \in 1 .. Len(s) |-> (a ++ b)[i]]
    BY <1>1, <1>2, <1>3, <2>1, ProperIs
  <2>3. ASSUME NEW i \in 1 .. Len(s) PROVE s[i] = (a ++ b)[i]
    <3>1. CASE i <= n
      BY <1>1, <1>2, <1>3, <2>1, <3>1
    <3>2. CASE ~ i <= n
      <4> DEFINE j == i - n
      <4>1. j \in 1 .. Len(s) - n /\ n + j = i
        BY <1>1, <3>2
      <4>2. b[j] = s[i]
        BY <1>3, <4>1
      <4> QED BY <1>1, <1>2, <1>3, <2>1, <3>2, <4>2
    <3> QED BY <3>1, <3>2
  <2> QED BY <1>1, <2>2, <2>3
<1> QED BY <1>2, <1>3, <1>4 DEF a, b, m

(* The text of the lines above a line.                                     *)
RowsAbove(lines, y) == Body(SubSeq(lines, 1, y - 1))

(* The text of the lines below a line.                                     *)
RowsBelow(lines, y) == Body(SubSeq(lines, y + 1, Len(lines)))

(* The lines above a line, the line and those below it make up the text.   *)
LEMMA RowsAround ==
    ASSUME BufferAssumption, NEW lines, Proper(lines), NEW y \in 1 .. Len(lines)
    PROVE  /\ Text(RowsAbove(lines, y)) /\ Text(RowsBelow(lines, y)) /\ IsWordLine(lines[y])
           /\ SubSeq(lines, 1, y) = SubSeq(lines, 1, y - 1) ++ <<lines[y]>>
           /\ Body(SubSeq(lines, 1, y)) = RowsAbove(lines, y) ++ Row(lines[y])
           /\ Body(lines) = (RowsAbove(lines, y) ++ Row(lines[y])) ++ RowsBelow(lines, y)
<1>1. Len(lines) \in Nat /\ IsWordLine(lines[y]) /\ y \in 0 .. Len(lines)
  BY ProperIs DEF Proper
<1> DEFINE s == SubSeq(lines, 1, y)
           t == SubSeq(lines, y + 1, Len(lines))
           u == SubSeq(lines, 1, y - 1)
<1>2. Proper(s) /\ Proper(t) /\ lines = s ++ t /\ Len(s) = y /\ \A i \in 1 .. y : s[i] = lines[i]
  BY <1>1, LinesCut
<1>3. s = u ++ <<lines[y]>> /\ Proper(u)
  <2> DEFINE S == {lines[i] : i \in DOMAIN lines}
  <2>1. lines \in Seq(S)
    BY DEF Proper, IsSeq
  <2> HIDE DEF S
  <2>2. s = u \o <<lines[y]>>
    BY <2>1, PrefixNext
  <2>3. y - 1 \in 0 .. Len(lines)
    BY <1>1
  <2> QED BY <2>2, <2>3, ProperPart DEF ++
<1> HIDE DEF s, t, u
<1>4. Body(s) = Body(u) ++ Row(lines[y])
  BY <1>1, <1>3, ProperSingle, BodyJoined
<1>5. Body(lines) = Body(s) ++ Body(t)
  BY <1>2, BodyJoined
<1>6. Text(Body(u)) /\ Text(Body(t))
  BY <1>2, <1>3, RowsAre
<1> QED BY <1>1, <1>3, <1>4, <1>5, <1>6 DEF s, t, u, RowsAbove, RowsBelow

(* Every real line makes a line break, the last character of the text.     *)
LEMMA BodyUpTo ==
    ASSUME BufferAssumption, NEW lines, Proper(lines), NEW m \in 0 .. Len(lines)
    PROVE  /\ Eols(Body(SubSeq(lines, 1, m))) = Cardinality(UpTo(RealOf(lines), m))
           /\ Ended(Body(SubSeq(lines, 1, m)))
<1> DEFINE N == Len(lines)
           part(i) == SubSeq(lines, 1, i)
           Good(i) == /\ Eols(Body(part(i))) = Cardinality(UpTo(RealOf(lines), i))
                      /\ Ended(Body(part(i)))
           Bad == {i \in 0 .. N : ~ Good(i)}
<1>1. N \in Nat /\ RealOf(lines) = {i \in 1 .. N : ~ lines[i].ghost}
  BY ProperIs, RealOfIs
<1>2. Good(0)
  <2>1. part(0) = <<>>
    BY SubSeqEmpty
  <2>2. Body(<<>>) = <<>> /\ Ended(<<>>) /\ Eols(<<>>) = 0
    BY ProperNone, BreakIs DEF Ended
  <2>3. UpTo(RealOf(lines), 0) = {}
    BY <1>1 DEF UpTo
  <2> HIDE DEF part
  <2> QED BY <2>1, <2>2, <2>3, FS_EmptySet
<1>3. ASSUME NEW k \in 1 .. N, Good(k - 1) PROVE Good(k)
  <2> DEFINE p == part(k - 1)
             l == lines[k]
             b == k - 1
  <2>1. Text(Body(p)) /\ Body(part(k)) = Body(p) ++ Row(l) /\ IsWordLine(l)
    BY RowsAround DEF RowsAbove
  <2>2. Eols(Body(p)) = Cardinality(UpTo(RealOf(lines), b)) /\ Ended(Body(p))
    BY <1>3
  <2> HIDE DEF p, part
  <2>3. Text(Row(l)) /\ Ended(Row(l)) /\ Eols(Row(l)) = IF l.ghost THEN 0 ELSE 1
    BY <2>1, RowIs
  <2>4. Cardinality(UpTo(RealOf(lines), b + 1))
            = Cardinality(UpTo(RealOf(lines), b)) + IF b + 1 \in RealOf(lines) THEN 1 ELSE 0
    <3>1. RealOf(lines) \in SUBSET Nat /\ b \in Int
      BY <1>1
    <3> QED BY <3>1, UpToNext
  <2>5. b + 1 = k /\ (k \in RealOf(lines) <=> ~ l.ghost)
    BY <1>1
  <2>6. Ended(Body(p) ++ Row(l))
    BY <2>1, <2>2, <2>3, EndedJoined
  <2>7. Eols(Body(p) ++ Row(l)) = Eols(Body(p)) + Eols(Row(l))
    BY <2>1, <2>3, EolsJoined
  <2> HIDE DEF l, b
  <2> QED BY <2>1, <2>2, <2>3, <2>4, <2>5, <2>6, <2>7
<1>4. Bad = {}
  <2> SUFFICES ASSUME Bad # {} PROVE FALSE
    OBVIOUS
  <2> HIDE DEF Good
  <2>1. Bad \in SUBSET (0 .. N) /\ 0 \notin Bad
    BY <1>2
  <2> HIDE DEF Bad
  <2>2. PICK k \in 1 .. N : k \in Bad /\ k - 1 \notin Bad /\ k - 1 \in 0 .. N
    BY <1>1, <2>1, FirstFailure
  <2>3. ~ Good(k) /\ Good(k - 1)
    BY <2>2 DEF Bad
  <2> QED BY <1>3, <2>3
<1>5. Good(m)
  <2> HIDE DEF Good
  <2> QED BY <1>4
<1> QED BY <1>5

-----------------------------------------------------------------------------
(* What is above a place and below it *)

(* The last line of a buffer is real as long as no rescan places ghosts    *)
(* past the last real line.                                                *)
WellSet(lines) ==
    Proper(lines) /\ HasBreaks(lines) /\ Len(lines) # 0 /\ ~ lines[Len(lines)].ghost

(* The text of a line behind the first x characters                        *)
Rest(l, x) == IF l.ghost THEN <<>> ELSE SubSeq(l.text, x + 1, Len(l.text)) ++ Break

(* The text before a place.                                                *)
Above(lines, p) == RowsAbove(lines, p.y) ++ SubSeq(lines[p.y].text, 1, p.x)

(* The text behind a place.                                                *)
Below(lines, p) == Rest(lines[p.y], p.x) ++ RowsBelow(lines, p.y)

(* A row is what is before a column and what is behind it.                 *)
LEMMA RowCut ==
    ASSUME BufferAssumption, NEW l, IsWordLine(l), NEW x \in 0 .. Len(l.text)
    PROVE  /\ Word(SubSeq(l.text, 1, x)) /\ Len(SubSeq(l.text, 1, x)) = x
           /\ Text(Rest(l, x)) /\ Row(l) = SubSeq(l.text, 1, x) ++ Rest(l, x)
           /\ Text(SubSeq(l.text, 1, x)) /\ (l.ghost => SubSeq(l.text, 1, x) = <<>>)
<1> DEFINE h == SubSeq(l.text, 1, x)
           t == SubSeq(l.text, x + 1, Len(l.text))
<1>1. Text(l.text) /\ l.text \in Seq(Chars)
  BY RowIs DEF IsWordLine, Word, Over
<1>2. Text(h) /\ Len(h) = x /\ Text(t) /\ l.text = h ++ t
  BY <1>1, TextCut
<1>3. h \in Seq(Chars)
  <2>1. Len(l.text) \in Nat
    BY <1>1, LenProperties
  <2>2. 1 \in 1 .. Len(l.text) + 1 /\ x \in 1 - 1 .. Len(l.text)
    BY <2>1
  <2> QED BY <1>1, <2>2, PartIs
<1> HIDE DEF h, t
<1>4. Text(Rest(l, x)) /\ Row(l) = h ++ Rest(l, x) /\ (l.ghost => h = <<>>)
  <2>1. CASE l.ghost
    <3>1. Len(l.text) = 0 /\ Len(h) = 0
      BY <1>1, <1>2, <2>1, TextLen DEF IsWordLine
    <3>2. h = <<>>
      BY <1>2, <3>1, TextLen
    <3> QED BY <2>1, <3>2, TextWithNone DEF Rest, Row
  <2>2. CASE ~ l.ghost
    <3>1. Rest(l, x) = t ++ Break /\ Row(l) = (h ++ t) ++ Break
      BY <1>2, <2>2 DEF Rest, Row, t
    <3> QED BY <1>2, <2>2, <3>1, TextInAnyOrder, TextJoined, BreakIs
  <2> QED BY <2>1, <2>2
<1> QED BY <1>2, <1>3, <1>4 DEF h, Word, Over

(* The text is what is above a place and what is below it.                 *)
LEMMA AboveAndBelow ==
    ASSUME BufferAssumption, NEW lines, Proper(lines), NEW p, InText(lines, p)
    PROVE  /\ Text(Above(lines, p)) /\ Text(Below(lines, p))
           /\ Body(lines) = Above(lines, p) ++ Below(lines, p)
           /\ p.y \in 1 .. Len(lines) /\ p.x \in Nat /\ p.x <= Len(lines[p.y].text)
<1> DEFINE l == lines[p.y]
           y == p.y
           h == SubSeq(l.text, 1, p.x)
<1>1. y \in 1 .. Len(lines) /\ p.x \in 0 .. Len(l.text) /\ IsWordLine(l)
  BY ProperIs DEF InText, Proper
<1>2. Text(h) /\ Text(Rest(l, p.x)) /\ Row(l) = h ++ Rest(l, p.x) /\ Len(l.text) \in Nat
  BY <1>1, RowCut, RowIs, TextLen
<1>3. /\ Text(RowsAbove(lines, y)) /\ Text(RowsBelow(lines, y))
      /\ Body(lines) = (RowsAbove(lines, y) ++ Row(l)) ++ RowsBelow(lines, y)
  BY <1>1, RowsAround
<1>4. Above(lines, p) = RowsAbove(lines, y) ++ h /\ Below(lines, p) = Rest(l, p.x) ++ RowsBelow(lines, y)
  BY DEF Above, Below
<1> HIDE DEF h, l, y
<1>5. Text(Above(lines, p)) /\ Text(Below(lines, p)) /\ Body(lines) = Above(lines, p) ++ Below(lines, p)
  BY <1>2, <1>3, <1>4, TextJoined, TextInAnyOrder
<1> QED BY <1>1, <1>2, <1>5 DEF y, l

(* Before the last line the line breaks are where Row says.                *)
LEMMA FullTextIsRow ==
    ASSUME NEW lines, WellSet(lines), NEW i \in 1 .. Len(lines)
    PROVE  FullText(lines[i]) = IF i < Len(lines) THEN Row(lines[i]) ELSE lines[i].text
<1>1. IsLines(lines) /\ Len(lines) \in Nat /\ Len(lines) # 0 /\ IsWordLine(lines[i])
  BY ProperIs DEF WellSet, Proper
<1>2. /\ RealOf(lines) = {j \in 1 .. Len(lines) : ~ lines[j].ghost}
      /\ BreaksOf(lines) = {j \in 1 .. Len(lines) : lines[j].eol}
  BY <1>1, RealOfIs, BreaksOfIs
<1>3. Len(lines) \in RealOf(lines)
  BY <1>1, <1>2 DEF WellSet
<1>4. lines[i].eol <=> ~ lines[i].ghost /\ i < Len(lines)
  <2>1. i \in BreaksOf(lines) <=> i \in RealOf(lines) /\ \E j \in RealOf(lines) : i < j
    BY DEF WellSet, HasBreaks
  <2>2. (\E j \in RealOf(lines) : i < j) <=> i < Len(lines)
    BY <1>1, <1>2, <1>3
  <2> QED BY <1>2, <2>1, <2>2
<1>5. IsSeq(lines[i].text)
  BY <1>1 DEF IsWordLine, IsLine
<1>6. CASE lines[i].eol
  <2>1. Append(lines[i].text, EOL) = lines[i].text ++ Break
    BY DEF ++, Break
  <2> QED BY <1>4, <1>6, <2>1 DEF FullText, Row
<1>7. CASE ~ lines[i].eol
  <2>1. FullText(lines[i]) = lines[i].text
    BY <1>7 DEF FullText
  <2>2. i < Len(lines) => Row(lines[i]) = lines[i].text
    BY <1>1, <1>4, <1>7 DEF IsWordLine, Row
  <2> QED BY <2>1, <2>2
<1> QED BY <1>6, <1>7

(* What is saved is the text without the last line break.                  *)
LEMMA FileTextIs ==
    ASSUME BufferAssumption, NEW lines, WellSet(lines)
    PROVE  Text(FileText(lines)) /\ FileText(lines) ++ Break = Body(lines)
<1> DEFINE S == Chars \union {EOL}
           n == Len(lines)
           m == n - 1
           F == FullTexts(lines)
           R == Rows(lines)
           G == SubSeq(F, 1, m)
           H == SubSeq(R, 1, m)
<1>1. Proper(lines) /\ n \in Nat \ {0} /\ m \in Nat /\ n = m + 1 /\ IsLines(lines)
  BY ProperIs DEF WellSet
<1>2. R \in Seq(Seq(S)) /\ Len(R) = n /\ \A i \in 1 .. n : R[i] = Row(lines[i])
  <2>1. R \in Seq(Seq(S))
    BY <1>1, RowsAre DEF Over
  <2> QED BY <1>1, <2>1, FunctionIsSeq DEF Rows
<1>3. F \in Seq(Seq(S)) /\ Len(F) = n /\ \A i \in 1 .. n : F[i] = FullText(lines[i])
  <2>1. IsSeq(F) /\ Len(F) = n /\ \A i \in 1 .. n : F[i] = FullText(lines[i])
    BY <1>1, FullTextsAre
  <2>2. ASSUME NEW i \in 1 .. n PROVE F[i] \in Seq(S)
    <3>1. IsWordLine(lines[i])
      BY <1>1 DEF Proper
    <3>2. Text(Row(lines[i])) /\ Text(lines[i].text)
      BY <3>1, RowIs
    <3>3. Text(F[i])
      BY <2>1, <3>2, FullTextIsRow
    <3> QED BY <3>3, TextLen
  <2> HIDE DEF F, S
  <2>3. F = [i \in 1 .. n |-> F[i]] /\ n \in Nat
    BY <1>1, <2>1, SeqIs
  <2>4. F \in Seq(Seq(S))
    BY <2>2, <2>3, SeqDef
  <2> QED BY <2>1, <2>4
<1>4. FileText(lines) = FlattenSeq(F)
  BY <1>1, FullTextsAre
<1>5. \A i \in 1 .. n : F[i] = IF i < n THEN R[i] ELSE lines[n].text
  BY <1>1, <1>2, <1>3, FullTextIsRow
<1>6. Text(lines[n].text) /\ R[n] = lines[n].text ++ Break
  <2>1. IsWordLine(lines[n])
    BY <1>1 DEF Proper
  <2> QED BY <1>1, <1>2, <2>1, RowIs DEF Row, WellSet
<1> HIDE DEF F, R, S
<1>7. FlattenSeq(F) = FlattenSeq(G) \o F[n] /\ FlattenSeq(R) = FlattenSeq(H) \o R[n]
  BY <1>1, <1>2, <1>3, FlattenLast
<1>8. G = H
  <2>1. IsSeq(G) /\ IsSeq(H) /\ Len(G) = m /\ Len(H) = m
        /\ (\A i \in 1 .. m : G[i] = F[i]) /\ (\A i \in 1 .. m : H[i] = R[i])
    <3>1. m \in 0 .. Len(F) /\ m \in 0 .. Len(R)
      BY <1>1, <1>2, <1>3
    <3>2. 1 \in Int /\ m \in Int /\ m - 1 + 1 = m
      BY <1>1
    <3>3. \A s : /\ IsSeq(SubSeq(s, 1, m))
                 /\ Len(SubSeq(s, 1, m)) = IF 1 <= m THEN m - 1 + 1 ELSE 0
                 /\ \A i \in 1 .. m - 1 + 1 : SubSeq(s, 1, m)[i] = s[1 + i - 1]
      BY <3>2, SubSeqIs
    <3> HIDE DEF m
    <3>4. \A s : /\ IsSeq(SubSeq(s, 1, m)) /\ Len(SubSeq(s, 1, m)) = m
                 /\ \A i \in 1 .. m : SubSeq(s, 1, m)[i] = s[i]
      BY <1>1, <3>2, <3>3
    <3> QED BY <3>4
  <2> HIDE DEF G, H
  <2>2. G = [i \in 1 .. m |-> G[i]] /\ H = [i \in 1 .. m |-> H[i]]
    BY <2>1, SeqIs
  <2>3. \A i \in 1 .. m : G[i] = H[i]
    BY <1>1, <1>5, <2>1
  <2> QED BY <2>2, <2>3
<1>9. Text(FlattenSeq(G))
  <2>1. G \in Seq(Seq(S))
    <3>1. 1 \in 1 .. Len(F) + 1 /\ m \in 1 - 1 .. Len(F)
      BY <1>1, <1>3
    <3> HIDE DEF m
    <3> QED BY <1>3, <3>1, PartIs
  <2> QED BY <2>1, FlattenType DEF Text, Over, S
<1>10. F[n] = lines[n].text
  BY <1>1, <1>5
<1> HIDE DEF G, H, n, m
<1>11. /\ FileText(lines) = FlattenSeq(G) ++ lines[n].text
       /\ Body(lines) = FlattenSeq(G) ++ (lines[n].text ++ Break)
  BY <1>4, <1>6, <1>7, <1>8, <1>10 DEF Body, R, ++
<1> QED BY <1>6, <1>9, <1>11, TextJoined, TextInAnyOrder, BreakIs

(* A part of a sequence is two parts that follow each other.               *)
LEMMA PartsJoined ==
    ASSUME NEW s, NEW m \in Nat \ {0}, NEW z \in Nat, NEW x \in m - 1 .. z
    PROVE  SubSeq(s, m, z) = SubSeq(s, m, x) ++ SubSeq(s, x + 1, z)
<1> DEFINE n == x + 1
           a == SubSeq(s, m, x)
           b == SubSeq(s, n, z)
           c == SubSeq(s, m, z)
<1>1. IsSeq(a) /\ Len(a) = x - m + 1 /\ \A i \in 1 .. x - m + 1 : a[i] = s[m + i - 1]
  <2>1. /\ IsSeq(a) /\ Len(a) = IF m <= x THEN x - m + 1 ELSE 0
        /\ \A i \in 1 .. x - m + 1 : a[i] = s[m + i - 1]
    BY SubSeqIs
  <2> HIDE DEF a
  <2> QED BY <2>1
<1>2. IsSeq(b) /\ Len(b) = z - x /\ \A i \in 1 .. z - x : b[i] = s[x + i]
  <2>1. n \in Int /\ n = x + 1
    OBVIOUS
  <2> HIDE DEF n
  <2>2. /\ IsSeq(b) /\ Len(b) = IF n <= z THEN z - n + 1 ELSE 0
        /\ \A i \in 1 .. z - n + 1 : b[i] = s[n + i - 1]
    BY <2>1, SubSeqIs
  <2> HIDE DEF b
  <2> QED BY <2>1, <2>2
<1>3. IsSeq(c) /\ Len(c) = z - m + 1 /\ \A i \in 1 .. z - m + 1 : c[i] = s[m + i - 1]
  <2>1. /\ IsSeq(c) /\ Len(c) = IF m <= z THEN z - m + 1 ELSE 0
        /\ \A i \in 1 .. z - m + 1 : c[i] = s[m + i - 1]
    <3>1. m \in Int /\ z \in Int
      OBVIOUS
    <3> QED BY <3>1, SubSeqIs
  <2> HIDE DEF c
  <2> QED BY <2>1
<1> HIDE DEF a, b, c
<1>4. /\ IsSeq(a \o b) /\ Len(a \o b) = z - m + 1
      /\ \A i \in 1 .. z - m + 1 : (a \o b)[i] = IF i <= Len(a) THEN a[i] ELSE b[i - Len(a)]
  BY <1>1, <1>2, ConcatIs
<1> DEFINE N == z - m + 1
<1>5. ASSUME NEW i \in 1 .. N PROVE c[i] = (a \o b)[i]
  <2>1. CASE i <= Len(a)
    <3>1. i \in 1 .. x - m + 1
      BY <1>1, <2>1
    <3>2. a[i] = s[m + i - 1]
      BY <1>1, <3>1
    <3> QED BY <1>3, <1>4, <2>1, <3>2
  <2>2. CASE ~ i <= Len(a)
    <3> DEFINE j == i - Len(a)
    <3>1. j \in 1 .. z - x /\ x + j = m + i - 1
      BY <1>1, <2>2
    <3>2. b[j] = s[m + i - 1]
      BY <1>2, <3>1
    <3> QED BY <1>3, <1>4, <2>2, <3>2
  <2> QED BY <2>1, <2>2
<1> HIDE DEF N
<1>6. c = [i \in 1 .. N |-> c[i]] /\ a \o b = [i \in 1 .. N |-> (a \o b)[i]]
  BY <1>3, <1>4, SeqIs DEF N
<1>7. c = a \o b
  BY <1>5, <1>6
<1> QED BY <1>7 DEF a, b, c, ++

(* What GetText returns is what goes from its start to its end.            *)
LEMMA GetTextJoins ==
    ASSUME BufferAssumption, NEW lines, WellSet(lines),
           NEW start, InText(lines, start), NEW end, InText(lines, end), ~ Before(end, start)
    PROVE  /\ Text(GetText(lines, start, end))
           /\ Above(lines, start) ++ GetText(lines, start, end) = Above(lines, end)
<1> DEFINE sy == start.y
           ey == end.y
           sx == start.x
           ex == end.x
           l == lines[sy]
           k == lines[ey]
           h == SubSeq(l.text, 1, sx)
           g == SubSeq(k.text, 1, ex)
<1>1. /\ Proper(lines) /\ Len(lines) \in Nat
      /\ sy \in 1 .. Len(lines) /\ ey \in 1 .. Len(lines) /\ sy <= ey
      /\ sx \in 0 .. Len(l.text) /\ ex \in 0 .. Len(k.text) /\ IsWordLine(l) /\ IsWordLine(k)
  BY SMTT(20), ProperIs DEF InText, Proper, WellSet, Before
<1>2. /\ Text(h) /\ Len(h) = sx /\ Text(Rest(l, sx)) /\ Row(l) = h ++ Rest(l, sx) /\ Text(g)
      /\ Text(RowsAbove(lines, sy)) /\ Text(l.text) /\ Text(Row(l))
  BY <1>1, RowCut, RowIs, RowsAround
<1>3. Above(lines, start) = RowsAbove(lines, sy) ++ h /\ Above(lines, end) = RowsAbove(lines, ey) ++ g
  BY DEF Above
<1>6. /\ sx \in Nat /\ ex \in Nat /\ Len(l.text) \in Nat /\ (sy = ey => k = l)
      /\ sy \in Nat /\ ey \in Nat /\ sy >= 1 /\ ey >= 1 /\ sy <= Len(lines) /\ ey <= Len(lines)
  <2>1. Len(l.text) \in Nat
    BY <1>2, TextLen
  <2>2. Len(k.text) \in Nat
    BY <1>1, RowIs, TextLen
  <2>3. sy = ey => k = l
    OBVIOUS
  <2> HIDE DEF sy, ey, sx, ex, l, k
  <2> QED BY <1>1, <2>1, <2>2, <2>3
<1>7. sy = ey => sx <= ex
  BY <1>1, <1>6 DEF Before
<1>8. GetText(lines, start, end) =
        IF sy = ey THEN SubSeq(l.text, sx + 1, ex)
        ELSE (SubSeq(FullText(l), sx + 1, Len(FullText(l)))
                \o FlattenSeq([i \in 1 .. ey - sy - 1 |-> FullText(lines[sy + i])])) \o g
  BY DEF GetText
<1> HIDE DEF sy, ey, sx, ex, l, k
<1>4. CASE sy = ey
  <2> DEFINE t == SubSeq(l.text, sx + 1, ex)
  <2>1. sx <= ex /\ GetText(lines, start, end) = t
    BY <1>4, <1>7, <1>8
  <2>2. g = h ++ t
    <3>1. 1 \in Nat \ {0} /\ ex \in Nat /\ sx \in 1 - 1 .. ex
      BY <1>6, <2>1
    <3>2. SubSeq(l.text, 1, ex) = SubSeq(l.text, 1, sx) ++ SubSeq(l.text, sx + 1, ex)
      BY <3>1, PartsJoined
    <3> QED BY <1>4, <1>6, <3>2 DEF h, g
  <2>3. Text(t)
    <3> DEFINE m == sx + 1
    <3>1. l.text \in Seq(Chars \union {EOL}) /\ Len(l.text) \in Nat
      BY <1>2, TextLen
    <3>2. m \in 1 .. Len(l.text) + 1 /\ ex \in m - 1 .. Len(l.text)
      BY <1>1, <1>4, <1>6, <2>1, <3>1
    <3> HIDE DEF m
    <3>3. SubSeq(l.text, m, ex) \in Seq(Chars \union {EOL})
      BY <3>1, <3>2, PartIs
    <3> QED BY <3>3 DEF m, Text, Over
  <2> HIDE DEF t, h, g, l, k
  <2>4. RowsAbove(lines, ey) ++ (h ++ t) = (RowsAbove(lines, ey) ++ h) ++ t
    BY <1>2, <1>4, <2>3, TextInAnyOrder
  <2> QED BY <1>3, <1>4, <2>1, <2>2, <2>3, <2>4
<1>5. CASE sy # ey
  <2> DEFINE n == sy + 1
             e == ey - 1
             mid == SubSeq(lines, n, e)
             f == FullText(l)
             middle == [i \in 1 .. ey - sy - 1 |-> FullText(lines[sy + i])]
  <2>1. GetText(lines, start, end) = (SubSeq(f, sx + 1, Len(f)) \o FlattenSeq(middle)) \o g
    BY <1>5, <1>8
  <2>2. SubSeq(f, sx + 1, Len(f)) = Rest(l, sx)
    <3> DEFINE a == SubSeq(f, 1, sx)
               b == SubSeq(f, sx + 1, Len(f))
    <3>1. f = Row(l)
      <4>1. sy < Len(lines)
        BY <1>1, <1>5, <1>6
      <4> QED BY <1>1, <4>1, FullTextIsRow DEF l
    <3>2. sx \in 0 .. Len(f) /\ Text(f)
      <4>1. Len(Row(l)) = Len(h) + Len(Rest(l, sx)) /\ Len(Rest(l, sx)) \in Nat /\ Len(h) \in Nat
        BY <1>2, TextJoined, TextLen
      <4> HIDE DEF f, h
      <4> QED BY <1>1, <1>2, <3>1, <4>1
    <3> HIDE DEF f
    <3>3. Text(a) /\ Len(a) = sx /\ Text(b) /\ f = a ++ b
      BY <3>2, TextCut
    <3> HIDE DEF a, b, h
    <3>4. a ++ b = h ++ Rest(l, sx)
      BY <1>2, <3>1, <3>3
    <3>5. a = h
      BY <1>2, <3>3, <3>4, SameStart
    <3>6. b = Rest(l, sx)
      BY <1>2, <3>3, <3>4, <3>5, CancelStart
    <3> QED BY <3>6 DEF b
  <2>3. Proper(mid) /\ Len(mid) = ey - sy - 1 /\ \A i \in 1 .. ey - sy - 1 : mid[i] = lines[sy + i]
    <3>1. n \in Nat \ {0} /\ e \in 0 .. Len(lines) /\ n = sy + 1 /\ e = ey - 1
      BY SMTT(20), <1>1, <1>5, <1>6
    <3> HIDE DEF n, e
    <3>2. /\ Proper(mid) /\ Len(mid) = (IF n <= e THEN e - n + 1 ELSE 0)
          /\ \A i \in 1 .. e - n + 1 : mid[i] = lines[n + i - 1]
      BY SMTT(30), <1>1, <3>1, ProperPart
    <3> HIDE DEF mid
    <3> QED BY <1>1, <1>5, <1>6, <3>1, <3>2
  <2>4. middle = Rows(mid)
    <3> HIDE DEF mid
    <3>1. \A i \in 1 .. ey - sy - 1 : FullText(lines[sy + i]) = Row(mid[i])
      <4> SUFFICES ASSUME NEW i \in 1 .. ey - sy - 1 PROVE FullText(lines[sy + i]) = Row(mid[i])
        OBVIOUS
      <4> DEFINE j == sy + i
      <4>1. j \in 1 .. Len(lines) /\ j < Len(lines)
        BY <1>1, <1>5, <1>6
      <4> HIDE DEF j
      <4>2. FullText(lines[j]) = Row(lines[j])
        BY <4>1, FullTextIsRow
      <4> QED BY <2>3, <4>2 DEF j
    <3> QED BY <2>3, <3>1 DEF Rows
  <2>5. RowsAbove(lines, ey) = (RowsAbove(lines, sy) ++ Row(l)) ++ Body(mid)
    <3>1. SubSeq(lines, 1, e) = SubSeq(lines, 1, sy) ++ mid
      <4>1. 1 \in Nat \ {0} /\ e \in Nat /\ sy \in 1 - 1 .. e
        BY <1>1, <1>5, <1>6
      <4> QED BY <4>1, PartsJoined
    <3>2. Proper(SubSeq(lines, 1, sy))
      BY <1>1, LinesCut
    <3>3. Body(SubSeq(lines, 1, sy)) = RowsAbove(lines, sy) ++ Row(l)
      BY <1>1, RowsAround DEF l
    <3> HIDE DEF mid
    <3> QED BY <2>3, <3>1, <3>2, <3>3, BodyJoined DEF RowsAbove
  <2> DEFINE B == Body(mid)
             r == Rest(l, sx)
             A == RowsAbove(lines, sy)
  <2>6. Text(B) /\ FlattenSeq(middle) = B
    BY <2>3, <2>4, RowsAre DEF Body
  <2>7. Text(A) /\ Text(r) /\ Text(h) /\ Text(g) /\ Row(l) = h ++ r
    BY <1>2
  <2>8. GetText(lines, start, end) = (r ++ B) ++ g
    BY <2>1, <2>2, <2>6 DEF ++
  <2>9. Above(lines, start) = A ++ h /\ Above(lines, end) = ((A ++ (h ++ r)) ++ B) ++ g
    BY <1>3, <2>5, <2>7
  <2> HIDE DEF A, B, r, h, g
  <2>10. Text(r ++ B) /\ Text((r ++ B) ++ g) /\ Text(h ++ r) /\ Text(A ++ h)
    BY <2>6, <2>7, TextJoined
  <2>11. (A ++ (h ++ r)) ++ B = (A ++ h) ++ (r ++ B)
    BY <2>6, <2>7, <2>10, TextInAnyOrder
  <2>12. ((A ++ h) ++ (r ++ B)) ++ g = (A ++ h) ++ ((r ++ B) ++ g)
    BY <2>6, <2>7, <2>10, TextInAnyOrder
  <2> QED BY <2>8, <2>9, <2>10, <2>11, <2>12
<1> QED BY <1>4, <1>5

-----------------------------------------------------------------------------
(* From a line to a place and back *)

(* Blocks are in order, with no real line between them, and what they say  *)
(* of the last line when it is real.                                       *)
Blocked(blocks, S, n, N) ==
    /\ N = Len(blocks) /\ N \in Nat \ {0}
    /\ \A k \in 1 .. N :
          LET start == blocks[k].nStartApparent
              past == PastApparent(blocks[k])
              first == blocks[k].nStartReal
          IN  /\ start \in 1 .. n /\ past \in 1 .. n + 1 /\ start < past /\ first \in Nat
              /\ PastReal(blocks[k]) = first + (past - start)
              /\ \A i \in Int : start <= i /\ i < past => i \in S
              /\ first = Cardinality(UpTo(S, start - 1)) + 1
              /\ PastReal(blocks[k]) = Cardinality(UpTo(S, past - 1)) + 1
              /\ \A i \in S : i < start => k > 1 /\ i < PastApparent(blocks[k - 1])
              /\ k > 1 => PastApparent(blocks[k - 1]) < start
    /\ \A i \in S : i < PastApparent(blocks[N])

(* The reality blocks that RecomputeRealityMapping makes cover the real    *)
(* lines in order, and their last numbers say where each ends.             *)
LEMMA BlocksAreBlocked ==
    ASSUME NEW n \in Nat, NEW S \in SUBSET (1 .. n), S # {}, NEW blocks, BlocksFit(blocks, S, n)
    PROVE  Blocked(blocks, S, n, Len(blocks))
<1> DEFINE N == Len(blocks)
           start(k) == blocks[k].nStartApparent
           past(k) == PastApparent(blocks[k])
           first(k) == blocks[k].nStartReal
<1>1. /\ N \in Nat
      /\ \A k \in 1 .. N :
            /\ start(k) \in 1 .. n /\ past(k) \in 1 .. n + 1 /\ start(k) < past(k) /\ first(k) \in Nat
            /\ \A i \in Int : start(k) <= i /\ i < past(k) => i \in S
            /\ first(k) = Cardinality(UpTo(S, start(k) - 1)) + 1
            /\ PastReal(blocks[k]) = Cardinality(UpTo(S, past(k) - 1)) + 1
      /\ \A j, k \in 1 .. N : j < k => past(j) < start(k)
      /\ \A i \in S : \E k \in 1 .. N : start(k) <= i /\ i < past(k)
  BY DEF BlocksFit
<1>2. ASSUME NEW k \in 1 .. N PROVE PastReal(blocks[k]) = first(k) + (past(k) - start(k))
  <2>1. start(k) \in Nat /\ first(k) \in Nat /\ blocks[k].nCount \in Nat
    <3>1. blocks[k].nCount \in Nat
      BY DEF BlocksFit
    <3>2. start(k) \in 1 .. n
      BY <1>1
    <3> QED BY SMTT(30), <1>1, <3>1, <3>2
  <2> QED BY <2>1 DEF PastReal, PastApparent
<1>3. N # 0
  <2>1. PICK i \in S : TRUE
    OBVIOUS
  <2>2. \E k \in 1 .. N : start(k) <= i /\ i < past(k)
    BY <1>1
  <2> HIDE DEF N, start, past
  <2> QED BY <2>2
<1> HIDE DEF N, start, past, first
<1>4. ASSUME NEW k \in 1 .. N, NEW i \in S, i < start(k)
      PROVE  k > 1 /\ i < past(k - 1)
  <2>1. PICK j \in 1 .. N : start(j) <= i /\ i < past(j)
    BY <1>1
  <2>2. start(j) \in Int /\ past(j) \in Int /\ start(k) \in Int /\ past(k) \in Int /\ i \in Int
        /\ j \in Int /\ k \in Int /\ start(k) < past(k)
    BY <1>1
  <2>3. j < k
    <3>1. ~ k < j
      BY <1>1, <1>4, <2>1, <2>2
    <3>2. j # k
      BY <1>4, <2>1, <2>2
    <3> QED BY <2>2, <3>1, <3>2
  <2>4. CASE j = k - 1
    BY <2>1, <2>2, <2>3, <2>4
  <2>5. CASE j < k - 1
    <3> DEFINE m == k - 1
    <3>1. m \in 1 .. N /\ j < m
      BY <1>1, <2>2, <2>5
    <3>2. past(j) < start(m) /\ start(m) < past(m) /\ start(m) \in Int /\ past(m) \in Int
      BY <1>1, <3>1
    <3>3. i < past(m)
      BY <2>1, <2>2, <3>2
    <3>4. k > 1
      BY <2>3
    <3> QED BY <3>3, <3>4
  <2> QED BY <2>2, <2>3, <2>4, <2>5
<1>5. ASSUME NEW k \in 1 .. N, k > 1 PROVE past(k - 1) < start(k)
  <2>1. k - 1 \in 1 .. N /\ k - 1 < k
    BY <1>1, <1>5
  <2> QED BY <1>1, <2>1
<1>6. ASSUME NEW i \in S PROVE i < past(N)
  <2>1. PICK j \in 1 .. N : start(j) <= i /\ i < past(j)
    BY <1>1
  <2>2. N \in 1 .. N
    BY <1>1, <1>3
  <2>3. past(j) \in Int /\ past(N) \in Int /\ start(N) \in Int /\ start(N) < past(N) /\ i \in Int
    BY <1>1, <2>2
  <2>4. j = N \/ past(j) < start(N)
    BY <1>1, <2>2
  <2> QED BY <2>1, <2>3, <2>4
<1>7. \A k \in 1 .. N :
          /\ start(k) \in 1 .. n /\ past(k) \in 1 .. n + 1 /\ start(k) < past(k) /\ first(k) \in Nat
          /\ PastReal(blocks[k]) = first(k) + (past(k) - start(k))
          /\ \A i \in Int : start(k) <= i /\ i < past(k) => i \in S
          /\ first(k) = Cardinality(UpTo(S, start(k) - 1)) + 1
          /\ PastReal(blocks[k]) = Cardinality(UpTo(S, past(k) - 1)) + 1
          /\ \A i \in S : i < start(k) => k > 1 /\ i < past(k - 1)
          /\ k > 1 => past(k - 1) < start(k)
  BY <1>1, <1>2, <1>4, <1>5
<1> QED BY <1>1, <1>3, <1>6, <1>7 DEF Blocked, N, start, past, first

(* A line is real or has ghost lines to go to the next real one.           *)
LEMMA RealOrAbove ==
    ASSUME NEW n \in Nat, NEW S \in SUBSET (1 .. n), n \in S,
           NEW blocks, BlocksFit(blocks, S, n), NEW y \in 1 .. n
    PROVE  LET r == ComputeRealLineAndGhostAdjustment(blocks, n, y)
           IN  /\ r.y = Cardinality(UpTo(S, y - 1)) + 1
               /\ r.nGhost \in Nat /\ (r.nGhost > 0 <=> y \notin S)
<1> DEFINE N == Len(blocks)
           start(k) == blocks[k].nStartApparent
           past(k) == PastApparent(blocks[k])
           r == ComputeRealLineAndGhostAdjustment(blocks, n, y)
<1>1. /\ r.y = Cardinality(UpTo(S, y - 1)) + 1
      /\ \/ y >= past(N)
         \/ \E F \in 1 .. N : start(F) <= y /\ y < past(F) /\ r.nGhost = 0
         \/ \E F \in 1 .. N : y < start(F) /\ (F > 1 => past(F - 1) <= y) /\ r.nGhost = start(F) - y
  <2>1. n \in Int /\ y \in 1 .. n + 1 /\ S # {}
    OBVIOUS
  <2> QED BY <2>1, RealLineIs
<1>2. Blocked(blocks, S, n, N)
  BY BlocksAreBlocked
<1>3. /\ N \in Nat \ {0}
      /\ \A k \in 1 .. N : /\ start(k) \in 1 .. n /\ past(k) \in 1 .. n + 1
                           /\ \A i \in Int : start(k) <= i /\ i < past(k) => i \in S
                           /\ \A i \in S : i < start(k) => k > 1 /\ i < past(k - 1)
                           /\ k > 1 => past(k - 1) < start(k)
      /\ \A i \in S : i < past(N)
  BY <1>2 DEF Blocked
<1> HIDE DEF N, start, past, r
<1>4. ~ y >= past(N)
  <2>1. n < past(N) /\ past(N) \in Int
    BY <1>3
  <2> QED BY <2>1
<1>5. CASE \E F \in 1 .. N : start(F) <= y /\ y < past(F) /\ r.nGhost = 0
  BY <1>1, <1>3, <1>5 DEF r
<1>6. CASE \E F \in 1 .. N : y < start(F) /\ (F > 1 => past(F - 1) <= y) /\ r.nGhost = start(F) - y
  <2>1. PICK F \in 1 .. N : y < start(F) /\ (F > 1 => past(F - 1) <= y) /\ r.nGhost = start(F) - y
    BY <1>6
  <2>2. start(F) \in Int /\ (F > 1 => past(F - 1) \in Int)
    <3>1. F > 1 => F - 1 \in 1 .. N
      BY <1>3
    <3> QED BY <1>3, <3>1
  <2>3. y \notin S
    BY <1>3, <2>1, <2>2
  <2> QED BY <1>1, <2>1, <2>2, <2>3 DEF r
<1> QED BY <1>1, <1>4, <1>5, <1>6

(* A place leads to the line it counts, or to ghost lines just above it.   *)
NearLine(S, real, nGhost, y) ==
    \E Y \in S : /\ Cardinality(UpTo(S, Y)) = real /\ y <= Y /\ y \in Nat \ {0}
                 /\ \A i \in Int : y <= i /\ i < Y => i \notin S
                 /\ nGhost = 0 => y = Y

(* ComputeApparentLine (CGhostTextBuffer) finds the line that a real       *)
(* number and a count of ghost lines stand for, or a ghost line directly   *)
(* above it.                                                               *)
LEMMA ApparentNear ==
    ASSUME NEW n \in Nat, NEW S \in SUBSET (1 .. n), NEW blocks, BlocksFit(blocks, S, n),
           NEW real \in 1 .. Cardinality(S), NEW nGhost \in Nat, S # {}
    PROVE  NearLine(S, real, nGhost, ComputeApparentLine(blocks, n, real, nGhost))
<1> DEFINE N == Len(blocks)
           start(k) == blocks[k].nStartApparent
           past(k) == PastApparent(blocks[k])
           first(k) == blocks[k].nStartReal
           y == ComputeApparentLine(blocks, n, real, nGhost)
<1>1. Cardinality(S) \in Nat
  BY RankedIs
<1>2. Blocked(blocks, S, n, N)
  BY BlocksAreBlocked
<1>3. /\ N \in Nat \ {0}
      /\ \A k \in 1 .. N : /\ start(k) \in 1 .. n /\ past(k) \in 1 .. n + 1 /\ start(k) < past(k)
                           /\ first(k) \in Nat
                           /\ PastReal(blocks[k]) = first(k) + (past(k) - start(k))
                           /\ \A i \in Int : start(k) <= i /\ i < past(k) => i \in S
                           /\ first(k) = Cardinality(UpTo(S, start(k) - 1)) + 1
                           /\ PastReal(blocks[k]) = Cardinality(UpTo(S, past(k) - 1)) + 1
                           /\ \A i \in S : i < start(k) => k > 1 /\ i < past(k - 1)
                           /\ k > 1 => past(k - 1) < start(k)
      /\ \A i \in S : i < past(N)
  BY <1>2 DEF Blocked
<1>4. PICK F \in 1 .. N + 1 :
          /\ \A k \in 1 .. N : real < PastReal(blocks[k]) <=> k >= F
          /\ y = ApparentAt(blocks, n, real, nGhost, F)
  <2>1. real \in Int /\ nGhost \in Int
    BY <1>1
  <2>2. PICK F \in 1 .. Len(blocks) + 1 : LooksUp(blocks, n, real, nGhost, F)
    BY <2>1, ApparentLineIs
  <2> QED BY <2>2, Zenon DEF LooksUp
<1> DEFINE x == start(F)
           Y == real - first(F) + x
           room == IF F = 1 THEN 1 ELSE past(F - 1)
<1>5. F \in 1 .. N
  <2> HIDE DEF y, start, first
  <2>1. N \in 1 .. N /\ past(N) \in Int
    BY <1>3
  <2>2. UpTo(S, past(N) - 1) = S
    <3>1. \A i \in S : i <= past(N) - 1
      BY <1>3, <2>1
    <3> QED BY <3>1 DEF UpTo
  <2>3. PastReal(blocks[N]) = Cardinality(S) + 1
    BY <1>3, <2>1, <2>2
  <2>4. real < PastReal(blocks[N])
    BY <1>1, <2>3
  <2> QED BY <1>3, <1>4, <2>1, <2>4
<1>6. y = IF real > first(F) THEN Y ELSE Larger(Y - nGhost, room)
  <2>1. F # N + 1
    BY <1>3, <1>5
  <2> QED BY <1>4, <2>1, Zenon DEF ApparentAt
<1>7. /\ start(F) \in 1 .. n /\ past(F) \in 1 .. n + 1 /\ start(F) < past(F)
      /\ first(F) \in Nat /\ real < first(F) + (past(F) - start(F))
      /\ room \in Nat \ {0} /\ room <= start(F)
      /\ \A i \in Int : room <= i /\ i < start(F) => i \notin S
  <2>1. /\ start(F) \in 1 .. n /\ past(F) \in 1 .. n + 1 /\ start(F) < past(F)
        /\ first(F) \in Nat /\ real < first(F) + (past(F) - start(F))
    <3>1. F >= F
      BY <1>5
    <3> HIDE DEF N, start, past, first, y
    <3> QED BY <1>3, <1>4, <1>5, <3>1
  <2>2. F # 1 => F - 1 \in 1 .. N /\ F > 1
    BY <1>5
  <2>3. room \in Nat \ {0} /\ room <= start(F)
    <3>1. F # 1 => past(F - 1) \in 1 .. n + 1 /\ past(F - 1) < start(F)
      BY <1>3, <1>5, <2>2
    <3> HIDE DEF N, start, past, first, y
    <3> QED BY <2>1, <3>1
  <2>4. \A i \in S : i < start(F) => i < room
    <3>1. \A i \in S : i < start(F) => F > 1 /\ i < past(F - 1)
      BY <1>3, <1>5
    <3> HIDE DEF N, start, past, first, y
    <3> QED BY <1>5, <3>1
  <2> HIDE DEF N, start, past, first, y, room
  <2>5. ASSUME NEW i \in Int, room <= i, i < start(F) PROVE i \notin S
    BY <2>3, <2>4, <2>5
  <2> QED BY <2>1, <2>3, <2>5
<1>8. first(F) <= real
  <2>1. CASE F = 1
    <3>1. UpTo(S, start(F) - 1) = {}
      <4>1. \A i \in S : ~ i <= start(F) - 1
        <5>1. \A i \in S : i < start(F) => F > 1
          BY <1>3, <1>5
        <5>2. start(F) \in Int /\ S \subseteq Int
          BY <1>7
        <5> HIDE DEF start
        <5> QED BY <2>1, <5>1, <5>2
      <4> QED BY <4>1 DEF UpTo
    <3>2. first(F) = 1
      <4>1. first(F) = Cardinality(UpTo(S, start(F) - 1)) + 1
        BY <1>3, <1>5
      <4>2. Cardinality({}) = 0
        BY FS_EmptySet
      <4>3. Cardinality(UpTo(S, start(F) - 1)) = 0
        BY <3>1, <4>2
      <4> QED BY <4>1, <4>3
    <3> HIDE DEF first
    <3> QED BY <3>2
  <2>2. CASE F # 1
    <3> DEFINE k == F - 1
               a == past(k) - 1
               b == start(F) - 1
    <3>1. k \in 1 .. N /\ ~ k >= F
      BY <1>5, <2>2
    <3>2. ~ real < PastReal(blocks[k])
      BY <1>4, <3>1
    <3>3. PastReal(blocks[k]) = Cardinality(UpTo(S, a)) + 1 /\ first(F) = Cardinality(UpTo(S, b)) + 1
      BY <1>3, <1>5, <3>1
    <3>4. a \in Int /\ b \in Int /\ a <= b /\ \A i \in S : ~ (a < i /\ i <= b)
      <4>1. past(k) \in Int /\ past(k) < start(F) /\ start(F) \in Int
        <5>1. F > 1
          BY <1>5, <2>2
        <5> QED BY <1>3, <1>5, <1>7, <3>1, <5>1
      <4>2. \A i \in S : i < start(F) => i < past(k)
        BY <1>3, <1>5
      <4>3. S \subseteq Int
        OBVIOUS
      <4> HIDE DEF start, past, k
      <4> QED BY <4>1, <4>2, <4>3
    <3>5. Cardinality(UpTo(S, b)) = Cardinality(UpTo(S, a)) /\ Cardinality(UpTo(S, a)) \in Nat
      <4>1. S \in SUBSET Nat
        OBVIOUS
      <4> HIDE DEF a, b
      <4> QED BY <3>4, <4>1, UpToGap, UpToIsFinite
    <3> HIDE DEF a, b, k, first
    <3> QED BY <3>2, <3>3, <3>5
  <2> QED BY <2>1, <2>2
<1>9. Y \in S /\ Cardinality(UpTo(S, Y)) = real /\ Y >= start(F)
  <2>1. Y \in Int /\ start(F) <= Y /\ Y < past(F)
    <3> HIDE DEF start, first, past
    <3> QED BY <1>7, <1>8
  <2>2. \A i \in Int : start(F) <= i /\ i < past(F) => i \in S
    BY <1>3, <1>5
  <2>3. Y \in S
    BY <2>1, <2>2
  <2> DEFINE a == start(F) - 1
  <2>4. first(F) = Cardinality(UpTo(S, a)) + 1
    BY <1>3, <1>5
  <2>5. /\ S \in SUBSET Nat /\ a \in Int /\ Y \in Int /\ a <= Y
        /\ \A i \in Int : a < i /\ i <= Y => i \in S
    <3>1. S \in SUBSET Nat
      OBVIOUS
    <3>2. start(F) \in Int /\ past(F) \in Int
      BY <1>7
    <3> DEFINE from == start(F)
               to == past(F)
    <3>3. a = from - 1 /\ from \in Int /\ to \in Int /\ Y \in Int /\ from <= Y /\ Y < to
      BY <2>1, <3>2
    <3>4. \A i \in Int : from <= i /\ i < to => i \in S
      BY <2>2
    <3> HIDE DEF Y, a, from, to
    <3>5. a \in Int /\ a <= Y
      BY <3>3
    <3>6. ASSUME NEW i \in Int, a < i, i <= Y PROVE i \in S
      <4>1. from <= i /\ i < to
        BY <3>3, <3>6
      <4> QED BY <3>4, <4>1
    <3> QED BY <3>1, <3>3, <3>5, <3>6
  <2>6. Cardinality(UpTo(S, Y)) = Cardinality(UpTo(S, a)) + (Y - a) /\ Cardinality(UpTo(S, a)) \in Nat
    <3> HIDE DEF a, Y
    <3> QED BY <2>5, UpToRun, UpToIsFinite
  <2>7. Cardinality(UpTo(S, a)) + (Y - a) = real
    <3> DEFINE c == Cardinality(UpTo(S, a))
    <3>1. c \in Nat /\ first(F) = c + 1 /\ start(F) \in Int
      BY <1>7, <2>4, <2>6
    <3> HIDE DEF c, start, first
    <3>2. c + ((real - first(F) + start(F)) - (start(F) - 1)) = real
      BY <1>1, <3>1
    <3> QED BY <3>2 DEF c
  <2> QED BY <2>1, <2>3, <2>6, <2>7
<1>10. y <= Y /\ y \in Nat \ {0} /\ (nGhost = 0 => y = Y)
       /\ \A i \in Int : y <= i /\ i < Y => i \notin S
  <2>1. start(F) \in Int /\ first(F) \in Int /\ real \in Int /\ Y \in Nat /\ Y >= 1
    BY <1>1, <1>7, <1>9
  <2>2. CASE real > first(F)
    <3> HIDE DEF Y, y
    <3> QED BY <1>6, <2>1, <2>2
  <2>3. CASE ~ real > first(F)
    <3>1. Y = start(F)
      <4> HIDE DEF first, start, y
      <4> QED BY <1>8, <2>1, <2>3
    <3> HIDE DEF Y, y, room, start, first
    <3>2. y = Larger(Y - nGhost, room)
      BY <1>6, <2>3
    <3> DEFINE from == start(F)
               off == Y - nGhost
    <3>3. /\ room \in Nat \ {0} /\ room <= from /\ Y = from /\ Y \in Int
          /\ \A i \in Int : room <= i /\ i < from => i \notin S
      BY <1>7, <2>1, <3>1
    <3>4. nGhost \in Nat /\ off = Y - nGhost
      OBVIOUS
    <3>5. y = Larger(off, room)
      BY <3>2
    <3> HIDE DEF from, off
    <3>6. off \in Int /\ off <= Y /\ (nGhost = 0 => off = Y)
      BY <3>3, <3>4
    <3>7. y \in Nat \ {0} /\ room <= y /\ y <= Y /\ (nGhost = 0 => y = Y)
      BY <3>3, <3>5, <3>6 DEF Larger
    <3>8. ASSUME NEW i \in Int, y <= i, i < Y PROVE i \notin S
      <4>1. room <= i /\ i < from
        BY <3>3, <3>7, <3>8
      <4> QED BY <3>3, <4>1
    <3> QED BY <3>7, <3>8
  <2> QED BY <2>2, <2>3
<1> QED BY <1>9, <1>10 DEF NearLine

(* A buffer whose blocks are those of its lines and whose last line is     *)
(* real.                                                                   *)
WellBuf(b) == IsBuf(b) /\ WellSet(b.lines)

(* What is known of a buffer whose blocks are those of its lines.          *)
LEMMA WellBufIs ==
    ASSUME BufferAssumption, NEW b, WellBuf(b)
    PROVE  /\ Proper(b.lines) /\ Len(b.lines) \in Nat \ {0}
           /\ RealOf(b.lines) \in SUBSET (1 .. Len(b.lines)) /\ RealOf(b.lines) # {}
           /\ Len(b.lines) \in RealOf(b.lines)
           /\ \A i \in 1 .. Len(b.lines) : i \in RealOf(b.lines) <=> ~ b.lines[i].ghost
           /\ BlocksFit(b.blocks, RealOf(b.lines), Len(b.lines))
           /\ Text(Body(b.lines)) /\ Ended(Body(b.lines))
           /\ Eols(Body(b.lines)) = Cardinality(RealOf(b.lines))
<1> DEFINE n == Len(b.lines)
           S == RealOf(b.lines)
<1>1. Proper(b.lines) /\ IsLines(b.lines) /\ n \in Nat \ {0} /\ ~ b.lines[n].ghost
  BY ProperIs DEF WellBuf, WellSet
<1>2. S = {i \in 1 .. n : ~ b.lines[i].ghost}
  BY <1>1, RealOfIs
<1>3. BlocksFit(b.blocks, S, n)
  BY BufFits DEF WellBuf
<1>4. Text(Body(b.lines))
  BY <1>1, RowsAre
<1>5. SubSeq(b.lines, 1, n) = b.lines
  <2>1. b.lines \in Seq({b.lines[i] : i \in DOMAIN b.lines})
    BY <1>1 DEF Proper, IsSeq
  <2> QED BY <2>1, SubSeqFull
<1>6. UpTo(S, n) = S
  <2>1. n \in Int /\ S \in SUBSET (1 .. n)
    BY <1>1, <1>2
  <2> HIDE DEF n, S
  <2> QED BY <2>1, UpToAll
<1>7. Eols(Body(b.lines)) = Cardinality(S) /\ Ended(Body(b.lines))
  <2>1. n \in 0 .. n
    BY <1>1
  <2>2. Eols(Body(SubSeq(b.lines, 1, n))) = Cardinality(UpTo(S, n)) /\ Ended(Body(SubSeq(b.lines, 1, n)))
    BY <1>1, <2>1, BodyUpTo
  <2> QED BY <1>5, <1>6, <2>2
<1> QED BY <1>1, <1>2, <1>3, <1>4, <1>7

(* What is above a line counts its real lines.                             *)
LEMMA LinesAbove ==
    ASSUME BufferAssumption, NEW lines, Proper(lines), NEW y \in 1 .. Len(lines)
    PROVE  /\ Text(RowsAbove(lines, y)) /\ Ended(RowsAbove(lines, y))
           /\ Eols(RowsAbove(lines, y)) = Cardinality(UpTo(RealOf(lines), y - 1))
<1> DEFINE m == y - 1
<1>1. m \in 0 .. Len(lines)
  BY ProperIs
<1>2. Proper(SubSeq(lines, 1, m))
  BY <1>1, LinesCut
<1>3. Text(Body(SubSeq(lines, 1, m)))
  BY <1>2, RowsAre
<1>4. Eols(Body(SubSeq(lines, 1, m))) = Cardinality(UpTo(RealOf(lines), m)) /\ Ended(Body(SubSeq(lines, 1, m)))
  BY <1>1, BodyUpTo
<1> QED BY <1>3, <1>4 DEF RowsAbove

(* A place that an undo record stores tells what is above it.              *)
LEMMA StoredLeads ==
    ASSUME BufferAssumption, NEW b, WellBuf(b), NEW p, InText(b.lines, p)
    PROVE  /\ Leads(Stored(b, p), Above(b.lines, p))
           /\ Stored(b, p).nGhost > 0 <=> b.lines[p.y].ghost
           /\ Stored(b, p).nGhost \in Nat /\ Stored(b, p).x = p.x
<1> DEFINE n == Len(b.lines)
           S == RealOf(b.lines)
           y == p.y
           l == b.lines[y]
           r == ComputeRealLineAndGhostAdjustment(b.blocks, n, y)
           st == Stored(b, p)
           h == SubSeq(l.text, 1, p.x)
           a == RowsAbove(b.lines, y)
<1>1. /\ Proper(b.lines) /\ n \in Nat \ {0} /\ S \in SUBSET (1 .. n) /\ n \in S
      /\ \A i \in 1 .. n : i \in S <=> ~ b.lines[i].ghost
      /\ BlocksFit(b.blocks, S, n)
  BY WellBufIs
<1>2. y \in 1 .. n /\ p.x \in 0 .. Len(l.text) /\ IsWordLine(l)
  BY <1>1, ProperIs DEF InText, Proper
<1>3. st.y = r.y /\ st.nGhost = r.nGhost /\ st.x = p.x
  BY DEF Stored
<1>4. r.y = Cardinality(UpTo(S, y - 1)) + 1 /\ r.nGhost \in Nat /\ (r.nGhost > 0 <=> y \notin S)
  <2> HIDE DEF n, S, y
  <2> QED BY <1>1, <1>2, RealOrAbove
<1>5. Text(a) /\ Ended(a) /\ Eols(a) = Cardinality(UpTo(S, y - 1))
  BY <1>1, <1>2, LinesAbove
<1>6. Word(h) /\ Len(h) = p.x
  BY <1>2, RowCut
<1>7. Above(b.lines, p) = a ++ h
  BY DEF Above
<1>8. y \notin S => p.x = 0
  <2>1. y \notin S => l.text = <<>>
    BY <1>1, <1>2 DEF IsWordLine
  <2> HIDE DEF S, y, l
  <2> QED BY <1>2, <2>1
<1> HIDE DEF a, h, st, r, S, n
<1>9. Leads(st, a ++ h)
  BY <1>3, <1>4, <1>5, <1>6, <1>8 DEF Leads
<1> QED BY <1>1, <1>2, <1>3, <1>4, <1>7, <1>9 DEF st

(* A place is found again whatever rescans did to the ghost lines.         *)
Resolved(lines, p, place, a) ==
    InText(lines, p) /\ Above(lines, p) = a /\ p.x = place.x
        /\ (place.nGhost = 0 => ~ lines[p.y].ghost)

(* The apparent place of a recorded place has above it the text that the   *)
(* record was made behind, however many ghost lines there are now.         *)
LEMMA ResolveIs ==
    ASSUME BufferAssumption, NEW b, WellBuf(b), NEW place, NEW a, NEW c, Leads(place, a),
           Text(c), c # <<>>, Body(b.lines) = a ++ c
    PROVE  Resolved(b.lines, Apparent(b, place), place, a)
<1> DEFINE lines == b.lines
           n == Len(lines)
           S == RealOf(lines)
           y == ComputeApparentLine(b.blocks, n, place.y, place.nGhost)
           p == Apparent(b, place)
<1>1. /\ Proper(lines) /\ n \in Nat \ {0} /\ S \in SUBSET (1 .. n) /\ n \in S /\ S # {}
      /\ \A i \in 1 .. n : i \in S <=> ~ lines[i].ghost
      /\ BlocksFit(b.blocks, S, n)
      /\ Text(Body(lines)) /\ Ended(Body(lines)) /\ Eols(Body(lines)) = Cardinality(S)
  BY WellBufIs
<1>2. p.y = y /\ p.x = place.x
  BY DEF Apparent, Point
<1> HIDE DEF p
<1>3. PICK d, w :
        /\ Text(d) /\ Word(w) /\ a = d ++ w
        /\ Ended(d) /\ place.y = Eols(d) + 1 /\ place.x = Len(w)
        /\ place.nGhost \in Nat /\ (place.nGhost > 0 => place.x = 0)
  BY DEF Leads
<1>4. /\ Text(a) /\ place.y = Eols(a) + 1 /\ place.y \in Nat \ {0} /\ place.x \in Nat
      /\ Text(w) /\ Eols(w) = 0
  BY <1>3, LeadsText, WordIs
<1>5. place.y \in 1 .. Cardinality(S)
  <2>1. Ended(a ++ c)
    BY <1>1
  <2>2. Eols(c) >= 1
    BY <1>4, <2>1, EndedPart
  <2>3. Cardinality(S) = Eols(a) + Eols(c) /\ Eols(a) \in Nat /\ Eols(c) \in Nat
    BY <1>1, <1>4, EolsJoined
  <2> HIDE DEF S
  <2> QED BY <1>4, <2>2, <2>3
<1>6. NearLine(S, place.y, place.nGhost, y)
  <2> HIDE DEF S, n
  <2> QED BY <1>1, <1>3, <1>5, ApparentNear
<1>7. PICK Y \in S :
        /\ Cardinality(UpTo(S, Y)) = place.y /\ y <= Y /\ y \in Nat \ {0}
        /\ \A i \in Int : y <= i /\ i < Y => i \notin S
        /\ place.nGhost = 0 => y = Y
  BY <1>6 DEF NearLine
<1> DEFINE l == lines[Y]
           A == RowsAbove(lines, Y)
           B == RowsBelow(lines, Y)
<1> HIDE DEF S, n, y, lines
<1>8. /\ Y \in 1 .. n /\ IsWordLine(l) /\ ~ l.ghost /\ Text(A) /\ Text(B) /\ Text(l.text)
      /\ Body(lines) = (A ++ Row(l)) ++ B
  <2>1. Y \in 1 .. n
    BY <1>1
  <2> QED BY <1>1, <2>1, RowsAround, RowIs DEF n
<1>9. Ended(A) /\ Eols(A) = Eols(d)
  <2> DEFINE m == Y - 1
  <2>1. Ended(A) /\ Eols(A) = Cardinality(UpTo(S, m))
    BY <1>1, <1>8, LinesAbove DEF n, S
  <2>2. S \in SUBSET Nat /\ m \in Int /\ m + 1 = Y
    BY <1>1, <1>8
  <2> HIDE DEF m
  <2>3. Cardinality(UpTo(S, m + 1)) = Cardinality(UpTo(S, m)) + IF m + 1 \in S THEN 1 ELSE 0
    BY <2>2, UpToNext
  <2>4. Cardinality(UpTo(S, m)) \in Nat
    BY <2>2, UpToIsFinite
  <2>5. place.y = Cardinality(UpTo(S, m)) + 1
    BY <1>7, <2>2, <2>3
  <2>6. Eols(d) \in Nat
    BY <1>3, EolsJoined
  <2> QED BY <1>3, <2>1, <2>4, <2>5, <2>6
<1>10. Row(l) = l.text ++ Break
  BY <1>8 DEF Row
<1> HIDE DEF A, B, l
<1>11. d = A
  <2>1. d ++ (w ++ c) = A ++ (Row(l) ++ B) /\ Text(w ++ c) /\ Text(Row(l) ++ B)
    <3>1. Text(Row(l))
      BY <1>8, RowIs
    <3>2. (d ++ w) ++ c = (A ++ Row(l)) ++ B
      BY <1>3, <1>8 DEF lines
    <3> QED BY <1>3, <1>4, <1>8, <3>1, <3>2, TextInAnyOrder, TextJoined
  <2> QED BY <1>3, <1>8, <1>9, <2>1, SameLines
<1>12. PICK v : Text(v) /\ l.text = w ++ v /\ Len(l.text) = Len(w) + Len(v)
  <2>1. Text(Break) /\ Text(l.text ++ Break)
    BY <1>8, TextJoined, BreakIs
  <2>2. (d ++ w) ++ c = (A ++ (l.text ++ Break)) ++ B
    BY <1>3, <1>8, <1>10 DEF lines
  <2>3. d ++ (w ++ c) = d ++ (l.text ++ (Break ++ B))
    BY <1>3, <1>4, <1>8, <1>11, <2>1, <2>2, TextInAnyOrder, TextJoined
  <2>4. Text(w ++ c) /\ Text(l.text ++ (Break ++ B))
    BY <1>4, <1>8, <2>1, TextJoined
  <2>5. w ++ c = l.text ++ (Break ++ B)
    <3> DEFINE u == w ++ c
               z == l.text ++ (Break ++ B)
    <3>1. Text(d) /\ Text(u) /\ Text(z) /\ d ++ u = d ++ z
      BY <1>3, <2>3, <2>4
    <3> HIDE DEF u, z
    <3>2. u = z
      BY <3>1, CancelStart
    <3> QED BY <3>2 DEF u, z
  <2> DEFINE t == l.text
  <2>6. Word(w) /\ Text(c) /\ Text(t) /\ Text(B) /\ w ++ c = t ++ (Break ++ B)
    BY <1>3, <1>8, <2>5
  <2> HIDE DEF t
  <2>7. \E v : Text(v) /\ t = w ++ v /\ Len(t) = Len(w) + Len(v)
    BY <2>6, WordInLine
  <2> QED BY <2>7 DEF t
<1>13. Len(w) \in Nat /\ Len(v) \in Nat /\ Len(l.text) \in Nat
  BY <1>4, <1>8, <1>12, TextLen
<1>14. CASE y = Y
  <2>1. InText(lines, p)
    <3>1. DOMAIN lines = 1 .. n
      BY <1>1, ProperIs DEF n
    <3>2. p.x \in 0 .. Len(l.text)
      BY <1>2, <1>3, <1>12, <1>13
    <3> QED BY <1>2, <1>8, <1>14, <3>1, <3>2 DEF InText, l
  <2>2. SubSeq(l.text, 1, p.x) = w
    BY <1>2, <1>3, <1>4, <1>12, CutOff
  <2>3. Above(lines, p) = a
    BY <1>2, <1>3, <1>11, <1>14, <2>2 DEF Above, A, l
  <2> QED BY <1>2, <1>8, <1>14, <2>1, <2>3 DEF Resolved, lines, p, l
<1>15. CASE y # Y
  <2>1. place.nGhost > 0 /\ place.x = 0 /\ w = <<>> /\ y \in 1 .. n
    <3>1. place.nGhost > 0
      BY <1>3, <1>7, <1>15
    <3>2. w = <<>>
      BY <1>3, <1>4, <3>1, TextLen
    <3> QED BY <1>1, <1>3, <1>7, <1>8, <3>1, <3>2
  <2> DEFINE m == y - 1
             e == Y - 1
             mid == SubSeq(lines, y, e)
  <2>2. SubSeq(lines, 1, e) = SubSeq(lines, 1, m) ++ mid
    <3>1. 1 \in Nat \ {0} /\ e \in Nat /\ m \in 1 - 1 .. e /\ m + 1 = y
      BY <1>1, <1>7, <1>8
    <3> HIDE DEF m, e
    <3>2. SubSeq(lines, 1, e) = SubSeq(lines, 1, m) ++ SubSeq(lines, m + 1, e)
      BY <3>1, PartsJoined
    <3> QED BY <3>1, <3>2
  <2>3. Proper(mid) /\ \A i \in 1 .. Len(mid) : mid[i].ghost
    <3>1. y \in Nat \ {0} /\ e \in 0 .. n /\ e = Y - 1
      BY <1>1, <1>7, <1>8
    <3> HIDE DEF e
    <3>4. Proper(lines) /\ e \in 0 .. Len(lines)
      BY <1>1, <3>1 DEF n
    <3>2. /\ Proper(mid) /\ Len(mid) = (IF y <= e THEN e - y + 1 ELSE 0)
          /\ \A i \in 1 .. e - y + 1 : mid[i] = lines[y + i - 1]
      BY <3>1, <3>4, ProperPart, Zenon
    <3> HIDE DEF mid
    <3>3. ASSUME NEW i \in 1 .. Len(mid) PROVE mid[i].ghost
      <4> DEFINE j == y + i - 1
      <4>1. i \in 1 .. e - y + 1
        BY <3>1, <3>2
      <4>2. j \in 1 .. n /\ y <= j /\ j < Y
        BY <1>1, <1>8, <3>1, <4>1
      <4>3. j \notin S
        BY <1>7, <4>2
      <4>4. lines[j].ghost
        BY <1>1, <4>2, <4>3
      <4> QED BY <3>2, <4>1, <4>4
    <3> QED BY <3>2, <3>3
  <2>4. Body(mid) = <<>>
    BY <2>3, BodyOfGhosts
  <2>5. Proper(SubSeq(lines, 1, m)) /\ Text(RowsAbove(lines, y))
    <3>1. m \in 0 .. n
      BY <1>1, <2>1
    <3> QED BY <1>1, <2>1, <3>1, LinesCut, RowsAround DEF n
  <2>6. A = RowsAbove(lines, y)
    <3>1. A = Body(SubSeq(lines, 1, e))
      BY DEF A, RowsAbove
    <3>2. Body(SubSeq(lines, 1, m)) = RowsAbove(lines, y)
      BY DEF RowsAbove
    <3> HIDE DEF mid
    <3>3. Body(SubSeq(lines, 1, m) ++ mid) = Body(SubSeq(lines, 1, m)) ++ Body(mid)
      BY <2>3, <2>5, BodyJoined
    <3> QED BY <2>2, <2>4, <2>5, <3>1, <3>2, <3>3, TextWithNone
  <2>7. IsWordLine(lines[y])
    BY <1>1, <2>1 DEF Proper, n
  <2>8. InText(lines, p)
    <3>1. DOMAIN lines = 1 .. n
      BY <1>1, ProperIs DEF n
    <3>2. Len(lines[y].text) \in Nat
      BY <2>7, RowIs, TextLen
    <3> QED BY <1>2, <2>1, <3>1, <3>2 DEF InText
  <2>9. SubSeq(lines[y].text, 1, 0) = <<>>
    BY SubSeqEmpty
  <2>10. Above(lines, p) = A ++ <<>>
    BY <1>2, <2>1, <2>6, <2>9 DEF Above
  <2>11. Above(lines, p) = a
    BY <1>3, <1>11, <2>1, <2>10
  <2> QED BY <1>2, <2>1, <2>8, <2>11 DEF Resolved, lines, p
<1> QED BY <1>14, <1>15

-----------------------------------------------------------------------------
(* Lines that take the place of others *)

(* Lines t are lines s with mid in the place of those from a to c.         *)
Replaced(s, t, a, mid, c) ==
    /\ Proper(t) /\ Len(t) = (a - 1) + Len(mid) + (Len(s) - c + 1)
    /\ \A i \in 1 .. a - 1 : t[i] = s[i]
    /\ \A i \in 1 .. Len(mid) : t[a - 1 + i] = mid[i]
    /\ \A i \in 1 .. Len(s) - c + 1 : t[a - 1 + Len(mid) + i] = s[c - 1 + i]
    /\ Body(t) = (RowsAbove(s, a) ++ Body(mid)) ++ Body(SubSeq(s, c, Len(s)))
    /\ Text(RowsAbove(s, a)) /\ Text(Body(mid)) /\ Text(Body(SubSeq(s, c, Len(s))))
    /\ \A y \in 1 .. a : RowsAbove(t, y) = RowsAbove(s, y)

(* The rows above a line are those of the lines above it.                  *)
LEMMA SameRowsAbove ==
    ASSUME NEW s, NEW t, NEW y \in Nat \ {0}, \A i \in 1 .. y - 1 : t[i] = s[i]
    PROVE  RowsAbove(t, y) = RowsAbove(s, y)
<1> DEFINE m == y - 1
<1>1. m \in Nat
  OBVIOUS
<1>2. \A q : /\ IsSeq(SubSeq(q, 1, m)) /\ Len(SubSeq(q, 1, m)) = m
             /\ \A i \in 1 .. m : SubSeq(q, 1, m)[i] = q[i]
  <2> HIDE DEF m
  <2> TAKE q
  <2>1. /\ IsSeq(SubSeq(q, 1, m))
        /\ Len(SubSeq(q, 1, m)) = IF 1 <= m THEN m - 1 + 1 ELSE 0
        /\ \A i \in 1 .. m - 1 + 1 : SubSeq(q, 1, m)[i] = q[1 + i - 1]
    <3>1. 1 \in Int /\ m \in Int
      BY <1>1
    <3> QED BY <3>1, SubSeqIs
  <2> DEFINE u == SubSeq(q, 1, m)
  <2> HIDE DEF u
  <2>2. IsSeq(u) /\ Len(u) = m
    BY <1>1, <2>1 DEF u
  <2>3. ASSUME NEW i \in 1 .. m PROVE u[i] = q[i]
    <3>1. i \in 1 .. m - 1 + 1 /\ 1 + i - 1 = i
      BY <1>1
    <3> QED BY <2>1, <3>1 DEF u
  <2> QED BY <2>2, <2>3 DEF u
<1>3. \A i \in 1 .. m : t[i] = s[i]
  OBVIOUS
<1> HIDE DEF m
<1> DEFINE u == SubSeq(s, 1, m)
           v == SubSeq(t, 1, m)
<1>4. IsSeq(u) /\ Len(u) = m /\ IsSeq(v) /\ Len(v) = m /\ \A i \in 1 .. m : u[i] = v[i]
  BY <1>2, <1>3
<1> HIDE DEF u, v
<1>5. u = [i \in 1 .. m |-> u[i]] /\ v = [i \in 1 .. m |-> v[i]]
  BY <1>4, SeqIs
<1>6. u = v
  BY <1>4, <1>5
<1> QED BY <1>6 DEF RowsAbove, u, v, m

(* Lines put in the place of others: the text above, theirs, the text      *)
(* below.                                                                  *)
LEMMA SpliceIs ==
    ASSUME BufferAssumption, NEW s, Proper(s), NEW mid, Proper(mid),
           NEW a \in 1 .. Len(s) + 1, NEW c \in a .. Len(s) + 1
    PROVE  Replaced(s, Splice(s, a, mid, c), a, mid, c)
<1> DEFINE n == c - 1
           m == a - 1
           u == SubSeq(s, 1, m)
           v == SubSeq(s, c, Len(s))
           t == Splice(s, a, mid, c)
<1>1. n \in 0 .. Len(s) /\ m \in 0 .. Len(s) /\ n + 1 = c /\ m + 1 = a /\ Len(s) \in Nat /\ Len(mid) \in Nat
      /\ a \in Nat \ {0} /\ c \in Nat
  BY ProperIs
<1> HIDE DEF n, m
<1>2. Proper(u) /\ Len(u) = m /\ \A i \in 1 .. m : u[i] = s[i]
  BY <1>1, LinesCut
<1>3. Proper(v) /\ Len(v) = Len(s) - n /\ \A i \in 1 .. Len(s) - n : v[i] = s[n + i]
  <2>1. Proper(SubSeq(s, n + 1, Len(s))) /\ Len(SubSeq(s, n + 1, Len(s))) = Len(s) - n
        /\ \A i \in 1 .. Len(s) - n : SubSeq(s, n + 1, Len(s))[i] = s[n + i]
    BY <1>1, LinesCut
  <2> QED BY <1>1, <2>1
<1>4. t = (u ++ mid) ++ v
  BY DEF Splice, ++, m
<1> HIDE DEF u, v, t
<1>5. /\ Proper(u ++ mid) /\ Len(u ++ mid) = m + Len(mid)
      /\ \A i \in 1 .. m + Len(mid) : (u ++ mid)[i] = IF i <= m THEN u[i] ELSE mid[i - m]
  BY <1>2, ProperJoined
<1>6. /\ Proper(t) /\ Len(t) = m + Len(mid) + (Len(s) - n)
      /\ \A i \in 1 .. m + Len(mid) + (Len(s) - n) :
            t[i] = IF i <= m + Len(mid) THEN (u ++ mid)[i] ELSE v[i - (m + Len(mid))]
  <2> DEFINE w == u ++ mid
             k == m + Len(mid)
  <2>1. Proper(w) /\ Len(w) = k /\ t = w ++ v
    BY <1>4, <1>5
  <2> HIDE DEF w
  <2>2. /\ Proper(w ++ v) /\ Len(w ++ v) = Len(w) + Len(v)
        /\ \A i \in 1 .. Len(w) + Len(v) : (w ++ v)[i] = IF i <= Len(w) THEN w[i] ELSE v[i - Len(w)]
    BY <1>3, <2>1, ProperJoined
  <2> HIDE DEF k
  <2>3. Proper(t) /\ Len(t) = k + (Len(s) - n)
        /\ \A i \in 1 .. k + (Len(s) - n) : t[i] = IF i <= k THEN w[i] ELSE v[i - k]
    BY <1>3, <2>1, <2>2
  <2> QED BY <2>3 DEF k, w
<1>7. Body(t) = (Body(u) ++ Body(mid)) ++ Body(v) /\ Text(Body(u)) /\ Text(Body(mid)) /\ Text(Body(v))
  BY SMTT(20), <1>2, <1>3, <1>4, <1>5, BodyJoined, RowsAre
<1>8. ASSUME NEW i \in 1 .. m PROVE t[i] = s[i]
  <2>1. i \in 1 .. m + Len(mid) + (Len(s) - n) /\ i <= m + Len(mid) /\ i \in 1 .. m + Len(mid)
    BY <1>1
  <2> QED BY <1>2, <1>5, <1>6, <2>1
<1>9. ASSUME NEW i \in 1 .. Len(mid) PROVE t[m + i] = mid[i]
  <2> DEFINE j == m + i
  <2>1. j \in 1 .. m + Len(mid) + (Len(s) - n) /\ j <= m + Len(mid) /\ j \in 1 .. m + Len(mid)
        /\ ~ j <= m /\ j - m = i
    BY <1>1
  <2> HIDE DEF j
  <2>2. t[j] = mid[i]
    BY <1>5, <1>6, <2>1
  <2> QED BY <2>2 DEF j
<1>10. ASSUME NEW i \in 1 .. Len(s) - n PROVE t[m + Len(mid) + i] = s[n + i]
  <2> DEFINE j == m + Len(mid) + i
  <2>1. j \in 1 .. m + Len(mid) + (Len(s) - n) /\ ~ j <= m + Len(mid) /\ j - (m + Len(mid)) = i
    BY <1>1
  <2> HIDE DEF j
  <2>2. t[j] = v[i]
    BY <1>6, <2>1
  <2> QED BY <1>3, <2>2 DEF j
<1>11. ASSUME NEW y \in 1 .. a PROVE RowsAbove(t, y) = RowsAbove(s, y)
  <2>1. y \in Nat \ {0} /\ \A i \in 1 .. y - 1 : t[i] = s[i]
    BY <1>1, <1>8
  <2> QED BY <2>1, SameRowsAbove
<1>12. RowsAbove(s, a) = Body(u)
  BY DEF RowsAbove, u, m
<1>13. a - 1 = m /\ c - 1 = n /\ Len(s) - c + 1 = Len(s) - n
  BY <1>1
<1> QED BY <1>6, <1>7, <1>8, <1>9, <1>10, <1>11, <1>12, <1>13 DEF Replaced, v, t

-----------------------------------------------------------------------------
(* Ghost lines that are provided *)

(* A ghost line is a line without a text.                                  *)
LEMMA GhostLineIs ==
    IsWordLine(GhostLine) /\ GhostLine.ghost /\ Row(GhostLine) = <<>>
<1>1. GhostLine.ghost /\ GhostLine.text = <<>>
  BY DEF GhostLine, Line
<1>2. IsLine(GhostLine)
  BY EmptyIs, LineIs DEF GhostLine
<1>3. Word(<<>>)
  BY DEF Word, Over
<1>4. GhostLine.eol \in BOOLEAN /\ GhostLine.ghost \in BOOLEAN
  BY DEF GhostLine, Line
<1> QED BY <1>1, <1>2, <1>3, <1>4 DEF IsWordLine, Row

(* With the ghost line that a place needs the text is the same.            *)
Provided(b, new, p, place, a) ==
    /\ WellBuf(new) /\ Body(new.lines) = Body(b.lines)
    /\ InText(new.lines, p) /\ Above(new.lines, p) = a
    /\ new.lines[p.y].ghost <=> place.nGhost > 0
    /\ \A q : InText(b.lines, q) /\ q.y < p.y =>
                /\ InText(new.lines, q) /\ Above(new.lines, q) = Above(b.lines, q)
                /\ new.lines[q.y] = b.lines[q.y]
    /\ place.nGhost = 0 => new = b

(* The ghost line that an undo puts in before it replays a record made in  *)
(* ghost lines changes no text and leaves earlier places where they were.  *)
LEMMA ProvideKeeps ==
    ASSUME BufferAssumption, NEW b, WellBuf(b), NEW place, NEW a, Leads(place, a),
           Resolved(b.lines, Apparent(b, place), place, a)
    PROVE  Provided(b, Provide(b, place), Apparent(b, place), place, a)
<1> DEFINE lines == b.lines
           n == Len(lines)
           p == Apparent(b, place)
           y == p.y
<1>1. Proper(lines) /\ n \in Nat \ {0} /\ DOMAIN lines = 1 .. n /\ ~ lines[n].ghost
  BY WellBufIs, ProperIs DEF WellBuf, WellSet
<1>2. /\ InText(lines, p) /\ Above(lines, p) = a /\ p.x = place.x
      /\ (place.nGhost = 0 => ~ lines[y].ghost) /\ place.nGhost \in Nat
      /\ (place.nGhost > 0 => place.x = 0) /\ y \in 1 .. n
  <2>1. place.nGhost > 0 => place.x = 0
    BY DEF Leads
  <2>2. InText(lines, p) => y \in 1 .. n
    BY <1>1 DEF InText
  <2> QED BY <2>1, <2>2, LeadsText DEF Resolved
<1> HIDE DEF p
<1>3. CASE ~ (place.nGhost > 0 /\ ~ lines[y].ghost)
  <2>1. Provide(b, place) = b
    BY <1>1, <1>2, <1>3 DEF Provide, p
  <2>2. lines[y].ghost <=> place.nGhost > 0
    BY <1>2, <1>3
  <2> QED BY <1>2, <2>1, <2>2 DEF Provided, p
<1>4. CASE place.nGhost > 0 /\ ~ lines[y].ghost
  <2> DEFINE mid == <<GhostLine>>
             new == Splice(lines, y, mid, y)
  <2>1. Provide(b, place) = Buf(new)
    <3>1. Provide(b, place) = InsertGhostLine(b, y)
      BY <1>4 DEF Provide, p
    <3>2. InsertAt(lines, y, GhostLine) = new
      BY DEF InsertAt, Splice
    <3> QED BY <3>1, <3>2 DEF InsertGhostLine
  <2>2. Proper(mid) /\ Len(mid) = 1 /\ Body(mid) = <<>> /\ mid[1] = GhostLine
    BY GhostLineIs, ProperSingle
  <2> HIDE DEF mid
  <2>3. Replaced(lines, new, y, mid, y)
    <3>1. y \in 1 .. n + 1 /\ y \in y .. n + 1
      BY <1>1, <1>2
    <3> QED BY <1>1, <2>2, <3>1, SpliceIs
  <2> HIDE DEF new
  <2>4. /\ Proper(new) /\ Len(new) = n + 1 /\ new[y] = GhostLine
        /\ \A i \in 1 .. y - 1 : new[i] = lines[i]
        /\ \A i \in 1 .. n - y + 1 : new[y + i] = lines[y - 1 + i]
        /\ \A i \in 1 .. y : RowsAbove(new, i) = RowsAbove(lines, i)
    <3>1. y - 1 + 1 = y /\ (y - 1) + 1 + (n - y + 1) = n + 1
      BY <1>1, <1>2
    <3>2. 1 \in 1 .. 1
      OBVIOUS
    <3>3. new[y - 1 + 1] = mid[1]
      BY <2>2, <2>3, <3>2 DEF Replaced
    <3> HIDE DEF lines, y, n
    <3> QED BY <2>2, <2>3, <3>1, <3>3 DEF Replaced, n
  <2>5. Body(new) = Body(lines)
    <3> DEFINE m == y - 1
               u == SubSeq(lines, 1, m)
               v == SubSeq(lines, y, n)
    <3>1. m \in 0 .. n /\ m + 1 = y
      BY <1>1, <1>2
    <3> HIDE DEF m
    <3>2. Proper(u) /\ Proper(SubSeq(lines, m + 1, n)) /\ lines = u ++ SubSeq(lines, m + 1, n)
      BY <1>1, <3>1, LinesCut
    <3>3. Proper(v) /\ lines = u ++ v
      BY <3>1, <3>2
    <3>4. Body(lines) = Body(u) ++ Body(v) /\ Text(Body(u))
      <4> HIDE DEF u, v
      <4>1. Body(u ++ v) = Body(u) ++ Body(v)
        BY <3>2, <3>3, BodyJoined
      <4> QED BY <3>2, <3>3, <4>1, RowsAre
    <3>5. Body(new) = (Body(u) ++ <<>>) ++ Body(v)
      BY <2>2, <2>3 DEF Replaced, RowsAbove, m
    <3> QED BY <3>4, <3>5, TextWithNone
  <2>6. IsBuf(Buf(new)) /\ Buf(new).lines = new
    <3>1. IsPlace(place)
      BY LeadsText
    <3>2. IsBuf(Provide(b, place))
      BY <3>1, ProvideIs DEF WellBuf
    <3> QED BY <2>1, <3>2 DEF Buf
  <2>7. WellBuf(Buf(new))
    <3>1. ~ new[n + 1].ghost
      <4> DEFINE i == n - y + 1
      <4>1. i \in 1 .. n - y + 1 /\ y + i = n + 1 /\ y - 1 + i = n
        <5> HIDE DEF n, y
        <5> QED BY <1>1, <1>2
      <4>2. new[y + i] = lines[y - 1 + i]
        BY <2>4, <4>1
      <4> HIDE DEF i, y, n
      <4> QED BY <1>1, <4>1, <4>2
    <3>2. HasBreaks(new)
      BY <2>6 DEF IsBuf
    <3> QED BY <1>1, <2>4, <2>6, <3>1, <3>2 DEF WellBuf, WellSet
  <2>8. InText(new, p) /\ Above(new, p) = a
    <3>1. p.x = 0 /\ Len(<<>>) = 0 /\ GhostLine.text = <<>> /\ new[y].text = <<>>
      BY <1>2, <1>4, <2>4, GhostLineIs, ProperNone DEF IsWordLine
    <3>2. DOMAIN new = 1 .. n + 1
      BY <2>4, ProperIs
    <3>3. SubSeq(<<>>, 1, 0) = <<>> /\ SubSeq(lines[y].text, 1, 0) = <<>>
      BY SubSeqEmpty
    <3>4. RowsAbove(new, y) = RowsAbove(lines, y)
      BY <1>2, <2>4
    <3>5. InText(new, p)
      <4>1. y \in 1 .. n + 1 /\ p.x \in 0 .. Len(new[y].text)
        BY <1>1, <1>2, <3>1
      <4> QED BY <3>2, <4>1 DEF InText
    <3>6. Above(new, p) = Above(lines, p)
      BY <3>1, <3>3, <3>4 DEF Above
    <3> QED BY <1>2, <3>5, <3>6
  <2>9. ASSUME NEW q, InText(lines, q), q.y < y
        PROVE  InText(new, q) /\ Above(new, q) = Above(lines, q) /\ new[q.y] = lines[q.y]
    <3>1. DOMAIN new = 1 .. n + 1
      BY <2>4, ProperIs
    <3>2. q.y \in 1 .. n
      BY <1>1, <2>9 DEF InText
    <3>3. q.y \in 1 .. y - 1 /\ q.y \in 1 .. y /\ q.y \in 1 .. n + 1
      BY <1>1, <1>2, <2>9, <3>2
    <3>4. new[q.y] = lines[q.y] /\ RowsAbove(new, q.y) = RowsAbove(lines, q.y)
      BY <2>4, <3>3
    <3> QED BY <2>9, <3>1, <3>3, <3>4 DEF InText, Above
  <2>10. new[y].ghost /\ place.nGhost # 0
    BY <1>4, <2>4, GhostLineIs
  <2> DEFINE nb == Buf(new)
  <2>11. nb.lines = new /\ WellBuf(nb)
    BY <2>6, <2>7
  <2> HIDE DEF nb
  <2>12. Provided(b, nb, p, place, a)
    BY <1>4, <2>5, <2>8, <2>9, <2>10, <2>11 DEF Provided
  <2> QED BY <2>1, <2>12 DEF p, nb
<1> QED BY <1>3, <1>4

-----------------------------------------------------------------------------
(* The pieces of a text make up the text *)

(* The ends of the pieces of a text: the line breaks and where it ends     *)
CutAt(text, ends, N) ==
    /\ ends[1] = 0 /\ ends[N + 1] = Len(text) + 1
    /\ \A k \in 1 .. N :
          /\ ends[k] \in 0 .. Len(text) /\ ends[k + 1] \in ends[k] + 1 .. Len(text) + 1
          /\ k < N => text[ends[k + 1]] = EOL
          /\ \A i \in 1 .. Len(text) : ends[k] < i /\ i < ends[k + 1] => text[i] # EOL
    /\ Pieces(text) = [k \in 1 .. N |-> SubSeq(text, ends[k] + 1, ends[k + 1] - 1)]

(* A text is cut at its line breaks, into one piece more than there are    *)
(* breaks.                                                                 *)
LEMMA PiecesCutAt ==
    ASSUME NEW text, IsSeq(text)
    PROVE  \E ends : CutAt(text, ends, Eols(text) + 1)
<1> DEFINE S == {i \in DOMAIN text : text[i] = EOL}
           K == Cardinality(S)
           L == Len(text)
           breaks == Ranked(S)
           last == L + 1
           ends == <<0>> \o breaks \o <<last>>
           N == K + 1
<1>1. /\ S = EolsOf(text) /\ S \in SUBSET (1 .. L) /\ L \in Nat /\ K \in Nat
      /\ DOMAIN text = 1 .. L
  BY EolsAre, SeqIs DEF EolsOf
<1>2. \A i \in 1 .. L : i \in S <=> text[i] = EOL
  BY <1>1
<1>3. Pieces(text) = [k \in 1 .. Len(ends) - 1 |-> SubSeq(text, ends[k] + 1, PieceEnd(text, ends[k + 1]))]
  BY DEF Pieces
<1> HIDE DEF S
<1>4. /\ breaks = [k \in 1 .. K |-> breaks[k]]
      /\ \A k \in 1 .. K : breaks[k] \in S
      /\ \A j, k \in 1 .. K : j < k => breaks[j] < breaks[k]
      /\ \A i \in S : \E k \in 1 .. K : breaks[k] = i
  BY <1>1, RankedIs, RankedInOrder
<1> HIDE DEF breaks, L
<1>5. breaks \in Seq(Int) /\ Len(breaks) = K
  <2>1. breaks \in [1 .. K -> Int]
    BY <1>1, <1>4
  <2> QED BY <1>1, <1>4, <2>1
<1>6. /\ Len(ends) = K + 2 /\ ends[1] = 0 /\ ends[K + 2] = last
      /\ \A k \in 1 .. K : ends[k + 1] = breaks[k]
  <2> HIDE DEF K
  <2>1. IsSeq(<<0>>) /\ Len(<<0>>) = 1 /\ <<0>>[1] = 0 /\ IsSeq(<<last>>) /\ Len(<<last>>) = 1 /\ <<last>>[1] = last
    BY SingleIs
  <2> DEFINE u == <<0>>
             v == <<last>>
             f == u \o breaks
  <2>2. IsSeq(u) /\ Len(u) = 1 /\ u[1] = 0 /\ IsSeq(v) /\ Len(v) = 1 /\ v[1] = last /\ ends = f \o v
    BY <2>1
  <2> HIDE DEF u, v
  <2>3. IsSeq(breaks)
    BY <1>5, SeqOver
  <2>4. /\ IsSeq(f) /\ Len(f) = 1 + K
        /\ \A i \in 1 .. 1 + K : f[i] = IF i <= 1 THEN u[i] ELSE breaks[i - 1]
    BY <1>5, <2>2, <2>3, ConcatIs
  <2> HIDE DEF f, ends
  <2>5. /\ Len(ends) = 1 + K + 1
        /\ \A i \in 1 .. 1 + K + 1 : ends[i] = IF i <= 1 + K THEN f[i] ELSE v[i - (1 + K)]
    <3> DEFINE k == 1 + K
    <3>1. IsSeq(f) /\ IsSeq(v) /\ Len(f) = k /\ Len(v) = 1
      BY <2>2, <2>4
    <3> HIDE DEF k
    <3>2. /\ Len(f \o v) = k + 1
          /\ \A i \in 1 .. k + 1 : (f \o v)[i] = IF i <= k THEN f[i] ELSE v[i - k]
      BY <3>1, ConcatIs
    <3> QED BY <2>2, <3>2 DEF k
  <2>6. Len(ends) = K + 2 /\ ends[1] = 0
    BY <1>1, <2>2, <2>4, <2>5
  <2>7. ends[K + 2] = last
    <3> DEFINE j == K + 2
    <3>1. j \in 1 .. 1 + K + 1 /\ ~ j <= 1 + K /\ j - (1 + K) = 1
      BY <1>1
    <3> HIDE DEF j
    <3>2. ends[j] = last
      BY <2>2, <2>5, <3>1
    <3> QED BY <3>2 DEF j
  <2>8. ASSUME NEW k \in 1 .. K PROVE ends[k + 1] = breaks[k]
    <3> DEFINE j == k + 1
    <3>1. j \in 1 .. 1 + K + 1 /\ j <= 1 + K /\ j \in 1 .. 1 + K /\ ~ j <= 1 /\ j - 1 = k
      BY <1>1
    <3> HIDE DEF j
    <3>2. ends[j] = breaks[k]
      BY <2>4, <2>5, <3>1
    <3> QED BY <3>2 DEF j
  <2> QED BY <2>6, <2>7, <2>8
<1> HIDE DEF ends
<1>7. N = Eols(text) + 1
  BY <1>1 DEF Eols
<1> HIDE DEF K
<1>8. ASSUME NEW k \in 1 .. N
      PROVE  /\ ends[k] \in 0 .. L /\ ends[k + 1] \in ends[k] + 1 .. L + 1
             /\ k < N => text[ends[k + 1]] = EOL
             /\ \A i \in 1 .. L : ends[k] < i /\ i < ends[k + 1] => text[i] # EOL
  <2>1. /\ ends[k] = (IF k = 1 THEN 0 ELSE breaks[k - 1])
        /\ ends[k + 1] = IF k = N THEN last ELSE breaks[k]
    <3>1. k # 1 => k - 1 \in 1 .. K /\ k - 1 + 1 = k
      BY <1>1
    <3>2. k # N => k \in 1 .. K
      BY <1>1
    <3>3. k = N => k + 1 = K + 2
      BY <1>1
    <3>4. ends[k] = (IF k = 1 THEN 0 ELSE breaks[k - 1])
      <4>1. CASE k = 1
        BY <1>6, <4>1
      <4>2. CASE k # 1
        <5> DEFINE j == k - 1
        <5>1. j \in 1 .. K /\ j + 1 = k
          BY <3>1, <4>2
        <5>2. ends[j + 1] = breaks[j]
          BY <1>6, <5>1
        <5> QED BY <4>2, <5>1, <5>2
      <4> QED BY <4>1, <4>2
    <3> QED BY <1>6, <3>2, <3>3, <3>4
  <2>2. \A j \in 1 .. K : breaks[j] \in 1 .. L /\ breaks[j] \in Int
    BY <1>1, <1>4
  <2>3. k # 1 => k - 1 \in 1 .. K /\ breaks[k - 1] \in 1 .. L
    <3>1. k # 1 => k - 1 \in 1 .. K
      BY <1>1
    <3> QED BY <2>2, <3>1
  <2>4. k # N => k \in 1 .. K /\ breaks[k] \in 1 .. L /\ breaks[k] \in S
    <3>1. k # N => k \in 1 .. K
      BY <1>1
    <3> QED BY <1>4, <2>2, <3>1
  <2>5. k # 1 /\ k # N => breaks[k - 1] < breaks[k]
    <3>1. k - 1 < k
      BY <1>1
    <3> QED BY <1>4, <2>3, <2>4, <3>1
  <2>6. ends[k] \in 0 .. L /\ ends[k + 1] \in ends[k] + 1 .. L + 1
    <3> DEFINE x == ends[k]
               y == ends[k + 1]
               p == breaks[k - 1]
               q == breaks[k]
    <3>1. /\ x = (IF k = 1 THEN 0 ELSE p) /\ y = (IF k = N THEN L + 1 ELSE q)
          /\ (k # 1 => p \in 1 .. L) /\ (k # N => q \in 1 .. L) /\ (k # 1 /\ k # N => p < q)
      BY <2>1, <2>3, <2>4, <2>5
    <3> HIDE DEF x, y, p, q
    <3>2. x \in 0 .. L /\ y \in x + 1 .. L + 1
      <4>1. L \in Nat
        BY <1>1
      <4>2. CASE k = 1
        <5>1. x = 0
          BY <3>1, <4>2
        <5>2. CASE k = N
          BY <3>1, <4>1, <5>1, <5>2
        <5>3. CASE k # N
          BY <3>1, <4>1, <5>1, <5>3
        <5> QED BY <5>2, <5>3
      <4>3. CASE k # 1
        <5>1. x = p /\ p \in 1 .. L
          BY <3>1, <4>3
        <5>2. CASE k = N
          BY <3>1, <4>1, <5>1, <5>2
        <5>3. CASE k # N
          BY <3>1, <4>1, <4>3, <5>1, <5>3
        <5> QED BY <5>2, <5>3
      <4> QED BY <4>2, <4>3
    <3> QED BY <3>2 DEF x, y
  <2>7. k < N => text[ends[k + 1]] = EOL
    BY <1>1, <1>2, <2>1, <2>4
  <2>8. ASSUME NEW i \in 1 .. L, ends[k] < i, i < ends[k + 1] PROVE text[i] # EOL
    <3> SUFFICES ASSUME text[i] = EOL PROVE FALSE
      OBVIOUS
    <3>1. PICK j \in 1 .. K : breaks[j] = i
      BY <1>2, <1>4
    <3>2. j >= k
      <4>1. CASE k = 1
        BY <1>1, <4>1
      <4>2. CASE k # 1
        <5> DEFINE m == k - 1
        <5>1. m \in 1 .. K /\ ends[k] = breaks[m] /\ breaks[m] \in Int /\ breaks[m] < breaks[j] /\ breaks[j] \in Int
          BY <2>1, <2>2, <2>3, <2>8, <3>1, <4>2
        <5>2. ~ j < m /\ j # m
          BY <1>4, <5>1
        <5> HIDE DEF m
        <5>3. j > m
          BY <1>1, <5>1, <5>2
        <5> QED BY <1>1, <5>3 DEF m
      <4> QED BY <4>1, <4>2
    <3>3. k # N
      BY <1>1, <3>2
    <3>4. breaks[j] < breaks[k] /\ breaks[j] \in Int /\ breaks[k] \in Int /\ k \in 1 .. K
      BY <2>1, <2>2, <2>4, <2>8, <3>1, <3>3
    <3>5. ~ k < j /\ j # k
      BY <1>4, <3>4
    <3> QED BY <1>1, <3>2, <3>5
  <2> QED BY <2>6, <2>7, <2>8
<1>9. Pieces(text) = [k \in 1 .. N |-> SubSeq(text, ends[k] + 1, ends[k + 1] - 1)]
  <2>1. Len(ends) - 1 = N
    BY <1>1, <1>6
  <2> QED BY <1>3, <2>1 DEF PieceEnd
<1>10. ends[1] = 0 /\ ends[N + 1] = L + 1
  <2>1. N + 1 = K + 2
    BY <1>1
  <2> QED BY <1>6, <2>1
<1> HIDE DEF N
<1>11. CutAt(text, ends, N)
  BY <1>8, <1>9, <1>10 DEF CutAt, L
<1> QED BY <1>7, <1>11

(* A piece and the line break behind it                                    *)
LEMMA PieceIs ==
    ASSUME BufferAssumption, NEW text, Text(text), NEW a \in 0 .. Len(text), NEW b \in a + 1 .. Len(text) + 1,
           b <= Len(text) => text[b] = EOL,
           \A i \in 1 .. Len(text) : a < i /\ i < b => text[i] # EOL
    PROVE  /\ Word(SubSeq(text, a + 1, b - 1))
           /\ SubSeq(text, a + 1, b - 1) ++ Break = SubSeq(text ++ Break, a + 1, b)
<1> DEFINE S == Chars \union {EOL}
           T == text ++ Break
           m == a + 1
           n == b - 1
           w == SubSeq(text, m, n)
           L == Len(text)
<1>1. text \in Seq(S) /\ L \in Nat
  BY TextLen
<1> HIDE DEF S
<1>2. /\ w \in Seq(S) /\ Len(w) = n - m + 1
      /\ \A i \in 1 .. n - m + 1 : w[i] = text[m + i - 1]
  <2>1. m \in 1 .. Len(text) + 1 /\ n \in m - 1 .. Len(text)
    BY <1>1
  <2> HIDE DEF m, n
  <2> QED BY <1>1, <2>1, PartIs
<1> HIDE DEF w
<1>3. Word(w)
  <2>1. ASSUME NEW i \in 1 .. n - m + 1 PROVE w[i] \in Chars
    <3> DEFINE j == m + i - 1
    <3>1. j \in 1 .. L /\ a < j /\ j < b
      BY <1>1
    <3>2. text[j] # EOL /\ text[j] \in S
      BY <1>1, <3>1, ElementOfSeq
    <3> QED BY <1>2, <3>2 DEF S
  <2> DEFINE k == n - m + 1
  <2>2. k \in Nat
    BY <1>1
  <2>3. w = [i \in 1 .. k |-> w[i]]
    <3>1. Len(w) = k /\ IsSeq(w)
      BY <1>2, SeqOver
    <3> HIDE DEF k
    <3> QED BY <3>1, SeqIs
  <2>4. \A i \in 1 .. k : w[i] \in Chars
    BY <2>1
  <2> HIDE DEF k
  <2>5. w \in Seq(Chars)
    <3>1. w \in [1 .. k -> Chars]
      BY <2>3, <2>4
    <3> QED BY <2>2, <3>1, SeqDef
  <2> QED BY <2>5 DEF Word, Over
<1>4. \A i \in 1 .. L + 1 : T[i] = IF i <= L THEN text[i] ELSE EOL
  <2>1. IsSeq(Break) /\ Len(Break) = 1 /\ Break[1] = EOL /\ IsSeq(text)
    BY <1>1, SingleIs, TextLen DEF Break
  <2>2. \A i \in 1 .. L + 1 : (text \o Break)[i] = IF i <= L THEN text[i] ELSE Break[i - L]
    <3>1. Len(text) = L /\ IsSeq(text)
      BY <2>1
    <3>2. \A i \in 1 .. Len(text) + Len(Break) :
              (text \o Break)[i] = IF i <= Len(text) THEN text[i] ELSE Break[i - Len(text)]
      BY <2>1, <3>1, ConcatIs, Zenon
    <3> QED BY <2>1, <3>1, <3>2, Zenon
  <2>3. ASSUME NEW i \in 1 .. L + 1 PROVE T[i] = IF i <= L THEN text[i] ELSE EOL
    <3>1. T[i] = IF i <= L THEN text[i] ELSE Break[i - L]
      BY <2>2 DEF ++
    <3>2. ~ i <= L => i - L = 1
      BY <1>1
    <3> HIDE DEF T, L
    <3> QED BY <2>1, <3>1, <3>2
  <2> QED BY <2>3
<1>5. Text(T) /\ Len(T) = L + 1
  BY TextJoined, BreakIs
<1> HIDE DEF T, L
<1>6. /\ SubSeq(T, m, b) \in Seq(S) /\ Len(SubSeq(T, m, b)) = b - m + 1
      /\ \A i \in 1 .. b - m + 1 : SubSeq(T, m, b)[i] = T[m + i - 1]
  <2>1. m \in 1 .. Len(T) + 1 /\ b \in m - 1 .. Len(T) /\ T \in Seq(S)
    BY <1>1, <1>5, TextLen DEF L, S
  <2> HIDE DEF m
  <2> QED BY <2>1, PartIs
<1> DEFINE u == SubSeq(T, m, b)
           k == b - m + 1
<1>7. u \in Seq(S) /\ Len(u) = k /\ \A i \in 1 .. k : u[i] = T[m + i - 1]
  BY <1>6
<1> HIDE DEF u
<1>8. /\ w \o Break \in Seq(S) /\ Len(w \o Break) = k
      /\ \A i \in 1 .. k : (w \o Break)[i] = IF i <= Len(w) THEN w[i] ELSE EOL
  <2>1. Break \in Seq(S) /\ Len(Break) = 1 /\ Break[1] = EOL
    BY DEF Break, S
  <2>2. /\ w \o Break \in Seq(S) /\ Len(w \o Break) = Len(w) + 1
        /\ \A i \in 1 .. Len(w) + 1 : (w \o Break)[i] = IF i <= Len(w) THEN w[i] ELSE Break[i - Len(w)]
    <3> HIDE DEF S
    <3>1. IsSeq(w) /\ IsSeq(Break)
      BY <1>2, <2>1, SeqOver
    <3>2. w \o Break \in Seq(S)
      BY <1>2, <2>1, ConcatProperties
    <3> HIDE DEF S
    <3>3. /\ IsSeq(w \o Break) /\ Len(w \o Break) = Len(w) + Len(Break)
          /\ \A i \in 1 .. Len(w) + Len(Break) :
                (w \o Break)[i] = IF i <= Len(w) THEN w[i] ELSE Break[i - Len(w)]
      BY <3>1, ConcatIs
    <3> QED BY <2>1, <3>2, <3>3
  <2>3. Len(w) \in Nat /\ Len(w) + 1 = k
    BY <1>1, <1>2 DEF L
  <2> DEFINE l == Len(w)
  <2>4. ASSUME NEW i \in 1 .. k PROVE (w \o Break)[i] = IF i <= l THEN w[i] ELSE EOL
    <3>1. (w \o Break)[i] = IF i <= l THEN w[i] ELSE Break[i - l]
      BY <2>2, <2>3
    <3>2. ~ i <= l => i - l = 1
      <4> HIDE DEF k, l
      <4> QED BY <2>3 DEF l
    <3> HIDE DEF k, l
    <3> QED BY <2>1, <3>1, <3>2
  <2> HIDE DEF k
  <2> QED BY <2>2, <2>3, <2>4
<1>9. \A i \in 1 .. k : u[i] = (w \o Break)[i]
  <2> SUFFICES ASSUME NEW i \in 1 .. k PROVE u[i] = (w \o Break)[i]
    OBVIOUS
  <2> DEFINE j == m + i - 1
  <2>1. j \in 1 .. L + 1
    BY <1>1 DEF L
  <2>2. u[i] = IF j <= L THEN text[j] ELSE EOL
    BY <1>4, <1>7, <2>1
  <2>3. CASE i <= Len(w)
    <3>1. i \in 1 .. n - m + 1 /\ j <= L /\ j < b
      BY <1>1, <1>2, <2>3 DEF L
    <3> QED BY <1>2, <1>8, <2>2, <2>3, <3>1
  <2>4. CASE ~ i <= Len(w)
    <3>0. Len(w) = n - m + 1
      BY <1>2
    <3>1. j = b
      <4> DEFINE l == Len(w)
      <4>1. l = b - 1 - (a + 1) + 1 /\ ~ i <= l
        BY <2>4, <3>0
      <4> HIDE DEF l
      <4>2. i = b - a
        BY <1>1, <4>1 DEF L
      <4> QED BY <1>1, <4>2 DEF L
    <3>2. u[i] = EOL
      BY <2>2, <3>1 DEF L
    <3> QED BY <1>8, <2>4, <3>2
  <2> QED BY <2>3, <2>4
<1>10. u = w \o Break
  <2> HIDE DEF k
  <2> QED BY <1>7, <1>8, <1>9, SeqEqual
<1> QED BY <1>3, <1>10 DEF w, u, T, m, n, ++

(* A piece with the line break behind it, as the line that it makes        *)
PieceRow(text, k) == Pieces(text)[k] ++ Break

(* The pieces of a text, a line break behind each, make the text and one   *)
(* line break.                                                             *)
LEMMA PiecesJoin ==
    ASSUME BufferAssumption, NEW text, Text(text), NEW N, N = Eols(text) + 1
    PROVE  /\ N \in Nat \ {0} /\ Len(Pieces(text)) = N
           /\ \A k \in 1 .. N : Word(Pieces(text)[k])
           /\ FlattenSeq([k \in 1 .. N |-> PieceRow(text, k)]) = text ++ Break
<1> DEFINE p == Pieces(text)
           T == text ++ Break
           L == Len(text)
           S == Chars \union {EOL}
           R == [k \in 1 .. N |-> PieceRow(text, k)]
<1>1. IsSeq(text) /\ N \in Nat \ {0} /\ Len(p) = N /\ L \in Nat /\ Text(T) /\ Len(T) = L + 1
  <2>1. IsSeq(text) /\ Len(text) \in Nat /\ Text(T) /\ Len(T) = L + 1
    BY TextLen, TextJoined, BreakIs
  <2>2. Cardinality(EolsOf(text)) \in Nat
    BY <2>1, EolsAre
  <2> QED BY <2>1, <2>2, PiecesCount DEF Eols
<1>2. PICK ends : CutAt(text, ends, N)
  BY <1>1, PiecesCutAt
<1>3. ASSUME NEW k \in 1 .. N
      PROVE  /\ Word(p[k]) /\ p[k] ++ Break = SubSeq(T, ends[k] + 1, ends[k + 1])
             /\ ends[k] \in 0 .. L /\ ends[k + 1] \in ends[k] + 1 .. L + 1
  <2> DEFINE a == ends[k]
             b == ends[k + 1]
  <2>1. a \in 0 .. L /\ b \in a + 1 .. L + 1
    BY <1>2 DEF CutAt
  <2>2. p[k] = SubSeq(text, a + 1, b - 1)
    BY <1>2 DEF CutAt
  <2>3. b <= L => text[b] = EOL
    <3>1. k < N => text[ends[k + 1]] = EOL
      BY <1>2 DEF CutAt
    <3>2. k = N => b = L + 1
      BY <1>2 DEF CutAt
    <3> HIDE DEF b, L
    <3> QED BY <1>1, <2>1, <3>1, <3>2 DEF b
  <2>4. \A i \in 1 .. L : a < i /\ i < b => text[i] # EOL
    BY <1>2 DEF CutAt
  <2> HIDE DEF a, b
  <2>5. /\ Word(SubSeq(text, a + 1, b - 1))
        /\ SubSeq(text, a + 1, b - 1) ++ Break = SubSeq(T, a + 1, b)
    BY <2>1, <2>3, <2>4, PieceIs
  <2> QED BY <2>1, <2>2, <2>5 DEF a, b
<1>4. ends[1] = 0 /\ ends[N + 1] = L + 1
  BY <1>2 DEF CutAt
<1>5. ASSUME NEW k \in 1 .. N PROVE Text(p[k] ++ Break)
  <2>1. Text(p[k])
    BY <1>3, WordIs
  <2> QED BY <2>1, TextJoined, BreakIs
<1>6. Over(Seq(S), R) /\ Len(R) = N /\ \A k \in 1 .. N : R[k] = p[k] ++ Break
  <2>1. \A k \in 1 .. N : PieceRow(text, k) \in Seq(S)
    BY <1>5, TextLen DEF PieceRow
  <2> HIDE DEF S
  <2>2. R \in Seq(Seq(S))
    BY <1>1, <2>1, SeqDef
  <2>3. Len(R) = N
    BY <1>1, FunctionIsSeq
  <2> QED BY <2>2, <2>3 DEF Over, PieceRow
<1> HIDE DEF p, T, L, R, S
<1> DEFINE part(i) == SubSeq(R, 1, i)
           Good(i) == FlattenSeq(part(i)) = SubSeq(T, 1, ends[i + 1])
           Bad == {i \in 0 .. N : ~ Good(i)}
<1>7. Good(0)
  <2>1. part(0) = <<>> /\ SubSeq(T, 1, 0) = <<>>
    BY SubSeqEmpty
  <2>2. ends[0 + 1] = 0
    BY <1>4
  <2> DEFINE e == ends[0 + 1]
  <2> HIDE DEF part, e
  <2>3. e = 0
    BY <2>2 DEF e
  <2>4. FlattenSeq(part(0)) = SubSeq(T, 1, e)
    BY <2>1, <2>3, FlattenNone
  <2> QED BY <2>4 DEF e
<1>8. ASSUME NEW k \in 1 .. N, Good(k - 1) PROVE Good(k)
  <2> DEFINE q == part(k - 1)
             e == R[k]
             a == ends[k]
             b == ends[k + 1]
  <2>1. Over(Seq(S), q) /\ Over(S, e) /\ part(k) = q ++ <<e>>
    <3>1. k \in 1 .. Len(R)
      BY <1>6
    <3>2. Over(Seq(S), q) /\ e \in Seq(S) /\ part(k) = q ++ <<e>>
      BY <1>6, <3>1, PrefixOver
    <3> QED BY <3>2 DEF Over
  <2>2. FlattenSeq(q) = SubSeq(T, 1, a)
    <3>1. k - 1 + 1 = k
      BY <1>1
    <3> QED BY <1>8, <3>1
  <2>3. e = SubSeq(T, a + 1, b) /\ a \in 0 .. L /\ b \in a + 1 .. L + 1
    BY <1>3, <1>6
  <2> HIDE DEF q, e, a, b, part
  <2>4. FlattenSeq(part(k)) = FlattenSeq(q) ++ e
    BY <2>1, FlattenOneMoreOver
  <2>5. SubSeq(T, 1, b) = SubSeq(T, 1, a) ++ SubSeq(T, a + 1, b)
    <3>1. 1 \in Nat \ {0} /\ b \in Nat /\ a \in 1 - 1 .. b
      BY <1>1, <2>3
    <3> QED BY ZenonT(30), <3>1, PartsJoined
  <2> QED BY <2>2, <2>3, <2>4, <2>5 DEF b
<1>9. Bad = {}
  <2> SUFFICES ASSUME Bad # {} PROVE FALSE
    OBVIOUS
  <2> HIDE DEF Good
  <2>1. Bad \in SUBSET (0 .. N) /\ 0 \notin Bad
    BY <1>7
  <2> HIDE DEF Bad
  <2>2. PICK k \in 1 .. N : k \in Bad /\ k - 1 \notin Bad /\ k - 1 \in 0 .. N
    BY <1>1, <2>1, FirstFailure
  <2>3. ~ Good(k) /\ Good(k - 1)
    BY <2>2 DEF Bad
  <2> QED BY <1>8, <2>3
<1>10. Good(N)
  <2> HIDE DEF Good
  <2>1. N \in 0 .. N
    BY <1>1
  <2> QED BY <1>9, <2>1
<1>11. part(N) = R /\ SubSeq(T, 1, L + 1) = T
  <2>1. T \in Seq(S) /\ R \in Seq(Seq(S))
    BY <1>1, <1>6, TextLen DEF Over, S
  <2> QED BY <1>1, <1>6, <2>1, SubSeqFull
<1>12. FlattenSeq(R) = T
  <2> HIDE DEF part
  <2> QED BY <1>4, <1>10, <1>11
<1> QED BY <1>1, <1>3, <1>12 DEF p, T, R

-----------------------------------------------------------------------------
(* One line changed *)

(* A change up to a line leaves the text below it.                         *)
LEMMA SameRowsBelow ==
    ASSUME NEW s, NEW t, NEW n \in Nat, Len(s) = n, Len(t) = n, NEW y \in 1 .. n,
           \A i \in y + 1 .. n : t[i] = s[i]
    PROVE  RowsBelow(t, y) = RowsBelow(s, y)
<1> DEFINE m == y + 1
           k == n - m + 1
<1>1. m \in Int /\ n \in Int /\ k \in Nat
  OBVIOUS
<1>2. \A q : /\ IsSeq(SubSeq(q, m, n)) /\ Len(SubSeq(q, m, n)) = k
             /\ \A i \in 1 .. k : SubSeq(q, m, n)[i] = q[m + i - 1]
  <2> TAKE q
  <2> HIDE DEF m
  <2>1. /\ IsSeq(SubSeq(q, m, n))
        /\ Len(SubSeq(q, m, n)) = IF m <= n THEN n - m + 1 ELSE 0
        /\ \A i \in 1 .. n - m + 1 : SubSeq(q, m, n)[i] = q[m + i - 1]
    BY <1>1, SubSeqIs
  <2>2. (IF m <= n THEN n - m + 1 ELSE 0) = k
    BY <1>1 DEF m
  <2> QED BY <2>1, <2>2
<1>3. ASSUME NEW i \in 1 .. k PROVE t[m + i - 1] = s[m + i - 1]
  <2> DEFINE j == m + i - 1
  <2>1. j \in y + 1 .. n
    OBVIOUS
  <2> HIDE DEF j
  <2> QED BY <2>1 DEF j
<1> HIDE DEF m, k
<1> DEFINE u == SubSeq(s, m, n)
           v == SubSeq(t, m, n)
<1>4. IsSeq(u) /\ Len(u) = k /\ IsSeq(v) /\ Len(v) = k /\ \A i \in 1 .. k : u[i] = v[i]
  BY <1>2, <1>3
<1> HIDE DEF u, v
<1>5. u = [i \in 1 .. k |-> u[i]] /\ v = [i \in 1 .. k |-> v[i]]
  BY <1>4, SeqIs
<1>6. u = v
  BY <1>4, <1>5
<1> QED BY <1>6 DEF RowsBelow, u, v, m

(* The text of lines that differ in one of them                            *)
LEMMA LineChanged ==
    ASSUME BufferAssumption, NEW s, Proper(s), NEW t, Proper(t), Len(t) = Len(s),
           NEW y \in 1 .. Len(s), \A i \in 1 .. Len(s) : i # y => t[i] = s[i]
    PROVE  /\ Text(RowsAbove(s, y)) /\ Text(RowsBelow(s, y))
           /\ Body(s) = (RowsAbove(s, y) ++ Row(s[y])) ++ RowsBelow(s, y)
           /\ Body(t) = (RowsAbove(s, y) ++ Row(t[y])) ++ RowsBelow(s, y)
           /\ RowsAbove(t, y) = RowsAbove(s, y)
<1>1. Len(s) \in Nat
  BY ProperIs
<1>2. RowsAbove(t, y) = RowsAbove(s, y)
  <2>1. \A i \in 1 .. y - 1 : t[i] = s[i]
    BY <1>1
  <2>2. y \in Nat \ {0}
    BY <1>1
  <2> QED BY <2>1, <2>2, SameRowsAbove
<1>3. RowsBelow(t, y) = RowsBelow(s, y)
  <2>1. \A i \in y + 1 .. Len(s) : t[i] = s[i]
    BY <1>1
  <2> DEFINE n == Len(s)
  <2>2. n \in Nat /\ Len(s) = n /\ Len(t) = n /\ y \in 1 .. n /\ \A i \in y + 1 .. n : t[i] = s[i]
    BY <1>1, <2>1
  <2> HIDE DEF n
  <2> QED BY <2>2, SameRowsBelow
<1>4. /\ Text(RowsAbove(s, y)) /\ Text(RowsBelow(s, y))
      /\ Body(s) = (RowsAbove(s, y) ++ Row(s[y])) ++ RowsBelow(s, y)
  BY RowsAround
<1>5. Body(t) = (RowsAbove(t, y) ++ Row(t[y])) ++ RowsBelow(t, y)
  <2>1. y \in 1 .. Len(t)
    OBVIOUS
  <2> QED BY <2>1, RowsAround
<1> QED BY <1>2, <1>3, <1>4, <1>5

(* There is always text below a place: the last line is a real one.        *)
LEMMA SomethingBelow ==
    ASSUME BufferAssumption, NEW lines, WellSet(lines), NEW p, InText(lines, p)
    PROVE  Below(lines, p) # <<>> /\ (p.y < Len(lines) => RowsBelow(lines, p.y) # <<>>)
<1> DEFINE n == Len(lines)
           y == p.y
<1>1. Proper(lines) /\ n \in Nat \ {0} /\ ~ lines[n].ghost
  BY ProperIs DEF WellSet
<1>2. y \in 1 .. n /\ p.x \in 0 .. Len(lines[y].text)
  BY <1>1, AboveAndBelow DEF InText
<1>3. IsWordLine(lines[y]) /\ Text(RowsBelow(lines, y)) /\ IsWordLine(lines[n])
  <2>1. IsWordLine(lines[y]) /\ Text(RowsBelow(lines, y))
    BY <1>1, <1>2, RowsAround
  <2>2. n \in 1 .. n
    BY <1>1
  <2> QED BY <1>1, <2>1, <2>2 DEF Proper
<1>4. Text(Rest(lines[y], p.x))
  BY <1>2, <1>3, RowCut
<1>5. y < n => RowsBelow(lines, y) # <<>>
  <2> SUFFICES ASSUME y < n, RowsBelow(lines, y) = <<>> PROVE FALSE
    OBVIOUS
  <2> DEFINE s == SubSeq(lines, y + 1, n)
             k == n - y
  <2>1. Proper(s) /\ Len(s) = k /\ \A i \in 1 .. k : s[i] = lines[y + i]
    <3>1. y \in 0 .. Len(lines)
      BY <1>1, <1>2
    <3> HIDE DEF y
    <3> QED BY <1>1, <3>1, LinesCut
  <2>2. k \in Nat \ {0} /\ y + k = n
    <3> HIDE DEF y, n
    <3> QED BY <1>1, <1>2
  <2>3. s[k] = lines[n] /\ k \in 1 .. Len(s)
    <3>1. k \in 1 .. k
      BY <2>2
    <3> HIDE DEF k, s
    <3> QED BY <2>1, <2>2, <3>1
  <2>4. Body(s) = <<>>
    BY DEF RowsBelow
  <2> HIDE DEF s, k
  <2>5. Row(s[k]) = s[k].text ++ Break /\ Text(s[k].text)
    BY <1>1, <1>3, <2>3, RowIs DEF Row
  <2>6. /\ Text(RowsAbove(s, k)) /\ Text(RowsBelow(s, k)) /\ Text(Row(s[k]))
        /\ Body(s) = (RowsAbove(s, k) ++ Row(s[k])) ++ RowsBelow(s, k)
    BY <1>3, <2>1, <2>3, RowsAround, RowIs
  <2>7. Len(Row(s[k])) = Len(s[k].text) + 1 /\ Len(s[k].text) \in Nat
    BY <2>5, BreakLast, TextLen
  <2> DEFINE a == RowsAbove(s, k)
             r == Row(s[k])
             c == RowsBelow(s, k)
  <2>8. Text(a) /\ Text(r) /\ Text(c) /\ (a ++ r) ++ c = <<>> /\ Len(r) >= 1
    BY <2>4, <2>6, <2>7
  <2> HIDE DEF a, r, c
  <2>9. Text(a ++ r) /\ Len(a ++ r) = Len(a) + Len(r) /\ Len(a) \in Nat /\ Len(r) \in Nat
    BY <2>8, TextJoined, TextLen
  <2>10. Len((a ++ r) ++ c) = Len(a ++ r) + Len(c) /\ Len(c) \in Nat
    BY <2>8, <2>9, TextJoined, TextLen
  <2>11. Len((a ++ r) ++ c) = 0
    BY <2>8
  <2> QED BY <2>8, <2>9, <2>10, <2>11
<1>6. Below(lines, p) # <<>>
  <2> DEFINE r == Rest(lines[y], p.x)
             c == RowsBelow(lines, y)
  <2>1. Text(r) /\ Text(c) /\ Below(lines, p) = r ++ c
    BY <1>3, <1>4 DEF Below
  <2>2. r # <<>> \/ c # <<>>
    <3>1. CASE y < n
      BY <1>5, <3>1
    <3>2. CASE ~ y < n
      <4>1. lines[y] = lines[n] /\ y = n
        BY <1>2, <1>1, <3>2
      <4>2. r = SubSeq(lines[y].text, p.x + 1, Len(lines[y].text)) ++ Break
        BY <1>1, <4>1 DEF Rest
      <4>3. Text(lines[y].text)
        BY <1>3, RowIs
      <4>4. Text(SubSeq(lines[y].text, p.x + 1, Len(lines[y].text)))
        BY <1>2, <4>3, TextCut
      <4> HIDE DEF r
      <4> QED BY <4>2, <4>4, BreakLast
    <3> QED BY <3>1, <3>2
  <2> HIDE DEF r, c
  <2>3. Len(r ++ c) = Len(r) + Len(c) /\ Len(r) \in Nat /\ Len(c) \in Nat
        /\ (Len(r) = 0 <=> r = <<>>) /\ (Len(c) = 0 <=> c = <<>>)
    BY <2>1, TextJoined, TextLen
  <2>4. Len(<<>>) = 0
    OBVIOUS
  <2> QED BY <2>1, <2>2, <2>3, <2>4
<1> QED BY <1>5, <1>6

-----------------------------------------------------------------------------
(* The lines that an insertion makes *)

(* Words put together                                                      *)
LEMMA WordJoined ==
    ASSUME BufferAssumption, NEW a, NEW b, Word(a), Word(b)
    PROVE  /\ Word(a ++ b) /\ Len(a ++ b) = Len(a) + Len(b) /\ Len(a) \in Nat /\ Len(b) \in Nat
           /\ Text(a) /\ Text(b) /\ Text(a ++ b) /\ Word(<<>>)
<1>1. Word(a ++ b) /\ Len(a ++ b) = Len(a) + Len(b) /\ Len(a) \in Nat /\ Word(<<>>)
  BY Joined, JoinedWithNone DEF Word
<1>2. Text(a) /\ Text(b) /\ Text(a ++ b)
  BY <1>1, WordIs
<1> QED BY <1>1, <1>2, TextLen

(* A new line: a piece of the text, behind the head of the line that the   *)
(* text went into, before its tail                                         *)
NewLine(text, head, tail, n, k) ==
    Line((IF k = 1 THEN head ELSE <<>>) \o Pieces(text)[k] \o (IF k = n THEN tail ELSE <<>>),
         FALSE, FALSE)

(* All new lines of an insertion.                                          *)
AllNew(text, head, tail, n) == [k \in 1 .. n |-> NewLine(text, head, tail, n, k)]

(* Where the text ends in the last new line                                *)
EndsAt(text, head, n) == Len(Pieces(text)[n]) + IF n = 1 THEN Len(head) ELSE 0

(* A real line of a word.                                                  *)
LineOf(w) == Line(w, FALSE, FALSE)

(* The line of a word has the row of that word.                            *)
LEMMA LineOfIs ==
    ASSUME BufferAssumption, NEW w, Word(w)
    PROVE  /\ IsWordLine(LineOf(w)) /\ ~ LineOf(w).ghost /\ LineOf(w).text = w
           /\ Row(LineOf(w)) = w ++ Break
<1>1. IsSeq(w)
  BY WordIs, TextLen
<1> QED BY <1>1 DEF LineOf, Line, IsWordLine, IsLine, Row

(* Real lines of words.                                                    *)
LinesOf(w, n) == [k \in 1 .. n |-> LineOf(w[k])]

(* The lines of words have their rows.                                     *)
LEMMA LinesOfAre ==
    ASSUME BufferAssumption, NEW n \in Nat, NEW w,
           \A k \in 1 .. n : Word(w[k]),
           NEW lines, lines = LinesOf(w, n)
    PROVE  /\ Proper(lines) /\ Len(lines) = n
           /\ \A k \in 1 .. n : lines[k] = LineOf(w[k]) /\ Row(lines[k]) = w[k] ++ Break
                                  /\ lines[k].text = w[k] /\ ~ lines[k].ghost
<1>1. \A k \in 1 .. n : lines[k] = LineOf(w[k])
  BY DEF LinesOf
<1>2. lines = [k \in 1 .. n |-> lines[k]]
  BY DEF LinesOf
<1>3. \A k \in 1 .. n : /\ IsWordLine(lines[k]) /\ Row(lines[k]) = w[k] ++ Break
                        /\ lines[k].text = w[k] /\ ~ lines[k].ghost
  BY <1>1, LineOfIs
<1>4. IsSeq(lines) /\ Len(lines) = n
  BY <1>2, FunctionIsSeq
<1> QED BY <1>1, <1>3, <1>4 DEF Proper

(* What the new lines are                                                  *)
NewLinesFit(text, head, tail, n, new, x) ==
    /\ n \in Nat \ {0} /\ Proper(new) /\ Len(new) = n /\ Len(Pieces(text)) = n
    /\ \A k \in 1 .. n : new[k] = NewLine(text, head, tail, n, k)
    /\ Body(new) = (head ++ text) ++ (tail ++ Break)
    /\ Len(head) <= Len(new[1].text) /\ SubSeq(new[1].text, 1, Len(head)) = head
    /\ x \in Nat /\ Len(new[n].text) = x + Len(tail) /\ Text(RowsAbove(new, n))
    /\ RowsAbove(new, n) ++ SubSeq(new[n].text, 1, x) = head ++ text
    /\ head = <<>> /\ text # <<>> => (x = 0 <=> Ended(text)) /\ (x = 0 => n > 1)

(* The new lines of an insertion make the head of the line, the inserted   *)
(* text, the tail and a line break.                                        *)
LEMMA NewLinesAre ==
    ASSUME BufferAssumption, NEW text, Text(text), NEW head, Word(head), NEW tail, Word(tail),
           NEW n, n = Eols(text) + 1,
           NEW new, new = AllNew(text, head, tail, n),
           NEW x, x = EndsAt(text, head, n)
    PROVE  NewLinesFit(text, head, tail, n, new, x)
<1> DEFINE p == Pieces(text)
           h(k) == IF k = 1 THEN head ELSE <<>>
           t(k) == IF k = n THEN tail ELSE <<>>
           none == [k \in 1 .. n |-> p[k]]
           one == [k \in 1 .. n |-> h(k) ++ p[k]]
           all == [k \in 1 .. n |-> (h(k) ++ p[k]) ++ t(k)]
           pl == LinesOf(none, n)
           ol == LinesOf(one, n)
           R == [k \in 1 .. n |-> PieceRow(text, k)]
<1>1. /\ n \in Nat \ {0} /\ Len(p) = n /\ \A k \in 1 .. n : Word(p[k])
      /\ FlattenSeq(R) = text ++ Break
  BY PiecesJoin
<1>2. Word(<<>>) /\ \A a, b : Word(a) /\ Word(b) => Word(a ++ b) /\ Len(a ++ b) = Len(a) + Len(b)
  BY WordJoined
<1>3. \A k \in 1 .. n : Word(h(k)) /\ Word(t(k))
  BY <1>2
<1>4. new = LinesOf(all, n)
  BY DEF AllNew, NewLine, LineOf, LinesOf, ++
<1> HIDE DEF p, h, t
<1>5. /\ \A k \in 1 .. n : none[k] = p[k] /\ one[k] = h(k) ++ p[k] /\ all[k] = one[k] ++ t(k)
  OBVIOUS
<1> HIDE DEF none, one, all
<1>6. \A k \in 1 .. n : Word(none[k]) /\ Word(one[k]) /\ Word(all[k])
  BY <1>1, <1>2, <1>3, <1>5
<1>7. /\ n \in Nat /\ pl = LinesOf(none, n) /\ ol = LinesOf(one, n)
  BY <1>1
<1> HIDE DEF pl, ol
<1>8. Proper(pl) /\ Len(pl) = n
      /\ \A k \in 1 .. n : Row(pl[k]) = p[k] ++ Break /\ pl[k] = LineOf(p[k])
  <2>1. \A k \in 1 .. n : Word(none[k])
    BY <1>6
  <2> QED BY <1>5, <1>7, <2>1, LinesOfAre
<1>9. Proper(ol) /\ Len(ol) = n
      /\ \A k \in 1 .. n : /\ Row(ol[k]) = one[k] ++ Break /\ ol[k] = LineOf(one[k])
                           /\ ol[k].text = one[k]
  <2>1. \A k \in 1 .. n : Word(one[k])
    BY <1>6
  <2> QED BY <1>7, <2>1, LinesOfAre
<1>10. Proper(new) /\ Len(new) = n
      /\ \A k \in 1 .. n : /\ Row(new[k]) = all[k] ++ Break /\ new[k] = LineOf(all[k])
                           /\ new[k].text = all[k]
  <2>1. \A k \in 1 .. n : Word(all[k])
    BY <1>6
  <2> QED BY <1>4, <1>7, <2>1, LinesOfAre
<1> HIDE DEF R
<1>11. Body(pl) = text ++ Break
  <2>1. \A k \in 1 .. n : R[k] = p[k] ++ Break
    BY DEF R, PieceRow, p
  <2>2. R = [k \in 1 .. n |-> R[k]]
    BY DEF R
  <2>3. Rows(pl) = [k \in 1 .. n |-> Row(pl[k])]
    BY <1>8 DEF Rows
  <2>4. Rows(pl) = R
    BY <1>8, <2>1, <2>2, <2>3
  <2> QED BY <1>1, <2>4 DEF Body
<1>12. \A s : RowsAbove(s, 1) = <<>>
  <2> TAKE s
  <2>1. SubSeq(s, 1, 1 - 1) = <<>>
    BY SubSeqEmpty
  <2> QED BY <2>1, ProperNone DEF RowsAbove
<1>13. RowsBelow(ol, n) = <<>>
  <2>1. SubSeq(ol, n + 1, n) = <<>>
    BY <1>7, SubSeqEmpty
  <2> QED BY <1>9, <2>1, ProperNone DEF RowsBelow
<1>14. Text(head) /\ Text(tail) /\ Text(Break) /\ Text(<<>>)
  BY WordIs, BreakIs, TextWithNone
<1>15. Body(ol) = head ++ (text ++ Break)
  <2> DEFINE c == RowsBelow(pl, 1)
             w == p[1]
  <2>1. /\ Text(c)
        /\ Body(pl) = (RowsAbove(pl, 1) ++ Row(pl[1])) ++ c
        /\ Body(ol) = (RowsAbove(pl, 1) ++ Row(ol[1])) ++ c
    <3>1. 1 \in 1 .. Len(pl) /\ Len(ol) = Len(pl)
      BY <1>1, <1>8, <1>9
    <3>2. \A i \in 1 .. Len(pl) : i # 1 => ol[i] = pl[i]
      <4> SUFFICES ASSUME NEW i \in 1 .. n, i # 1 PROVE ol[i] = pl[i]
        BY <1>8
      <4>1. h(i) ++ p[i] = p[i]
        BY <1>1, TextWithNone, WordIs DEF h
      <4> QED BY <1>5, <1>8, <1>9, <4>1
    <3> QED BY <1>8, <1>9, <3>1, <3>2, LineChanged
  <2>2. Row(pl[1]) = w ++ Break /\ Row(ol[1]) = (head ++ w) ++ Break /\ Text(w)
    <3>1. 1 \in 1 .. n
      BY <1>1
    <3> QED BY <1>1, <1>5, <1>8, <1>9, <3>1, WordIs DEF h
  <2> HIDE DEF c, w
  <2>3. Text(w ++ Break) /\ Text(head ++ w) /\ Text((head ++ w) ++ Break)
    BY <1>14, <2>2, TextJoined
  <2>4. Body(pl) = (w ++ Break) ++ c /\ Body(ol) = ((head ++ w) ++ Break) ++ c
    BY <1>12, <2>1, <2>2, <2>3, TextWithNone
  <2>5. (head ++ w) ++ Break = head ++ (w ++ Break)
    BY <1>14, <2>2, TextInAnyOrder
  <2>6. (head ++ (w ++ Break)) ++ c = head ++ ((w ++ Break) ++ c)
    BY <1>14, <2>1, <2>3, TextInAnyOrder
  <2> QED BY <1>11, <2>4, <2>5, <2>6
<1> DEFINE a == RowsAbove(ol, n)
           q == one[n]
<1>16. n \in 1 .. n
  BY <1>1
<1>17. Text(a) /\ Word(q) /\ Text(q) /\ RowsAbove(new, n) = a
       /\ Body(ol) = a ++ (q ++ Break) /\ Body(new) = a ++ ((q ++ tail) ++ Break)
  <2>0. Len(new) = Len(ol) /\ n \in 1 .. Len(ol)
    BY <1>9, <1>10, <1>16
  <2>1. \A i \in 1 .. Len(ol) : i # n => new[i] = ol[i]
    <3> SUFFICES ASSUME NEW i \in 1 .. n, i # n PROVE new[i] = ol[i]
      BY <1>9
    <3>1. one[i] ++ t(i) = one[i]
      BY <1>6, TextWithNone, WordIs DEF t
    <3> QED BY <1>5, <1>9, <1>10, <3>1
  <2>2. /\ Text(a) /\ Text(RowsBelow(ol, n)) /\ RowsAbove(new, n) = a
        /\ Body(ol) = (a ++ Row(ol[n])) ++ RowsBelow(ol, n)
        /\ Body(new) = (a ++ Row(new[n])) ++ RowsBelow(ol, n)
    BY <1>9, <1>10, <2>0, <2>1, LineChanged
  <2>3. Row(ol[n]) = q ++ Break /\ Row(new[n]) = (q ++ tail) ++ Break
    BY <1>5, <1>9, <1>10, <1>16 DEF t
  <2>4. Word(q) /\ Text(q)
    BY <1>6, <1>16, WordIs
  <2> HIDE DEF a, q
  <2>5. Text(q ++ Break) /\ Text((q ++ tail) ++ Break)
    BY <1>14, <2>4, TextJoined
  <2>6. Text(a ++ (q ++ Break)) /\ Text(a ++ ((q ++ tail) ++ Break))
    BY <2>2, <2>5, TextJoined
  <2> QED BY <1>13, <2>2, <2>3, <2>4, <2>6, TextWithNone
<1> HIDE DEF a, q
<1>18. a ++ q = head ++ text
  <2>1. a ++ (q ++ Break) = (a ++ q) ++ Break /\ head ++ (text ++ Break) = (head ++ text) ++ Break
    BY <1>14, <1>17, TextInAnyOrder
  <2>2. Text(a ++ q) /\ Text(head ++ text)
    BY <1>14, <1>17, TextJoined
  <2> DEFINE u == a ++ q
             v == head ++ text
  <2>3. u ++ Break = v ++ Break /\ Text(u) /\ Text(v)
    BY <1>15, <1>17, <2>1, <2>2
  <2> HIDE DEF u, v
  <2>4. u = v
    BY <1>14, <2>3, CancelEnd
  <2> QED BY <2>4 DEF u, v
<1>19. Body(new) = (head ++ text) ++ (tail ++ Break)
  <2>1. (q ++ tail) ++ Break = q ++ (tail ++ Break) /\ Text(tail ++ Break)
    BY <1>14, <1>17, TextInAnyOrder, TextJoined
  <2>2. a ++ (q ++ (tail ++ Break)) = (a ++ q) ++ (tail ++ Break)
    BY <1>17, <2>1, TextInAnyOrder
  <2> QED BY <1>17, <1>18, <2>1, <2>2
<1>20. x \in Nat /\ Len(q) = x /\ Len(new[n].text) = x + Len(tail) /\ SubSeq(new[n].text, 1, x) = q
  <2>1. Word(h(n)) /\ Word(p[n]) /\ q = h(n) ++ p[n] /\ new[n].text = q ++ tail
    BY <1>1, <1>3, <1>5, <1>10, <1>16 DEF q, t
  <2>2. Len(q) = Len(h(n)) + Len(p[n]) /\ Len(h(n)) \in Nat /\ Len(p[n]) \in Nat
    BY <2>1, WordJoined
  <2>3. Len(h(n)) = IF n = 1 THEN Len(head) ELSE 0
    BY DEF h
  <2>4. x = Len(p[n]) + Len(h(n))
    BY <2>3 DEF EndsAt, p
  <2>5. x = Len(q) /\ x \in Nat
    <3> DEFINE i == Len(h(n))
               j == Len(p[n])
               k == Len(q)
    <3>1. k = i + j /\ i \in Nat /\ j \in Nat /\ x = j + i
      BY <2>1, <2>2, <2>4
    <3> HIDE DEF i, j, k
    <3> QED BY <3>1 DEF k
  <2>6. Len(q ++ tail) = Len(q) + Len(tail) /\ SubSeq(q ++ tail, 1, x) = q
    BY <1>14, <1>17, <2>5, TextJoined, CutOff
  <2> QED BY <2>1, <2>5, <2>6
<1>21. Len(head) <= Len(new[1].text) /\ SubSeq(new[1].text, 1, Len(head)) = head
  <2> DEFINE r == p[1] ++ t(1)
             m == Len(head)
  <2>1. 1 \in 1 .. n
    BY <1>1
  <2>2. Word(p[1]) /\ Word(t(1)) /\ new[1].text = (head ++ p[1]) ++ t(1)
    BY <1>1, <1>3, <1>5, <1>10, <2>1 DEF h
  <2>3. Text(r) /\ new[1].text = head ++ r
    <3>1. Text(p[1]) /\ Text(t(1))
      BY <2>2, WordIs
    <3> QED BY <1>14, <2>2, <3>1, TextInAnyOrder, TextJoined
  <2> HIDE DEF r
  <2>4. Len(head ++ r) = Len(head) + Len(r) /\ Len(head) \in Nat /\ Len(r) \in Nat
    BY <1>14, <2>3, TextJoined, TextLen
  <2>5. SubSeq(head ++ r, 1, m) = head
    BY <1>14, <2>3, CutOff
  <2> QED BY <2>3, <2>4, <2>5
<1>22. ASSUME head = <<>>, text # <<>> PROVE (x = 0 <=> Ended(text)) /\ (x = 0 => n > 1)
  <2>1. text = a ++ q
    BY <1>18, <1>22, TextWithNone
  <2>2. Ended(a)
    <3>1. n \in 1 .. Len(ol)
      BY <1>9, <1>16
    <3> QED BY <1>9, <3>1, LinesAbove DEF a
  <2>3. x = 0 <=> q = <<>>
    BY <1>17, <1>20, TextLen
  <2>4. q = <<>> => Ended(text)
    BY <1>17, <2>1, <2>2, TextWithNone
  <2>5. Ended(text) => q = <<>>
    <3> SUFFICES ASSUME Ended(text), q # <<>> PROVE FALSE
      OBVIOUS
    <3>1. Eols(q) >= 1
      BY <1>17, <2>1, EndedPart
    <3> QED BY <1>17, <3>1, WordIs
  <2>6. Ended(text) => n > 1
    <3> SUFFICES ASSUME Ended(text) PROVE n > 1
      OBVIOUS
    <3>1. <<>> ++ text = text
      BY TextWithNone
    <3>2. Eols(text) >= 1
      BY <1>14, <1>22, <3>1, EndedPart
    <3>3. Eols(text) \in Nat
      BY <1>14, EolsJoined
    <3> QED BY <3>2, <3>3
  <2> QED BY <2>3, <2>4, <2>5, <2>6
<1>23. \A k \in 1 .. n : new[k] = NewLine(text, head, tail, n, k)
  BY DEF AllNew
<1> QED BY <1>1, <1>10, <1>23, <1>17, <1>18, <1>19, <1>20, <1>21, <1>22 DEF p, NewLinesFit

-----------------------------------------------------------------------------
(* Where an insertion puts its lines *)

(* The elements of a sequence in which a part is exchanged                 *)
SpliceAt(s, t, a, mid, c) ==
    /\ IsSeq(t) /\ Len(t) = (a - 1) + Len(mid) + (Len(s) - c + 1)
    /\ \A i \in 1 .. a - 1 : t[i] = s[i]
    /\ \A i \in 1 .. Len(mid) : t[a - 1 + i] = mid[i]
    /\ \A i \in 1 .. Len(s) - c + 1 : t[a - 1 + Len(mid) + i] = s[c - 1 + i]

(* The elements of a sequence in which a part is exchanged.                *)
LEMMA SpliceAtIs ==
    ASSUME NEW s, IsSeq(s), NEW mid, IsSeq(mid),
           NEW a \in 1 .. Len(s) + 1, NEW c \in a .. Len(s) + 1
    PROVE  SpliceAt(s, Splice(s, a, mid, c), a, mid, c)
<1> DEFINE N == Len(s)
           M == Len(mid)
           m == a - 1
           l == N - c + 1
           u == SubSeq(s, 1, m)
           v == SubSeq(s, c, N)
           w == u \o mid
           t == Splice(s, a, mid, c)
<1>1. N \in Nat /\ M \in Nat /\ m \in Nat /\ l \in Nat /\ a \in Int /\ c \in Int
  BY SeqIs
<1>2. IsSeq(u) /\ Len(u) = m /\ \A i \in 1 .. m : u[i] = s[i]
  <2> HIDE DEF m
  <2>1. /\ IsSeq(u) /\ Len(u) = IF 1 <= m THEN m - 1 + 1 ELSE 0
        /\ \A i \in 1 .. m - 1 + 1 : u[i] = s[1 + i - 1]
    <3>1. 1 \in Int /\ m \in Int
      BY <1>1
    <3> QED BY <3>1, SubSeqIs
  <2> HIDE DEF u
  <2>2. IsSeq(u) /\ Len(u) = m
    BY <1>1, <2>1
  <2>3. ASSUME NEW i \in 1 .. m PROVE u[i] = s[i]
    <3>1. i \in 1 .. m - 1 + 1 /\ 1 + i - 1 = i
      BY <1>1
    <3> QED BY <2>1, <3>1
  <2> QED BY <2>2, <2>3
<1>3. IsSeq(v) /\ Len(v) = l /\ \A i \in 1 .. l : v[i] = s[c - 1 + i]
  <2> HIDE DEF N
  <2>1. /\ IsSeq(v) /\ Len(v) = IF c <= N THEN N - c + 1 ELSE 0
        /\ \A i \in 1 .. N - c + 1 : v[i] = s[c + i - 1]
    <3>1. N \in Int /\ c \in Int
      BY <1>1
    <3> QED BY <3>1, SubSeqIs
  <2> HIDE DEF v
  <2>2. Len(v) = l /\ IsSeq(v)
    BY <1>1, <2>1
  <2>3. ASSUME NEW i \in 1 .. l PROVE v[i] = s[c - 1 + i]
    <3>1. c + i - 1 = c - 1 + i
      BY <1>1
    <3> QED BY <2>1, <3>1
  <2> QED BY <2>2, <2>3
<1>4. t = w \o v
  BY DEF Splice
<1> HIDE DEF u, v, t
<1>5. /\ IsSeq(w) /\ Len(w) = m + M
      /\ \A i \in 1 .. m + M : w[i] = IF i <= m THEN u[i] ELSE mid[i - m]
  BY <1>2, ConcatIs
<1> HIDE DEF w
<1>6. /\ IsSeq(t) /\ Len(t) = m + M + l
      /\ \A i \in 1 .. m + M + l : t[i] = IF i <= m + M THEN w[i] ELSE v[i - (m + M)]
  <2> DEFINE k == m + M
  <2>1. IsSeq(w) /\ Len(w) = k /\ IsSeq(v) /\ Len(v) = l /\ t = w \o v
    BY <1>3, <1>4, <1>5
  <2> HIDE DEF k, l
  <2>2. /\ IsSeq(w \o v) /\ Len(w \o v) = Len(w) + Len(v)
        /\ \A i \in 1 .. Len(w) + Len(v) : (w \o v)[i] = IF i <= Len(w) THEN w[i] ELSE v[i - Len(w)]
    BY <2>1, ConcatIs
  <2>3. IsSeq(t) /\ Len(t) = k + l /\ \A i \in 1 .. k + l : t[i] = IF i <= k THEN w[i] ELSE v[i - k]
    BY <2>1, <2>2
  <2> QED BY <2>3 DEF k
<1> HIDE DEF m, M, l
<1>7. ASSUME NEW i \in 1 .. m PROVE t[i] = s[i]
  <2>1. i \in 1 .. m + M + l /\ i \in 1 .. m + M /\ i <= m /\ i <= m + M
    BY <1>1
  <2> QED BY <1>2, <1>5, <1>6, <2>1
<1>8. ASSUME NEW i \in 1 .. M PROVE t[m + i] = mid[i]
  <2> DEFINE j == m + i
  <2>1. j \in 1 .. m + M + l /\ j \in 1 .. m + M /\ ~ j <= m /\ j <= m + M /\ j - m = i
    BY <1>1
  <2> HIDE DEF j
  <2>2. t[j] = mid[i]
    BY <1>5, <1>6, <2>1
  <2> QED BY <2>2 DEF j
<1>9. ASSUME NEW i \in 1 .. l PROVE t[m + M + i] = s[c - 1 + i]
  <2> DEFINE j == m + M + i
  <2>1. j \in 1 .. m + M + l /\ ~ j <= m + M /\ j - (m + M) = i
    BY <1>1
  <2> HIDE DEF j
  <2>2. t[j] = v[i]
    BY <1>6, <2>1
  <2> QED BY <1>3, <2>2 DEF j
<1> QED BY <1>6, <1>7, <1>8, <1>9 DEF SpliceAt, m, M, l, N, t

(* What a line holds before a place.                                       *)
HeadOf(lines, at) == SubSeq(lines[at.y].text, 1, at.x)

(* What a line holds behind a place.                                       *)
TailOf(lines, at) == SubSeq(lines[at.y].text, at.x + 1, Len(lines[at.y].text))

(* The new lines of an insertion at a place.                               *)
NewLinesAt(lines, at, text) ==
    AllNew(text, HeadOf(lines, at), TailOf(lines, at), Eols(text) + 1)

(* Into a ghost line goes one line less: the following line stays.         *)
LinesNew(lines, at, text) == Eols(text) + IF lines[at.y].ghost /\ Ended(text) THEN 0 ELSE 1

(* Where an inserted text ends.                                            *)
EndOf(lines, at, text) ==
    Point(at.y + Eols(text), EndsAt(text, HeadOf(lines, at), Eols(text) + 1))

(* What an insertion makes of the lines, before it sets ghost flags        *)
Made(lines, at, text, ins) ==
    LET M == LinesNew(lines, at, text)
        new == NewLinesAt(lines, at, text)
    IN  /\ ins.end = EndOf(lines, at, text)
        /\ IsLines(ins.lines) /\ Len(ins.lines) = (at.y - 1) + M + (Len(lines) - at.y)
        /\ \A i \in 1 .. at.y - 1 : ins.lines[i] = lines[i]
        /\ \A k \in 1 .. M : /\ ins.lines[at.y - 1 + k].text = new[k].text
                             /\ ins.lines[at.y - 1 + k].ghost = (k = 1 /\ lines[at.y].ghost)
                             /\ ins.lines[at.y - 1 + k].eol \in BOOLEAN
        /\ \A i \in 1 .. Len(lines) - at.y : ins.lines[at.y - 1 + M + i] = lines[at.y + i]

(* A line is what is before a column and what is behind it; a ghost line   *)
(* is neither.                                                             *)
LEMMA LineParts ==
    ASSUME BufferAssumption, NEW lines, WellSet(lines), NEW at, InText(lines, at)
    PROVE  /\ at.y \in 1 .. Len(lines) /\ at.x \in Nat /\ Len(lines) \in Nat \ {0}
           /\ Word(HeadOf(lines, at)) /\ Len(HeadOf(lines, at)) = at.x /\ Word(TailOf(lines, at))
           /\ Text(HeadOf(lines, at)) /\ Text(TailOf(lines, at))
           /\ lines[at.y].text = HeadOf(lines, at) ++ TailOf(lines, at)
           /\ lines[at.y].ghost => /\ at.x = 0 /\ HeadOf(lines, at) = <<>> /\ TailOf(lines, at) = <<>>
                                   /\ at.y < Len(lines)
           /\ lines[at.y].eol <=> ~ lines[at.y].ghost /\ at.y < Len(lines)
<1> DEFINE n == Len(lines)
           y == at.y
           l == lines[y]
           x == at.x
<1>1. Proper(lines) /\ n \in Nat \ {0} /\ ~ lines[n].ghost /\ HasBreaks(lines) /\ IsLines(lines)
  BY ProperIs DEF WellSet
<1>2. y \in 1 .. n /\ x \in 0 .. Len(l.text) /\ x \in Nat
  BY <1>1, AboveAndBelow DEF InText
<1>3. IsWordLine(l)
  BY <1>1, <1>2 DEF Proper
<1>4. Text(l.text) /\ Word(l.text) /\ Len(l.text) \in Nat
  BY <1>3, RowIs, TextLen DEF IsWordLine
<1>5. /\ Word(HeadOf(lines, at)) /\ Len(HeadOf(lines, at)) = x /\ Text(HeadOf(lines, at))
      /\ Text(TailOf(lines, at)) /\ l.text = HeadOf(lines, at) ++ TailOf(lines, at)
      /\ Len(TailOf(lines, at)) = Len(l.text) - x
  BY <1>2, <1>3, <1>4, RowCut, TextCut DEF HeadOf, TailOf
<1>6. Word(TailOf(lines, at))
  <2> DEFINE w == l.text
             m == x + 1
             k == Len(w)
  <2>1. w \in Seq(Chars)
    BY <1>4 DEF Word, Over
  <2>2. m \in 1 .. Len(w) + 1 /\ k \in m - 1 .. Len(w)
    <3> HIDE DEF w, x
    <3>1. x \in 0 .. Len(w) /\ x \in Nat /\ Len(w) \in Nat
      BY <1>2, <1>4 DEF w
    <3> QED BY <3>1
  <2> HIDE DEF w, m, k
  <2>3. SubSeq(w, m, k) \in Seq(Chars)
    BY <2>1, <2>2, PartIs
  <2> QED BY <2>3 DEF w, m, k, TailOf, Word, Over
<1>7. ASSUME l.ghost
      PROVE  x = 0 /\ HeadOf(lines, at) = <<>> /\ TailOf(lines, at) = <<>> /\ y < n
  <2>1. l.text = <<>>
    BY <1>3, <1>7 DEF IsWordLine
  <2>2. Len(l.text) = 0 /\ x = 0
    BY <1>2, <2>1
  <2>3. y # n
    BY <1>1, <1>7
  <2> QED BY <1>2, <1>5, <2>2, <2>3, TextLen
<1>8. l.eol <=> ~ l.ghost /\ y < n
  <2>1. /\ RealOf(lines) = {j \in 1 .. n : ~ lines[j].ghost}
        /\ BreaksOf(lines) = {j \in 1 .. n : lines[j].eol}
    BY <1>1, RealOfIs, BreaksOfIs
  <2>2. n \in RealOf(lines)
    BY <1>1, <2>1
  <2>3. y \in BreaksOf(lines) <=> y \in RealOf(lines) /\ \E j \in RealOf(lines) : y < j
    BY <1>1, <1>2 DEF HasBreaks
  <2>4. (\E j \in RealOf(lines) : y < j) <=> y < n
    BY <1>1, <1>2, <2>1, <2>2
  <2> QED BY <1>2, <2>1, <2>3, <2>4
<1> QED BY <1>1, <1>2, <1>5, <1>6, <1>7, <1>8

(* InternalInsertText makes the new lines out of the head of the line, the *)
(* pieces of the text and the tail of the line, and no other line changes. *)
LEMMA LinesAreMade ==
    ASSUME BufferAssumption, NEW lines, WellSet(lines), NEW at, InText(lines, at),
           NEW text, Text(text), text # <<>>
    PROVE  Made(lines, at, text, InternalInsertText(lines, at, text))
<1> DEFINE ins == InternalInsertText(lines, at, text)
           p == Pieces(text)
           y == at.y
           li == lines[y]
           n == Len(p)
           N == Len(lines)
           head == HeadOf(lines, at)
           tail == TailOf(lines, at)
           words(k) == (IF k = 1 THEN head ELSE <<>>) \o p[k] \o (IF k = n THEN tail ELSE <<>>)
           piece(k) == Line(words(k), k < n \/ li.eol, k = 1 /\ li.ghost)
           made == [k \in 1 .. n |-> piece(k)]
           dropped == n > 1 /\ made[n].text = <<>> /\ ~ li.eol /\ y < N
           middle == IF dropped THEN Front(made) ELSE made
           result == SubSeq(lines, 1, y - 1) \o middle \o SubSeq(lines, y + 1, N)
           e == Eols(text)
           new == NewLinesAt(lines, at, text)
           M == LinesNew(lines, at, text)
           x == EndsAt(text, head, e + 1)
<1>1. ins = [lines |-> result, end |-> Point(y + n - 1, Len(p[n]) + IF n = 1 THEN at.x ELSE 0)]
  BY DEF InternalInsertText, InsertPieces, HeadOf, TailOf
<1>2. /\ y \in 1 .. N /\ at.x \in Nat /\ N \in Nat \ {0}
      /\ Word(head) /\ Len(head) = at.x /\ Word(tail)
      /\ li.ghost => at.x = 0 /\ head = <<>> /\ tail = <<>> /\ y < N
      /\ li.eol <=> ~ li.ghost /\ y < N
  BY LineParts
<1> HIDE DEF head, tail
<1>3. /\ n = e + 1 /\ e \in Nat /\ n \in Nat \ {0} /\ Len(new) = n
      /\ \A k \in 1 .. n : new[k] = NewLine(text, head, tail, n, k)
      /\ x \in Nat /\ Len(new[n].text) = x + Len(tail) /\ Proper(new)
      /\ head = <<>> => (x = 0 <=> Ended(text)) /\ (x = 0 => n > 1)
  <2> DEFINE m == e + 1
  <2>1. new = AllNew(text, head, tail, m)
    BY DEF NewLinesAt, head, tail
  <2> HIDE DEF new, m, x
  <2>2. m = Eols(text) + 1 /\ x = EndsAt(text, head, m)
    BY DEF m, x
  <2>3. /\ m \in Nat \ {0} /\ Proper(new) /\ Len(new) = m /\ n = m
        /\ \A k \in 1 .. m : new[k] = NewLine(text, head, tail, m, k)
        /\ x \in Nat /\ Len(new[m].text) = x + Len(tail)
        /\ head = <<>> => (x = 0 <=> Ended(text)) /\ (x = 0 => m > 1)
    <3> HIDE DEF n
    <3>0. Word(head) /\ Word(tail)
      BY <1>2
    <3>3. NewLinesFit(text, head, tail, m, new, x)
      BY <3>0, <2>1, <2>2, NewLinesAre
    <3>1. /\ m \in Nat \ {0} /\ Proper(new) /\ Len(new) = m /\ Len(Pieces(text)) = m
          /\ \A k \in 1 .. m : new[k] = NewLine(text, head, tail, m, k)
          /\ x \in Nat /\ Len(new[m].text) = x + Len(tail)
          /\ head = <<>> /\ text # <<>> => (x = 0 <=> Ended(text)) /\ (x = 0 => m > 1)
      BY <3>3 DEF NewLinesFit
    <3>2. n = m
      BY <3>1 DEF n
    <3> QED BY <3>1, <3>2
  <2>4. e \in Nat
    BY EolsJoined
  <2> QED BY <2>3, <2>4 DEF m
<1>4. \A k \in 1 .. n : made[k].text = new[k].text /\ made[k].ghost = (k = 1 /\ li.ghost)
      /\ IsSeq(new[k].text) /\ made[k].eol \in BOOLEAN
  <2> SUFFICES ASSUME NEW k \in 1 .. n
               PROVE  made[k].text = new[k].text /\ made[k].ghost = (k = 1 /\ li.ghost)
                      /\ IsSeq(new[k].text) /\ made[k].eol \in BOOLEAN
    OBVIOUS
  <2>1. made[k] = piece(k)
    OBVIOUS
  <2>2. new[k].text = words(k)
    <3> HIDE DEF new, n
    <3>1. new[k] = NewLine(text, head, tail, n, k)
      BY <1>3
    <3>2. NewLine(text, head, tail, n, k).text = words(k)
      BY DEF NewLine, Line
    <3> QED BY <3>1, <3>2
  <2>3. piece(k).text = words(k) /\ piece(k).ghost = (k = 1 /\ li.ghost)
        /\ piece(k).eol \in BOOLEAN
    <3> HIDE DEF words
    <3> QED BY DEF Line
  <2>4. IsSeq(new[k].text)
    BY <1>3 DEF Proper, IsWordLine, IsLine
  <2> HIDE DEF made, piece, words, new
  <2> QED BY <2>1, <2>2, <2>3, <2>4
<1>5. IsSeq(made) /\ Len(made) = n
  <2>1. made = [k \in 1 .. n |-> made[k]]
    OBVIOUS
  <2> HIDE DEF made
  <2> QED BY <1>3, <2>1, FunctionIsSeq
<1> HIDE DEF made, p
<1>6. dropped <=> li.ghost /\ Ended(text)
  <2>1. Word(new[n].text) /\ Len(tail) \in Nat
    <3>1. n \in 1 .. Len(new)
      BY <1>3
    <3> HIDE DEF new
    <3>2. Word(new[n].text)
      BY <1>3, <3>1 DEF Proper, IsWordLine
    <3> QED BY <1>2, <3>2, WordJoined
  <2>2. made[n].text = <<>> <=> Len(new[n].text) = 0
    <3>1. n \in 1 .. n
      BY <1>3
    <3> QED BY <1>4, <2>1, <3>1, WordIs, TextLen
  <2>3. Len(<<>>) = 0
    OBVIOUS
  <2> HIDE DEF x, new, n, N
  <2>4. ASSUME dropped PROVE li.ghost /\ Ended(text)
    <3>1. li.ghost
      BY <1>2, <2>4
    <3>2. x = 0
      BY <1>3, <2>1, <2>2, <2>4
    <3> QED BY <1>2, <1>3, <3>1, <3>2
  <2>5. ASSUME li.ghost, Ended(text) PROVE dropped
    <3>1. x = 0 /\ n > 1 /\ Len(tail) = 0
      BY <1>2, <1>3, <2>3, <2>5
    <3>2. made[n].text = <<>>
      BY <1>3, <2>2, <3>1
    <3> QED BY <1>2, <2>5, <3>1, <3>2
  <2> QED BY <2>4, <2>5
<1>7. M = (IF dropped THEN n - 1 ELSE n) /\ M \in Nat
  <2>1. M = e + IF dropped THEN 0 ELSE 1
    BY <1>6 DEF LinesNew
  <2> HIDE DEF M, dropped, n, e
  <2> QED BY <1>3, <2>1
<1>8. IsSeq(middle) /\ Len(middle) = M /\ \A k \in 1 .. M : middle[k] = made[k]
  <2>1. Front(made) = SubSeq(made, 1, n - 1)
    BY <1>5 DEF Front
  <2> DEFINE m == n - 1
  <2>2. m \in Nat
    BY <1>3
  <2>3. /\ IsSeq(SubSeq(made, 1, m)) /\ Len(SubSeq(made, 1, m)) = IF 1 <= m THEN m - 1 + 1 ELSE 0
        /\ \A i \in 1 .. m - 1 + 1 : SubSeq(made, 1, m)[i] = made[1 + i - 1]
    <3> HIDE DEF m
    <3>1. 1 \in Int /\ m \in Int
      BY <2>2
    <3> QED BY <3>1, SubSeqIs
  <2> HIDE DEF m
  <2>4. Len(SubSeq(made, 1, m)) = m
    BY <2>2, <2>3
  <2>5. ASSUME NEW i \in 1 .. m PROVE SubSeq(made, 1, m)[i] = made[i]
    <3>1. i \in 1 .. m - 1 + 1 /\ 1 + i - 1 = i
      BY <2>2
    <3> QED BY <2>3, <3>1
  <2> HIDE DEF dropped, M
  <2>6. CASE dropped
    <3>1. middle = SubSeq(made, 1, m) /\ M = m
      BY <1>7, <2>1, <2>6 DEF m
    <3> QED BY <2>3, <2>4, <2>5, <3>1
  <2>7. CASE ~ dropped
    <3>1. middle = made /\ M = n
      BY <1>7, <2>7
    <3> QED BY <1>5, <3>1
  <2> QED BY <2>6, <2>7
<1>9. \A k \in 1 .. M : /\ middle[k].text = new[k].text /\ middle[k].ghost = (k = 1 /\ li.ghost)
                        /\ middle[k].eol \in BOOLEAN
  <2> SUFFICES ASSUME NEW k \in 1 .. M
               PROVE  /\ middle[k].text = new[k].text /\ middle[k].ghost = (k = 1 /\ li.ghost)
                      /\ middle[k].eol \in BOOLEAN
    OBVIOUS
  <2>1. k \in 1 .. n
    <3> HIDE DEF M, n, dropped
    <3> QED BY <1>3, <1>7
  <2> HIDE DEF M, middle, new
  <2> QED BY <1>4, <1>8, <2>1
<1> HIDE DEF middle, dropped
<1>10. IsLines(ins.lines)
  <2>1. ArePieces(p)
    BY TextLen, PiecesAre DEF p
  <2>2. at.x \in Int /\ IsLines(lines)
    BY <1>2, ProperIs DEF WellSet
  <2> QED BY <1>2, <2>1, <2>2, InsertPiecesIs DEF InternalInsertText, p
<1>11. ins.end = EndOf(lines, at, text)
  <2>1. y + n - 1 = y + e
    <3> HIDE DEF n, e, y
    <3> QED BY <1>2, <1>3
  <2>2. (Len(p[n]) + IF n = 1 THEN at.x ELSE 0) = x
    BY <1>2, <1>3 DEF EndsAt, p
  <2> QED BY <1>1, <2>1, <2>2 DEF EndOf, head
<1>12. SpliceAt(lines, ins.lines, y, middle, y + 1)
  <2>1. result = Splice(lines, y, middle, y + 1)
    BY DEF Splice
  <2> DEFINE c == y + 1
  <2>2. IsSeq(lines) /\ y \in 1 .. Len(lines) + 1 /\ c \in y .. Len(lines) + 1
    BY <1>2 DEF WellSet, Proper
  <2> HIDE DEF c
  <2>3. SpliceAt(lines, Splice(lines, y, middle, c), y, middle, c)
    BY <1>8, <2>2, SpliceAtIs
  <2>4. ins.lines = result
    <3> HIDE DEF ins, result
    <3> QED BY <1>1
  <2> HIDE DEF ins, result
  <2> QED BY <2>1, <2>3, <2>4 DEF c
<1>13. /\ Len(ins.lines) = (y - 1) + M + (N - y)
       /\ \A i \in 1 .. y - 1 : ins.lines[i] = lines[i]
       /\ \A k \in 1 .. M : ins.lines[y - 1 + k] = middle[k]
       /\ \A i \in 1 .. N - y : ins.lines[y - 1 + M + i] = lines[y + i]
  <2> DEFINE c == y + 1
             t == ins.lines
  <2>1. N - c + 1 = N - y /\ c - 1 = y
    BY <1>2
  <2> HIDE DEF ins, M, N, y, c, t
  <2>2. /\ Len(t) = (y - 1) + M + (N - c + 1)
        /\ \A i \in 1 .. y - 1 : t[i] = lines[i]
        /\ \A i \in 1 .. M : t[y - 1 + i] = middle[i]
        /\ \A i \in 1 .. N - c + 1 : t[y - 1 + M + i] = lines[c - 1 + i]
    BY <1>8, <1>12 DEF SpliceAt, N, c, t
  <2>3. /\ Len(t) = (y - 1) + M + (N - y)
        /\ \A i \in 1 .. N - y : t[y - 1 + M + i] = lines[y + i]
    BY <2>1, <2>2
  <2> QED BY <2>2, <2>3 DEF t
<1> HIDE DEF ins, M, new
<1> QED BY <1>9, <1>10, <1>11, <1>13 DEF Made, ins, M, new

-----------------------------------------------------------------------------
(* The text after an insertion *)

(* The text of the first lines                                             *)
RowsUpTo(s, n) == Body(SubSeq(s, 1, n))

(* Two lines that hold the same text                                       *)
LooksLike(l, k) == l.text = k.text /\ l.ghost = k.ghost

(* Lines that look like k lines of another sequence.                       *)
Continues(t, a, q, k) == \A i \in 1 .. k : LooksLike(t[a + i], q[i])

(* Lines behind others that look like the first lines of a sequence        *)
LEMMA RowsFollow ==
    ASSUME BufferAssumption, NEW t, Proper(t), NEW q, Proper(q),
           NEW a \in Nat, NEW k \in 0 .. Len(q), NEW b, b = a + k, b <= Len(t),
           Continues(t, a, q, k)
    PROVE  /\ Text(RowsUpTo(t, a)) /\ Text(RowsUpTo(q, k))
           /\ RowsUpTo(t, b) = RowsUpTo(t, a) ++ RowsUpTo(q, k)
<1> DEFINE m == a + 1
           u == SubSeq(t, 1, a)
           v == SubSeq(t, m, b)
           w == SubSeq(q, 1, k)
<1>1. Len(t) \in Nat /\ Len(q) \in Nat /\ k \in Nat /\ b \in Nat /\ a \in 0 .. Len(t) /\ b \in 0 .. Len(t)
  BY ProperIs
<1>2. Proper(u) /\ Proper(w) /\ Len(w) = k /\ \A i \in 1 .. k : w[i] = q[i]
  BY <1>1, LinesCut
<1>3. Proper(v) /\ Len(v) = k /\ \A i \in 1 .. k : v[i] = t[a + i]
  <2> HIDE DEF m
  <2>1. m \in Nat \ {0}
    BY DEF m
  <2>2. /\ Proper(v) /\ Len(v) = (IF m <= b THEN b - m + 1 ELSE 0)
        /\ \A i \in 1 .. b - m + 1 : v[i] = t[m + i - 1]
    BY <1>1, <2>1, ProperPart
  <2> HIDE DEF v
  <2>3. (IF m <= b THEN b - m + 1 ELSE 0) = k
    BY <1>1 DEF m
  <2>4. ASSUME NEW i \in 1 .. k PROVE v[i] = t[a + i]
    <3>1. i \in 1 .. b - m + 1 /\ m + i - 1 = a + i
      BY <1>1 DEF m
    <3> QED BY <2>2, <3>1
  <2> QED BY <2>2, <2>3, <2>4
<1>4. SubSeq(t, 1, b) = u ++ v
  <2>1. 1 \in Nat \ {0} /\ b \in Nat /\ a \in 1 - 1 .. b
    BY <1>1
  <2> QED BY ZenonT(30), <2>1, PartsJoined
<1> HIDE DEF u, v, w
<1>5. Body(u ++ v) = Body(u) ++ Body(v)
  BY <1>2, <1>3, BodyJoined
<1>6. Body(w) = Body(v)
  <2>1. Len(v) = Len(w)
    BY <1>2, <1>3
  <2>2. \A i \in 1 .. Len(w) : w[i].text = v[i].text /\ w[i].ghost = v[i].ghost
    BY <1>2, <1>3 DEF LooksLike, Continues
  <2> QED BY <2>1, <2>2, BodyAlike
<1>7. Text(Body(u)) /\ Text(Body(w))
  BY <1>2, RowsAre
<1> QED BY <1>4, <1>5, <1>6, <1>7 DEF u, w, RowsUpTo

(* The lines of an insertion with the new lines made real                  *)
Realises(lines, at, text, made, r) ==
    /\ IsLines(r) /\ Len(r) = Len(made)
    /\ \A i \in 1 .. Len(r) :
          /\ r[i].text = made[i].text /\ r[i].ghost \in BOOLEAN
          /\ r[i].ghost <=> made[i].ghost
                              /\ ~ (at.y <= i /\ i < at.y + LinesNew(lines, at, text))
          /\ made[i].eol \in BOOLEAN => r[i].eol \in BOOLEAN

(* They are the lines above, the new lines and the lines below.            *)
Laid(lines, at, text, r) ==
    LET M == LinesNew(lines, at, text)
        new == NewLinesAt(lines, at, text)
    IN  /\ Proper(r) /\ Len(r) = (at.y - 1) + M + (Len(lines) - at.y)
        /\ \A i \in 1 .. at.y - 1 : LooksLike(r[i], lines[i])
        /\ \A k \in 1 .. M : LooksLike(r[at.y - 1 + k], new[k]) /\ ~ r[at.y - 1 + k].ghost
        /\ \A i \in 1 .. Len(lines) - at.y : LooksLike(r[at.y - 1 + M + i], lines[at.y + i])

(* NewLinesFit for an insertion at a place.                                *)
NewLinesFitAt(lines, at, text) ==
    NewLinesFit(text, HeadOf(lines, at), TailOf(lines, at), Eols(text) + 1,
                NewLinesAt(lines, at, text), EndsAt(text, HeadOf(lines, at), Eols(text) + 1))

(* The new lines of an insertion at a place, as NewLinesAre has them.      *)
LEMMA NewLinesAtFit ==
    ASSUME BufferAssumption, NEW lines, WellSet(lines), NEW at, InText(lines, at),
           NEW text, Text(text)
    PROVE  NewLinesFitAt(lines, at, text)
<1> DEFINE h == HeadOf(lines, at)
           t == TailOf(lines, at)
           n == Eols(text) + 1
           new == NewLinesAt(lines, at, text)
           x == EndsAt(text, h, n)
<1>1. Word(h) /\ Word(t)
  BY LineParts
<1>2. new = AllNew(text, h, t, n)
  BY DEF NewLinesAt
<1>3. n = Eols(text) + 1 /\ x = EndsAt(text, h, n)
  OBVIOUS
<1> HIDE DEF h, t, n, new, x
<1>4. NewLinesFit(text, h, t, n, new, x)
  BY <1>1, <1>2, <1>3, NewLinesAre
<1> QED BY <1>4 DEF NewLinesFitAt, h, t, n, new, x

(* With its new lines made real an insertion leaves the lines above, the   *)
(* new lines and the lines below.                                          *)
LEMMA RealisedAreLaid ==
    ASSUME BufferAssumption, NEW lines, WellSet(lines), NEW at, InText(lines, at),
           NEW text, Text(text), text # <<>>,
           NEW r, Realises(lines, at, text, InternalInsertText(lines, at, text).lines, r)
    PROVE  Laid(lines, at, text, r) /\ LinesNew(lines, at, text) \in Nat \ {0}
           /\ Eols(text) \in Nat /\ LinesNew(lines, at, text) >= Eols(text)
<1> DEFINE ins == InternalInsertText(lines, at, text)
           y == at.y
           N == Len(lines)
           M == LinesNew(lines, at, text)
           new == NewLinesAt(lines, at, text)
           e == Eols(text)
           made == ins.lines
<1>1. Made(lines, at, text, ins)
  BY LinesAreMade
<1>2. /\ y \in 1 .. N /\ N \in Nat \ {0} /\ (lines[y].ghost => HeadOf(lines, at) = <<>>)
      /\ Proper(lines)
  BY LineParts DEF WellSet
<1>3. NewLinesFitAt(lines, at, text)
  BY NewLinesAtFit
<1>4. e \in Nat /\ Len(new) = e + 1 /\ Proper(new) /\ (\A k \in 1 .. e + 1 : new[k] = LineOf(new[k].text))
      /\ (lines[y].ghost /\ Ended(text) => e > 0)
  <2> DEFINE h == HeadOf(lines, at)
             t == TailOf(lines, at)
             n == e + 1
             x == EndsAt(text, h, n)
  <2>1. e \in Nat
    BY EolsJoined
  <2> HIDE DEF h, t, n, new, x
  <2>2. NewLinesFit(text, h, t, n, new, x)
    BY <1>3 DEF NewLinesFitAt, h, t, n, new, x
  <2>3. Len(new) = n /\ Proper(new) /\ \A k \in 1 .. n : new[k] = NewLine(text, h, t, n, k)
    BY <2>2 DEF NewLinesFit
  <2>4. \A k \in 1 .. n : new[k] = LineOf(new[k].text)
    <3> TAKE k \in 1 .. n
    <3> DEFINE w == (IF k = 1 THEN h ELSE <<>>) \o Pieces(text)[k] \o (IF k = n THEN t ELSE <<>>)
    <3>1. new[k] = NewLine(text, h, t, n, k)
      BY <2>3
    <3>2. NewLine(text, h, t, n, k) = LineOf(w)
      BY DEF NewLine, LineOf
    <3> HIDE DEF w
    <3>3. LineOf(w).text = w
      BY DEF LineOf, Line
    <3> QED BY <3>1, <3>2, <3>3
  <2>5. lines[y].ghost /\ Ended(text) => n > 1
    <3>1. h = <<>> => (x = 0 <=> Ended(text)) /\ (x = 0 => n > 1)
      BY <2>2 DEF NewLinesFit
    <3> QED BY <1>2, <3>1 DEF h
  <2>6. n > 1 => e > 0
    <3> HIDE DEF e
    <3> QED BY <2>1 DEF n
  <2> QED BY <2>1, <2>3, <2>4, <2>5, <2>6 DEF n
<1>5. M \in Nat \ {0} /\ M >= e /\ M <= e + 1
  <2>1. M = e + IF lines[y].ghost /\ Ended(text) THEN 0 ELSE 1
    BY DEF LinesNew
  <2> HIDE DEF M, e
  <2>2. CASE lines[y].ghost /\ Ended(text)
    BY <1>4, <2>1, <2>2
  <2>3. CASE ~ (lines[y].ghost /\ Ended(text))
    BY <1>4, <2>1, <2>3
  <2> QED BY <2>2, <2>3
<1>6. /\ Len(made) = (y - 1) + M + (N - y)
      /\ \A i \in 1 .. y - 1 : made[i] = lines[i]
      /\ \A k \in 1 .. M : /\ made[y - 1 + k].text = new[k].text
                           /\ made[y - 1 + k].eol \in BOOLEAN
      /\ \A i \in 1 .. N - y : made[y - 1 + M + i] = lines[y + i]
  BY <1>1 DEF Made
<1>7. /\ IsLines(r) /\ Len(r) = Len(made)
      /\ \A i \in 1 .. Len(r) :
            /\ r[i].text = made[i].text /\ r[i].ghost \in BOOLEAN
            /\ r[i].ghost <=> made[i].ghost /\ ~ (y <= i /\ i < y + M)
            /\ made[i].eol \in BOOLEAN => r[i].eol \in BOOLEAN
  BY DEF Realises
<1> HIDE DEF made, M, new, y, N, e
<1>8. Len(r) = (y - 1) + M + (N - y)
  BY <1>6, <1>7
<1>9. ASSUME NEW i \in 1 .. y - 1 PROVE LooksLike(r[i], lines[i]) /\ IsWordLine(r[i])
  <2>1. i \in 1 .. Len(r) /\ ~ y <= i /\ i \in 1 .. N
    BY <1>2, <1>5, <1>8
  <2>2. IsWordLine(lines[i]) /\ made[i] = lines[i]
    BY <1>2, <1>6, <2>1 DEF Proper, N
  <2>3. LooksLike(r[i], lines[i])
    BY <1>7, <2>1, <2>2 DEF LooksLike, IsWordLine
  <2>4. IsLine(r[i]) /\ r[i].eol \in BOOLEAN /\ r[i].ghost \in BOOLEAN
    BY <1>7, <2>1, <2>2 DEF IsWordLine, IsLines
  <2> QED BY <2>2, <2>3, <2>4 DEF LooksLike, IsWordLine
<1>10. ASSUME NEW k \in 1 .. M
       PROVE LooksLike(r[y - 1 + k], new[k]) /\ ~ r[y - 1 + k].ghost /\ IsWordLine(r[y - 1 + k])
  <2> DEFINE i == y - 1 + k
  <2>1. i \in 1 .. Len(r) /\ y <= i /\ i < y + M /\ k \in 1 .. e + 1
    <3> DEFINE R == Len(r)
    <3>1. /\ y \in 1 .. N /\ N \in Nat /\ M \in Nat /\ e \in Nat /\ M <= e + 1
          /\ R = (y - 1) + M + (N - y)
      BY <1>2, <1>4, <1>5, <1>8
    <3> HIDE DEF R
    <3>2. k \in 1 .. M
      OBVIOUS
    <3> QED BY <3>1, <3>2 DEF R
  <2>2. made[i].text = new[k].text /\ made[i].eol \in BOOLEAN
    BY <1>6
  <2>3. IsWordLine(new[k]) /\ new[k].ghost = FALSE
    <3>1. IsWordLine(new[k])
      BY <1>4, <2>1 DEF Proper
    <3>2. ~ LineOf(new[k].text).ghost
      BY <3>1, LineOfIs DEF IsWordLine
    <3> QED BY <1>4, <2>1, <3>1, <3>2 DEF IsWordLine
  <2> HIDE DEF i
  <2>4. r[i].text = new[k].text /\ r[i].ghost = FALSE /\ r[i].eol \in BOOLEAN
    BY <1>7, <2>1, <2>2
  <2>5. IsLine(r[i])
    BY <1>7, <2>1 DEF IsLines
  <2>6. LooksLike(r[i], new[k]) /\ ~ r[i].ghost /\ IsWordLine(r[i])
    BY <2>3, <2>4, <2>5 DEF LooksLike, IsWordLine
  <2> QED BY <2>6 DEF i
<1>11. ASSUME NEW k \in 1 .. N - y
       PROVE LooksLike(r[y - 1 + M + k], lines[y + k]) /\ IsWordLine(r[y - 1 + M + k])
  <2> DEFINE i == y - 1 + M + k
             j == y + k
  <2>1. i \in 1 .. Len(r) /\ ~ i < y + M /\ j \in 1 .. N
    BY <1>2, <1>5, <1>8
  <2>2. made[i] = lines[j]
    BY <1>6
  <2> HIDE DEF i, j
  <2>3. IsWordLine(lines[j])
    BY <1>2, <2>1 DEF Proper, N
  <2>4. LooksLike(r[i], lines[j])
    BY <1>7, <2>1, <2>2, <2>3 DEF LooksLike, IsWordLine
  <2>5. IsLine(r[i]) /\ r[i].eol \in BOOLEAN /\ r[i].ghost \in BOOLEAN
    BY <1>7, <2>1, <2>2, <2>3 DEF IsWordLine, IsLines
  <2>6. IsWordLine(r[i])
    BY <2>3, <2>4, <2>5 DEF LooksLike, IsWordLine
  <2> QED BY <2>4, <2>6 DEF i, j
<1>12. Proper(r)
  <2>1. ASSUME NEW i \in 1 .. Len(r) PROVE IsWordLine(r[i])
    <3>1. CASE i < y
      <4>1. i \in 1 .. y - 1
        BY <1>2, <1>8, <3>1
      <4> QED BY <1>9, <4>1
    <3>2. CASE y <= i /\ i < y + M
      <4> DEFINE k == i - y + 1
      <4>1. k \in 1 .. M /\ y - 1 + k = i
        BY <1>2, <1>5, <1>8, <3>2
      <4> HIDE DEF k
      <4> QED BY <1>10, <4>1
    <3>3. CASE ~ i < y + M
      <4> DEFINE k == i - (y - 1 + M)
      <4>1. k \in 1 .. N - y /\ y - 1 + M + k = i
        BY <1>2, <1>5, <1>8, <3>3
      <4> HIDE DEF k
      <4> QED BY <1>11, <4>1
    <3>4. Len(r) \in Nat /\ y \in Nat /\ M \in Nat
      BY <1>2, <1>5, <1>8
    <3> QED BY <3>1, <3>2, <3>3, <3>4
  <2> QED BY <1>7, <2>1 DEF Proper, IsLines
<1> QED BY <1>4, <1>5, <1>8, <1>9, <1>10, <1>11, <1>12 DEF Laid, y, M, N, new, e

(* k lines of q follow the first a lines of t, up to line b.               *)
Trails(t, a, q, k, b) ==
    /\ a \in Nat /\ k \in 0 .. Len(q) /\ b = a + k /\ b <= Len(t) /\ Continues(t, a, q, k)

(* The rows up to there are those before and those of the lines of q.      *)
LEMMA RowsTrail ==
    ASSUME BufferAssumption, NEW t, Proper(t), NEW q, Proper(q), NEW a, NEW k, NEW b,
           Trails(t, a, q, k, b)
    PROVE  /\ Text(RowsUpTo(t, a)) /\ Text(RowsUpTo(q, k))
           /\ RowsUpTo(t, b) = RowsUpTo(t, a) ++ RowsUpTo(q, k)
<1>1. /\ a \in Nat /\ k \in 0 .. Len(q) /\ b = a + k /\ b <= Len(t)
      /\ Continues(t, a, q, k)
  BY Zenon DEF Trails
<1> QED BY <1>1, RowsFollow

(* A text that goes into a ghost line and does not end with a line break   *)
(* gets one: the ghost line is a real line then.                           *)
Grows(lines, at, text) == lines[at.y].ghost /\ ~ Ended(text)

(* What an insertion does to the text                                      *)
Inserted(lines, at, text, r) ==
    LET a == Above(lines, at)
        c == Below(lines, at)
        end == EndOf(lines, at, text)
    IN  /\ Proper(r) /\ Len(r) # 0 /\ ~ r[Len(r)].ghost
        /\ Body(r) = (a ++ text) ++ (IF Grows(lines, at, text) THEN Break ++ c ELSE c)
        /\ InText(r, at) /\ Above(r, at) = a /\ ~ r[at.y].ghost
        /\ InText(r, end) /\ Above(r, end) = a ++ text
        /\ r[end.y].ghost => lines[at.y].ghost /\ Ended(text)
        /\ lines[at.y].ghost => at.x = 0

(* The texts of three parts, put together in any way                       *)
LEMMA FourJoined ==
    ASSUME NEW a, NEW b, NEW c, NEW d, Text(a), Text(b), Text(c), Text(d)
    PROVE  /\ (a ++ (b ++ c)) ++ d = (a ++ b) ++ (c ++ d)
           /\ Text(a ++ b) /\ Text(b ++ c) /\ Text(c ++ d)
<1>1. Text(a ++ b) /\ Text(b ++ c) /\ Text(c ++ d)
  BY TextJoined
<1>2. a ++ (b ++ c) = (a ++ b) ++ c
  BY TextInAnyOrder
<1>3. ((a ++ b) ++ c) ++ d = (a ++ b) ++ (c ++ d)
  BY <1>1, TextInAnyOrder
<1> QED BY <1>1, <1>2, <1>3

(* The text of laid out lines                                              *)
LaidRows(lines, at, text, r) ==
    LET M == LinesNew(lines, at, text)
        new == NewLinesAt(lines, at, text)
        y == at.y
    IN  /\ RowsAbove(r, y) = RowsAbove(lines, y)
        /\ RowsAbove(r, y + Eols(text)) = RowsAbove(lines, y) ++ RowsAbove(new, Eols(text) + 1)
        /\ Body(r) = (RowsAbove(lines, y) ++ Body(SubSeq(new, 1, M))) ++ RowsBelow(lines, y)
        /\ Text(RowsAbove(lines, y)) /\ Text(RowsBelow(lines, y))
        /\ Text(Body(SubSeq(new, 1, M))) /\ Text(RowsAbove(new, Eols(text) + 1))

(* The text of laid out lines: that above, that of the new lines, that     *)
(* below.                                                                  *)
LEMMA LaidRowsAre ==
    ASSUME BufferAssumption, NEW lines, Proper(lines), NEW at, at.y \in 1 .. Len(lines), NEW text,
           NEW r, Laid(lines, at, text, r), LinesNew(lines, at, text) \in Nat \ {0},
           Eols(text) \in Nat, LinesNew(lines, at, text) >= Eols(text),
           Proper(NewLinesAt(lines, at, text)), Len(NewLinesAt(lines, at, text)) = Eols(text) + 1,
           LinesNew(lines, at, text) <= Eols(text) + 1
    PROVE  LaidRows(lines, at, text, r)
<1> DEFINE M == LinesNew(lines, at, text)
           new == NewLinesAt(lines, at, text)
           y == at.y
           e == Eols(text)
           N == Len(lines)
           m == y - 1
           l == N - y
           tail == SubSeq(lines, y + 1, N)
<1>1. /\ Proper(r) /\ Len(r) = m + M + l
      /\ \A i \in 1 .. m : LooksLike(r[i], lines[i])
      /\ \A k \in 1 .. M : LooksLike(r[m + k], new[k])
      /\ \A i \in 1 .. l : LooksLike(r[m + M + i], lines[y + i])
  BY DEF Laid
<1>2. y \in 1 .. N /\ N \in Nat /\ M \in Nat \ {0} /\ e \in Nat /\ M >= e /\ M <= e + 1
      /\ Proper(new) /\ Len(new) = e + 1
  BY ProperIs
<1> HIDE DEF M, new, e, N
<1>3. m \in Nat /\ l \in Nat /\ m <= N
  <2>1. y \in 1 .. N /\ N \in Nat
    BY <1>2
  <2> HIDE DEF y
  <2> QED BY <2>1
<1>4. Text(RowsAbove(lines, y)) /\ Text(RowsBelow(lines, y))
  BY <1>2, RowsAround DEF N
<1>5. RowsUpTo(lines, m) = RowsAbove(lines, y) /\ RowsUpTo(r, m) = RowsAbove(r, y)
  BY DEF RowsAbove, RowsUpTo
<1>6. Proper(tail) /\ Len(tail) = l /\ \A i \in 1 .. l : tail[i] = lines[y + i]
  <2>1. y \in 0 .. Len(lines)
    BY <1>2 DEF N
  <2> HIDE DEF y
  <2> QED BY <2>1, LinesCut DEF N
<1> HIDE DEF y, m, l, tail
<1>7. RowsUpTo(r, 0) = <<>>
  <2>1. SubSeq(r, 1, 0) = <<>>
    BY SubSeqEmpty
  <2> QED BY <2>1, ProperNone DEF RowsUpTo
<1>8. RowsUpTo(r, m) = RowsUpTo(lines, m)
  <2> DEFINE z == 0
  <2>1. z \in Nat /\ m \in 0 .. Len(lines) /\ m = z + m /\ m <= Len(r)
    BY <1>1, <1>2, <1>3 DEF N
  <2>2. \A i \in 1 .. m : LooksLike(r[z + i], lines[i])
    <3> TAKE i \in 1 .. m
    <3>1. z + i = i
      BY <1>3
    <3> QED BY <1>1, <3>1
  <2>4. Continues(r, z, lines, m)
    BY <2>2 DEF Continues
  <2> HIDE DEF z
  <2>3. Text(RowsUpTo(r, z)) /\ Text(RowsUpTo(lines, m)) /\ RowsUpTo(r, m) = RowsUpTo(r, z) ++ RowsUpTo(lines, m)
    <3>1. Proper(r) /\ Proper(lines)
      BY <1>1
    <3>2. Trails(r, z, lines, m, m)
      BY <2>1, <2>4 DEF Trails
    <3> QED BY <3>1, <3>2, RowsTrail
  <2> QED BY <1>7, <2>3, TextWithNone DEF z
<1>9. ASSUME NEW k \in 0 .. M, NEW b, b = m + k
      PROVE  Text(RowsUpTo(new, k)) /\ RowsUpTo(r, b) = RowsUpTo(lines, m) ++ RowsUpTo(new, k)
  <2>1. m \in Nat /\ k \in 0 .. Len(new) /\ b <= Len(r)
    BY <1>1, <1>2, <1>3, <1>9
  <2>2. Continues(r, m, new, k)
    BY <1>1, <1>2, <1>9 DEF Continues
  <2>3. Text(RowsUpTo(new, k)) /\ RowsUpTo(r, b) = RowsUpTo(r, m) ++ RowsUpTo(new, k)
    <3>1. Proper(r) /\ Proper(new)
      BY <1>1, <1>2
    <3>2. b = m + k
      BY <1>9
    <3>3. Trails(r, m, new, k, b)
      BY <2>1, <2>2, <3>2 DEF Trails
    <3> QED BY <3>1, <3>3, RowsTrail
  <2> QED BY <1>8, <2>3
<1>10. Text(RowsAbove(new, e + 1)) /\ RowsAbove(r, y + e) = RowsAbove(lines, y) ++ RowsAbove(new, e + 1)
  <2> DEFINE b == (y + e) - 1
             k == (e + 1) - 1
  <2>1. k \in 0 .. M /\ b = m + k
    BY <1>2 DEF m
  <2> HIDE DEF b, k
  <2>2. Text(RowsUpTo(new, k)) /\ RowsUpTo(r, b) = RowsUpTo(lines, m) ++ RowsUpTo(new, k)
    BY <1>9, <2>1
  <2>3. RowsAbove(new, e + 1) = RowsUpTo(new, k) /\ RowsAbove(r, y + e) = RowsUpTo(r, b)
    <3>1. RowsAbove(new, e + 1) = Body(SubSeq(new, 1, k))
      BY Zenon DEF RowsAbove, k
    <3>2. RowsAbove(r, y + e) = Body(SubSeq(r, 1, b))
      BY Zenon DEF RowsAbove, b
    <3> QED BY <3>1, <3>2 DEF RowsUpTo
  <2> QED BY <1>5, <2>2, <2>3 DEF y
<1>11. Text(RowsUpTo(new, M)) /\ Body(r) = (RowsAbove(lines, y) ++ RowsUpTo(new, M)) ++ RowsBelow(lines, y)
  <2> DEFINE a == m + M
             b == Len(r)
  <2>1. a \in Nat /\ l \in 0 .. Len(tail) /\ b = a + l /\ b <= Len(r) /\ M \in 0 .. M
    <3>1. M \in Nat /\ m \in Nat /\ l \in Nat /\ Len(tail) = l /\ Len(r) = m + M + l
      BY <1>1, <1>2, <1>3, <1>6
    <3> DEFINE K == Len(tail)
    <3>2. K = l /\ b = m + M + l /\ b = Len(r)
      BY <3>1
    <3> HIDE DEF K, b
    <3> QED BY SMTT(20), <3>1, <3>2
  <2>2. Continues(r, a, tail, l)
    BY <1>1, <1>6 DEF Continues
  <2> HIDE DEF a, b
  <2>3. Text(RowsUpTo(new, M)) /\ RowsUpTo(r, a) = RowsUpTo(lines, m) ++ RowsUpTo(new, M)
    BY <1>9, <2>1 DEF a
  <2>4. RowsUpTo(r, b) = RowsUpTo(r, a) ++ RowsUpTo(tail, l)
    <3>1. Proper(r) /\ Proper(tail)
      BY <1>1, <1>6
    <3>2. Trails(r, a, tail, l, b)
      BY <2>1, <2>2 DEF Trails
    <3> QED BY <3>1, <3>2, RowsTrail
  <2>5. RowsUpTo(r, b) = Body(r) /\ RowsUpTo(tail, l) = Body(tail)
    <3>1. \A s : Proper(s) => SubSeq(s, 1, Len(s)) = s
      <4> SUFFICES ASSUME NEW s, Proper(s) PROVE SubSeq(s, 1, Len(s)) = s
        OBVIOUS
      <4> QED BY SubSeqFull DEF Proper, IsSeq
    <3> QED BY <1>1, <1>6, <3>1 DEF b, RowsUpTo
  <2>6. Body(tail) = RowsBelow(lines, y)
    BY DEF RowsBelow, tail, N
  <2> QED BY <1>5, <2>3, <2>4, <2>5, <2>6
<1> QED BY <1>4, <1>5, <1>8, <1>10, <1>11 DEF LaidRows, RowsUpTo, y, M, new, e

(* An insertion puts its text at its place and changes no other text; only *)
(* one that goes into a ghost line and does not end with a line break adds *)
(* one.                                                                    *)
LEMMA InsertedIs ==
    ASSUME BufferAssumption, NEW lines, WellSet(lines), NEW at, InText(lines, at),
           NEW text, Text(text), text # <<>>,
           NEW r, Realises(lines, at, text, InternalInsertText(lines, at, text).lines, r)
    PROVE  Inserted(lines, at, text, r)
<1> DEFINE y == at.y
           N == Len(lines)
           M == LinesNew(lines, at, text)
           new == NewLinesAt(lines, at, text)
           e == Eols(text)
           n == e + 1
           h == HeadOf(lines, at)
           t == TailOf(lines, at)
           x == EndsAt(text, h, n)
           end == EndOf(lines, at, text)
           a == RowsAbove(lines, y)
           c == RowsBelow(lines, y)
           grows == Grows(lines, at, text)
           ghost == lines[y].ghost
           q == SubSeq(new[n].text, 1, x)
           v == RowsAbove(new, n)
<1>1. /\ Laid(lines, at, text, r) /\ M \in Nat \ {0} /\ e \in Nat /\ M >= e
  BY RealisedAreLaid
<1>2. /\ y \in 1 .. N /\ at.x \in Nat /\ N \in Nat \ {0}
      /\ Word(h) /\ Len(h) = at.x /\ Word(t) /\ Text(h) /\ Text(t)
      /\ lines[y].text = h ++ t
      /\ ghost => at.x = 0 /\ h = <<>> /\ t = <<>> /\ y < N
      /\ Proper(lines) /\ (y = N => ~ ghost)
  BY LineParts DEF WellSet
<1>3. /\ Proper(new) /\ Len(new) = n /\ Body(new) = (h ++ text) ++ (t ++ Break)
      /\ Len(h) <= Len(new[1].text) /\ SubSeq(new[1].text, 1, Len(h)) = h
      /\ x \in Nat /\ Len(new[n].text) = x + Len(t) /\ Text(v) /\ v ++ q = h ++ text
      /\ h = <<>> => (x = 0 <=> Ended(text)) /\ (x = 0 => n > 1)
  <2>1. NewLinesFitAt(lines, at, text)
    BY NewLinesAtFit
  <2> HIDE DEF new, n, x, h, t
  <2>2. NewLinesFit(text, h, t, n, new, x)
    BY <2>1 DEF NewLinesFitAt, new, n, x, h, t, e
  <2> QED BY <2>2 DEF NewLinesFit
<1>4. M = IF ghost /\ Ended(text) THEN e ELSE n
  <2>1. M = e + IF ghost /\ Ended(text) THEN 0 ELSE 1
    BY DEF LinesNew
  <2> HIDE DEF M, e, ghost
  <2>2. CASE ghost /\ Ended(text)
    BY <1>1, <2>1, <2>2
  <2>3. CASE ~ (ghost /\ Ended(text))
    BY <1>1, <2>1, <2>3
  <2> QED BY <2>2, <2>3
<1>5. LaidRows(lines, at, text, r)
  <2>1. M <= e + 1
    <3> HIDE DEF M, e, ghost
    <3> QED BY <1>1, <1>4
  <2> QED BY <1>1, <1>2, <1>3, <2>1, LaidRowsAre
<1>6. /\ RowsAbove(r, y) = a
      /\ RowsAbove(r, y + e) = a ++ v
      /\ Body(r) = (a ++ Body(SubSeq(new, 1, M))) ++ c
      /\ Text(a) /\ Text(c)
  BY <1>5 DEF LaidRows
<1>7. /\ Proper(r) /\ Len(r) = (y - 1) + M + (N - y)
      /\ \A k \in 1 .. M : LooksLike(r[y - 1 + k], new[k]) /\ ~ r[y - 1 + k].ghost
      /\ \A i \in 1 .. N - y : LooksLike(r[y - 1 + M + i], lines[y + i])
      /\ DOMAIN r = 1 .. Len(r)
  BY <1>1, ProperIs DEF Laid
<1>8. /\ Above(lines, at) = a ++ h
      /\ Below(lines, at) = (IF ghost THEN <<>> ELSE t ++ Break) ++ c
  BY DEF Above, Below, Rest, HeadOf, TailOf
<1>9. grows <=> ghost /\ ~ Ended(text)
  BY DEF Grows
<1>10. end.y = y + e /\ end.x = x
  BY DEF EndOf, Point
<1>11. ~ lines[N].ghost
  BY DEF WellSet
<1>12. Text(Break) /\ Text(<<>>) /\ Text(q)
  <2>1. n \in 1 .. Len(new) /\ x <= Len(new[n].text)
    <3>1. Len(t) \in Nat
      BY <1>2, TextLen
    <3> HIDE DEF new, x, t, e
    <3> QED BY <1>1, <1>3, <3>1
  <2> HIDE DEF new, x, n
  <2>2. Text(new[n].text)
    BY <1>3, <2>1, RowIs DEF Proper
  <2>3. Text(SubSeq(new[n].text, 1, x))
    <3>1. x \in 0 .. Len(new[n].text)
      BY <1>3, <2>1, <2>2, TextLen
    <3> QED BY <2>2, <3>1, TextCut
  <2> QED BY <2>3, BreakIs, TextWithNone
<1> HIDE DEF y, N, M, new, e, n, h, t, x, a, c, ghost, v, q
<1>13. Body(r) = (Above(lines, at) ++ text) ++ (IF grows THEN Break ++ Below(lines, at) ELSE Below(lines, at))
  <2>1. Body(SubSeq(new, 1, M)) = IF ghost /\ Ended(text) THEN text ELSE (h ++ text) ++ (t ++ Break)
    <3>1. CASE ghost /\ Ended(text)
      <4>1. x = 0 /\ h = <<>> /\ M = e
        BY <1>2, <1>3, <1>4, <3>1
      <4>2. q = <<>>
        BY <4>1, SubSeqEmpty DEF q
      <4>3. v = text
        BY <1>3, <4>1, <4>2, TextWithNone
      <4>4. SubSeq(new, 1, M) = SubSeq(new, 1, n - 1)
        BY <1>1, <4>1 DEF n
      <4> QED BY <3>1, <4>3, <4>4 DEF v, RowsAbove
    <3>2. CASE ~ (ghost /\ Ended(text))
      <4>1. M = Len(new)
        BY <1>3, <1>4, <3>2
      <4>2. SubSeq(new, 1, M) = new
        BY <1>3, <4>1, SubSeqFull DEF Proper, IsSeq
      <4> QED BY <1>3, <3>2, <4>2
    <3> QED BY <3>1, <3>2
  <2>2. CASE ~ ghost
    <3> DEFINE u == t ++ Break
    <3>1. Text(u) /\ Text(a ++ h) /\ Text(h ++ text) /\ Text(text ++ u)
      BY <1>2, <1>6, <1>12, TextJoined
    <3>2. (h ++ text) ++ u = h ++ (text ++ u)
      BY <1>2, <1>12, <3>1, TextInAnyOrder
    <3>3. a ++ (h ++ (text ++ u)) = (a ++ h) ++ (text ++ u)
      BY <1>2, <1>6, <3>1, TextInAnyOrder
    <3>4. ((a ++ h) ++ (text ++ u)) ++ c = ((a ++ h) ++ text) ++ (u ++ c)
      BY <1>2, <1>6, <3>1, FourJoined
    <3> QED BY <1>6, <1>8, <1>9, <2>1, <2>2, <3>2, <3>3, <3>4
  <2>3. CASE ghost
    <3>1. a ++ h = a /\ <<>> ++ c = c /\ Above(lines, at) = a /\ Below(lines, at) = c
      BY <1>2, <1>6, <1>8, <2>3, TextWithNone
    <3>2. CASE Ended(text)
      <4>1. (a ++ text) ++ c = (a ++ text) ++ c
        OBVIOUS
      <4> QED BY <1>6, <1>9, <2>1, <2>3, <3>1, <3>2
    <3>3. CASE ~ Ended(text)
      <4>1. (h ++ text) ++ (t ++ Break) = text ++ Break
        BY <1>2, <1>12, <2>3, TextWithNone
      <4>2. (a ++ (text ++ Break)) ++ c = (a ++ text) ++ (Break ++ c)
        BY <1>6, <1>12, FourJoined
      <4> QED BY <1>6, <1>9, <2>1, <2>3, <3>1, <3>3, <4>1, <4>2
    <3> QED BY <3>2, <3>3
  <2> QED BY <2>2, <2>3
<1>14. InText(r, at) /\ Above(r, at) = Above(lines, at) /\ ~ r[y].ghost
  <2>1. 1 \in 1 .. M /\ y - 1 + 1 = y /\ y \in 1 .. Len(r)
    BY <1>1, <1>2, <1>7
  <2>2. r[y].text = new[1].text /\ ~ r[y].ghost
    <3>1. LooksLike(r[y], new[1]) /\ ~ r[y].ghost
      BY <1>7, <2>1
    <3> QED BY <3>1 DEF LooksLike
  <2>3. at.x = Len(h) /\ at.x <= Len(r[y].text) /\ SubSeq(r[y].text, 1, at.x) = h
    BY <1>2, <1>3, <2>2
  <2>4. Len(r[y].text) \in Nat
    BY <1>7, <2>1, RowIs, TextLen DEF Proper
  <2>5. at.x \in 0 .. Len(r[y].text)
    BY <1>2, <2>3, <2>4
  <2> QED BY <1>6, <1>7, <1>8, <2>1, <2>2, <2>3, <2>5 DEF InText, Above, y
<1>15. ASSUME NEW z, z = y + e
       PROVE  /\ z \in 1 .. Len(r) /\ x \in 0 .. Len(r[z].text) /\ SubSeq(r[z].text, 1, x) = q
              /\ r[z].ghost => ghost /\ Ended(text)
  <2>1. CASE ~ (ghost /\ Ended(text))
    <3>1. n \in 1 .. M /\ y - 1 + n = z /\ z \in 1 .. Len(r)
      BY <1>1, <1>2, <1>4, <1>7, <1>15, <2>1 DEF n
    <3>2. LooksLike(r[y - 1 + n], new[n]) /\ ~ r[y - 1 + n].ghost
      BY <1>7, <3>1
    <3>3. r[z].text = new[n].text /\ ~ r[z].ghost
      BY <3>1, <3>2 DEF LooksLike
    <3>4. x \in 0 .. Len(r[z].text)
      <4>1. Len(t) \in Nat
        BY <1>2, TextLen
      <4> QED BY <1>3, <3>3, <4>1
    <3> QED BY <3>1, <3>3, <3>4 DEF q
  <2>2. CASE ghost /\ Ended(text)
    <3>1. 1 \in 1 .. N - y /\ y - 1 + M + 1 = z /\ z \in 1 .. Len(r)
      BY <1>1, <1>2, <1>4, <1>7, <1>15, <2>2
    <3>2. x = 0
      BY <1>2, <1>3, <2>2
    <3>3. Len(r[z].text) \in Nat
      BY <1>7, <3>1, RowIs, TextLen DEF Proper
    <3>4. SubSeq(r[z].text, 1, x) = <<>> /\ q = <<>>
      BY <3>2, SubSeqEmpty DEF q
    <3> QED BY <2>2, <3>1, <3>2, <3>3, <3>4
  <2> QED BY <2>1, <2>2
<1>16. /\ InText(r, end) /\ Above(r, end) = Above(lines, at) ++ text
       /\ r[end.y].ghost => ghost /\ Ended(text)
  <2> DEFINE z == y + e
  <2>1. /\ z \in 1 .. Len(r) /\ x \in 0 .. Len(r[z].text) /\ SubSeq(r[z].text, 1, x) = q
        /\ r[z].ghost => ghost /\ Ended(text)
    BY <1>15
  <2>2. RowsAbove(r, z) = a ++ v
    BY <1>6
  <2> HIDE DEF z, end
  <2>3. end.y = z /\ end.x = x
    BY <1>10 DEF z
  <2>4. Above(r, end) = (a ++ v) ++ q
    BY <2>1, <2>2, <2>3 DEF Above
  <2>5. (a ++ v) ++ q = a ++ (v ++ q) /\ a ++ (h ++ text) = (a ++ h) ++ text
    BY <1>2, <1>3, <1>6, <1>12, TextInAnyOrder
  <2> QED BY <1>3, <1>7, <1>8, <2>1, <2>3, <2>4, <2>5 DEF InText
<1>17. Len(r) # 0 /\ ~ r[Len(r)].ghost
  <2>0. Len(r) # 0
    BY <1>1, <1>2, <1>7
  <2>1. CASE y < N
    <3> DEFINE i == N - y
    <3>1. i \in 1 .. N - y /\ y - 1 + M + i = Len(r) /\ y + i = N
      BY <1>1, <1>2, <1>7, <2>1
    <3> HIDE DEF i
    <3>2. LooksLike(r[Len(r)], lines[N])
      BY <1>7, <3>1
    <3> QED BY <1>11, <2>0, <3>2 DEF LooksLike
  <2>2. CASE ~ y < N
    <3>1. M \in 1 .. M /\ y - 1 + M = Len(r)
      BY <1>1, <1>2, <1>7, <2>2
    <3> QED BY <1>7, <2>0, <3>1
  <2> QED BY <2>1, <2>2
<1> QED BY <1>2, <1>7, <1>9, <1>13, <1>14, <1>16, <1>17 DEF Inserted, y, ghost

-----------------------------------------------------------------------------
(* InsertText, and the insertion that undoes a deletion *)

(* Line breaks made anew leave texts and ghost flags.                      *)
LEMMA RecomputedAlike ==
    ASSUME NEW lines, IsLines(lines), NEW blocks, NEW start, NEW end
    PROVE  LET new == RecomputeEOL(lines, blocks, start, end)
           IN  /\ IsLines(new) /\ Len(new) = Len(lines)
               /\ \A i \in 1 .. Len(lines) :
                      /\ new[i].text = lines[i].text /\ new[i].ghost = lines[i].ghost
                      /\ lines[i].eol \in BOOLEAN => new[i].eol \in BOOLEAN
<1> DEFINE new == RecomputeEOL(lines, blocks, start, end)
           e(i) == ~ lines[i].ghost /\ i # ApparentLastRealLine(blocks)
<1>1. IsLines(new) /\ Len(new) = Len(lines)
  BY RecomputeEOLIs
<1>2. DOMAIN lines = 1 .. Len(lines)
  BY SeqIs DEF IsLines
<1>3. ASSUME NEW i \in 1 .. Len(lines)
      PROVE  /\ new[i].text = lines[i].text /\ new[i].ghost = lines[i].ghost
             /\ lines[i].eol \in BOOLEAN => new[i].eol \in BOOLEAN
  <2>1. e(i) \in BOOLEAN
    OBVIOUS
  <2>2. new[i] = IF i \in FirstForEOL(lines, blocks, start, end) .. end
                 THEN [lines[i] EXCEPT !.eol = e(i)] ELSE lines[i]
    BY <1>2 DEF RecomputeEOL
  <2>3. DOMAIN lines[i] = {"text", "eol", "ghost"}
    BY DEF IsLines, IsLine
  <2> HIDE DEF e, new
  <2>4. /\ [lines[i] EXCEPT !.eol = e(i)].text = lines[i].text
        /\ [lines[i] EXCEPT !.eol = e(i)].ghost = lines[i].ghost
        /\ [lines[i] EXCEPT !.eol = e(i)].eol = e(i)
    BY <2>3
  <2> QED BY <2>1, <2>2, <2>4
<1> QED BY <1>1, <1>3

(* Ghost flags set leave texts and line breaks.                            *)
LEMMA SetGhostsAlike ==
    ASSUME NEW lines, IsLines(lines), NEW ghosts
    PROVE  LET new == SetGhosts(lines, ghosts)
           IN  /\ IsLines(new) /\ Len(new) = Len(lines)
               /\ \A i \in 1 .. Len(lines) :
                      /\ new[i].text = lines[i].text /\ new[i].eol = lines[i].eol
                      /\ new[i].ghost = (i \in ghosts)
<1> DEFINE new == SetGhosts(lines, ghosts)
<1>1. IsLines(new) /\ Len(new) = Len(lines) /\ \A i \in 1 .. Len(lines) : new[i].ghost = (i \in ghosts)
  BY SetGhostsIs
<1>2. DOMAIN lines = 1 .. Len(lines)
  BY SeqIs DEF IsLines
<1>3. ASSUME NEW i \in 1 .. Len(lines)
      PROVE  new[i].text = lines[i].text /\ new[i].eol = lines[i].eol
  <2>1. new[i] = [lines[i] EXCEPT !.ghost = i \in ghosts]
    BY <1>2 DEF SetGhosts
  <2>2. DOMAIN lines[i] = {"text", "eol", "ghost"}
    BY DEF IsLines, IsLine
  <2> HIDE DEF new
  <2> QED BY <2>1, <2>2
<1> QED BY <1>1, <1>3

(* The new lines are made real, then the line breaks are made anew.        *)
LEMMA RealisesIs ==
    ASSUME BufferAssumption, NEW lines, NEW at, NEW text, NEW made, IsLines(made), NEW ghosts,
           \A i \in 1 .. Len(made) :
               i \in ghosts <=> made[i].ghost
                                  /\ ~ (at.y <= i /\ i < at.y + LinesNew(lines, at, text)),
           NEW blocks, NEW start, NEW end
    PROVE  Realises(lines, at, text, made, RecomputeEOL(SetGhosts(made, ghosts), blocks, start, end))
<1> DEFINE t == SetGhosts(made, ghosts)
           r == RecomputeEOL(t, blocks, start, end)
<1>1. /\ IsLines(t) /\ Len(t) = Len(made)
      /\ \A i \in 1 .. Len(made) :
            /\ t[i].text = made[i].text /\ t[i].eol = made[i].eol
            /\ t[i].ghost = (i \in ghosts)
  BY SetGhostsAlike
<1> HIDE DEF t
<1>2. /\ IsLines(r) /\ Len(r) = Len(t)
      /\ \A i \in 1 .. Len(t) :
            /\ r[i].text = t[i].text /\ r[i].ghost = t[i].ghost
            /\ t[i].eol \in BOOLEAN => r[i].eol \in BOOLEAN
  BY <1>1, RecomputedAlike
<1> HIDE DEF r
<1>3. ASSUME NEW i \in 1 .. Len(r)
      PROVE  /\ r[i].text = made[i].text /\ r[i].ghost \in BOOLEAN
             /\ r[i].ghost <=> made[i].ghost
                                 /\ ~ (at.y <= i /\ i < at.y + LinesNew(lines, at, text))
             /\ made[i].eol \in BOOLEAN => r[i].eol \in BOOLEAN
  <2>1. i \in 1 .. Len(t) /\ i \in 1 .. Len(made)
    BY <1>1, <1>2
  <2>2. r[i].text = made[i].text /\ r[i].ghost = (i \in ghosts)
        /\ (made[i].eol \in BOOLEAN => r[i].eol \in BOOLEAN)
    BY <1>1, <1>2, <2>1
  <2>3. i \in ghosts <=> made[i].ghost
                           /\ ~ (at.y <= i /\ i < at.y + LinesNew(lines, at, text))
    BY <2>1
  <2>4. r[i].ghost \in BOOLEAN
    BY <2>2
  <2>5. r[i].ghost <=> i \in ghosts
    BY <2>2
  <2> QED BY <2>2, <2>3, <2>4, <2>5
<1>4. Realises(lines, at, text, made, r)
  BY <1>1, <1>2, <1>3 DEF Realises
<1> QED BY <1>4 DEF r, t

(* What is known of an insertion in a buffer                               *)
InsertsText(b, at, text, m) ==
    /\ WellBuf(m.buf) /\ Inserted(b.lines, at, text, m.buf.lines)
    /\ m.end = EndOf(b.lines, at, text)
    /\ m.nReal = Eols(text) + IF Grows(b.lines, at, text) THEN 1 ELSE 0

(* CGhostTextBuffer::InsertText puts the text at its place and counts the  *)
(* real lines that it adds.                                                *)
LEMMA InsertTextJoins ==
    ASSUME BufferAssumption, NEW b, WellBuf(b), NEW at, InText(b.lines, at),
           NEW text, Text(text), text # <<>>
    PROVE  InsertsText(b, at, text, InsertText(b, at, text))
<1> DEFINE lines == b.lines
           ins == InternalInsertText(lines, at, text)
           y == at.y
           N == Len(lines)
           M == LinesNew(lines, at, text)
           e == Eols(text)
           n == e + 1
           h == HeadOf(lines, at)
           x == EndsAt(text, h, n)
           m == InsertText(b, at, text)
           first == ins.lines[y].ghost
           ghost == lines[y].ghost
           discrepancy == first /\ ins.end.x = 0
           becomeReal == y .. (IF discrepancy THEN ins.end.y - 1 ELSE ins.end.y)
           ghosts == GhostsOf(ins.lines) \ becomeReal
           marked == SetGhosts(ins.lines, ghosts)
           blocks == IF MovesLines(at, ins.end, first) THEN BlocksOf(marked) ELSE b.blocks
           r == RecomputeEOL(marked, blocks, y, ins.end.y)
<1>1. IsBuf(b) /\ WellSet(lines)
  BY DEF WellBuf
<1>2. m = [buf |-> [lines |-> r, blocks |-> blocks], end |-> ins.end,
           nReal |-> ins.end.y - y + IF first /\ ins.end.x > 0 THEN 1 ELSE 0]
  BY DEF InsertText, MarkInserted
<1>3. /\ y \in 1 .. N /\ at.x \in Nat /\ N \in Nat \ {0} /\ (ghost => h = <<>>) /\ IsWordLine(lines[y])
  BY <1>1, LineParts DEF WellSet, Proper
<1>4. Made(lines, at, text, ins)
  BY <1>1, LinesAreMade
<1>5. x \in Nat /\ e \in Nat /\ (h = <<>> => (x = 0 <=> Ended(text)))
  <2>1. NewLinesFitAt(lines, at, text)
    BY <1>1, NewLinesAtFit
  <2> HIDE DEF x, h
  <2>2. x \in Nat /\ (h = <<>> => (x = 0 <=> Ended(text)))
    BY <2>1 DEF NewLinesFitAt, NewLinesFit, x, h
  <2> QED BY <2>2, EolsJoined
<1>6. M = (IF ghost /\ Ended(text) THEN e ELSE n) /\ M \in Nat \ {0}
  <2>1. M = e + IF ghost /\ Ended(text) THEN 0 ELSE 1
    BY DEF LinesNew
  <2>0. M \in Nat \ {0}
    <3>1. IsLines(ins.lines)
      BY <1>4 DEF Made
    <3>2. \A i \in 1 .. Len(ins.lines) :
              i \in {j \in 1 .. Len(ins.lines) : /\ ins.lines[j].ghost
                                       /\ ~ (y <= j /\ j < y + M)}
                 <=> ins.lines[i].ghost /\ ~ (y <= i /\ i < y + M)
      OBVIOUS
    <3> HIDE DEF M
    <3>3. \E q : Realises(lines, at, text, ins.lines, q)
      BY <3>1, <3>2, RealisesIs DEF M
    <3> QED BY <1>1, <3>3, RealisedAreLaid DEF M
  <2> HIDE DEF M, e, ghost
  <2>2. CASE ghost /\ Ended(text)
    BY <1>5, <2>0, <2>1, <2>2
  <2>3. CASE ~ (ghost /\ Ended(text))
    BY <1>5, <2>0, <2>1, <2>3
  <2> QED BY <2>2, <2>3
<1>7. ins.end = EndOf(lines, at, text) /\ ins.end.y = y + e /\ ins.end.x = x /\ IsLines(ins.lines)
      /\ first = ghost /\ Len(ins.lines) \in Nat
  <2>1. ins.end = EndOf(lines, at, text) /\ IsLines(ins.lines)
    BY <1>4 DEF Made
  <2>2. EndOf(lines, at, text).y = y + e /\ EndOf(lines, at, text).x = x
    BY DEF EndOf, Point
  <2>3. 1 \in 1 .. M /\ y - 1 + 1 = y
    BY <1>3, <1>6
  <2>4. ins.lines[y - 1 + 1].ghost = (1 = 1 /\ ghost)
    BY <1>4, <2>3 DEF Made
  <2>5. ghost \in BOOLEAN
    BY <1>3 DEF IsWordLine
  <2>6. Len(ins.lines) \in Nat
    BY <2>1, SeqIs DEF IsLines
  <2> HIDE DEF ins, ghost, y, M
  <2> QED BY <2>1, <2>2, <2>3, <2>4, <2>5, <2>6
<1> HIDE DEF ins
<1>8. \A i \in 1 .. Len(ins.lines) :
          i \in ghosts <=> ins.lines[i].ghost /\ ~ (y <= i /\ i < y + M)
  <2>1. \A i \in Int : i \in becomeReal <=> y <= i /\ i < y + M
    <3>1. discrepancy <=> ghost /\ Ended(text)
      BY <1>3, <1>5, <1>7
    <3> HIDE DEF discrepancy, y, M, e, ghost, first
    <3>2. CASE ghost /\ Ended(text)
      BY <1>3, <1>5, <1>6, <1>7, <3>1, <3>2
    <3>3. CASE ~ (ghost /\ Ended(text))
      BY <1>3, <1>5, <1>6, <1>7, <3>1, <3>3
    <3> QED BY <3>2, <3>3
  <2>2. DOMAIN ins.lines = 1 .. Len(ins.lines)
    BY <1>7, SeqIs DEF IsLines
  <2> HIDE DEF becomeReal, M, y
  <2> QED BY <1>7, <2>1, <2>2 DEF GhostsOf
<1> HIDE DEF ghosts, blocks
<1>9. Realises(lines, at, text, ins.lines, r)
  BY <1>7, <1>8, RealisesIs
<1>10. Inserted(lines, at, text, r)
  BY <1>1, <1>9, InsertedIs DEF ins
<1>11. m.buf.lines = r /\ m.end = ins.end
       /\ m.nReal = ins.end.y - y + IF first /\ ins.end.x > 0 THEN 1 ELSE 0
  <2> HIDE DEF m, r, first, y
  <2> QED BY <1>2
<1>12. WellBuf(m.buf)
  <2>1. IsBuf(m.buf)
    <3>1. IsSeq(text) /\ at.x \in Int
      BY <1>3, TextLen
    <3> HIDE DEF m
    <3> QED BY <1>1, <1>3, <3>1, InsertTextIs DEF m
  <2>2. HasBreaks(r)
    BY <1>11, <2>1 DEF IsBuf
  <2>3. Proper(r) /\ Len(r) # 0 /\ ~ r[Len(r)].ghost
    BY <1>10 DEF Inserted
  <2> HIDE DEF m, r
  <2> QED BY <1>11, <2>1, <2>2, <2>3 DEF WellBuf, WellSet
<1>13. m.nReal = e + IF Grows(lines, at, text) THEN 1 ELSE 0
  <2>1. Grows(lines, at, text) <=> ghost /\ ~ Ended(text)
    BY DEF Grows
  <2>2. first /\ ins.end.x > 0 <=> Grows(lines, at, text)
    BY <1>3, <1>5, <1>7, <2>1
  <2> HIDE DEF m, first, e, y
  <2>3. ins.end.y - y = e
    BY <1>3, <1>5, <1>7
  <2> QED BY <1>11, <2>2, <2>3
<1> QED BY <1>7, <1>10, <1>11, <1>12, <1>13 DEF InsertsText

-----------------------------------------------------------------------------
(* What a deletion leaves *)

(* Lines t are lines with those from start to end made one.                *)
Shut(lines, start, end, g, t) ==
    /\ IsLines(t) /\ Len(t) = Len(lines) - (end.y - start.y)
    /\ \A i \in 1 .. start.y - 1 : LooksLike(t[i], lines[i])
    /\ t[start.y].text = HeadOf(lines, start) ++ TailOf(lines, end) /\ t[start.y].ghost = g
    /\ \A i \in 1 .. Len(lines) - end.y : LooksLike(t[start.y + i], lines[end.y + i])
    /\ \A i \in 1 .. Len(t) : t[i].eol \in BOOLEAN

(* One line is marked and the line breaks are made anew.                   *)
Marking(rest, y, g, blocks, first, last) ==
    RecomputeEOL([rest EXCEPT ![y] = [rest[y] EXCEPT !.ghost = g]], blocks, first, last)

(* Marking a line as ghost or real changes no text and no other line.      *)
LEMMA GhostSetAlike ==
    ASSUME NEW rest, IsLines(rest), NEW y \in 1 .. Len(rest), NEW g,
           NEW blocks, NEW first, NEW last
    PROVE  LET t == Marking(rest, y, g, blocks, first, last)
           IN  /\ IsLines(t) /\ Len(t) = Len(rest)
               /\ \A i \in 1 .. Len(rest) :
                     /\ t[i].text = rest[i].text
                     /\ t[i].ghost = IF i = y THEN g ELSE rest[i].ghost
                     /\ rest[i].eol \in BOOLEAN => t[i].eol \in BOOLEAN
<1> DEFINE k == [rest[y] EXCEPT !.ghost = g]
           made == [rest EXCEPT ![y] = k]
           t == RecomputeEOL(made, blocks, first, last)
<1>1. IsLine(k) /\ k.ghost = g /\ k.text = rest[y].text /\ k.eol = rest[y].eol
  <2>1. DOMAIN rest[y] = {"text", "eol", "ghost"} /\ IsLine(rest[y])
    BY DEF IsLines, IsLine
  <2>2. IsLine(k) /\ k.ghost = g
    BY <2>1, LineWith
  <2> QED BY <2>1, <2>2
<1> HIDE DEF k
<1>2. /\ IsLines(made) /\ Len(made) = Len(rest)
      /\ \A i \in 1 .. Len(rest) : made[i] = IF i = y THEN k ELSE rest[i]
  BY <1>1, LinesExcept
<1> HIDE DEF made
<1>3. /\ IsLines(t) /\ Len(t) = Len(made)
      /\ \A i \in 1 .. Len(made) :
             /\ t[i].text = made[i].text /\ t[i].ghost = made[i].ghost
             /\ made[i].eol \in BOOLEAN => t[i].eol \in BOOLEAN
  BY <1>2, RecomputedAlike
<1> HIDE DEF t
<1>4. ASSUME NEW i \in 1 .. Len(rest)
      PROVE  /\ t[i].text = rest[i].text /\ t[i].ghost = IF i = y THEN g ELSE rest[i].ghost
             /\ rest[i].eol \in BOOLEAN => t[i].eol \in BOOLEAN
  BY <1>1, <1>2, <1>3
<1>5. Marking(rest, y, g, blocks, first, last) = t
  BY DEF Marking, t, made, k
<1> QED BY <1>2, <1>3, <1>4, <1>5

(* Deleting from one place to another makes one line of the lines between. *)
LEMMA ShutIs ==
    ASSUME BufferAssumption, NEW lines, WellSet(lines), NEW start, InText(lines, start),
           NEW end, InText(lines, end), start.y <= end.y, NEW g \in BOOLEAN,
           NEW rest, rest = InternalDeleteText(lines, start, end),
           NEW new, new = [rest EXCEPT ![start.y] = [rest[start.y] EXCEPT !.ghost = g]],
           NEW blocks, NEW first, NEW last
    PROVE  Shut(lines, start, end, g, RecomputeEOL(new, blocks, first, last))
<1> DEFINE y == start.y
           z == end.y
           N == Len(lines)
           head == HeadOf(lines, start)
           tail == TailOf(lines, end)
           l == Line(head \o tail, lines[z].eol, lines[y].ghost)
           t == RecomputeEOL(new, blocks, first, last)
<1>1. /\ y \in 1 .. N /\ z \in 1 .. N /\ N \in Nat \ {0} /\ y <= z
      /\ Word(head) /\ Word(tail) /\ Proper(lines)
  BY LineParts DEF WellSet
<1>2. \A i \in 1 .. N : IsWordLine(lines[i])
  BY <1>1 DEF Proper
<1>3. IsSeq(lines) /\ IsLines(lines)
  <2>1. Proper(lines)
    BY <1>1
  <2> QED BY <2>1, ProperIs, Zenon DEF Proper
<1>4. rest = Splice(lines, y, <<l>>, z + 1)
  BY Zenon DEF InternalDeleteText, Splice, HeadOf, TailOf
<1>5. Word(head ++ tail) /\ IsSeq(head ++ tail)
  BY <1>1, WordJoined, TextLen
<1>6. l.text = head ++ tail /\ l.eol = lines[z].eol /\ IsLine(l) /\ l.eol \in BOOLEAN
  <2>1. l.text = head ++ tail /\ l.eol = lines[z].eol
    BY DEF Line, ++
  <2>2. IsLine(l)
    <3> DEFINE w == head ++ tail
    <3>1. l = Line(w, lines[z].eol, lines[y].ghost)
      BY DEF ++
    <3> HIDE DEF w, l
    <3> QED BY <1>5, <3>1, LineIs DEF w
  <2> HIDE DEF l
  <2> QED BY <1>1, <1>2, <2>1, <2>2 DEF IsWordLine
<1> HIDE DEF l, head, tail
<1>7. SpliceAt(lines, rest, y, <<l>>, z + 1) /\ Len(<<l>>) = 1 /\ <<l>>[1] = l
  <2>1. IsSeq(<<l>>) /\ Len(<<l>>) = 1 /\ <<l>>[1] = l
    BY SingleIs
  <2> DEFINE q == <<l>>
             c == z + 1
  <2>2. y \in 1 .. N + 1 /\ c \in y .. N + 1 /\ rest = Splice(lines, y, q, c)
    BY <1>1, <1>4
  <2> HIDE DEF q, c, y, N
  <2>3. SpliceAt(lines, rest, y, q, c)
    BY <1>3, <2>1, <2>2, SpliceAtIs DEF q, N
  <2> QED BY <2>1, <2>3 DEF q, c
<1>8. /\ IsSeq(rest) /\ Len(rest) = N - (z - y)
      /\ \A i \in 1 .. y - 1 : rest[i] = lines[i]
      /\ rest[y] = l
      /\ \A i \in 1 .. N - z : rest[y + i] = lines[z + i]
  <2>1. /\ IsSeq(rest) /\ Len(rest) = (y - 1) + 1 + (N - (z + 1) + 1)
        /\ \A i \in 1 .. y - 1 : rest[i] = lines[i]
        /\ \A i \in 1 .. 1 : rest[y - 1 + i] = <<l>>[i]
        /\ \A i \in 1 .. N - (z + 1) + 1 : rest[y - 1 + 1 + i] = lines[(z + 1) - 1 + i]
    BY <1>7 DEF SpliceAt
  <2> HIDE DEF y, z, N
  <2>2. (y - 1) + 1 + (N - (z + 1) + 1) = N - (z - y) /\ N - (z + 1) + 1 = N - z
        /\ y - 1 + 1 = y /\ 1 \in 1 .. 1
    BY <1>1
  <2>5. \A i \in 1 .. N - z : y - 1 + 1 + i = y + i /\ (z + 1) - 1 + i = z + i
    BY <1>1
  <2>3. rest[y] = l
    BY <1>7, <2>1, <2>2
  <2>4. \A i \in 1 .. N - z : rest[y + i] = lines[z + i]
    BY <1>7, <2>1, <2>2, <2>5
  <2> QED BY <2>1, <2>2, <2>3, <2>4
<1>10. y \in 1 .. N /\ z \in 1 .. N /\ N \in Nat /\ y <= z /\ Len(rest) = N - (z - y)
  BY <1>1, <1>8
<1>9. /\ IsLines(rest) /\ y \in 1 .. Len(rest) /\ Len(rest) \in Nat
      /\ \A i \in 1 .. Len(rest) : IsLine(rest[i]) /\ rest[i].eol \in BOOLEAN
  <2>1. y \in 1 .. Len(rest) /\ Len(rest) \in Nat
    <3> HIDE DEF y, z, N
    <3> QED BY <1>10
  <2>2. ASSUME NEW i \in 1 .. Len(rest) PROVE IsLine(rest[i]) /\ rest[i].eol \in BOOLEAN
    <3>1. CASE i < y
      <4>1. i \in 1 .. y - 1 /\ i \in 1 .. N
        BY <1>1, <2>1, <3>1
      <4> QED BY <1>2, <1>8, <4>1 DEF IsWordLine
    <3>2. CASE i = y
      BY <1>6, <1>8, <3>2
    <3>3. CASE i > y
      <4>1. i - y \in 1 .. N - z /\ y + (i - y) = i /\ z + (i - y) \in 1 .. N
        <5> HIDE DEF y, z, N
        <5> QED BY SMTT(20), <1>10, <3>3
      <4>2. rest[i] = lines[z + (i - y)]
        BY <1>8, <4>1
      <4> QED BY <1>2, <4>1, <4>2 DEF IsWordLine
    <3> QED BY <1>1, <3>1, <3>2, <3>3
  <2> QED BY <1>8, <2>1, <2>2 DEF IsLines
<1>12. /\ IsLines(t) /\ Len(t) = Len(rest)
       /\ \A i \in 1 .. Len(rest) :
             /\ t[i].text = rest[i].text /\ t[i].ghost = IF i = y THEN g ELSE rest[i].ghost
             /\ rest[i].eol \in BOOLEAN => t[i].eol \in BOOLEAN
  <2> DEFINE u == Marking(rest, y, g, blocks, first, last)
  <2>1. t = u
    BY DEF Marking
  <2> HIDE DEF y, t
  <2>2. /\ IsLines(u) /\ Len(u) = Len(rest)
        /\ \A i \in 1 .. Len(rest) :
             /\ u[i].text = rest[i].text /\ u[i].ghost = IF i = y THEN g ELSE rest[i].ghost
             /\ rest[i].eol \in BOOLEAN => u[i].eol \in BOOLEAN
    BY <1>9, GhostSetAlike
  <2> QED BY <2>1, <2>2
<1> HIDE DEF t
<1>13. ASSUME NEW i \in 1 .. Len(rest), i # y
       PROVE  t[i].text = rest[i].text /\ t[i].ghost = rest[i].ghost /\ t[i].eol \in BOOLEAN
  BY <1>9, <1>12, <1>13
<1>14. t[y].text = head ++ tail /\ t[y].ghost = g /\ t[y].eol \in BOOLEAN
  BY <1>6, <1>8, <1>9, <1>12
<1>15. \A i \in 1 .. y - 1 : LooksLike(t[i], lines[i])
  <2> SUFFICES ASSUME NEW i \in 1 .. y - 1 PROVE LooksLike(t[i], lines[i])
    OBVIOUS
  <2>1. i \in 1 .. Len(rest) /\ i # y
    <3> HIDE DEF y, z, N
    <3> QED BY <1>10
  <2> QED BY <1>8, <1>13, <2>1 DEF LooksLike
<1>16. \A i \in 1 .. N - z : LooksLike(t[y + i], lines[z + i])
  <2> SUFFICES ASSUME NEW i \in 1 .. N - z PROVE LooksLike(t[y + i], lines[z + i])
    OBVIOUS
  <2> DEFINE j == y + i
  <2>1. j \in 1 .. Len(rest) /\ j # y
    <3> HIDE DEF y, z, N
    <3> QED BY <1>1, <1>8
  <2>2. rest[j] = lines[z + i]
    BY <1>8
  <2> HIDE DEF j
  <2>3. LooksLike(t[j], lines[z + i])
    BY <1>13, <2>1, <2>2 DEF LooksLike
  <2> QED BY <2>3 DEF j
<1>17. \A i \in 1 .. Len(t) : t[i].eol \in BOOLEAN
  BY <1>12, <1>13, <1>14
<1>18. Len(t) = N - (z - y)
  BY <1>8, <1>12
<1>19. Shut(lines, start, end, g, t)
  BY <1>12, <1>14, <1>15, <1>16, <1>17, <1>18 DEF Shut, head, tail
<1> QED BY <1>19 DEF t

(* The text that is left, when what is left of the lines may be a ghost.   *)
ShutBody(lines, start, end, g, t) ==
    /\ Proper(t) /\ Len(t) # 0
    /\ (g => end.y < Len(lines)) => ~ t[Len(t)].ghost
    /\ Text(RowsBelow(lines, end.y)) /\ Text(TailOf(lines, end))
    /\ Body(t) = Above(lines, start)
                    ++ (IF g THEN RowsBelow(lines, end.y)
                        ELSE (TailOf(lines, end) ++ Break) ++ RowsBelow(lines, end.y))
    /\ InText(t, start) /\ Above(t, start) = Above(lines, start) /\ t[start.y].ghost = g

(* What is left is the text above the start and the text below the end.    *)
LEMMA ShutBodyIs ==
    ASSUME BufferAssumption, NEW lines, WellSet(lines), NEW start, InText(lines, start),
           NEW end, InText(lines, end), start.y <= end.y, NEW g \in BOOLEAN,
           g => HeadOf(lines, start) = <<>> /\ TailOf(lines, end) = <<>>,
           NEW t, Shut(lines, start, end, g, t)
    PROVE  ShutBody(lines, start, end, g, t)
<1> DEFINE y == start.y
           z == end.y
           N == Len(lines)
           n == Len(t)
           head == HeadOf(lines, start)
           tail == TailOf(lines, end)
           ra == RowsAbove(lines, y)
           rb == RowsBelow(lines, z)
<1>1. /\ y \in 1 .. N /\ z \in 1 .. N /\ N \in Nat \ {0} /\ y <= z /\ start.x \in Nat
      /\ Word(head) /\ Word(tail) /\ Proper(lines) /\ Len(head) = start.x
      /\ Text(head) /\ Text(tail) /\ ~ lines[N].ghost
  BY LineParts DEF WellSet
<1>2. \A i \in 1 .. N : IsWordLine(lines[i])
  BY <1>1 DEF Proper
<1>3. Word(head ++ tail) /\ Text(head ++ tail) /\ Len(head ++ tail) = Len(head) + Len(tail)
      /\ Len(tail) \in Nat
  BY <1>1, WordJoined
<1>4. /\ IsLines(t) /\ n = N - (z - y)
      /\ \A i \in 1 .. y - 1 : LooksLike(t[i], lines[i])
      /\ t[y].text = head ++ tail /\ t[y].ghost = g
      /\ \A i \in 1 .. N - z : LooksLike(t[y + i], lines[z + i])
      /\ \A i \in 1 .. n : t[i].eol \in BOOLEAN
  BY DEF Shut
<1>5. /\ n \in Nat \ {0} /\ y \in 1 .. n /\ n - y = N - z
      /\ y \in 1 .. N /\ z \in 1 .. N /\ N \in Nat \ {0} /\ y <= z
  <2>1. y \in 1 .. N /\ z \in 1 .. N /\ N \in Nat \ {0} /\ y <= z
    BY <1>1
  <2>2. n = N - (z - y)
    BY <1>4
  <2> HIDE DEF y, z, N, n
  <2> QED BY <2>1, <2>2
<1> HIDE DEF head, tail
<1>6. Proper(t)
  <2>1. ASSUME NEW i \in 1 .. n PROVE IsWordLine(t[i])
    <3>1. IsLine(t[i]) /\ t[i].eol \in BOOLEAN
      BY <1>4 DEF IsLines
    <3>2. CASE i = y
      <4>1. g => head ++ tail = <<>>
        BY TextWithNone DEF head, tail
      <4> QED BY <1>3, <1>4, <3>1, <3>2, <4>1 DEF IsWordLine
    <3>3. CASE i < y
      <4>1. i \in 1 .. y - 1 /\ i \in 1 .. N
        BY <1>1, <3>3
      <4> QED BY <1>2, <1>4, <3>1, <4>1 DEF IsWordLine, LooksLike
    <3>4. CASE i > y
      <4> DEFINE j == i - y
      <4>1. j \in 1 .. N - z /\ y + j = i /\ z + j \in 1 .. N
        <5> HIDE DEF y, z, N, n
        <5> QED BY <1>5, <3>4
      <4> HIDE DEF j
      <4>2. LooksLike(t[i], lines[z + j])
        BY <1>4, <4>1
      <4> QED BY <1>2, <3>1, <4>1, <4>2 DEF IsWordLine, LooksLike
    <3> QED BY <1>5, <3>2, <3>3, <3>4
  <2> QED BY <1>4, <2>1 DEF Proper, IsLines
<1>7. (g => z < N) => ~ t[n].ghost
  <2> SUFFICES ASSUME g => z < N PROVE ~ t[n].ghost
    OBVIOUS
  <2>1. CASE n = y
    <3>1. N = z
      <4> HIDE DEF y, z, N, n
      <4> QED BY <1>1, <1>5, <2>1
    <3>2. ~ g
      <4> HIDE DEF z, N
      <4> QED BY <1>1, <3>1
    <3> QED BY <1>4, <2>1, <3>2
  <2>2. CASE n # y
    <3> DEFINE j == N - z
    <3>1. j \in 1 .. N - z /\ y + j = n /\ z + j = N
      <4> HIDE DEF y, z, N, n
      <4> QED BY <1>1, <1>5, <2>2
    <3> HIDE DEF j
    <3>2. LooksLike(t[n], lines[N])
      BY <1>4, <3>1
    <3> QED BY <1>1, <3>2 DEF LooksLike
  <2> QED BY <2>1, <2>2
<1>8. RowsAbove(t, y) = ra
  <2> DEFINE m == y - 1
             s == SubSeq(t, 1, m)
             q == SubSeq(lines, 1, m)
  <2>1. m \in 0 .. n /\ m \in 0 .. N
    <3> HIDE DEF y, z, N, n
    <3> QED BY <1>5
  <2> HIDE DEF m
  <2>2. Len(s) = m /\ \A i \in 1 .. m : s[i] = t[i]
    BY <1>6, <2>1, LinesCut
  <2>3. Len(q) = m /\ \A i \in 1 .. m : q[i] = lines[i]
    BY <1>1, <2>1, LinesCut
  <2> HIDE DEF s, q
  <2>4. \A i \in 1 .. Len(s) : s[i].text = q[i].text /\ s[i].ghost = q[i].ghost
    BY <1>4, <2>2, <2>3 DEF LooksLike, m
  <2>5. Body(s) = Body(q)
    BY <2>2, <2>3, <2>4, BodyAlike
  <2> QED BY <2>5 DEF RowsAbove, s, q, m
<1>9. RowsBelow(t, y) = rb
  <2> DEFINE s == SubSeq(t, y + 1, n)
             q == SubSeq(lines, z + 1, N)
  <2>0. y \in 0 .. n /\ z \in 0 .. N
    <3> HIDE DEF y, z, N, n
    <3> QED BY <1>5
  <2>1. Len(s) = n - y /\ \A i \in 1 .. n - y : s[i] = t[y + i]
    <3> HIDE DEF y
    <3> QED BY <1>6, <2>0, LinesCut
  <2>2. Len(q) = N - z /\ \A i \in 1 .. N - z : q[i] = lines[z + i]
    <3> HIDE DEF z
    <3> QED BY <1>1, <2>0, LinesCut
  <2> HIDE DEF s, q, n, N, y, z
  <2>3. \A i \in 1 .. Len(s) : s[i].text = q[i].text /\ s[i].ghost = q[i].ghost
    <3> SUFFICES ASSUME NEW i \in 1 .. Len(s)
                 PROVE  s[i].text = q[i].text /\ s[i].ghost = q[i].ghost
      OBVIOUS
    <3>1. i \in 1 .. n - y /\ i \in 1 .. N - z
      BY <1>5, <2>1
    <3>2. LooksLike(t[y + i], lines[z + i])
      BY <1>4, <3>1
    <3> QED BY <2>1, <2>2, <3>1, <3>2 DEF LooksLike
  <2>4. Body(s) = Body(q)
    BY <1>5, <2>1, <2>2, <2>3, BodyAlike
  <2> QED BY <2>4 DEF RowsBelow, s, q, n, N
<1>10. /\ Body(t) = (RowsAbove(t, y) ++ Row(t[y])) ++ RowsBelow(t, y)
       /\ Text(RowsAbove(t, y)) /\ Text(RowsBelow(t, y))
  <2> HIDE DEF y
  <2> QED BY <1>5, <1>6, RowsAround
<1>11. Above(lines, start) = ra ++ head
  BY DEF Above, head, HeadOf
<1>12. Row(t[y]) = IF g THEN <<>> ELSE (head ++ tail) ++ Break
  BY <1>4 DEF Row
<1>13. InText(t, start) /\ Above(t, start) = ra ++ head
  <2>1. DOMAIN t = 1 .. n
    BY <1>6, ProperIs
  <2>2. start.x \in 0 .. Len(t[y].text)
    <3> DEFINE e == Len(head ++ tail)
               k == Len(tail)
               x == start.x
    <3>1. t[y].text = head ++ tail
      BY <1>4
    <3>2. e = x + k /\ x \in Nat /\ k \in Nat
      BY <1>1, <1>3
    <3> HIDE DEF e, k, x
    <3>3. x \in 0 .. e
      BY <3>2
    <3> QED BY <3>1, <3>3 DEF e, x
  <2>3. SubSeq(head ++ tail, 1, start.x) = head
    BY <1>1, <1>3, CutOff
  <2>4. SubSeq(t[y].text, 1, start.x) = head
    BY <1>4, <2>3
  <2> QED BY <1>5, <1>8, <2>1, <2>2, <2>4 DEF InText, Above
<1>14. Text(ra) /\ Text(rb)
  BY <1>8, <1>9, <1>10
<1> HIDE DEF ra, rb, y, z, n, N
<1>15. Body(t) = (ra ++ head) ++ (IF g THEN rb ELSE (tail ++ Break) ++ rb)
  <2>1. CASE g
    <3>1. head = <<>> /\ ra ++ head = ra /\ ra ++ <<>> = ra
      BY <1>14, <2>1, TextWithNone DEF head
    <3> QED BY <1>8, <1>9, <1>10, <1>12, <2>1, <3>1
  <2>2. CASE ~ g
    <3>1. Body(t) = (ra ++ ((head ++ tail) ++ Break)) ++ rb
      BY <1>8, <1>9, <1>10, <1>12, <2>2
    <3>2. (head ++ tail) ++ Break = head ++ (tail ++ Break) /\ Text(tail ++ Break)
      BY <1>1, BreakIs, TextInAnyOrder, TextJoined
    <3>3. (ra ++ (head ++ (tail ++ Break))) ++ rb = (ra ++ head) ++ ((tail ++ Break) ++ rb)
      BY <1>1, <1>14, <3>2, FourJoined
    <3> QED BY <2>2, <3>1, <3>2, <3>3
  <2> QED BY <2>1, <2>2
<1> QED BY <1>1, <1>4, <1>5, <1>6, <1>7, <1>11, <1>13, <1>14, <1>15
      DEF ShutBody, ra, rb, y, z, n, N, tail

-----------------------------------------------------------------------------
(* What a deletion does to a buffer *)

(* A text that is not empty leads on, and is what lies between its ends.   *)
LEMMA TextBetween ==
    ASSUME BufferAssumption, NEW lines, WellSet(lines), NEW p, InText(lines, p), NEW q, InText(lines, q),
           NEW t, Text(t), t # <<>>, Above(lines, q) = Above(lines, p) ++ t
    PROVE  Before(p, q) /\ ~ Before(q, p) /\ GetText(lines, p, q) = t
<1> DEFINE a == Above(lines, p)
           c == Above(lines, q)
<1>1. Text(a) /\ Text(c) /\ p.y \in Int /\ p.x \in Int /\ q.y \in Int /\ q.x \in Int
  BY AboveAndBelow DEF WellSet
<1>2. Len(t) \in Nat /\ Len(t) # 0 /\ Len(a) \in Nat /\ Len(c) = Len(a) + Len(t)
  BY <1>1, TextLen, TextJoined
<1>3. Before(p, q)
  <2> SUFFICES ASSUME ~ Before(p, q) PROVE FALSE
    OBVIOUS
  <2> DEFINE r == GetText(lines, q, p)
  <2>1. Text(r) /\ c ++ r = a
    BY GetTextJoins
  <2> HIDE DEF r, a, c
  <2>2. Len(a) = Len(c) + Len(r) /\ Len(r) \in Nat
    BY <1>1, <2>1, TextJoined, TextLen
  <2> QED BY <1>2, <2>2
<1>4. ~ Before(q, p)
  BY <1>1, <1>3 DEF Before
<1>5. Text(GetText(lines, p, q)) /\ a ++ GetText(lines, p, q) = c
  BY <1>4, GetTextJoins
<1> HIDE DEF a, c
<1>6. a ++ GetText(lines, p, q) = a ++ t
  BY <1>5 DEF a, c
<1>7. GetText(lines, p, q) = t
  BY <1>1, <1>5, <1>6, CancelStart
<1> QED BY <1>3, <1>4, <1>7

(* The line breaks above a place are those of the real lines above.        *)
LEMMA EolsAbove ==
    ASSUME BufferAssumption, NEW lines, Proper(lines), NEW p, InText(lines, p)
    PROVE  Eols(Above(lines, p)) = Cardinality(UpTo(RealOf(lines), p.y - 1))
<1>1. p.y \in 1 .. Len(lines) /\ p.x \in 0 .. Len(lines[p.y].text) /\ IsWordLine(lines[p.y])
  BY AboveAndBelow DEF InText, Proper
<1> DEFINE w == SubSeq(lines[p.y].text, 1, p.x)
           r == RowsAbove(lines, p.y)
<1>2. Word(w)
  <2> DEFINE l == lines[p.y]
             x == p.x
  <2>1. IsWordLine(l) /\ x \in 0 .. Len(l.text)
    BY <1>1
  <2> HIDE DEF l, x
  <2>2. Word(SubSeq(l.text, 1, x))
    BY <2>1, RowCut
  <2> QED BY <2>2 DEF l, x
<1>3. Text(r) /\ Eols(r) = Cardinality(UpTo(RealOf(lines), p.y - 1))
  BY <1>1, LinesAbove
<1>4. Above(lines, p) = r ++ w
  BY DEF Above
<1> HIDE DEF w, r
<1>5. Text(w) /\ Eols(w) = 0 /\ Eols(r) \in Nat /\ Eols(r ++ w) = Eols(r) + Eols(w)
  BY <1>2, <1>3, WordIs, EolsJoined
<1> QED BY <1>3, <1>4, <1>5

(* What is known of a deletion in a buffer                                 *)
DeletesText(b, start, end, d) ==
    /\ WellBuf(d.buf) /\ Body(d.buf.lines) = Above(b.lines, start) ++ Below(b.lines, end)
    /\ InText(d.buf.lines, start) /\ Above(d.buf.lines, start) = Above(b.lines, start)
    /\ ~ d.buf.lines[start.y].ghost
    /\ d.nReal = Eols(GetText(b.lines, start, end)) + 1

(* CGhostTextBuffer::InternalDeleteText takes away the text between two    *)
(* places and no other text.                                               *)
LEMMA DeleteTextJoins ==
    ASSUME BufferAssumption, NEW b, WellBuf(b), NEW start, InText(b.lines, start),
           NEW end, InText(b.lines, end), ~ Before(end, start), ~ b.lines[end.y].ghost
    PROVE  DeletesText(b, start, end, DeleteText(b, start, end))
<1> DEFINE lines == b.lines
           d == DeleteText(b, start, end)
           rest == InternalDeleteText(lines, start, end)
           g == RemainsGhost(rest[start.y].ghost, lines[end.y].ghost)
           new == [rest EXCEPT ![start.y] = [rest[start.y] EXCEPT !.ghost = g]]
           blocks == IF start.y # end.y THEN BlocksOf(new) ELSE b.blocks
           t == RecomputeEOL(new, blocks, start.y, start.y)
           a == Above(lines, start)
           text == GetText(lines, start, end)
           R == RealOf(lines)
<1>1. IsBuf(b) /\ WellSet(lines)
  BY DEF WellBuf
<1>2. /\ start.y \in 1 .. Len(lines) /\ end.y \in 1 .. Len(lines) /\ start.x \in Nat /\ end.x \in Nat
      /\ start.y \in 1 .. Len(lines) + 1 /\ end.y \in 1 .. Len(lines) + 1
      /\ start.y <= end.y /\ Text(a) /\ Text(Below(lines, end)) /\ Proper(lines)
      /\ Len(lines) \in Nat
  <2>1. /\ start.y \in 1 .. Len(lines) /\ end.y \in 1 .. Len(lines) /\ start.x \in Nat /\ end.x \in Nat
        /\ Text(a) /\ Text(Below(lines, end)) /\ Proper(lines) /\ Len(lines) \in Nat
    BY <1>1, AboveAndBelow, LineParts DEF WellSet
  <2> HIDE DEF lines
  <2> QED BY <2>1 DEF Before
<1>3. d.buf.lines = t /\ d.buf.blocks = blocks
      /\ d.nReal = ComputeRealLine(b.blocks, end.y) - ComputeRealLine(b.blocks, start.y)
                    + IF lines[end.y].ghost THEN 0 ELSE 1
  <2>1. d = [buf |-> [lines |-> t, blocks |-> blocks],
             nReal |-> ComputeRealLine(b.blocks, end.y) - ComputeRealLine(b.blocks, start.y)
                        + IF lines[end.y].ghost THEN 0 ELSE 1]
    BY DEF DeleteText
  <2> HIDE DEF d, t, blocks
  <2> QED BY <2>1
<1>4. g = FALSE
  BY Zenon DEF RemainsGhost
<1>5. Shut(lines, start, end, FALSE, t)
  <2>1. new = [rest EXCEPT ![start.y] = [rest[start.y] EXCEPT !.ghost = FALSE]]
    BY <1>4
  <2> HIDE DEF new, rest, blocks, lines, g
  <2>2. rest = InternalDeleteText(lines, start, end)
    BY DEF rest
  <2> QED BY <1>1, <1>2, <2>1, <2>2, ShutIs DEF lines
<1> HIDE DEF t, d, blocks
<1>6. ShutBody(lines, start, end, FALSE, t)
  BY <1>1, <1>2, <1>5, ShutBodyIs
<1>7. Below(lines, end) = (TailOf(lines, end) ++ Break) ++ RowsBelow(lines, end.y)
  BY DEF Below, Rest, TailOf
<1>8. /\ Proper(t) /\ Len(t) # 0 /\ ~ t[Len(t)].ghost
      /\ Body(t) = a ++ Below(lines, end)
      /\ InText(t, start) /\ Above(t, start) = a /\ ~ t[start.y].ghost
  <2> HIDE DEF lines
  <2> QED BY <1>6, <1>7 DEF ShutBody
<1>9. WellBuf(d.buf)
  <2>1. IsBuf(d.buf)
    BY <1>1, <1>2, DeleteTextIs DEF d
  <2> QED BY <1>3, <1>8, <2>1 DEF WellBuf, WellSet, IsBuf
<1>10. d.nReal = Eols(text) + 1
  <2> DEFINE r0 == Cardinality(UpTo(R, start.y - 1))
             r1 == Cardinality(UpTo(R, end.y - 1))
  <2>1. ComputeRealLine(b.blocks, start.y) = r0 + 1 /\ ComputeRealLine(b.blocks, end.y) = r1 + 1
    BY <1>1, <1>2, RealLineCounts
  <2>2. Eols(a) = r0 /\ Eols(Above(lines, end)) = r1
    BY <1>2, EolsAbove
  <2>3. Text(text) /\ a ++ text = Above(lines, end)
    BY <1>1, GetTextJoins
  <2> HIDE DEF r0, r1, a, text
  <2>4. Eols(Above(lines, end)) = Eols(a) + Eols(text) /\ Eols(a) \in Nat /\ Eols(text) \in Nat
    BY <1>2, <2>3, EolsJoined
  <2> QED BY <1>3, <2>1, <2>2, <2>4
<1> QED BY <1>3, <1>8, <1>9, <1>10 DEF DeletesText, d

-----------------------------------------------------------------------------
(* What the undo of an insertion puts back *)

(* The place of an inserted text in a buffer: a above it, c below it.      *)
Holds(at, text, a, c) ==
    /\ WellBuf(at.buf) /\ InText(at.buf.lines, at.start) /\ InText(at.buf.lines, at.end)
    /\ Text(text) /\ text # <<>> /\ Text(a) /\ Text(c) /\ c # <<>>
    /\ Above(at.buf.lines, at.start) = a /\ Above(at.buf.lines, at.end) = a ++ text
    /\ Body(at.buf.lines) = (a ++ text) ++ c
    /\ at.buf.lines[at.end.y].ghost => at.start.x = 0

(* There was a ghost line that the insertion made one line more.           *)
Grew(ur) == ur.end.y - ur.start.y = ur.nReal - 1

(* Where the text is is where it ends is what is looked at.                *)
LEMMA HeldText ==
    ASSUME BufferAssumption, NEW at, NEW text, NEW a, NEW c, Holds(at, text, a, c)
    PROVE  /\ Before(at.start, at.end) /\ GetText(at.buf.lines, at.start, at.end) = text
           /\ at.start.y <= at.end.y
           /\ Below(at.buf.lines, at.end) = c
           /\ at.start.y \in 1 .. Len(at.buf.lines) /\ at.end.y \in 1 .. Len(at.buf.lines)
           /\ at.start.x \in Nat /\ at.end.x \in Nat /\ Len(at.buf.lines) \in Nat
           /\ at.start.x <= Len(at.buf.lines[at.start.y].text)
           /\ at.end.x <= Len(at.buf.lines[at.end.y].text)
<1> DEFINE lines == at.buf.lines
           e == Above(lines, at.end)
           d == Below(lines, at.end)
<1>1. /\ WellSet(lines) /\ InText(lines, at.start) /\ InText(lines, at.end)
      /\ Above(lines, at.end) = Above(lines, at.start) ++ text
      /\ Text(text) /\ text # <<>> /\ Text(a) /\ Text(c)
      /\ e = a ++ text /\ Body(lines) = (a ++ text) ++ c
  BY DEF Holds, WellBuf
<1>2. /\ Body(lines) = e ++ d /\ Text(e) /\ Text(d)
      /\ at.start.y \in 1 .. Len(lines) /\ at.end.y \in 1 .. Len(lines)
      /\ at.start.x \in Nat /\ at.end.x \in Nat /\ Len(lines) \in Nat
      /\ at.start.x <= Len(lines[at.start.y].text) /\ at.end.x <= Len(lines[at.end.y].text)
  BY <1>1, AboveAndBelow, LineParts DEF WellSet
<1>3. Before(at.start, at.end) /\ GetText(lines, at.start, at.end) = text
  <2> DEFINE p == at.start
             q == at.end
  <2>1. /\ InText(lines, p) /\ InText(lines, q) /\ WellSet(lines)
        /\ Above(lines, q) = Above(lines, p) ++ text /\ Text(text) /\ text # <<>>
    BY <1>1
  <2> HIDE DEF p, q, lines, e, d
  <2>2. Before(p, q) /\ GetText(lines, p, q) = text
    BY <2>1, TextBetween
  <2> QED BY <2>2 DEF p, q
<1> HIDE DEF lines, e, d
<1>4. e ++ c = e ++ d
  BY <1>1, <1>2
<1>5. c = d
  BY <1>1, <1>2, <1>4, CancelStart
<1>6. at.start.y <= at.end.y
  BY <1>2, <1>3 DEF Before
<1> QED BY <1>2, <1>3, <1>5, <1>6 DEF lines, d

(* When the text ends in the middle of what was a ghost line, nothing of   *)
(* this line is behind it.                                                 *)
LEMMA NothingBehind ==
    ASSUME BufferAssumption, NEW tail, Word(tail), NEW below, Text(below), NEW c, Text(c),
           (tail ++ Break) ++ below = Break ++ c
    PROVE  tail = <<>> /\ below = c
<1>1. Text(tail) /\ Text(Break) /\ Text(<<>>) /\ <<>> ++ (Break ++ c) = Break ++ c
      /\ Text(Break ++ c) /\ Text(Break ++ below)
  BY WordIs, BreakIs, TextWithNone, TextJoined
<1>2. tail ++ (Break ++ below) = <<>> ++ (Break ++ c)
  BY <1>1, TextInAnyOrder
<1> DEFINE none == <<>>
           w == Break ++ below
<1>3. \E v : Text(v) /\ none = tail ++ v /\ Len(none) = Len(tail) + Len(v)
  <2> HIDE DEF none, w
  <2>1. Text(none) /\ Text(w) /\ tail ++ w = none ++ (Break ++ c)
    BY <1>1, <1>2 DEF none, w
  <2> QED BY <1>1, <2>1, WordInLine
<1>4. tail = <<>>
  <2>1. PICK v : Text(v) /\ none = tail ++ v /\ Len(none) = Len(tail) + Len(v)
    BY <1>3
  <2>2. Len(none) = 0 /\ Len(tail) \in Nat /\ Len(v) \in Nat /\ (Len(tail) = 0 <=> tail = <<>>)
    BY <1>1, <2>1, TextLen
  <2> HIDE DEF none
  <2>3. Len(tail) = 0
    <3> DEFINE k == Len(tail)
               l == Len(v)
    <3>1. k \in Nat /\ l \in Nat /\ 0 = k + l
      BY <2>1, <2>2
    <3> HIDE DEF k, l
    <3>2. k = 0
      BY <3>1
    <3> QED BY <3>2 DEF k
  <2> QED BY <2>2, <2>3
<1>5. Break ++ below = Break ++ c
  BY <1>1, <1>2, <1>4, TextWithNone
<1>6. below = c
  BY <1>1, <1>5, CancelStart
<1> QED BY <1>4, <1>6

(* What is known of the undo of an insertion                               *)
UndoesInsertion(at, ur, a, c, u) ==
    LET g == at.buf.lines[at.end.y].ghost \/ Grew(ur)
    IN  /\ u.ok /\ WellBuf(u.buf)
        /\ \A new : Text(new) /\ c = (IF Grew(ur) THEN Break ++ new ELSE new) =>
                        Body(u.buf.lines) = a ++ new
        /\ u.record = [ur EXCEPT !.redoStart = Stored(u.buf, at.start)]
        /\ Leads(Stored(u.buf, at.start), a)
        /\ Stored(u.buf, at.start).nGhost > 0 <=> g

(* Undoing an insertion takes its text away again, with the line break     *)
(* that it gave to a ghost line, and sets the record for a redo.           *)
LEMMA UndoInsertionJoins ==
    ASSUME BufferAssumption, NEW at, NEW ur, IsRecord(ur), NEW a, NEW c, Holds(at, ur.text, a, c),
           Grew(ur) => /\ at.start.x = 0 /\ ~ at.buf.lines[at.end.y].ghost
                       /\ \E new : Text(new) /\ new # <<>> /\ c = Break ++ new
    PROVE  UndoesInsertion(at, ur, a, c, UndoInsertion(at, ur))
<1> DEFINE b == at.buf
           lines == b.lines
           start == at.start
           end == at.end
           rest == InternalDeleteText(lines, start, end)
           g == lines[end.y].ghost \/ Grew(ur)
           new == [rest EXCEPT ![start.y] = [rest[start.y] EXCEPT !.ghost = g]]
           blocks == BlocksOf(new)
           t == RecomputeEOL(new, blocks, start.y, start.y)
           flagged == Buf(new)
           after == [flagged EXCEPT !.lines = t]
           Exists(p) == p.y <= Len(b.lines) /\ p.x <= Len(b.lines[p.y].text)
           ok == Exists(at.start) /\ Exists(at.end)
                     /\ IsPrefix(GetText(b.lines, at.start, at.end), ur.text)
           record == [ur EXCEPT !.redoStart = Stored(after, at.start)]
           u == UndoInsertion(at, ur)
           tail == TailOf(lines, end)
           rb == RowsBelow(lines, end.y)
<1>1. /\ WellBuf(b) /\ WellSet(lines) /\ InText(lines, start) /\ InText(lines, end)
      /\ Above(lines, start) = a /\ Above(lines, end) = a ++ ur.text
      /\ Text(a) /\ Text(c) /\ Text(ur.text)
      /\ (lines[end.y].ghost => start.x = 0) /\ IsBuf(b)
  BY DEF Holds, WellBuf
<1>2. /\ start.y <= end.y /\ GetText(lines, start, end) = ur.text /\ Below(lines, end) = c
      /\ start.y \in 1 .. Len(lines) /\ end.y \in 1 .. Len(lines)
      /\ start.x \in Nat /\ end.x \in Nat /\ Len(lines) \in Nat
      /\ start.x <= Len(lines[start.y].text) /\ end.x <= Len(lines[end.y].text)
  BY HeldText
<1>3. lines[end.y].ghost \in BOOLEAN /\ g \in BOOLEAN
  BY <1>1, <1>2 DEF WellSet, Proper, IsWordLine, Grew
<1>4. u = [ok |-> TRUE, buf |-> after,
           record |-> [ur EXCEPT !.redoStart = Stored(after, start)]]
  <2>1. start.y <= Len(lines) /\ end.y <= Len(lines)
    <3> HIDE DEF lines, start, end
    <3> QED BY <1>2
  <2>2. IsPrefix(GetText(lines, start, end), ur.text)
    <3> DEFINE x == ur.text
    <3>1. Text(x) /\ GetText(lines, start, end) = x
      BY <1>1, <1>2
    <3> HIDE DEF x
    <3>2. IsPrefix(x, x)
      <4>1. Text(<<>>) /\ x ++ <<>> = x
        BY <3>1, TextWithNone
      <4>2. x = x \o <<>>
        BY <4>1 DEF ++
      <4>3. Len(x) \in Nat
        BY <3>1, TextLen
      <4> QED BY <4>3 DEF IsPrefix
    <3> QED BY <3>1, <3>2 DEF x
  <2>3. ok
    BY <1>2, <2>1, <2>2
  <2>4. flagged.lines = new /\ flagged.blocks = blocks
    BY DEF Buf
  <2>5. after = [flagged EXCEPT !.lines =
                    RecomputeEOL(@, flagged.blocks, at.start.y, at.start.y)]
    BY <2>4, Zenon
  <2>6. new = [rest EXCEPT ![at.start.y].ghost = g]
    OBVIOUS
  <2>7. u = IF ok THEN [ok |-> TRUE, buf |-> after, record |-> record]
            ELSE [ok |-> FALSE, buf |-> b, record |-> ur]
    <3> HIDE DEF after, new, rest, g
    <3> QED BY <2>5, <2>6, Zenon DEF UndoInsertion, flagged, rest, g, Grew
  <2> HIDE DEF ok, u, after
  <2> QED BY <2>3, <2>7
<1>5. u.ok /\ u.buf = after /\ u.record = [ur EXCEPT !.redoStart = Stored(after, start)]
  <2> HIDE DEF u, after
  <2> QED BY <1>4
<1>6. IsBuf(after)
  <2>1. IsUndone(u, ur)
    <3>1. start.y \in 1 .. Len(lines) + 1 /\ end.y \in 1 .. Len(lines) + 1
          /\ start.x \in Int /\ end.x \in Int
      <4> HIDE DEF lines, start, end
      <4> QED BY SMTT(30), <1>2
    <3> HIDE DEF u
    <3> QED BY <1>1, <1>2, <3>1, UndoInsertionIs DEF u
  <2> HIDE DEF u, after
  <2> QED BY <1>5, <2>1 DEF IsUndone
<1>7. Shut(lines, start, end, g, t)
  <2> HIDE DEF new, rest, blocks, lines, g, start, end
  <2>1. rest = InternalDeleteText(lines, start, end)
    BY DEF rest
  <2>2. new = [rest EXCEPT ![start.y] = [rest[start.y] EXCEPT !.ghost = g]]
    BY DEF new
  <2> QED BY <1>1, <1>2, <1>3, <2>1, <2>2, ShutIs
<1>8. after.lines = t
  BY DEF Buf
<1> HIDE DEF t, u, after, blocks, new, rest, flagged, ok, record
<1>9. c = (IF lines[end.y].ghost THEN <<>> ELSE tail ++ Break) ++ rb
  BY <1>2 DEF Below, Rest, TailOf
<1>10. /\ Word(tail) /\ Text(tail) /\ Text(rb) /\ (lines[end.y].ghost => tail = <<>> /\ end.y < Len(lines))
       /\ HeadOf(lines, start) = <<>> <=> start.x = 0
       /\ Proper(lines)
  <2>1. /\ Word(TailOf(lines, end)) /\ Text(TailOf(lines, end))
        /\ (lines[end.y].ghost => tail = <<>> /\ end.y < Len(lines))
    <3> HIDE DEF lines
    <3> QED BY <1>1, LineParts
  <2>2. Len(HeadOf(lines, start)) = start.x /\ Text(HeadOf(lines, start))
    <3> HIDE DEF lines
    <3> QED BY <1>1, LineParts
  <2>3. Proper(lines)
    BY <1>1 DEF WellSet
  <2>4. Text(rb)
    <3> HIDE DEF lines
    <3> QED BY <1>2, <2>3, RowsAround
  <2>5. HeadOf(lines, start) = <<>> <=> start.x = 0
    BY <2>2, TextLen
  <2> QED BY <2>1, <2>3, <2>4, <2>5
<1> HIDE DEF rb, tail
<1>11. Grew(ur) => /\ start.x = 0 /\ tail = <<>> /\ rb # <<>>
                   /\ \A d : Text(d) /\ c = Break ++ d => rb = d
  <2> SUFFICES ASSUME Grew(ur)
               PROVE  /\ start.x = 0 /\ tail = <<>> /\ rb # <<>>
                      /\ \A d : Text(d) /\ c = Break ++ d => rb = d
    BY SMTT(20)
  <2>1. c = (tail ++ Break) ++ rb /\ start.x = 0
    BY <1>9
  <2>2. ASSUME NEW d, Text(d), c = Break ++ d PROVE tail = <<>> /\ rb = d
    BY <1>10, <2>1, <2>2, NothingBehind
  <2>3. PICK d : Text(d) /\ d # <<>> /\ c = Break ++ d
    OBVIOUS
  <2>4. tail = <<>> /\ rb = d
    BY <2>2, <2>3
  <2> QED BY <2>1, <2>2, <2>3, <2>4
<1>12. rb # <<>> => end.y < Len(lines)
  <2> SUFFICES ASSUME ~ (end.y < Len(lines)) PROVE rb = <<>>
    OBVIOUS
  <2>1. end.y = Len(lines)
    <3> HIDE DEF lines, end
    <3> QED BY <1>2
  <2> DEFINE n == Len(lines)
  <2>2. SubSeq(lines, n + 1, n) = <<>>
    <3>1. n \in 0 .. n /\ n - n = 0
      BY <1>2
    <3> HIDE DEF n
    <3>2. Proper(SubSeq(lines, n + 1, n)) /\ Len(SubSeq(lines, n + 1, n)) = 0
      BY <1>10, <3>1, LinesCut DEF n
    <3> DEFINE x == SubSeq(lines, n + 1, n)
    <3> HIDE DEF x
    <3>3. IsSeq(x) /\ Len(x) = 0
      BY <3>2 DEF Proper, x
    <3>4. x = <<>>
      BY <3>3, SeqIs
    <3> QED BY <3>4 DEF x
  <2> QED BY <2>1, <2>2, ProperNone DEF rb, RowsBelow
<1>13. ShutBody(lines, start, end, g, t)
  <2>1. g => HeadOf(lines, start) = <<>> /\ TailOf(lines, end) = <<>>
    BY <1>1, <1>10, <1>11 DEF tail
  <2> HIDE DEF lines, start, end, g
  <2> QED BY <1>1, <1>2, <1>3, <1>7, <2>1, ShutBodyIs
<1>14. g => end.y < Len(lines)
  BY SMTT(20), <1>10, <1>11, <1>12
<1>15. /\ Proper(t) /\ Len(t) # 0 /\ ~ t[Len(t)].ghost
       /\ Body(t) = a ++ (IF g THEN rb ELSE (tail ++ Break) ++ rb)
       /\ InText(t, start) /\ Above(t, start) = a /\ t[start.y].ghost = g
  BY <1>1, <1>13, <1>14 DEF ShutBody, rb, tail
<1>16. WellBuf(after)
  BY <1>6, <1>8, <1>15 DEF WellBuf, WellSet, IsBuf
<1>17. Leads(Stored(after, start), a) /\ (Stored(after, start).nGhost > 0 <=> g)
  <2>1. InText(after.lines, start) /\ Above(after.lines, start) = a /\ after.lines[start.y].ghost = g
    BY <1>8, <1>15
  <2> HIDE DEF g
  <2>2. /\ Leads(Stored(after, start), Above(after.lines, start))
        /\ Stored(after, start).nGhost > 0 <=> after.lines[start.y].ghost
    BY <1>16, <2>1, StoredLeads
  <2> QED BY <2>1, <2>2
<1>18. ASSUME NEW d, Text(d), c = IF Grew(ur) THEN Break ++ d ELSE d
       PROVE  Body(t) = a ++ d
  <2>1. CASE Grew(ur)
    BY <1>11, <1>15, <1>18, <2>1
  <2>2. CASE ~ Grew(ur) /\ lines[end.y].ghost
    <3>1. <<>> ++ rb = rb
      BY <1>10, TextWithNone
    <3> QED BY <1>9, <1>15, <1>18, <2>2, <3>1
  <2>3. CASE ~ Grew(ur) /\ ~ lines[end.y].ghost
    BY <1>9, <1>15, <1>18, <2>3
  <2> QED BY <2>1, <2>2, <2>3
<1>19. UndoesInsertion(at, ur, a, c, u)
  BY <1>5, <1>8, <1>16, <1>17, <1>18, Zenon DEF UndoesInsertion
<1> QED BY <1>19 DEF u

-----------------------------------------------------------------------------
(* What the undo of a deletion puts back *)

(* What is known of the undo of a deletion                                 *)
UndoesDeletion(at, ur, u) ==
    LET a == Above(at.buf.lines, at.start)
    IN  /\ u.ok /\ WellBuf(u.buf)
        /\ Body(u.buf.lines) = (a ++ ur.text) ++ Below(at.buf.lines, at.start)
        /\ \E p, q : /\ u.record = [ur EXCEPT !.redoStart = p, !.redoEnd = q]
                     /\ Leads(p, a) /\ Leads(q, a ++ ur.text) /\ p.nGhost = 0 /\ q.nGhost = 0

(* Undoing a deletion puts its text in again and sets the record for a     *)
(* redo.                                                                   *)
LEMMA UndoDeletionJoins ==
    ASSUME BufferAssumption, NEW at, WellBuf(at.buf), InText(at.buf.lines, at.start),
           ~ at.buf.lines[at.start.y].ghost,
           NEW ur, IsRecord(ur), ~ ur.insert, Text(ur.text), ur.text # <<>>,
           ur.nReal = Eols(ur.text) + 1
    PROVE  UndoesDeletion(at, ur, UndoDeletion(at, ur))
<1> DEFINE lines == at.buf.lines
           start == at.start
           y == start.y
           text == ur.text
           ins == InternalInsertText(lines, start, text)
           e == Eols(text)
           M == LinesNew(lines, start, text)
           ghosts == (GhostsOf(ins.lines) \union start.y .. ins.end.y)
                         \ (start.y .. start.y + ur.nReal - 1)
           marked == SetGhosts(ins.lines, ghosts)
           flagged == Buf(marked)
           t == RecomputeEOL(marked, flagged.blocks, start.y, ins.end.y)
           after == [flagged EXCEPT !.lines = t]
           p == Stored(after, start)
           q == Stored(after, ins.end)
           record == [ur EXCEPT !.redoStart = p, !.redoEnd = q]
           a == Above(lines, start)
           c == Below(lines, start)
           u == UndoDeletion(at, ur)
<1>1. u = [ok |-> TRUE, buf |-> after, record |-> record]
  <2>1. flagged.lines = marked
    BY DEF Buf
  <2>2. after = [flagged EXCEPT !.lines =
                    RecomputeEOL(@, flagged.blocks, start.y, ins.end.y)]
    BY <2>1, Zenon
  <2> HIDE DEF after, ins
  <2> QED BY <2>2, Zenon DEF UndoDeletion, flagged, marked, ghosts, start, ins
<1>2. u.ok /\ u.buf = after /\ u.record = record
  <2> HIDE DEF u, after, record
  <2> QED BY <1>1
<1>3. IsBuf(after)
  <2>1. start.x \in Int
    BY AboveAndBelow DEF WellBuf, WellSet
  <2>2. IsUndone(u, ur)
    <3> HIDE DEF u, lines, start
    <3>1. IsBuf(at.buf) /\ InText(at.buf.lines, at.start) /\ at.start.x \in Int
      BY <2>1 DEF WellBuf, start
    <3> QED BY <3>1, UndoDeletionIs DEF u
  <2> HIDE DEF u, after
  <2> QED BY <1>2, <2>2 DEF IsUndone
<1> HIDE DEF u
<1>4. /\ WellSet(lines) /\ InText(lines, start) /\ ~ lines[start.y].ghost
      /\ Text(text) /\ text # <<>>
      /\ y \in 1 .. Len(lines) /\ Len(lines) \in Nat /\ e \in Nat
  <2>1. e \in Nat
    BY EolsJoined
  <2> QED BY <2>1, AboveAndBelow, LineParts DEF WellBuf
<1>5. Made(lines, start, text, ins)
  <2> HIDE DEF lines, start, text
  <2> QED BY SMTT(20), <1>4, LinesAreMade
<1>6. ins.end = EndOf(lines, start, text) /\ IsLines(ins.lines)
  BY <1>5 DEF Made
<1>7. M = e + 1 /\ ins.end.y = y + e
  <2>1. M = e + 1
    BY <1>4 DEF LinesNew
  <2>2. EndOf(lines, start, text).y = y + e
    BY DEF EndOf, Point
  <2> QED BY <1>6, <2>1, <2>2
<1>8. \A i \in 1 .. Len(ins.lines) :
          i \in ghosts <=> ins.lines[i].ghost /\ ~ (start.y <= i /\ i < start.y + M)
  <2>1. DOMAIN ins.lines = 1 .. Len(ins.lines) /\ Len(ins.lines) \in Nat
    BY <1>6, SeqIs DEF IsLines
  <2>2. ur.nReal = e + 1
    OBVIOUS
  <2> SUFFICES ASSUME NEW i \in 1 .. Len(ins.lines)
               PROVE  i \in ghosts <=> ins.lines[i].ghost /\ ~ (start.y <= i /\ i < start.y + M)
    OBVIOUS
  <2>3. i \in GhostsOf(ins.lines) <=> ins.lines[i].ghost
    BY <2>1 DEF GhostsOf
  <2>4. i \in Int /\ y \in Int
    BY <1>4, <2>1
  <2>5. i \in y .. ins.end.y <=> (y <= i /\ i < y + M)
    <3> HIDE DEF y, e, M, ins
    <3> QED BY <1>4, <1>7, <2>4
  <2>6. i \in y .. y + ur.nReal - 1 <=> (y <= i /\ i < y + M)
    <3> HIDE DEF y, e, M, ins
    <3> QED BY <1>4, <1>7, <2>2, <2>4
  <2> HIDE DEF ins, M
  <2> QED BY <2>3, <2>5, <2>6
<1> HIDE DEF ghosts
<1>9. Realises(lines, start, text, ins.lines, t)
  <2> HIDE DEF lines, ins, text, start
  <2> QED BY <1>6, <1>8, RealisesIs DEF M
<1>10. Inserted(lines, start, text, t)
  <2> HIDE DEF lines, text, start, t
  <2> QED BY <1>4, <1>9, InsertedIs DEF ins
<1>11. after.lines = t
  BY DEF Buf
<1> HIDE DEF after, t, flagged, marked
<1>12. /\ Proper(t) /\ Len(t) # 0 /\ ~ t[Len(t)].ghost
       /\ Body(t) = (a ++ text) ++ c
       /\ InText(t, start) /\ Above(t, start) = a /\ ~ t[start.y].ghost
       /\ InText(t, ins.end) /\ Above(t, ins.end) = a ++ text /\ ~ t[ins.end.y].ghost
  <2>1. ~ Grows(lines, start, text)
    BY <1>4 DEF Grows
  <2> HIDE DEF lines, text, start, ins
  <2> QED BY <1>4, <1>6, <1>10, <2>1 DEF Inserted
<1> HIDE DEF ins
<1>13. WellBuf(after)
  BY <1>3, <1>11, <1>12 DEF WellBuf, WellSet, IsBuf
<1>14. /\ Leads(p, a) /\ p.nGhost = 0 /\ Leads(q, a ++ text) /\ q.nGhost = 0
  <2> DEFINE end == ins.end
             n == p.nGhost
             m == q.nGhost
  <2>1. /\ InText(after.lines, start) /\ Above(after.lines, start) = a /\ ~ after.lines[start.y].ghost
        /\ InText(after.lines, end) /\ Above(after.lines, end) = a ++ text /\ ~ after.lines[end.y].ghost
    BY <1>11, <1>12
  <2> HIDE DEF start, end, a, text
  <2>2. /\ Leads(p, a) /\ (p.nGhost > 0 <=> after.lines[start.y].ghost) /\ p.nGhost \in Nat
    BY <1>13, <2>1, StoredLeads
  <2>3. /\ Leads(q, a ++ text) /\ (q.nGhost > 0 <=> after.lines[end.y].ghost) /\ q.nGhost \in Nat
    BY <1>13, <2>1, StoredLeads DEF end
  <2> HIDE DEF n, m, p, q
  <2> QED BY <2>1, <2>2, <2>3
<1> HIDE DEF p, q
<1>15. UndoesDeletion(at, ur, u)
  BY <1>2, <1>11, <1>12, <1>13, <1>14 DEF UndoesDeletion
<1> QED BY <1>15 DEF u

-----------------------------------------------------------------------------
(* Where a deletion ends *)

(* At a real line, and below the ghost line it was to end at.              *)
LEMMA DeletionEndReal ==
    ASSUME BufferAssumption, NEW lines, WellSet(lines), NEW p, InText(lines, p)
    PROVE  /\ InText(lines, DeletionEnd(lines, p)) /\ ~ lines[DeletionEnd(lines, p).y].ghost
           /\ DeletionEnd(lines, p).x = p.x
           /\ DeletionEnd(lines, p).y >= p.y /\ DeletionEnd(lines, p).y \in Nat
           /\ ~ lines[p.y].ghost => DeletionEnd(lines, p) = Point(p.y, p.x)
<1> DEFINE N == Len(lines)
           S == {y \in p.y .. N : ~ lines[y].ghost \/ y = N}
           z == Min(S)
<1>1. /\ p.y \in 1 .. N /\ N \in Nat /\ p.x \in Nat /\ p.x <= Len(lines[p.y].text)
      /\ (lines[p.y].ghost => p.x = 0)
      /\ ~ lines[N].ghost /\ Proper(lines) /\ DOMAIN lines = 1 .. N
  BY AboveAndBelow, LineParts, ProperIs DEF WellSet
<1>2. S \in SUBSET Nat /\ N \in S
  BY <1>1
<1>3. z \in S /\ \A y \in S : z <= y
  <2> HIDE DEF S
  <2> QED BY <1>2, MinOf
<1>4. DeletionEnd(lines, p) = Point(z, p.x)
  BY DEF DeletionEnd
<1>5. z \in p.y .. N /\ ~ lines[z].ghost /\ z \in Nat
  <2>1. z \in p.y .. N /\ (~ lines[z].ghost \/ z = N)
    <3> HIDE DEF z
    <3> QED BY <1>3
  <2> HIDE DEF z, N
  <2>2. ~ lines[z].ghost
    BY <1>1, <2>1
  <2>3. z \in Nat
    BY <1>1, <2>1
  <2> QED BY <2>1, <2>2, <2>3
<1>6. ~ lines[p.y].ghost => z = p.y
  <2> SUFFICES ASSUME ~ lines[p.y].ghost PROVE z = p.y
    OBVIOUS
  <2>1. p.y \in S
    BY <1>1
  <2> HIDE DEF S, z
  <2> QED BY <1>1, <1>3, <1>5, <2>1
<1> HIDE DEF S, z
<1>7. InText(lines, Point(z, p.x))
  <2>1. z \in DOMAIN lines
    BY <1>1, <1>5
  <2>2. p.x \in 0 .. Len(lines[z].text)
    <3>1. IsWordLine(lines[z])
      BY <1>1, <2>1 DEF Proper
    <3>2. Len(lines[z].text) \in Nat
      <4>1. IsSeq(lines[z].text)
        BY <3>1 DEF IsWordLine, IsLine
      <4> QED BY <4>1, SeqIs
    <3>3. CASE lines[p.y].ghost
      BY <1>1, <3>2, <3>3
    <3>4. CASE ~ lines[p.y].ghost
      BY <1>1, <1>6, <3>2, <3>4
    <3> QED BY <3>3, <3>4
  <2> QED BY <2>1, <2>2 DEF InText, Point
<1>8. Point(z, p.x).y = z /\ Point(z, p.x).x = p.x
  BY DEF Point
<1> QED BY <1>1, <1>4, <1>5, <1>6, <1>7, <1>8

-----------------------------------------------------------------------------
(* Records that fit the texts before and after a change *)

(* Undoing an insertion: the text between its ends goes, and with it the   *)
(* line break that a ghost line got.                                       *)
InsertFits(ur, X, Y) ==
    \E a, c, new :
        /\ Text(a) /\ Text(c) /\ c # <<>> /\ Text(new) /\ new # <<>>
        /\ X = a ++ new /\ Y = (a ++ ur.text) ++ c
        /\ Leads(ur.start, a) /\ ur.start.nGhost = 0
        /\ Leads(ur.end, a ++ ur.text) /\ (ur.end.nGhost > 0 => ur.start.x = 0)
        /\ c = IF Grew(ur) THEN Break ++ new ELSE new
        /\ Grew(ur) => ur.start.x = 0 /\ ur.end.nGhost = 0 /\ ~ Ended(ur.text)

(* Undoing a deletion: the text comes back at its start.                   *)
DeleteFits(ur, X, Y) ==
    \E a, c :
        /\ Text(a) /\ Text(c) /\ c # <<>>
        /\ X = (a ++ ur.text) ++ c /\ Y = a ++ c
        /\ Leads(ur.start, a) /\ ur.start.nGhost = 0
        /\ ur.nReal = Eols(ur.text) + 1

(* Undoing the record makes the rows X of the rows Y.                      *)
Fits(ur, X, Y) ==
    /\ IsRecord(ur) /\ ur.insert \in BOOLEAN /\ Text(ur.text) /\ ur.text # <<>> /\ ur.nReal \in Nat
    /\ ur.insert => InsertFits(ur, X, Y)
    /\ ~ ur.insert => DeleteFits(ur, X, Y)

(* Redoing an insertion: the text goes in where the undo says.             *)
InsertRedoes(ur, X, Y) ==
    \E a, c :
        /\ Text(a) /\ Text(c) /\ c # <<>>
        /\ X = a ++ c /\ Leads(ur.redoStart, a)
        /\ Y = (a ++ ur.text) ++ (IF ur.redoStart.nGhost > 0 /\ ~ Ended(ur.text)
                                  THEN Break ++ c ELSE c)

(* Redoing a deletion: the text goes from where the undo says.             *)
DeleteRedoes(ur, X, Y) ==
    \E a, c :
        /\ Text(a) /\ Text(c) /\ c # <<>>
        /\ X = (a ++ ur.text) ++ c /\ Y = a ++ c
        /\ Leads(ur.redoStart, a) /\ ur.redoStart.nGhost = 0
        /\ Leads(ur.redoEnd, a ++ ur.text) /\ ur.redoEnd.nGhost = 0

(* Redoing the record makes the rows Y of the rows X.                      *)
Redoes(ur, X, Y) ==
    /\ ur.insert => InsertRedoes(ur, X, Y)
    /\ ~ ur.insert => DeleteRedoes(ur, X, Y)

(* No ghost line is made for a place in a real line.                       *)
LEMMA NothingProvided ==
    ASSUME NEW b, NEW place, place.nGhost = 0
    PROVE  Provide(b, place) = b
BY DEF Provide

(* A place is found again in rows that go on below it.                     *)
LEMMA FoundAgain ==
    ASSUME BufferAssumption, NEW b, WellBuf(b), NEW place, NEW a, NEW c, Leads(place, a),
           Text(c), c # <<>>, Body(b.lines) = a ++ c
    PROVE  /\ Resolved(b.lines, Apparent(b, place), place, a)
           /\ Provided(b, Provide(b, place), Apparent(b, place), place, a)
<1>1. Resolved(b.lines, Apparent(b, place), place, a)
  BY ResolveIs
<1>2. Provided(b, Provide(b, place), Apparent(b, place), place, a)
  BY <1>1, ProvideKeeps
<1> QED BY <1>1, <1>2

(* The text of an insertion is found again between its ends.               *)
Findable(b, first, second, text, a, c) ==
    /\ WellBuf(b) /\ Text(a) /\ Text(text) /\ text # <<>> /\ Text(c) /\ c # <<>>
    /\ Leads(first, a) /\ first.nGhost = 0 /\ Leads(second, a ++ text)
    /\ second.nGhost > 0 => first.x = 0
    /\ Body(b.lines) = (a ++ text) ++ c

(* What is found of it: its two ends in the buffer.                        *)
FoundAt(b, first, second, text, a, c, at) ==
    /\ Holds(at, text, a, c) /\ at.start.x = first.x
    /\ at.buf.lines[at.end.y].ghost <=> second.nGhost > 0

(* The two ends of a recorded insertion are found again with its text      *)
(* between them.                                                           *)
LEMMA FoundToUndo ==
    ASSUME BufferAssumption, NEW b, NEW first, NEW second, NEW text, NEW a, NEW c,
           Findable(b, first, second, text, a, c)
    PROVE  FoundAt(b, first, second, text, a, c, Locate(b, first, second, TRUE))
<1> DEFINE lines == b.lines
           p == Apparent(b, first)
           q == Apparent(b, second)
           new == Provide(b, second)
           e == a ++ text
           d == text ++ c
           at == Locate(b, first, second, TRUE)
<1>0. /\ WellBuf(b) /\ Text(a) /\ Text(text) /\ text # <<>> /\ Text(c) /\ c # <<>>
      /\ Leads(first, a) /\ first.nGhost = 0 /\ Leads(second, a ++ text)
      /\ second.nGhost > 0 => first.x = 0
      /\ Body(b.lines) = (a ++ text) ++ c
  BY DEF Findable
<1>1. Provide(b, first) = b
  BY <1>0, NothingProvided
<1>2. at.buf = new /\ at.start = p /\ at.end = q
  <2> DEFINE l == Locate(b, first, second, TRUE)
  <2>1. l.buf = Provide(Provide(b, first), second) /\ l.start = Apparent(b, first)
        /\ l.end = Apparent(Provide(b, first), second)
    BY DEF Locate
  <2>2. at = l
    OBVIOUS
  <2> HIDE DEF l, at
  <2> QED BY <1>1, <2>1, <2>2
<1>3. Text(e) /\ Text(d) /\ d # <<>> /\ a ++ d = e ++ c
  <2>1. Text(e) /\ Text(d) /\ Len(d) = Len(text) + Len(c)
    BY <1>0, TextJoined
  <2>2. Len(text) \in Nat /\ Len(c) \in Nat /\ Len(c) # 0 /\ (Len(d) = 0 <=> d = <<>>)
    BY <1>0, <2>1, TextLen
  <2>3. a ++ d = e ++ c
    BY <1>0, TextInAnyOrder
  <2> HIDE DEF d, e
  <2>4. Len(d) # 0
    <3> DEFINE k == Len(text)
               l == Len(c)
               o == Len(d)
    <3>1. o = k + l /\ k \in Nat /\ l \in Nat /\ l # 0
      BY <2>1, <2>2
    <3> HIDE DEF k, l, o
    <3>2. o # 0
      BY <3>1
    <3> QED BY <3>2 DEF o
  <2> QED BY <2>1, <2>2, <2>3, <2>4
<1>4. Body(lines) = a ++ d /\ Body(lines) = e ++ c /\ Leads(second, e)
  BY <1>0, <1>3
<1> HIDE DEF d, e, p, q, new, lines, at
<1>5. Resolved(lines, p, first, a)
  BY <1>0, <1>3, <1>4, FoundAgain DEF p, lines
<1>6. Resolved(lines, q, second, e) /\ Provided(b, new, q, second, e)
  BY <1>0, <1>3, <1>4, FoundAgain DEF q, new, lines
<1>7. /\ InText(lines, p) /\ Above(lines, p) = a /\ p.x = first.x
      /\ InText(lines, q) /\ Above(lines, q) = e /\ q.x = second.x
  BY <1>5, <1>6 DEF Resolved
<1>8. WellSet(lines)
  BY <1>0 DEF WellBuf, lines
<1>9. Before(p, q)
  BY <1>0, <1>7, <1>8, TextBetween DEF e
<1>10. /\ WellBuf(new) /\ Body(new.lines) = Body(lines)
       /\ InText(new.lines, q) /\ Above(new.lines, q) = e
       /\ (new.lines[q.y].ghost <=> second.nGhost > 0)
       /\ \A x : InText(lines, x) /\ x.y < q.y =>
                     InText(new.lines, x) /\ Above(new.lines, x) = Above(lines, x)
       /\ second.nGhost = 0 => new = b
  BY <1>6 DEF Provided, lines
<1>11. InText(new.lines, p) /\ Above(new.lines, p) = a
  <2>1. CASE second.nGhost = 0
    BY <1>7, <1>10, <2>1 DEF lines
  <2>2. CASE second.nGhost # 0
    <3>1. second.nGhost \in Nat /\ (second.nGhost > 0 => second.x = 0)
      BY <1>4 DEF Leads
    <3>2. second.x = 0
      BY <2>2, <3>1
    <3>3. p.y \in Nat /\ p.x \in Nat /\ q.y \in Nat
      BY <1>7, <1>8, AboveAndBelow DEF WellSet
    <3>4. p.y < q.y
      BY <1>7, <1>9, <3>2, <3>3 DEF Before
    <3> QED BY <1>7, <1>10, <3>4
  <2> QED BY <2>1, <2>2
<1>12. FoundAt(b, first, second, text, a, c, at)
  BY <1>0, <1>2, <1>4, <1>7, <1>10, <1>11 DEF FoundAt, Holds, e, lines
<1> QED BY <1>12 DEF at

(* What a record keeps when its places for redo are set                    *)
LEMMA FitsWith ==
    ASSUME NEW ur, NEW X, NEW Y, Fits(ur, X, Y), NEW new, IsRecord(new),
           new.insert = ur.insert, new.text = ur.text, new.nReal = ur.nReal,
           new.start = ur.start, new.end = ur.end
    PROVE  Fits(new, X, Y)
<1>1. Grew(new) <=> Grew(ur)
  BY DEF Grew
<1>2. ur.insert => InsertFits(new, X, Y)
  BY <1>1, Zenon DEF Fits, InsertFits
<1>3. ~ ur.insert => DeleteFits(new, X, Y)
  BY Zenon DEF Fits, DeleteFits
<1> QED BY <1>2, <1>3 DEF Fits

(* Setting where a redo starts changes nothing else of a record.           *)
LEMMA SetForRedo ==
    ASSUME NEW ur, IsRecord(ur), NEW p
    PROVE  LET new == [ur EXCEPT !.redoStart = p]
           IN  /\ new.insert = ur.insert /\ new.text = ur.text /\ new.nReal = ur.nReal
               /\ new.start = ur.start /\ new.end = ur.end /\ new.begin = ur.begin
               /\ new.redoStart = p
<1>1. DOMAIN ur = {"insert", "begin", "text", "nReal", "start", "end", "redoStart", "redoEnd"}
  BY DEF IsRecord
<1> QED BY <1>1

(* Setting where a redo starts and ends changes nothing else of a record.  *)
LEMMA BothSetForRedo ==
    ASSUME NEW ur, IsRecord(ur), NEW p, NEW q
    PROVE  LET new == [ur EXCEPT !.redoStart = p, !.redoEnd = q]
           IN  /\ new.insert = ur.insert /\ new.text = ur.text /\ new.nReal = ur.nReal
               /\ new.start = ur.start /\ new.end = ur.end /\ new.begin = ur.begin
               /\ new.redoStart = p /\ new.redoEnd = q
<1>1. DOMAIN ur = {"insert", "begin", "text", "nReal", "start", "end", "redoStart", "redoEnd"}
  BY DEF IsRecord
<1> QED BY <1>1

-----------------------------------------------------------------------------
(* Undo of a record, redo of a record *)

(* The rows below a place are what follows the rows above it.              *)
LEMMA BelowIs ==
    ASSUME BufferAssumption, NEW lines, WellSet(lines), NEW p, InText(lines, p),
           NEW a, NEW c, Text(a), Text(c), Above(lines, p) = a, Body(lines) = a ++ c
    PROVE  Below(lines, p) = c
<1> DEFINE d == Below(lines, p)
<1>1. Text(d) /\ Body(lines) = a ++ d
  BY AboveAndBelow DEF WellSet
<1> HIDE DEF d
<1>2. a ++ c = a ++ d
  BY <1>1
<1>3. c = d
  BY <1>1, <1>2, CancelStart
<1> QED BY <1>3 DEF d

(* What an undo of a record does to the text and to the record.            *)
UndoneTo(ur, X, Y, u) ==
    /\ u.ok /\ WellBuf(u.buf) /\ Body(u.buf.lines) = X
    /\ Fits(u.record, X, Y) /\ Redoes(u.record, X, Y) /\ u.record.begin = ur.begin

(* Undoing the record of an insertion brings back the text that was there  *)
(* before it; the replay never fails the comparison with the recorded      *)
(* text.                                                                   *)
LEMMA InsertionUndone ==
    ASSUME BufferAssumption, NEW step, step.ok, NEW b, b = step.buf, WellBuf(b),
           NEW ur, NEW X, NEW Y, Fits(ur, X, Y), ur.insert, Body(b.lines) = Y
    PROVE  UndoFits(step, ur) /\ UndoneTo(ur, X, Y, UndoRecord(b, ur))
<1> DEFINE first == ur.start
           second == ur.end
           at == Locate(b, first, second, TRUE)
           text == ur.text
           u == UndoInsertion(at, ur)
           p == Stored(u.buf, at.start)
<1>1. /\ IsRecord(ur) /\ ur.insert = TRUE /\ Text(text) /\ text # <<>> /\ InsertFits(ur, X, Y)
  BY DEF Fits
<1>2. PICK a, c, new :
        /\ Text(a) /\ Text(c) /\ c # <<>> /\ Text(new) /\ new # <<>>
        /\ X = a ++ new /\ Y = (a ++ text) ++ c
        /\ Leads(ur.start, a) /\ ur.start.nGhost = 0
        /\ Leads(ur.end, a ++ text) /\ (ur.end.nGhost > 0 => ur.start.x = 0)
        /\ c = IF Grew(ur) THEN Break ++ new ELSE new
        /\ Grew(ur) => ur.start.x = 0 /\ ur.end.nGhost = 0 /\ ~ Ended(text)
  BY <1>1 DEF InsertFits
<1> DEFINE e == a ++ text
<1>3. /\ Holds(at, text, a, c) /\ at.start.x = first.x
      /\ (at.buf.lines[at.end.y].ghost <=> second.nGhost > 0)
  <2>1. Findable(b, first, second, text, a, c)
    BY <1>1, <1>2 DEF Findable
  <2> HIDE DEF first, second, text
  <2>2. FoundAt(b, first, second, text, a, c, at)
    BY <2>1, FoundToUndo
  <2> HIDE DEF at
  <2> QED BY <2>2 DEF FoundAt
<1> HIDE DEF at
<1>4. UndoesInsertion(at, ur, a, c, u)
  <2>1. Grew(ur) => /\ at.start.x = 0 /\ ~ at.buf.lines[at.end.y].ghost
                    /\ \E n : Text(n) /\ n # <<>> /\ c = Break ++ n
    <3> SUFFICES ASSUME Grew(ur)
                 PROVE  /\ at.start.x = 0 /\ ~ at.buf.lines[at.end.y].ghost
                        /\ \E n : Text(n) /\ n # <<>> /\ c = Break ++ n
      OBVIOUS
    <3>1. c = Break ++ new /\ first.x = 0 /\ second.nGhost = 0
      BY <1>2
    <3>2. ~ (second.nGhost > 0)
      BY <3>1
    <3> QED BY <1>2, <1>3, <3>1, <3>2
  <2> QED BY <1>1, <1>3, <2>1, UndoInsertionJoins
<1>5. UndoFits(step, ur)
  <2>1. Before(at.start, at.end) /\ at.start.y \in Int /\ at.end.y \in Int
        /\ at.start.x \in Nat /\ at.end.x \in Nat
    <3>1. /\ Before(at.start, at.end) /\ Len(at.buf.lines) \in Nat
          /\ at.start.y \in 1 .. Len(at.buf.lines) /\ at.end.y \in 1 .. Len(at.buf.lines)
          /\ at.start.x \in Nat /\ at.end.x \in Nat
      BY <1>3, HeldText
    <3> QED BY <3>1
  <2>2. ~ Before(at.end, at.start)
    BY <2>1 DEF Before
  <2> QED BY <1>1, <2>2 DEF UndoFits, at
<1>6. UndoRecord(b, ur) = u
  BY <1>1 DEF UndoRecord, at
<1>7. /\ u.ok /\ WellBuf(u.buf)
      /\ u.record = [ur EXCEPT !.redoStart = p]
      /\ Leads(p, a)
      /\ (p.nGhost > 0 <=> at.buf.lines[at.end.y].ghost \/ Grew(ur))
  <2> HIDE DEF u
  <2> QED BY <1>4 DEF UndoesInsertion
<1>8. Body(u.buf.lines) = X
  <2>1. Text(new) /\ c = (IF Grew(ur) THEN Break ++ new ELSE new)
    BY <1>2
  <2>2. Body(u.buf.lines) = a ++ new
    <3> HIDE DEF u
    <3> QED BY <1>4, <2>1 DEF UndoesInsertion
  <2> QED BY <1>2, <2>2
<1> DEFINE record == u.record
<1> HIDE DEF u, p
<1>9. /\ record.insert = ur.insert /\ record.text = ur.text /\ record.nReal = ur.nReal
      /\ record.start = ur.start /\ record.end = ur.end /\ record.begin = ur.begin
      /\ record.redoStart = p /\ IsRecord(record)
  <2>1. IsPlace(p)
    BY <1>7, LeadsText
  <2>2. /\ record.insert = ur.insert /\ record.text = ur.text /\ record.nReal = ur.nReal
        /\ record.start = ur.start /\ record.end = ur.end /\ record.begin = ur.begin
        /\ record.redoStart = p
    <3>1. DOMAIN ur = {"insert", "begin", "text", "nReal", "start", "end", "redoStart", "redoEnd"}
      BY <1>1 DEF IsRecord
    <3> QED BY <1>7, <3>1
  <2>3. IsRecord([ur EXCEPT !.redoStart = p])
    BY <1>1, <2>1, RecordWith
  <2>4. IsRecord(record)
    BY <1>7, <2>3, Zenon
  <2> QED BY <2>2, <2>4
<1>10. Fits(record, X, Y)
  BY <1>9, FitsWith
<1>11. Redoes(record, X, Y)
  <2>1. p.nGhost > 0 /\ ~ Ended(text) <=> Grew(ur)
    <3>1. CASE Grew(ur)
      BY <1>2, <1>7, <3>1
    <3>2. CASE ~ Grew(ur) /\ at.buf.lines[at.end.y].ghost
      <4>1. second.x = 0
        BY <1>2, <1>3, <3>2 DEF Leads
      <4>2. Ended(a ++ text)
        BY <1>2, <4>1, LeadsEnded
      <4>3. Ended(text)
        BY <1>1, <1>2, <4>2, EndedPart
      <4> QED BY <3>2, <4>3
    <3>3. CASE ~ Grew(ur) /\ ~ at.buf.lines[at.end.y].ghost
      BY <1>7, <3>3
    <3> QED BY <3>1, <3>2, <3>3
  <2>2. Y = (a ++ text) ++ (IF p.nGhost > 0 /\ ~ Ended(text) THEN Break ++ new ELSE new)
    <3>1. CASE Grew(ur)
      BY <1>2, <2>1, <3>1
    <3>2. CASE ~ Grew(ur)
      BY <1>2, <2>1, <3>2
    <3> QED BY <3>1, <3>2
  <2>3. InsertRedoes(record, X, Y)
    <3> HIDE DEF record
    <3>1. record.redoStart = p /\ record.text = text
      BY <1>9
    <3> QED BY <1>2, <1>7, <2>2, <3>1 DEF InsertRedoes
  <2> QED BY <1>1, <1>9, <2>3 DEF Redoes
<1>12. UndoneTo(ur, X, Y, u)
  BY <1>7, <1>8, <1>9, <1>10, <1>11 DEF UndoneTo
<1> QED BY <1>5, <1>6, <1>12

(* Undoing the record of a deletion brings back the text that was there    *)
(* before it; the replay never fails.                                      *)
LEMMA DeletionUndone ==
    ASSUME BufferAssumption, NEW step, step.ok, NEW b, b = step.buf, WellBuf(b),
           NEW ur, NEW X, NEW Y, Fits(ur, X, Y), ~ ur.insert, Body(b.lines) = Y
    PROVE  UndoFits(step, ur) /\ UndoneTo(ur, X, Y, UndoRecord(b, ur))
<1> DEFINE at == Locate(b, ur.start, ur.end, FALSE)
           text == ur.text
           u == UndoDeletion(at, ur)
           first == ur.start
           start == Apparent(b, first)
<1>1. /\ IsRecord(ur) /\ ur.insert = FALSE /\ Text(text) /\ text # <<>> /\ DeleteFits(ur, X, Y)
  BY DEF Fits
<1>2. PICK a, c :
        /\ Text(a) /\ Text(c) /\ c # <<>>
        /\ X = (a ++ text) ++ c /\ Y = a ++ c
        /\ Leads(first, a) /\ first.nGhost = 0
        /\ ur.nReal = Eols(text) + 1
  BY <1>1 DEF DeleteFits
<1>3. at.buf = b /\ at.start = start
  <2>1. at.buf = Provide(b, first) /\ at.start = start
    BY DEF Locate
  <2> QED BY <1>2, <2>1, NothingProvided
<1>4. InText(b.lines, start) /\ Above(b.lines, start) = a /\ ~ b.lines[start.y].ghost
  <2>1. Resolved(b.lines, start, first, a)
    <3> HIDE DEF first
    <3> QED BY <1>2, FoundAgain
  <2> HIDE DEF start, first
  <2> QED BY <1>2, <2>1 DEF Resolved
<1> HIDE DEF start
<1>5. Below(b.lines, start) = c
  BY <1>2, <1>4, BelowIs DEF WellBuf
<1> HIDE DEF at
<1>6. UndoesDeletion(at, ur, u)
  <2> HIDE DEF u
  <2> QED BY <1>1, <1>2, <1>3, <1>4, UndoDeletionJoins DEF u
<1>7. UndoFits(step, ur)
  BY <1>1, <1>3, <1>4 DEF UndoFits, at
<1>8. UndoRecord(b, ur) = u
  BY <1>1 DEF UndoRecord, at
<1> HIDE DEF u
<1>9. u.ok /\ WellBuf(u.buf) /\ Body(u.buf.lines) = X
  BY <1>2, <1>3, <1>4, <1>5, <1>6 DEF UndoesDeletion
<1>10. PICK p, q : /\ u.record = [ur EXCEPT !.redoStart = p, !.redoEnd = q]
                   /\ Leads(p, a) /\ Leads(q, a ++ text) /\ p.nGhost = 0 /\ q.nGhost = 0
  BY <1>3, <1>4, <1>6 DEF UndoesDeletion
<1> DEFINE record == u.record
<1>11. /\ record.insert = ur.insert /\ record.text = ur.text /\ record.nReal = ur.nReal
       /\ record.start = ur.start /\ record.end = ur.end /\ record.begin = ur.begin
       /\ record.redoStart = p /\ record.redoEnd = q /\ IsRecord(record)
  <2>1. IsPlace(p) /\ IsPlace(q)
    BY <1>10, LeadsText
  <2>2. /\ record.insert = ur.insert /\ record.text = ur.text /\ record.nReal = ur.nReal
        /\ record.start = ur.start /\ record.end = ur.end /\ record.begin = ur.begin
        /\ record.redoStart = p /\ record.redoEnd = q
    BY <1>1, <1>10, BothSetForRedo
  <2>3. IsRecord(record)
    <3>1. IsRecord([ur EXCEPT !.redoStart = p, !.redoEnd = q])
      BY <1>1, <2>1, RecordWithBoth
    <3> QED BY <1>10, <3>1, Zenon
  <2> QED BY <2>2, <2>3
<1>12. Fits(record, X, Y)
  BY <1>11, FitsWith
<1>13. Redoes(record, X, Y)
  <2>1. DeleteRedoes(record, X, Y)
    <3> HIDE DEF record
    <3>1. record.redoStart = p /\ record.redoEnd = q /\ record.text = text
      BY <1>11
    <3> QED BY <1>2, <1>10, <3>1 DEF DeleteRedoes
  <2> QED BY <1>1, <1>11, <2>1 DEF Redoes
<1>14. UndoneTo(ur, X, Y, u)
  BY <1>9, <1>11, <1>12, <1>13 DEF UndoneTo
<1> QED BY <1>7, <1>8, <1>14

(* Undoing a record brings back the text from before it and sets the       *)
(* record so that a redo leads to the text from after it.                  *)
LEMMA RecordUndone ==
    ASSUME BufferAssumption, NEW step, step.ok, WellBuf(step.buf),
           NEW ur, NEW X, NEW Y, Fits(ur, X, Y), Body(step.buf.lines) = Y
    PROVE  UndoFits(step, ur) /\ UndoneTo(ur, X, Y, UndoRecord(step.buf, ur))
BY InsertionUndone, DeletionUndone

-----------------------------------------------------------------------------
(* Redo of a record *)

(* What a redo of a record does to the text.                               *)
RedoneTo(Y, new) == WellBuf(new) /\ Body(new.lines) = Y

(* Redoing the record of an insertion leads to the text that it led to at  *)
(* first.                                                                  *)
LEMMA InsertionRedone ==
    ASSUME BufferAssumption, NEW b, WellBuf(b), NEW ur, NEW X, NEW Y, Fits(ur, X, Y), Redoes(ur, X, Y),
           ur.insert, Body(b.lines) = X
    PROVE  RedoFits(b, ur) /\ RedoneTo(Y, RedoRecord(b, ur))
<1> DEFINE place == ur.redoStart
           second == ur.redoEnd
           text == ur.text
           at == Locate(b, place, second, FALSE)
           start == Apparent(b, place)
           b1 == Provide(b, place)
           m == InsertText(b1, start, text)
<1>1. ur.insert = TRUE /\ Text(text) /\ text # <<>> /\ InsertRedoes(ur, X, Y)
  BY DEF Fits, Redoes
<1>2. PICK a, c :
        /\ Text(a) /\ Text(c) /\ c # <<>>
        /\ X = a ++ c /\ Leads(place, a)
        /\ Y = (a ++ text) ++ (IF place.nGhost > 0 /\ ~ Ended(text) THEN Break ++ c ELSE c)
  BY <1>1 DEF InsertRedoes
<1>3. at.buf = b1 /\ at.start = start
  BY DEF Locate
<1>4. Provided(b, b1, start, place, a)
  <2> HIDE DEF place
  <2> QED BY <1>2, FoundAgain
<1>5. /\ WellBuf(b1) /\ Body(b1.lines) = X
      /\ InText(b1.lines, start) /\ Above(b1.lines, start) = a
      /\ (b1.lines[start.y].ghost <=> place.nGhost > 0)
  <2> HIDE DEF b1, start, place
  <2> QED BY <1>4 DEF Provided
<1> HIDE DEF at, start, b1
<1>6. Below(b1.lines, start) = c
  BY <1>2, <1>5, BelowIs DEF WellBuf
<1>7. InsertsText(b1, start, text, m)
  BY <1>1, <1>5, InsertTextJoins
<1>8. RedoFits(b, ur)
  BY <1>1, <1>3, <1>5 DEF RedoFits, at
<1>9. RedoRecord(b, ur) = m.buf
  BY <1>1, <1>3 DEF RedoRecord, at
<1> HIDE DEF m
<1>10. WellBuf(m.buf) /\ Inserted(b1.lines, start, text, m.buf.lines)
  BY <1>7 DEF InsertsText
<1>11. Body(m.buf.lines) = (a ++ text) ++ (IF Grows(b1.lines, start, text) THEN Break ++ c ELSE c)
  BY <1>5, <1>6, <1>10 DEF Inserted
<1>12. Grows(b1.lines, start, text) <=> place.nGhost > 0 /\ ~ Ended(text)
  BY <1>5 DEF Grows
<1>13. Body(m.buf.lines) = Y
  <2>1. CASE Grows(b1.lines, start, text)
    BY <1>2, <1>11, <1>12, <2>1
  <2>2. CASE ~ Grows(b1.lines, start, text)
    BY <1>2, <1>11, <1>12, <2>2
  <2> QED BY <2>1, <2>2
<1> QED BY <1>8, <1>9, <1>10, <1>13 DEF RedoneTo

(* Redoing the record of a deletion leads to the text that it led to at    *)
(* first, and finds the recorded text to delete.                           *)
LEMMA DeletionRedone ==
    ASSUME BufferAssumption, NEW b, WellBuf(b), NEW ur, NEW X, NEW Y, Fits(ur, X, Y), Redoes(ur, X, Y),
           ~ ur.insert, Body(b.lines) = X
    PROVE  RedoFits(b, ur) /\ RedoneTo(Y, RedoRecord(b, ur))
<1> DEFINE first == ur.redoStart
           second == ur.redoEnd
           text == ur.text
           at == Locate(b, first, second, TRUE)
           start == Apparent(b, first)
           end == Apparent(b, second)
           lines == b.lines
           d == DeleteText(b, start, end)
<1>1. ur.insert = FALSE /\ Text(text) /\ text # <<>> /\ DeleteRedoes(ur, X, Y)
  BY DEF Fits, Redoes
<1>2. PICK a, c :
        /\ Text(a) /\ Text(c) /\ c # <<>>
        /\ X = (a ++ text) ++ c /\ Y = a ++ c
        /\ Leads(first, a) /\ first.nGhost = 0
        /\ Leads(second, a ++ text) /\ second.nGhost = 0
  BY <1>1 DEF DeleteRedoes
<1> DEFINE e == a ++ text
           r == text ++ c
<1>3. at.buf = b /\ at.start = start /\ at.end = end
  <2>1. /\ at.buf = Provide(Provide(b, first), second) /\ at.start = start
        /\ at.end = Apparent(Provide(b, first), second)
    BY DEF Locate
  <2>2. Provide(b, first) = b /\ Provide(b, second) = b
    BY <1>2, NothingProvided
  <2> HIDE DEF at
  <2> QED BY <2>1, <2>2
<1>4. Text(e) /\ Text(r) /\ r # <<>> /\ X = a ++ r /\ X = e ++ c
  <2>1. Text(e) /\ Text(r) /\ Len(r) = Len(text) + Len(c)
    BY <1>1, <1>2, TextJoined
  <2>2. Len(text) \in Nat /\ Len(c) \in Nat /\ Len(c) # 0 /\ (Len(r) = 0 <=> r = <<>>)
    BY <1>1, <1>2, <2>1, TextLen
  <2>3. a ++ r = e ++ c
    BY <1>1, <1>2, TextInAnyOrder
  <2>4. Len(r) # 0
    <3> DEFINE k == Len(text)
               l == Len(c)
               o == Len(r)
    <3>1. o = k + l /\ k \in Nat /\ l \in Nat /\ l # 0
      BY <2>1, <2>2
    <3> HIDE DEF k, l, o
    <3>2. o # 0
      BY <3>1
    <3> QED BY <3>2 DEF o
  <2> QED BY <1>2, <2>1, <2>2, <2>3, <2>4
<1>5. /\ InText(lines, start) /\ Above(lines, start) = a /\ ~ lines[start.y].ghost
      /\ InText(lines, end) /\ Above(lines, end) = e /\ ~ lines[end.y].ghost
  <2>1. Leads(second, e)
    BY <1>2
  <2> HIDE DEF e, r, first, second, start, end
  <2>2. Resolved(lines, start, first, a)
    BY <1>2, <1>4, FoundAgain DEF start
  <2>3. Resolved(lines, end, second, e)
    BY <1>2, <1>4, <2>1, FoundAgain DEF end
  <2> HIDE DEF lines
  <2> QED BY <1>2, <2>2, <2>3 DEF Resolved
<1>6. Point(end.y, end.x) = end
  <2>1. \A y, x : Point(Point(y, x).y, Point(y, x).x) = Point(y, x)
    BY DEF Point
  <2> QED BY <2>1, Zenon DEF Apparent
<1> HIDE DEF at, start, end
<1>7. WellSet(lines)
  BY DEF WellBuf
<1>8. DeletionEnd(lines, end) = end /\ end.y \in DOMAIN lines
  <2>1. DeletionEnd(lines, end) = Point(end.y, end.x)
    BY <1>5, <1>7, DeletionEndReal
  <2> QED BY <1>5, <1>6, <2>1 DEF InText
<1>9. ~ Before(end, start) /\ GetText(lines, start, end) = text
  <2> HIDE DEF lines, e, text
  <2>1. Above(lines, end) = Above(lines, start) ++ text
    BY <1>5 DEF e
  <2> QED BY <1>1, <1>5, <1>7, <2>1, TextBetween
<1>10. RedoFits(b, ur)
  BY <1>1, <1>3, <1>5, <1>8, <1>9 DEF RedoFits, at
<1>11. RedoRecord(b, ur) = d.buf
  <2>1. RedoRecord(b, ur) = RedoDeletion(b, start, end)
    BY <1>1, <1>3, <1>8 DEF RedoRecord, at
  <2> QED BY <1>1, <1>9, <2>1 DEF RedoDeletion
<1>12. DeletesText(b, start, end, d)
  BY <1>5, <1>9, DeleteTextJoins
<1> HIDE DEF d
<1>13. Below(lines, end) = c
  <2> HIDE DEF lines, e
  <2>1. Body(lines) = e ++ c
    BY <1>4 DEF lines
  <2> QED BY <1>2, <1>4, <1>5, <1>7, <2>1, BelowIs
<1>14. WellBuf(d.buf) /\ Body(d.buf.lines) = Y
  BY <1>2, <1>5, <1>12, <1>13 DEF DeletesText
<1> QED BY <1>10, <1>11, <1>14 DEF RedoneTo

(* Redoing a record leads to the text from after it.                       *)
LEMMA RecordRedone ==
    ASSUME BufferAssumption, NEW b, WellBuf(b), NEW ur, NEW X, NEW Y, Fits(ur, X, Y), Redoes(ur, X, Y),
           Body(b.lines) = X
    PROVE  RedoFits(b, ur) /\ RedoneTo(Y, RedoRecord(b, ur))
BY InsertionRedone, DeletionRedone

-----------------------------------------------------------------------------
(* The records that edits make *)

(* A record made by an edit has the fields it was given. *)
LEMMA RecordFields ==
    ASSUME NEW insert, NEW b, NEW start, NEW end, NEW text, NEW nReal,
           NEW ur, ur = Record(insert, b, start, end, text, nReal)
    PROVE  /\ ur.insert = insert /\ ur.text = text /\ ur.nReal = nReal /\ ur.begin = FALSE
           /\ ur.start = Stored(b, start) /\ ur.end = Stored(b, end)
<1> QED BY DEF Record

(* The record of an insertion fits the text before and after it. *)
LEMMA InsertionFits ==
    ASSUME BufferAssumption, NEW b, WellBuf(b), NEW at, InText(b.lines, at),
           NEW text, Text(text), text # <<>>,
           NEW m, m = InsertText(b, at, text),
           NEW ur, ur = Record(TRUE, m.buf, at, m.end, text, m.nReal)
    PROVE  WellBuf(m.buf) /\ Fits(ur, Body(b.lines), Body(m.buf.lines))
<1> DEFINE a == Above(b.lines, at)
           new == Below(b.lines, at)
           grows == Grows(b.lines, at, text)
           c == IF grows THEN Break ++ new ELSE new
           end == m.end
           r == m.buf.lines
<1>1. InsertsText(b, at, text, m)
  BY InsertTextJoins
<1>2. WellBuf(m.buf) /\ Inserted(b.lines, at, text, r) /\ end = EndOf(b.lines, at, text)
      /\ m.nReal = Eols(text) + IF grows THEN 1 ELSE 0
  BY <1>1 DEF InsertsText
<1>3. /\ Body(r) = (a ++ text) ++ c
      /\ InText(r, at) /\ Above(r, at) = a /\ ~ r[at.y].ghost
      /\ InText(r, end) /\ Above(r, end) = a ++ text
      /\ r[end.y].ghost => b.lines[at.y].ghost /\ Ended(text)
      /\ b.lines[at.y].ghost => at.x = 0
  BY <1>2 DEF Inserted
<1>4. /\ Text(a) /\ Text(new) /\ Body(b.lines) = a ++ new /\ new # <<>>
  <2>1. Proper(b.lines) /\ WellSet(b.lines)
    BY WellBufIs DEF WellBuf
  <2> QED BY <2>1, AboveAndBelow, SomethingBelow
<1>5. grows <=> b.lines[at.y].ghost /\ ~ Ended(text)
  BY DEF Grows
<1>6. ur.insert = TRUE /\ ur.text = text /\ ur.nReal = m.nReal
      /\ ur.start = Stored(m.buf, at) /\ ur.end = Stored(m.buf, end)
  BY DEF Record
<1> HIDE DEF a, new, grows, c, end, r
<1> DEFINE start == ur.start
           past == ur.end
<1>7. /\ Leads(start, a) /\ (start.nGhost > 0 <=> r[at.y].ghost) /\ start.nGhost \in Nat /\ start.x = at.x
  <2> DEFINE mb == m.buf
  <2>1. /\ WellBuf(mb) /\ InText(mb.lines, at) /\ Above(mb.lines, at) = a /\ r = mb.lines
        /\ start = Stored(mb, at)
    BY <1>2, <1>3, <1>6 DEF r
  <2> HIDE DEF mb, start
  <2>2. /\ Leads(Stored(mb, at), Above(mb.lines, at))
        /\ Stored(mb, at).nGhost > 0 <=> mb.lines[at.y].ghost
        /\ Stored(mb, at).nGhost \in Nat /\ Stored(mb, at).x = at.x
    BY <2>1, StoredLeads, Zenon
  <2> QED BY <2>1, <2>2
<1>8. /\ Leads(past, a ++ text) /\ (past.nGhost > 0 <=> r[end.y].ghost) /\ past.nGhost \in Nat
  <2> DEFINE mb == m.buf
  <2>1. /\ WellBuf(mb) /\ InText(mb.lines, end) /\ Above(mb.lines, end) = a ++ text /\ r = mb.lines
        /\ past = Stored(mb, end)
    BY <1>2, <1>3, <1>6 DEF r
  <2> HIDE DEF mb, past
  <2>2. /\ Leads(Stored(mb, end), Above(mb.lines, end))
        /\ Stored(mb, end).nGhost > 0 <=> mb.lines[end.y].ghost
        /\ Stored(mb, end).nGhost \in Nat
    BY <2>1, StoredLeads, Zenon
  <2> QED BY <2>1, <2>2
<1> DEFINE at2 == a ++ text
<1>9. start.y = Eols(a) + 1 /\ past.y = Eols(at2) + 1 /\ IsPlace(start) /\ IsPlace(past)
  <2> HIDE DEF start, past, at2
  <2> QED BY <1>7, <1>8, LeadsText DEF at2
<1>10. Eols(at2) = Eols(a) + Eols(text) /\ Eols(a) \in Nat /\ Eols(text) \in Nat
  BY <1>4, EolsJoined
<1>11. Grew(ur) <=> grows
  <2> DEFINE n == Eols(text)
             k == Eols(a)
             d == past.y - start.y
  <2>1. d = n
    <3>1. past.y = (k + n) + 1 /\ start.y = k + 1 /\ k \in Nat /\ n \in Nat
      BY <1>9, <1>10
    <3> DEFINE y1 == past.y
               y0 == start.y
    <3>2. y1 = (k + n) + 1 /\ y0 = k + 1 /\ k \in Nat /\ n \in Nat
      BY <3>1
    <3> HIDE DEF n, k, y0, y1
    <3>3. y1 - y0 = n
      BY <3>2
    <3> QED BY <3>3 DEF y0, y1
  <2>2. ur.nReal = n + IF grows THEN 1 ELSE 0
    BY <1>2, <1>6 DEF grows
  <2>3. Grew(ur) <=> d = ur.nReal - 1
    BY DEF Grew
  <2>4. n \in Nat
    BY <1>10
  <2> DEFINE count == ur.nReal
  <2>5. CASE grows
    <3>1. count = n + 1
      BY <2>2, <2>5
    <3> HIDE DEF n, d, count
    <3>2. d = count - 1
      BY <2>1, <2>4, <3>1
    <3> QED BY <2>3, <2>5, <3>2 DEF count
  <2>6. CASE ~ grows
    <3>1. count = n
      <4>1. count = n + 0
        BY <2>2, <2>6
      <4> HIDE DEF n, count
      <4> QED BY <4>1, <2>4
    <3> HIDE DEF n, d, count
    <3>2. d # count - 1
      BY <2>1, <2>4, <3>1
    <3> QED BY <2>3, <2>6, <3>2 DEF count
  <2> QED BY <2>5, <2>6
<1>12. Text(c) /\ c # <<>>
  <2>1. Text(Break ++ new) /\ Len(Break ++ new) = 1 + Len(new) /\ Len(new) \in Nat
    BY <1>4, BreakIs, TextJoined, TextLen
  <2>2. Break ++ new # <<>>
    BY <2>1, TextLen
  <2> QED BY <1>4, <2>1, <2>2 DEF c
<1>13. InsertFits(ur, Body(b.lines), Body(r))
  <2>1. Body(b.lines) = a ++ new /\ Body(r) = (a ++ ur.text) ++ c
    BY <1>3, <1>4, <1>6 DEF a, c, r, grows, new
  <2>2. start.nGhost = 0
    <3> DEFINE g == start.nGhost
    <3>1. g \in Nat /\ ~ (g > 0)
      BY <1>3, <1>7
    <3> HIDE DEF g
    <3>2. g = 0
      BY <3>1
    <3> QED BY <3>2 DEF g
  <2>3. past.nGhost > 0 => start.x = 0
    BY <1>3, <1>7, <1>8
  <2>4. grows => start.x = 0 /\ past.nGhost = 0 /\ ~ Ended(ur.text)
    <3> DEFINE g == past.nGhost
    <3>1. grows => start.x = 0 /\ g \in Nat /\ ~ (g > 0) /\ ~ Ended(ur.text)
      BY <1>3, <1>5, <1>6, <1>7, <1>8
    <3> HIDE DEF g
    <3>2. g \in Nat /\ ~ (g > 0) => g = 0
      OBVIOUS
    <3> QED BY <3>1, <3>2 DEF g
  <2>5. c = IF Grew(ur) THEN Break ++ new ELSE new
    BY <1>11 DEF c
  <2>6. Leads(ur.end, a ++ ur.text)
    BY <1>6, <1>8
  <2> QED BY <1>4, <1>7, <1>11, <1>12, <2>1, <2>2, <2>3, <2>4, <2>5, <2>6 DEF InsertFits
<1>14. IsRecord(ur)
  <2>1. IsBuf(m.buf)
    BY <1>2 DEF WellBuf
  <2>2. /\ at.y \in 1 .. Len(m.buf.lines) /\ at.x \in Nat
        /\ end.y \in 1 .. Len(m.buf.lines) /\ end.x \in Nat
    BY <1>2, <1>3, AboveAndBelow, WellBufIs DEF r
  <2>3. IsSeq(text) /\ Len(m.buf.lines) \in Nat
    BY TextLen, <1>2, WellBufIs
  <2> DEFINE mbuf == m.buf
             N == Len(mbuf.lines)
             nReal == m.nReal
  <2>4. ur = Record(TRUE, mbuf, at, end, text, nReal)
    BY DEF end
  <2>5. at.y \in 1 .. N + 1 /\ at.x \in Int /\ end.y \in 1 .. N + 1 /\ end.x \in Int
    <3> HIDE DEF N, mbuf
    <3> QED BY <2>2, <2>3 DEF mbuf, N
  <2>6. IsBuf(mbuf)
    BY <2>1
  <2> HIDE DEF mbuf, nReal
  <2> QED BY <2>3, <2>4, <2>5, <2>6, RecordIs
<1>15. ur.nReal \in Nat
  <2> DEFINE n == Eols(text)
             count == ur.nReal
  <2>1. n \in Nat /\ count = n + IF grows THEN 1 ELSE 0
    BY <1>2, <1>6, <1>10 DEF grows
  <2> HIDE DEF n, count
  <2>2. count \in Nat
    BY <2>1
  <2> QED BY <2>2 DEF count
<1> QED BY <1>2, <1>6, <1>13, <1>14, <1>15 DEF Fits, r

(* The record of a deletion fits the text before and after it, and the     *)
(* place where the text was is a place in what is left.                    *)
LEMMA DeletionFits ==
    ASSUME BufferAssumption, NEW b, WellBuf(b), NEW start, InText(b.lines, start),
           NEW end, InText(b.lines, end), ~ Before(end, start), ~ b.lines[end.y].ghost,
           NEW text, text = GetText(b.lines, start, end), text # <<>>,
           NEW del, del = DeleteText(b, start, end),
           NEW ur, ur = Record(FALSE, del.buf, start, start, text, del.nReal)
    PROVE  /\ WellBuf(del.buf) /\ InText(del.buf.lines, start)
           /\ Fits(ur, Body(b.lines), Body(del.buf.lines))
<1> DEFINE a == Above(b.lines, start)
           c == Below(b.lines, end)
           past == Above(b.lines, end)
           r == del.buf.lines
           rbuf == del.buf
           nReal == del.nReal
           place == ur.start
<1>1. DeletesText(b, start, end, del)
  BY DeleteTextJoins
<1>2. /\ WellBuf(rbuf) /\ Body(r) = a ++ c /\ InText(r, start) /\ Above(r, start) = a
      /\ ~ r[start.y].ghost /\ nReal = Eols(text) + 1
  BY <1>1 DEF DeletesText
<1>3. Text(text) /\ a ++ text = past
  <2>1. WellSet(b.lines)
    BY DEF WellBuf
  <2> QED BY <2>1, GetTextJoins
<1>4. /\ Text(a) /\ Text(c) /\ Body(b.lines) = past ++ c /\ c # <<>>
  <2>1. Proper(b.lines) /\ WellSet(b.lines)
    BY WellBufIs DEF WellBuf
  <2> QED BY <2>1, AboveAndBelow, SomethingBelow
<1>5. ur.insert = FALSE /\ ur.text = text /\ ur.nReal = nReal /\ place = Stored(rbuf, start)
  BY DEF Record
<1>6. start.y \in 1 .. Len(r) /\ start.x \in Nat /\ Len(r) \in Nat
  <2>1. Proper(r)
    BY <1>2, WellBufIs
  <2> QED BY <1>2, <2>1, AboveAndBelow, ProperIs
<1>7. r = rbuf.lines /\ ur = Record(FALSE, rbuf, start, start, text, nReal)
  OBVIOUS
<1> HIDE DEF a, c, past, r, rbuf, nReal, place
<1>8. Leads(place, a) /\ place.nGhost = 0
  <2>1. Leads(place, a) /\ (place.nGhost > 0 <=> r[start.y].ghost) /\ place.nGhost \in Nat
    BY <1>2, <1>5, <1>7, StoredLeads
  <2> DEFINE g == place.nGhost
  <2>2. g \in Nat /\ ~ (g > 0)
    BY <1>2, <2>1
  <2> HIDE DEF g
  <2>3. g = 0
    BY <2>2
  <2> QED BY <2>1, <2>3 DEF g
<1>9. DeleteFits(ur, Body(b.lines), Body(r))
  <2>1. ur.start = place
    BY DEF place
  <2> QED BY <1>2, <1>3, <1>4, <1>5, <1>8, <2>1 DEF DeleteFits
<1>10. IsRecord(ur)
  <2> DEFINE n == Eols(text)
  <2>1. n \in Nat /\ Len(Pieces(text)) = n + 1 /\ nReal = n + 1
    <3>1. Eols(text) \in Nat
      BY <1>3, EolsJoined
    <3>2. Len(Pieces(text)) = n + 1
      BY <1>3, PiecesJoin
    <3> QED BY <1>2, <3>1, <3>2
  <2>2. Restorable(nReal, text)
    <3> HIDE DEF n
    <3> QED BY <2>1 DEF Restorable
  <2>3. IsSeq(text) /\ IsBuf(rbuf)
    BY <1>2, <1>3, TextLen DEF WellBuf
  <2>4. start.y \in 1 .. Len(rbuf.lines) + 1 /\ start.x \in Int
    BY <1>6, <1>7
  <2> QED BY <1>7, <2>2, <2>3, <2>4, RecordIs
<1>11. ur.insert \in BOOLEAN
  BY <1>5
<1>12. ur.nReal \in Nat
  <2> DEFINE n == Eols(text)
             count == ur.nReal
  <2>1. n \in Nat /\ count = n + 1
    BY <1>2, <1>3, <1>5, EolsJoined
  <2> HIDE DEF n, count
  <2>2. count \in Nat
    BY <2>1
  <2> QED BY <2>2 DEF count
<1> QED BY <1>2, <1>3, <1>5, <1>7, <1>9, <1>10, <1>11, <1>12 DEF Fits, rbuf

-----------------------------------------------------------------------------
(* The chain of texts that the records of an undo buffer lead through *)

(* A record that can be undone and redone.                                 *)
Replays(ur, X, Y) == Fits(ur, X, Y) /\ Redoes(ur, X, Y)

(* X gives the text, each line with a break, after so many records.        *)
Links(s, X) == \A k \in 1 .. Len(s) : Fits(s[k], X[k - 1], X[k])

(* The records from the undo position on can be redone.                    *)
Redoable(s, p, X) == \A k \in p + 1 .. Len(s) : Redoes(s[k], X[k - 1], X[k])

(* What the loop of an undo has done after n records.                      *)
UndoneSoFar(d, n, q, X) ==
    /\ d.ok /\ WellBuf(d.buf) /\ Body(d.buf.lines) = X[q]
    /\ IsSeq(d.records) /\ Len(d.records) = n
    /\ \A j \in 1 .. n : Replays(d.records[j], X[(q + j) - 1], X[q + j])

(* One more record goes before those undone so far.                        *)
LEMMA RecordBefore ==
    ASSUME NEW r, IsSeq(r), NEW n \in Nat, Len(r) = n, NEW u
    PROVE  /\ IsSeq(<<u>> \o r) /\ Len(<<u>> \o r) = n + 1
           /\ (<<u>> \o r)[1] = u
           /\ \A j \in 2 .. n + 1 : (<<u>> \o r)[j] = r[j - 1]
<1>1. IsSeq(<<u>>) /\ Len(<<u>>) = 1 /\ <<u>>[1] = u
  BY SingleIs
<1> DEFINE one == <<u>>
           new == one \o r
<1>2. /\ IsSeq(new) /\ Len(new) = Len(one) + Len(r)
      /\ \A i \in 1 .. Len(one) + Len(r) :
             new[i] = IF i <= Len(one) THEN one[i] ELSE r[i - Len(one)]
  BY <1>1, ConcatIs
<1>3. Len(one) = 1 /\ one[1] = u
  BY <1>1
<1> HIDE DEF one, new
<1>4. \A i \in 1 .. 1 + n : new[i] = IF i <= 1 THEN one[i] ELSE r[i - 1]
  BY <1>2, <1>3
<1>5. new[1] = u
  BY <1>3, <1>4
<1>6. \A j \in 2 .. n + 1 : new[j] = r[j - 1]
  BY <1>4
<1> QED BY <1>2, <1>3, <1>5, <1>6 DEF new, one

(* One step of the loop.                                                   *)
LEMMA OneMoreUndone ==
    ASSUME BufferAssumption, NEW X, NEW n \in Nat, NEW q \in Nat,
           NEW st, UndoneSoFar(st, n, q + 1, X),
           NEW ur, Fits(ur, X[q], X[q + 1])
    PROVE  UndoFits(st, ur) /\ UndoneSoFar(UndoStep(st, ur), n + 1, q, X)
<1> DEFINE step == UndoRecord(st.buf, ur)
           u == step.record
           r == st.records
           new == <<u>> \o r
           d == UndoStep(st, ur)
<1>1. /\ st.ok /\ WellBuf(st.buf) /\ Body(st.buf.lines) = X[q + 1]
      /\ IsSeq(r) /\ Len(r) = n
      /\ \A j \in 1 .. n : Replays(r[j], X[((q + 1) + j) - 1], X[(q + 1) + j])
  BY DEF UndoneSoFar
<1> DEFINE old == X[q]
           now == X[q + 1]
<1>3. UndoFits(st, ur) /\ UndoneTo(ur, old, now, step)
  <2> HIDE DEF old, now
  <2>1. Fits(ur, old, now) /\ Body(st.buf.lines) = now
    BY <1>1 DEF old, now
  <2> QED BY <1>1, <2>1, RecordUndone
<1>4. /\ step.ok /\ WellBuf(step.buf) /\ Body(step.buf.lines) = old /\ Replays(u, old, now)
  <2> HIDE DEF old, now, step
  <2> QED BY <1>3 DEF UndoneTo, Replays
<1>5. d = [ok |-> step.ok, buf |-> step.buf, records |-> new]
  BY <1>1 DEF UndoStep
<1> HIDE DEF step, u, r
<1>6. d.ok /\ WellBuf(d.buf) /\ Body(d.buf.lines) = old /\ d.records = new
  BY <1>4, <1>5
<1>7. /\ IsSeq(new) /\ Len(new) = n + 1 /\ new[1] = u /\ \A j \in 2 .. n + 1 : new[j] = r[j - 1]
  BY <1>1, RecordBefore
<1> HIDE DEF new
<1>8. ASSUME NEW j \in 1 .. n + 1 PROVE Replays(new[j], X[(q + j) - 1], X[q + j])
  <2>1. CASE j = 1
    <3>1. (q + j) - 1 = q /\ q + j = q + 1
      BY <2>1
    <3>2. new[j] = u
      BY <1>7, <2>1
    <3> QED BY <1>4, <3>1, <3>2
  <2>2. CASE j # 1
    <3>1. j \in 2 .. n + 1 /\ j - 1 \in 1 .. n
      BY <2>2
    <3>2. ((q + 1) + (j - 1)) - 1 = (q + j) - 1 /\ (q + 1) + (j - 1) = q + j
      BY <3>1
    <3> DEFINE i == j - 1
    <3>3. Replays(r[i], X[((q + 1) + i) - 1], X[(q + 1) + i])
      BY <1>1, <3>1
    <3>4. new[j] = r[i]
      BY <1>7, <3>1
    <3> QED BY <3>2, <3>3, <3>4
  <2> QED BY <2>1, <2>2
<1> HIDE DEF d
<1>9. UndoneSoFar(d, n + 1, q, X)
  BY <1>6, <1>7, <1>8 DEF UndoneSoFar
<1> QED BY <1>3, <1>9 DEF d

(* Undoing record after record leads back through the texts, and every     *)
(* record fits the text it is undone on.                                   *)
LEMMA UndoingRestores ==
    ASSUME BufferAssumption, WellBuf(Current), IsSeq(m_aUndoBuf),
           m_nUndoPosition \in 0 .. Len(m_aUndoBuf),
           NEW X, Links(m_aUndoBuf, X), X[m_nUndoPosition] = Body(m_aLines)
    PROVE  /\ \A n \in 0 .. m_nUndoPosition : UndoneSoFar(Undoing[n], n, m_nUndoPosition - n, X)
           /\ \A n \in 1 .. m_nUndoPosition :
                  UndoFits(Undoing[n - 1], m_aUndoBuf[m_nUndoPosition + 1 - n])
<1> DEFINE s == m_aUndoBuf
           p == m_nUndoPosition
           Good(n) == UndoneSoFar(Undoing[n], n, p - n, X)
           Bad == {n \in 0 .. p : ~ Good(n)}
<1>1. Len(s) \in Nat /\ p \in Nat /\ p <= Len(s)
  BY SeqIs
<1>2. \A n \in 0 .. p :
          Undoing[n] = IF n = 0 THEN [ok |-> TRUE, buf |-> Current, records |-> <<>>]
                       ELSE UndoStep(Undoing[n - 1], s[p + 1 - n])
  BY <1>1, UndoingIs
<1>3. ASSUME NEW n \in 1 .. p, Good(n - 1) PROVE Good(n) /\ UndoFits(Undoing[n - 1], s[p + 1 - n])
  <2> DEFINE q == p - n
             st == Undoing[n - 1]
             k == n - 1
             ur == s[p + 1 - n]
  <2>1. q \in Nat /\ k \in Nat /\ q + 1 = p - (n - 1) /\ q + 1 = p + 1 - n /\ q + 1 \in 1 .. Len(s)
        /\ (q + 1) - 1 = q /\ k + 1 = n /\ n \in 0 .. p /\ n # 0
    BY SMTT(30), <1>1
  <2>2. UndoneSoFar(st, k, q + 1, X)
    BY <1>3, <2>1
  <2>3. Fits(ur, X[q], X[q + 1])
    <3>1. Fits(s[q + 1], X[(q + 1) - 1], X[q + 1])
      BY <2>1 DEF Links
    <3> QED BY <2>1, <3>1
  <2>4. Undoing[n] = UndoStep(st, ur)
    BY <1>2, <2>1
  <2> HIDE DEF q, st, k, ur
  <2>5. UndoFits(st, ur) /\ UndoneSoFar(UndoStep(st, ur), k + 1, q, X)
    BY <2>1, <2>2, <2>3, OneMoreUndone
  <2> QED BY <2>1, <2>4, <2>5 DEF q, st, ur
<1>4. Good(0)
  <2> DEFINE d == [ok |-> TRUE, buf |-> Current, records |-> <<>>]
  <2>1. 0 \in 0 .. p /\ p - 0 = p
    BY <1>1
  <2>2. Undoing[0] = d
    BY <1>2, <2>1, Zenon
  <2>3. d.ok /\ d.buf = Current /\ d.records = <<>> /\ Current.lines = m_aLines
    BY DEF Current
  <2> HIDE DEF d
  <2>4. UndoneSoFar(d, 0, p, X)
    BY <2>3, EmptyIs DEF UndoneSoFar
  <2> QED BY <2>1, <2>2, <2>4
<1> HIDE DEF Good
<1>5. Bad = {}
  <2> SUFFICES ASSUME Bad # {} PROVE FALSE
    OBVIOUS
  <2>1. PICK m \in 1 .. p : m \in Bad /\ m - 1 \notin Bad /\ m - 1 \in 0 .. p
    <3>1. Bad \in SUBSET (0 .. p) /\ 0 \notin Bad
      BY <1>4
    <3> HIDE DEF Bad
    <3> QED BY <1>1, <3>1, FirstFailure
  <2> QED BY <1>3, <2>1
<1>6. \A n \in 0 .. p : Good(n)
  BY <1>5
<1>7. \A n \in 1 .. p : n - 1 \in 0 .. p
  BY <1>1
<1>8. \A n \in 1 .. p : UndoFits(Undoing[n - 1], s[p + 1 - n])
  BY <1>3, <1>6, <1>7
<1> QED BY <1>6, <1>8 DEF Good

(* Redoing record after record leads on through the texts, and every       *)
(* record fits the text it is redone on.                                   *)
LEMMA RedoingRestores ==
    ASSUME BufferAssumption, WellBuf(Current), IsSeq(m_aUndoBuf),
           m_nUndoPosition \in 0 .. Len(m_aUndoBuf),
           NEW X, Links(m_aUndoBuf, X), Redoable(m_aUndoBuf, m_nUndoPosition, X),
           X[m_nUndoPosition] = Body(m_aLines)
    PROVE  /\ \A n \in 0 .. Len(m_aUndoBuf) - m_nUndoPosition :
                  RedoneTo(X[m_nUndoPosition + n], Redoing[n])
           /\ \A n \in 1 .. Len(m_aUndoBuf) - m_nUndoPosition :
                  RedoFits(Redoing[n - 1], m_aUndoBuf[m_nUndoPosition + n])
<1> DEFINE s == m_aUndoBuf
           p == m_nUndoPosition
           N == Len(s) - p
           Good(n) == RedoneTo(X[p + n], Redoing[n])
           Bad == {n \in 0 .. N : ~ Good(n)}
<1>1. Len(s) \in Nat /\ p \in Nat /\ p <= Len(s) /\ N \in Nat
  BY SeqIs
<1>2. \A n \in 0 .. N :
          Redoing[n] = IF n = 0 THEN Current ELSE RedoRecord(Redoing[n - 1], s[p + n])
  BY <1>1, RedoingIs
<1>3. ASSUME NEW n \in 1 .. N, Good(n - 1) PROVE Good(n) /\ RedoFits(Redoing[n - 1], s[p + n])
  <2> DEFINE b == Redoing[n - 1]
             k == p + n
             ur == s[k]
             old == X[k - 1]
             now == X[k]
  <2>1. k \in 1 .. Len(s) /\ k \in p + 1 .. Len(s) /\ p + (n - 1) = k - 1 /\ n \in 0 .. N /\ n # 0
    BY <1>1
  <2>2. WellBuf(b) /\ Body(b.lines) = old
    BY <1>3, <2>1 DEF RedoneTo
  <2>3. Fits(ur, old, now) /\ Redoes(ur, old, now)
    BY <2>1 DEF Links, Redoable
  <2>4. Redoing[n] = RedoRecord(b, ur)
    BY <1>2, <2>1
  <2> HIDE DEF b, k, ur, old, now
  <2>5. RedoFits(b, ur) /\ RedoneTo(now, RedoRecord(b, ur))
    BY <2>2, <2>3, RecordRedone
  <2> QED BY <2>4, <2>5 DEF b, ur, now, k
<1>4. Good(0)
  <2>1. 0 \in 0 .. N /\ p + 0 = p
    BY <1>1
  <2>2. Redoing[0] = Current
    BY <1>2, <2>1, Zenon
  <2>3. Current.lines = m_aLines
    BY DEF Current
  <2>4. RedoneTo(X[p], Current)
    BY <2>3 DEF RedoneTo
  <2> QED BY <2>1, <2>2, <2>4
<1> HIDE DEF Good
<1>5. Bad = {}
  <2> SUFFICES ASSUME Bad # {} PROVE FALSE
    OBVIOUS
  <2>1. PICK m \in 1 .. N : m \in Bad /\ m - 1 \notin Bad /\ m - 1 \in 0 .. N
    <3>1. Bad \in SUBSET (0 .. N) /\ 0 \notin Bad
      BY <1>4
    <3> HIDE DEF Bad, N
    <3> QED BY <1>1, <3>1, FirstFailure
  <2> QED BY <1>3, <2>1
<1>6. \A n \in 0 .. N : Good(n)
  BY <1>5
<1>7. \A n \in 1 .. N : n - 1 \in 0 .. N
  BY <1>1
<1>8. \A n \in 1 .. N : RedoFits(Redoing[n - 1], s[p + n])
  BY <1>3, <1>6, <1>7
<1> QED BY <1>6, <1>8 DEF Good

-----------------------------------------------------------------------------
(* What an edit adds to the chain *)

(* The records of an edit lead from the old text through Z to the new one. *)
EditedTo(st, old, Z) ==
    /\ WellBuf(st.buf) /\ AreRecords(st.records)
    /\ Z[0] = old /\ Z[Len(st.records)] = Body(st.buf.lines)
    /\ Links(st.records, Z)

(* The records of an edit lead from a text to the one it leaves.           *)
Edits(st, old) == \E Z : EditedTo(st, old, Z)

(* One more record leads one text on.                                      *)
LEMMA EditExtends ==
    ASSUME NEW st, NEW old, Edits(st, old), NEW b, WellBuf(b),
           NEW ur, Fits(ur, Body(st.buf.lines), Body(b.lines)),
           NEW new, new.buf = b, new.records = Append(st.records, ur)
    PROVE  Edits(new, old)
<1> DEFINE r == st.records
           n == Len(r)
           r2 == Append(r, ur)
           now == Body(b.lines)
           Body0 == Body(st.buf.lines)
<1>1. PICK Z : EditedTo(st, old, Z)
  BY DEF Edits
<1> DEFINE W == [k \in 0 .. n + 1 |-> IF k <= n THEN Z[k] ELSE now]
<1>2. /\ AreRecords(r) /\ Z[0] = old /\ Z[n] = Body0
      /\ \A k \in 1 .. n : Fits(r[k], Z[k - 1], Z[k])
  BY <1>1 DEF EditedTo, Links
<1>3. IsSeq(r) /\ n \in Nat
  BY <1>2, SeqIs DEF AreRecords
<1>4. /\ IsSeq(r2) /\ Len(r2) = n + 1
      /\ \A i \in 1 .. n + 1 : r2[i] = IF i <= n THEN r[i] ELSE ur
  BY <1>3, AppendIs
<1>5. Fits(ur, Body0, now)
  OBVIOUS
<1>6. IsRecord(ur)
  BY DEF Fits
<1> HIDE DEF r, r2, now, Body0, n
<1>7. /\ \A k \in 0 .. n : W[k] = Z[k]
      /\ W[n + 1] = now
  BY <1>3
<1> HIDE DEF W
<1>8. AreRecords(r2)
  <2>1. \A i \in 1 .. n : IsRecord(r[i])
    BY <1>2 DEF AreRecords, n
  <2>2. ASSUME NEW i \in 1 .. n + 1 PROVE IsRecord(r2[i])
    <3>1. CASE i <= n
      BY <1>3, <1>4, <2>1, <3>1
    <3>2. CASE ~ (i <= n)
      BY <1>4, <1>6, <3>2
    <3> QED BY <3>1, <3>2
  <2> QED BY <1>4, <2>2 DEF AreRecords
<1>9. ASSUME NEW k \in 1 .. n + 1 PROVE Fits(r2[k], W[k - 1], W[k])
  <2>1. CASE k <= n
    <3>1. k \in 1 .. n /\ k \in 0 .. n /\ k - 1 \in 0 .. n
      BY <1>3, <2>1
    <3> QED BY <1>2, <1>4, <1>7, <2>1, <3>1
  <2>2. CASE ~ (k <= n)
    <3>1. k = n + 1 /\ k - 1 = n /\ n \in 0 .. n
      BY <1>3, <2>2
    <3>2. r2[k] = ur /\ W[k] = now /\ W[k - 1] = Z[n]
      BY <1>4, <1>7, <2>2, <3>1
    <3> QED BY <1>2, <1>5, <3>2
  <2> QED BY <2>1, <2>2
<1>10. W[0] = old /\ W[n + 1] = now
  <2>1. 0 \in 0 .. n
    BY <1>3
  <2> QED BY <1>2, <1>7, <2>1
<1>11. Links(r2, W)
  BY <1>4, <1>9 DEF Links
<1>12. new.buf = b /\ new.records = r2 /\ Len(new.records) = n + 1 /\ Body(new.buf.lines) = now
  BY <1>4 DEF r2, r, now
<1>13. EditedTo(new, old, W)
  BY <1>8, <1>10, <1>11, <1>12 DEF EditedTo
<1> QED BY <1>13 DEF Edits

(* Before it does anything an edit leads nowhere.                          *)
LEMMA UntouchedEdits ==
    ASSUME WellBuf(Current)
    PROVE  Edits(Untouched, Body(m_aLines)) /\ Untouched.buf.lines = m_aLines
<1> DEFINE now == Body(m_aLines)
           Z == [k \in {0} |-> now]
<1>1. Untouched.buf = Current /\ Untouched.records = <<>> /\ Current.lines = m_aLines
  BY DEF Untouched, Current
<1>2. IsSeq(<<>>) /\ Len(<<>>) = 0
  BY EmptyIs
<1>3. Z[0] = now
  OBVIOUS
<1> HIDE DEF now, Z
<1>4. AreRecords(<<>>) /\ Links(<<>>, Z)
  BY <1>2 DEF AreRecords, Links
<1>5. EditedTo(Untouched, now, Z)
  BY <1>1, <1>2, <1>3, <1>4 DEF EditedTo, now
<1> QED BY <1>1, <1>5 DEF Edits, now

(* An insertion leads on, ...                                              *)
LEMMA InsertionEdits ==
    ASSUME BufferAssumption, NEW st, NEW old, Edits(st, old),
           NEW at, InText(st.buf.lines, at), NEW text, Text(text), text # <<>>
    PROVE  Edits(Insertion(st, at, text), old)
<1> DEFINE m == InsertText(st.buf, at, text)
           ur == Record(TRUE, m.buf, at, m.end, text, m.nReal)
           b == st.buf
<1>1. WellBuf(b)
  BY DEF Edits, EditedTo
<1>2. Insertion(st, at, text) = [buf |-> m.buf, records |-> Append(st.records, ur)]
  BY DEF Insertion
<1>3. WellBuf(m.buf) /\ Fits(ur, Body(b.lines), Body(m.buf.lines))
  <2>1. m = InsertText(b, at, text) /\ ur = Record(TRUE, m.buf, at, m.end, text, m.nReal)
        /\ InText(b.lines, at)
    OBVIOUS
  <2> HIDE DEF m, ur, b
  <2> QED BY <1>1, <2>1, InsertionFits
<1> DEFINE new == Insertion(st, at, text)
           after == m.buf
           r == Append(st.records, ur)
<1>4. new.buf = after /\ new.records = r
  <2>1. new = [buf |-> after, records |-> r]
    BY <1>2
  <2> HIDE DEF new, after, r
  <2> QED BY <2>1
<1> HIDE DEF new, m, ur, after
<1> QED BY <1>3, <1>4, EditExtends DEF new, after, b, r

(* ... so does a deletion, which leaves the place it starts at.            *)
LEMMA DeletionEdits ==
    ASSUME BufferAssumption, NEW st, NEW old, Edits(st, old),
           NEW start, InText(st.buf.lines, start),
           NEW nominalEnd, InText(st.buf.lines, nominalEnd), Before(start, nominalEnd)
    PROVE  /\ Edits(Deletion(st, start, nominalEnd), old)
           /\ InText(Deletion(st, start, nominalEnd).buf.lines, start)
<1> DEFINE b == st.buf
           end == DeletionEnd(b.lines, nominalEnd)
           text == GetText(b.lines, start, end)
           del == DeleteText(b, start, end)
           ur == Record(FALSE, del.buf, start, start, text, del.nReal)
           new == Deletion(st, start, nominalEnd)
<1>1. WellBuf(b) /\ WellSet(b.lines)
  BY DEF Edits, EditedTo, WellBuf
<1>2. new = IF text = <<>> THEN st ELSE [buf |-> del.buf, records |-> Append(st.records, ur)]
  BY DEF Deletion
<1>3. /\ InText(b.lines, end) /\ ~ b.lines[end.y].ghost /\ end.x = nominalEnd.x
      /\ end.y >= nominalEnd.y /\ end.y \in Nat
  BY <1>1, DeletionEndReal
<1>4. ~ Before(end, start)
  <2> DEFINE ey == end.y
             ex == end.x
  <2>1. /\ start.y \in Nat /\ start.x \in Nat /\ nominalEnd.y \in Nat /\ nominalEnd.x \in Nat
    <3>1. Proper(b.lines) /\ Len(b.lines) \in Nat
      BY <1>1 DEF WellBuf, WellSet, Proper, IsSeq
    <3>2. /\ start.y \in 1 .. Len(b.lines) /\ nominalEnd.y \in 1 .. Len(b.lines)
          /\ start.x \in Nat /\ nominalEnd.x \in Nat
      BY <3>1, AboveAndBelow
    <3> QED BY <3>1, <3>2
  <2>2. ex = nominalEnd.x /\ ey >= nominalEnd.y /\ ey \in Nat
    BY <1>3
  <2>3. Before(end, start) <=> ey < start.y \/ (ey = start.y /\ ex < start.x)
    BY DEF Before
  <2> HIDE DEF ey, ex, end
  <2> QED BY <2>1, <2>2, <2>3 DEF Before
<1>5. end = DeletionEnd(b.lines, nominalEnd) /\ text = GetText(b.lines, start, end)
      /\ del = DeleteText(b, start, end) /\ b = st.buf
      /\ ur = Record(FALSE, del.buf, start, start, text, del.nReal)
      /\ InText(b.lines, start)
  OBVIOUS
<1> HIDE DEF b, end, text, del, ur
<1>6. CASE text = <<>>
  BY <1>2, <1>5, <1>6
<1>7. CASE text # <<>>
  <2>1. WellBuf(del.buf) /\ InText(del.buf.lines, start)
        /\ Fits(ur, Body(b.lines), Body(del.buf.lines))
    BY <1>1, <1>3, <1>4, <1>5, <1>7, DeletionFits
  <2> DEFINE after == del.buf
  <2>2. new.buf = after /\ new.records = Append(st.records, ur)
    BY <1>2, <1>7
  <2>3. Fits(ur, Body(st.buf.lines), Body(after.lines)) /\ WellBuf(after)
        /\ InText(after.lines, start)
    BY <1>5, <2>1
  <2> HIDE DEF new, after
  <2>4. Edits(new, old)
    BY <2>2, <2>3, EditExtends
  <2> QED BY <2>2, <2>3, <2>4 DEF new
<1> QED BY <1>6, <1>7

-----------------------------------------------------------------------------
(* The chain, the log and an edit *)

(* The log has the texts where no group is cut.                            *)
Logged(s, l, X) ==
    \A k \in 0 .. Len(s) :
        Whole(s, k) => Text(l[Group(s, k)]) /\ l[Group(s, k)] ++ Break = X[k]

(* p records lead to the text that is there.                               *)
Recalls(s, p, l, X, now) ==
    Links(s, X) /\ Redoable(s, p, X) /\ Logged(s, l, X) /\ X[p] = now

(* What an edit keeps of the records and what it adds to them.             *)
Continued(s, p, added, n, t) ==
    /\ IsSeq(t) /\ Len(t) = p + n
    /\ \A i \in 1 .. p : t[i] = s[i]
    /\ \A i \in 1 .. n : t[p + i] = added[i]

(* The records after an edit are those kept and those added.               *)
LEMMA KeptAndAdded ==
    ASSUME NEW s, IsSeq(s), NEW p \in 0 .. Len(s), NEW added, IsSeq(added),
           NEW n \in Nat, Len(added) = n,
           NEW t, t = SubSeq(s, 1, p) \o added
    PROVE  Continued(s, p, added, n, t)
<1> DEFINE kept == SubSeq(s, 1, p)
<1>1. p \in Nat
  BY SeqIs
<1>2. /\ IsSeq(kept) /\ Len(kept) = p /\ \A i \in 1 .. p : kept[i] = s[i]
  <2>1. /\ IsSeq(kept) /\ Len(kept) = IF 1 <= p THEN p - 1 + 1 ELSE 0
        /\ \A i \in 1 .. p - 1 + 1 : kept[i] = s[1 + i - 1]
    BY <1>1, SubSeqIs
  <2> HIDE DEF kept
  <2>2. \A i \in 1 .. p : i \in 1 .. p - 1 + 1 /\ 1 + i - 1 = i
    BY <1>1
  <2> QED BY <1>1, <2>1, <2>2
<1>3. t = kept \o added
  OBVIOUS
<1> HIDE DEF kept
<1>4. /\ IsSeq(t) /\ Len(t) = p + n
      /\ \A i \in 1 .. p + n : t[i] = IF i <= p THEN kept[i] ELSE added[i - p]
  <2>1. /\ IsSeq(kept \o added) /\ Len(kept \o added) = Len(kept) + Len(added)
        /\ \A i \in 1 .. Len(kept) + Len(added) :
              (kept \o added)[i] = IF i <= Len(kept) THEN kept[i] ELSE added[i - Len(kept)]
    BY <1>2, ConcatIs
  <2> QED BY <1>2, <1>3, <2>1
<1>5. ASSUME NEW i \in 1 .. p PROVE t[i] = s[i]
  <2>1. i \in 1 .. p + n /\ i <= p
    BY <1>1
  <2> QED BY <1>2, <1>4, <2>1
<1>6. ASSUME NEW i \in 1 .. n PROVE t[p + i] = added[i]
  <2>1. p + i \in 1 .. p + n /\ ~ (p + i <= p) /\ (p + i) - p = i
    BY <1>1
  <2> QED BY <1>4, <2>1
<1> QED BY <1>4, <1>5, <1>6 DEF Continued

(* The chain that an edit leaves: X up to the edit, Z from there on.       *)
Joint(p, n, X, Z) == [k \in 0 .. p + n |-> IF k <= p THEN X[k] ELSE Z[k - p]]

(* What is known of a joint chain.                                         *)
JointIs(t, p, n, X, Z, W) ==
    /\ Links(t, W) /\ W[p + n] = Z[n]
    /\ \A k \in 0 .. p : W[k] = X[k]

(* A chain of texts up to an edit and one from there on make one chain.    *)
LEMMA JointLinks ==
    ASSUME NEW s, IsSeq(s), NEW p \in 0 .. Len(s), NEW added, IsSeq(added),
           NEW n \in Nat, Len(added) = n, NEW t, t = SubSeq(s, 1, p) \o added,
           NEW X, NEW Z, Links(s, X), Links(added, Z), Z[0] = X[p],
           NEW W, W = Joint(p, n, X, Z)
    PROVE  JointIs(t, p, n, X, Z, W)
<1>1. /\ IsSeq(t) /\ Len(t) = p + n
      /\ \A i \in 1 .. p : t[i] = s[i]
      /\ \A i \in 1 .. n : t[p + i] = added[i]
  <2>1. Continued(s, p, added, n, t)
    BY KeptAndAdded
  <2> QED BY <2>1 DEF Continued
<1>2. p \in Nat /\ p <= Len(s) /\ Len(s) \in Nat
  BY SeqIs
<1>3. \A k \in 0 .. p + n : W[k] = IF k <= p THEN X[k] ELSE Z[k - p]
  BY DEF Joint
<1>4. \A k \in 0 .. p : W[k] = X[k]
  BY <1>2, <1>3
<1>5. ASSUME NEW j \in 0 .. n PROVE W[p + j] = Z[j]
  <2>1. CASE j = 0
    <3>1. p + j = p /\ p \in 0 .. p
      BY <1>2, <2>1
    <3> QED BY <1>4, <2>1, <3>1
  <2>2. CASE j # 0
    <3>1. p + j \in 0 .. p + n /\ ~ (p + j <= p) /\ (p + j) - p = j
      BY <1>2, <2>2
    <3> QED BY <1>3, <3>1
  <2> QED BY <2>1, <2>2
<1>6. ASSUME NEW k \in 1 .. p + n PROVE Fits(t[k], W[k - 1], W[k])
  <2>1. CASE k <= p
    <3>1. k \in 1 .. p /\ k \in 0 .. p /\ k - 1 \in 0 .. p /\ k \in 1 .. Len(s)
      BY <1>2, <2>1
    <3>2. Fits(s[k], X[k - 1], X[k])
      BY <3>1 DEF Links
    <3> QED BY <1>1, <1>4, <3>1, <3>2
  <2>2. CASE ~ (k <= p)
    <3> DEFINE j == k - p
    <3>1. j \in 1 .. n /\ j \in 0 .. n /\ j - 1 \in 0 .. n /\ p + j = k /\ p + (j - 1) = k - 1
      BY <1>2, <2>2
    <3>2. Fits(added[j], Z[j - 1], Z[j])
      BY <3>1 DEF Links
    <3>3. t[p + j] = added[j] /\ W[p + j] = Z[j] /\ W[p + (j - 1)] = Z[j - 1]
      BY <1>1, <1>5, <3>1
    <3> HIDE DEF j
    <3> QED BY <3>1, <3>2, <3>3
  <2> QED BY <2>1, <2>2
<1>7. Links(t, W)
  BY <1>1, <1>6 DEF Links
<1>8. W[p + n] = Z[n]
  BY <1>5
<1> QED BY <1>4, <1>7, <1>8 DEF JointIs

(* An edit adds its chain to the one there is and its text to the log.     *)
LEMMA EditRecalls ==
    ASSUME NEW s, NEW l, NEW p, NEW m, NEW sync, NEW disk, Tracks(s, l, p, m, sync, disk),
           NEW X, NEW now, Recalls(s, p, l, X, now),
           NEW added, NEW m2, Adds(added, p, m, m2),
           NEW Z, Links(added, Z), Z[0] = now,
           NEW text, Text(text), Z[Len(added)] = text ++ Break,
           NEW t, t = SubSeq(s, 1, p) \o added,
           NEW l2, l2 = Append(SubSeq(l, 1, m2 - 1), text)
    PROVE  \E W : Recalls(t, Len(t), l2, W, text ++ Break)
<1> DEFINE n == Len(added)
           W == Joint(p, n, X, Z)
           done == text ++ Break
<1>1. /\ IsSeq(s) /\ p \in 0 .. Len(s) /\ Whole(s, p) /\ Whole(s, 0) /\ AreMarked(s) /\ IsSeq(l)
      /\ m = Group(s, p) /\ Len(l) = Group(s, Len(s))
  BY DEF Tracks, AreMarked
<1>2. Len(s) \in Nat /\ p \in Nat /\ p <= Len(s)
  BY <1>1, SeqIs
<1>3. IsSeq(added) /\ n \in Nat /\ n # 0 /\ \A k \in 2 .. n : ~ added[k].begin
  BY SeqIs DEF Adds, AreMarked
<1>4. Links(s, X) /\ Logged(s, l, X) /\ Z[0] = X[p]
  BY DEF Recalls
<1>5. /\ IsSeq(t) /\ Len(t) = p + n
      /\ \A i \in 1 .. p : t[i] = s[i]
      /\ \A i \in 1 .. n : t[p + i] = added[i]
  <2>1. Len(added) = n
    OBVIOUS
  <2> HIDE DEF n
  <2>2. Continued(s, p, added, n, t)
    BY <1>1, <1>3, <2>1, KeptAndAdded
  <2> QED BY <2>2 DEF Continued
<1>6. Links(t, W) /\ W[p + n] = Z[n] /\ \A k \in 0 .. p : W[k] = X[k]
  <2>1. W = Joint(p, n, X, Z) /\ Len(added) = n
    OBVIOUS
  <2> HIDE DEF n, W
  <2>2. JointIs(t, p, n, X, Z, W)
    BY <1>1, <1>3, <1>4, <2>1, JointLinks
  <2> QED BY <2>2 DEF JointIs
<1> HIDE DEF W
<1>7. Redoable(t, Len(t), W)
  <2>1. Len(t) \in Nat
    BY <1>5, SeqIs
  <2> DEFINE N == Len(t)
  <2>2. N \in Nat
    BY <2>1
  <2> HIDE DEF N
  <2>3. N + 1 .. N = {}
    BY <2>2
  <2> QED BY <2>3 DEF Redoable, N
<1>8. ASSUME NEW k \in 0 .. p, Whole(t, k) PROVE Text(l2[Group(t, k)]) /\ l2[Group(t, k)] ++ Break = W[k]
  <2> DEFINE e == l[Group(s, k)]
  <2>1. Tracks(s, l, p, m, k, e)
    <3>1. k \in npos .. Len(s)
      BY <1>2 DEF npos
    <3> QED BY <1>1, <3>1 DEF Tracks
  <2>2. Extended(s, l, p, k, e, added, m2, text)
    <3> HIDE DEF e
    <3> QED BY <2>1, EditTracks
  <2>3. (IF p < Len(s) /\ k > p THEN npos ELSE k) = k /\ k # npos
    BY <1>2 DEF npos
  <2>4. Tracks(t, l2, Len(t), m2, k, e)
    <3> HIDE DEF e
    <3> QED BY <2>2, <2>3 DEF Extended
  <2>5. l2[Group(t, k)] = e
    BY <1>8, <2>3, <2>4 DEF Tracks
  <2>6. Whole(s, k)
    <3>1. CASE k = p
      BY <1>1, <3>1
    <3>2. CASE k # p
      <4>1. k + 1 \in Firsts(t)
        <5>1. k # Len(t)
          BY <1>2, <1>3, <1>5, <3>2
        <5> QED BY <1>8, <5>1 DEF Whole
      <4>2. k + 1 \in 1 .. p /\ k + 1 \in 1 .. Len(s)
        BY <1>2, <3>2
      <4>3. s[k + 1].begin
        BY <1>5, <4>1, <4>2 DEF Firsts
      <4> QED BY <4>2, <4>3 DEF Whole, Firsts
    <3> QED BY <3>1, <3>2
  <2>7. k \in 0 .. Len(s)
    BY <1>2
  <2>8. Text(e) /\ e ++ Break = X[k]
    BY <1>4, <2>6, <2>7 DEF Logged
  <2> QED BY <1>6, <2>5, <2>8
<1>9. /\ l2[m2] = text /\ Group(t, Len(t)) = m2
  <2>1. Extended(s, l, p, sync, disk, added, m2, text)
    BY EditTracks
  <2>2. \E sync2 : Tracks(t, l2, Len(t), m2, sync2, disk) /\ l2[m2] = text
    BY <2>1 DEF Extended
  <2> QED BY <2>2 DEF Tracks
<1>10. ASSUME NEW k \in 0 .. Len(t), ~ (k \in 0 .. p), Whole(t, k) PROVE k = Len(t)
  <2> SUFFICES ASSUME k # Len(t) PROVE FALSE
    OBVIOUS
  <2>1. k + 1 \in Firsts(t)
    BY <1>10 DEF Whole
  <2> DEFINE i == (k + 1) - p
  <2>2. i \in 2 .. n /\ i \in 1 .. n /\ p + i = k + 1
    <3> DEFINE N == Len(t)
    <3>1. N = p + n /\ k \in 0 .. N /\ k # N /\ ~ (k \in 0 .. p)
      BY <1>5, <1>10
    <3> HIDE DEF N, n
    <3> QED BY <1>2, <1>3, <3>1
  <2>3. t[p + i] = added[i] /\ ~ added[i].begin
    BY <1>3, <1>5, <2>2
  <2>4. t[k + 1].begin
    BY <2>1 DEF Firsts
  <2> HIDE DEF i
  <2> QED BY <2>2, <2>3, <2>4
<1>11. W[Len(t)] = done
  BY <1>5, <1>6
<1> HIDE DEF done
<1>12. Logged(t, l2, W)
  <2>1. ASSUME NEW k \in 0 .. Len(t), Whole(t, k)
        PROVE  Text(l2[Group(t, k)]) /\ l2[Group(t, k)] ++ Break = W[k]
    <3>1. CASE k \in 0 .. p
      BY <1>8, <2>1, <3>1
    <3>2. CASE ~ (k \in 0 .. p)
      <4>1. k = Len(t)
        BY <1>10, <2>1, <3>2
      <4> QED BY <1>9, <1>11, <4>1 DEF done
    <3> QED BY <3>1, <3>2
  <2> QED BY <2>1, Zenon DEF Logged
<1>13. Recalls(t, Len(t), l2, W, done)
  BY <1>6, <1>7, <1>11, <1>12 DEF Recalls
<1> QED BY <1>13 DEF done

-----------------------------------------------------------------------------
(* An edit keeps the chain *)

(* The text is what the records up to the undo position lead to, and the   *)
(* log has the texts between the groups.                                   *)
HInv ==
    /\ WellSet(m_aLines)
    /\ \E X : Recalls(m_aUndoBuf, m_nUndoPosition, log, X, Body(m_aLines))

(* The mark of a record has no part in what it does.                       *)
LEMMA MarkSet ==
    ASSUME NEW ur, NEW X, NEW Y, Fits(ur, X, Y), NEW e
    PROVE  Fits([ur EXCEPT !.begin = e], X, Y)
<1> DEFINE new == [ur EXCEPT !.begin = e]
<1>1. IsRecord(ur)
  BY DEF Fits
<1>2. IsRecord(new)
  BY <1>1, RecordBegins
<1>3. /\ new.insert = ur.insert /\ new.text = ur.text /\ new.nReal = ur.nReal
      /\ new.start = ur.start /\ new.end = ur.end
  BY <1>1 DEF IsRecord
<1> HIDE DEF new
<1>4. Fits(new, X, Y)
  BY <1>2, <1>3, FitsWith
<1> QED BY <1>4 DEF new

(* Marking a record as the first of its group does not change where the    *)
(* records lead.                                                           *)
LEMMA MarkedLinks ==
    ASSUME NEW records, NEW added, MarkedFrom(records, added), NEW Z, Links(records, Z)
    PROVE  Links(added, Z)
<1>1. PICK e : \A k \in 1 .. Len(records) :
          added[k] = IF k = 1 THEN [records[1] EXCEPT !.begin = e] ELSE records[k]
  BY DEF MarkedFrom
<1>2. Len(added) = Len(records)
  BY DEF MarkedFrom
<1>3. ASSUME NEW k \in 1 .. Len(records) PROVE Fits(added[k], Z[k - 1], Z[k])
  <2> DEFINE old == Z[k - 1]
             now == Z[k]
             ur == records[k]
  <2>1. Fits(ur, old, now)
    BY DEF Links
  <2>2. CASE k = 1
    <3> DEFINE new == [ur EXCEPT !.begin = e]
    <3>1. added[k] = new
      BY <1>1, <2>2
    <3>2. Fits(new, old, now)
      <4> HIDE DEF old, now, ur
      <4> QED BY <2>1, MarkSet
    <3> HIDE DEF new
    <3> QED BY <3>1, <3>2
  <2>3. CASE k # 1
    <3>1. added[k] = ur
      BY <1>1, <2>3
    <3> QED BY <2>1, <3>1
  <2> QED BY <2>2, <2>3
<1> QED BY <1>2, <1>3 DEF Links

(* The text of the buffer, once more with its last line ended.             *)
LEMMA TextIsBody ==
    ASSUME BufferAssumption, WellSet(m_aLines)
    PROVE  Text(FileText(m_aLines)) /\ FileText(m_aLines) ++ Break = Body(m_aLines)
<1> QED BY FileTextIs

(* An edit keeps the texts that the records lead through: it drops the     *)
(* records that could be redone, adds its own behind the others and logs   *)
(* the text it leaves.                                                     *)
LEMMA PerformRecalls ==
    ASSUME BufferAssumption, SyncInv, HInv, NEW st, Edits(st, Body(m_aLines)), Plain(st.records),
           NEW merge, Perform(st, merge)
    PROVE  HInv'
<1> DEFINE now == Body(m_aLines)
           then == st.buf.lines
           text == FileText(then)
           s == m_aUndoBuf
           p == m_nUndoPosition
<1>1. PICK added : MarkedFrom(st.records, added) /\ Added(added)
  BY PerformAdds
<1>2. PICK Z : EditedTo(st, now, Z)
  BY DEF Edits
<1>3. PICK X : Recalls(s, p, log, X, now)
  BY DEF HInv
<1>4. m_aLines' = then /\ WellSet(then)
  BY <1>2 DEF Perform, EditedTo, WellBuf
<1>5. Text(text) /\ text ++ Break = Body(then)
  <2> HIDE DEF then
  <2> QED BY <1>4, FileTextIs
<1>6. /\ Z[0] = now /\ Z[Len(added)] = Body(then) /\ Links(added, Z)
  BY <1>1, <1>2, MarkedLinks DEF EditedTo, MarkedFrom
<1> DEFINE t == SubSeq(s, 1, p) \o added
           m2 == marker'
           l2 == Append(SubSeq(log, 1, m2 - 1), text)
<1>7. /\ m_aUndoBuf' = t /\ m_nUndoPosition' = Len(t)
      /\ log' = Append(SubSeq(log, 1, m2 - 1), FileText(m_aLines'))
      /\ Adds(added, p, marker, m2)
  BY <1>1 DEF Added
<1>8. log' = l2
  <2> HIDE DEF then
  <2> QED BY <1>4, <1>7
<1>9. \E W : Recalls(t, Len(t), l2, W, text ++ Break)
  <2>1. Tracks(s, log, p, marker, m_nSyncPosition, file)
    BY DEF SyncInv
  <2>2. Z[Len(added)] = text ++ Break
    BY <1>5, <1>6
  <2>3. t = SubSeq(s, 1, p) \o added /\ l2 = Append(SubSeq(log, 1, m2 - 1), text)
    OBVIOUS
  <2> HIDE DEF t, l2, m2, text, then, now
  <2> QED BY <1>3, <1>5, <1>6, <1>7, <2>1, <2>2, <2>3, EditRecalls
<1> HIDE DEF t, l2, text, then
<1>10. PICK W : Recalls(t, Len(t), l2, W, Body(then))
  BY <1>5, <1>9
<1>11. Recalls(m_aUndoBuf', m_nUndoPosition', log', W, Body(m_aLines'))
  BY <1>4, <1>7, <1>8, <1>10
<1>12. WellSet(m_aLines')
  BY <1>4
<1> QED BY <1>11, <1>12 DEF HInv

-----------------------------------------------------------------------------
(* Edits are steps of the edit history *)

(* Past the first group the marker is past the first entry.                *)
LEMMA MarkerPast ==
    ASSUME SyncInv, m_nUndoPosition > 0
    PROVE  marker > 1
<1> DEFINE s == m_aUndoBuf
           p == m_nUndoPosition
<1>1. /\ IsSeq(s) /\ Len(s) \in Nat /\ p \in 0 .. Len(s) /\ p \in Nat /\ p > 0
      /\ Whole(s, 0) /\ marker = Group(s, p)
  BY MarkerIs DEF SyncInv, Tracks
<1> HIDE DEF s, p
<1>2. 0 + 1 \in Firsts(s)
  <2>1. 0 # Len(s)
    BY <1>1
  <2> QED BY <1>1, <2>1 DEF Whole
<1>3. Group(s, 0) + 1 <= Group(s, p) /\ Group(s, 0) \in Nat /\ Group(s, 0) >= 1 /\ Group(s, p) \in Nat
  <2>1. /\ \A b \in Int : Group(s, b) \in Nat /\ Group(s, b) >= 1
        /\ \A a, b \in Int : a + 1 \in Firsts(s) /\ a < b => Group(s, a) + 1 <= Group(s, b)
    BY <1>1, GroupIs
  <2>2. 0 \in Int /\ p \in Int /\ 0 < p
    BY <1>1
  <2> QED BY <1>2, <2>1, <2>2
<1> QED BY <1>1, <1>3

(* In the abstract history an edit is a new text in the log, or a change   *)
(* of the last one when it joins its group.                                *)
LEMMA PerformIsEdit ==
    ASSUME BufferAssumption, SyncInv, NEW st, Plain(st.records), NEW merge, Perform(st, merge),
           WellSet(m_aLines')
    PROVE  History!Edit \/ History!EditOn
<1> DEFINE text == FileText(m_aLines')
<1>1. PICK added : Added(added)
  BY PerformAdds
<1>2. log' = Append(SubSeq(log, 1, marker' - 1), text) /\ Adds(added, m_nUndoPosition, marker, marker')
  BY <1>1 DEF Added
<1>3. text \in Seq(Chars \union {EOL})
  BY FileTextIs DEF Text, Over
<1>4. marker \in Nat
  BY MarkerIs
<1>5. marker' = marker + 1 \/ (marker' = marker /\ m_nUndoPosition > 0)
  BY <1>2 DEF Adds
<1>6. text = FileText(m_aLines)'
  OBVIOUS
<1> HIDE DEF text
<1>7. CASE marker' = marker + 1
  <2>1. (marker + 1) - 1 = marker
    BY <1>4
  <2>2. log' = Append(SubSeq(log, 1, marker), text)
    BY <1>2, <1>7, <2>1
  <2> QED BY <1>3, <1>6, <1>7, <2>2 DEF History!Edit
<1>8. CASE marker' = marker /\ m_nUndoPosition > 0
  <2>1. log' = Append(SubSeq(log, 1, marker - 1), text) /\ marker > 1
    BY <1>2, <1>8, MarkerPast
  <2> QED BY <1>3, <1>6, <1>8, <2>1 DEF History!EditOn
<1> QED BY <1>5, <1>7, <1>8

(* What is typed, pasted or copied is a text, and not an empty one.        *)
LEMMA InsertsAre ==
    ASSUME BufferAssumption, NEW text \in Inserts
    PROVE  Text(text) /\ text # <<>>
<1> QED BY DEF BufferAssumption, Text, Over

(* The places that the user edits at are in the text.                      *)
LEMMA PlacesInText ==
    ASSUME BufferAssumption, WellSet(m_aLines), NEW p \in Places
    PROVE  InText(m_aLines, p)
<1>1. PICK y \in DOMAIN m_aLines : p \in {Point(y, x) : x \in 0 .. Len(m_aLines[y].text)}
  BY DEF Places
<1>2. PICK x \in 0 .. Len(m_aLines[y].text) : p = Point(y, x)
  BY <1>1
<1>3. p.y = y /\ p.x = x
  BY <1>2 DEF Point
<1> QED BY <1>2, <1>3 DEF InText

(* The records of a step, and where it leads.                              *)
EditIs == HInv' /\ (History!Edit \/ History!EditOn)

(* An edit whose records lead from the text to the one it leaves keeps     *)
(* HInv and is a step of the abstract history.                             *)
LEMMA PerformEdits ==
    ASSUME BufferAssumption, SyncInv, HInv, NEW st, Edits(st, Body(m_aLines)), Plain(st.records),
           NEW merge, Perform(st, merge)
    PROVE  EditIs
<1>1. HInv'
  BY PerformRecalls
<1>2. WellSet(m_aLines')
  BY <1>1 DEF HInv
<1>3. History!Edit \/ History!EditOn
  BY <1>2, PerformIsEdit
<1> QED BY <1>1, <1>3 DEF EditIs

(* An edit keeps the chain and is an edit of the history.                  *)
LEMMA EditsKeep ==
    ASSUME BufferAssumption, IInv, SyncInv, HInv, Insert \/ Delete \/ Replace
    PROVE  EditIs
<1>1. Plain(Untouched.records)
  <2>1. Untouched.records = <<>>
    BY DEF Untouched
  <2>2. IsSeq(<<>>) /\ \A k \in 1 .. Len(<<>>) : FALSE
    BY EmptyIs
  <2> QED BY <2>1, <2>2 DEF Plain, AreMarked
<1> DEFINE now == Body(m_aLines)
<1>2. Edits(Untouched, now) /\ Untouched.buf.lines = m_aLines /\ WellSet(m_aLines)
  <2>1. WellBuf(Current) /\ WellSet(m_aLines)
    BY DEF WellBuf, Current, IInv, HInv
  <2> QED BY <2>1, UntouchedEdits
<1> HIDE DEF now
<1>3. CASE Insert
  <2>1. PICK at \in Places, text \in Inserts, merge \in BOOLEAN :
            Perform(Insertion(Untouched, at, text), merge)
    BY <1>3 DEF Insert
  <2> DEFINE st == Insertion(Untouched, at, text)
  <2>2. InText(Untouched.buf.lines, at) /\ Text(text) /\ text # <<>>
    BY <1>2, PlacesInText, InsertsAre
  <2>3. Edits(st, now)
    BY <1>2, <2>2, InsertionEdits
  <2>4. Plain(st.records)
    BY <1>1, InsertionPlain
  <2> HIDE DEF st
  <2> QED BY <2>1, <2>3, <2>4, PerformEdits DEF st, now
<1>4. ASSUME NEW start \in Places, NEW end \in Places, Before(start, end),
             NEW st, st = Deletion(Untouched, start, end)
      PROVE  Edits(st, now) /\ InText(st.buf.lines, start) /\ Plain(st.records)
  <2>1. InText(Untouched.buf.lines, start) /\ InText(Untouched.buf.lines, end)
    BY <1>2, PlacesInText
  <2>2. /\ Edits(Deletion(Untouched, start, end), now)
        /\ InText(Deletion(Untouched, start, end).buf.lines, start)
    BY <1>2, <1>4, <2>1, DeletionEdits
  <2>3. Plain(Deletion(Untouched, start, end).records)
    BY <1>1, DeletionPlain
  <2> QED BY <1>4, <2>2, <2>3
<1>5. CASE Delete
  <2>1. PICK start \in Places, end \in Places :
            Before(start, end) /\ Perform(Deletion(Untouched, start, end), FALSE)
    BY <1>5 DEF Delete
  <2> DEFINE st == Deletion(Untouched, start, end)
  <2>2. st = Deletion(Untouched, start, end)
    OBVIOUS
  <2> HIDE DEF st
  <2>3. Edits(st, now) /\ Plain(st.records)
    BY <1>4, <2>1, <2>2
  <2> QED BY <2>1, <2>3, PerformEdits DEF st, now
<1>6. CASE Replace
  <2>1. PICK start \in Places, end \in Places, text \in Inserts :
            /\ Before(start, end)
            /\ Perform(Insertion(Deletion(Untouched, start, end), start, text), FALSE)
    BY <1>6 DEF Replace
  <2> DEFINE cut == Deletion(Untouched, start, end)
             st == Insertion(cut, start, text)
  <2>2. cut = Deletion(Untouched, start, end)
    OBVIOUS
  <2> HIDE DEF cut
  <2>3. Edits(cut, now) /\ InText(cut.buf.lines, start) /\ Plain(cut.records)
    BY <1>4, <2>1, <2>2
  <2>4. Edits(st, now)
    BY <2>3, InsertsAre, InsertionEdits
  <2>5. Plain(st.records)
    BY <2>3, InsertionPlain
  <2>6. Perform(st, FALSE)
    BY <2>1, <2>2
  <2> HIDE DEF st
  <2> QED BY <2>4, <2>5, <2>6, PerformEdits DEF now
<1> QED BY <1>3, <1>5, <1>6

-----------------------------------------------------------------------------
(* Undo and redo are steps of the edit history *)

(* With the chain of texts every record fits what it is replayed on.       *)
LEMMA RecordsFit ==
    ASSUME BufferAssumption, IInv, HInv
    PROVE  ReplayFits
<1> DEFINE s == m_aUndoBuf
           p == m_nUndoPosition
<1>1. PICK X : Recalls(s, p, log, X, Body(m_aLines))
  BY DEF HInv
<1>2. WellBuf(Current)
  BY DEF WellBuf, Current, IInv, HInv
<1>3. IsSeq(s) /\ Len(s) \in Nat /\ p \in 0 .. Len(s) /\ p \in Nat
  BY SeqIs DEF IInv, AreRecords
<1>4. Links(s, X) /\ Redoable(s, p, X) /\ X[p] = Body(m_aLines)
  BY <1>1 DEF Recalls
<1>5. \A n \in 1 .. p : UndoFits(Undoing[n - 1], s[p + 1 - n])
  BY <1>2, <1>3, <1>4, UndoingRestores
<1>6. \A n \in 1 .. Len(s) - p : RedoFits(Redoing[n - 1], s[p + n])
  BY <1>2, <1>3, <1>4, RedoingRestores
<1>7. ASSUME p > 0, NEW n \in 1 .. p + 1 - FirstToUndo PROVE n \in 1 .. p
  <2>1. FirstToUndo \in 1 .. p
    BY <1>7, FirstToUndoIs
  <2> DEFINE f == FirstToUndo
  <2>2. f \in 1 .. p /\ n \in 1 .. p + 1 - f
    BY <2>1
  <2> HIDE DEF f, p
  <2> QED BY <1>3, <2>2
<1>8. ASSUME p < Len(s), NEW n \in 1 .. LastToRedo - p PROVE n \in 1 .. Len(s) - p
  <2>1. LastToRedo \in p + 1 .. Len(s)
    BY <1>8, LastToRedoIs
  <2> DEFINE last == LastToRedo
             N == Len(s)
  <2>2. last \in p + 1 .. N /\ n \in 1 .. last - p /\ N \in Nat
    BY <1>3, <2>1
  <2> HIDE DEF last, p, N
  <2> QED BY <1>3, <2>2 DEF N
<1>9. p > 0 => \A n \in 1 .. p + 1 - FirstToUndo : UndoFits(Undoing[n - 1], s[p + 1 - n])
  BY <1>5, <1>7
<1>10. p < Len(s) => \A n \in 1 .. LastToRedo - p : RedoFits(Redoing[n - 1], s[p + n])
  BY <1>6, <1>8
<1> QED BY <1>9, <1>10, Zenon DEF ReplayFits

(* What an undo puts in the place of the records it undoes.                *)
UndoneRecords(s, p, q, r, X, t) ==
    /\ IsSeq(s) /\ p \in 0 .. Len(s) /\ q \in 0 .. p
    /\ Swapped(s, q, r, p, t) /\ Firsts(t) = Firsts(s)
    /\ \A j \in 1 .. p - q : Replays(r[j], X[(q + j) - 1], X[q + j])

(* The chain leads through the same texts after an undo.                   *)
LEMMA UndoneRecalls ==
    ASSUME NEW s, NEW p, NEW q, NEW r, NEW X, NEW t, UndoneRecords(s, p, q, r, X, t),
           NEW l, NEW now, Recalls(s, p, l, X, now)
    PROVE  Recalls(t, q, l, X, X[q])
<1> DEFINE N == Len(s)
<1>1. /\ IsSeq(s) /\ p \in 0 .. N /\ q \in 0 .. p /\ IsSeq(t) /\ Len(t) = N
      /\ Firsts(t) = Firsts(s)
      /\ \A i \in 1 .. N : t[i] = IF i <= q \/ i > p THEN s[i] ELSE r[i - q]
      /\ \A j \in 1 .. p - q : Replays(r[j], X[(q + j) - 1], X[q + j])
  BY DEF UndoneRecords, Swapped
<1>2. Links(s, X) /\ Redoable(s, p, X) /\ Logged(s, l, X)
  BY DEF Recalls
<1>3. N \in Nat /\ p \in Nat /\ q \in Nat /\ q <= p /\ p <= N
  BY <1>1, SeqIs
<1> HIDE DEF N
<1>4. ASSUME NEW k \in q + 1 .. p PROVE Replays(t[k], X[k - 1], X[k])
  <2> DEFINE j == k - q
  <2>1. j \in 1 .. p - q /\ q + j = k /\ k \in 1 .. N /\ ~ (k <= q) /\ ~ (k > p)
    BY <1>3
  <2>2. t[k] = r[j]
    BY <1>1, <2>1
  <2>3. Replays(r[j], X[(q + j) - 1], X[q + j])
    BY <1>1, <2>1
  <2> HIDE DEF j
  <2> QED BY <2>1, <2>2, <2>3
<1>5. ASSUME NEW k \in 1 .. N, k <= q \/ k > p PROVE t[k] = s[k]
  BY <1>1, <1>5
<1>6. ASSUME NEW k \in 1 .. N PROVE Fits(t[k], X[k - 1], X[k])
  <2>1. CASE k \in q + 1 .. p
    BY <1>4, <2>1 DEF Replays
  <2>2. CASE ~ (k \in q + 1 .. p)
    <3>1. k <= q \/ k > p
      BY <1>3, <2>2
    <3>2. Fits(s[k], X[k - 1], X[k])
      BY <1>2 DEF Links, N
    <3> QED BY <1>5, <3>1, <3>2
  <2> QED BY <2>1, <2>2
<1>7. ASSUME NEW k \in q + 1 .. N PROVE Redoes(t[k], X[k - 1], X[k])
  <2>1. CASE k \in q + 1 .. p
    BY <1>4, <2>1 DEF Replays
  <2>2. CASE ~ (k \in q + 1 .. p)
    <3>1. k \in p + 1 .. N /\ k \in 1 .. N /\ k > p
      BY <1>3, <2>2
    <3>2. Redoes(s[k], X[k - 1], X[k])
      BY <1>2, <3>1 DEF Redoable, N
    <3> QED BY <1>5, <3>1, <3>2
  <2> QED BY <2>1, <2>2
<1>8. Links(t, X)
  BY <1>1, <1>6 DEF Links
<1>9. Redoable(t, q, X)
  BY <1>1, <1>7 DEF Redoable
<1>10. \A k : Whole(t, k) <=> Whole(s, k)
  BY <1>1 DEF Whole, N
<1>11. \A k : Group(t, k) = Group(s, k)
  BY <1>1 DEF Group
<1>12. Logged(t, l, X)
  BY <1>1, <1>2, <1>10, <1>11 DEF Logged, N
<1> QED BY <1>8, <1>9, <1>12 DEF Recalls

(* The text at the end of a group is the log's.                            *)
LEMMA TextOfGroup ==
    ASSUME BufferAssumption, NEW s, NEW l, NEW X, Logged(s, l, X),
           NEW k \in 0 .. Len(s), Whole(s, k),
           NEW lines, WellSet(lines), Body(lines) = X[k]
    PROVE  FileText(lines) = l[Group(s, k)]
<1> DEFINE e == l[Group(s, k)]
           text == FileText(lines)
<1>1. Text(e) /\ e ++ Break = X[k]
  BY DEF Logged
<1>2. Text(text) /\ text ++ Break = Body(lines)
  BY FileTextIs
<1> HIDE DEF e, text
<1>3. text = e
  BY <1>1, <1>2, BreakIs, CancelEnd
<1> QED BY <1>3 DEF text, e

-----------------------------------------------------------------------------

(* An undo goes back to the text before its group.                         *)
LEMMA UndoIsUndo ==
    ASSUME BufferAssumption, SyncInv, IInv, HInv, Undo
    PROVE  HInv' /\ History!Undo
<1> DEFINE s == m_aUndoBuf
           p == m_nUndoPosition
           f == FirstToUndo
           q == f - 1
           M == p + 1 - f
           done == Undoing[M]
           r == done.records
           t == SubSeq(s, 1, q) \o r \o SubSeq(s, p + 1, Len(s))
<1>1. /\ AreMarked(s) /\ IsSeq(s) /\ Len(s) \in Nat /\ p \in 0 .. Len(s) /\ p \in Nat /\ p > 0
      /\ Tracks(s, log, p, marker, m_nSyncPosition, file) /\ Len(log) \in Nat /\ marker \in Nat
  BY MarkerIs DEF Undo, SyncInv
<1>2. f \in 1 .. p /\ f \in Firsts(s) /\ \A k \in Firsts(s) : k <= f \/ k > p
  BY <1>1, FirstOfGroup
<1>3. M \in 0 .. p /\ p - M = q /\ q \in 0 .. p /\ q \in Nat /\ M = p - q
  BY <1>1, <1>2
<1>4. PICK X : Recalls(s, p, log, X, Body(m_aLines))
  BY DEF HInv
<1>5. UndoneSoFar(done, M, q, X)
  <2>1. WellBuf(Current) /\ Links(s, X) /\ X[p] = Body(m_aLines)
    BY <1>4 DEF WellBuf, Current, IInv, HInv, Recalls
  <2>2. \A n \in 0 .. p : UndoneSoFar(Undoing[n], n, p - n, X)
    BY <1>1, <2>1, UndoingRestores
  <2> HIDE DEF M, q
  <2> QED BY <1>3, <2>2
<1>6. IsMarking(M)
  BY <1>1, <1>3, UndoingMarks
<1>7. /\ AreMarked(r) /\ IsSeq(r) /\ Len(r) = M
      /\ \A j \in 1 .. M : r[j].begin = s[p - M + j].begin
  BY <1>5, <1>6 DEF IsMarking, UndoneSoFar, AreMarked
<1>8. /\ m_aLines' = done.buf.lines
      /\ m_nUndoPosition' = IF p - Len(r) = f - 1 THEN p - Len(r) ELSE 0
      /\ m_aUndoBuf' = IF p - Len(r) = f - 1
                       THEN SubSeq(s, 1, p - Len(r)) \o r \o SubSeq(s, p + 1, Len(s)) ELSE <<>>
      /\ marker' = IF p - Len(r) = f - 1 THEN marker - 1 ELSE 1
      /\ log' = IF p - Len(r) = f - 1 THEN log ELSE <<FileText(m_aLines')>>
  BY Zenon DEF Undo, Undone
<1>9. WellBuf(done.buf) /\ Body(done.buf.lines) = X[q]
      /\ \A j \in 1 .. M : Replays(r[j], X[(q + j) - 1], X[q + j])
  BY <1>5 DEF UndoneSoFar
<1>10. t = SubSeq(s, 1, q) \o r \o SubSeq(s, p + 1, Len(s))
  OBVIOUS
<1>11. q = f - 1
  OBVIOUS
<1> HIDE DEF t, q, r, done, M, f, s, p
<1>12. p - Len(r) = f - 1 /\ p - Len(r) = q
  BY <1>3, <1>7, <1>11
<1>13. m_nUndoPosition' = q /\ m_aUndoBuf' = t /\ marker' = marker - 1 /\ log' = log
  BY <1>8, <1>10, <1>12
<1>14. AreMarked(t) /\ Len(t) = Len(s) /\ Firsts(t) = Firsts(s)
  <2>1. Len(r) = p - q /\ \A j \in 1 .. Len(r) : r[j].begin = s[q + j].begin
    BY <1>3, <1>7
  <2> DEFINE u == SubSeq(s, 1, q) \o r \o SubSeq(s, p + 1, Len(s))
  <2>2. AreMarked(u) /\ Len(u) = Len(s) /\ Firsts(u) = Firsts(s)
    <3>1. AreMarked(s) /\ p \in 0 .. Len(s) /\ q \in 0 .. p
      BY <1>1, <1>3
    <3>2. AreMarked(r)
      BY <1>7
    <3> QED BY <2>1, <3>1, <3>2, UndoneMarks, Zenon
  <2>3. t = u
    BY <1>10
  <2> HIDE DEF u
  <2> QED BY <2>2, <2>3
<1>15. UndoneRecords(s, p, q, r, X, t)
  <2>1. Len(r) = p - q
    BY <1>3, <1>7
  <2>2. Swapped(s, q, r, p, t)
    BY <1>1, <1>3, <1>7, <1>10, <2>1, SwappedIs
  <2>3. \A j \in 1 .. p - q : Replays(r[j], X[(q + j) - 1], X[q + j])
    BY <1>3, <1>9
  <2> QED BY <1>1, <1>3, <1>14, <2>2, <2>3 DEF UndoneRecords
<1>16. Recalls(t, q, log, X, X[q])
  BY <1>4, <1>15, UndoneRecalls
<1>17. WellSet(m_aLines') /\ Body(m_aLines') = X[q]
  BY <1>8, <1>9 DEF WellBuf
<1>18. HInv'
  <2>1. Recalls(m_aUndoBuf', m_nUndoPosition', log', X, Body(m_aLines'))
    BY <1>13, <1>16, <1>17
  <2> QED BY <1>17, <2>1 DEF HInv
<1>19. Tracks(t, log, q, marker - 1, m_nSyncPosition, file) /\ marker >= 2
  BY <1>1, <1>2, <1>11, <1>14, UndoTracks
<1>20. q \in 0 .. Len(t) /\ Whole(t, q) /\ marker - 1 = Group(t, q)
  BY <1>19 DEF Tracks
<1> DEFINE lines == m_aLines'
<1>21. FileText(m_aLines') = log[marker - 1]
  <2>1. Logged(t, log, X) /\ WellSet(lines) /\ Body(lines) = X[q]
    BY <1>16, <1>17 DEF Recalls
  <2> HIDE DEF lines
  <2>2. FileText(lines) = log[Group(t, q)]
    BY <1>20, <2>1, TextOfGroup
  <2> QED BY <1>20, <2>2 DEF lines
<1>22. History!Undo
  <2>1. FileText(m_aLines)' = log[marker - 1] /\ marker > 1
    BY <1>1, <1>19, <1>21
  <2> QED BY <1>13, <2>1 DEF History!Undo
<1> QED BY <1>18, <1>22

(* A redo goes on to the text after its group.                             *)
LEMMA RedoIsRedo ==
    ASSUME BufferAssumption, SyncInv, IInv, HInv, Redo
    PROVE  HInv' /\ History!Redo
<1> DEFINE s == m_aUndoBuf
           p == m_nUndoPosition
           last == LastToRedo
           M == last - p
           done == Redoing[M]
<1>1. /\ AreMarked(s) /\ IsSeq(s) /\ Len(s) \in Nat /\ p \in 0 .. Len(s) /\ p \in Nat /\ p < Len(s)
      /\ Tracks(s, log, p, marker, m_nSyncPosition, file) /\ Len(log) \in Nat /\ marker \in Nat
  BY MarkerIs DEF Redo, SyncInv
<1>2. /\ last \in p + 1 .. Len(s) /\ Whole(s, last)
      /\ \A k \in Firsts(s) : k <= p + 1 \/ k > last
  BY <1>1, LastOfGroup
<1>3. M \in 0 .. Len(s) - p /\ p + M = last /\ last \in 0 .. Len(s) /\ last \in Nat
  BY <1>1, <1>2
<1>4. PICK X : Recalls(s, p, log, X, Body(m_aLines))
  BY DEF HInv
<1>5. Links(s, X) /\ Redoable(s, p, X) /\ Logged(s, log, X) /\ X[p] = Body(m_aLines)
  BY <1>4 DEF Recalls
<1>6. RedoneTo(X[last], done)
  <2>1. WellBuf(Current)
    BY DEF WellBuf, Current, IInv, HInv
  <2>2. \A n \in 0 .. Len(s) - p : RedoneTo(X[p + n], Redoing[n])
    BY <1>1, <1>5, <2>1, RedoingRestores
  <2> HIDE DEF M, last
  <2> QED BY <1>3, <2>2
<1>7. /\ m_aLines' = done.lines
      /\ m_aUndoBuf' = s /\ m_nUndoPosition' = last /\ marker' = marker + 1 /\ log' = log
  BY Zenon DEF Redo, Redone
<1> HIDE DEF done, M, last, s, p
<1>8. WellSet(m_aLines') /\ Body(m_aLines') = X[last]
  BY <1>6, <1>7 DEF RedoneTo, WellBuf
<1>9. Redoable(s, last, X)
  <2>1. \A k \in last + 1 .. Len(s) : k \in p + 1 .. Len(s)
    BY SMTT(20), <1>1, <1>2, <1>3
  <2> QED BY <1>5, <2>1 DEF Redoable
<1>10. HInv'
  <2>1. Recalls(m_aUndoBuf', m_nUndoPosition', log', X, Body(m_aLines'))
    BY <1>5, <1>7, <1>8, <1>9 DEF Recalls
  <2> QED BY <1>8, <2>1 DEF HInv
<1>11. Tracks(s, log, last, marker + 1, m_nSyncPosition, file)
  BY <1>1, <1>2, RedoTracks
<1>12. marker + 1 = Group(s, last)
  BY <1>11 DEF Tracks
<1>13. marker < Len(log)
  <2>1. Len(log) = Group(s, Len(s))
    BY <1>11 DEF Tracks
  <2>2. Group(s, last) <= Group(s, Len(s))
    <3>1. last \in Int /\ Len(s) \in Int /\ last <= Len(s)
      BY <1>1, <1>3
    <3> QED BY <1>1, <3>1, GroupIs
  <2>3. marker + 1 <= Len(log)
    BY <1>12, <2>1, <2>2
  <2> QED BY <1>1, <2>3
<1> DEFINE lines == m_aLines'
<1>14. FileText(m_aLines') = log[marker + 1]
  <2>1. WellSet(lines) /\ Body(lines) = X[last]
    BY <1>8
  <2> HIDE DEF lines
  <2>2. FileText(lines) = log[Group(s, last)]
    BY <1>2, <1>3, <1>5, <2>1, TextOfGroup
  <2> QED BY <1>12, <2>2 DEF lines
<1>15. History!Redo
  <2>1. FileText(m_aLines)' = log[marker + 1]
    BY <1>14
  <2> QED BY <1>7, <1>13, <2>1 DEF History!Redo
<1> QED BY <1>10, <1>15

-----------------------------------------------------------------------------
(* A rescan leaves the text as it is                                        *)

(* Lines have the rows of their real lines.                                *)
LEMMA BodyOfReals ==
    ASSUME BufferAssumption, NEW lines, Proper(lines), NEW real, Proper(real),
           Len(real) = Cardinality(RealOf(lines)),
           \A i \in RealOf(lines) : real[Cardinality(UpTo(RealOf(lines), i))] = lines[i]
    PROVE  Body(lines) = Body(real)
<1> DEFINE n == Len(lines)
           M == Len(real)
           S == RealOf(lines)
           s == Rows(lines)
           t == Rows(real)
           rank(i) == Cardinality(UpTo(S, i))
<1>1. n \in Nat /\ M \in Nat /\ S \in SUBSET (1 .. n) /\ S = {i \in 1 .. n : ~ lines[i].ghost}
      /\ M = Cardinality(S)
  BY ProperIs, RealOfIs
<1>2. s = [i \in 1 .. n |-> Row(lines[i])] /\ t = [i \in 1 .. M |-> Row(real[i])]
  BY DEF Rows
<1> HIDE DEF n, M, s, t
<1>3. /\ s = [i \in 1 .. n |-> s[i]] /\ \A i \in 1 .. n : s[i] = Row(lines[i])
      /\ t = [i \in 1 .. M |-> t[i]] /\ \A i \in 1 .. M : t[i] = Row(real[i])
  BY <1>2
<1>4. IsSeq(s) /\ Len(s) = n /\ IsSeq(t) /\ Len(t) = M
  BY <1>1, <1>3, FunctionIsSeq
<1>5. \A i \in 1 .. Len(s) : IsSeq(s[i])
  <2>1. \A i \in 1 .. n : Text(Row(lines[i]))
    BY RowIs DEF Proper, n
  <2>2. \A i \in 1 .. n : IsSeq(Row(lines[i]))
    BY <2>1, TextLen
  <2> QED BY <1>3, <1>4, <2>2
<1>6. \A i \in 1 .. Len(s) : i \notin S => s[i] = <<>>
  BY <1>1, <1>3, <1>4 DEF Row
<1> HIDE DEF S
<1>7. \A i \in S : rank(i) \in 1 .. M
  BY <1>1, FollowedIs
<1>8. \A i \in S : t[rank(i)] = s[i]
  <2>1. \A i \in S : real[rank(i)] = lines[i]
    BY DEF S
  <2> HIDE DEF rank
  <2> QED BY <1>1, <1>3, <1>7, <2>1
<1>9. FlattenSeq(s) = FlattenSeq(t)
  <2>1. S \in SUBSET (1 .. Len(s)) /\ Len(t) = Cardinality(S)
    BY <1>1, <1>4
  <2> QED BY <1>4, <1>5, <1>6, <1>8, <2>1, FlattenSkips
<1> QED BY <1>9 DEF Body, s, t

(* The real lines of lines of words are such lines, with the same rows.    *)
LEMMA RealsOnly ==
    ASSUME BufferAssumption, NEW lines, Proper(lines), NEW real, real = RealLines(lines)
    PROVE  Proper(real) /\ Body(lines) = Body(real)
<1>1. IsLines(lines)
  BY ProperIs
<1>2. /\ IsLines(real) /\ Len(real) = Cardinality(RealOf(lines))
      /\ \A i \in RealOf(lines) : real[Cardinality(UpTo(RealOf(lines), i))] = lines[i]
      /\ \A k \in 1 .. Len(real) : \E i \in RealOf(lines) : real[k] = lines[i]
  BY <1>1, RealLinesInOrder
<1>3. \A i \in RealOf(lines) : IsWordLine(lines[i])
  BY <1>1, RealOfIs DEF Proper
<1>4. Proper(real)
  BY <1>2, <1>3 DEF Proper, IsLines
<1> QED BY <1>2, <1>4, BodyOfReals

(* New ghost lines add no rows; the last line stays a real one if no ghost *)
(* comes after it.                                                         *)
LEMMA PlacedKeepsBody ==
    ASSUME BufferAssumption, NEW real, Proper(real), NEW n \in Nat, NEW ghosts, NEW new,
           Placed(real, n, ghosts, new), Len(real) + n # 0, Len(real) + n \notin ghosts,
           ghosts \in SUBSET (1 .. Len(real) + n)
    PROVE  WellSet(new) /\ Body(new) = Body(real)
<1> DEFINE S == RealOf(new)
           N == Len(real) + n
<1>1. /\ IsLines(new) /\ HasBreaks(new) /\ Len(new) = N
      /\ S = (1 .. N) \ ghosts /\ Cardinality(S) = Len(real)
      /\ \A i \in 1 .. N :
             new[i] = IF i \in ghosts THEN GhostLine ELSE real[Cardinality(UpTo(S, i))]
  BY DEF Placed
<1>2. Len(real) \in Nat /\ N \in Nat /\ N # 0
  BY ProperIs
<1>3. \A i \in S : Cardinality(UpTo(S, i)) \in 1 .. Len(real)
  <2>1. S \in SUBSET (1 .. N)
    BY <1>1
  <2> HIDE DEF S, N
  <2> QED BY <1>1, <1>2, <2>1, FollowedIs
<1>4. \A i \in S : new[i] = real[Cardinality(UpTo(S, i))]
  BY <1>1
<1>5. S = {i \in 1 .. N : ~ new[i].ghost}
  BY <1>1, RealOfIs
<1>6. N \in S
  BY <1>1, <1>2
<1>7. ASSUME NEW i \in 1 .. N PROVE IsWordLine(new[i])
  <2>1. CASE i \in ghosts
    BY <1>1, <2>1, GhostLineIs
  <2>2. CASE i \notin ghosts
    <3>1. i \in S
      BY <1>1, <2>2
    <3> QED BY <1>3, <1>4, <3>1 DEF Proper
  <2> QED BY <2>1, <2>2
<1>8. Proper(new)
  BY <1>1, <1>7 DEF Proper, IsLines
<1>9. WellSet(new)
  BY <1>1, <1>2, <1>5, <1>6, <1>8 DEF WellSet
<1> HIDE DEF S
<1>10. Body(new) = Body(real)
  BY <1>1, <1>4, <1>8, BodyOfReals DEF S
<1> QED BY <1>9, <1>10

(* Texts with the same rows are the same.                                  *)
LEMMA SameRowsSameText ==
    ASSUME BufferAssumption, NEW s, NEW t, WellSet(s), WellSet(t), Body(s) = Body(t)
    PROVE  FileText(s) = FileText(t)
<1> DEFINE a == FileText(s)
           b == FileText(t)
<1>1. Text(a) /\ a ++ Break = Body(s) /\ Text(b) /\ b ++ Break = Body(t)
  BY FileTextIs
<1> HIDE DEF a, b
<1>2. a = b
  BY <1>1, BreakIs, CancelEnd
<1> QED BY <1>2 DEF a, b

(* A rescan changes neither the chain nor the text of the history.         *)
LEMMA RescanKeepsText ==
    ASSUME BufferAssumption, ~ TrailingGhosts, IInv, HInv, Rescan
    PROVE  HInv' /\ UNCHANGED History!vars
<1> DEFINE real == RealLines(m_aLines)
<1>0. IsBuf(Current) /\ Current.lines = m_aLines /\ WellSet(m_aLines) /\ Proper(m_aLines)
  BY DEF IInv, Current, HInv, WellSet
<1>1. AreRealLines(real) /\ Proper(real) /\ Body(m_aLines) = Body(real)
  BY <1>0, RemovedGhosts, RealsOnly
<1>2. PICK n \in 0 .. MaxGhosts :
          /\ Len(real) + n \in 1 .. MaxLines
          /\ \E ghosts \in kSubset(n, 1 .. Len(real) + n) :
                /\ TrailingGhosts \/ Len(real) + n \notin ghosts
                /\ m_aLines' = PlaceGhosts(ghosts, real)
  BY DEF Rescan
<1>3. PICK ghosts \in kSubset(n, 1 .. Len(real) + n) :
          Len(real) + n \notin ghosts /\ m_aLines' = PlaceGhosts(ghosts, real)
  BY <1>2
<1> HIDE DEF real
<1>4. ghosts \in SUBSET (1 .. Len(real) + n) /\ Cardinality(ghosts) = n /\ n \in Nat
  BY DEF kSubset
<1> DEFINE new == PlaceGhosts(ghosts, real)
<1>5. Placed(real, n, ghosts, new)
  BY <1>1, <1>4, PlaceGhostsIs
<1>6. m_aLines' = new /\ Len(real) + n # 0
  BY <1>2, <1>3
<1> HIDE DEF new
<1>7. WellSet(new) /\ Body(new) = Body(real)
  BY ZenonT(30), <1>1, <1>3, <1>4, <1>5, <1>6, PlacedKeepsBody
<1>8. FileText(new) = FileText(m_aLines)
  BY <1>0, <1>1, <1>7, SameRowsSameText
<1>9. /\ m_aUndoBuf' = m_aUndoBuf /\ m_nUndoPosition' = m_nUndoPosition
      /\ log' = log /\ marker' = marker
  BY DEF Rescan, undo, history
<1>10. UNCHANGED History!vars
  <2>1. FileText(m_aLines)' = FileText(m_aLines)
    BY <1>6, <1>8
  <2> QED BY <1>9, <2>1 DEF History!vars
<1>11. HInv'
  <2>1. PICK X : Recalls(m_aUndoBuf, m_nUndoPosition, log, X, Body(m_aLines))
    BY DEF HInv
  <2>2. Recalls(m_aUndoBuf', m_nUndoPosition', log', X, Body(m_aLines'))
    BY <1>1, <1>6, <1>7, <1>9, <2>1
  <2>3. WellSet(m_aLines')
    BY <1>6, <1>7
  <2> QED BY <2>2, <2>3 DEF HInv
<1> QED BY <1>10, <1>11

-----------------------------------------------------------------------------
(* A loaded file, and what the lines of words are                          *)

(* The lines of a loaded file are lines of words that hold its text.       *)
LEMMA LoadedIsWell ==
    ASSUME BufferAssumption, NEW text, Text(text), NEW lines, lines = Loaded(text), HasBreaks(lines)
    PROVE  WellSet(lines) /\ FileText(lines) = text
<1> DEFINE N == Eols(text) + 1
           pieces == Pieces(text)
           row(k) == PieceRow(text, k)
<1>1. /\ N \in Nat \ {0} /\ Len(pieces) = N
      /\ \A k \in 1 .. N : Word(pieces[k])
      /\ FlattenSeq([k \in 1 .. N |-> row(k)]) = text ++ Break
  <2>1. N = Eols(text) + 1
    OBVIOUS
  <2> HIDE DEF N
  <2> QED BY <2>1, PiecesJoin
<1>2. DOMAIN pieces = 1 .. N
  <2>1. IsSeq(text)
    BY TextLen
  <2>2. IsSeq(pieces)
    BY <2>1, PiecesAre DEF ArePieces
  <2> QED BY <1>1, <2>2, SeqIs
<1> HIDE DEF N
<1> DEFINE line(k) == Line(pieces[k], k < N, FALSE)
<1>3. lines = [k \in 1 .. N |-> line(k)]
  BY <1>1, <1>2 DEF Loaded
<1> HIDE DEF pieces
<1>4. ASSUME NEW k \in 1 .. N
      PROVE  IsWordLine(line(k)) /\ ~ line(k).ghost /\ line(k).text = pieces[k]
  <2>1. Word(pieces[k])
    BY <1>1
  <2>2. IsSeq(pieces[k])
    BY <2>1, WordIs, TextLen
  <2>3. IsLine(line(k))
    BY <2>2, LineIs
  <2>4. line(k).text = pieces[k] /\ line(k).ghost = FALSE /\ line(k).eol = (k < N)
    BY DEF Line
  <2>5. line(k).eol \in BOOLEAN /\ line(k).ghost \in BOOLEAN /\ ~ line(k).ghost
    <3>1. (k < N) \in BOOLEAN
      BY <1>1
    <3> HIDE DEF line
    <3> QED BY <2>4, <3>1, Zenon
  <2> DEFINE l == line(k)
  <2>6. IsLine(l) /\ Word(l.text) /\ l.eol \in BOOLEAN /\ l.ghost \in BOOLEAN /\ ~ l.ghost
    BY <2>1, <2>3, <2>4, <2>5
  <2> HIDE DEF l
  <2>7. IsWordLine(l)
    BY <2>6 DEF IsWordLine
  <2> QED BY <2>4, <2>5, <2>7 DEF l
<1> HIDE DEF line
<1>5. lines = [k \in 1 .. N |-> lines[k]] /\ \A k \in 1 .. N : lines[k] = line(k)
  BY <1>3
<1>6. IsSeq(lines) /\ Len(lines) = N
  BY <1>1, <1>5, FunctionIsSeq
<1>7. Proper(lines)
  BY <1>4, <1>5, <1>6 DEF Proper
<1>8. WellSet(lines)
  <2>1. N \in 1 .. N /\ N # 0
    BY <1>1
  <2> QED BY <1>4, <1>5, <1>6, <1>7, <2>1 DEF WellSet
<1>9. Body(lines) = text ++ Break
  <2>1. ASSUME NEW k \in 1 .. N PROVE Row(lines[k]) = row(k)
    BY <1>4, <1>5 DEF Row, PieceRow, pieces
  <2> HIDE DEF row
  <2>2. [k \in 1 .. N |-> Row(lines[k])] = [k \in 1 .. N |-> row(k)]
    BY <2>1
  <2> QED BY <1>1, <1>6, <2>2 DEF Body, Rows
<1>10. FileText(lines) = text
  <2> DEFINE b == FileText(lines)
  <2>1. Text(b) /\ b ++ Break = text ++ Break
    BY <1>8, <1>9, FileTextIs
  <2> HIDE DEF b
  <2>2. b = text
    BY <2>1, BreakIs, CancelEnd
  <2> QED BY <2>2 DEF b
<1> QED BY <1>8, <1>10

(* Ghost lines of words have neither text nor break.                       *)
LEMMA WellSetGhosts ==
    ASSUME NEW lines, WellSet(lines)
    PROVE  \A i \in GhostsOf(lines) : FullText(lines[i]) = <<>>
<1>1. Proper(lines) /\ HasBreaks(lines)
  BY DEF WellSet
<1>2. DOMAIN lines = 1 .. Len(lines) /\ IsLines(lines)
  BY <1>1, ProperIs
<1>3. ASSUME NEW i \in GhostsOf(lines) PROVE FullText(lines[i]) = <<>>
  <2>1. i \in 1 .. Len(lines) /\ lines[i].ghost
    BY <1>2 DEF GhostsOf
  <2>2. lines[i].text = <<>>
    BY <1>1, <2>1 DEF Proper, IsWordLine
  <2>3. ~ lines[i].eol
    BY <1>1, <1>2, <2>1, RealOfIs, BreaksOfIs DEF HasBreaks
  <2> QED BY <2>2, <2>3 DEF FullText
<1> QED BY <1>3

(* A line of words is a line as the type of the buffer has it.             *)
LEMMA WordLineType ==
    ASSUME NEW l, IsWordLine(l)
    PROVE  l \in [text : Seq(Chars), eol : BOOLEAN, ghost : BOOLEAN]
<1>1. /\ DOMAIN l = {"text", "eol", "ghost"} /\ l = [field \in DOMAIN l |-> l[field]]
      /\ l.text \in Seq(Chars) /\ l.eol \in BOOLEAN /\ l.ghost \in BOOLEAN
  BY DEF IsWordLine, IsLine, Word, Over
<1>2. l = [text |-> l.text, eol |-> l.eol, ghost |-> l.ghost]
  BY <1>1
<1> QED BY <1>1, <1>2

(* What the inductive invariant says of the types.                         *)
LEMMA HistoryHasType ==
    ASSUME BufferAssumption, IInv, SyncInv, HInv, m_bModified \in BOOLEAN
    PROVE  TypeOK
<1>1. m_aLines \in Seq([text : Seq(Chars), eol : BOOLEAN, ghost : BOOLEAN])
  <2> DEFINE type == [text : Seq(Chars), eol : BOOLEAN, ghost : BOOLEAN]
             n == Len(m_aLines)
  <2>1. Proper(m_aLines)
    BY DEF HInv, WellSet
  <2>2. n \in Nat /\ m_aLines = [i \in 1 .. n |-> m_aLines[i]]
    BY <2>1, ProperIs
  <2>3. \A i \in 1 .. n : m_aLines[i] \in type
    BY <2>1, WordLineType DEF Proper
  <2> HIDE DEF type, n
  <2>4. m_aLines \in Seq(type)
    BY <2>2, <2>3, SeqDef
  <2> QED BY <2>4 DEF type
<1>2. GhostsAreEmpty
  BY WellSetGhosts DEF GhostsAreEmpty, HInv
<1>3. m_RealityBlocks \in Seq([nStartApparent : Nat, nStartReal : Nat, nCount : Nat])
  <2>1. IsBuf(Current) /\ Current.blocks = m_RealityBlocks
    BY DEF IInv, Current
  <2>2. BlocksFit(m_RealityBlocks, RealOf(Current.lines), Len(Current.lines))
    BY <2>1, BufFits
  <2> QED BY <2>2 DEF BlocksFit
<1>4. m_nUndoPosition \in 0 .. Len(m_aUndoBuf) /\ m_nSyncPosition \in npos .. Len(m_aUndoBuf)
  BY DEF SyncInv, Tracks
<1>5. \A k \in DOMAIN m_aUndoBuf : m_aUndoBuf[k].nReal \in Nat
  <2>1. PICK X : Links(m_aUndoBuf, X)
    BY DEF HInv, Recalls
  <2>2. DOMAIN m_aUndoBuf = 1 .. Len(m_aUndoBuf)
    BY SeqIs DEF IInv, AreRecords
  <2> QED BY <2>1, <2>2 DEF Links, Fits
<1> QED BY <1>1, <1>2, <1>3, <1>4, <1>5 DEF TypeOK

-----------------------------------------------------------------------------
(* The buffer implements the edit history                                  *)

(* The inductive invariant: the blocks are those of the lines, groups and  *)
(* log are in step, the records lead through the texts.                    *)
Kept == IInv /\ SyncInv /\ HInv /\ m_bModified \in BOOLEAN

(* A save writes all of the text.                                          *)
LEMMA KeptIsSaved ==
    ASSUME IInv, HInv
    PROVE  SaveWritesAll
<1>1. GhostsAreEmpty
  BY WellSetGhosts DEF GhostsAreEmpty, HInv
<1> QED BY <1>1, WholeIsSaved

(* A loaded file is the beginning of a history.                            *)
LEMMA LoadedIsKept ==
    ASSUME BufferAssumption, Init
    PROVE  Kept /\ History!Init
<1>1. IInv
  BY LoadedIsWhole
<1>2. Text(file)
  BY DEF BufferAssumption, Init, Text, Over
<1>3. m_aLines = Loaded(file) /\ IsLines(m_aLines) /\ HasBreaks(m_aLines)
  BY <1>1, WholeHasBreaks DEF Init
<1>4. WellSet(m_aLines) /\ FileText(m_aLines) = file
  <2> DEFINE lines == m_aLines
  <2>1. lines = Loaded(file) /\ HasBreaks(lines)
    BY <1>3
  <2> HIDE DEF lines
  <2>2. WellSet(lines) /\ FileText(lines) = file
    BY <1>2, <2>1, LoadedIsWell
  <2> QED BY <2>2 DEF lines
<1>5. History!Init
  <2>1. FileText(m_aLines) \in Seq(Chars \union {EOL}) /\ log = <<FileText(m_aLines)>> /\ marker = 1
    BY <1>2, <1>4 DEF Init, Text, Over
  <2> QED BY <2>1 DEF History!Init
<1>6. SyncInv
  BY <1>5, LoadedIsTracked
<1>7. HInv
  <2> DEFINE s == m_aUndoBuf
             now == Body(m_aLines)
             X == [k \in {0} |-> now]
  <2>1. s = <<>> /\ m_nUndoPosition = 0 /\ log = <<file>> /\ marker = 1
    BY DEF Init
  <2>2. IsSeq(s) /\ Len(s) = 0 /\ log[1] = file
    BY <2>1, EmptyIs, SingleIs
  <2>3. Group(s, 0) = 1
    BY <1>6, <2>1 DEF SyncInv, Tracks
  <2>4. Text(file) /\ file ++ Break = now
    BY <1>4, FileTextIs
  <2>5. X[0] = now
    OBVIOUS
  <2> HIDE DEF s, now, X
  <2>6. Links(s, X) /\ Redoable(s, 0, X)
    BY <2>2 DEF Links, Redoable
  <2>7. Logged(s, log, X)
    <3>1. \A k \in 0 .. Len(s) : k = 0
      BY <2>2
    <3> QED BY <2>2, <2>3, <2>4, <2>5, <3>1 DEF Logged
  <2>8. Recalls(s, m_nUndoPosition, log, X, now)
    BY <2>1, <2>5, <2>6, <2>7 DEF Recalls
  <2> QED BY <1>4, <2>8 DEF HInv, s, now
<1>8. m_bModified \in BOOLEAN
  BY DEF Init
<1> QED BY <1>1, <1>5, <1>6, <1>7, <1>8 DEF Kept

(* Every step is a step of the history or leaves it as it is.              *)
LEMMA StepIsHistory ==
    ASSUME BufferAssumption, ~ TrailingGhosts, Kept, [Next]_vars
    PROVE  HInv' /\ [History!Next]_(History!vars)
<1>0. IInv /\ SyncInv /\ HInv
  BY DEF Kept
<1>1. CASE Insert \/ Delete \/ Replace
  BY <1>0, <1>1, EditsKeep DEF EditIs, History!Next
<1>2. CASE Undo
  BY <1>0, <1>2, UndoIsUndo DEF History!Next
<1>3. CASE Redo
  BY <1>0, <1>3, RedoIsRedo DEF History!Next
<1>4. CASE Rescan
  BY <1>0, <1>4, RescanKeepsText
<1>5. CASE UNCHANGED <<m_aLines, undo, history>>
  BY <1>0, <1>5 DEF HInv, undo, history, History!vars
<1>6. SaveToFile => UNCHANGED <<m_aLines, undo, history>>
  BY DEF SaveToFile, buffer
<1>7. UNCHANGED vars => UNCHANGED <<m_aLines, undo, history>>
  BY DEF vars, buffer
<1> QED BY <1>1, <1>2, <1>3, <1>4, <1>5, <1>6, <1>7 DEF Next

(* Every step keeps the inductive invariant.                               *)
LEMMA StepsKeep ==
    ASSUME BufferAssumption, ~ TrailingGhosts, Kept, [Next]_vars
    PROVE  Kept' /\ [History!Next]_(History!vars)
<1>1. IInv /\ SyncInv /\ HInv /\ m_bModified \in BOOLEAN
  BY DEF Kept
<1>2. HInv' /\ [History!Next]_(History!vars)
  BY StepIsHistory
<1>3. IInv'
  BY <1>1, RecordsFit, BufferStaysWhole
<1>4. SyncInv'
  BY <1>1, <1>2, KeptIsSaved, StepsTrack
<1>5. (m_bModified \in BOOLEAN)'
  <2>1. CASE Insert \/ Delete \/ Replace
    BY <2>1, Zenon DEF Insert, Delete, Replace, Perform
  <2>2. CASE Undo
    BY <2>2, Zenon DEF Undo, Undone
  <2>3. CASE Redo
    BY <2>3, Zenon DEF Redo, Redone
  <2>4. CASE Rescan
    BY <1>1, <2>4 DEF Rescan
  <2>5. CASE SaveToFile
    BY <2>5 DEF SaveToFile
  <2>6. CASE UNCHANGED vars
    BY <1>1, <2>6 DEF vars
  <2> QED BY <2>1, <2>2, <2>3, <2>4, <2>5, <2>6 DEF Next
<1> QED BY <1>2, <1>3, <1>4, <1>5 DEF Kept

(* After an undo there are as many real lines as the text has pieces.      *)
LEMMA LinesOfText ==
    ASSUME BufferAssumption, NEW lines, WellSet(lines), NEW text, text = FileText(lines)
    PROVE  Len(RealLines(lines)) = Len(Pieces(text))
<1> DEFINE n == Len(lines)
           k == Eols(text)
<1>1. Text(text) /\ text ++ Break = Body(lines)
  BY FileTextIs
<1>2. Proper(lines) /\ IsLines(lines) /\ n \in Nat
  BY ProperIs DEF WellSet
<1>3. Eols(Body(lines)) = Cardinality(RealOf(lines))
  <2>1. SubSeq(lines, 1, n) = lines
    <3>1. lines \in Seq({lines[i] : i \in DOMAIN lines})
      BY <1>2 DEF Proper, IsSeq
    <3> QED BY <3>1, SubSeqFull
  <2>2. n \in 0 .. n
    BY <1>2
  <2>3. RealOf(lines) \in SUBSET (1 .. n)
    BY <1>2, RealOfIs
  <2>4. UpTo(RealOf(lines), n) = RealOf(lines)
    <3> HIDE DEF n
    <3> QED BY <1>2, <2>3, UpToAll
  <2>5. Eols(Body(SubSeq(lines, 1, n))) = Cardinality(UpTo(RealOf(lines), n))
    BY <1>2, <2>2, BodyUpTo
  <2> QED BY <2>1, <2>4, <2>5
<1>4. Eols(text ++ Break) = k + 1
  BY <1>1, BreakIs, EolsJoined
<1>5. Len(Pieces(text)) = k + 1
  BY <1>1, PiecesJoin
<1>6. Len(RealLines(lines)) = Cardinality(RealOf(lines))
  BY <1>2, RealLinesInOrder
<1> QED BY <1>1, <1>3, <1>4, <1>5, <1>6

(* An undo brings back as many lines as there were.                        *)
LEMMA UndoRestoresLines ==
    ASSUME BufferAssumption, ~ TrailingGhosts, Kept, Undo
    PROVE  Len(RealLines(m_aLines')) = Len(Pieces(log[marker - 1]))
<1>1. HInv' /\ History!Undo
  BY UndoIsUndo DEF Kept
<1> DEFINE lines == m_aLines'
           text == log[marker - 1]
<1>2. WellSet(lines) /\ text = FileText(lines)
  BY <1>1 DEF HInv, History!Undo
<1> HIDE DEF lines, text
<1>3. Len(RealLines(lines)) = Len(Pieces(text))
  BY <1>2, LinesOfText
<1> QED BY <1>3 DEF lines, text

(* THE REFINEMENT: the buffer implements the abstract edit history.        *)
(* However edits, groups, undos, redos and rescans alternate, an undo      *)
(* restores exactly the text from before the last group and a redo the     *)
(* text from after it, where InsertText, DeleteText, Undo and Redo of      *)
(* GhostTextBuffer.cpp only keep places, counted in real lines and ghost   *)
(* lines, and the inserted or deleted text. Without ~ TrailingGhosts it is *)
(* false: see the run buffer_trailing_ghost.                               *)
THEOREM HistoryIsKept ==
    ASSUME ~ TrailingGhosts
    PROVE  Spec => UndoRestoresText
<1>1. Init => Kept /\ History!Init
  BY BufferAssumption, LoadedIsKept
<1>2. Kept /\ [Next]_vars => Kept' /\ [History!Next]_(History!vars)
  BY BufferAssumption, StepsKeep
<1> QED BY <1>1, <1>2, PTL DEF Spec, UndoRestoresText, History!Spec

(* The inductive invariant holds in every state.                           *)
LEMMA AlwaysKept ==
    ASSUME ~ TrailingGhosts
    PROVE  Spec => []Kept
<1>1. Init => Kept
  BY BufferAssumption, LoadedIsKept
<1>2. Kept /\ [Next]_vars => Kept'
  BY BufferAssumption, StepsKeep
<1> QED BY <1>1, <1>2, PTL DEF Spec

(* Every record fits the text when its turn comes: Undo finds the text it  *)
(* recorded where it looks for it (the ASSERTs and the early return of     *)
(* Undo in GhostTextBuffer.cpp), and Redo finds the text that it deletes.  *)
THEOREM ReplaysFit ==
    ASSUME ~ TrailingGhosts
    PROVE  Spec => []ReplayFits
<1>1. Kept => ReplayFits
  BY BufferAssumption, RecordsFit DEF Kept
<1> QED BY <1>1, AlwaysKept, PTL

(* The state has its type: no undo, redo or rescan leaves a line with a    *)
(* character that is no character, a record that is none, or an undo       *)
(* position past the records.                                              *)
THEOREM BufferTypeCorrect ==
    ASSUME ~ TrailingGhosts
    PROVE  Spec => []TypeOK
<1>1. Kept => TypeOK
  BY BufferAssumption, HistoryHasType DEF Kept
<1> QED BY <1>1, AlwaysKept, PTL

(* What MappingStaysExact, LineBreaksStayExact, SavesWriteAll and          *)
(* UnmodifiedStaysSaved show as long as the replays fit holds in every     *)
(* state: the reality blocks number the real lines, every line but the     *)
(* last has its line break, SaveToFile writes every real line, and an      *)
(* unmodified buffer is the file.                                          *)
THEOREM BufferIsExact ==
    ASSUME ~ TrailingGhosts
    PROVE  Spec => [](MappingIsExact /\ LineBreaksAreExact /\ SaveWritesAll /\ UnmodifiedIsSaved)
<1>1. Kept => MappingIsExact /\ LineBreaksAreExact /\ SaveWritesAll /\ UnmodifiedIsSaved
  BY WholeIsExact, WholeHasBreaks, KeptIsSaved, TrackedIsSaved DEF Kept
<1> QED BY <1>1, AlwaysKept, PTL

(* After an undo there are as many real lines as before the undone edit:   *)
(* what the run buffer_trailing_ghost finds violated needs a ghost line    *)
(* past the last real line.                                                *)
THEOREM UndoKeepsLineCount ==
    ASSUME ~ TrailingGhosts
    PROVE  Spec => UndoRestoresLineCount
<1>1. Kept /\ [Next]_vars =>
          [Undo => Len(RealLines(m_aLines')) = Len(Pieces(log[marker - 1]))]_vars
  BY BufferAssumption, UndoRestoresLines
<1> QED BY <1>1, AlwaysKept, PTL DEF Spec, UndoRestoresLineCount
=============================================================================
