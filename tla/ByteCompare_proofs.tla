------------------------ MODULE ByteCompare_proofs ------------------------
(***************************************************************************)
(* Proofs about ByteCompare, for any files, buffers and options, and any    *)
(* kind taken to be before the first code point: the loop ends after both  *)
(* files have been read, a failed read is reported, and, where nothing is   *)
(* ignored, files of one size are the same if and only if they are equal.  *)
(***************************************************************************)
EXTENDS ByteCompare, SequenceTheorems, WellFoundedInduction, TLAPS

-----------------------------------------------------------------------------
(* Numbers *)

(* A set of numbers has a least member ...                                 *)
LEMMA LeastOf ==
    ASSUME NEW S \in SUBSET Nat, S # {}
    PROVE  \E m \in S : \A k \in S : m <= k
<1> DEFINE R == { p \in Nat \X Nat : p[1] < p[2] }
<1>1. IsWellFoundedOn(R, Nat)
  BY NatLessThanWellFounded, Zenon DEF OpToRel
<1>2. PICK m \in S : \A k \in S : <<k, m>> \notin R
  BY <1>1, WFMin, Zenon
<1>3. \A a, b \in Nat : a < b => <<a, b>> \in R
  OBVIOUS
<1>4. m \in Nat /\ \A k \in S : ~(k < m)
  BY <1>2, <1>3
<1> QED BY <1>4

(* ... and a set of numbers that holds 0 and, behind each, the next one     *)
(* holds all.                                                              *)
LEMMA Upto ==
    ASSUME NEW N \in Nat, NEW G, 0 \in G, \A n \in 1 .. N : n - 1 \in G => n \in G
    PROVE  \A n \in 0 .. N : n \in G
<1> DEFINE Bad == {n \in 0 .. N : n \notin G}
<1>1. SUFFICES ASSUME Bad # {} PROVE FALSE
  OBVIOUS
<1>2. Bad \in SUBSET Nat
  OBVIOUS
<1>3. PICK m \in Bad : \A k \in Bad : m <= k
  <2> HIDE DEF Bad
  <2> QED BY <1>1, <1>2, LeastOf
<1>4. m # 0 /\ m \in 0 .. N /\ m \notin G
  BY <1>3
<1>5. m \in 1 .. N /\ m - 1 \in 0 .. N /\ ~ (m <= m - 1)
  BY <1>4
<1>6. m - 1 \in G
  BY <1>3, <1>5
<1> QED BY <1>4, <1>5, <1>6

-----------------------------------------------------------------------------
(* Sequences, whatever they are made of *)

IsSeq(s) == s \in Seq({s[i] : i \in DOMAIN s})

(* What a sequence is: its length, its domain and its elements.            *)
LEMMA SeqIs ==
    ASSUME NEW s, IsSeq(s)
    PROVE  Len(s) \in Nat /\ DOMAIN s = 1 .. Len(s) /\ s = [i \in 1 .. Len(s) |-> s[i]]
<1> DEFINE S == {s[i] : i \in DOMAIN s}
<1>1. s \in Seq(S)
  BY DEF IsSeq
<1> HIDE DEF S
<1>2. Len(s) \in Nat /\ s \in [1 .. Len(s) -> S] /\ DOMAIN s = 1 .. Len(s)
  BY <1>1, LenProperties
<1> QED BY <1>2

(* A sequence is one over any set that has its elements.                   *)
LEMMA SeqOver ==
    ASSUME NEW S, NEW s \in Seq(S)
    PROVE  IsSeq(s)
<1>1. Len(s) \in Nat /\ s \in [1 .. Len(s) -> S] /\ DOMAIN s = 1 .. Len(s)
  BY LenProperties
<1> DEFINE T == {s[i] : i \in DOMAIN s}
<1>2. s \in [1 .. Len(s) -> T]
  BY <1>1
<1> HIDE DEF T
<1>3. s \in Seq(T)
  BY <1>1, <1>2
<1> QED BY <1>3 DEF IsSeq, T

(* The elements of a part of a sequence.                                   *)
LEMMA SubSeqIs ==
    ASSUME NEW s, NEW m \in Int, NEW n \in Int
    PROVE  /\ IsSeq(SubSeq(s, m, n))
           /\ Len(SubSeq(s, m, n)) = IF m <= n THEN n - m + 1 ELSE 0
           /\ \A i \in 1 .. n - m + 1 : SubSeq(s, m, n)[i] = s[m + i - 1]
<1> DEFINE S == {s[i] : i \in m .. n}
<1>1. \A i \in m .. n : s[i] \in S
  OBVIOUS
<1> HIDE DEF S
<1>2. /\ SubSeq(s, m, n) \in Seq(S)
      /\ Len(SubSeq(s, m, n)) = IF m <= n THEN n - m + 1 ELSE 0
      /\ \A i \in 1 .. n - m + 1 : SubSeq(s, m, n)[i] = s[m + i - 1]
  BY <1>1, SubSeqProperties
<1>3. IsSeq(SubSeq(s, m, n))
  BY <1>2, SeqOver
<1> QED BY <1>2, <1>3

(* The elements of two sequences one after the other.                      *)
LEMMA ConcatIs ==
    ASSUME NEW s, NEW t, IsSeq(s), IsSeq(t)
    PROVE  /\ IsSeq(s \o t)
           /\ Len(s \o t) = Len(s) + Len(t)
           /\ \A i \in 1 .. Len(s) + Len(t) :
                  (s \o t)[i] = IF i <= Len(s) THEN s[i] ELSE t[i - Len(s)]
<1> DEFINE S == {s[i] : i \in DOMAIN s} \cup {t[i] : i \in DOMAIN t}
<1>1. s \in Seq({s[i] : i \in DOMAIN s}) /\ t \in Seq({t[i] : i \in DOMAIN t})
  BY DEF IsSeq
<1>2. {s[i] : i \in DOMAIN s} \subseteq S /\ {t[i] : i \in DOMAIN t} \subseteq S
  OBVIOUS
<1>3. s \in Seq(S) /\ t \in Seq(S)
  <2> HIDE DEF S
  <2> QED BY <1>1, <1>2, SeqMonotonic, Zenon
<1> HIDE DEF S
<1> QED BY <1>3, ConcatProperties, SeqOver
(* The empty sequence.                                                     *)
LEMMA EmptyIs == IsSeq(<<>>) /\ Len(<<>>) = 0
<1>1. <<>> \in Seq({}) /\ Len(<<>>) = 0
  OBVIOUS
<1> QED BY <1>1, SeqOver

(* Sequences of one length with the same elements are the same.            *)
LEMMA SameSeq ==
    ASSUME NEW s, NEW t, IsSeq(s), IsSeq(t), Len(s) = Len(t), \A i \in 1 .. Len(s) : s[i] = t[i]
    PROVE  s = t
<1>1. s = [i \in 1 .. Len(s) |-> s[i]] /\ t = [i \in 1 .. Len(t) |-> t[i]]
  BY SeqIs
<1> QED BY <1>1

(* One sequence and another                                                *)
Join(s, t) == s \o t

(* Sequences are put together in any order.                                *)
LEMMA JoinAcross ==
    ASSUME NEW s, NEW t, NEW u, IsSeq(s), IsSeq(t), IsSeq(u)
    PROVE  Join(Join(s, t), u) = Join(s, Join(t, u))
<1> DEFINE l == Len(s)
           m == Len(t)
           n == Len(u)
           st == s \o t
           tu == t \o u
           a == st \o u
           b == s \o tu
<1>1. l \in Nat /\ m \in Nat /\ n \in Nat
  BY SeqIs
<1>2. IsSeq(st) /\ Len(st) = l + m /\ \A i \in 1 .. l + m : st[i] = IF i <= l THEN s[i] ELSE t[i - l]
  BY ConcatIs
<1>3. IsSeq(tu) /\ Len(tu) = m + n /\ \A i \in 1 .. m + n : tu[i] = IF i <= m THEN t[i] ELSE u[i - m]
  BY ConcatIs
<1> HIDE DEF st, tu
<1>4. IsSeq(a) /\ Len(a) = (l + m) + n
      /\ \A i \in 1 .. (l + m) + n : a[i] = IF i <= l + m THEN st[i] ELSE u[i - (l + m)]
  <2>1. IsSeq(a) /\ Len(a) = Len(st) + n
        /\ \A i \in 1 .. Len(st) + n : a[i] = IF i <= Len(st) THEN st[i] ELSE u[i - Len(st)]
    BY <1>2, ConcatIs
  <2> HIDE DEF a, l, m, n
  <2> QED BY <2>1, <1>2
<1>5. IsSeq(b) /\ Len(b) = l + (m + n)
      /\ \A i \in 1 .. l + (m + n) : b[i] = IF i <= l THEN s[i] ELSE tu[i - l]
  BY <1>3, ConcatIs
<1> HIDE DEF a, b, l, m, n
<1>6. ASSUME NEW i \in 1 .. (l + m) + n PROVE a[i] = b[i]
  <2>0. i \in 1 .. l + (m + n)
    BY <1>1
  <2>1. CASE i <= l
    BY <2>0, <2>1, <1>1, <1>2, <1>4, <1>5
  <2>2. CASE ~ (i <= l) /\ i <= l + m
    <3>1. i \in 1 .. l + m /\ i - l \in 1 .. m + n /\ i - l <= m
      BY <2>2, <1>1
    <3>2. a[i] = t[i - l]
      BY <3>1, <2>2, <1>2, <1>4
    <3>3. b[i] = tu[i - l]
      BY <2>0, <2>2, <1>5
    <3>4. tu[i - l] = t[i - l]
      BY <3>1, <1>3
    <3> QED BY <3>2, <3>3, <3>4
  <2>3. CASE ~ (i <= l + m)
    <3>1. i - l \in 1 .. m + n /\ ~ (i - l <= m) /\ ~ (i <= l) /\ (i - l) - m = i - (l + m)
      BY <2>3, <1>1
    <3>2. a[i] = u[i - (l + m)]
      BY <2>3, <1>4
    <3>3. b[i] = tu[i - l]
      BY <3>1, <2>0, <1>5
    <3>4. tu[i - l] = u[(i - l) - m]
      BY <3>1, <1>3
    <3> QED BY <3>1, <3>2, <3>3, <3>4
  <2> QED BY <2>1, <2>2, <2>3
<1>7. Len(a) = Len(b) /\ Len(a) = (l + m) + n
  BY <1>1, <1>4, <1>5
<1>8. \A i \in 1 .. Len(a) : a[i] = b[i]
  BY <1>6, <1>7
<1>9. a = b
  BY <1>4, <1>5, <1>7, <1>8, SameSeq
<1> QED BY <1>9 DEF a, b, st, tu, Join

(* A sequence is its beginning and what is behind it.                      *)
LEMMA CutIs ==
    ASSUME NEW s, IsSeq(s), NEW n \in 0 .. Len(s)
    PROVE  LET p == SubSeq(s, 1, n)
               q == SubSeq(s, n + 1, Len(s))
           IN  /\ IsSeq(p) /\ IsSeq(q) /\ Len(p) = n /\ Len(q) = Len(s) - n
               /\ (\A i \in 1 .. n : p[i] = s[i])
               /\ p \o q = s
<1> DEFINE l == Len(s)
           p == SubSeq(s, 1, n)
           q == SubSeq(s, n + 1, l)
           w == p \o q
<1>1. l \in Nat /\ n \in 0 .. l
  BY SeqIs
<1>2. n \in Int /\ 1 \in Int /\ n + 1 \in Int /\ l \in Int
  BY <1>1
<1>3. IsSeq(p) /\ Len(p) = (IF 1 <= n THEN n - 1 + 1 ELSE 0)
      /\ \A i \in 1 .. n - 1 + 1 : p[i] = s[1 + i - 1]
  BY <1>2, SubSeqIs, Zenon
<1>4. IsSeq(q) /\ Len(q) = (IF n + 1 <= l THEN l - (n + 1) + 1 ELSE 0)
      /\ \A i \in 1 .. l - (n + 1) + 1 : q[i] = s[n + 1 + i - 1]
  BY <1>2, SubSeqIs, Zenon
<1> HIDE DEF p, q
<1>5. IsSeq(w) /\ Len(w) = Len(p) + Len(q)
      /\ \A i \in 1 .. Len(p) + Len(q) : w[i] = IF i <= Len(p) THEN p[i] ELSE q[i - Len(p)]
  BY <1>3, <1>4, ConcatIs
<1> HIDE DEF l, w
<1>6. Len(p) = n /\ Len(q) = l - n /\ \A i \in 1 .. n : p[i] = s[i]
  BY <1>1, <1>3, <1>4
<1>7. Len(w) = l
  BY <1>1, <1>5, <1>6
<1>8. ASSUME NEW i \in 1 .. l PROVE w[i] = s[i]
  <2>1. w[i] = IF i <= n THEN p[i] ELSE q[i - n]
    <3>1. n + (l - n) = l
      BY <1>1
    <3> QED BY <3>1, <1>5, <1>6
  <2>2. CASE i <= n
    BY <2>1, <2>2, <1>1, <1>6
  <2>3. CASE ~ (i <= n)
    <3>1. i - n \in 1 .. l - (n + 1) + 1 /\ n + 1 + (i - n) - 1 = i
      BY <2>3, <1>1
    <3>2. q[i - n] = s[n + 1 + (i - n) - 1]
      BY <3>1, <1>4
    <3> QED BY <2>1, <2>3, <3>1, <3>2
  <2> QED BY <2>2, <2>3
<1>9. w = s
  BY <1>5, <1>7, <1>8, SameSeq DEF l
<1> QED BY <1>3, <1>4, <1>6, <1>9 DEF p, q, w, l

-----------------------------------------------------------------------------
(* A reader *)

Shape(r) ==
    r = [unread |-> r.unread, ahead |-> r.ahead, full |-> r.full, failing |-> r.failing,
         failed |-> r.failed, c |-> r.c, kind |-> r.kind, prev |-> r.prev,
         width |-> r.width, hold |-> r.hold, counter |-> r.counter, stats |-> r.stats]

(* What a reader has read, and that the end of its file is not reached     *)
(* unnoticed: a short read is the last one or a failed one.                *)
Stored(r) ==
    /\ Shape(r)
    /\ IsSeq(r.unread) /\ IsSeq(r.ahead)
    /\ r.full \in BOOLEAN /\ r.failing \in BOOLEAN /\ r.failed \in BOOLEAN
    /\ ~ r.full => IF r.failing THEN r.failed ELSE r.unread = <<>>
    /\ r.failed => r.failing

(* Between two turns a side that does not hold has a code point to leave.  *)
Readable(r) ==
    /\ Stored(r)
    /\ r.hold \in BOOLEAN /\ r.width \in Nat
    /\ ~ r.hold => r.width <= Len(r.ahead)

(* What is left of a file                                                  *)
Text(r) == Join(r.ahead, r.unread)

(* The code points in memory and on disk                                   *)
Left(r) == Len(r.ahead) + Len(r.unread)

(* The code points that are left once the next turn begins                 *)
Rest(r) == Left(r) - (IF r.hold THEN 0 ELSE r.width)

(* At the end of its file nothing is left, or the failure has been met.    *)
Drained(r) == IF r.failing THEN r.failed ELSE r.unread = <<>>

(* Their number is one.                                                    *)
LEMMA LeftIs ==
    ASSUME NEW r, IsSeq(r.ahead), IsSeq(r.unread)
    PROVE  Left(r) \in Nat
<1> DEFINE l == Len(r.ahead)
           u == Len(r.unread)
<1>1. l \in Nat /\ u \in Nat
  BY SeqIs
<1>2. Left(r) = l + u
  BY DEF Left
<1> HIDE DEF l, u
<1> QED BY <1>1, <1>2

(* Advancing leaves the code points of the last turn.                      *)
LEMMA AdvanceIs ==
    ASSUME NEW r, Readable(r)
    PROVE  LET a == Advance(r)
           IN  /\ Stored(a) /\ Left(a) = Rest(r) /\ Rest(r) \in Nat
               /\ a.ahead = IF r.hold THEN r.ahead ELSE SubSeq(r.ahead, r.width + 1, Len(r.ahead))
               /\ a.unread = r.unread /\ a.full = r.full
               /\ a.failing = r.failing /\ a.failed = r.failed /\ a.c = r.c
<1> DEFINE a == Advance(r)
           s == SubSeq(r.ahead, r.width + 1, Len(r.ahead))
<1>1. Shape(r) /\ Stored(r) /\ r.hold \in BOOLEAN /\ r.width \in Nat
  BY DEF Readable, Stored
<1>2. Len(r.ahead) \in Nat /\ Len(r.unread) \in Nat
  BY <1>1, SeqIs DEF Stored
<1>3. CASE r.hold
  <2>1. a = r
    BY <1>3 DEF Advance
  <2>0. (IF r.hold THEN 0 ELSE r.width) = 0
    BY <1>3
  <2>2. Left(r) \in Nat
    BY <1>1, LeftIs DEF Stored
  <2>3. Rest(r) = Left(r)
    <3>1. Rest(r) = Left(r) - 0
      BY <2>0, Zenon DEF Rest
    <3> QED BY <2>2, <3>1
  <2> HIDE DEF a
  <2> QED BY <1>1, <1>3, <2>1, <2>2, <2>3 DEF a
<1>4. CASE ~ r.hold
  <2>1. \E p, q : a = [unread |-> r.unread, ahead |-> s, full |-> r.full, failing |-> r.failing,
                       failed |-> r.failed, c |-> r.c, kind |-> r.kind, prev |-> p,
                       width |-> r.width, hold |-> r.hold, counter |-> r.counter, stats |-> q]
    <3>1. a = [r EXCEPT !.ahead = s, !.prev = r.kind,
                        !.stats = IF r.counter = "none" THEN @
                                  ELSE [@ EXCEPT ![r.counter] = @ + 1]]
      BY <1>4 DEF Advance
    <3> QED BY <1>1, <3>1 DEF Shape
  <2>2. PICK p, q : a = [unread |-> r.unread, ahead |-> s, full |-> r.full, failing |-> r.failing,
                         failed |-> r.failed, c |-> r.c, kind |-> r.kind, prev |-> p,
                         width |-> r.width, hold |-> r.hold, counter |-> r.counter, stats |-> q]
    BY <2>1
  <2>3. /\ a.unread = r.unread /\ a.ahead = s /\ a.full = r.full /\ a.failing = r.failing
        /\ a.failed = r.failed /\ a.c = r.c
    <3> HIDE DEF a, s
    <3> QED BY <2>2
  <2>4. Shape(a)
    BY <2>2 DEF Shape
  <2>5. r.width <= Len(r.ahead)
    BY <1>4 DEF Readable
  <2>6. IsSeq(s) /\ Len(s) = Len(r.ahead) - r.width
    <3>1. r.width \in 0 .. Len(r.ahead)
      BY <1>1, <1>2, <2>5
    <3> QED BY <3>1, <1>1, CutIs DEF Stored
  <2> HIDE DEF a, s
  <2>7. Stored(a)
    BY <1>1, <2>3, <2>4, <2>6 DEF Stored
  <2>8. Left(a) = Rest(r) /\ Rest(r) \in Nat
    <3> DEFINE l == Len(r.ahead)
               u == Len(r.unread)
               w == r.width
    <3>1. Left(a) = (l - w) + u /\ Rest(r) = (l + u) - w
      <4>1. (IF r.hold THEN 0 ELSE r.width) = r.width
        BY <1>4
      <4> QED BY <4>1, <2>3, <2>6, Zenon DEF Left, Rest
    <3>2. l \in Nat /\ u \in Nat /\ w \in Nat /\ w <= l
      BY <1>1, <1>2, <2>5
    <3> HIDE DEF l, u, w
    <3> QED BY <3>1, <3>2
  <2> QED BY <2>3, <2>7, <2>8, <1>4 DEF s, a
<1> QED BY <1>1, <1>3, <1>4

(* Refilling loses nothing unless the reading stops, and finds the end.    *)
LEMMA RefillIs ==
    ASSUME LookAhead \in Nat \ {0}, Chunk \in Nat \ {0},
           NEW options, NEW r, Stored(r), NEW diff \in BOOLEAN
    PROVE  LET f == Refill(options, r, diff)
           IN  /\ Stored(f) /\ Left(f) <= Left(r) /\ f.failing = r.failing /\ f.c = r.c
               /\ ~ StopsReading(options, diff) => Text(f) = Text(r)
               /\ f.ahead = <<>> /\ ~ StopsReading(options, diff) => Drained(f)
<1> DEFINE f == Refill(options, r, diff)
           n == IF Fails(r) THEN 0 ELSE IF Len(r.unread) < Chunk THEN Len(r.unread) ELSE Chunk
<1>1. Shape(r) /\ IsSeq(r.unread) /\ IsSeq(r.ahead)
      /\ r.full \in BOOLEAN /\ r.failing \in BOOLEAN /\ r.failed \in BOOLEAN
  BY DEF Stored
<1>2. Len(r.ahead) \in Nat /\ Len(r.unread) \in Nat
  BY <1>1, SeqIs
<1>3. CASE ~ IsShort(r)
  <2>1. f = r
    BY <1>3 DEF Refill
  <2>2. r.ahead # <<>>
    <3>1. Len(<<>>) = 0
      OBVIOUS
    <3> QED BY <1>2, <1>3, <3>1 DEF IsShort
  <2> QED BY <1>2, <2>1, <2>2 DEF Left
<1>4. CASE IsShort(r) /\ StopsReading(options, diff)
  <2>1. f = [r EXCEPT !.ahead = <<>>]
    BY <1>4 DEF Refill
  <2>2. f = [unread |-> r.unread, ahead |-> <<>>, full |-> r.full, failing |-> r.failing,
             failed |-> r.failed, c |-> r.c, kind |-> r.kind, prev |-> r.prev,
             width |-> r.width, hold |-> r.hold, counter |-> r.counter, stats |-> r.stats]
    BY <1>1, <2>1 DEF Shape
  <2>3. IsSeq(<<>>) /\ Len(<<>>) = 0
    BY EmptyIs
  <2>4. Stored(f) /\ f.failing = r.failing /\ f.c = r.c
    BY <2>2, <2>3, <1>1 DEF Stored, Shape
  <2>5. Left(f) <= Left(r)
    <3>1. f.ahead = <<>> /\ f.unread = r.unread
      BY <2>2
    <3> HIDE DEF f
    <3> QED BY <3>1, <2>3, <1>2 DEF Left
  <2> QED BY <2>4, <2>5, <1>4
<1>5. CASE IsShort(r) /\ ~ StopsReading(options, diff) /\ ~ r.full
  <2>1. f = r
    BY <1>5 DEF Refill
  <2> QED BY <1>2, <1>5, <2>1 DEF Left, Stored, Drained
<1>6. CASE IsShort(r) /\ ~ StopsReading(options, diff) /\ r.full
  <2> DEFINE s == SubSeq(r.unread, 1, n)
             t == SubSeq(r.unread, n + 1, Len(r.unread))
  <2>1. n \in 0 .. Len(r.unread) /\ (n = 0 => Fails(r) \/ Len(r.unread) = 0)
        /\ (n # Chunk => Fails(r) \/ n = Len(r.unread)) /\ (Fails(r) => n # Chunk)
    BY <1>2
  <2>2. f = [r EXCEPT !.ahead = @ \o s, !.unread = t, !.full = n = Chunk, !.failed = @ \/ Fails(r)]
    BY <1>1, <1>6, Zenon DEF Refill, ReadFile, Shape
  <2> HIDE DEF n, s, t
  <2>3. f = [unread |-> t, ahead |-> r.ahead \o s, full |-> (n = Chunk), failing |-> r.failing,
             failed |-> r.failed \/ Fails(r), c |-> r.c, kind |-> r.kind, prev |-> r.prev,
             width |-> r.width, hold |-> r.hold, counter |-> r.counter, stats |-> r.stats]
    BY <1>1, <2>2 DEF Shape
  <2> HIDE DEF f
  <2>4. /\ f.unread = t /\ f.ahead = r.ahead \o s /\ (f.full <=> n = Chunk) /\ f.full \in BOOLEAN
        /\ f.failing = r.failing /\ (f.failed <=> r.failed \/ Fails(r)) /\ f.failed \in BOOLEAN
        /\ f.c = r.c /\ Shape(f)
    BY <2>3, <1>1 DEF Shape
  <2>5. IsSeq(s) /\ IsSeq(t) /\ Len(s) = n /\ Len(t) = Len(r.unread) - n /\ s \o t = r.unread
    BY <2>1, <1>1, CutIs DEF s, t
  <2>6. IsSeq(f.ahead) /\ Len(f.ahead) = Len(r.ahead) + n
    <3>1. IsSeq(r.ahead \o s) /\ Len(r.ahead \o s) = Len(r.ahead) + Len(s)
      BY <2>5, <1>1, ConcatIs, Zenon
    <3> QED BY <3>1, <2>4, <2>5, Zenon
  <2>7. Text(f) = Text(r)
    <3>1. Join(Join(r.ahead, s), t) = Join(r.ahead, Join(s, t))
      BY <2>5, <1>1, JoinAcross
    <3>2. Join(r.ahead, s) = f.ahead /\ Join(s, t) = r.unread
      BY <2>4, <2>5 DEF Join
    <3> QED BY <3>1, <3>2, <2>4 DEF Text
  <2>8. ~ f.full => Drained(f)
    <3>1. CASE r.failing
      <4>1. ~ f.full => n # Chunk
        BY <2>4
      <4>2. n # Chunk => Fails(r)
        BY <3>1, <1>2, <2>1 DEF Fails, n
      <4> QED BY <3>1, <4>1, <4>2, <2>4 DEF Drained
    <3>2. CASE ~ r.failing
      <4>1. ~ Fails(r)
        BY <3>2 DEF Fails
      <4>2. ~ f.full => Len(t) = 0
        BY <4>1, <2>1, <2>4, <2>5, <1>2
      <4>3. Len(t) = 0 => t = <<>>
        BY <2>5, SeqIs
      <4> QED BY <3>2, <4>2, <4>3, <2>4 DEF Drained
    <3> QED BY <3>1, <3>2, <1>1
  <2>9. f.ahead = <<>> => ~ f.full
    <3>1. Len(<<>>) = 0
      OBVIOUS
    <3> QED BY <3>1, <2>6, <2>4, <2>1, <1>2
  <2>10. Stored(f)
    <3>1. f.failed => f.failing
      BY <2>4, <1>1 DEF Stored, Fails
    <3> QED BY <3>1, <2>4, <2>5, <2>6, <2>8, <1>1 DEF Stored, Drained
  <2>11. Left(f) = Left(r) /\ Left(r) \in Nat
    <3> DEFINE l == Len(r.ahead)
               u == Len(r.unread)
    <3>1. Left(f) = (l + n) + (u - n) /\ Left(r) = l + u
      BY <2>4, <2>5, <2>6 DEF Left
    <3>2. l \in Nat /\ u \in Nat /\ n \in 0 .. u
      BY <2>1, <1>2
    <3> HIDE DEF l, u
    <3> QED BY <3>1, <3>2
  <2>12. Left(f) <= Left(r)
    BY <2>11
  <2> QED BY <2>4, <2>7, <2>8, <2>9, <2>10, <2>11, <2>12 DEF f
<1> QED BY <1>3, <1>4, <1>5, <1>6, <1>1

Kinds == {"eof", "blank", "lf", "crlf", "cr", "lead", "neither"}

(* The kind of a code point.                                               *)
LEMMA KindIs ==
    ASSUME NEW r, IsSeq(r.ahead)
    PROVE  /\ KindOf(r) \in Kinds
           /\ KindOf(r) = "eof" <=> r.ahead = <<>>
           /\ KindOf(r) = "crlf" => Len(r.ahead) > 1
  BY DEF KindOf, Kinds

(* A reader at a code point.                                               *)
LEMMA ClassifyIs ==
    ASSUME NEW r, Stored(r)
    PROVE  LET k == Classify(r)
           IN  /\ Readable(k) /\ ~ k.hold /\ k.kind = KindOf(r) /\ k.kind \in Kinds
               /\ k.ahead = r.ahead /\ k.unread = r.unread /\ k.full = r.full
               /\ k.failing = r.failing /\ k.failed = r.failed
               /\ k.width = (IF k.kind = "eof" THEN 0 ELSE IF k.kind = "crlf" THEN 2 ELSE 1)
               /\ k.kind = "eof" <=> k.ahead = <<>>
               /\ k.kind # "eof" => k.c = k.ahead[1]
<1> DEFINE k == Classify(r)
           kind == KindOf(r)
           w == CASE kind = "eof" -> 0 [] kind = "crlf" -> 2 [] OTHER -> 1
<1>1. Shape(r) /\ IsSeq(r.ahead) /\ Len(r.ahead) \in Nat
  BY SeqIs DEF Stored
<1>2. kind \in Kinds /\ (kind = "eof" <=> r.ahead = <<>>) /\ (kind = "crlf" => Len(r.ahead) > 1)
  BY <1>1, KindIs
<1>3. w = (IF kind = "eof" THEN 0 ELSE IF kind = "crlf" THEN 2 ELSE 1)
  BY <1>2
<1>4. k = [unread |-> r.unread, ahead |-> r.ahead, full |-> r.full, failing |-> r.failing,
           failed |-> r.failed, c |-> IF kind = "eof" THEN r.c ELSE r.ahead[1],
           kind |-> kind, prev |-> IF kind \in LineBreaks THEN "blank" ELSE r.prev,
           width |-> w, hold |-> FALSE, counter |-> CounterOf(r, kind), stats |-> r.stats]
  <2> DEFINE counter == CounterOf(r, kind)
  <2>1. k = [r EXCEPT !.kind = kind, !.hold = FALSE, !.width = w,
                      !.c = IF kind = "eof" THEN @ ELSE r.ahead[1],
                      !.counter = counter,
                      !.prev = IF kind \in LineBreaks THEN "blank" ELSE @]
    BY DEF Classify
  <2> HIDE DEF kind, w, k, counter
  <2>2. k = [unread |-> r.unread, ahead |-> r.ahead, full |-> r.full, failing |-> r.failing,
             failed |-> r.failed, c |-> IF kind = "eof" THEN r.c ELSE r.ahead[1],
             kind |-> kind, prev |-> IF kind \in LineBreaks THEN "blank" ELSE r.prev,
             width |-> w, hold |-> FALSE, counter |-> counter, stats |-> r.stats]
    BY <1>1, <2>1 DEF Shape
  <2> QED BY <2>2 DEF counter
<1> HIDE DEF k, kind, w
<1>5. /\ k.kind = kind /\ k.hold = FALSE /\ k.width = w /\ k.ahead = r.ahead /\ k.unread = r.unread
      /\ k.full = r.full /\ k.failing = r.failing /\ k.failed = r.failed
      /\ (kind # "eof" => k.c = r.ahead[1]) /\ Shape(k)
  BY <1>4 DEF Shape
<1>6. Stored(k)
  BY <1>5 DEF Stored
<1>7. w \in Nat /\ w <= Len(r.ahead)
  <2>1. r.ahead # <<>> => Len(r.ahead) >= 1
    BY <1>1, SeqIs
  <2> QED BY <1>1, <1>2, <1>3, <2>1
<1>8. Readable(k)
  BY <1>5, <1>6, <1>7 DEF Readable
<1> QED BY <1>2, <1>3, <1>5, <1>8 DEF k, kind

(* A reader at its next code point.                                        *)
LEMMA NextIs ==
    ASSUME LookAhead \in Nat \ {0}, Chunk \in Nat \ {0},
           NEW options, NEW r, Readable(r), NEW diff \in BOOLEAN
    PROVE  LET k == Classify(Refill(options, Advance(r), diff))
           IN  /\ Readable(k) /\ k.hold = FALSE /\ k.kind \in Kinds
               /\ Left(k) \in Nat /\ Rest(r) \in Nat /\ Left(k) <= Rest(r)
               /\ k.failing = r.failing
               /\ k.width = (IF k.kind = "eof" THEN 0 ELSE IF k.kind = "crlf" THEN 2 ELSE 1)
               /\ k.kind = "eof" /\ ~ StopsReading(options, diff) => Drained(k)
<1> DEFINE a == Advance(r)
           f == Refill(options, a, diff)
           k == Classify(f)
<1>1. Stored(a) /\ Left(a) = Rest(r) /\ Rest(r) \in Nat /\ a.failing = r.failing
  BY AdvanceIs
<1> HIDE DEF a
<1>2. /\ Stored(f) /\ Left(f) <= Left(a) /\ f.failing = a.failing
      /\ f.ahead = <<>> /\ ~ StopsReading(options, diff) => Drained(f)
  BY <1>1, RefillIs
<1> HIDE DEF f
<1>3. /\ Readable(k) /\ k.hold = FALSE /\ k.kind \in Kinds
      /\ k.ahead = f.ahead /\ k.unread = f.unread /\ k.failing = f.failing /\ k.failed = f.failed
      /\ k.width = (IF k.kind = "eof" THEN 0 ELSE IF k.kind = "crlf" THEN 2 ELSE 1)
      /\ (k.kind = "eof" <=> k.ahead = <<>>)
  <2>1. ~ k.hold /\ k.hold \in BOOLEAN
    BY <1>2, ClassifyIs DEF Readable
  <2> QED BY <1>2, <2>1, ClassifyIs
<1> HIDE DEF k
<1>4. Left(k) = Left(f)
  BY <1>3 DEF Left
<1>5. Left(k) \in Nat
  BY <1>3, LeftIs DEF Readable, Stored
<1>6. Drained(f) => Drained(k)
  BY <1>3 DEF Drained
<1> QED BY <1>1, <1>2, <1>3, <1>4, <1>5, <1>6 DEF a, f, k

-----------------------------------------------------------------------------
(* A turn *)

(* A reader on which no code point is lost or gained                       *)
Still(t, r) ==
    /\ Readable(t)
    /\ t.unread = r.unread /\ t.ahead = r.ahead /\ t.full = r.full
    /\ t.failing = r.failing /\ t.failed = r.failed
    /\ t.width = r.width /\ t.counter = r.counter /\ t.stats = r.stats

(* A reader that is held.                                                  *)
LEMMA HoldIs ==
    ASSUME NEW r, Readable(r)
    PROVE  LET t == [r EXCEPT !.hold = TRUE]
           IN  Still(t, r) /\ t.hold = TRUE /\ t.kind = r.kind /\ t.prev = r.prev
<1> DEFINE t == [r EXCEPT !.hold = TRUE]
<1>1. Shape(r) /\ Stored(r) /\ r.hold \in BOOLEAN /\ r.width \in Nat
  BY DEF Readable, Stored
<1>2. t = [unread |-> r.unread, ahead |-> r.ahead, full |-> r.full, failing |-> r.failing,
           failed |-> r.failed, c |-> r.c, kind |-> r.kind, prev |-> r.prev,
           width |-> r.width, hold |-> TRUE, counter |-> r.counter, stats |-> r.stats]
  <2>1. ASSUME NEW h
        PROVE  [r EXCEPT !.hold = h] =
                  [unread |-> r.unread, ahead |-> r.ahead, full |-> r.full, failing |-> r.failing,
                   failed |-> r.failed, c |-> r.c, kind |-> r.kind, prev |-> r.prev,
                   width |-> r.width, hold |-> h, counter |-> r.counter, stats |-> r.stats]
    BY <1>1 DEF Shape
  <2> QED BY <2>1, Zenon
<1> HIDE DEF t
<1>3. /\ t.unread = r.unread /\ t.ahead = r.ahead /\ t.full = r.full
      /\ t.failing = r.failing /\ t.failed = r.failed
      /\ t.width = r.width /\ t.c = r.c /\ t.counter = r.counter /\ t.stats = r.stats
      /\ t.hold = TRUE /\ t.kind = r.kind /\ t.prev = r.prev /\ Shape(t)
  BY <1>2 DEF Shape
<1>4. Stored(t)
  BY <1>1, <1>3 DEF Stored
<1>5. Readable(t)
  BY <1>1, <1>3, <1>4 DEF Readable
<1> QED BY <1>3, <1>5 DEF Still, t

(* A reader whose code point is taken for another kind.                    *)
LEMMA KindSet ==
    ASSUME NEW r, Readable(r), NEW x
    PROVE  LET t == [r EXCEPT !.kind = x]
           IN  Still(t, r) /\ t.hold = r.hold /\ t.kind = x /\ t.prev = r.prev
<1> DEFINE t == [r EXCEPT !.kind = x]
<1>1. Shape(r) /\ Stored(r) /\ r.hold \in BOOLEAN /\ r.width \in Nat
  BY DEF Readable, Stored
<1>2. t = [unread |-> r.unread, ahead |-> r.ahead, full |-> r.full, failing |-> r.failing,
           failed |-> r.failed, c |-> r.c, kind |-> x, prev |-> r.prev,
           width |-> r.width, hold |-> r.hold, counter |-> r.counter, stats |-> r.stats]
  BY <1>1 DEF Shape
<1> HIDE DEF t
<1>3. /\ t.unread = r.unread /\ t.ahead = r.ahead /\ t.full = r.full
      /\ t.failing = r.failing /\ t.failed = r.failed
      /\ t.width = r.width /\ t.c = r.c /\ t.counter = r.counter /\ t.stats = r.stats
      /\ t.hold = r.hold /\ t.kind = x /\ t.prev = r.prev /\ Shape(t)
  BY <1>2 DEF Shape
<1>4. Stored(t)
  BY <1>1, <1>3 DEF Stored
<1>5. Readable(t)
  BY <1>1, <1>3, <1>4 DEF Readable
<1> QED BY <1>3, <1>5 DEF Still, t

(* A reader whose code point is taken to follow another kind.              *)
LEMMA PrevSet ==
    ASSUME NEW r, Readable(r), NEW x
    PROVE  LET t == [r EXCEPT !.prev = x]
           IN  Still(t, r) /\ t.hold = r.hold /\ t.kind = r.kind /\ t.prev = x
<1> DEFINE t == [r EXCEPT !.prev = x]
<1>1. Shape(r) /\ Stored(r) /\ r.hold \in BOOLEAN /\ r.width \in Nat
  BY DEF Readable, Stored
<1>2. t = [unread |-> r.unread, ahead |-> r.ahead, full |-> r.full, failing |-> r.failing,
           failed |-> r.failed, c |-> r.c, kind |-> r.kind, prev |-> x,
           width |-> r.width, hold |-> r.hold, counter |-> r.counter, stats |-> r.stats]
  BY <1>1 DEF Shape
<1> HIDE DEF t
<1>3. /\ t.unread = r.unread /\ t.ahead = r.ahead /\ t.full = r.full
      /\ t.failing = r.failing /\ t.failed = r.failed
      /\ t.width = r.width /\ t.c = r.c /\ t.counter = r.counter /\ t.stats = r.stats
      /\ t.hold = r.hold /\ t.kind = r.kind /\ t.prev = x /\ Shape(t)
  BY <1>2 DEF Shape
<1>4. Stored(t)
  BY <1>1, <1>3 DEF Stored
<1>5. Readable(t)
  BY <1>1, <1>3, <1>4 DEF Readable
<1> QED BY <1>3, <1>5 DEF Still, t

(* A reader for whose code point another is stored.                        *)
LEMMA CodePointSet ==
    ASSUME NEW r, Readable(r), NEW x
    PROVE  LET t == [r EXCEPT !.c = x]
           IN  Still(t, r) /\ t.hold = r.hold /\ t.kind = r.kind /\ t.prev = r.prev
<1> DEFINE t == [r EXCEPT !.c = x]
<1>1. Shape(r) /\ Stored(r) /\ r.hold \in BOOLEAN /\ r.width \in Nat
  BY DEF Readable, Stored
<1>2. t = [unread |-> r.unread, ahead |-> r.ahead, full |-> r.full, failing |-> r.failing,
           failed |-> r.failed, c |-> x, kind |-> r.kind, prev |-> r.prev,
           width |-> r.width, hold |-> r.hold, counter |-> r.counter, stats |-> r.stats]
  BY <1>1 DEF Shape
<1> HIDE DEF t
<1>3. /\ t.unread = r.unread /\ t.ahead = r.ahead /\ t.full = r.full
      /\ t.failing = r.failing /\ t.failed = r.failed
      /\ t.width = r.width /\ t.c = x /\ t.counter = r.counter /\ t.stats = r.stats
      /\ t.hold = r.hold /\ t.kind = r.kind /\ t.prev = r.prev /\ Shape(t)
  BY <1>2 DEF Shape
<1>4. Stored(t)
  BY <1>1, <1>3 DEF Stored
<1>5. Readable(t)
  BY <1>1, <1>3, <1>4 DEF Readable
<1> QED BY <1>3, <1>5 DEF Still, t

(* The two sides                                                           *)
Pair(p) == p = [i \in Sides |-> p[i]]

Ready(p) == Pair(p) /\ \A i \in Sides : Readable(p[i])

(* t is p after a turn: side i goes on if it went on before.               *)
Turned(t, p, i) ==
    /\ Pair(t)
    /\ \A j \in Sides : Still(t[j], p[j]) /\ (p[j].kind = "start" => t[j].kind = "start")
    /\ t[i].hold = p[i].hold

(* One side goes on alone.                                                 *)
LEMMA AloneIs ==
    ASSUME NEW p, Ready(p), NEW i \in Sides
    PROVE  LET t == Alone(p, i)
           IN  t.equal = TRUE /\ Turned(t.readers, p, i)
<1> DEFINE o == Other(i)
           t == [p EXCEPT ![o].hold = TRUE]
<1>1. o \in Sides /\ o # i /\ (\A j \in Sides : j = i \/ j = o)
  BY DEF Sides, Other
<1>2. Alone(p, i) = [readers |-> t, equal |-> TRUE]
  BY DEF Alone, Both
<1>3. t[o] = [p[o] EXCEPT !.hold = TRUE] /\ t[i] = p[i] /\ Pair(t)
  <2> HIDE DEF o
  <2> QED BY <1>1 DEF Ready, Pair
<1> HIDE DEF t, o
<1>4. Still(t[o], p[o]) /\ t[o].kind = p[o].kind
  BY <1>1, <1>3, HoldIs DEF Ready
<1>5. Still(t[i], p[i])
  BY <1>3 DEF Ready, Still
<1>6. \A j \in Sides : Still(t[j], p[j]) /\ t[j].kind = p[j].kind
  BY <1>1, <1>3, <1>4, <1>5
<1>7. Turned(t, p, i)
  BY <1>3, <1>6 DEF Turned
<1> QED BY <1>2, <1>7

(* No side waits.                                                          *)
LEMMA BothIs ==
    ASSUME NEW p, Ready(p), NEW i \in Sides
    PROVE  Turned(p, p, i)
BY DEF Ready, Turned, Still

(* Turns one after the other.                                              *)
LEMMA TurnedTwice ==
    ASSUME NEW p, NEW q, NEW t, NEW i \in Sides, Turned(q, p, i), Turned(t, q, i)
    PROVE  Turned(t, p, i)
BY DEF Turned, Still

(* A turn loses and gains no code point, and a side with one goes on.      *)
LEMMA TurnIs ==
    ASSUME NEW options, NEW p, Ready(p), ~ Ended(p)
    PROVE  LET t == Turn(options, p)
           IN  /\ t = [readers |-> t.readers, equal |-> t.equal] /\ t.equal \in BOOLEAN
               /\ \E i \in Sides : p[i].kind \notin {"eof", "start"} /\ Turned(t.readers, p, i)
<1> DEFINE Goes(t) ==
             /\ t = [readers |-> t.readers, equal |-> t.equal] /\ t.equal \in BOOLEAN
             /\ \E i \in Sides : p[i].kind \notin {"eof", "start"} /\ Turned(t.readers, p, i)
<1>0. PICK i0 \in Sides : p[i0].kind \notin {"eof", "start"}
  BY DEF Ended
<1>1. Goes(Both(p)) /\ Goes(Differ(p))
  <2>1. Turned(p, p, i0)
    BY BothIs
  <2> QED BY <2>1, <1>0 DEF Both, Differ
<1>2. ASSUME NEW i \in Sides, p[i].kind \in LineBreaks
      PROVE  Goes(BreakAlone(p, i))
  <2> DEFINE q == [p EXCEPT ![i].kind = "blank"]
  <2>1. \A j \in Sides : q[j] = IF j = i THEN [p[i] EXCEPT !.kind = "blank"] ELSE p[j]
    BY DEF Ready, Pair
  <2>2. Pair(q)
    BY DEF Ready, Pair
  <2>3. BreakAlone(p, i) = Alone(q, i)
    BY DEF BreakAlone
  <2> HIDE DEF q
  <2>4. \A j \in Sides : Still(q[j], p[j]) /\ q[j].hold = p[j].hold /\ (j # i => q[j].kind = p[j].kind)
    <3>1. Still(q[i], p[i]) /\ q[i].hold = p[i].hold
      <4>1. Readable(p[i]) /\ q[i] = [p[i] EXCEPT !.kind = "blank"]
        BY <2>1 DEF Ready
      <4>2. LET t == [p[i] EXCEPT !.kind = "blank"] IN Still(t, p[i]) /\ t.hold = p[i].hold
        BY <4>1, KindSet, Zenon
      <4> QED BY <4>1, <4>2, Zenon
    <3>2. \A j \in Sides : j # i => q[j] = p[j] /\ Still(q[j], p[j])
      BY <2>1 DEF Ready, Still
    <3> QED BY <3>1, <3>2
  <2>5. Ready(q)
    BY <2>2, <2>4 DEF Ready, Still
  <2>6. p[i].kind \notin {"eof", "start"}
    BY <1>2 DEF LineBreaks
  <2>7. Turned(q, p, i)
    BY <2>2, <2>4, <2>6 DEF Turned
  <2>8. Alone(q, i).equal = TRUE /\ Turned(Alone(q, i).readers, q, i)
    BY <2>5, AloneIs
  <2>9. Turned(Alone(q, i).readers, p, i)
    BY <2>7, <2>8, TurnedTwice
  <2>10. Alone(q, i) = [readers |-> Alone(q, i).readers, equal |-> Alone(q, i).equal]
    BY DEF Alone, Both
  <2> QED BY <2>3, <2>6, <2>8, <2>9, <2>10
<1>3. Goes(CompareBlank(options, p))
  <2> DEFINE q == IF options.nIgnoreWhitespace = "all"
                  THEN [i \in Sides |-> [p[i] EXCEPT !.prev = "blank"]] ELSE p
  <2>1. /\ Ready(q)
        /\ \A i \in Sides : Turned(q, p, i) /\ q[i].kind = p[i].kind
    <3>1. CASE options.nIgnoreWhitespace = "all"
      <4>1. q = [i \in Sides |-> [p[i] EXCEPT !.prev = "blank"]]
        BY <3>1
      <4>2. Pair(q) /\ \A i \in Sides : q[i] = [p[i] EXCEPT !.prev = "blank"]
        BY <4>1 DEF Pair
      <4> HIDE DEF q
      <4>3. \A i \in Sides : Still(q[i], p[i]) /\ q[i].hold = p[i].hold /\ q[i].kind = p[i].kind
        <5> SUFFICES ASSUME NEW i \in Sides
                     PROVE  Still(q[i], p[i]) /\ q[i].hold = p[i].hold /\ q[i].kind = p[i].kind
          OBVIOUS
        <5>1. Readable(p[i]) /\ q[i] = [p[i] EXCEPT !.prev = "blank"]
          BY <4>2 DEF Ready
        <5>2. LET t == [p[i] EXCEPT !.prev = "blank"]
              IN  Still(t, p[i]) /\ t.hold = p[i].hold /\ t.kind = p[i].kind
          BY <5>1, PrevSet, Zenon
        <5> QED BY <5>1, <5>2, Zenon
      <4> QED BY <4>2, <4>3 DEF Ready, Still, Turned
    <3>2. CASE options.nIgnoreWhitespace # "all"
      BY <3>2, BothIs
    <3> QED BY <3>1, <3>2
  <2> HIDE DEF q
  <2>2. Goes(Both(q)) /\ Goes(Differ(q))
    BY <2>1, <1>0 DEF Both, Differ
  <2>3. ASSUME NEW i \in Sides, FollowsBlank(q, i) PROVE Goes(Alone(q, i))
    <3>1. p[i].kind \notin {"eof", "start"}
      BY <2>1, <2>3 DEF FollowsBlank
    <3>2. Alone(q, i).equal = TRUE /\ Turned(Alone(q, i).readers, q, i)
      BY <2>1, AloneIs
    <3>3. Turned(Alone(q, i).readers, p, i)
      BY <2>1, <3>2, TurnedTwice
    <3>4. Alone(q, i) = [readers |-> Alone(q, i).readers, equal |-> Alone(q, i).equal]
      BY DEF Alone, Both
    <3> QED BY <3>1, <3>2, <3>3, <3>4
  <2>4. \/ CompareBlank(options, p) = Both(q)
        \/ CompareBlank(options, p) = Differ(q)
        \/ \E i \in Sides : FollowsBlank(q, i) /\ CompareBlank(options, p) = Alone(q, i)
    <3>1. 1 \in Sides /\ 2 \in Sides
      BY DEF Sides
    <3> QED BY <3>1 DEF CompareBlank, q
  <2> HIDE DEF Goes
  <2> QED BY <2>2, <2>3, <2>4
<1>f. LET q == ForceEqualness(options, p) IN Goes(Both(q)) /\ Goes(Differ(q))
  <2> DEFINE q == ForceEqualness(options, p)
             x == IF options.bIgnoreEol THEN "1" ELSE "0"
  <2>1. q = [p EXCEPT ![1].c = "1", ![2].c = x]
    BY DEF ForceEqualness
  <2>2. Pair(q) /\ q[1] = [p[1] EXCEPT !.c = "1"] /\ q[2] = [p[2] EXCEPT !.c = x]
    <3> HIDE DEF q, x
    <3>1. Pair(p) /\ 1 \in DOMAIN p /\ 2 \in DOMAIN p /\ DOMAIN p = Sides
      BY DEF Ready, Pair, Sides
    <3>2. q[1] = [p[1] EXCEPT !.c = "1"] /\ q[2] = [p[2] EXCEPT !.c = x]
      BY <2>1, <3>1
    <3>3. q = [i \in DOMAIN p |-> q[i]]
      BY <2>1
    <3>4. Pair(q)
      BY <3>1, <3>3, Zenon DEF Pair
    <3> QED BY <3>2, <3>4
  <2> HIDE DEF q, x
  <2>3. Readable(p[1]) /\ Readable(p[2])
    BY DEF Ready, Sides
  <2>4. Still(q[1], p[1]) /\ q[1].hold = p[1].hold /\ q[1].kind = p[1].kind
    <3>1. LET t == [p[1] EXCEPT !.c = "1"]
          IN  Still(t, p[1]) /\ t.hold = p[1].hold /\ t.kind = p[1].kind
      BY <2>3, CodePointSet, Zenon
    <3> QED BY <2>2, <3>1, Zenon
  <2>5. Still(q[2], p[2]) /\ q[2].hold = p[2].hold /\ q[2].kind = p[2].kind
    <3>1. LET t == [p[2] EXCEPT !.c = x]
          IN  Still(t, p[2]) /\ t.hold = p[2].hold /\ t.kind = p[2].kind
      BY <2>3, CodePointSet, Zenon
    <3> QED BY <2>2, <3>1, Zenon
  <2>6. \A i \in Sides : Turned(q, p, i)
    BY <2>2, <2>4, <2>5 DEF Turned, Sides
  <2> QED BY <2>6, <1>0 DEF Both, Differ, q
<1>4. \/ Turn(options, p) \in {Both(p), Differ(p), CompareBlank(options, p)}
      \/ LET q == ForceEqualness(options, p) IN Turn(options, p) \in {Both(q), Differ(q)}
      \/ \E i \in Sides : p[i].kind \in LineBreaks /\ Turn(options, p) = BreakAlone(p, i)
  <2>1. 1 \in Sides /\ 2 \in Sides
    BY DEF Sides
  <2> QED BY <2>1 DEF Turn, CompareCodePoints
<1>5. Goes(Turn(options, p))
  <2> HIDE DEF Goes
  <2> QED BY <1>1, <1>2, <1>3, <1>f, <1>4
<1> QED BY <1>5

-----------------------------------------------------------------------------
(* The loop *)

(* A state of the loop: an inactive side has no file.                      *)
Looping(active, s) ==
    /\ s = [readers |-> s.readers, equal |-> s.equal, ended |-> s.ended]
    /\ s.equal \in BOOLEAN /\ s.ended \in BOOLEAN
    /\ \A i \in Sides : Readable(s.readers[i])
    /\ \A i \in Sides \ active :
            s.readers[i].kind = "start" /\ Left(s.readers[i]) = 0 /\ s.readers[i].width = 0

(* The code points that are left on both sides                             *)
Work(s) == Rest(s.readers[1]) + Rest(s.readers[2])

(* When the loop ends, both files have been read, unless it may stop.      *)
Over(options, active, s) ==
    \A i \in active : ~ StopsReading(options, ~ s.equal) => Drained(s.readers[i])

(* Both files fail where they did.                                         *)
SameFaults(t, s) == \A i \in Sides : t.readers[i].failing = s.readers[i].failing

(* The code points left after a turn                                       *)
LEMMA RestIs ==
    ASSUME NEW r, Readable(r)
    PROVE  /\ Rest(r) \in Nat
           /\ r.hold = TRUE => Rest(r) = Left(r)
           /\ r.hold = FALSE => Rest(r) = Left(r) - r.width
           /\ Rest(r) <= Left(r) /\ Left(r) \in Nat
<1>1. Left(r) \in Nat /\ Rest(r) \in Nat
  BY LeftIs, AdvanceIs DEF Readable, Stored
<1>2. r.width \in Nat /\ r.hold \in BOOLEAN
  BY DEF Readable
<1>3. CASE r.hold = TRUE
  <2>1. (IF r.hold THEN 0 ELSE r.width) = 0
    BY <1>3
  <2>2. Rest(r) = Left(r) - 0
    BY <2>1 DEF Rest
  <2> QED BY <1>1, <1>3, <2>2
<1>4. CASE r.hold = FALSE
  <2>1. (IF r.hold THEN 0 ELSE r.width) = r.width
    BY <1>4
  <2>2. Rest(r) = Left(r) - r.width
    BY <2>1 DEF Rest
  <2> QED BY <1>1, <1>2, <1>4, <2>2
<1> QED BY <1>2, <1>3, <1>4

(* Every turn of the loop takes up a code point, or the loop ends.         *)
LEMMA StepIs ==
    ASSUME LookAhead \in Nat \ {0}, Chunk \in Nat \ {0},
           NEW options, NEW active \in SUBSET Sides, NEW s, Looping(active, s)
    PROVE  LET t == Step(options, active, s)
           IN  /\ Looping(active, t) /\ SameFaults(t, s)
               /\ Work(s) \in Nat /\ Work(t) \in Nat
               /\ ~ t.ended => Work(t) < Work(s)
               /\ t.ended => Over(options, active, t)
<1> DEFINE diff == ~ s.equal
           Next(i) == Classify(Refill(options, Advance(s.readers[i]), diff))
           p == [i \in Sides |-> IF i \in active THEN Next(i) ELSE s.readers[i]]
           turn == Turn(options, p)
           t == Step(options, active, s)
<1>1. t = IF Ended(p) THEN [readers |-> p, equal |-> s.equal, ended |-> TRUE]
          ELSE [readers |-> turn.readers, equal |-> s.equal /\ turn.equal, ended |-> FALSE]
  BY DEF Step
<1>2. s.equal \in BOOLEAN /\ diff \in BOOLEAN /\ \A i \in Sides : Readable(s.readers[i])
  BY DEF Looping
<1>3. ASSUME NEW i \in active
      PROVE  /\ Readable(p[i]) /\ p[i].hold = FALSE /\ p[i].kind \in Kinds
             /\ Left(p[i]) <= Rest(s.readers[i]) /\ p[i].failing = s.readers[i].failing
             /\ p[i].width = (IF p[i].kind = "eof" THEN 0 ELSE IF p[i].kind = "crlf" THEN 2 ELSE 1)
             /\ p[i].kind = "eof" /\ ~ StopsReading(options, diff) => Drained(p[i])
  <2> DEFINE k == Next(i)
  <2>1. p[i] = k
    OBVIOUS
  <2>2. Readable(s.readers[i]) /\ diff \in BOOLEAN
    BY <1>2
  <2> HIDE DEF diff
  <2>3. /\ Readable(k) /\ k.hold = FALSE /\ k.kind \in Kinds
        /\ Left(k) <= Rest(s.readers[i]) /\ k.failing = s.readers[i].failing
        /\ k.width = (IF k.kind = "eof" THEN 0 ELSE IF k.kind = "crlf" THEN 2 ELSE 1)
        /\ k.kind = "eof" /\ ~ StopsReading(options, diff) => Drained(k)
    <3> DEFINE reader == s.readers[i]
    <3>1. Readable(reader)
      BY <2>2
    <3> HIDE DEF reader, diff
    <3> DEFINE next == Classify(Refill(options, Advance(reader), diff))
    <3>2. /\ Readable(next) /\ next.hold = FALSE /\ next.kind \in Kinds
          /\ Left(next) <= Rest(reader) /\ next.failing = reader.failing
          /\ next.width = (IF next.kind = "eof" THEN 0 ELSE IF next.kind = "crlf" THEN 2 ELSE 1)
          /\ next.kind = "eof" /\ ~ StopsReading(options, diff) => Drained(next)
      BY <2>2, <3>1, NextIs, Zenon
    <3>3. next = k
      BY DEF reader
    <3> QED BY <3>2, <3>3, Zenon DEF reader
  <2> HIDE DEF k, p
  <2> QED BY <2>1, <2>3
<1>4. ASSUME NEW i \in Sides \ active
      PROVE  /\ p[i] = s.readers[i] /\ Readable(p[i]) /\ p[i].kind = "start"
             /\ Left(p[i]) = 0 /\ p[i].width = 0 /\ p[i].failing = s.readers[i].failing
  <2>1. p[i] = s.readers[i]
    OBVIOUS
  <2> HIDE DEF p
  <2> QED BY <2>1 DEF Looping
<1>5. Ready(p)
  <2>1. Pair(p)
    BY DEF Pair
  <2> HIDE DEF p
  <2> QED BY <2>1, <1>3, <1>4 DEF Ready
<1> HIDE DEF p, t, turn, Next
<1>6. Work(s) \in Nat /\ Rest(s.readers[1]) \in Nat /\ Rest(s.readers[2]) \in Nat
  <2>1. Rest(s.readers[1]) \in Nat /\ Rest(s.readers[2]) \in Nat
    BY <1>2, RestIs DEF Sides
  <2> QED BY <2>1 DEF Work
<1>7. \A i \in Sides : /\ Left(p[i]) <= Rest(s.readers[i]) /\ Left(p[i]) \in Nat
                       /\ p[i].failing = s.readers[i].failing
  <2> SUFFICES ASSUME NEW i \in Sides
               PROVE  /\ Left(p[i]) <= Rest(s.readers[i]) /\ Left(p[i]) \in Nat
                      /\ p[i].failing = s.readers[i].failing
    OBVIOUS
  <2>1. Left(p[i]) \in Nat /\ Rest(s.readers[i]) \in Nat
    BY <1>2, <1>5, RestIs DEF Ready
  <2>2. CASE i \in active
    BY <1>3, <2>1, <2>2
  <2>3. CASE i \notin active
    BY <1>4, <2>1, <2>3
  <2> QED BY <2>2, <2>3
<1>8. CASE Ended(p)
  <2>1. t = [readers |-> p, equal |-> s.equal, ended |-> TRUE]
    BY <1>1, <1>8
  <2>2. t.readers = p /\ t.equal = s.equal /\ t.ended = TRUE
        /\ t = [readers |-> t.readers, equal |-> t.equal, ended |-> t.ended]
    BY <2>1
  <2> HIDE DEF t
  <2>3. Looping(active, t)
    BY <2>2, <1>2, <1>4, <1>5 DEF Looping, Ready
  <2>4. SameFaults(t, s)
    BY <2>2, <1>7 DEF SameFaults
  <2>5. Over(options, active, t)
    <3>1. \A i \in active : p[i].kind = "eof"
      BY <1>3, <1>8 DEF Ended, Kinds
    <3> QED BY <3>1, <1>3, <2>2 DEF Over
  <2>6. Work(t) \in Nat
    <3>1. Rest(p[1]) \in Nat /\ Rest(p[2]) \in Nat
      BY <1>5, RestIs DEF Ready, Sides
    <3> QED BY <3>1, <2>2 DEF Work
  <2> QED BY <2>2, <2>3, <2>4, <2>5, <2>6, <1>6 DEF t
<1>9. CASE ~ Ended(p)
  <2> DEFINE q == turn.readers
  <2>1. turn.equal \in BOOLEAN
        /\ \E i \in Sides : p[i].kind \notin {"eof", "start"} /\ Turned(q, p, i)
    BY <1>5, <1>9, TurnIs DEF turn
  <2>2. PICK i \in Sides : p[i].kind \notin {"eof", "start"} /\ Turned(q, p, i)
    BY <2>1
  <2>3. t = [readers |-> q, equal |-> s.equal /\ turn.equal, ended |-> FALSE]
    BY <1>1, <1>9
  <2>4. t.readers = q /\ t.equal = (s.equal /\ turn.equal) /\ t.ended = FALSE
        /\ t = [readers |-> t.readers, equal |-> t.equal, ended |-> t.ended]
    BY <2>3
  <2> HIDE DEF t, q
  <2>5. i \in active
    BY <2>2, <1>4
  <2>6. /\ \A j \in Sides : Still(q[j], p[j]) /\ (p[j].kind = "start" => q[j].kind = "start")
        /\ q[i].hold = p[i].hold
    BY <2>2 DEF Turned
  <2>7. \A j \in Sides : Left(q[j]) = Left(p[j]) /\ Readable(q[j]) /\ q[j].width = p[j].width
                            /\ q[j].failing = p[j].failing
    BY <2>6 DEF Still, Left
  <2>8. Looping(active, t)
    <3>1. t.equal \in BOOLEAN /\ t.ended \in BOOLEAN
      BY <2>4, <2>1, <1>2
    <3>2. \A j \in Sides \ active :
              q[j].kind = "start" /\ Left(q[j]) = 0 /\ q[j].width = 0
      BY <1>4, <2>6, <2>7
    <3> QED BY <3>1, <3>2, <2>4, <2>7 DEF Looping
  <2>9. SameFaults(t, s)
    BY <2>4, <2>7, <1>7 DEF SameFaults
  <2>10. \A j \in Sides : Rest(q[j]) \in Nat /\ Rest(q[j]) <= Rest(s.readers[j])
    <3> SUFFICES ASSUME NEW j \in Sides
                 PROVE  Rest(q[j]) \in Nat /\ Rest(q[j]) <= Rest(s.readers[j])
      OBVIOUS
    <3>1. Rest(q[j]) \in Nat /\ Rest(q[j]) <= Left(q[j]) /\ Rest(s.readers[j]) \in Nat
      BY <2>7, <1>2, RestIs
    <3> QED BY <3>1, <2>7, <1>7
  <2>11. Rest(q[i]) < Rest(s.readers[i])
    <3>1. p[i].hold = FALSE /\ p[i].width \in {1, 2}
      BY <2>5, <2>2, <1>3
    <3>2. Rest(q[i]) = Left(q[i]) - q[i].width
      BY <3>1, <2>6, <2>7, RestIs
    <3>3. Left(q[i]) \in Nat /\ Rest(s.readers[i]) \in Nat /\ Left(q[i]) <= Rest(s.readers[i])
      BY <2>7, <1>2, <1>7, RestIs
    <3> QED BY <3>1, <3>2, <3>3, <2>7
  <2>12. Work(t) \in Nat /\ Work(t) < Work(s)
    <3>1. i = 1 \/ i = 2
      BY DEF Sides
    <3>2. 1 \in Sides /\ 2 \in Sides
      BY DEF Sides
    <3> DEFINE a1 == Rest(q[1])
               a2 == Rest(q[2])
               b1 == Rest(s.readers[1])
               b2 == Rest(s.readers[2])
    <3>3. Work(t) = a1 + a2 /\ Work(s) = b1 + b2
      BY <2>4 DEF Work
    <3>4. a1 \in Nat /\ a2 \in Nat /\ b1 \in Nat /\ b2 \in Nat /\ a1 <= b1 /\ a2 <= b2
          /\ (a1 < b1 \/ a2 < b2)
      BY <3>1, <3>2, <2>10, <2>11, <1>6
    <3> HIDE DEF a1, a2, b1, b2
    <3> QED BY <3>3, <3>4
  <2> QED BY <2>4, <2>8, <2>9, <2>12, <1>6 DEF t
<1> QED BY <1>8, <1>9 DEF t

(* The states of the loop, one after the other                             *)
Unfolds(options, active, readers, f) ==
    /\ Loop(options, active, readers) = f /\ DOMAIN f = 0 .. Turns(readers)
    /\ Run(options, active, readers) = f[Turns(readers)]
    /\ f[0] = [readers |-> readers, equal |-> TRUE, ended |-> FALSE]
    /\ \A n \in 1 .. Turns(readers) :
          f[n] = IF f[n - 1].ended THEN f[n - 1] ELSE Step(options, active, f[n - 1])

(* The function that Run is defined by has the value its recursion says.    *)
LEMMA RunSteps ==
    ASSUME NEW options, NEW active, NEW readers, Turns(readers) \in Nat
    PROVE  \E f : Unfolds(options, active, readers, f)
<1> DEFINE N == Len(readers[1].unread) + Len(readers[2].unread) + 1
           first == [readers |-> readers, equal |-> TRUE, ended |-> FALSE]
           Then(s) == IF s.ended THEN s ELSE Step(options, active, s)
           Body(n, g) == [k \in 0 .. n |-> IF k = 0 THEN first ELSE Then(g[k - 1])]
           Good(n, g) == g = Body(n, g)
           Bad == {n \in 0 .. N : ~ \E g : Good(n, g)}
           Chosen == CHOOSE g : Good(N, g)
<1>1. N \in Nat /\ Turns(readers) = N
  BY DEF Turns
<1>2. Loop(options, active, readers) = Chosen
  BY DEF Loop, Turns
<1>d. Run(options, active, readers) = Chosen[N]
  BY <1>1, <1>2, Zenon DEF Run
<1> HIDE DEF N, first, Then
<1>3. Bad = {}
  <2> SUFFICES ASSUME Bad # {} PROVE FALSE
    OBVIOUS
  <2>1. PICK m \in Bad : \A k \in Bad : m <= k
    <3>1. Bad \in SUBSET Nat
      <4> HIDE DEF Good
      <4> QED BY <1>1
    <3> HIDE DEF Bad
    <3> QED BY <3>1, LeastOf
  <2>2. m \in 0 .. N /\ ~ \E g : Good(m, g)
    BY <2>1
  <2>3. m # 0
    <3> DEFINE g == [k \in 0 .. 0 |-> first]
    <3>1. \A k \in 0 .. 0 : first = IF k = 0 THEN first ELSE Then(g[k - 1])
      OBVIOUS
    <3>2. Good(0, g)
      <4> HIDE DEF g
      <4>1. g = [k \in 0 .. 0 |-> first]
        BY DEF g
      <4> QED BY <3>1, <4>1
    <3> HIDE DEF g, Good
    <3> QED BY <2>2, <3>2
  <2>4. m - 1 \in 0 .. N /\ ~ (m <= m - 1)
    BY <2>2, <2>3, <1>1
  <2>5. PICK g : Good(m - 1, g)
    <3>1. m - 1 \notin Bad
      BY <2>1, <2>4
    <3> HIDE DEF Good
    <3> QED BY <2>4, <3>1
  <2> DEFINE h == [k \in 0 .. m |-> IF k = m THEN Then(g[k - 1]) ELSE g[k]]
  <2>6. \A k \in 0 .. m : h[k] = IF k = 0 THEN first ELSE Then(h[k - 1])
    <3>1. \A k \in 0 .. m - 1 : g[k] = IF k = 0 THEN first ELSE Then(g[k - 1])
      <4> DEFINE e(k) == IF k = 0 THEN first ELSE Then(g[k - 1])
      <4>1. g = [k \in 0 .. m - 1 |-> e(k)]
        BY <2>5
      <4>2. \A k \in 0 .. m - 1 : g[k] = e(k)
        <5> HIDE DEF e
        <5>1. \A k \in 0 .. m - 1 : [j \in 0 .. m - 1 |-> e(j)][k] = e(k)
          OBVIOUS
        <5> QED BY <4>1, <5>1, Zenon
      <4> QED BY <4>2
    <3>2. \A k \in 0 .. m : /\ k # m => k \in 0 .. m - 1
                            /\ k # 0 => k - 1 \in 0 .. m /\ k - 1 # m
      BY <2>2
    <3> QED BY <3>1, <3>2, <2>3
  <2>7. Good(m, h)
    BY <2>6
  <2> QED BY <2>2, <2>7, Zenon
<1>4. Good(N, Chosen)
  <2>1. \E g : Good(N, g)
    <3> HIDE DEF Good
    <3>1. N \in 0 .. N /\ N \notin Bad
      BY <1>1, <1>3
    <3> QED BY <3>1
  <2> HIDE DEF Good
  <2> QED BY <2>1, Zenon
<1>e. DOMAIN Chosen = 0 .. N
  <2> DEFINE e(k) == IF k = 0 THEN first ELSE Then(Chosen[k - 1])
  <2> HIDE DEF Chosen
  <2>1. Chosen = [k \in 0 .. N |-> e(k)]
    BY <1>4
  <2> HIDE DEF e
  <2>2. DOMAIN [k \in 0 .. N |-> e(k)] = 0 .. N
    OBVIOUS
  <2> QED BY <2>1, <2>2, Zenon
<1>5. \A k \in 0 .. N : Chosen[k] = IF k = 0 THEN first ELSE Then(Chosen[k - 1])
  <2> HIDE DEF Chosen
  <2> DEFINE e(k) == IF k = 0 THEN first ELSE Then(Chosen[k - 1])
  <2>1. Chosen = [k \in 0 .. N |-> e(k)]
    BY <1>4
  <2>2. \A k \in 0 .. N : Chosen[k] = e(k)
    <3> HIDE DEF e
    <3>1. \A k \in 0 .. N : [j \in 0 .. N |-> e(j)][k] = e(k)
      OBVIOUS
    <3> QED BY <2>1, <3>1, Zenon
  <2> QED BY <2>2
<1> HIDE DEF Chosen
<1>6. Chosen[0] = first /\ \A n \in 1 .. N : Chosen[n] = Then(Chosen[n - 1])
  BY <1>1, <1>5
<1>7. Unfolds(options, active, readers, Chosen)
  BY <1>1, <1>2, <1>d, <1>e, <1>6 DEF Unfolds, first, Then
<1> QED BY <1>7

(* A compare that is not cancelled before its last turn is not aborted.    *)
LEMMA Uncancelled ==
    ASSUME NEW options, NEW active, NEW readers, Turns(readers) \in Nat,
           NEW cancel \in Nat, cancel > Turns(readers)
    PROVE  ~ Aborts(options, active, readers, cancel)
<1>1. PICK f : Loop(options, active, readers) = f /\ DOMAIN f = 0 .. Turns(readers)
  BY RunSteps, Zenon DEF Unfolds
<1>2. \A n \in 0 .. Turns(readers) : ~ (n >= cancel)
  OBVIOUS
<1> QED BY <1>1, <1>2, Zenon DEF Aborts

(* A state of the loop with no more code points than after n turns         *)
Within(options, active, s, readers, left) ==
    /\ Looping(active, s)
    /\ \A i \in Sides : s.readers[i].failing = readers[i].failing
    /\ s.ended => Over(options, active, s)
    /\ ~ s.ended => Work(s) <= left

(* A reader before the comparison, and one of a side that takes no part    *)
Unopened(r) == Readable(r) /\ r.hold = TRUE /\ r.ahead = <<>>
Idle(r) == r.kind = "start" /\ r.unread = <<>> /\ r.width = 0

(* The last state of the loop                                              *)
Finished(options, active, s, readers) ==
    /\ Looping(active, s) /\ s.ended = TRUE /\ Over(options, active, s)
    /\ \A i \in Sides : s.readers[i].failing = readers[i].failing

(* A state of the loop on its way                                          *)
Going(active, s, readers) ==
    Looping(active, s) /\ \A i \in Sides : s.readers[i].failing = readers[i].failing

(* The loop ends within its bound, having read both files unless it may    *)
(* stop.                                                                   *)
LEMMA LoopIs ==
    ASSUME LookAhead \in Nat \ {0}, Chunk \in Nat \ {0},
           NEW options, NEW active \in SUBSET Sides, NEW readers,
           \A i \in Sides : Unopened(readers[i]),
           \A i \in Sides \ active : Idle(readers[i])
    PROVE  \E f : /\ Unfolds(options, active, readers, f)
                  /\ Turns(readers) \in Nat
                  /\ \A n \in 0 .. Turns(readers) : Going(active, f[n], readers)
                  /\ Finished(options, active, f[Turns(readers)], readers)
<1> DEFINE N == Len(readers[1].unread) + Len(readers[2].unread)
           first == [readers |-> readers, equal |-> TRUE, ended |-> FALSE]
<1>1. 1 \in Sides /\ 2 \in Sides
  BY DEF Sides
<1>2. \A i \in Sides : Len(readers[i].unread) \in Nat /\ IsSeq(readers[i].unread)
  BY SeqIs DEF Unopened, Readable, Stored
<1>3. N \in Nat /\ N + 1 \in Nat
  <2> DEFINE a == Len(readers[1].unread)
             b == Len(readers[2].unread)
  <2>1. a \in Nat /\ b \in Nat
    BY <1>1, <1>2
  <2> HIDE DEF a, b
  <2>2. a + b \in Nat /\ a + b + 1 \in Nat
    BY <2>1
  <2> QED BY <2>2 DEF a, b
<1>n. N + 1 = Turns(readers) /\ Turns(readers) \in Nat
  BY <1>3 DEF Turns
<1>4. PICK f : /\ Unfolds(options, active, readers, f)
               /\ f[0] = first
               /\ \A n \in 1 .. N + 1 :
                     f[n] = IF f[n - 1].ended THEN f[n - 1] ELSE Step(options, active, f[n - 1])
  <2>1. N + 1 = Turns(readers) /\ Turns(readers) \in Nat
    BY <1>n
  <2> HIDE DEF N
  <2>2. PICK f : Unfolds(options, active, readers, f)
    BY <2>1, RunSteps, Zenon
  <2> QED BY <2>1, <2>2, Zenon DEF Unfolds, first
<1> DEFINE Good(n) == Within(options, active, f[n], readers, N - n)
<1>5. Good(0)
  <2>1. first.readers = readers /\ first.equal = TRUE /\ first.ended = FALSE
        /\ first = [readers |-> first.readers, equal |-> first.equal, ended |-> first.ended]
    OBVIOUS
  <2> HIDE DEF first
  <2>2. Len(<<>>) = 0
    OBVIOUS
  <2>3. \A i \in Sides : Left(readers[i]) = Len(readers[i].unread)
    <3> SUFFICES ASSUME NEW i \in Sides PROVE Left(readers[i]) = Len(readers[i].unread)
      OBVIOUS
    <3> DEFINE l == Len(readers[i].unread)
    <3>1. l \in Nat /\ Len(readers[i].ahead) = 0
      BY <1>2, <2>2 DEF Unopened
    <3>2. Left(readers[i]) = 0 + l
      BY <3>1 DEF Left
    <3> HIDE DEF l
    <3>3. 0 + l = l
      BY <3>1
    <3> QED BY <3>2, <3>3 DEF l
  <2>4. \A i \in Sides : Rest(readers[i]) = Len(readers[i].unread)
    BY <2>3, RestIs DEF Unopened
  <2>5. Work(first) = N
    BY <1>1, <2>1, <2>4 DEF Work
  <2>6. \A i \in Sides \ active : Left(readers[i]) = 0
    BY <2>2, <2>3 DEF Idle
  <2>7. Looping(active, first)
    BY <2>1, <2>6 DEF Looping, Unopened, Idle
  <2> HIDE DEF N
  <2>8. Work(first) <= N - 0
    BY <1>3, <2>5
  <2> QED BY <1>4, <2>1, <2>7, <2>8 DEF Within
<1>6. ASSUME NEW n \in 1 .. N + 1, Good(n - 1) PROVE Good(n)
  <2> DEFINE s == f[n - 1]
  <2>1. /\ Looping(active, s) /\ (\A i \in Sides : s.readers[i].failing = readers[i].failing)
        /\ (s.ended => Over(options, active, s)) /\ (~ s.ended => Work(s) <= N - (n - 1))
    BY <1>6 DEF Within
  <2>2. f[n] = IF s.ended THEN s ELSE Step(options, active, s)
    BY <1>4
  <2> HIDE DEF s, N
  <2>3. CASE s.ended
    BY <2>1, <2>2, <2>3 DEF Within
  <2>4. CASE ~ s.ended
    <3> DEFINE t == Step(options, active, s)
    <3>1. /\ Looping(active, t) /\ SameFaults(t, s)
          /\ Work(s) \in Nat /\ Work(t) \in Nat
          /\ ~ t.ended => Work(t) < Work(s)
          /\ t.ended => Over(options, active, t)
      BY <2>1, StepIs
    <3>2. f[n] = t
      BY <2>2, <2>4
    <3> HIDE DEF t
    <3>3. ~ t.ended => Work(t) <= N - n
      BY <1>3, <2>1, <2>4, <3>1
    <3>4. \A i \in Sides : t.readers[i].failing = readers[i].failing
      BY <2>1, <3>1 DEF SameFaults
    <3> QED BY <3>1, <3>2, <3>3, <3>4 DEF Within
  <2> QED BY <2>3, <2>4
<1> HIDE DEF Good
<1>g. \A n \in 0 .. N + 1 : Good(n)
  <2> HIDE DEF N
  <2> DEFINE G == {n \in 0 .. N + 1 : Good(n)}
  <2>1. 0 \in G
    BY <1>3, <1>5
  <2>2. \A n \in 1 .. N + 1 : n - 1 \in G => n \in G
    BY <1>3, <1>6
  <2>3. \A n \in 0 .. N + 1 : n \in G
    <3> HIDE DEF G
    <3> QED BY <1>3, <2>1, <2>2, Upto
  <2> QED BY <2>3
<1>7. Good(N + 1)
  <2> HIDE DEF N
  <2>1. N + 1 \in 0 .. N + 1
    BY <1>3
  <2> QED BY <1>g, <2>1
<1>h. \A n \in 0 .. N + 1 : Going(active, f[n], readers)
  <2> HIDE DEF N
  <2> QED BY <1>g DEF Good, Within, Going
<1>8. f[N + 1].ended
  <2> DEFINE s == f[N + 1]
  <2>1. Looping(active, s) /\ (~ s.ended => Work(s) <= N - (N + 1))
    BY <1>7 DEF Good, Within
  <2>2. Work(s) \in Nat
    BY <2>1, StepIs
  <2> HIDE DEF s, N
  <2>3. s.ended
    BY <1>3, <2>1, <2>2
  <2> QED BY <2>3 DEF s
<1> DEFINE e == f[N + 1]
<1>9. /\ Looping(active, e) /\ Over(options, active, e)
      /\ \A i \in Sides : e.readers[i].failing = readers[i].failing
  BY <1>7, <1>8 DEF Good, Within
<1>10. e.ended = TRUE
  BY <1>8, <1>9 DEF Looping
<1> HIDE DEF e
<1>11. Finished(options, active, e, readers)
  BY <1>9, <1>10 DEF Finished
<1>12. f[Turns(readers)] = e
  BY <1>n DEF e
<1> HIDE DEF N
<1> QED BY <1>n, <1>4, <1>h, <1>11, <1>12

(* So does the run.                                                        *)
LEMMA RunIs ==
    ASSUME LookAhead \in Nat \ {0}, Chunk \in Nat \ {0},
           NEW options, NEW active \in SUBSET Sides, NEW readers,
           \A i \in Sides : Unopened(readers[i]),
           \A i \in Sides \ active : Idle(readers[i])
    PROVE  Finished(options, active, Run(options, active, readers), readers)
<1>1. PICK f : /\ Unfolds(options, active, readers, f)
               /\ Finished(options, active, f[Turns(readers)], readers)
  BY LoopIs, Zenon
<1> QED BY <1>1, Zenon DEF Unfolds

-----------------------------------------------------------------------------
(* The texts that are compared *)

(* The text that is left once the next turn begins                         *)
After(r) == Text(Advance(r))

(* A reader at its next code point                                         *)
At(k) ==
    /\ Readable(k) /\ k.hold = FALSE /\ k.kind \in Kinds
    /\ k.width = (IF k.kind = "eof" THEN 0 ELSE IF k.kind = "crlf" THEN 2 ELSE 1)
    /\ k.kind = "eof" <=> k.ahead = <<>>
    /\ k.kind # "eof" =>
          /\ k.c = k.ahead[1]
          /\ k.kind = "blank" <=> k.c = " "
          /\ k.kind = "lf" <=> k.c = "\n"
          /\ k.kind \in {"cr", "crlf"} <=> k.c = "\r"
          /\ k.kind = "crlf" <=> k.c = "\r" /\ Len(k.ahead) > 1 /\ k.ahead[2] = "\n"

(* Where a reader is after Classify.                                       *)
LEMMA AtIs ==
    ASSUME NEW r, Stored(r)
    PROVE  At(Classify(r))
<1> DEFINE k == Classify(r)
<1>1. /\ Readable(k) /\ ~ k.hold /\ k.kind = KindOf(r) /\ k.kind \in Kinds
      /\ k.ahead = r.ahead
      /\ k.width = (IF k.kind = "eof" THEN 0 ELSE IF k.kind = "crlf" THEN 2 ELSE 1)
      /\ (k.kind = "eof" <=> k.ahead = <<>>)
      /\ k.kind # "eof" => k.c = k.ahead[1]
  BY ClassifyIs
<1> HIDE DEF k
<1>2. k.hold = FALSE
  BY <1>1 DEF Readable
<1>3. ASSUME k.kind # "eof"
      PROVE  /\ k.kind = "blank" <=> k.c = " "
             /\ k.kind = "lf" <=> k.c = "\n"
             /\ k.kind \in {"cr", "crlf"} <=> k.c = "\r"
             /\ k.kind = "crlf" <=> k.c = "\r" /\ Len(k.ahead) > 1 /\ k.ahead[2] = "\n"
  <2>1. k.c = r.ahead[1] /\ r.ahead # <<>> /\ k.ahead = r.ahead
    BY <1>1, <1>3
  <2> QED BY <2>1, <1>1 DEF KindOf
<1> QED BY <1>1, <1>2, <1>3 DEF At, k

(* While the reading goes on, the text that is left is what the next code   *)
(* points are taken from.                                                  *)
LEMMA NextTextIs ==
    ASSUME LookAhead \in Nat \ {0}, Chunk \in Nat \ {0},
           NEW options, NEW r, Readable(r), NEW diff \in BOOLEAN,
           ~ StopsReading(options, diff)
    PROVE  LET k == Classify(Refill(options, Advance(r), diff))
           IN  /\ At(k) /\ Text(k) = After(r) /\ Left(k) = Rest(r)
               /\ k.failing = r.failing /\ (k.kind = "eof" => Drained(k))
<1> DEFINE a == Advance(r)
           f == Refill(options, a, diff)
           k == Classify(f)
<1>1. Stored(a) /\ a.failing = r.failing /\ Left(a) = Rest(r) /\ After(r) = Text(a)
  BY AdvanceIs DEF After
<1> HIDE DEF a
<1>2. Stored(f) /\ f.failing = a.failing /\ Text(f) = Text(a) /\ (f.ahead = <<>> => Drained(f))
  BY <1>1, RefillIs
<1> HIDE DEF f
<1>3. At(k)
  BY <1>2, AtIs
<1>4. k.ahead = f.ahead /\ k.unread = f.unread /\ k.failing = f.failing /\ k.failed = f.failed
  BY <1>2, ClassifyIs
<1> HIDE DEF k
<1>5. Text(k) = Text(f) /\ (Drained(f) => Drained(k))
  BY <1>4 DEF Text, Drained
<1>6. k.kind = "eof" => Drained(k)
  BY <1>2, <1>3, <1>4, <1>5 DEF At
<1>7. Left(k) = Left(a)
  <2>1. \A x : Stored(x) => Left(x) = Len(Text(x))
    BY ConcatIs DEF Stored, Left, Text, Join
  <2>2. Stored(k)
    BY <1>3 DEF At, Readable
  <2> QED BY <2>1, <2>2, <1>1, <1>2, <1>5
<1> QED BY <1>1, <1>2, <1>3, <1>4, <1>5, <1>6, <1>7 DEF a, f, k

(* What a reader goes past                                                 *)
Taken(k) == SubSeq(k.ahead, 1, k.width)

(* What a reader goes past, and what is left, make up its text.            *)
LEMMA AfterIs ==
    ASSUME NEW k, Readable(k), k.hold = FALSE
    PROVE  /\ IsSeq(After(k)) /\ IsSeq(Taken(k)) /\ Len(Taken(k)) = k.width
           /\ \A i \in 1 .. k.width : Taken(k)[i] = k.ahead[i]
           /\ Text(k) = Join(Taken(k), After(k))
           /\ Rest(k) \in Nat
<1> DEFINE a == Advance(k)
           s == SubSeq(k.ahead, k.width + 1, Len(k.ahead))
           t == Taken(k)
<1>1. Stored(a) /\ a.ahead = s /\ a.unread = k.unread /\ Rest(k) \in Nat
  BY AdvanceIs
<1> HIDE DEF a
<1>2. Stored(k) /\ k.width \in Nat /\ k.width <= Len(k.ahead) /\ IsSeq(k.ahead) /\ Len(k.ahead) \in Nat
      /\ IsSeq(k.unread)
  BY SeqIs DEF Readable, Stored
<1>3. k.width \in 0 .. Len(k.ahead)
  BY <1>2
<1>4. IsSeq(t) /\ Len(t) = k.width /\ IsSeq(s) /\ t \o s = k.ahead
      /\ \A i \in 1 .. k.width : t[i] = k.ahead[i]
  BY <1>2, <1>3, CutIs DEF Taken
<1> HIDE DEF s, t
<1>5. IsSeq(s \o k.unread)
  BY <1>2, <1>4, ConcatIs
<1>6. After(k) = Join(s, k.unread)
  BY <1>1 DEF After, Text, a
<1>7. Join(Join(t, s), k.unread) = Join(t, Join(s, k.unread))
  BY <1>2, <1>4, JoinAcross
<1>8. Text(k) = Join(t, After(k))
  BY <1>4, <1>6, <1>7 DEF Text, Join
<1> QED BY <1>1, <1>4, <1>5, <1>6, <1>8 DEF t, Join

(* What follows the same is the same.                                      *)
LEMMA JoinCancels ==
    ASSUME NEW s, NEW t, NEW u, IsSeq(s), IsSeq(t), IsSeq(u), Join(s, t) = Join(s, u)
    PROVE  t = u
<1> DEFINE l == Len(s)
           m == Len(t)
           n == Len(u)
           a == s \o t
           b == s \o u
<1>1. l \in Nat /\ m \in Nat /\ n \in Nat
  BY SeqIs
<1>2. Len(a) = l + m /\ \A i \in 1 .. l + m : a[i] = IF i <= l THEN s[i] ELSE t[i - l]
  BY ConcatIs
<1>3. Len(b) = l + n /\ \A i \in 1 .. l + n : b[i] = IF i <= l THEN s[i] ELSE u[i - l]
  BY ConcatIs
<1>4. a = b
  BY DEF Join
<1> HIDE DEF a, b, l, m, n
<1>5. m = n
  BY <1>1, <1>2, <1>3, <1>4
<1>6. ASSUME NEW i \in 1 .. m PROVE t[i] = u[i]
  <2>1. l + i \in 1 .. l + m /\ l + i \in 1 .. l + n /\ ~ (l + i <= l) /\ (l + i) - l = i
    BY <1>1, <1>5
  <2>2. a[l + i] = t[(l + i) - l] /\ b[l + i] = u[(l + i) - l]
    BY <2>1, <1>2, <1>3
  <2> QED BY <2>1, <2>2, <1>4
<1> QED BY <1>5, <1>6, SameSeq DEF m, n

(* A text is at its end when no code point is left.                        *)
LEMMA EndIs ==
    ASSUME NEW k, At(k), ~ k.failing, k.kind = "eof" => Drained(k)
    PROVE  /\ k.kind = "eof" <=> Left(k) = 0
           /\ k.kind = "eof" => After(k) = <<>>
<1>1. IsSeq(k.ahead) /\ IsSeq(k.unread) /\ Len(k.ahead) \in Nat /\ Len(k.unread) \in Nat
  BY SeqIs DEF At, Readable, Stored
<1>2. IsSeq(<<>>) /\ Len(<<>>) = 0
  BY EmptyIs
<1>3. k.kind = "eof" => k.ahead = <<>> /\ k.unread = <<>>
  BY DEF At, Drained
<1>4. k.kind = "eof" => Left(k) = 0
  <2>1. k.kind = "eof" => Left(k) = Len(<<>>) + Len(<<>>)
    BY <1>3, Zenon DEF Left
  <2> QED BY <1>2, <2>1
<1>5. Left(k) = 0 => k.kind = "eof"
  <2>1. Left(k) = 0 => Len(k.ahead) = 0
    <3> DEFINE l == Len(k.ahead)
               u == Len(k.unread)
    <3>1. Left(k) = l + u /\ l \in Nat /\ u \in Nat
      BY <1>1 DEF Left
    <3> HIDE DEF l, u
    <3>2. Left(k) = 0 => l = 0
      BY <3>1
    <3> QED BY <3>2 DEF l
  <2>2. Len(k.ahead) = 0 => k.ahead = <<>>
    BY <1>1, SeqIs
  <2> QED BY <2>1, <2>2 DEF At
<1>6. ASSUME k.kind = "eof" PROVE After(k) = <<>>
  <2> DEFINE a == After(k)
  <2>1. IsSeq(a) /\ IsSeq(Taken(k)) /\ Len(Taken(k)) = 0 /\ Text(k) = Taken(k) \o a
    BY <1>6, AfterIs DEF At, Join
  <2> HIDE DEF a
  <2>2. Text(k) = <<>> \o <<>>
    BY <1>3, <1>6 DEF Text, Join
  <2>3. Len(Taken(k) \o a) = 0 + Len(a)
    BY <2>1, ConcatIs
  <2>4. Len(<<>> \o <<>>) = 0
    BY <1>2, ConcatIs
  <2>5. Len(a) \in Nat
    BY <2>1, SeqIs
  <2>6. Len(a) = 0
    BY <2>1, <2>2, <2>3, <2>4, <2>5
  <2>7. a = <<>>
    BY <2>1, <2>6, SeqIs
  <2> QED BY <2>7 DEF a
<1> QED BY <1>4, <1>5, <1>6

-----------------------------------------------------------------------------
(* Files that are compared in step *)

(* Two readers with the same in memory and on disk                         *)
Alike(a, b) ==
    a.ahead = b.ahead /\ a.unread = b.unread /\ a.full = b.full /\ a.failing = b.failing

(* The code points a call of ReadFile brings                               *)
Brought(r) == IF Fails(r) THEN 0 ELSE IF Len(r.unread) < Chunk THEN Len(r.unread) ELSE Chunk

Reads(r) == IsShort(r) /\ r.full

(* What a refill does, when the reading does not stop                      *)
Refilled(f, r) ==
    LET n == Brought(r)
    IN  /\ f.ahead = IF Reads(r) THEN r.ahead \o SubSeq(r.unread, 1, n) ELSE r.ahead
        /\ f.unread = IF Reads(r) THEN SubSeq(r.unread, n + 1, Len(r.unread)) ELSE r.unread
        /\ f.full = IF Reads(r) THEN n = Chunk ELSE r.full
        /\ f.failing = r.failing

(* A refill is one.                                                        *)
LEMMA RefilledIs ==
    ASSUME NEW options, NEW r, Stored(r), NEW diff, ~ StopsReading(options, diff)
    PROVE  Refilled(Refill(options, r, diff), r)
<1> DEFINE f == Refill(options, r, diff)
           n == Brought(r)
           s == r.ahead \o SubSeq(r.unread, 1, n)
           t == SubSeq(r.unread, n + 1, Len(r.unread))
<1>1. Shape(r) /\ r.full \in BOOLEAN
  BY DEF Stored
<1>2. CASE ~ Reads(r)
  <2>1. f = r
    BY <1>2 DEF Reads, Refill
  <2> HIDE DEF f
  <2> QED BY <1>2, <2>1, Zenon DEF Refilled, f
<1>3. CASE Reads(r)
  <2>1. f = [r EXCEPT !.ahead = s, !.unread = t, !.full = n = Chunk, !.failed = @ \/ Fails(r)]
    BY <1>1, <1>3, Zenon DEF Reads, Refill, ReadFile, Brought, Shape
  <2> HIDE DEF n, s, t
  <2>2. f = [unread |-> t, ahead |-> s, full |-> (n = Chunk), failing |-> r.failing,
             failed |-> r.failed \/ Fails(r), c |-> r.c, kind |-> r.kind, prev |-> r.prev,
             width |-> r.width, hold |-> r.hold, counter |-> r.counter, stats |-> r.stats]
    BY <1>1, <2>1 DEF Shape
  <2> HIDE DEF f
  <2>3. f.ahead = s /\ f.unread = t /\ f.failing = r.failing
    BY <2>2
  <2>4. f.full = (n = Chunk)
    BY <2>2, Zenon
  <2>5. Refilled(f, r)
    BY <1>3, <2>3, <2>4, Zenon DEF n, s, t, Refilled
  <2> QED BY <2>5 DEF f
<1> QED BY <1>2, <1>3

(* Readers in step are in step at their next code points.                  *)
LEMMA NextAlike ==
    ASSUME LookAhead \in Nat \ {0}, Chunk \in Nat \ {0},
           NEW options, NEW r, NEW q, Readable(r), Readable(q), NEW diff \in BOOLEAN,
           ~ StopsReading(options, diff), Alike(Advance(r), Advance(q))
    PROVE  Alike(Classify(Refill(options, Advance(r), diff)),
                 Classify(Refill(options, Advance(q), diff)))
<1> DEFINE a == Advance(r)
           b == Advance(q)
           f == Refill(options, a, diff)
           g == Refill(options, b, diff)
<1>1. Stored(a) /\ Stored(b) /\ Alike(a, b)
  BY AdvanceIs
<1> HIDE DEF a, b
<1>2. Reads(a) = Reads(b) /\ Brought(a) = Brought(b)
  BY <1>1 DEF Alike, Reads, IsShort, Brought, Fails
<1>3. Refilled(f, a)
  BY <1>1, RefilledIs, Zenon
<1>4. Refilled(g, b)
  BY <1>1, RefilledIs, Zenon
<1>5. Stored(f) /\ Stored(g)
  BY <1>1, RefillIs
<1> HIDE DEF f, g
<1>6. Alike(f, g)
  BY <1>1, <1>2, <1>3, <1>4, Zenon DEF Alike, Refilled
<1>7. Alike(Classify(f), Classify(g))
  BY <1>5, <1>6, ClassifyIs DEF Alike
<1> QED BY <1>7 DEF f, g, a, b

(* At the same code points the kinds are the same, a lead byte apart.      *)
LEMMA KindsAlike ==
    ASSUME NEW k, NEW l, At(k), At(l), k.ahead = l.ahead
    PROVE  /\ k.kind = l.kind \/ (k.kind \in {"neither", "lead"} /\ l.kind \in {"neither", "lead"})
           /\ k.width = l.width
           /\ k.kind # "eof" => k.c = l.c
<1>1. k.kind \in Kinds /\ l.kind \in Kinds /\ (k.kind = "eof" <=> l.kind = "eof")
  BY DEF At
<1>2. CASE k.kind = "eof"
  <2>1. l.kind = "eof" /\ k.width = 0 /\ l.width = 0
    BY <1>1, <1>2 DEF At
  <2> QED BY <1>2, <2>1
<1>3. CASE k.kind # "eof"
  <2>1. k.c = l.c
    BY <1>1, <1>3 DEF At
  <2>2. /\ k.kind = "blank" <=> l.kind = "blank"
        /\ k.kind = "lf" <=> l.kind = "lf"
        /\ k.kind \in {"cr", "crlf"} <=> l.kind \in {"cr", "crlf"}
        /\ k.kind = "crlf" <=> l.kind = "crlf"
    BY <1>1, <1>3, <2>1 DEF At
  <2>3. k.kind = l.kind \/ (k.kind \in {"neither", "lead"} /\ l.kind \in {"neither", "lead"})
    <3> DEFINE x == k.kind
               y == l.kind
    <3>1. /\ x \in Kinds /\ y \in Kinds /\ x # "eof" /\ y # "eof"
          /\ (x = "blank" <=> y = "blank") /\ (x = "lf" <=> y = "lf")
          /\ (x \in {"cr", "crlf"} <=> y \in {"cr", "crlf"}) /\ (x = "crlf" <=> y = "crlf")
      BY <1>1, <1>3, <2>2
    <3> HIDE DEF x, y
    <3>2. x = y \/ (x \in {"neither", "lead"} /\ y \in {"neither", "lead"})
      BY <3>1 DEF Kinds
    <3> QED BY <3>2 DEF x, y
  <2>4. k.width = l.width
    <3>1. /\ k.width = (IF k.kind = "eof" THEN 0 ELSE IF k.kind = "crlf" THEN 2 ELSE 1)
          /\ l.width = (IF l.kind = "eof" THEN 0 ELSE IF l.kind = "crlf" THEN 2 ELSE 1)
      BY DEF At
    <3>2. (k.kind = "eof" <=> l.kind = "eof") /\ (k.kind = "crlf" <=> l.kind = "crlf")
      BY <1>1, <2>2
    <3> QED BY <3>1, <3>2
  <2> QED BY <2>1, <2>3, <2>4
<1> QED BY <1>2, <1>3

(* Two readers at their code points                                        *)
Met(p) ==
    /\ Ready(p) /\ At(p[1]) /\ At(p[2])
    /\ p[1].kind # "eof" /\ p[2].kind # "eof"

(* At the same code points a turn finds no difference and neither waits.   *)
LEMMA TurnAlike ==
    ASSUME NEW options, NEW p, Met(p), p[1].ahead = p[2].ahead, ~ options.bIgnoreBlankLines
    PROVE  LET t == Turn(options, p)
           IN  /\ t.equal = TRUE
               /\ \A i \in Sides : Still(t.readers[i], p[i]) /\ t.readers[i].hold = FALSE
<1>1. /\ \/ p[1].kind = p[2].kind
         \/ p[1].kind \in {"neither", "lead"} /\ p[2].kind \in {"neither", "lead"}
      /\ p[1].c = p[2].c
  BY KindsAlike DEF Met
<1>2. SameCodePoint(options, p)
  BY <1>1 DEF SameCodePoint
<1>3. p[1].kind \in Kinds \ {"eof"} /\ p[2].kind \in Kinds \ {"eof"}
  BY DEF Met, At
<1> DEFINE Good(t) == /\ t.equal = TRUE
                      /\ \A i \in Sides : Still(t.readers[i], p[i]) /\ t.readers[i].hold = FALSE
<1>4. Good(Both(p))
  <2>1. \A i \in Sides : i = 1 \/ i = 2
    BY DEF Sides
  <2>2. \A i \in Sides : Still(p[i], p[i]) /\ p[i].hold = FALSE
    BY <2>1 DEF Met, Ready, Still, At
  <2> QED BY <2>2 DEF Both
<1>5. ASSUME p[1].kind = "blank" PROVE Good(CompareBlank(options, p))
  <2>1. p[1].kind = p[2].kind
    BY <1>1, <1>5
  <2>2. CASE options.nIgnoreWhitespace = "none"
    <3>1. CompareBlank(options, p) = Both(p)
      BY <1>2, <2>2 DEF CompareBlank
    <3> HIDE DEF Good
    <3> QED BY <1>4, <3>1
  <2>3. CASE options.nIgnoreWhitespace \notin {"none", "all"}
    <3>1. CompareBlank(options, p) = Both(p)
      BY <2>1, <2>3 DEF CompareBlank
    <3> HIDE DEF Good
    <3> QED BY <1>4, <3>1
  <2>4. CASE options.nIgnoreWhitespace = "all"
    <3> DEFINE q == [i \in Sides |-> [p[i] EXCEPT !.prev = "blank"]]
    <3>1. CompareBlank(options, p) = Both(q)
      BY <2>1, <2>4 DEF CompareBlank
    <3>2. \A i \in Sides : q[i] = [p[i] EXCEPT !.prev = "blank"]
      OBVIOUS
    <3> HIDE DEF q
    <3>3. \A i \in Sides : Still(q[i], p[i]) /\ q[i].hold = FALSE
      <4> SUFFICES ASSUME NEW i \in Sides PROVE Still(q[i], p[i]) /\ q[i].hold = FALSE
        OBVIOUS
      <4>1. Readable(p[i]) /\ p[i].hold = FALSE
        BY DEF Met, Ready, At, Sides
      <4>2. LET t == [p[i] EXCEPT !.prev = "blank"] IN Still(t, p[i]) /\ t.hold = p[i].hold
        BY <4>1, PrevSet, Zenon
      <4> QED BY <3>2, <4>1, <4>2, Zenon
    <3>4. Both(q).equal = TRUE /\ Both(q).readers = q
      BY DEF Both
    <3> QED BY <3>1, <3>3, <3>4
  <2> QED BY <2>2, <2>3, <2>4
<1>6. \/ Turn(options, p) = Both(p)
      \/ p[1].kind = "blank" /\ Turn(options, p) = CompareBlank(options, p)
  BY <1>1, <1>2, <1>3 DEF Turn, Kinds, LineBreaks, CompareCodePoints
<1>7. Good(Turn(options, p))
  <2> HIDE DEF Good
  <2> QED BY <1>4, <1>5, <1>6
<1> QED BY <1>7

(* With nothing ignored neither side waits, and a turn that finds no        *)
(* difference goes past the same.                                          *)
LEMMA TurnPlain ==
    ASSUME NEW options, NEW p, Met(p), ~ AnyIgnored(options)
    PROVE  LET t == Turn(options, p)
           IN  /\ t.equal \in BOOLEAN
               /\ t.equal => t.readers = p /\ Taken(p[1]) = Taken(p[2])
<1> DEFINE differ == p[1].kind \in LineBreaks /\ p[2].kind \in LineBreaks /\ p[1].kind # p[2].kind
           t == Turn(options, p)
<1>1. /\ options.nIgnoreWhitespace = "none" /\ ~ options.bIgnoreCase
      /\ ~ options.bIgnoreBlankLines /\ ~ options.bIgnoreEol
  BY DEF AnyIgnored
<1>2. p[1].kind \in Kinds \ {"eof"} /\ p[2].kind \in Kinds \ {"eof"}
  BY DEF Met, At
<1>3. SameCodePoint(options, p) <=> p[1].c = p[2].c
  BY <1>1 DEF SameCodePoint
<1>4. CompareBlank(options, p) = IF SameCodePoint(options, p) THEN Both(p) ELSE Differ(p)
  BY <1>1 DEF CompareBlank
<1>5. t = IF differ THEN Differ(ForceEqualness(options, p))
          ELSE IF SameCodePoint(options, p) THEN Both(p) ELSE Differ(p)
  <2> DEFINE same == SameCodePoint(options, p)
             q == ForceEqualness(options, p)
  <2>0. CompareCodePoints(options, q) = Differ(q)
    <3>1. q = [p EXCEPT ![1].c = "1", ![2].c = "0"]
      BY <1>1 DEF ForceEqualness
    <3>2. q[1].c = "1" /\ q[2].c = "0"
      <4>1. 1 \in DOMAIN p /\ 2 \in DOMAIN p
        BY DEF Met, Ready, Pair, Sides
      <4>2. q[1] = [p[1] EXCEPT !.c = "1"] /\ q[2] = [p[2] EXCEPT !.c = "0"]
        <5> HIDE DEF q
        <5> QED BY <3>1, <4>1
      <4>3. Shape(p[1]) /\ Shape(p[2])
        BY DEF Met, Ready, Readable, Stored, Sides
      <4>4. "c" \in DOMAIN p[1] /\ "c" \in DOMAIN p[2]
        BY <4>3 DEF Shape
      <4> HIDE DEF q
      <4> QED BY <4>2, <4>4
    <3> HIDE DEF q
    <3>3. ~ SameCodePoint(options, q)
      BY <1>1, <3>2 DEF SameCodePoint
    <3> QED BY <3>3 DEF CompareCodePoints
  <2> HIDE DEF same, q
  <2>1. CompareBlank(options, p) = IF same THEN Both(p) ELSE Differ(p)
    BY <1>4 DEF same
  <2>p. CompareCodePoints(options, p) = IF same THEN Both(p) ELSE Differ(p)
    BY DEF CompareCodePoints, same
  <2>2. t = IF differ THEN CompareCodePoints(options, q)
            ELSE IF same THEN Both(p) ELSE Differ(p)
    BY <1>1, <1>2, <2>1, <2>p DEF Turn, Kinds, LineBreaks, q
  <2> QED BY <2>0, <2>2 DEF same, q
<1> HIDE DEF t
<1>6. /\ t.equal <=> SameCodePoint(options, p) /\ ~ differ
      /\ t.equal \in BOOLEAN /\ (t.equal => t.readers = p)
  <2> HIDE DEF differ
  <2> QED BY <1>5 DEF Both, Differ
<1>7. ASSUME t.equal PROVE Taken(p[1]) = Taken(p[2])
  <2>1. p[1].c = p[2].c /\ ~ differ
    BY <1>3, <1>6, <1>7
  <2>2. p[1].width = p[2].width /\ (p[1].kind = "crlf" <=> p[2].kind = "crlf")
    <3>1. p[1].kind \in {"cr", "crlf"} <=> p[2].kind \in {"cr", "crlf"}
      BY <2>1 DEF Met, At
    <3>2. p[1].kind = "crlf" <=> p[2].kind = "crlf"
      BY <2>1, <3>1 DEF LineBreaks
    <3> QED BY <3>2 DEF Met, At
  <2>3. \A k : At(k) => /\ IsSeq(Taken(k)) /\ Len(Taken(k)) = k.width
                         /\ \A j \in 1 .. k.width : Taken(k)[j] = k.ahead[j]
    BY AfterIs DEF At
  <2>4. p[1].ahead[1] = p[2].ahead[1]
    BY <2>1 DEF Met, At
  <2>5. p[1].kind = "crlf" => p[1].ahead[2] = p[2].ahead[2]
    BY <2>2 DEF Met, At
  <2>6. p[1].width = (IF p[1].kind = "crlf" THEN 2 ELSE 1)
    BY DEF Met, At
  <2>7. \A j \in 1 .. p[1].width : p[1].ahead[j] = p[2].ahead[j]
    BY <2>4, <2>5, <2>6
  <2>8. \A j \in 1 .. p[1].width : Taken(p[1])[j] = Taken(p[2])[j]
    BY <2>2, <2>3, <2>7 DEF Met
  <2> QED BY <2>2, <2>3, <2>8, SameSeq DEF Met
<1> QED BY <1>6, <1>7 DEF t

(* The two readers at their next code points                               *)
Meeting(options, s) ==
    [i \in Sides |-> Classify(Refill(options, Advance(s.readers[i]), ~ s.equal))]

(* A turn of the loop on two files                                         *)
LEMMA StepBoth ==
    ASSUME NEW options, NEW s
    PROVE  LET p == Meeting(options, s)
               turn == Turn(options, p)
               t == Step(options, Sides, s)
           IN  t = IF Ended(p) THEN [readers |-> p, equal |-> s.equal, ended |-> TRUE]
                   ELSE [readers |-> turn.readers, equal |-> s.equal /\ turn.equal, ended |-> FALSE]
<1> DEFINE Next(i) == Classify(Refill(options, Advance(s.readers[i]), ~ s.equal))
           p == [i \in Sides |-> IF i \in Sides THEN Next(i) ELSE s.readers[i]]
           turn == Turn(options, p)
<1>1. p = Meeting(options, s)
  <2> HIDE DEF Next
  <2>1. p = [i \in Sides |-> Next(i)]
    OBVIOUS
  <2> HIDE DEF p
  <2> QED BY <2>1, Zenon DEF Meeting, Next
<1>2. Step(options, Sides, s) =
          IF Ended(p) THEN [readers |-> p, equal |-> s.equal, ended |-> TRUE]
          ELSE [readers |-> turn.readers, equal |-> s.equal /\ turn.equal, ended |-> FALSE]
  BY DEF Step
<1> HIDE DEF p
<1> QED BY <1>1, <1>2, Zenon

(* A state of the loop on two readable files without a difference yet       *)
Level(s) ==
    /\ Looping(Sides, s) /\ s.equal = TRUE /\ s.ended = FALSE
    /\ \A i \in Sides : ~ s.readers[i].failing

(* Both readers come to their next code points, and nothing is lost.       *)
LEMMA MeetingIs ==
    ASSUME LookAhead \in Nat \ {0}, Chunk \in Nat \ {0},
           NEW options, NEW s, Level(s)
    PROVE  LET p == Meeting(options, s)
           IN  /\ Ready(p)
               /\ \A i \in Sides :
                     /\ At(p[i]) /\ Text(p[i]) = After(s.readers[i]) /\ Left(p[i]) = Rest(s.readers[i])
                     /\ ~ p[i].failing /\ (p[i].kind = "eof" => Drained(p[i]))
<1> DEFINE p == Meeting(options, s)
           diff == ~ s.equal
<1>1. /\ diff \in BOOLEAN /\ ~ StopsReading(options, diff)
      /\ \A i \in Sides : Readable(s.readers[i]) /\ ~ s.readers[i].failing
  BY DEF Level, Looping, StopsReading
<1>2. Pair(p) /\ \A i \in Sides : p[i] = Classify(Refill(options, Advance(s.readers[i]), diff))
  <2> HIDE DEF diff
  <2>1. p = [i \in Sides |-> Classify(Refill(options, Advance(s.readers[i]), diff))]
    BY Zenon DEF Meeting, diff
  <2> HIDE DEF p
  <2> QED BY <2>1 DEF Pair
<1> HIDE DEF p, diff
<1>3. ASSUME NEW i \in Sides
      PROVE  /\ At(p[i]) /\ Text(p[i]) = After(s.readers[i]) /\ Left(p[i]) = Rest(s.readers[i])
             /\ ~ p[i].failing /\ (p[i].kind = "eof" => Drained(p[i]))
  <2> DEFINE r == s.readers[i]
  <2>1. Readable(r) /\ ~ r.failing /\ p[i] = Classify(Refill(options, Advance(r), diff))
    BY <1>1, <1>2
  <2> HIDE DEF r
  <2>2. LET k == Classify(Refill(options, Advance(r), diff))
        IN  /\ At(k) /\ Text(k) = After(r) /\ Left(k) = Rest(r)
            /\ k.failing = r.failing /\ (k.kind = "eof" => Drained(k))
    BY <1>1, <2>1, NextTextIs, Zenon
  <2>3. /\ At(p[i]) /\ Text(p[i]) = After(r) /\ Left(p[i]) = Rest(r)
        /\ p[i].failing = r.failing /\ (p[i].kind = "eof" => Drained(p[i]))
    BY <2>1, <2>2, Zenon
  <2> QED BY <2>1, <2>3 DEF r
<1>4. Ready(p)
  BY <1>2, <1>3 DEF Ready, At
<1> QED BY <1>3, <1>4 DEF p

(* Both readers are in step, and no difference is found.                   *)
Together(s) ==
    /\ s.equal = TRUE
    /\ s.ended = FALSE => Alike(Advance(s.readers[1]), Advance(s.readers[2]))

(* A turn keeps the readers in step.                                       *)
LEMMA StepTogether ==
    ASSUME LookAhead \in Nat \ {0}, Chunk \in Nat \ {0},
           NEW options, ~ options.bIgnoreBlankLines,
           NEW s, Level(s), Together(s)
    PROVE  Together(Step(options, Sides, s))
<1> DEFINE p == Meeting(options, s)
           turn == Turn(options, p)
           t == Step(options, Sides, s)
<1>1. t = IF Ended(p) THEN [readers |-> p, equal |-> s.equal, ended |-> TRUE]
          ELSE [readers |-> turn.readers, equal |-> s.equal /\ turn.equal, ended |-> FALSE]
  BY StepBoth
<1>2. Ready(p) /\ At(p[1]) /\ At(p[2])
  BY MeetingIs DEF Sides
<1>3. Alike(p[1], p[2])
  <2> DEFINE diff == ~ s.equal
             r == s.readers[1]
             q == s.readers[2]
  <2>1. /\ diff \in BOOLEAN /\ ~ StopsReading(options, diff) /\ Readable(r) /\ Readable(q)
        /\ Alike(Advance(r), Advance(q))
    BY DEF Level, Looping, StopsReading, Sides, Together
  <2>2. p[1] = Classify(Refill(options, Advance(r), diff))
        /\ p[2] = Classify(Refill(options, Advance(q), diff))
    BY Zenon DEF Meeting, Sides
  <2> HIDE DEF diff, r, q, p
  <2>3. Alike(Classify(Refill(options, Advance(r), diff)), Classify(Refill(options, Advance(q), diff)))
    BY <2>1, NextAlike, Zenon
  <2> QED BY <2>2, <2>3, Zenon
<1>4. s.equal = TRUE
  BY DEF Level
<1> HIDE DEF p, t, turn
<1>5. CASE Ended(p)
  <2>1. t.equal = s.equal /\ t.ended = TRUE
    BY <1>1, <1>5, Zenon
  <2> QED BY <1>4, <2>1 DEF Together, t
<1>6. CASE ~ Ended(p)
  <2>1. p[1].kind \in Kinds /\ p[2].kind \in Kinds /\ (p[1].kind = "eof" <=> p[2].kind = "eof")
    BY <1>2, <1>3 DEF At, Alike
  <2>2. p[1].kind # "eof" /\ p[2].kind # "eof"
    BY <1>6, <2>1 DEF Ended, Kinds, Sides
  <2>3. Met(p) /\ p[1].ahead = p[2].ahead
    BY <1>2, <1>3, <2>2 DEF Met, Alike
  <2>4. turn.equal = TRUE
        /\ \A i \in Sides : Still(turn.readers[i], p[i]) /\ turn.readers[i].hold = FALSE
    BY <2>3, TurnAlike DEF turn
  <2>5. t.readers = turn.readers /\ t.equal = (s.equal /\ turn.equal) /\ t.ended = FALSE
    BY <1>1, <1>6, Zenon
  <2> DEFINE q == turn.readers
  <2>6. /\ Still(q[1], p[1]) /\ q[1].hold = FALSE
        /\ Still(q[2], p[2]) /\ q[2].hold = FALSE
    BY <2>4 DEF Sides
  <2> HIDE DEF q
  <2>7. p[1].width = p[2].width
    BY <1>2, <2>3, KindsAlike
  <2>8. Alike(Advance(q[1]), Advance(q[2]))
    <3>1. \A x : Readable(x) /\ x.hold = FALSE =>
              /\ Advance(x).ahead = SubSeq(x.ahead, x.width + 1, Len(x.ahead))
              /\ Advance(x).unread = x.unread /\ Advance(x).full = x.full
              /\ Advance(x).failing = x.failing
      BY AdvanceIs
    <3>2. \A i \in {1, 2} :
              /\ Readable(q[i]) /\ q[i].hold = FALSE
              /\ q[i].ahead = p[i].ahead /\ q[i].unread = p[i].unread /\ q[i].full = p[i].full
              /\ q[i].failing = p[i].failing /\ q[i].width = p[i].width
      BY <2>6 DEF Still
    <3>3. \A i \in {1, 2} :
              /\ Advance(q[i]).ahead = SubSeq(p[i].ahead, p[i].width + 1, Len(p[i].ahead))
              /\ Advance(q[i]).unread = p[i].unread /\ Advance(q[i]).full = p[i].full
              /\ Advance(q[i]).failing = p[i].failing
      <4> SUFFICES ASSUME NEW i \in {1, 2}
                   PROVE  /\ Advance(q[i]).ahead = SubSeq(p[i].ahead, p[i].width + 1, Len(p[i].ahead))
                          /\ Advance(q[i]).unread = p[i].unread /\ Advance(q[i]).full = p[i].full
                          /\ Advance(q[i]).failing = p[i].failing
        OBVIOUS
      <4> DEFINE x == q[i]
      <4>1. /\ Readable(x) /\ x.hold = FALSE
            /\ x.ahead = p[i].ahead /\ x.unread = p[i].unread /\ x.full = p[i].full
            /\ x.failing = p[i].failing /\ x.width = p[i].width
        BY <3>2
      <4> HIDE DEF x
      <4>2. /\ Advance(x).ahead = SubSeq(x.ahead, x.width + 1, Len(x.ahead))
            /\ Advance(x).unread = x.unread /\ Advance(x).full = x.full
            /\ Advance(x).failing = x.failing
        BY <3>1, <4>1
      <4> QED BY <4>1, <4>2, Zenon DEF x
    <3>4. p[1].ahead = p[2].ahead /\ p[1].unread = p[2].unread /\ p[1].full = p[2].full
          /\ p[1].failing = p[2].failing
      BY <1>3 DEF Alike
    <3> QED BY <3>3, <3>4, <2>7 DEF Alike
  <2> QED BY <1>4, <2>4, <2>5, <2>8 DEF Together, t, q
<1> QED BY <1>5, <1>6

(* As long as no difference is found, what is left of both files is equal   *)
(* only if they are.                                                       *)
Told(files, s) ==
    s.equal =>
        IF s.ended THEN files[1] = files[2]
        ELSE /\ Rest(s.readers[1]) = Rest(s.readers[2])
             /\ After(s.readers[1]) = After(s.readers[2]) => files[1] = files[2]

(* A turn that finds no difference keeps the claim.                        *)
LEMMA StepTold ==
    ASSUME LookAhead \in Nat \ {0}, Chunk \in Nat \ {0},
           NEW options, ~ AnyIgnored(options), NEW files, NEW s, Level(s), Told(files, s)
    PROVE  Told(files, Step(options, Sides, s))
<1> DEFINE p == Meeting(options, s)
           turn == Turn(options, p)
           t == Step(options, Sides, s)
<1>1. t = IF Ended(p) THEN [readers |-> p, equal |-> s.equal, ended |-> TRUE]
          ELSE [readers |-> turn.readers, equal |-> s.equal /\ turn.equal, ended |-> FALSE]
  BY StepBoth
<1>2. /\ Ready(p)
      /\ \A i \in Sides :
            /\ At(p[i]) /\ Text(p[i]) = After(s.readers[i]) /\ Left(p[i]) = Rest(s.readers[i])
            /\ ~ p[i].failing /\ (p[i].kind = "eof" => Drained(p[i]))
  BY MeetingIs
<1>3. s.equal = TRUE /\ s.ended = FALSE /\ 1 \in Sides /\ 2 \in Sides
  BY DEF Level, Sides
<1>4. /\ Rest(s.readers[1]) = Rest(s.readers[2])
      /\ After(s.readers[1]) = After(s.readers[2]) => files[1] = files[2]
  BY <1>3 DEF Told
<1> HIDE DEF p, t, turn
<1>5. p[1].kind = "eof" <=> p[2].kind = "eof"
  BY <1>2, <1>3, <1>4, EndIs
<1>6. CASE Ended(p)
  <2>1. t.equal = s.equal /\ t.ended = TRUE
    BY <1>1, <1>6, Zenon
  <2>2. p[1].kind = "eof" /\ p[2].kind = "eof"
    BY <1>2, <1>3, <1>6 DEF Ended, At, Kinds
  <2>3. Text(p[1]) = Text(p[2])
    <3>1. ASSUME NEW i \in Sides, p[i].kind = "eof" PROVE p[i].ahead = <<>> /\ p[i].unread = <<>>
      <4>1. At(p[i]) /\ ~ p[i].failing /\ Drained(p[i])
        BY <1>2, <3>1
      <4> QED BY <3>1, <4>1 DEF At, Drained
    <3>2. p[1].ahead = p[2].ahead /\ p[1].unread = p[2].unread
      BY <1>3, <2>2, <3>1
    <3> QED BY <3>2 DEF Text
  <2>4. files[1] = files[2]
    BY <1>2, <1>3, <1>4, <2>3
  <2> QED BY <2>1, <2>4 DEF Told, t
<1>7. CASE ~ Ended(p)
  <2>1. p[1].kind # "eof" /\ p[2].kind # "eof"
    BY <1>5, <1>7 DEF Ended, Sides
  <2>2. Met(p)
    BY <1>2, <1>3, <2>1 DEF Met
  <2>3. turn.equal \in BOOLEAN /\ (turn.equal => turn.readers = p /\ Taken(p[1]) = Taken(p[2]))
    BY <2>2, TurnPlain DEF turn
  <2>4. t.readers = turn.readers /\ t.equal = (s.equal /\ turn.equal) /\ t.ended = FALSE
    BY <1>1, <1>7, Zenon
  <2>5. ASSUME turn.equal
        PROVE  /\ Rest(p[1]) = Rest(p[2])
               /\ After(p[1]) = After(p[2]) => files[1] = files[2]
    <3>1. Taken(p[1]) = Taken(p[2])
      BY <2>3, <2>5
    <3>2. \A i \in Sides : /\ Text(p[i]) = Join(Taken(p[i]), After(p[i]))
                           /\ Len(Taken(p[i])) = p[i].width
                           /\ Readable(p[i]) /\ p[i].hold = FALSE
      BY <1>2, AfterIs DEF At
    <3>3. p[1].width = p[2].width /\ Left(p[1]) = Left(p[2])
      BY <1>2, <1>3, <1>4, <3>1, <3>2
    <3>4. Rest(p[1]) = Left(p[1]) - p[1].width /\ Rest(p[2]) = Left(p[2]) - p[2].width
      BY <1>3, <3>2, RestIs
    <3>5. After(p[1]) = After(p[2]) => Text(p[1]) = Text(p[2])
      BY <1>3, <3>1, <3>2
    <3>6. After(p[1]) = After(p[2]) => files[1] = files[2]
      BY <1>2, <1>3, <1>4, <3>5
    <3> QED BY <3>3, <3>4, <3>6
  <2> QED BY <2>3, <2>4, <2>5 DEF Told, t
<1> QED BY <1>6, <1>7

-----------------------------------------------------------------------------
(* The result of a comparison *)

(* The reader of a file before the comparison.                             *)
Opened(r, file, failing, junk) ==
    /\ Unopened(r) /\ r.kind = "start" /\ r.width = 0
    /\ r.unread = file /\ r.failing = failing /\ r.prev = junk

(* So is Reader.                                                           *)
LEMMA ReaderIs ==
    ASSUME NEW file, IsSeq(file), NEW failing \in BOOLEAN, NEW junk
    PROVE  Opened(Reader(file, failing, junk), file, failing, junk)
<1> DEFINE r == Reader(file, failing, junk)
<1>1. r = [unread |-> file, ahead |-> <<>>, full |-> TRUE, failing |-> failing, failed |-> FALSE,
           c |-> "?", kind |-> "start", prev |-> junk, width |-> 0, hold |-> TRUE,
           counter |-> "none", stats |-> Uncounted]
  BY DEF Reader
<1> HIDE DEF r
<1>2. /\ Shape(r) /\ r.hold = TRUE /\ r.ahead = <<>> /\ r.unread = file /\ r.full = TRUE
      /\ r.failed = FALSE
      /\ r.kind = "start" /\ r.width = 0 /\ r.failing = failing /\ r.prev = junk
  BY <1>1 DEF Shape
<1>3. Stored(r)
  BY <1>2, EmptyIs DEF Stored
<1>4. Readable(r)
  <2>1. r.hold \in BOOLEAN
    BY <1>2, Zenon
  <2>2. r.width \in Nat
    BY <1>2
  <2>3. ~ r.hold => r.width <= Len(r.ahead)
    BY <1>2
  <2> QED BY <1>3, <2>1, <2>2, <2>3 DEF Readable
<1>5. Unopened(r)
  BY <1>2, <1>4 DEF Unopened
<1>6. Opened(r, file, failing, junk)
  BY <1>2, <1>5 DEF Opened
<1> QED BY <1>6 DEF r

(* The text and the code points of a reader before the comparison          *)
LEMMA UnopenedIs ==
    ASSUME NEW r, Unopened(r)
    PROVE  /\ After(r) = r.unread /\ Rest(r) = Len(r.unread)
           /\ Advance(r) = r
<1>1. Readable(r) /\ r.hold = TRUE /\ r.ahead = <<>> /\ IsSeq(r.unread)
  BY DEF Unopened, Readable, Stored
<1>2. Advance(r) = r
  BY <1>1 DEF Advance
<1> DEFINE u == r.unread
           l == Len(u)
           w == <<>> \o u
<1>3. IsSeq(<<>>) /\ Len(<<>>) = 0 /\ IsSeq(u) /\ l \in Nat
  BY <1>1, EmptyIs, SeqIs
<1>4. Rest(r) = l
  <2>1. Rest(r) = 0 + l
    <3>1. Left(r) = Len(<<>>) + l
      BY <1>1, Zenon DEF Left
    <3> HIDE DEF l
    <3>2. Left(r) = 0 + l
      BY <1>3, <3>1
    <3> QED BY <1>1, <3>2, RestIs
  <2> HIDE DEF l
  <2> QED BY <1>3, <2>1
<1>5. IsSeq(w) /\ Len(w) = Len(<<>>) + l
      /\ \A i \in 1 .. Len(<<>>) + l : w[i] = IF i <= Len(<<>>) THEN <<>>[i] ELSE u[i - Len(<<>>)]
  BY <1>3, ConcatIs, Zenon
<1>6. w = u
  <2> HIDE DEF w, u
  <2>1. Len(w) = Len(u) /\ \A i \in 1 .. Len(w) : w[i] = u[i]
    BY <1>3, <1>5
  <2> QED BY <2>1, <1>3, <1>5, SameSeq
<1>7. After(r) = Join(<<>>, u)
  BY <1>1, <1>2, Zenon DEF After, Text
<1> QED BY <1>2, <1>4, <1>6, <1>7 DEF Join

(* On files that can be read to their ends the result is the difference     *)
(* that the turns found.                                                   *)
LEMMA CodeIs ==
    ASSUME NEW options, NEW s, NEW readers, \A i \in Sides : ~ readers[i].failing,
           Finished(options, Sides, s, readers)
    PROVE  s.equal \in BOOLEAN /\ Code(s) = IF s.equal THEN "SAME" ELSE "DIFF"
<1>1. \A i \in Sides : ~ s.readers[i].failed
  BY DEF Finished, Looping, Readable, Stored
<1>2. s.equal \in BOOLEAN
  BY DEF Finished, Looping
<1> QED BY <1>1, <1>2 DEF Code

(* In step from the start to the end                                       *)
LEMMA RunTogether ==
    ASSUME LookAhead \in Nat \ {0}, Chunk \in Nat \ {0},
           NEW options, ~ options.bIgnoreBlankLines, NEW readers,
           \A i \in Sides : Unopened(readers[i]) /\ ~ readers[i].failing,
           Alike(readers[1], readers[2])
    PROVE  Code(Run(options, Sides, readers)) = "SAME"
<1>1. PICK f : /\ Unfolds(options, Sides, readers, f)
               /\ Turns(readers) \in Nat
               /\ \A n \in 0 .. Turns(readers) : Going(Sides, f[n], readers)
               /\ Finished(options, Sides, f[Turns(readers)], readers)
  BY LoopIs
<1> DEFINE N == Turns(readers)
           G == {n \in 0 .. N : Together(f[n])}
<1>2. N \in Nat /\ f[0] = [readers |-> readers, equal |-> TRUE, ended |-> FALSE]
      /\ \A n \in 1 .. N : f[n] = IF f[n - 1].ended THEN f[n - 1] ELSE Step(options, Sides, f[n - 1])
  BY <1>1 DEF Unfolds
<1> HIDE DEF N
<1>3. 0 \in G
  <2>1. f[0].readers = readers /\ f[0].equal = TRUE
    BY <1>2
  <2>2. Alike(Advance(readers[1]), Advance(readers[2]))
    BY UnopenedIs DEF Sides
  <2> QED BY <1>2, <2>1, <2>2 DEF Together
<1>4. ASSUME NEW n \in 1 .. N, n - 1 \in G PROVE n \in G
  <2> DEFINE s == f[n - 1]
  <2>1. n - 1 \in 0 .. N /\ n \in 0 .. N /\ Together(s)
    BY <1>2, <1>4
  <2>2. Going(Sides, s, readers)
    BY <1>1, <2>1 DEF N
  <2>3. f[n] = IF s.ended THEN s ELSE Step(options, Sides, s)
    BY <1>2
  <2> HIDE DEF s, G
  <2>4. s.ended \in BOOLEAN /\ s.equal = TRUE
    BY <2>1, <2>2 DEF Going, Looping, Together
  <2>5. CASE s.ended
    BY <2>1, <2>3, <2>5 DEF G
  <2>6. CASE ~ s.ended
    <3>1. s.ended = FALSE
      BY <2>4, <2>6
    <3>2. Level(s)
      BY <2>2, <2>4, <3>1 DEF Level, Going
    <3>3. Together(Step(options, Sides, s))
      BY <2>1, <3>2, StepTogether
    <3>4. f[n] = Step(options, Sides, s)
      BY <2>3, <2>6
    <3> QED BY <2>1, <3>3, <3>4 DEF G
  <2> QED BY <2>5, <2>6
<1>5. \A n \in 0 .. N : n \in G
  <2> HIDE DEF G
  <2> QED BY <1>2, <1>3, <1>4, Upto
<1>6. f[N].equal = TRUE
  BY <1>2, <1>5 DEF Together
<1>7. Code(f[N]) = "SAME"
  <2>1. f[N].equal
    BY <1>6
  <2> QED BY <1>1, <2>1, CodeIs DEF N
<1>8. Run(options, Sides, readers) = f[N]
  BY <1>1 DEF Unfolds, N
<1> QED BY <1>7, <1>8

(* Told from the start to the end                                          *)
LEMMA RunTold ==
    ASSUME LookAhead \in Nat \ {0}, Chunk \in Nat \ {0},
           NEW options, ~ AnyIgnored(options), NEW files, NEW readers,
           \A i \in Sides : Unopened(readers[i]) /\ ~ readers[i].failing /\ readers[i].unread = files[i],
           Len(files[1]) = Len(files[2])
    PROVE  LET code == Code(Run(options, Sides, readers))
           IN  code \in {"SAME", "DIFF"} /\ (code = "SAME" => files[1] = files[2])
<1>1. PICK f : /\ Unfolds(options, Sides, readers, f)
               /\ Turns(readers) \in Nat
               /\ \A n \in 0 .. Turns(readers) : Going(Sides, f[n], readers)
               /\ Finished(options, Sides, f[Turns(readers)], readers)
  BY LoopIs
<1> DEFINE N == Turns(readers)
           G == {n \in 0 .. N : Told(files, f[n])}
<1>2. N \in Nat /\ f[0] = [readers |-> readers, equal |-> TRUE, ended |-> FALSE]
      /\ \A n \in 1 .. N : f[n] = IF f[n - 1].ended THEN f[n - 1] ELSE Step(options, Sides, f[n - 1])
  BY <1>1 DEF Unfolds
<1> HIDE DEF N
<1>3. 0 \in G
  <2>1. f[0].readers = readers /\ f[0].ended = FALSE
    BY <1>2
  <2>2. 1 \in Sides /\ 2 \in Sides
    BY DEF Sides
  <2>3. \A i \in Sides : After(readers[i]) = files[i] /\ Rest(readers[i]) = Len(files[i])
    BY UnopenedIs
  <2>4. Told(files, f[0])
    BY <2>1, <2>2, <2>3 DEF Told
  <2> QED BY <1>2, <2>4
<1>4. ASSUME NEW n \in 1 .. N, n - 1 \in G PROVE n \in G
  <2> DEFINE s == f[n - 1]
  <2>1. n - 1 \in 0 .. N /\ n \in 0 .. N /\ Told(files, s)
    BY <1>2, <1>4
  <2>2. Going(Sides, s, readers)
    BY <1>1, <2>1 DEF N
  <2>3. f[n] = IF s.ended THEN s ELSE Step(options, Sides, s)
    BY <1>2
  <2> HIDE DEF s, G
  <2>4. s.ended \in BOOLEAN /\ s.equal \in BOOLEAN
    BY <2>2 DEF Going, Looping
  <2>5. CASE s.ended
    BY <2>1, <2>3, <2>5 DEF G
  <2>6. CASE ~ s.ended
    <3>1. f[n] = Step(options, Sides, s) /\ s.ended = FALSE
      BY <2>3, <2>4, <2>6
    <3>2. CASE s.equal = TRUE
      <4>1. Level(s)
        BY <2>2, <3>1, <3>2 DEF Level, Going
      <4>2. Told(files, Step(options, Sides, s))
        BY <2>1, <4>1, StepTold
      <4> QED BY <2>1, <3>1, <4>2 DEF G
    <3>3. CASE s.equal = FALSE
      <4>1. ~ Step(options, Sides, s).equal
        <5> DEFINE p == Meeting(options, s)
                   turn == Turn(options, p)
                   t == Step(options, Sides, s)
        <5>1. t = IF Ended(p) THEN [readers |-> p, equal |-> s.equal, ended |-> TRUE]
                  ELSE [readers |-> turn.readers, equal |-> s.equal /\ turn.equal, ended |-> FALSE]
          BY StepBoth
        <5> HIDE DEF p, turn, t
        <5>2. t.equal = s.equal \/ t.equal = (s.equal /\ turn.equal)
          BY <5>1, Zenon
        <5>3. ~ t.equal
          BY <3>3, <5>2
        <5> QED BY <5>3 DEF t
      <4>2. Told(files, f[n])
        BY <3>1, <4>1 DEF Told
      <4> QED BY <2>1, <4>2 DEF G
    <3> QED BY <2>4, <3>2, <3>3
  <2> QED BY <2>5, <2>6
<1>5. \A n \in 0 .. N : n \in G
  <2> HIDE DEF G
  <2> QED BY <1>2, <1>3, <1>4, Upto
<1> DEFINE e == f[N]
<1>6. Told(files, e)
  BY <1>2, <1>5
<1>7. e.ended = TRUE /\ e.equal \in BOOLEAN /\ Code(e) = IF e.equal THEN "SAME" ELSE "DIFF"
  BY <1>1, CodeIs DEF N, Finished
<1>8. Run(options, Sides, readers) = e
  BY <1>1 DEF Unfolds, N
<1> HIDE DEF e
<1>9. e.equal => files[1] = files[2]
  BY <1>6, <1>7 DEF Told
<1>10. Code(e) \in {"SAME", "DIFF"} /\ (Code(e) = "SAME" => files[1] = files[2])
  BY <1>7, <1>9
<1> QED BY <1>8, <1>10

(* The readers of two files that can be read to their ends                 *)
Opening(files, junk) == [i \in Sides |-> Reader(files[i], FALSE, junk[i])]

(* They are unopened.                                                      *)
LEMMA OpeningIs ==
    ASSUME NEW files, NEW junk, \A i \in Sides : IsSeq(files[i])
    PROVE  \A i \in Sides : LET r == Opening(files, junk)[i]
                            IN  Unopened(r) /\ r.unread = files[i] /\ ~ r.failing /\ r.full
<1> SUFFICES ASSUME NEW i \in Sides
             PROVE  LET r == Opening(files, junk)[i]
                    IN  Unopened(r) /\ r.unread = files[i] /\ ~ r.failing /\ r.full
  OBVIOUS
<1> DEFINE r == Opening(files, junk)[i]
<1>1. r = Reader(files[i], FALSE, junk[i])
  BY DEF Opening
<1>2. FALSE \in BOOLEAN /\ IsSeq(files[i])
  OBVIOUS
<1> HIDE DEF r
<1>3. Opened(Reader(files[i], FALSE, junk[i]), files[i], FALSE, junk[i])
  BY <1>2, ReaderIs, Zenon
<1>4. Opened(r, files[i], FALSE, junk[i])
  BY <1>1, <1>3, Zenon
<1>5. Unopened(r) /\ r.unread = files[i] /\ ~ r.failing
  BY <1>4, Zenon DEF Opened
<1>6. r.full
  <2>1. r.full = TRUE
    BY <1>1, Zenon DEF Reader
  <2> QED BY <2>1, Zenon
<1> QED BY <1>5, <1>6 DEF r

(* A file compared with one that is equal to it is the same, whatever the   *)
(* kind before its first code point is taken to be and whatever is ignored: *)
(* the readers stay in step, so that no line break is taken apart on one    *)
(* side only (ByteCompare::CompareFiles).  With bIgnoreBlankLines the sides *)
(* go over line breaks one after the other, which only the runs check.     *)
(* Only Cancel keeps the compare from telling it.                          *)
THEOREM EqualFilesAreSame ==
    ASSUME LookAhead \in Nat \ {0}, Chunk \in Nat \ {0},
           NEW options, ~ options.bIgnoreBlankLines, NEW files, NEW junk, NEW cancel \in Nat,
           \A i \in Sides : IsSeq(files[i]), files[1] = files[2]
    PROVE  LET code == CompareFiles(options, Opening(files, junk), FALSE, cancel).code
           IN  /\ code \in {"SAME", "CMPABORT"}
               /\ cancel > Len(files[1]) + Len(files[2]) + 1 => code = "SAME"
<1> DEFINE readers == Opening(files, junk)
<1>1. \A i \in Sides : /\ Unopened(readers[i]) /\ readers[i].unread = files[i]
                       /\ ~ readers[i].failing /\ readers[i].full
  BY OpeningIs
<1>2. 1 \in Sides /\ 2 \in Sides
  BY DEF Sides
<1> HIDE DEF readers
<1>3. Alike(readers[1], readers[2])
  <2>1. \A i \in Sides : /\ readers[i].failing = FALSE /\ readers[i].full = TRUE
                          /\ readers[i].ahead = <<>>
    BY <1>1 DEF Unopened, Readable, Stored
  <2> QED BY <1>1, <1>2, <2>1 DEF Alike
<1>4. Code(Run(options, Sides, readers)) = "SAME"
  BY <1>1, <1>3, RunTogether
<1>5. CompareFiles(options, readers, FALSE, cancel) =
          IF Aborts(options, Sides, readers, cancel)
          THEN [code |-> "CMPABORT", stats |-> <<Uncounted, Uncounted>>]
          ELSE CompareBoth(options, readers)
  <2>1. Len(readers[1].unread) = Len(readers[2].unread)
    BY <1>1, <1>2
  <2> QED BY <2>1 DEF CompareFiles
<1>6. CompareBoth(options, readers).code = "SAME"
  BY <1>4 DEF CompareBoth
<1>7. ASSUME cancel > Len(files[1]) + Len(files[2]) + 1
      PROVE  ~ Aborts(options, Sides, readers, cancel)
  <2>1. Turns(readers) = Len(files[1]) + Len(files[2]) + 1
    BY <1>1, <1>2 DEF Turns
  <2>2. Len(files[1]) \in Nat /\ Len(files[2]) \in Nat
    BY <1>2, SeqIs
  <2> DEFINE l == Len(files[1])
             m == Len(files[2])
  <2>3. Turns(readers) \in Nat
    <3> HIDE DEF l, m
    <3>1. l + m + 1 \in Nat
      BY <2>2 DEF l, m
    <3> QED BY <2>1, <3>1 DEF l, m
  <2>4. cancel > Turns(readers)
    BY <1>7, <2>1, Zenon
  <2> QED BY <2>3, <2>4, Uncancelled
<1> DEFINE code == CompareFiles(options, readers, FALSE, cancel).code
<1>8. code = IF Aborts(options, Sides, readers, cancel) THEN "CMPABORT" ELSE "SAME"
  <2> DEFINE aborted == [code |-> "CMPABORT", stats |-> <<Uncounted, Uncounted>>]
             result == CompareFiles(options, readers, FALSE, cancel)
             aborts == Aborts(options, Sides, readers, cancel)
             compared == CompareBoth(options, readers)
  <2>1. aborted.code = "CMPABORT"
    OBVIOUS
  <2>2. result = IF aborts THEN aborted ELSE compared
    BY <1>5
  <2>3. compared.code = "SAME"
    BY <1>6
  <2>4. result.code = IF aborts THEN "CMPABORT" ELSE "SAME"
    <3> HIDE DEF result, aborts, aborted, compared
    <3> QED BY <2>1, <2>2, <2>3
  <2> QED BY <2>4
<1> HIDE DEF code
<1>9. /\ code \in {"SAME", "CMPABORT"}
      /\ cancel > Len(files[1]) + Len(files[2]) + 1 => code = "SAME"
  BY <1>7, <1>8
<1> QED BY <1>9 DEF readers, code

(* With nothing ignored, two files that can be read to their ends are the   *)
(* same if and only if they are equal, however they fall into buffers: if   *)
(* the reading may stop, where their sizes are compared first, and          *)
(* otherwise if their sizes are the same.  Of other files this is not true  *)
(* (ByteCompare::CompareFiles compares what follows the end of the shorter  *)
(* one with its last code point: the run that finds SameMeansEqual violated *)
(* shows it).  Again only Cancel keeps the compare from telling it.        *)
THEOREM SameMeansEqualAtOneSize ==
    ASSUME LookAhead \in Nat \ {0}, Chunk \in Nat \ {0},
           NEW options, ~ AnyIgnored(options), NEW files, NEW junk, NEW cancel \in Nat,
           \A i \in Sides : IsSeq(files[i]),
           options.bStopAfterFirstDiff \/ Len(files[1]) = Len(files[2])
    PROVE  LET code == CompareFiles(options, Opening(files, junk), FALSE, cancel).code
           IN  \/ code = "SAME" /\ files[1] = files[2]
               \/ code = "DIFF" /\ files[1] # files[2]
               \/ code = "CMPABORT" /\ cancel <= Len(files[1]) + Len(files[2]) + 1
<1> DEFINE readers == Opening(files, junk)
           result == CompareFiles(options, readers, FALSE, cancel)
           early == cancel <= Len(files[1]) + Len(files[2]) + 1
<1>1. \A i \in Sides : /\ Unopened(readers[i]) /\ readers[i].unread = files[i]
                       /\ ~ readers[i].failing
  BY OpeningIs
<1>2. readers[1].unread = files[1] /\ readers[2].unread = files[2]
      /\ IsSeq(files[1]) /\ IsSeq(files[2])
  BY <1>1 DEF Sides
<1>3. files[1] = files[2] => /\ result.code \in {"SAME", "CMPABORT"}
                             /\ cancel > Len(files[1]) + Len(files[2]) + 1 => result.code = "SAME"
  <2>1. ~ options.bIgnoreBlankLines
    BY DEF AnyIgnored
  <2> QED BY <2>1, EqualFilesAreSame
<1>n. Len(files[1]) \in Nat /\ Len(files[2]) \in Nat
      /\ Turns(readers) = Len(files[1]) + Len(files[2]) + 1
  BY <1>2, SeqIs DEF Turns
<1>t. Turns(readers) \in Nat /\ (early <=> cancel <= Turns(readers))
  <2> DEFINE l == Len(files[1])
             m == Len(files[2])
  <2>1. l + m + 1 \in Nat
    <3>1. l \in Nat /\ m \in Nat
      BY <1>n
    <3> HIDE DEF l, m
    <3> QED BY <3>1
  <2> QED BY <1>n, <2>1
<1>a. ~ early => ~ Aborts(options, Sides, readers, cancel)
  <2> HIDE DEF early, readers
  <2>1. ~ early => cancel > Turns(readers)
    BY <1>t
  <2> QED BY <1>t, <2>1, Uncancelled
<1> HIDE DEF readers, result, early
<1>4. CASE options.bStopAfterFirstDiff /\ Len(files[1]) # Len(files[2])
  <2>1. result = [code |-> "DIFF", stats |-> <<Uncounted, Uncounted>>]
    BY <1>2, <1>4 DEF result, CompareFiles
  <2>2. result.code = "DIFF" /\ files[1] # files[2]
    BY <1>4, <2>1
  <2> QED BY <2>2 DEF result, readers
<1>5. CASE Len(files[1]) = Len(files[2])
  <2>1. result = IF Aborts(options, Sides, readers, cancel)
                 THEN [code |-> "CMPABORT", stats |-> <<Uncounted, Uncounted>>]
                 ELSE CompareBoth(options, readers)
    BY <1>2, <1>5 DEF result, CompareFiles
  <2> DEFINE code == Code(Run(options, Sides, readers))
  <2>2. result.code = IF Aborts(options, Sides, readers, cancel) THEN "CMPABORT" ELSE code
    BY <2>1 DEF CompareBoth
  <2>3. code \in {"SAME", "DIFF"} /\ (code = "SAME" => files[1] = files[2])
    BY <1>1, <1>5, RunTold
  <2> HIDE DEF code
  <2>4. files[1] = files[2] => result.code \in {"SAME", "CMPABORT"}
    BY <1>3
  <2>5. \/ result.code = "SAME" /\ files[1] = files[2]
        \/ result.code = "DIFF" /\ files[1] # files[2]
        \/ result.code = "CMPABORT" /\ early
    <3>1. CASE Aborts(options, Sides, readers, cancel)
      BY <1>a, <2>2, <3>1
    <3>2. CASE ~ Aborts(options, Sides, readers, cancel)
      <4>1. result.code = code
        BY <2>2, <3>2
      <4> QED BY <2>3, <2>4, <4>1
    <3> QED BY <3>1, <3>2
  <2> QED BY <2>5 DEF result, readers, early
<1> QED BY <1>4, <1>5

(* A file that cannot be read to its end is never taken for identical, and *)
(* is an error unless the reading may stop early: whatever the options, the *)
(* sizes of the files and of the buffers, and the uninitialized start      *)
(* (CompareFiles in ByteCompare.cpp returns DIFFCODE::CMPERR for any side  *)
(* whose read failed).  The exceptions are a unique file under             *)
(* bStopAfterFirstDiff, which is not read at all, and a compare that is     *)
(* cancelled, which tells just that.                                       *)
THEOREM FailuresAreReported ==
    ASSUME LookAhead \in Nat \ {0}, Chunk \in Nat \ {0}, NEW options,
           NEW files, NEW failing \in [Sides -> BOOLEAN], NEW junk, NEW unique \in BOOLEAN,
           NEW cancel,
           \A i \in Sides : IsSeq(files[i]),
           \E i \in Sides : failing[i], unique => failing[2]
    PROVE  LET readers == [i \in Sides |-> Reader(files[i], failing[i], junk[i])]
               code == CompareFiles(options, readers, unique, cancel).code
           IN  /\ ~ options.bStopAfterFirstDiff => code \in {"CMPERR", "CMPABORT"}
               /\ ~ (options.bStopAfterFirstDiff /\ unique) => code # "SAME"
<1> DEFINE readers == [i \in Sides |-> Reader(files[i], failing[i], junk[i])]
           code == CompareFiles(options, readers, unique, cancel).code
           stop == options.bStopAfterFirstDiff
           Goal == /\ ~ stop => code \in {"CMPERR", "CMPABORT"}
                   /\ ~ (stop /\ unique) => code # "SAME"
<1>1. \A i \in Sides : Unopened(readers[i]) /\ readers[i].failing = failing[i]
  <2> SUFFICES ASSUME NEW i \in Sides
               PROVE  Unopened(readers[i]) /\ readers[i].failing = failing[i]
    OBVIOUS
  <2>1. readers[i] = Reader(files[i], failing[i], junk[i])
    OBVIOUS
  <2>2. IsSeq(files[i]) /\ failing[i] \in BOOLEAN
    OBVIOUS
  <2> HIDE DEF readers
  <2>3. Opened(Reader(files[i], failing[i], junk[i]), files[i], failing[i], junk[i])
    BY <2>2, ReaderIs, Zenon
  <2>4. Opened(readers[i], files[i], failing[i], junk[i])
    BY <2>1, <2>3, Zenon
  <2> QED BY <2>4, Zenon DEF Opened
<1>2. 1 \in Sides /\ 2 \in Sides
  BY DEF Sides
<1> HIDE DEF readers
<1>3. ASSUME unique, stop PROVE Goal
  BY <1>3
<1>4. ASSUME ~ unique PROVE Goal
  <2> DEFINE s == Run(options, Sides, readers)
  <2>1. Looping(Sides, s) /\ Over(options, Sides, s)
        /\ \A i \in Sides : s.readers[i].failing = failing[i]
    <3>1. Sides \in SUBSET Sides /\ \A i \in Sides \ Sides : Idle(readers[i])
      OBVIOUS
    <3>2. Finished(options, Sides, s, readers)
      BY <1>1, <3>1, RunIs, Zenon
    <3> HIDE DEF s
    <3> QED BY <1>1, <3>2 DEF Finished
  <2> HIDE DEF s
  <2>2. PICK i \in Sides : failing[i]
    OBVIOUS
  <2>3. s.equal \/ ~ stop => s.readers[i].failed
    BY <2>1, <2>2 DEF Over, StopsReading, Drained
  <2>4. CompareBoth(options, readers).code = Code(s)
    BY DEF CompareBoth, s
  <2>5. ~ stop => Code(s) = "CMPERR"
    BY <2>3 DEF Code
  <2>6. Code(s) # "SAME"
    BY <2>3 DEF Code
  <2>7. (code = "DIFF" /\ stop) \/ code = "CMPABORT" \/ code = Code(s)
    <3> DEFINE early == /\ stop /\ ~ AnyIgnored(options)
                        /\ Len(readers[1].unread) # Len(readers[2].unread)
               told == [code |-> "DIFF", stats |-> <<Uncounted, Uncounted>>]
               aborted == [code |-> "CMPABORT", stats |-> <<Uncounted, Uncounted>>]
    <3>1. CompareFiles(options, readers, unique, cancel) \in
              {IF early THEN told ELSE CompareBoth(options, readers), aborted}
      BY <1>4 DEF CompareFiles
    <3>2. early => stop
      OBVIOUS
    <3>3. told.code = "DIFF" /\ aborted.code = "CMPABORT"
      OBVIOUS
    <3> HIDE DEF early, told, aborted
    <3> QED BY <2>4, <3>1, <3>2, <3>3
  <2> HIDE DEF code
  <2>8. "DIFF" # "SAME" /\ "CMPABORT" # "SAME"
    OBVIOUS
  <2> QED BY <2>5, <2>6, <2>7, <2>8
<1>5. ASSUME unique, ~ stop PROVE Goal
  <2> DEFINE pair == BesideNone(readers[2])
             s == Run(options, {2}, pair)
             t == [s EXCEPT !.equal = TRUE]
  <2>1. pair[1] = Reader(<<>>, FALSE, readers[2].prev) /\ pair[2] = readers[2]
    BY DEF BesideNone
  <2>2. Unopened(pair[1]) /\ Idle(pair[1])
    <3> HIDE DEF pair
    <3>1. IsSeq(<<>>) /\ FALSE \in BOOLEAN
      BY EmptyIs
    <3>2. Opened(Reader(<<>>, FALSE, readers[2].prev), <<>>, FALSE, readers[2].prev)
      BY <3>1, ReaderIs, Zenon
    <3>3. Opened(pair[1], <<>>, FALSE, readers[2].prev)
      BY <2>1, <3>2, Zenon
    <3> QED BY <3>3, Zenon DEF Opened, Idle
  <2> HIDE DEF pair
  <2>3. /\ Looping({2}, s) /\ Over(options, {2}, s)
        /\ \A i \in Sides : s.readers[i].failing = pair[i].failing
    <3>1. {2} \in SUBSET Sides /\ \A i \in Sides : i = 1 \/ i = 2
      BY DEF Sides
    <3>2. \A i \in Sides : Unopened(pair[i])
      BY <1>1, <1>2, <2>1, <2>2, <3>1
    <3>3. \A i \in Sides \ {2} : Idle(pair[i])
      BY <2>2, <3>1
    <3>4. Finished(options, {2}, s, pair)
      BY <3>1, <3>2, <3>3, RunIs, Zenon
    <3> HIDE DEF s
    <3> QED BY <3>4 DEF Finished
  <2> HIDE DEF s
  <2>4. s.readers[2].failed
    <3>1. s.readers[2].failing
      BY <1>1, <1>2, <1>5, <2>1, <2>3
    <3> QED BY <3>1, <1>5, <2>3 DEF Over, StopsReading, Drained
  <2>5. t.readers = s.readers
    BY <2>3 DEF Looping
  <2> HIDE DEF t
  <2>6. Code(t) = "CMPERR"
    BY <1>2, <2>4, <2>5 DEF Code
  <2>7. CompareAlone(options, readers[2]).code = Code(t)
    BY DEF CompareAlone, s, t, pair
  <2>8. code = Code(t) \/ code = "CMPABORT"
    <3> DEFINE aborted == [code |-> "CMPABORT", stats |-> <<Uncounted, Uncounted>>]
    <3>1. CompareFiles(options, readers, unique, cancel)
              \in {CompareAlone(options, readers[2]), aborted}
      <4>1. ~ (stop /\ unique) /\ ~ stop /\ unique
        BY <1>5
      <4> QED BY <4>1 DEF CompareFiles
    <3>2. aborted.code = "CMPABORT"
      OBVIOUS
    <3> HIDE DEF aborted
    <3> QED BY <2>7, <3>1, <3>2
  <2> HIDE DEF code
  <2>9. "CMPERR" # "SAME" /\ "CMPABORT" # "SAME"
    OBVIOUS
  <2> QED BY <1>5, <2>6, <2>8, <2>9
<1>6. Goal
  <2> HIDE DEF Goal
  <2> QED BY <1>3, <1>4, <1>5
<1> QED BY <1>6 DEF readers

=============================================================================
