---------------------------- MODULE AuditProofs -----------------------------
(***************************************************************************)
(* What some services keep, for every value of their constants: those      *)
(* whose proofs share an induction over lists, the prompt gateway's window *)
(* and the owner's report, and those that look over the system, the        *)
(* registry of what is wired to what, the looks back over rows that ended  *)
(* badly or showed no heartbeat, the certification of a product and the    *)
(* audit of compliance. ComponentProofs has the others.                    *)
(***************************************************************************)
EXTENDS PromptGateway, PmReport, WiringRegistry, RowBackfills, GtmCertification,
        ComplianceAudit, FiniteSetTheorems, SequenceTheorems,
        WellFoundedInduction, TLAPS

-----------------------------------------------------------------------------
(* Induction over lists *)

\* A set of naturals that is not empty has a least member.
LEMMA Least ==
    ASSUME NEW S \in SUBSET Nat, S # {}
    PROVE  \E m \in S : \A c \in S : m <= c
<1> DEFINE R == OpToRel(<, Nat)
<1>1. IsWellFoundedOn(R, Nat)
  BY NatLessThanWellFounded
<1>2. \E x \in S : \A y \in S : ~(<<y, x>> \in R)
  <2> HIDE DEF R
  <2> QED  BY <1>1, WFMin
<1>3. PICK x \in S : \A y \in S : ~(<<y, x>> \in R)
  BY <1>2
<1>4. \A y \in S : x <= y
  <2> SUFFICES ASSUME NEW y \in S PROVE x <= y
    OBVIOUS
  <2>1. ~(<<y, x>> \in R) /\ x \in Nat /\ y \in Nat
    BY <1>3
  <2>2. <<y, x>> \in Nat \X Nat /\ <<y, x>>[1] = y /\ <<y, x>>[2] = x
    BY <2>1
  <2>3. ~(y < x)
    BY <2>1, <2>2 DEF OpToRel
  <2>4. x \in Nat /\ y \in Nat
    BY <2>1
  <2> QED  BY <2>3, <2>4
<1> QED  BY <1>4

\* f begins with base, and each of its values up to the n-th is the next of the one before.
Unrolls(f, base, next, n) ==
    f[0] = base /\ \A i \in 1 .. n : f[i] = next[<<f[i - 1], i>>]

\* What is begun and has a next value for each of n steps can be listed.
LEMMA Recursion ==
    ASSUME NEW V, NEW base \in V, NEW n \in Nat, NEW next \in [V \X (1 .. n) -> V]
    PROVE  \E f \in [0 .. n -> V] : Unrolls(f, base, next, n)
<1> DEFINE Good(k) == \E f \in [0 .. k -> V] : Unrolls(f, base, next, k)
           T == {k \in 0 .. n : ~Good(k)}
<1>1. Good(0)
  <2> DEFINE f == [i \in 0 .. 0 |-> base]
  <2>1. f \in [0 .. 0 -> V] /\ f[0] = base /\ 1 .. 0 = {}
    OBVIOUS
  <2> QED  BY <2>1 DEF Unrolls
<1>2. ASSUME NEW k \in 1 .. n, Good(k - 1) PROVE Good(k)
  <2>1. PICK f \in [0 .. (k - 1) -> V] : Unrolls(f, base, next, k - 1)
    BY <1>2
  <2> DEFINE g == [i \in 0 .. k |-> IF i = k THEN next[<<f[k - 1], k>>] ELSE f[i]]
  <2>2. f[k - 1] \in V /\ next[<<f[k - 1], k>>] \in V
    OBVIOUS
  <2>3. \A i \in 0 .. (k - 1) : g[i] = f[i]
    OBVIOUS
  <2>4. g[k] = next[<<f[k - 1], k>>]
    OBVIOUS
  <2>5. g \in [0 .. k -> V]
    BY <2>2
  <2> HIDE DEF g
  <2>6. g[0] = base
    BY <2>1, <2>3 DEF Unrolls
  <2>7. ASSUME NEW i \in 1 .. k PROVE g[i] = next[<<g[i - 1], i>>]
    <3>1. i = k \/ i \in 1 .. (k - 1)
      OBVIOUS
    <3>2. g[i - 1] = f[i - 1]
      BY <2>3
    <3>3. CASE i = k  BY <3>2, <3>3, <2>4
    <3>4. CASE i \in 1 .. (k - 1)
      BY <3>2, <3>4, <2>1, <2>3 DEF Unrolls
    <3> QED  BY <3>1, <3>3, <3>4
  <2> QED  BY <2>5, <2>6, <2>7 DEF Unrolls
<1> HIDE DEF Good
<1>3. T = {}
  <2> SUFFICES ASSUME T # {} PROVE FALSE
    OBVIOUS
  <2>1. T \in SUBSET Nat
    OBVIOUS
  <2> HIDE DEF T
  <2>2. PICK k \in T : \A c \in T : k <= c
    BY <2>1, Least
  <2>3. k \in 0 .. n /\ ~Good(k) /\ \A c \in 0 .. n : c < k => Good(c)
    BY <2>2 DEF T
  <2>4. k # 0
    BY <2>3, <1>1
  <2>5. k \in 1 .. n /\ Good(k - 1)
    BY <2>3, <2>4
  <2> QED  BY <2>3, <2>5, <1>2
<1>4. Good(n)
  BY <1>3
<1> QED  BY <1>4 DEF Good

\* The prefix sums of a list of integers.
LEMMA SumsStep ==
    ASSUME NEW s \in Seq(Int)
    PROVE  /\ Sums(s)[0] = 0
           /\ \A n \in 1 .. Len(s) : Sums(s)[n] = Sums(s)[n - 1] + s[n]
           /\ \A n \in 0 .. Len(s) : Sums(s)[n] \in Int
<1> DEFINE L == Len(s)
           Eq(f) == f = [n \in 0 .. L |-> IF n = 0 THEN 0 ELSE f[n - 1] + s[n]]
           next == [p \in Int \X (1 .. L) |-> p[1] + s[p[2]]]
<1>1. L \in Nat /\ \A n \in 1 .. L : s[n] \in Int
  OBVIOUS
<1> HIDE DEF L
<1>2. next \in [Int \X (1 .. L) -> Int] /\ \A x \in Int, i \in 1 .. L : next[<<x, i>>] = x + s[i]
  BY <1>1
<1> HIDE DEF next
<1>3. PICK f \in [0 .. L -> Int] : Unrolls(f, 0, next, L)
  <2>1. 0 \in Int /\ next \in [Int \X (1 .. L) -> Int]
    BY <1>2
  <2> QED  BY <1>1, <2>1, Recursion
<1>4. \A i \in 1 .. L : f[i] = f[i - 1] + s[i]
  <2> SUFFICES ASSUME NEW i \in 1 .. L PROVE f[i] = f[i - 1] + s[i]
    OBVIOUS
  <2>1. i - 1 \in 0 .. L
    BY <1>1
  <2>2. f[i - 1] \in Int
    BY <2>1
  <2> QED  BY <1>2, <1>3, <2>2 DEF Unrolls
<1>5. Eq(f)
  <2>1. \A n \in 0 .. L : f[n] = IF n = 0 THEN 0 ELSE f[n - 1] + s[n]
    <3> SUFFICES ASSUME NEW n \in 0 .. L PROVE f[n] = IF n = 0 THEN 0 ELSE f[n - 1] + s[n]
      OBVIOUS
    <3>1. n = 0 \/ n \in 1 .. L
      BY <1>1
    <3> QED  BY <3>1, <1>3, <1>4 DEF Unrolls
  <2> QED  BY <2>1
<1>6. Sums(s) = CHOOSE g : Eq(g)
  BY DEF Sums, L
<1> DEFINE S == Sums(s)
<1>7. Eq(S)
  BY <1>5, <1>6
<1> HIDE DEF S
<1>8. S[0] = 0 /\ \A n \in 1 .. L : S[n] = S[n - 1] + s[n]
  BY <1>7, <1>1
<1>9. \A n \in 0 .. L : S[n] \in Int
  <2> DEFINE T == {n \in 0 .. L : S[n] \notin Int}
  <2> SUFFICES ASSUME T # {} PROVE FALSE
    OBVIOUS
  <2>1. T \in SUBSET Nat
    BY <1>1
  <2> HIDE DEF T
  <2>2. PICK k \in T : \A c \in T : k <= c
    BY <2>1, Least
  <2>3. k \in 0 .. L /\ S[k] \notin Int /\ \A c \in 0 .. L : c < k => S[c] \in Int
    BY <2>2 DEF T
  <2>4. k \in 1 .. L
    BY <2>3, <1>8, <1>1
  <2>5. k - 1 \in 0 .. L /\ k - 1 < k
    BY <2>4, <1>1
  <2>6. S[k - 1] \in Int /\ s[k] \in Int
    BY <2>3, <2>4, <2>5, <1>1
  <2> QED  BY <2>3, <2>4, <2>6, <1>8
<1> QED  BY <1>8, <1>9 DEF S, L

\* What is read of a list of snapshots are integers.
LEMMA ReadIntegers ==
    ASSUME NEW s, NEW m, Len(s) \in Nat, \A n \in 1 .. Len(s) : s[n][m] \in Int \cup {Missing}
    PROVE  Read(s, m) \in Seq(Int)
<1> DEFINE L == Len(s)
           V == Seq(Int)
           Eq(f) == f = [n \in 0 .. L |->
                            IF n = 0 THEN <<>>
                            ELSE IF s[n][m] = Missing THEN f[n - 1] ELSE Append(f[n - 1], s[n][m])]
           next == [p \in V \X (1 .. L) |->
                        IF s[p[2]][m] = Missing THEN p[1] ELSE Append(p[1], s[p[2]][m])]
<1>1. L \in Nat /\ \A n \in 1 .. L : s[n][m] \in Int \cup {Missing}
  OBVIOUS
<1>2. <<>> \in V /\ \A x \in V, i \in Int : Append(x, i) \in V
  OBVIOUS
<1> HIDE DEF L, V
<1>3. /\ next \in [V \X (1 .. L) -> V]
      /\ \A x \in V, i \in 1 .. L :
             next[<<x, i>>] = IF s[i][m] = Missing THEN x ELSE Append(x, s[i][m])
  BY <1>1, <1>2
<1> HIDE DEF next
<1>4. PICK f \in [0 .. L -> V] : Unrolls(f, <<>>, next, L)
  <2> DEFINE none == <<>>
  <2>1. none \in V
    BY <1>2
  <2> HIDE DEF none
  <2>2. \E f \in [0 .. L -> V] : Unrolls(f, none, next, L)
    BY <1>1, <1>3, <2>1, Recursion
  <2> QED  BY <2>2 DEF none
<1>5. \A i \in 1 .. L : f[i] = IF s[i][m] = Missing THEN f[i - 1] ELSE Append(f[i - 1], s[i][m])
  <2> SUFFICES ASSUME NEW i \in 1 .. L
               PROVE  f[i] = IF s[i][m] = Missing THEN f[i - 1] ELSE Append(f[i - 1], s[i][m])
    OBVIOUS
  <2>1. i - 1 \in 0 .. L
    BY <1>1
  <2>2. f[i - 1] \in V
    BY <2>1
  <2> QED  BY <1>3, <1>4, <2>2 DEF Unrolls
<1>6. Eq(f)
  <2>1. \A n \in 0 .. L : f[n] = IF n = 0 THEN <<>>
                            ELSE IF s[n][m] = Missing THEN f[n - 1] ELSE Append(f[n - 1], s[n][m])
    <3> SUFFICES ASSUME NEW n \in 0 .. L
                 PROVE  f[n] = IF n = 0 THEN <<>>
                            ELSE IF s[n][m] = Missing THEN f[n - 1] ELSE Append(f[n - 1], s[n][m])
      OBVIOUS
    <3>1. n = 0 \/ n \in 1 .. L
      BY <1>1
    <3>2. CASE n = 0  BY <3>2, <1>4 DEF Unrolls
    <3>3. CASE n \in 1 .. L
      <4>1. n # 0
        BY <3>3
      <4> QED  BY <3>3, <4>1, <1>5
    <3> QED  BY <3>1, <3>2, <3>3
  <2> QED  BY <2>1
<1> DEFINE all == CHOOSE g : Eq(g)
<1>7. Eq(all)
  BY <1>6
<1>8. Read(s, m) = all[L]
  BY DEF Read, L
<1> HIDE DEF all
<1>9. \A n \in 0 .. L : all[n] \in V
  <2> DEFINE T == {n \in 0 .. L : all[n] \notin V}
  <2> SUFFICES ASSUME T # {} PROVE FALSE
    OBVIOUS
  <2>1. T \in SUBSET Nat
    BY <1>1
  <2> HIDE DEF T
  <2>2. PICK k \in T : \A c \in T : k <= c
    BY <2>1, Least
  <2>3. k \in 0 .. L /\ all[k] \notin V /\ \A c \in 0 .. L : c < k => all[c] \in V
    BY <2>2 DEF T
  <2>4. all[k] = IF k = 0 THEN <<>>
                 ELSE IF s[k][m] = Missing THEN all[k - 1] ELSE Append(all[k - 1], s[k][m])
    BY <1>7, <2>3
  <2>5. k # 0
    BY <2>3, <2>4, <1>2
  <2>6. k \in 1 .. L /\ k - 1 \in 0 .. L /\ k - 1 < k
    BY <2>3, <2>5, <1>1
  <2>7. all[k - 1] \in V
    BY <2>3, <2>6
  <2>8. CASE s[k][m] = Missing  BY <2>3, <2>4, <2>5, <2>7, <2>8
  <2>9. CASE s[k][m] # Missing
    <3>1. Append(all[k - 1], s[k][m]) \in V
      BY <1>1, <1>2, <2>6, <2>7, <2>9
    <3> QED  BY <2>3, <2>4, <2>5, <2>9, <3>1
  <2> QED  BY <2>8, <2>9
<1> QED  BY <1>8, <1>9, <1>1 DEF V

-----------------------------------------------------------------------------
(* PromptGateway *)

\* A window is a list, of whatever.
ListLike(w) == \E n \in Nat : w = [i \in 1..n |-> w[i]]

LEMMA ListLikeIsSeq ==
    ASSUME NEW w, NEW n \in Nat, w = [i \in 1..n |-> w[i]]
    PROVE  w \in Seq({w[i] : i \in 1..n}) /\ Len(w) = n /\ DOMAIN w = 1..n
<1> DEFINE S == {w[i] : i \in 1..n}
<1>1. w \in [1..n -> S]
  OBVIOUS
<1> HIDE DEF S
<1>2. w \in Seq(S)
  BY <1>1
<1>3. DOMAIN w = 1..n /\ DOMAIN w = 1..Len(w) /\ Len(w) \in Nat
  BY <1>1, <1>2
<1>4. Len(w) = n
  BY <1>3
<1> QED  BY <1>2, <1>3, <1>4 DEF S

\* Leaving out other positions leaves the last where it was, at the end.
LEMMA WithoutKeepsLast ==
    ASSUME NEW n \in Nat, n >= 1, NEW a, DOMAIN a = 1..n, NEW R \in SUBSET (1..(n - 1))
    PROVE  \E K \in Nat : /\ K >= 1
                          /\ Without(a, R) = [k \in 1..K |-> Without(a, R)[k]]
                          /\ Without(a, R)[K] = a[n]
<1> DEFINE kept == DOMAIN a \ R
           upto(i) == {j \in kept : j <= i}
           K == Cardinality(kept)
           nth(k) == CHOOSE i \in kept : Cardinality(upto(i)) = k
<1>1. IsFiniteSet(kept) /\ K \in Nat /\ n \in kept
  <2>1. IsFiniteSet(1..n)
    BY FS_Interval
  <2>2. IsFiniteSet(kept)
    BY <2>1, FS_Subset
  <2> QED  BY <2>2, FS_CardinalityType
<1>2. K >= 1
  <2>1. kept # {}
    BY <1>1
  <2>2. K # 0
    BY <1>1, <2>1, FS_EmptySet
  <2> QED  BY <1>1, <2>2
<1>3. Cardinality(upto(n)) = K
  <2>1. upto(n) = kept
    OBVIOUS
  <2> QED  BY <2>1
<1>4. ASSUME NEW i \in kept, Cardinality(upto(i)) = K PROVE i = n
  <2>1. upto(i) \subseteq kept
    OBVIOUS
  <2>2. upto(i) = kept
    BY <1>1, <1>4, <2>1, FS_Subset
  <2>3. n \in upto(i)
    BY <1>1, <2>2
  <2> QED  BY <2>3
<1>5. nth(K) = n
  BY <1>1, <1>3, <1>4
<1>6. Without(a, R) = [k \in 1..K |-> a[nth(k)]]
  BY DEF Without
<1> HIDE DEF K, nth, kept
<1>7. Without(a, R) = [k \in 1..K |-> Without(a, R)[k]]
  BY <1>6
<1>8. Without(a, R)[K] = a[n]
  BY <1>1, <1>2, <1>5, <1>6
<1> QED  BY <1>1, <1>2, <1>7, <1>8

\* Pruning never loses the message that was just added.
LEMMA PruneKeepsLast ==
    ASSUME NEW u, ListLike(u), NEW m, NEW w \in Pruned(Append(u, m))
    PROVE  ListLike(w) /\ w # <<>> /\ w[Len(w)] = m
<1>0. MinKept \in Nat \ {0}
  BY PromptAssumption
<1>1. PICK p \in Nat : u = [i \in 1..p |-> u[i]]
  BY DEF ListLike
<1> DEFINE S == {u[i] : i \in 1..p}
           a == Append(u, m)
           n == p + 1
<1>2. u \in Seq(S) /\ Len(u) = p
  BY <1>1, ListLikeIsSeq
<1>3. u \in Seq(S \cup {m}) /\ m \in S \cup {m}
  BY <1>2
<1> HIDE DEF S
<1>4. a \in Seq(S \cup {m}) /\ Len(a) = n /\ DOMAIN a = 1..n /\ a[n] = m
  BY <1>2, <1>3
<1>5. PICK R \in SUBSET (1..(n - 1)), k \in 0..n :
          LET s == Without(a, R) IN
          /\ k = 0 \/ Len(s) - k >= MinKept
          /\ w = SubSeq(s, k + 1, Len(s))
  <2> HIDE DEF a, n
  <2>1. w \in Pruned(a)
    BY DEF a
  <2>2. Len(a) = n
    BY <1>4
  <2> QED  BY <2>1, <2>2, ZenonT(30) DEF Pruned
<1> DEFINE s == Without(a, R)
<1>6. PICK K \in Nat : K >= 1 /\ s = [j \in 1..K |-> s[j]] /\ s[K] = m
  <2>1. n \in Nat /\ n >= 1
    OBVIOUS
  <2> HIDE DEF n, a
  <2> QED  BY <1>4, <2>1, WithoutKeepsLast
<1> HIDE DEF s, a, n
<1>7. Len(s) = K /\ DOMAIN s = 1..K
  BY <1>6, ListLikeIsSeq
<1>8. k \in Nat /\ K - k >= 1 /\ w = SubSeq(s, k + 1, K)
  <2>1. k \in Nat
    BY DEF n
  <2>2. (k = 0 \/ Len(s) - k >= MinKept) /\ w = SubSeq(s, k + 1, Len(s))
    BY <1>5 DEF s
  <2> QED  BY <1>0, <1>6, <1>7, <2>1, <2>2
<1> DEFINE T == {s[j] : j \in 1..K}
<1>9. s \in Seq(T)
  BY <1>6, ListLikeIsSeq
<1> HIDE DEF T
<1>10. /\ w \in Seq(T) /\ Len(w) = K - k
       /\ \A j \in 1..(K - k) : w[j] = s[j + k]
  <2>1. k + 1 \in Int /\ K \in Int /\ \A i \in (k + 1)..K : s[i] \in T
    BY <1>6, <1>8 DEF T
  <2>2. /\ SubSeq(s, k + 1, K) \in Seq(T)
        /\ Len(SubSeq(s, k + 1, K)) = IF k + 1 <= K THEN K - (k + 1) + 1 ELSE 0
        /\ \A j \in 1..(K - (k + 1) + 1) : SubSeq(s, k + 1, K)[j] = s[(k + 1) + j - 1]
    BY <2>1, SubSeqProperties
  <2>3. K - (k + 1) + 1 = K - k /\ k + 1 <= K
    BY <1>6, <1>8
  <2>4. \A j \in 1..(K - k) : (k + 1) + j - 1 = j + k
    BY <1>6, <1>8
  <2> QED  BY <1>8, <2>2, <2>3, <2>4
<1>11. K - k \in Nat
  BY <1>6, <1>8
<1>12. w = [j \in 1..(K - k) |-> w[j]] /\ w # <<>>
  <2>1. DOMAIN w = 1..(K - k) /\ w = [j \in DOMAIN w |-> w[j]]
    BY <1>10
  <2>2. 1 \in DOMAIN w
    BY <1>8, <1>11, <2>1
  <2> QED  BY <2>1, <2>2
<1>13. w[K - k] = m
  BY <1>6, <1>8, <1>10, <1>11, SMTT(30)
<1> QED  BY <1>10, <1>11, <1>12, <1>13 DEF ListLike

CallStages == {"off", "idle", "counted", "numbered", "looked", "loaded", "windowed", "recorded",
           "judged", "done"}
Looked == {"looked", "loaded", "windowed", "recorded", "judged", "done"}
CallFields == {"pc", "nr", "counter", "msg", "window", "loaded"}

\* A message that is not clear.
Unclear(m) == m.text.doubt \in {"very low", "intent"}

\* A call, and the message it is at: its own, with the number it counted last.
CallShaped(c, x) ==
    /\ DOMAIN x = CallFields
    /\ x.pc \in CallStages /\ x.nr \in Nat /\ x.counter \in Nat
    /\ ListLike(x.window)
    /\ x.pc \notin {"off", "idle"} => x.nr > 0
    /\ x.pc = "off" => x.nr = 0
    /\ x.nr > 0 => x.msg.by = c /\ x.msg.id[2] = x.counter

CallsShaped ==
    /\ DOMAIN call = Calls /\ counter \in Nat /\ ListLike(window)
    /\ \A c \in Calls : CallShaped(c, call[c])

\* A record is of its id; and of the messages of one call only the last has the call's number.
RecordsShaped ==
    \A i \in DOMAIN records :
        LET r == records[i] IN
        /\ r.id = i /\ r.by \in Calls /\ call[r.by].nr > 0
        /\ i[2] \in Nat /\ i[2] <= call[r.by].counter
        /\ i[2] = call[r.by].counter => r = call[r.by].msg

\* Another call's record is under the id of m.
OthersRecord(m) == m.id \in DOMAIN records /\ records[m.id].by # m.by

\* An unclear message that goes through was judged by another's record.
JudgedByOthers ==
    /\ \A c \in Calls :
        /\ call[c].pc \in {"recorded", "judged"} => call[c].msg.id \in DOMAIN records
        /\ call[c].pc = "judged" /\ Unclear(call[c].msg) => OthersRecord(call[c].msg)
    /\ \A h \in handed :
        /\ h[1].by \in Calls /\ call[h[1].by].pc = "done" /\ call[h[1].by].msg = h[1]
        /\ Unclear(h[1]) => OthersRecord(h[1])

PromptInv == CallsShaped /\ RecordsShaped /\ JudgedByOthers /\ LastWordKept /\ SeenByOwner

LEMMA PromptBegins == PromptInit => PromptInv
<1> SUFFICES ASSUME PromptInit PROVE PromptInv
  OBVIOUS
<1> USE DEF PromptInit
<1>1. ListLike(<<>>)
  <2>1. <<>> = [i \in 1..0 |-> <<>>[i]]
    OBVIOUS
  <2> QED  BY <2>1 DEF ListLike
<1>2. PICK b \in BOOLEAN : b = FALSE
  OBVIOUS
<1> DEFINE x == [pc |-> "off", nr |-> 0, counter |-> 0, msg |-> 0, window |-> <<>>, loaded |-> b]
<1>3. call = [c \in Calls |-> x]
  BY <1>2, Zenon
<1>4. \A c \in Calls : CallShaped(c, x)
  BY <1>1 DEF CallShaped, CallFields, CallStages
<1>5. x.pc = "off"
  OBVIOUS
<1> HIDE DEF x
<1>6. CallsShaped
  BY <1>1, <1>3, <1>4 DEF CallsShaped
<1>7. \A c \in Calls : call[c].pc = "off"
  BY <1>3, <1>5
<1>8. DOMAIN records = {} /\ handed = {}
  OBVIOUS
<1>9. RecordsShaped /\ JudgedByOthers
  BY <1>7, <1>8 DEF RecordsShaped, JudgedByOthers
<1>10. LastWordKept /\ SeenByOwner
  BY <1>7 DEF LastWordKept, SeenByOwner, CallAt
<1> QED  BY <1>6, <1>9, <1>10 DEF PromptInv

\* One call moves to x, and the others stay.
Moves(c, x) ==
    /\ call' = [call EXCEPT ![c] = x] /\ CallShaped(c, x)

LEMMA MovesOne ==
    ASSUME PromptInv, NEW c \in Calls, NEW x, Moves(c, x), counter' \in Nat, ListLike(window)'
    PROVE  /\ CallsShaped' /\ call'[c] = x
           /\ \A d \in Calls \ {c} : call'[d] = call[d]
<1>1. DOMAIN call = Calls /\ \A d \in Calls : CallShaped(d, call[d])
  BY DEF PromptInv, CallsShaped
<1>2. DOMAIN call' = Calls /\ call'[c] = x /\ \A d \in Calls \ {c} : call'[d] = call[d]
  BY <1>1 DEF Moves
<1>3. \A d \in Calls : CallShaped(d, call'[d])
  BY <1>1, <1>2 DEF Moves
<1> QED  BY <1>2, <1>3 DEF CallsShaped

\* While it still has its message to save, a call changes no record and hands nothing over.
LEMMA MovesBefore ==
    ASSUME PromptInv, NEW c \in Calls, NEW x, Moves(c, x), counter' \in Nat, ListLike(window)',
           x.msg = call[c].msg, x.counter = call[c].counter, x.nr = call[c].nr,
           call[c].pc # "done", x.pc \notin {"recorded", "judged"},
           UNCHANGED <<records, handed>>
    PROVE  CallsShaped' /\ RecordsShaped' /\ JudgedByOthers'
<1>1. /\ CallsShaped' /\ call'[c] = x
      /\ \A d \in Calls \ {c} : call'[d] = call[d]
  BY MovesOne
<1>2. \A d \in Calls : call'[d].msg = call[d].msg /\ call'[d].counter = call[d].counter
                        /\ call'[d].nr = call[d].nr
  BY <1>1
<1>3. RecordsShaped'
  BY <1>2 DEF PromptInv, RecordsShaped
<1>4. \A h \in handed : h[1].by \in Calls /\ h[1].by # c
  BY DEF PromptInv, JudgedByOthers
<1>5. JudgedByOthers'
  BY <1>1, <1>4 DEF PromptInv, JudgedByOthers, OthersRecord
<1> QED  BY <1>1, <1>3, <1>5

\* Whoever only reads the window, leaves every last word where it is.
LEMMA LastWordStays ==
    ASSUME PromptInv, NEW c \in Calls, NEW x, call'[c] = x,
           \A d \in Calls \ {c} : call'[d] = call[d],
           x.pc # "windowed", x.window = call[c].window \/ x.window = window, window' = window
    PROVE  LastWordKept'
<1> SUFFICES ASSUME NEW d \in Calls, CallAt(d, "windowed")'
             PROVE  \/ window # <<>> /\ window[Len(window)] = call'[d].msg
                    \/ \E e \in Calls \ {d} : call'[e].window = window
  BY DEF LastWordKept, CallAt
<1>1. d # c /\ call'[d] = call[d] /\ CallAt(d, "windowed")
  BY DEF CallAt
<1>2. CASE window # <<>> /\ window[Len(window)] = call[d].msg
  BY <1>1, <1>2
<1>3. ASSUME NEW e \in Calls \ {d}, call[e].window = window
      PROVE  call'[e].window = window
  BY <1>3
<1> QED  BY <1>1, <1>2, <1>3 DEF PromptInv, LastWordKept

\* What has been seen or could not be saved stays so.
LEMMA SeenStays ==
    ASSUME PromptInv, NEW c \in Calls, NEW x, call'[c] = x,
           \A d \in Calls \ {c} : call'[d] = call[d],
           flagged \subseteq flagged', unsaved \subseteq unsaved',
           x.pc \in Looked /\ MustBeSeen(x.msg.text) => x.msg \in flagged' \cup unsaved'
    PROVE  SeenByOwner'
<1> SUFFICES ASSUME NEW d \in Calls, call'[d].pc \in Looked, MustBeSeen(call'[d].msg.text)
             PROVE  call'[d].msg \in flagged' \cup unsaved'
  BY DEF SeenByOwner, Looked
<1>1. CASE d = c
  BY <1>1
<1>2. CASE d # c
  BY <1>2 DEF PromptInv, SeenByOwner, Looked
<1> QED  BY <1>1, <1>2

\* The fields of a call after a move.
LEMMA CallMoved ==
    ASSUME PromptInv, NEW c \in Calls
    PROVE  /\ CallShaped(c, call[c]) /\ DOMAIN call[c] = CallFields
           /\ \A p : [call[c] EXCEPT !.pc = p].pc = p
                     /\ [call[c] EXCEPT !.pc = p].nr = call[c].nr
                     /\ [call[c] EXCEPT !.pc = p].counter = call[c].counter
                     /\ [call[c] EXCEPT !.pc = p].msg = call[c].msg
                     /\ [call[c] EXCEPT !.pc = p].window = call[c].window
                     /\ DOMAIN [call[c] EXCEPT !.pc = p] = CallFields
<1>1. CallShaped(c, call[c])
  BY DEF PromptInv, CallsShaped
<1> QED  BY <1>1 DEF CallShaped, CallFields

LEMMA GoesMoves ==
    ASSUME PromptInv, NEW c \in Calls, NEW p \in CallStages \ {"off"}, CallGoes(c, p),
           call[c].pc \notin {"off", "idle"} \/ p = "idle"
    PROVE  Moves(c, [call[c] EXCEPT !.pc = p])
<1>1. call' = [call EXCEPT ![c] = [call[c] EXCEPT !.pc = p]]
  BY DEF CallGoes
<1>2. CallShaped(c, [call[c] EXCEPT !.pc = p])
  BY CallMoved DEF CallShaped
<1> QED  BY <1>1, <1>2 DEF Moves

\* A step between two places before the record is saved.
LEMMA GoesKeeps ==
    ASSUME PromptInv, NEW c \in Calls, NEW p \in {"numbered", "looked"}, CallGoes(c, p),
           call[c].pc \in {"counted", "numbered"},
           UNCHANGED <<window, records, handed>>, counter' \in Nat,
           flagged \subseteq flagged', unsaved \subseteq unsaved',
           p = "looked" /\ MustBeSeen(call[c].msg.text) => call[c].msg \in flagged' \cup unsaved'
    PROVE  PromptInv'
<1> DEFINE x == [call[c] EXCEPT !.pc = p]
<1>1. Moves(c, x)
  BY GoesMoves DEF CallStages
<1>2. x.pc = p /\ x.msg = call[c].msg /\ x.counter = call[c].counter /\ x.nr = call[c].nr
      /\ x.window = call[c].window
  BY CallMoved
<1> HIDE DEF x
<1>3. ListLike(window)'
  BY DEF PromptInv, CallsShaped
<1>4. CallsShaped' /\ RecordsShaped' /\ JudgedByOthers'
  BY <1>1, <1>2, <1>3, MovesBefore
<1>5. call'[c] = x /\ \A d \in Calls \ {c} : call'[d] = call[d]
  BY <1>1, <1>3, MovesOne
<1>6. LastWordKept'
  BY <1>2, <1>5, LastWordStays
<1>7. SeenByOwner'
  BY <1>2, <1>5, SeenStays DEF Looked
<1> QED  BY <1>4, <1>6, <1>7 DEF PromptInv

LEMMA StartsKeeps == ASSUME PromptInv, NEW c \in Calls, Starts(c) PROVE PromptInv'
<1> DEFINE x == [call[c] EXCEPT !.pc = "idle", !.counter = counter]
<1>1. call[c].pc = "off" /\ call[c].nr = 0 /\ CallShaped(c, call[c])
  BY CallMoved DEF Starts, CallAt, CallShaped
<1>2. /\ x.pc = "idle" /\ x.nr = 0 /\ x.counter = counter /\ x.window = call[c].window
      /\ DOMAIN x = CallFields
  BY <1>1 DEF CallShaped, CallFields
<1>3. counter \in Nat /\ ListLike(window)
  BY DEF PromptInv, CallsShaped
<1>4. call' = [call EXCEPT ![c] = x] /\ UNCHANGED <<second, counter, window, records, flagged, handed, unsaved>>
  BY DEF Starts
<1> HIDE DEF x
<1>5. Moves(c, x)
  BY <1>1, <1>2, <1>3, <1>4 DEF Moves, CallShaped, CallStages
<1>6. CallsShaped' /\ call'[c] = x /\ \A d \in Calls \ {c} : call'[d] = call[d]
  BY <1>3, <1>4, <1>5, MovesOne
<1>7. \A i \in DOMAIN records : records[i].by \in Calls /\ records[i].by # c
  BY <1>1 DEF PromptInv, RecordsShaped
<1>8. RecordsShaped'
  BY <1>4, <1>6, <1>7 DEF PromptInv, RecordsShaped
<1>9. \A h \in handed : h[1].by \in Calls /\ h[1].by # c
  BY <1>1 DEF PromptInv, JudgedByOthers
<1>10. JudgedByOthers'
  BY <1>2, <1>4, <1>6, <1>9 DEF PromptInv, JudgedByOthers, OthersRecord
<1>11. LastWordKept'
  BY <1>2, <1>4, <1>6, LastWordStays
<1>12. SeenByOwner'
  BY <1>2, <1>4, <1>6, SeenStays DEF Looked
<1> QED  BY <1>6, <1>8, <1>10, <1>11, <1>12 DEF PromptInv

LEMMA NumbersKeeps == ASSUME PromptInv, NEW c \in Calls, Numbers(c) PROVE PromptInv'
<1> DEFINE n == call[c].counter + 1
<1>1. call[c].pc = "idle" /\ CallShaped(c, call[c])
  BY CallMoved DEF Numbers, CallAt
<1>2. PICK t \in Texts :
        call' = [call EXCEPT
                    ![c].pc = "counted", ![c].counter = n, ![c].nr = call[c].nr + 1,
                    ![c].msg = [by |-> c, nr |-> call[c].nr + 1, text |-> t,
                                id |-> <<second, n>>]]
  BY DEF Numbers
<1> DEFINE m == [by |-> c, nr |-> call[c].nr + 1, text |-> t, id |-> <<second, n>>]
           x == [call[c] EXCEPT !.pc = "counted", !.counter = n, !.nr = call[c].nr + 1, !.msg = m]
<1>3. call' = [call EXCEPT ![c] = x]
  BY <1>2
<1>4. m.by = c /\ m.id[2] = n
  OBVIOUS
<1> HIDE DEF m
<1>5. /\ x.pc = "counted" /\ x.nr = call[c].nr + 1 /\ x.counter = n /\ x.msg = m
      /\ x.window = call[c].window /\ DOMAIN x = CallFields
  BY <1>1 DEF CallShaped, CallFields
<1> HIDE DEF x
<1>6. Moves(c, x)
  BY <1>1, <1>3, <1>4, <1>5 DEF Moves, CallShaped, CallStages
<1>7. counter' \in Nat /\ ListLike(window)' /\ UNCHANGED <<second, window, records, flagged, handed, unsaved>>
  BY DEF Numbers, PromptInv, CallsShaped
<1>8. CallsShaped' /\ call'[c] = x /\ \A d \in Calls \ {c} : call'[d] = call[d]
  BY <1>6, <1>7, MovesOne
<1>9. RecordsShaped'
  <2> SUFFICES ASSUME NEW i \in DOMAIN records
               PROVE  LET r == records[i] IN
                      /\ r.id = i /\ r.by \in Calls /\ call'[r.by].nr > 0
                      /\ i[2] \in Nat /\ i[2] <= call'[r.by].counter
                      /\ i[2] = call'[r.by].counter => r = call'[r.by].msg
    BY <1>7 DEF RecordsShaped
  <2>1. LET r == records[i] IN
        /\ r.id = i /\ r.by \in Calls /\ call[r.by].nr > 0
        /\ i[2] \in Nat /\ i[2] <= call[r.by].counter
        /\ i[2] = call[r.by].counter => r = call[r.by].msg
    BY DEF PromptInv, RecordsShaped
  <2>2. CASE records[i].by # c
    BY <1>8, <2>1, <2>2
  <2>3. CASE records[i].by = c
    <3>1. call[c].counter \in Nat /\ call[c].nr \in Nat /\ i[2] \in Nat /\ i[2] <= call[c].counter
      BY <1>1, <2>1, <2>3 DEF CallShaped
    <3>2. i[2] <= n /\ i[2] # n
      BY <3>1
    <3> QED  BY <1>5, <1>8, <2>1, <2>3, <3>1, <3>2
  <2> QED  BY <2>2, <2>3
<1>10. \A h \in handed : h[1].by \in Calls /\ h[1].by # c
  BY <1>1 DEF PromptInv, JudgedByOthers
<1>11. JudgedByOthers'
  BY <1>5, <1>7, <1>8, <1>10 DEF PromptInv, JudgedByOthers, OthersRecord
<1>12. LastWordKept'
  BY <1>5, <1>7, <1>8, LastWordStays
<1>13. SeenByOwner'
  BY <1>5, <1>7, <1>8, SeenStays DEF Looked
<1> QED  BY <1>8, <1>9, <1>11, <1>12, <1>13 DEF PromptInv

LEMMA LoadsKeeps == ASSUME PromptInv, NEW c \in Calls, LoadsWindow(c) PROVE PromptInv'
<1>1. call[c].pc = "looked" /\ CallShaped(c, call[c])
  BY CallMoved DEF LoadsWindow, CallAt
<1>2. PICK b \in BOOLEAN : b = TRUE
  OBVIOUS
<1>3. PICK w \in {call[c].window, window} : w = IF call[c].loaded THEN call[c].window ELSE window
  BY Zenon
<1> DEFINE x == [call[c] EXCEPT !.pc = "loaded", !.loaded = b, !.window = w]
<1>4. call' = [call EXCEPT ![c] = x]
  BY <1>2, <1>3, Zenon DEF LoadsWindow
<1>5. /\ x.pc = "loaded" /\ x.nr = call[c].nr /\ x.counter = call[c].counter
      /\ x.msg = call[c].msg /\ x.window = w /\ DOMAIN x = CallFields
  BY <1>1 DEF CallShaped, CallFields
<1>6. UNCHANGED <<second, counter, window, records, flagged, handed, unsaved>>
  BY DEF LoadsWindow
<1>7. counter \in Nat /\ ListLike(window) /\ ListLike(w)
  BY <1>1, <1>3 DEF PromptInv, CallsShaped, CallShaped
<1> HIDE DEF x
<1>8. Moves(c, x)
  BY <1>1, <1>4, <1>5, <1>7 DEF Moves, CallShaped, CallStages
<1>9. CallsShaped' /\ RecordsShaped' /\ JudgedByOthers'
  BY <1>1, <1>5, <1>6, <1>7, <1>8, MovesBefore
<1>10. call'[c] = x /\ \A d \in Calls \ {c} : call'[d] = call[d]
  BY <1>6, <1>7, <1>8, MovesOne
<1>11. LastWordKept'
  BY <1>3, <1>5, <1>6, <1>10, LastWordStays
<1>12. SeenByOwner'
  BY <1>1, <1>5, <1>6, <1>10, SeenStays DEF Looked, PromptInv, SeenByOwner
<1> QED  BY <1>9, <1>11, <1>12 DEF PromptInv

LEMMA SavesWindowKeeps == ASSUME PromptInv, NEW c \in Calls, SavesWindow(c) PROVE PromptInv'
<1>1. call[c].pc = "loaded" /\ CallShaped(c, call[c])
  BY CallMoved DEF SavesWindow, CallAt
<1>2. PICK w \in Pruned(Append(call[c].window, call[c].msg)) :
        window' = w /\ call' = [call EXCEPT ![c].pc = "windowed", ![c].window = w]
  BY DEF SavesWindow
<1>3. ListLike(w) /\ w # <<>> /\ w[Len(w)] = call[c].msg
  BY <1>1, PruneKeepsLast DEF CallShaped
<1> DEFINE x == [call[c] EXCEPT !.pc = "windowed", !.window = w]
<1>4. call' = [call EXCEPT ![c] = x] /\ window' = w
  BY <1>2
<1>5. /\ x.pc = "windowed" /\ x.nr = call[c].nr /\ x.counter = call[c].counter
      /\ x.msg = call[c].msg /\ x.window = w /\ DOMAIN x = CallFields
  BY <1>1 DEF CallShaped, CallFields
<1>6. UNCHANGED <<second, counter, records, flagged, handed, unsaved>>
  BY DEF SavesWindow
<1>7. counter \in Nat
  BY DEF PromptInv, CallsShaped
<1> HIDE DEF x
<1>8. Moves(c, x)
  BY <1>1, <1>3, <1>4, <1>5 DEF Moves, CallShaped, CallStages
<1>9. CallsShaped' /\ RecordsShaped' /\ JudgedByOthers'
  BY <1>1, <1>3, <1>4, <1>5, <1>6, <1>7, <1>8, MovesBefore
<1>10. call'[c] = x /\ \A d \in Calls \ {c} : call'[d] = call[d]
  BY <1>3, <1>4, <1>6, <1>7, <1>8, MovesOne
<1>11. LastWordKept'
  <2> SUFFICES ASSUME NEW d \in Calls
               PROVE  \/ w # <<>> /\ w[Len(w)] = call'[d].msg
                      \/ \E e \in Calls \ {d} : call'[e].window = w
    BY <1>4 DEF LastWordKept
  <2>1. CASE d = c
    BY <1>3, <1>5, <1>10, <2>1
  <2>2. CASE d # c
    BY <1>5, <1>10, <2>2
  <2> QED  BY <2>1, <2>2
<1>12. SeenByOwner'
  BY <1>1, <1>5, <1>6, <1>10, SeenStays DEF Looked, PromptInv, SeenByOwner
<1> QED  BY <1>9, <1>11, <1>12 DEF PromptInv

LEMMA SavesRecordKeeps == ASSUME PromptInv, NEW c \in Calls, SavesRecord(c) PROVE PromptInv'
<1> DEFINE m == call[c].msg
<1>1. call[c].pc = "windowed" /\ CallShaped(c, call[c])
  BY CallMoved DEF SavesRecord, CallAt
<1>2. PICK p \in {"idle", "recorded"} : p = IF c \in Piped THEN "idle" ELSE "recorded"
  OBVIOUS
<1> DEFINE x == [call[c] EXCEPT !.pc = p]
<1>3. CallGoes(c, p)
  BY <1>2 DEF SavesRecord
<1>4. Moves(c, x)
  BY <1>1, <1>3, GoesMoves DEF CallStages
<1>5. x.pc = p /\ x.msg = m /\ x.counter = call[c].counter /\ x.nr = call[c].nr
      /\ x.window = call[c].window
  BY CallMoved
<1> HIDE DEF x
<1>6. UNCHANGED <<second, counter, window, flagged, handed, unsaved>>
  BY DEF SavesRecord
<1>7. counter \in Nat /\ ListLike(window)
  BY DEF PromptInv, CallsShaped
<1>8. CallsShaped' /\ call'[c] = x /\ \A d \in Calls \ {c} : call'[d] = call[d]
  BY <1>4, <1>6, <1>7, MovesOne
<1>9. m.by = c /\ m.id[2] = call[c].counter /\ call[c].counter \in Nat /\ call[c].nr > 0
      /\ call[c].nr \in Nat
  BY <1>1 DEF CallShaped
<1>10. /\ DOMAIN records' = DOMAIN records \cup {m.id}
       /\ records'[m.id] = m
       /\ \A i \in DOMAIN records \ {m.id} : records'[i] = records[i]
  BY DEF SavesRecord
<1>11. RecordsShaped'
  <2> SUFFICES ASSUME NEW i \in DOMAIN records'
               PROVE  LET r == records'[i] IN
                      /\ r.id = i /\ r.by \in Calls /\ call'[r.by].nr > 0
                      /\ i[2] \in Nat /\ i[2] <= call'[r.by].counter
                      /\ i[2] = call'[r.by].counter => r = call'[r.by].msg
    BY DEF RecordsShaped
  <2>0. \A d \in Calls : call'[d].msg = call[d].msg /\ call'[d].counter = call[d].counter
                          /\ call'[d].nr = call[d].nr
    BY <1>5, <1>8
  <2>1. CASE i = m.id
    <3>1. i[2] = call[c].counter /\ i[2] <= call[c].counter
      BY <1>9, <2>1
    <3> QED  BY <1>9, <1>10, <2>0, <2>1, <3>1
  <2>2. CASE i # m.id
    <3>1. i \in DOMAIN records /\ records'[i] = records[i]
      BY <1>10, <2>2
    <3> QED  BY <2>0, <3>1 DEF PromptInv, RecordsShaped
  <2> QED  BY <2>1, <2>2
<1>12. JudgedByOthers'
  <2>1. ASSUME NEW o, OthersRecord(o), o.by # c PROVE OthersRecord(o)'
    BY <1>9, <1>10, <2>1 DEF OthersRecord
  <2>2. \A h \in handed : h[1].by \in Calls /\ h[1].by # c
    BY <1>1 DEF PromptInv, JudgedByOthers
  <2>3. \A h \in handed' : /\ h[1].by \in Calls /\ call'[h[1].by].pc = "done"
                           /\ call'[h[1].by].msg = h[1]
                           /\ Unclear(h[1]) => OthersRecord(h[1])'
    BY <1>6, <1>8, <2>1, <2>2 DEF PromptInv, JudgedByOthers
  <2>4. ASSUME NEW d \in Calls
        PROVE  /\ call'[d].pc \in {"recorded", "judged"} => call'[d].msg.id \in DOMAIN records'
               /\ call'[d].pc = "judged" /\ Unclear(call'[d].msg) => OthersRecord(call[d].msg)'
    <3>1. CASE d = c
      BY <1>5, <1>8, <1>10, <3>1
    <3>2. CASE d # c
      <4>1. call'[d] = call[d]
        BY <1>8, <3>2
      <4>2. call[d].pc = "judged" => call[d].msg.by = d
        BY DEF PromptInv, CallsShaped, CallShaped
      <4>3. call[d].pc = "judged" /\ Unclear(call[d].msg) => OthersRecord(call[d].msg)
        BY DEF PromptInv, JudgedByOthers
      <4>4. OthersRecord(call[d].msg) /\ call[d].msg.by = d => OthersRecord(call[d].msg)'
        BY <1>9, <1>10, <3>2, <4>1 DEF OthersRecord
      <4>5. call[d].pc \in {"recorded", "judged"} => call[d].msg.id \in DOMAIN records'
        BY <1>10 DEF PromptInv, JudgedByOthers
      <4> QED  BY <4>1, <4>2, <4>3, <4>4, <4>5
    <3> QED  BY <3>1, <3>2
  <2> QED  BY <2>3, <2>4 DEF JudgedByOthers, OthersRecord
<1>13. LastWordKept'
  BY <1>5, <1>6, <1>8, LastWordStays
<1>14. SeenByOwner'
  BY <1>1, <1>5, <1>6, <1>8, SeenStays DEF Looked, PromptInv, SeenByOwner
<1> QED  BY <1>8, <1>11, <1>12, <1>13, <1>14 DEF PromptInv

LEMMA JudgesKeeps == ASSUME PromptInv, NEW c \in Calls, Judges(c) PROVE PromptInv'
<1> DEFINE m == call[c].msg
<1>1. call[c].pc = "recorded" /\ CallShaped(c, call[c])
  BY CallMoved DEF Judges, CallAt
<1>2. PICK p \in {"judged", "done"} :
          p = IF m.text.route # "none" /\ ~NeedsClarification(m.id) THEN "judged" ELSE "done"
  OBVIOUS
<1> DEFINE x == [call[c] EXCEPT !.pc = p]
<1>3. CallGoes(c, p)
  BY <1>2 DEF Judges
<1>4. Moves(c, x)
  BY <1>1, <1>3, GoesMoves DEF CallStages
<1>5. x.pc = p /\ x.msg = m /\ x.counter = call[c].counter /\ x.nr = call[c].nr
      /\ x.window = call[c].window
  BY CallMoved
<1> HIDE DEF x
<1>6. UNCHANGED <<second, counter, window, records, flagged, handed, unsaved>>
  BY DEF Judges
<1>7. counter \in Nat /\ ListLike(window)
  BY DEF PromptInv, CallsShaped
<1>8. CallsShaped' /\ call'[c] = x /\ \A d \in Calls \ {c} : call'[d] = call[d]
  BY <1>4, <1>6, <1>7, MovesOne
<1>9. RecordsShaped'
  <2>1. \A d \in Calls : call'[d].msg = call[d].msg /\ call'[d].counter = call[d].counter
                          /\ call'[d].nr = call[d].nr
    BY <1>5, <1>8
  <2> QED  BY <1>6, <2>1 DEF PromptInv, RecordsShaped
<1>10. m.by = c /\ m.id[2] = call[c].counter /\ m.id \in DOMAIN records
  BY <1>1 DEF CallShaped, PromptInv, JudgedByOthers
<1>11. p = "judged" /\ Unclear(m) => OthersRecord(m)
  <2> SUFFICES ASSUME p = "judged", Unclear(m), records[m.id].by = c PROVE FALSE
    BY <1>10 DEF OthersRecord
  <2>1. ~NeedsClarification(m.id)
    BY <1>2
  <2>2. records[m.id] = m
    BY <1>10 DEF PromptInv, RecordsShaped
  <2> QED  BY <2>1, <2>2 DEF NeedsClarification, Unclear
<1>12. JudgedByOthers'
  <2>1. \A h \in handed : h[1].by \in Calls /\ h[1].by # c
    BY <1>1 DEF PromptInv, JudgedByOthers
  <2> QED  BY <1>5, <1>6, <1>8, <1>10, <1>11, <2>1 DEF PromptInv, JudgedByOthers, OthersRecord
<1>13. LastWordKept'
  BY <1>5, <1>6, <1>8, LastWordStays
<1>14. SeenByOwner'
  BY <1>1, <1>5, <1>6, <1>8, SeenStays DEF Looked, PromptInv, SeenByOwner
<1> QED  BY <1>8, <1>9, <1>12, <1>13, <1>14 DEF PromptInv

LEMMA HandsOverKeeps == ASSUME PromptInv, NEW c \in Calls, HandsOver(c) PROVE PromptInv'
<1> DEFINE m == call[c].msg
           x == [call[c] EXCEPT !.pc = "done"]
<1>1. call[c].pc = "judged" /\ CallShaped(c, call[c])
  BY CallMoved DEF HandsOver, CallAt
<1>2. PICK how : handed' = handed \cup {<<m, how>>}
  BY DEF HandsOver
<1>3. CallGoes(c, "done")
  BY DEF HandsOver
<1>4. Moves(c, x)
  BY <1>1, <1>3, GoesMoves DEF CallStages
<1>5. x.pc = "done" /\ x.msg = m /\ x.counter = call[c].counter /\ x.nr = call[c].nr
      /\ x.window = call[c].window
  BY CallMoved
<1> HIDE DEF x
<1>6. UNCHANGED <<second, counter, window, records, flagged, unsaved>>
  BY DEF HandsOver
<1>7. counter \in Nat /\ ListLike(window)
  BY DEF PromptInv, CallsShaped
<1>8. CallsShaped' /\ call'[c] = x /\ \A d \in Calls \ {c} : call'[d] = call[d]
  BY <1>4, <1>6, <1>7, MovesOne
<1>9. RecordsShaped'
  <2>1. \A d \in Calls : call'[d].msg = call[d].msg /\ call'[d].counter = call[d].counter
                          /\ call'[d].nr = call[d].nr
    BY <1>5, <1>8
  <2> QED  BY <1>6, <2>1 DEF PromptInv, RecordsShaped
<1>10. m.by = c /\ (Unclear(m) => OthersRecord(m))
  BY <1>1 DEF CallShaped, PromptInv, JudgedByOthers
<1>11. JudgedByOthers'
  <2>1. \A h \in handed : h[1].by \in Calls /\ h[1].by # c
    BY <1>1 DEF PromptInv, JudgedByOthers
  <2>2. \A h \in handed' : /\ h[1].by \in Calls /\ call'[h[1].by].pc = "done"
                           /\ call'[h[1].by].msg = h[1]
                           /\ Unclear(h[1]) => OthersRecord(h[1])
    <3>1. ASSUME NEW h \in handed PROVE
             /\ h[1].by \in Calls /\ call'[h[1].by].pc = "done" /\ call'[h[1].by].msg = h[1]
             /\ Unclear(h[1]) => OthersRecord(h[1])
      BY <1>8, <2>1 DEF PromptInv, JudgedByOthers
    <3>2. <<m, how>>[1] = m
      OBVIOUS
    <3>3. ASSUME NEW h, h = <<m, how>> PROVE
             /\ h[1].by \in Calls /\ call'[h[1].by].pc = "done" /\ call'[h[1].by].msg = h[1]
             /\ Unclear(h[1]) => OthersRecord(h[1])
      BY <1>5, <1>8, <1>10, <3>2, <3>3
    <3> HIDE DEF m
    <3> QED  BY <1>2, <3>1, <3>3
  <2>3. \A d \in Calls :
          /\ call'[d].pc \in {"recorded", "judged"} => call'[d].msg.id \in DOMAIN records
          /\ call'[d].pc = "judged" /\ Unclear(call'[d].msg) => OthersRecord(call'[d].msg)
    BY <1>5, <1>8 DEF PromptInv, JudgedByOthers
  <2> QED  BY <1>6, <2>2, <2>3 DEF JudgedByOthers, OthersRecord
<1>12. LastWordKept'
  BY <1>5, <1>6, <1>8, LastWordStays
<1>13. SeenByOwner'
  BY <1>1, <1>5, <1>6, <1>8, SeenStays DEF Looked, PromptInv, SeenByOwner
<1> QED  BY <1>8, <1>9, <1>11, <1>12, <1>13 DEF PromptInv

LEMMA PromptGoesOn == PromptInv /\ [PromptNext]_promptvars => PromptInv'
<1> SUFFICES ASSUME PromptInv, [PromptNext]_promptvars PROVE PromptInv'
  OBVIOUS
<1>0. counter \in Nat /\ \A c \in Calls : call[c].counter \in Nat
  BY DEF PromptInv, CallsShaped, CallShaped
<1>1. ASSUME NEW c \in Calls, WritesCounter(c) PROVE PromptInv'
  BY <1>0, <1>1, GoesKeeps DEF WritesCounter, CallAt
<1>2. ASSUME NEW c \in Calls, Classifies(c) PROVE PromptInv'
  <2>1. /\ flagged \subseteq flagged' /\ unsaved \subseteq unsaved'
        /\ MustBeSeen(call[c].msg.text) => call[c].msg \in flagged' \cup unsaved'
    <3>1. CASE MustBeSeen(call[c].msg.text)
      <4>1. PICK written \in BOOLEAN :
              /\ flagged' = IF written THEN flagged \cup {call[c].msg} ELSE flagged
              /\ unsaved' = IF written THEN unsaved ELSE unsaved \cup {call[c].msg}
        BY <1>2, <3>1 DEF Classifies
      <4>2. CASE written = TRUE   BY <4>1, <4>2
      <4>3. CASE written = FALSE  BY <4>1, <4>3
      <4> QED  BY <4>2, <4>3
    <3>2. CASE ~MustBeSeen(call[c].msg.text)
      BY <1>2, <3>2 DEF Classifies
    <3> QED  BY <3>1, <3>2
  <2>2. /\ CallGoes(c, "looked") /\ call[c].pc = "numbered"
        /\ UNCHANGED <<window, records, handed, counter>>
    BY <1>2 DEF Classifies, CallAt
  <2> QED  BY <1>0, <2>1, <2>2, GoesKeeps
<1>3. ASSUME NEW c \in Calls, ReadsDocument(c) PROVE PromptInv'
  <2>1. ~MustBeSeen(call[c].msg.text)
    BY <1>3 DEF ReadsDocument, MustBeSeen
  <2> QED  BY <1>0, <1>3, <2>1, GoesKeeps DEF ReadsDocument, CallAt
<1>4. CASE Ticks \/ UNCHANGED promptvars
  <2>1. UNCHANGED <<counter, window, records, flagged, handed, unsaved, call>>
    BY <1>4 DEF Ticks, promptvars
  <2>2. CallsShaped' /\ RecordsShaped' /\ JudgedByOthers'
    BY <2>1 DEF PromptInv, CallsShaped, RecordsShaped, JudgedByOthers, OthersRecord
  <2>3. LastWordKept' /\ SeenByOwner'
    BY <2>1 DEF PromptInv, LastWordKept, SeenByOwner, CallAt
  <2> QED  BY <2>2, <2>3 DEF PromptInv
<1> QED
  BY <1>1, <1>2, <1>3, <1>4, StartsKeeps, NumbersKeeps, LoadsKeeps, SavesWindowKeeps,
     SavesRecordKeeps, JudgesKeeps, HandsOverKeeps DEF PromptNext

\* For every number of calls and messages, and every bound of the window: an unclear message is
\* asked about, the last word stays in the window, and what the owner must see is shown.
THEOREM PromptIsKept == PromptSpec => []PromptKept
<1>1. PromptInv => PromptKept
  <2> SUFFICES ASSUME PromptInv PROVE PromptKept
    OBVIOUS
  <2>1. UnclearIsAsked
    <3> SUFFICES ASSUME NEW h \in handed, Unclear(h[1])
                 PROVE  \E m \in Numbered : m.id = h[1].id /\ m.by # h[1].by
      BY DEF UnclearIsAsked, Unclear
    <3>1. OthersRecord(h[1])
      BY DEF PromptInv, JudgedByOthers
    <3>2. records[h[1].id] \in Numbered
      BY <3>1 DEF OthersRecord, Numbered
    <3> QED  BY <3>1, <3>2 DEF OthersRecord, PromptInv, RecordsShaped
  <2> QED  BY <2>1 DEF PromptInv, PromptKept
<1> QED  BY <1>1, PromptBegins, PromptGoesOn, PTL DEF PromptSpec

\* Among the members of a set of positions, every one is the k-th for its k.
LEMMA NthIsThere ==
    ASSUME NEW n \in Nat, NEW kept \in SUBSET (1..n), NEW k \in Nat, k >= 1, k <= Cardinality(kept)
    PROVE  \E i \in kept : Cardinality({j \in kept : j <= i}) = k
<1> DEFINE upto(i) == {j \in kept : j <= i}
           Many(i) == Cardinality(upto(i)) >= k
<1>1. \A i \in 0..n : IsFiniteSet(upto(i)) /\ Cardinality(upto(i)) \in Nat
  <2>1. IsFiniteSet(1..n)
    BY FS_Interval
  <2> QED  BY <2>1, FS_Subset, FS_CardinalityType
<1>2. upto(n) = kept /\ upto(0) = {}
  <2>1. \A j \in kept : j \in 1..n
    OBVIOUS
  <2>2. \A j \in kept : j <= n /\ ~(j <= 0)
    BY <2>1
  <2>3. upto(n) = kept
    BY <2>2
  <2>4. upto(0) = {}
    BY <2>2
  <2> QED  BY <2>3, <2>4
<1>3. Many(n) /\ n \in 0..n
  BY <1>2
<1>4. ~Many(0)
  <2>1. Cardinality(upto(0)) = 0
    BY <1>2, FS_EmptySet
  <2> QED  BY <2>1
<1>5. PICK i \in Nat : i <= n /\ Many(i) /\ \A j \in Nat : j < i => ~Many(j)
  <2> DEFINE S == {i \in Nat : i <= n /\ Many(i)}
  <2>1. n \in S
    BY <1>3
  <2> HIDE DEF Many
  <2>2. PICK i \in S : \A j \in S : i <= j
    <3>1. S \in SUBSET Nat /\ S # {}
      BY <2>1
    <3> HIDE DEF S
    <3> QED  BY <3>1, Least
  <2>3. i \in Nat /\ i <= n /\ Many(i)
    OBVIOUS
  <2>4. ASSUME NEW j \in Nat, j < i PROVE ~Many(j)
    <3>1. j <= n /\ ~(i <= j)
      BY <2>3, <2>4
    <3> QED  BY <2>2, <3>1
  <2> QED  BY <2>3, <2>4
<1>6. i \in 1..n
  <2> HIDE DEF Many
  <2>1. i # 0
    BY <1>4, <1>5
  <2> QED  BY <1>5, <2>1
<1>7. upto(i) = upto(i - 1) \cup (IF i \in kept THEN {i} ELSE {})
  <2>1. \A j \in 1..n : j <= i <=> j <= i - 1 \/ j = i
    BY <1>6
  <2> QED  BY <1>6, <2>1
<1>8. ~Many(i - 1) /\ i - 1 \in 0..n
  <2> HIDE DEF Many
  <2>1. i - 1 \in Nat /\ i - 1 < i /\ i - 1 \in 0..n
    BY <1>6
  <2> QED  BY <1>5, <2>1
<1> HIDE DEF upto
<1>9. Cardinality(upto(i - 1)) \in Nat /\ Cardinality(upto(i)) \in Nat /\ Cardinality(upto(i - 1)) < k
      /\ Cardinality(upto(i)) >= k
  BY <1>1, <1>5, <1>6, <1>8
<1>10. CASE i \in kept
  <2>1. upto(i) = upto(i - 1) \cup {i} /\ i \notin upto(i - 1)
    BY <1>6, <1>7, <1>10 DEF upto
  <2>2. Cardinality(upto(i)) = Cardinality(upto(i - 1)) + 1
    BY <1>1, <1>8, <2>1, FS_AddElement
  <2>3. Cardinality(upto(i)) = k
    BY <1>9, <2>2
  <2> QED  BY <1>10, <2>3 DEF upto
<1>11. CASE i \notin kept
  <2>1. upto(i) = upto(i - 1)
    BY <1>7, <1>11
  <2> QED  BY <1>9, <2>1
<1> QED  BY <1>10, <1>11

\* Leaving out positions, and pruning, leave messages of the list.
LEMMA WithoutTyped ==
    ASSUME NEW M, NEW a \in Seq(M), NEW R
    PROVE  Without(a, R) \in Seq(M)
<1> DEFINE kept == DOMAIN a \ R
           K == Cardinality(kept)
           nth(k) == CHOOSE i \in kept : Cardinality({j \in kept : j <= i}) = k
<1>1. Len(a) \in Nat /\ kept \subseteq 1..Len(a) /\ \A i \in kept : a[i] \in M
  OBVIOUS
<1>2. K \in Nat
  <2>1. IsFiniteSet(1..Len(a))
    BY <1>1, FS_Interval
  <2> QED  BY <1>1, <2>1, FS_Subset, FS_CardinalityType
<1>3. ASSUME NEW k \in 1..K PROVE nth(k) \in kept
  <2> HIDE DEF kept
  <2>1. k \in Nat /\ k >= 1 /\ k <= Cardinality(kept)
    BY <1>2, <1>3
  <2>2. \E i \in kept : Cardinality({j \in kept : j <= i}) = k
    <3>1. Len(a) \in Nat /\ kept \in SUBSET (1..Len(a))
      BY <1>1
    <3> QED  BY <2>1, <3>1, NthIsThere
  <2> QED  BY <2>2
<1>4. Without(a, R) = [k \in 1..K |-> a[nth(k)]]
  BY DEF Without
<1> HIDE DEF K, nth, kept
<1>5. [k \in 1..K |-> a[nth(k)]] \in [1..K -> M]
  BY <1>1, <1>3
<1> QED  BY <1>2, <1>4, <1>5

LEMMA PrunedTyped ==
    ASSUME NEW M, NEW a \in Seq(M), NEW w \in Pruned(a)
    PROVE  w \in Seq(M) /\ Len(w) <= MaxKept
<1>1. PICK R \in SUBSET (1..(Len(a) - 1)), k \in 0..Len(a) :
          /\ Len(Without(a, R)) - k <= MaxKept
          /\ w = SubSeq(Without(a, R), k + 1, Len(Without(a, R)))
  BY DEF Pruned
<1> DEFINE s == Without(a, R)
<1>2. s \in Seq(M) /\ MaxKept \in Nat
  BY WithoutTyped, PromptAssumption
<1> HIDE DEF s
<1>3. Len(s) \in Nat /\ k \in Nat
  BY <1>2
<1>4. Len(s) - k <= MaxKept /\ w = SubSeq(s, k + 1, Len(s))
  BY <1>1 DEF s
<1>5. \A i \in (k + 1)..Len(s) : s[i] \in M
  BY <1>2, <1>3
<1>6. /\ SubSeq(s, k + 1, Len(s)) \in Seq(M)
      /\ Len(SubSeq(s, k + 1, Len(s))) = IF k + 1 <= Len(s) THEN Len(s) - (k + 1) + 1 ELSE 0
  BY <1>3, <1>5, SubSeqProperties
<1> QED  BY <1>2, <1>3, <1>4, <1>6

\* The number MaxPiped * n of messages of n calls.
Most(n) == MaxPiped * n

LEMMA MostGrows ==
    ASSUME NEW n \in Nat
    PROVE  /\ MaxPiped \in Nat \ {0} /\ Most(n) \in Nat /\ Most(n + 1) = Most(n) + MaxPiped
           /\ \A k \in Nat : k <= n => Most(k) <= Most(n)
<1>1. MaxPiped \in Nat \ {0}
  BY PromptAssumption
<1>2. Most(n) \in Nat /\ Most(n + 1) = Most(n) + MaxPiped
  BY <1>1 DEF Most
<1>3. ASSUME NEW k \in Nat, k <= n PROVE Most(k) <= Most(n)
  BY <1>1, <1>3 DEF Most
<1> QED  BY <1>1, <1>2, <1>3

\* Each call that has started has counted no further than it had messages to count.
Started == {c \in Calls : call[c].pc # "off"}
CountsBounded ==
    /\ counter <= Most(Cardinality(Started))
    /\ \A c \in Started : /\ Cardinality(Started) >= 1
                          /\ call[c].counter <= Most(Cardinality(Started) - 1) + call[c].nr
PromptCallTyped(x) ==
    /\ x.nr <= MaxPiped /\ x.window \in Seq(Messages)
    /\ x.nr > 0 => x.msg \in Messages
PromptCallsTyped ==
    /\ second \in 0..MaxSeconds
    /\ window \in Seq(Messages) /\ Len(window) <= MaxKept
    /\ \A c \in Calls : PromptCallTyped(call[c])
FilesTyped ==
    /\ \A i \in DOMAIN records : records[i] \in Messages
    /\ flagged \subseteq Messages /\ unsaved \subseteq Messages
    /\ handed \subseteq Messages \X Handings
PromptRest == CountsBounded /\ PromptCallsTyped /\ FilesTyped

LEMMA StartedCounts ==
    /\ IsFiniteSet(Started) /\ Cardinality(Started) \in Nat /\ IsFiniteSet(Calls)
    /\ Cardinality(Calls) \in Nat /\ Cardinality(Started) <= Cardinality(Calls)
<1>1. Started \subseteq Calls /\ IsFiniteSet(Calls)
  BY PromptAssumption DEF Started
<1> QED  BY <1>1, FS_Subset, FS_CardinalityType

LEMMA PromptRestBegins == PromptInit => PromptRest
<1> SUFFICES ASSUME PromptInit PROVE PromptRest
  OBVIOUS
<1> USE DEF PromptInit
<1>1. \A c \in Calls : call[c].pc = "off" /\ call[c].nr = 0 /\ call[c].window = <<>>
  OBVIOUS
<1>2. Started = {}
  BY <1>1 DEF Started
<1>3. counter <= Most(Cardinality(Started))
  BY StartedCounts, MostGrows
<1>4. PromptCallsTyped
  <2>1. <<>> \in Seq(Messages) /\ Len(<<>>) = 0
    OBVIOUS
  <2>2. MaxPiped \in Nat /\ MaxKept \in Nat /\ MaxSeconds \in Nat
    BY PromptAssumption
  <2>3. second \in 0..MaxSeconds /\ window \in Seq(Messages) /\ Len(window) <= MaxKept
    BY <2>1, <2>2
  <2> HIDE DEF PromptInit
  <2>4. \A c \in Calls : PromptCallTyped(call[c])
    <3> SUFFICES ASSUME NEW c \in Calls PROVE PromptCallTyped(call[c])
      OBVIOUS
    <3>1. call[c].nr = 0 /\ call[c].window = <<>>
      BY <1>1
    <3>2. call[c].window \in Seq(Messages)
      BY <2>1, <3>1, Zenon
    <3>3. call[c].nr <= MaxPiped /\ ~(call[c].nr > 0)
      BY <2>2, <3>1
    <3> QED  BY <3>2, <3>3 DEF PromptCallTyped
  <2> QED  BY <2>3, <2>4 DEF PromptCallsTyped
<1>5. FilesTyped
  BY DEF FilesTyped
<1> QED  BY <1>2, <1>3, <1>4, <1>5 DEF PromptRest, CountsBounded

\* A call moves to x.
LEMMA RestMoved ==
    ASSUME PromptInv, PromptRest, NEW c \in Started, NEW x, call' = [call EXCEPT ![c] = x],
           x.pc # "off", PromptCallTyped(x), x.nr \in Nat, x.counter \in Nat, counter' \in Nat,
           x.counter <= Most(Cardinality(Started) - 1) + x.nr,
           counter' <= Most(Cardinality(Started)), UNCHANGED second,
           window' \in Seq(Messages), Len(window') <= MaxKept
    PROVE  CountsBounded' /\ PromptCallsTyped'
<1>1. DOMAIN call = Calls /\ c \in Calls
  BY DEF PromptInv, CallsShaped, Started
<1>2. call'[c] = x /\ \A d \in Calls \ {c} : call'[d] = call[d]
  BY <1>1
<1>3. Started' = Started
  BY <1>2 DEF Started
<1>4. CountsBounded'
  <2> SUFFICES ASSUME NEW d \in Started
               PROVE  /\ Cardinality(Started) >= 1
                      /\ call'[d].counter <= Most(Cardinality(Started) - 1) + call'[d].nr
    BY <1>3 DEF CountsBounded, Most
  <2>1. d \in Calls
    BY DEF Started
  <2> QED  BY <1>2, <2>1 DEF PromptRest, CountsBounded
<1>5. PromptCallsTyped'
  BY <1>2 DEF PromptRest, PromptCallsTyped, PromptCallTyped, Messages
<1> QED  BY <1>4, <1>5

\* A call goes on with its message.
LEMMA RestGoes ==
    ASSUME PromptInv, PromptRest, NEW c \in Calls, NEW p, CallGoes(c, p), call[c].pc # "off",
           p # "off", counter' \in {counter, call[c].counter}, UNCHANGED <<second, window>>
    PROVE  CountsBounded' /\ PromptCallsTyped'
<1> DEFINE x == [call[c] EXCEPT !.pc = p]
           n == Cardinality(Started)
<1>1. /\ x.pc = p /\ x.msg = call[c].msg /\ x.counter = call[c].counter /\ x.nr = call[c].nr
      /\ x.window = call[c].window /\ CallShaped(c, call[c])
  BY CallMoved
<1>2. call' = [call EXCEPT ![c] = x] /\ c \in Started
  BY DEF CallGoes, Started
<1> HIDE DEF x
<1>3. PromptCallTyped(x) /\ PromptCallTyped(call[c])
  BY <1>1 DEF PromptRest, PromptCallsTyped, PromptCallTyped
<1>4. n \in Nat /\ n >= 1 /\ x.counter <= Most(n - 1) + x.nr /\ counter <= Most(n)
  BY <1>1, <1>2, StartedCounts DEF PromptRest, CountsBounded
<1>5. n - 1 \in Nat /\ (n - 1) + 1 = n
  BY <1>4
<1> HIDE DEF n
<1>6. /\ Most(n - 1) \in Nat /\ Most(n) \in Nat /\ Most(n) = Most(n - 1) + MaxPiped
      /\ MaxPiped \in Nat
  BY <1>4, <1>5, MostGrows
<1>7. x.nr \in Nat /\ x.nr <= MaxPiped /\ x.counter \in Nat /\ counter \in Nat
  BY <1>1, <1>3 DEF CallShaped, PromptCallTyped, PromptInv, CallsShaped
<1>8. counter' \in Nat /\ counter' <= Most(n)
  BY <1>1, <1>4, <1>6, <1>7
<1>9. window' \in Seq(Messages) /\ Len(window') <= MaxKept
  BY DEF PromptRest, PromptCallsTyped
<1> QED  BY <1>1, <1>2, <1>3, <1>4, <1>7, <1>8, <1>9, RestMoved DEF n

LEMMA StartsRest == ASSUME PromptInv, PromptRest, NEW c \in Calls, Starts(c) PROVE PromptRest'
<1> DEFINE x == [call[c] EXCEPT !.pc = "idle", !.counter = counter]
           n == Cardinality(Started)
<1>1. call[c].pc = "off" /\ call[c].nr = 0 /\ CallShaped(c, call[c])
  BY CallMoved DEF Starts, CallAt, CallShaped
<1>2. /\ x.pc = "idle" /\ x.nr = 0 /\ x.counter = counter /\ x.window = call[c].window
  BY <1>1 DEF CallShaped, CallFields
<1>3. counter \in Nat /\ DOMAIN call = Calls /\ \A d \in Calls : call[d].counter \in Nat /\ call[d].nr \in Nat
  BY DEF PromptInv, CallsShaped, CallShaped
<1>4. call' = [call EXCEPT ![c] = x] /\ UNCHANGED <<second, counter, window, records, flagged, handed, unsaved>>
  BY DEF Starts
<1> HIDE DEF x
<1>5. call'[c] = x /\ \A d \in Calls \ {c} : call'[d] = call[d]
  BY <1>3, <1>4
<1>6. Started' = Started \cup {c} /\ c \notin Started
  BY <1>1, <1>2, <1>5 DEF Started
<1>7. Cardinality(Started') = n + 1 /\ n \in Nat
  BY <1>6, StartedCounts, FS_AddElement
<1>8. CountsBounded'
  <2>1. counter' <= Most(n) /\ counter' \in Nat /\ Most(n) \in Nat /\ Most(n) <= Most(n + 1) /\ Most(n + 1) \in Nat
    <3>1. n + 1 \in Nat /\ n <= n + 1
      BY <1>7
    <3> HIDE DEF n
    <3>2. Most(n) <= Most(n + 1) /\ Most(n) \in Nat /\ Most(n + 1) \in Nat
      BY <1>7, <3>1, MostGrows
    <3>3. counter <= Most(n)
      BY DEF n, PromptRest, CountsBounded
    <3> QED  BY <1>3, <1>4, <3>2, <3>3
  <2>2. ASSUME NEW d \in Calls, d = c \/ d \in Started
        PROVE  call'[d].counter <= Most(n) + call'[d].nr
    <3>1. CASE d = c
      BY <1>2, <1>3, <1>4, <1>5, <2>1, <3>1
    <3>2. CASE d # c
      <4>1. d \in Started /\ call'[d] = call[d]
        BY <1>5, <2>2, <3>2
      <4>2. n >= 1 /\ call[d].counter <= Most(n - 1) + call[d].nr
        BY <4>1 DEF PromptRest, CountsBounded
      <4>3. n - 1 \in Nat /\ n - 1 <= n
        BY <1>7, <4>2
      <4> HIDE DEF n
      <4>4. Most(n - 1) \in Nat /\ Most(n - 1) <= Most(n)
        BY <1>7, <4>3, MostGrows
      <4> QED  BY <1>3, <2>1, <4>1, <4>2, <4>4
    <3> QED  BY <3>1, <3>2
  <2>3. n + 1 - 1 = n /\ n + 1 >= 1
    BY <1>7
  <2>4. \A d \in Started' : d \in Calls /\ (d = c \/ d \in Started)
    BY <1>6 DEF Started
  <2> HIDE DEF n
  <2>5. counter' <= Most(n + 1)
    BY <2>1
  <2> QED  BY <1>7, <2>2, <2>3, <2>4, <2>5 DEF CountsBounded, Most
<1>9. PromptCallsTyped'
  <2>1. PromptCallTyped(x)
    BY <1>1, <1>2 DEF PromptRest, PromptCallsTyped, PromptCallTyped
  <2> QED  BY <1>4, <1>5, <2>1 DEF PromptRest, PromptCallsTyped, PromptCallTyped, Messages
<1>10. FilesTyped'
  BY <1>4 DEF PromptRest, FilesTyped, Messages
<1> QED  BY <1>8, <1>9, <1>10 DEF PromptRest

LEMMA NumbersRest == ASSUME PromptInv, PromptRest, NEW c \in Calls, Numbers(c) PROVE PromptRest'
<1> DEFINE n == call[c].counter + 1
           s == Cardinality(Started)
<1>1. call[c].pc = "idle" /\ CallShaped(c, call[c]) /\ call[c].nr < MessagesOf(c)
  BY CallMoved DEF Numbers, CallAt
<1>2. PICK t \in Texts :
        call' = [call EXCEPT
                    ![c].pc = "counted", ![c].counter = n, ![c].nr = call[c].nr + 1,
                    ![c].msg = [by |-> c, nr |-> call[c].nr + 1, text |-> t,
                                id |-> <<second, n>>]]
  BY DEF Numbers
<1> DEFINE m == [by |-> c, nr |-> call[c].nr + 1, text |-> t, id |-> <<second, n>>]
           x == [call[c] EXCEPT !.pc = "counted", !.counter = n, !.nr = call[c].nr + 1, !.msg = m]
<1>3. call' = [call EXCEPT ![c] = x]
  BY <1>2
<1> HIDE DEF m
<1>4. /\ x.pc = "counted" /\ x.nr = call[c].nr + 1 /\ x.counter = n /\ x.msg = m
      /\ x.window = call[c].window
  BY <1>1 DEF CallShaped, CallFields
<1> HIDE DEF x
<1>5. c \in Started /\ s \in Nat /\ s >= 1 /\ s - 1 \in Nat
      /\ call[c].counter <= Most(s - 1) + call[c].nr
  <2>1. c \in Started
    BY <1>1 DEF Started
  <2>2. s \in Nat /\ s >= 1 /\ call[c].counter <= Most(s - 1) + call[c].nr
    BY <2>1, StartedCounts DEF PromptRest, CountsBounded
  <2> HIDE DEF s
  <2> QED  BY <2>1, <2>2
<1>6. call[c].nr \in Nat /\ call[c].counter \in Nat /\ call[c].nr + 1 <= MaxPiped /\ MaxPiped \in Nat
  BY <1>1, PromptAssumption DEF CallShaped, MessagesOf
<1>7. Most(s - 1) \in Nat /\ Most(s - 1) + MaxPiped <= MaxPiped * Cardinality(Calls)
      /\ MaxPiped * Cardinality(Calls) \in Nat /\ Most(s) \in Nat
  <2>1. s <= Cardinality(Calls) /\ Cardinality(Calls) \in Nat
    BY StartedCounts
  <2> HIDE DEF s
  <2>2. Most(s - 1) \in Nat /\ Most((s - 1) + 1) = Most(s - 1) + MaxPiped /\ (s - 1) + 1 = s
    BY <1>5, MostGrows
  <2>3. Most(Cardinality(Calls)) \in Nat /\ Most(s) <= Most(Cardinality(Calls))
    BY <1>5, <2>1, MostGrows
  <2>4. Most(s) = Most(s - 1) + MaxPiped /\ Most(s) \in Nat
    BY <1>6, <2>2
  <2> QED  BY <2>2, <2>3, <2>4 DEF Most
<1> HIDE DEF s
<1>8. n \in Nat /\ n <= Most(s - 1) + (call[c].nr + 1) /\ n \in 0..(MaxPiped * Cardinality(Calls))
  BY <1>5, <1>6, <1>7
<1>9. second \in 0..MaxSeconds /\ t \in AllTexts /\ call[c].nr + 1 \in 1..MaxPiped
  BY <1>6, TextAssumption DEF PromptRest, PromptCallsTyped
<1>10. m \in Messages
  <2> HIDE DEF n
  <2> QED  BY <1>8, <1>9 DEF m, Messages
<1>11. PromptCallTyped(x)
  BY <1>4, <1>6, <1>10 DEF PromptRest, PromptCallsTyped, PromptCallTyped
<1>12. /\ window' \in Seq(Messages) /\ Len(window') <= MaxKept /\ UNCHANGED second /\ counter' = 0
  BY DEF Numbers, PromptRest, PromptCallsTyped
<1>13. x.nr \in Nat /\ x.counter \in Nat /\ counter' \in Nat /\ counter' <= Most(s)
  BY <1>4, <1>6, <1>7, <1>8, <1>12
<1> HIDE DEF n
<1>14. CountsBounded' /\ PromptCallsTyped'
  BY <1>3, <1>4, <1>5, <1>8, <1>11, <1>12, <1>13, RestMoved DEF s
<1>15. FilesTyped'
  BY DEF Numbers, PromptRest, FilesTyped, Messages
<1> QED  BY <1>14, <1>15 DEF PromptRest

\* A call whose message is at hand has one.
LEMMA HasMessage ==
    ASSUME PromptInv, PromptRest, NEW c \in Calls, call[c].pc \notin {"off", "idle"}
    PROVE  call[c].msg \in Messages
<1>1. call[c].nr > 0
  BY CallMoved DEF CallShaped
<1> QED  BY <1>1 DEF PromptRest, PromptCallsTyped, PromptCallTyped

LEMMA LoadsRest == ASSUME PromptInv, PromptRest, NEW c \in Calls, LoadsWindow(c) PROVE PromptRest'
<1>1. call[c].pc = "looked" /\ CallShaped(c, call[c]) /\ PromptCallTyped(call[c]) /\ c \in Started
  BY CallMoved DEF LoadsWindow, CallAt, Started, PromptRest, PromptCallsTyped
<1> DEFINE w == IF call[c].loaded THEN call[c].window ELSE window
           x == [call[c] EXCEPT !.pc = "loaded", !.loaded = TRUE, !.window = w]
<1>2. call' = [call EXCEPT ![c] = x]
  BY DEF LoadsWindow
<1>3. w \in Seq(Messages)
  BY <1>1 DEF PromptRest, PromptCallsTyped, PromptCallTyped
<1> HIDE DEF w
<1>4. /\ x.pc = "loaded" /\ x.nr = call[c].nr /\ x.counter = call[c].counter
      /\ x.msg = call[c].msg /\ x.window = w
  BY <1>1 DEF CallShaped, CallFields
<1> HIDE DEF x
<1>5. UNCHANGED <<second, counter, window, records, flagged, handed, unsaved>>
  BY DEF LoadsWindow
<1>6. PromptCallTyped(x)
  BY <1>1, <1>3, <1>4 DEF PromptCallTyped
<1>7. /\ window' \in Seq(Messages) /\ Len(window') <= MaxKept /\ counter' \in Nat
      /\ counter' <= Most(Cardinality(Started))
      /\ x.nr \in Nat /\ x.counter \in Nat
      /\ x.counter <= Most(Cardinality(Started) - 1) + x.nr
  BY <1>1, <1>4, <1>5 DEF PromptRest, PromptCallsTyped, CountsBounded, CallShaped, PromptInv, CallsShaped
<1>8. CountsBounded' /\ PromptCallsTyped'
  BY <1>1, <1>2, <1>4, <1>5, <1>6, <1>7, RestMoved
<1>9. FilesTyped'
  BY <1>5 DEF PromptRest, FilesTyped, Messages
<1> QED  BY <1>8, <1>9 DEF PromptRest

LEMMA SavesWindowRest == ASSUME PromptInv, PromptRest, NEW c \in Calls, SavesWindow(c) PROVE PromptRest'
<1>1. call[c].pc = "loaded" /\ CallShaped(c, call[c]) /\ PromptCallTyped(call[c]) /\ c \in Started
  BY CallMoved DEF SavesWindow, CallAt, Started, PromptRest, PromptCallsTyped
<1>2. PICK w \in Pruned(Append(call[c].window, call[c].msg)) :
        /\ window' = w
        /\ call' = [call EXCEPT ![c].pc = "windowed", ![c].window = w]
  BY DEF SavesWindow
<1>3. w \in Seq(Messages) /\ Len(w) <= MaxKept
  <2>1. call[c].msg \in Messages /\ call[c].window \in Seq(Messages)
    BY <1>1, HasMessage DEF PromptCallTyped
  <2>2. Append(call[c].window, call[c].msg) \in Seq(Messages)
    BY <2>1
  <2> QED  BY <2>2, PrunedTyped
<1> DEFINE x == [call[c] EXCEPT !.pc = "windowed", !.window = w]
<1>4. call' = [call EXCEPT ![c] = x]
  BY <1>2
<1>5. /\ x.pc = "windowed" /\ x.nr = call[c].nr /\ x.counter = call[c].counter
      /\ x.msg = call[c].msg /\ x.window = w
  BY <1>1 DEF CallShaped, CallFields
<1> HIDE DEF x
<1>6. UNCHANGED <<second, counter, records, flagged, handed, unsaved>>
  BY DEF SavesWindow
<1>7. PromptCallTyped(x)
  BY <1>1, <1>3, <1>5 DEF PromptCallTyped
<1>8. /\ window' \in Seq(Messages) /\ Len(window') <= MaxKept /\ counter' \in Nat
      /\ counter' <= Most(Cardinality(Started))
      /\ x.nr \in Nat /\ x.counter \in Nat
      /\ x.counter <= Most(Cardinality(Started) - 1) + x.nr
  BY <1>1, <1>2, <1>3, <1>5, <1>6 DEF PromptRest, CountsBounded, CallShaped, PromptInv, CallsShaped
<1>9. CountsBounded' /\ PromptCallsTyped'
  BY <1>1, <1>4, <1>5, <1>6, <1>7, <1>8, RestMoved
<1>10. FilesTyped'
  BY <1>6 DEF PromptRest, FilesTyped, Messages
<1> QED  BY <1>9, <1>10 DEF PromptRest

LEMMA PromptRestGoesOn == PromptInv /\ PromptRest /\ [PromptNext]_promptvars => PromptRest'
<1> SUFFICES ASSUME PromptInv, PromptRest, [PromptNext]_promptvars PROVE PromptRest'
  OBVIOUS
<1>1. ASSUME NEW c \in Calls, WritesCounter(c) \/ ReadsDocument(c) PROVE PromptRest'
  <2>1. CountsBounded' /\ PromptCallsTyped'
    <3>1. PICK p \in {"numbered", "looked"} : CallGoes(c, p)
      BY <1>1 DEF WritesCounter, ReadsDocument
    <3>2. /\ call[c].pc # "off" /\ counter' \in {counter, call[c].counter}
          /\ UNCHANGED <<second, window>>
      BY <1>1 DEF WritesCounter, ReadsDocument, CallAt
    <3> QED  BY <3>1, <3>2, RestGoes
  <2>2. UNCHANGED <<records, flagged, unsaved, handed>>
    BY <1>1 DEF WritesCounter, ReadsDocument
  <2>3. FilesTyped'
    BY <2>2 DEF PromptRest, FilesTyped, Messages
  <2> QED  BY <2>1, <2>3 DEF PromptRest
<1>2. ASSUME NEW c \in Calls, Classifies(c) PROVE PromptRest'
  <2>1. CallGoes(c, "looked") /\ call[c].pc = "numbered" /\ UNCHANGED <<second, counter, window, records, handed>>
    BY <1>2 DEF Classifies, CallAt
  <2>2. CountsBounded' /\ PromptCallsTyped'
    BY <2>1, RestGoes
  <2>3. flagged' \subseteq flagged \cup {call[c].msg} /\ unsaved' \subseteq unsaved \cup {call[c].msg}
    <3>1. CASE MustBeSeen(call[c].msg.text)
      <4>1. PICK written \in BOOLEAN :
              /\ flagged' = IF written THEN flagged \cup {call[c].msg} ELSE flagged
              /\ unsaved' = IF written THEN unsaved ELSE unsaved \cup {call[c].msg}
        BY <1>2, <3>1 DEF Classifies
      <4>2. CASE written = TRUE   BY <4>1, <4>2
      <4>3. CASE written = FALSE  BY <4>1, <4>3
      <4> QED  BY <4>2, <4>3
    <3>2. CASE ~MustBeSeen(call[c].msg.text)
      BY <1>2, <3>2 DEF Classifies
    <3> QED  BY <3>1, <3>2
  <2>4. call[c].msg \in Messages
    BY <2>1, HasMessage
  <2>5. FilesTyped'
    BY <2>1, <2>3, <2>4 DEF PromptRest, FilesTyped, Messages
  <2> QED  BY <2>2, <2>5 DEF PromptRest
<1>3. ASSUME NEW c \in Calls, SavesRecord(c) PROVE PromptRest'
  <2>1. PICK p \in {"idle", "recorded"} : CallGoes(c, p)
    BY <1>3 DEF SavesRecord
  <2>2. call[c].pc = "windowed" /\ UNCHANGED <<second, counter, window, flagged, handed, unsaved>>
    BY <1>3 DEF SavesRecord, CallAt
  <2>3. CountsBounded' /\ PromptCallsTyped'
    BY <2>1, <2>2, RestGoes
  <2>4. call[c].msg \in Messages
    BY <2>2, HasMessage
  <2>5. \A i \in DOMAIN records' : records'[i] \in Messages
    BY <1>3, <2>4 DEF SavesRecord, PromptRest, FilesTyped
  <2>6. FilesTyped'
    BY <2>2, <2>5 DEF PromptRest, FilesTyped, Messages
  <2> QED  BY <2>3, <2>6 DEF PromptRest
<1>4. ASSUME NEW c \in Calls, Judges(c) \/ HandsOver(c) PROVE PromptRest'
  <2>1. PICK p \in {"judged", "done"} : CallGoes(c, p)
    BY <1>4 DEF Judges, HandsOver
  <2>2. call[c].pc \in {"recorded", "judged"} /\ UNCHANGED <<second, counter, window, records, flagged, unsaved>>
    BY <1>4 DEF Judges, HandsOver, CallAt
  <2>3. CountsBounded' /\ PromptCallsTyped'
    BY <2>1, <2>2, RestGoes
  <2>4. call[c].msg \in Messages
    BY <2>2, HasMessage
  <2>5. handed' \subseteq Messages \X Handings
    <3>1. CASE HandsOver(c)
      <4>1. PICK how \in Handings : handed' = handed \cup {<<call[c].msg, how>>}
        BY <3>1 DEF HandsOver, Handings
      <4> QED  BY <2>4, <4>1 DEF PromptRest, FilesTyped
    <3>2. CASE Judges(c)
      BY <3>2 DEF Judges, PromptRest, FilesTyped
    <3> QED  BY <1>4, <3>1, <3>2
  <2>6. FilesTyped'
    BY <2>2, <2>5 DEF PromptRest, FilesTyped, Messages
  <2> QED  BY <2>3, <2>6 DEF PromptRest
<1>5. CASE Ticks \/ UNCHANGED promptvars
  <2>1. /\ second' \in 0..MaxSeconds
        /\ UNCHANGED <<counter, window, records, flagged, handed, unsaved, call>>
    BY <1>5, PromptAssumption DEF Ticks, promptvars, PromptRest, PromptCallsTyped
  <2>2. CountsBounded'
    BY <2>1 DEF PromptRest, CountsBounded, Started, Most
  <2>3. PromptCallsTyped'
    BY <2>1 DEF PromptRest, PromptCallsTyped, PromptCallTyped, Messages
  <2>4. FilesTyped'
    BY <2>1 DEF PromptRest, FilesTyped, Messages
  <2> QED  BY <2>2, <2>3, <2>4 DEF PromptRest
<1> QED
  BY <1>1, <1>2, <1>3, <1>4, <1>5, StartsRest, NumbersRest, LoadsRest, SavesWindowRest DEF PromptNext

\* The files of the gateway keep their types: no counter passes what the calls may count, and the
\* window keeps to its maximum.
LEMMA PromptTyped == PromptSpec => []PromptTypeOK
<1>1. PromptInv /\ PromptRest => PromptTypeOK
  <2> SUFFICES ASSUME PromptInv, PromptRest PROVE PromptTypeOK
    OBVIOUS
  <2>1. counter \in 0..(MaxPiped * Cardinality(Calls))
    <3>1. counter \in Nat /\ counter <= Most(Cardinality(Started))
      BY DEF PromptInv, CallsShaped, PromptRest, CountsBounded
    <3>2. Most(Cardinality(Started)) \in Nat /\ Most(Cardinality(Calls)) \in Nat
          /\ Most(Cardinality(Started)) <= Most(Cardinality(Calls))
      BY StartedCounts, MostGrows
    <3>3. counter \in 0..Most(Cardinality(Calls))
      BY <3>1, <3>2
    <3> QED  BY <3>3 DEF Most
  <2>2. \A c \in Calls : /\ call[c].pc \in CallStages /\ call[c].nr \in 0..MaxPiped
                         /\ call[c].window \in Seq(Messages)
    BY PromptAssumption DEF PromptInv, CallsShaped, CallShaped, PromptRest, PromptCallsTyped, PromptCallTyped
  <2> QED  BY <2>1, <2>2 DEF PromptRest, PromptCallsTyped, FilesTyped, PromptTypeOK, CallStages
<1> QED  BY <1>1, PromptBegins, PromptGoesOn, PromptRestBegins, PromptRestGoesOn, PTL DEF PromptSpec

-----------------------------------------------------------------------------
(* PmReport: trends *)

\* A product grows with its factors.
LEMMA ProductGrows ==
    ASSUME NEW p \in Int, NEW q \in Int, p <= q, NEW k \in Nat
    PROVE  p * k <= q * k
OBVIOUS

\* In a list that never falls, the sum of the first h values is at most h times the h-th, and
\* that of the others at least as many times it.
LEMMA SumsOfRising ==
    ASSUME NEW s \in Seq(Int), \A i, j \in DOMAIN s : i < j => s[i] <= s[j],
           NEW h \in 1 .. Len(s)
    PROVE  /\ Sums(s)[h] <= h * s[h]
           /\ (Len(s) - h) * s[h] <= Sums(s)[Len(s)] - Sums(s)[h]
<1> DEFINE L == Len(s)
           S == Sums(s)
           x == s[h]
           Low == {n \in 1 .. h : ~(S[n] <= n * x)}
           Upper == {n \in h .. L : ~((n - h) * x <= S[n] - S[h])}
<1>1. L \in Nat /\ h \in 1 .. L /\ x \in Int /\ \A n \in 1 .. L : s[n] \in Int
  OBVIOUS
<1>2. /\ S[0] = 0 /\ \A n \in 1 .. L : S[n] = S[n - 1] + s[n]
      /\ \A n \in 0 .. L : S[n] \in Int
  BY SumsStep
<1>3. (\A n \in 1 .. h : s[n] <= x) /\ \A n \in h .. L : x <= s[n]
  <2>1. \A n \in 1 .. L : (n < h => s[n] <= x) /\ (h < n => x <= s[n])
    OBVIOUS
  <2> QED  BY <2>1, <1>1
<1> HIDE DEF L, S, x
<1>4. Low = {}
  <2> SUFFICES ASSUME Low # {} PROVE FALSE
    OBVIOUS
  <2>1. Low \in SUBSET Nat
    OBVIOUS
  <2> HIDE DEF Low
  <2>2. PICK k \in Low : \A c \in Low : k <= c
    BY <2>1, Least
  <2>3. k \in 1 .. h /\ ~(S[k] <= k * x) /\ \A c \in 1 .. h : c < k => S[c] <= c * x
    BY <2>2, <1>1 DEF Low
  <2>4. k \in 1 .. L /\ k - 1 \in 0 .. L /\ k - 1 < k
    BY <2>3, <1>1
  <2>5. S[k] = S[k - 1] + s[k] /\ s[k] <= x /\ S[k - 1] \in Int /\ S[k] \in Int /\ s[k] \in Int
    BY <2>3, <2>4, <1>1, <1>2, <1>3
  <2>6. S[k - 1] <= (k - 1) * x
    <3>1. CASE k = 1
      <4>1. S[k - 1] = 0 /\ (k - 1) * x = 0
        BY <3>1, <1>1, <1>2
      <4> QED  BY <4>1
    <3>2. CASE k # 1  BY <2>3, <3>2, <2>4
    <3> QED  BY <3>1, <3>2
  <2>7. k * x = (k - 1) * x + x
    BY <2>4, <1>1
  <2>8. k * x \in Int /\ (k - 1) * x \in Int
    BY <2>4, <1>1
  <2> QED  BY <2>3, <2>5, <2>6, <2>7, <2>8, <1>1
<1>5. Upper = {}
  <2> SUFFICES ASSUME Upper # {} PROVE FALSE
    OBVIOUS
  <2>1. Upper \in SUBSET Nat
    BY <1>1
  <2> HIDE DEF Upper
  <2>2. PICK k \in Upper : \A c \in Upper : k <= c
    BY <2>1, Least
  <2>3. /\ k \in h .. L /\ ~((k - h) * x <= S[k] - S[h])
        /\ \A c \in h .. L : c < k => (c - h) * x <= S[c] - S[h]
    BY <2>2, <1>1 DEF Upper
  <2>4. k # h
    <3>1. S[h] \in Int /\ (h - h) * x = 0 /\ S[h] - S[h] = 0
      BY <1>1, <1>2
    <3> QED  BY <3>1, <2>3
  <2>5. k \in 1 .. L /\ k - 1 \in h .. L /\ k - 1 < k /\ k - 1 \in 0 .. L /\ h \in 0 .. L
    BY <2>3, <2>4, <1>1
  <2>6. /\ S[k] = S[k - 1] + s[k] /\ x <= s[k]
        /\ S[k - 1] \in Int /\ S[k] \in Int /\ s[k] \in Int /\ S[h] \in Int
    BY <2>3, <2>5, <1>1, <1>2, <1>3
  <2>7. (k - 1 - h) * x <= S[k - 1] - S[h]
    BY <2>3, <2>5
  <2>8. (k - h) * x = (k - 1 - h) * x + x
    BY <2>5, <1>1
  <2>9. (k - h) * x \in Int /\ (k - 1 - h) * x \in Int
    BY <2>5, <1>1
  <2>10. ~((k - h) * x <= S[k] - S[h]) /\ x \in Int
    BY <2>3, <1>1
  <2> DEFINE p == (k - 1 - h) * x
             q == (k - h) * x
  <2>11. p \in Int /\ q \in Int /\ q = p + x /\ p <= S[k - 1] - S[h] /\ ~(q <= S[k] - S[h])
    BY <2>7, <2>8, <2>9, <2>10
  <2> HIDE DEF p, q
  <2>12. x \in Int /\ ~(q <= S[k] - S[h])
    BY <2>10, <2>11
  <2>13. \A a, b, c, d \in Int : b = a + d /\ x <= d /\ p <= a - c => q <= b - c
    BY <2>11, <2>12
  <2>14. q <= S[k] - S[h]
    BY <2>6, <2>11, <2>13, Zenon
  <2> QED  BY <2>12, <2>14
<1>6. S[h] <= h * x
  BY <1>1, <1>4
<1>7. (L - h) * x <= S[L] - S[h]
  BY <1>1, <1>5, SMTT(30)
<1> QED  BY <1>6, <1>7 DEF L, S, x

\* So its second half has no smaller average than its first.
LEMMA HalvesOfRising ==
    ASSUME NEW s \in Seq(Int), \A i, j \in DOMAIN s : i < j => s[i] <= s[j], Len(s) >= 2
    PROVE  Halves(s)[1] \in Int /\ Halves(s)[2] \in Int /\ Halves(s)[1] <= Halves(s)[2]
<1> DEFINE L == Len(s)
           h == L \div 2
           x == s[h]
           S == Sums(s)
<1>1. L \in Nat /\ h \in 1 .. L /\ L - h \in Nat /\ h \in Nat
  OBVIOUS
<1>2. x \in Int /\ S[h] \in Int /\ S[L] \in Int
  <2>1. x \in Int
    BY <1>1
  <2>2. h \in 0 .. L /\ L \in 0 .. L
    BY <1>1
  <2> QED  BY <2>1, <2>2, SumsStep
<1>3. S[h] <= h * x /\ (L - h) * x <= S[L] - S[h]
  BY <1>1, SumsOfRising
<1>4. Halves(s)[1] = S[h] * (L - h) /\ Halves(s)[2] = (S[L] - S[h]) * h
  BY DEF Halves
<1> HIDE DEF L, h, x, S
<1>5. S[h] * (L - h) <= (h * x) * (L - h)
  <2>1. h * x \in Int
    BY <1>1, <1>2
  <2> QED  BY <1>1, <1>2, <1>3, <2>1, ProductGrows
<1>6. ((L - h) * x) * h <= (S[L] - S[h]) * h
  <2>1. (L - h) * x \in Int /\ S[L] - S[h] \in Int
    BY <1>1, <1>2
  <2> QED  BY <1>1, <1>3, <2>1, ProductGrows
<1>7. (h * x) * (L - h) = ((L - h) * x) * h
  BY <1>1, <1>2
<1>8. S[h] * (L - h) \in Int /\ (S[L] - S[h]) * h \in Int /\ (h * x) * (L - h) \in Int
  BY <1>1, <1>2
<1> QED  BY <1>4, <1>5, <1>6, <1>7, <1>8

\* And it is not said to go down.
LEMMA RisingIsNotDown ==
    ASSUME NEW s \in Seq(Int), \A i, j \in DOMAIN s : i < j => s[i] <= s[j], Len(s) >= 2
    PROVE  Direction(s) \in {"stable", "up"}
<1>1. Halves(s)[1] \in Int /\ Halves(s)[2] \in Int /\ Halves(s)[1] <= Halves(s)[2]
  BY HalvesOfRising
<1> DEFINE a == Halves(s)[1]
           b == Halves(s)[2]
           Flat == a = b \/ (a # 0 /\ Magnitude(b - a) * 100 <= TolerancePct * Magnitude(a))
<1>2. Direction(s) = IF Flat THEN "stable" ELSE IF b > a THEN "up" ELSE "down"
  BY DEF Direction
<1>3. a \in Int /\ b \in Int /\ a <= b /\ (a = b => Flat)
  BY <1>1
<1> HIDE DEF a, b, Flat
<1> QED  BY <1>2, <1>3

\* The metrics of the snapshots are integers, or could not be read.
SnapsRead == \A i \in DOMAIN snaps : \A m \in Metrics : snaps[i][m] \in Int \cup {Missing}

\* Trends are honest of whatever snapshots.
LEMMA TrendsAreHonest ==
    ASSUME NEW T, snaps \in Seq(T), SnapsRead
    PROVE  TrendsHonest
<1> SUFFICES ASSUME Len(snaps) >= 2, NEW m \in Metrics,
                    \A i, j \in DOMAIN Series(snaps, m) :
                        i < j => Series(snaps, m)[i] <= Series(snaps, m)[j]
             PROVE  Trend(snaps, m) # (IF m \in {"swap", "passes"} THEN "degrading" ELSE "improving")
  BY DEF TrendsHonest
<1> DEFINE r == Recent(snaps)
           v == Series(snaps, m)
<1>1. Len(r) \in Nat /\ \A n \in 1 .. Len(r) : r[n][m] \in Int \cup {Missing}
  <2> DEFINE a == IF Len(snaps) > TrendWindow THEN Len(snaps) - TrendWindow + 1 ELSE 1
  <2>1. a \in 1 .. Len(snaps) /\ Len(snaps) \in Nat
    BY PmReportAssumption
  <2>2. r = SubSeq(snaps, a, Len(snaps))
    BY DEF Recent
  <2> HIDE DEF a, r
  <2>3. Len(r) = Len(snaps) - a + 1 /\ \A n \in 1 .. Len(r) : r[n] = snaps[a + n - 1]
    BY <2>1, <2>2
  <2>4. \A n \in 1 .. Len(r) : a + n - 1 \in DOMAIN snaps
    BY <2>1, <2>3
  <2>5. ASSUME NEW n \in 1 .. Len(r) PROVE r[n][m] \in Int \cup {Missing}
    <3>1. r[n] = snaps[a + n - 1] /\ a + n - 1 \in DOMAIN snaps
      BY <2>3, <2>4
    <3>2. snaps[a + n - 1][m] \in Int \cup {Missing}
      BY <3>1 DEF SnapsRead
    <3> QED  BY <3>1, <3>2
  <2>6. Len(r) \in Nat
    BY <2>1, <2>3
  <2> QED  BY <2>5, <2>6
<1>2. v \in Seq(Int)
  BY <1>1, ReadIntegers DEF Series
<1>3. Len(v) >= 2 => Direction(v) \in {"stable", "up"}
  BY <1>2, RisingIsNotDown
<1>4. Trend(snaps, m) =
          IF Len(v) < 2 THEN "insufficient_data"
          ELSE IF Direction(v) = "stable" THEN "stable"
          ELSE IF (Direction(v) = "up") = (m \in {"swap", "passes"}) THEN "improving" ELSE "degrading"
  BY DEF Trend
<1>5. Len(v) \in Nat
  BY <1>2
<1> HIDE DEF v
<1> QED  BY <1>3, <1>4, <1>5

-----------------------------------------------------------------------------
(* PmReport: collisions *)

\* The list of a finite set has its elements, each once.
LEMMA ListOfSet ==
    ASSUME NEW S, IsFiniteSet(S)
    PROVE  /\ Cardinality(S) \in Nat
           /\ SetToSeq(S) \in [1 .. Cardinality(S) -> S]
           /\ SetToSeq(S) \in Seq(S)
           /\ Len(SetToSeq(S)) = Cardinality(S)
           /\ \A x \in S : \E i \in 1 .. Cardinality(S) : SetToSeq(S)[i] = x
<1> DEFINE N == Cardinality(S)
           f == SetToSeq(S)
<1>1. N \in Nat /\ ExistsBijection(1 .. N, S)
  BY FS_CardinalityType
<1>2. \E g \in [1 .. N -> S] : IsInjective(g)
  BY <1>1 DEF ExistsBijection, Bijection, Injection
<1>3. f \in [1 .. N -> S] /\ IsInjective(f)
  BY <1>2 DEF SetToSeq
<1>4. f \in Injection(1 .. N, S)
  BY <1>3 DEF Injection
<1>5. IsFiniteSet(1 .. N) /\ Cardinality(1 .. N) = N
  BY <1>1, FS_Interval
<1> HIDE DEF f, N
<1>6. f \in Surjection(1 .. N, S)
  BY <1>4, <1>5, FS_Injection DEF N
<1>7. \A x \in S : \E i \in 1 .. N : f[i] = x
  BY <1>6 DEF Surjection
<1>8. f \in Seq(S) /\ Len(f) = N
  BY <1>1, <1>3
<1> QED  BY <1>1, <1>3, <1>7, <1>8 DEF f, N

\* Pairs of a finite set are finitely many.
LEMMA FinitePairs == ASSUME NEW S, IsFiniteSet(S), NEW P, P \subseteq Pairs(S) PROVE IsFiniteSet(P)
<1>1. IsFiniteSet(SUBSET S)
  BY FS_SUBSET
<1>2. P \in SUBSET (SUBSET S)
  BY DEF Pairs
<1> QED  BY <1>1, <1>2, FS_Subset

\* What is shown are citations only, or all of them.
LEMMA CitationsAreFirst == ASSUME matter \in Worlds PROVE CitationsFirst
<1> SUFFICES ASSUME NEW unread \in SUBSET matter.pulls
             PROVE  LET ties == CitedPairs(matter.pulls)
                        shown == ToSet(Shown(matter.pulls, unread))
                    IN  shown \subseteq ties \/ ties \subseteq shown
  BY DEF CitationsFirst
<1> DEFINE C == CitedPairs(matter.pulls)
           O == FilePairs(matter.pulls, unread)
           c == SetToSeq(C)
           o == SetToSeq(O)
           all == c \o o
<1>1. IsFiniteSet(matter.pulls)
  BY WorldAssumption
<1>2. IsFiniteSet(C)
  BY <1>1, FinitePairs DEF CitedPairs
<1>3. IsFiniteSet(O)
  <2>1. IsFiniteSet({a \in matter.pulls : a.fresh} \ unread)
    BY <1>1, FS_Subset
  <2> QED  BY <2>1, FinitePairs DEF FilePairs
<1>4. Shown(matter.pulls, unread) = Capped(all)
  BY DEF Shown, Ranked
<1> HIDE DEF C, O
<1> DEFINE n == Cardinality(C)
<1>5. n \in Nat /\ c \in Seq(C) /\ Len(c) = n /\ \A x \in C : \E i \in 1 .. n : c[i] = x
  BY <1>2, ListOfSet
<1>6. \A i \in 1 .. n : c[i] \in C
  BY <1>5
<1>7. o \in Seq(O) /\ Len(o) \in Nat
  BY <1>3, ListOfSet
<1> HIDE DEF c, o, n
<1>8. Len(all) = n + Len(o) /\ DOMAIN all = 1 .. (n + Len(o)) /\ \A i \in 1 .. n : all[i] = c[i]
  <2>1. c \in Seq(C \cup O) /\ o \in Seq(C \cup O)
    BY <1>5, <1>7
  <2> QED  BY <2>1, <1>5, <1>7
<1> HIDE DEF all
<1>9. CASE Len(all) > CapTrigger
  <2>1. TopK \in Nat /\ TopK <= Len(all)
    BY <1>5, <1>7, <1>8, <1>9, PmReportAssumption
  <2> DEFINE s == SubSeq(all, 1, TopK)
  <2>2. DOMAIN s = 1 .. TopK /\ \A i \in 1 .. TopK : s[i] = all[i]
    BY <2>1
  <2>3. Shown(matter.pulls, unread) = s
    BY <1>4, <1>9 DEF Capped
  <2> HIDE DEF s
  <2>4. CASE TopK <= n
    <3>1. \A i \in DOMAIN s : s[i] \in C
      BY <2>1, <2>2, <2>4, <1>5, <1>6, <1>8
    <3> QED  BY <2>3, <3>1 DEF ToSet, C
  <2>5. CASE n <= TopK
    <3>1. \A x \in C : \E i \in DOMAIN s : s[i] = x
      <4> SUFFICES ASSUME NEW x \in C PROVE \E i \in DOMAIN s : s[i] = x
        OBVIOUS
      <4>1. PICK i \in 1 .. n : c[i] = x
        BY <1>5
      <4>2. i \in 1 .. TopK
        BY <2>1, <2>5, <1>5
      <4> QED  BY <4>1, <4>2, <2>2, <1>8
    <3> QED  BY <2>3, <3>1 DEF ToSet, C
  <2> QED  BY <2>1, <2>4, <2>5, <1>5
<1>10. CASE ~(Len(all) > CapTrigger)
  <2>1. Shown(matter.pulls, unread) = all
    BY <1>4, <1>10 DEF Capped
  <2>2. \A x \in C : \E i \in DOMAIN all : all[i] = x
    <3> SUFFICES ASSUME NEW x \in C PROVE \E i \in DOMAIN all : all[i] = x
      OBVIOUS
    <3>1. PICK i \in 1 .. n : c[i] = x
      BY <1>5
    <3>2. i \in 1 .. (n + Len(o))
      BY <1>5, <1>7
    <3> QED  BY <3>1, <3>2, <1>8
  <2> QED  BY <2>1, <2>2 DEF ToSet, C
<1> QED  BY <1>9, <1>10

-----------------------------------------------------------------------------
(* PmReport: readiness *)

\* The more categories pass, the more are counted, in percent too.
LEMMA PassesGrow ==
    ASSUME NEW gtm \in [Cats -> {"pass", "fail", "blocked"}], NEW c \in Cats
    PROVE  LET then == [gtm EXCEPT ![c] = "pass"] IN
           /\ Passes(gtm) \in Nat /\ Passes(then) \in Nat
           /\ Passes(gtm) <= Passes(then) /\ Passes(then) <= Cardinality(Cats)
<1> DEFINE then == [gtm EXCEPT ![c] = "pass"]
           P == {d \in Cats : gtm[d] = "pass"}
           Q == {d \in Cats : then[d] = "pass"}
<1>1. Passes(gtm) = Cardinality(P) /\ Passes(then) = Cardinality(Q)
  BY DEF Passes
<1>2. P \subseteq Q /\ Q \subseteq Cats
  OBVIOUS
<1> HIDE DEF P, Q, then
<1>3. IsFiniteSet(Q) /\ Cardinality(Q) <= Cardinality(Cats)
  BY <1>2, PmReportAssumption, FS_Subset
<1>4. IsFiniteSet(P) /\ Cardinality(P) <= Cardinality(Q)
  BY <1>2, <1>3, FS_Subset
<1>5. Cardinality(P) \in Nat /\ Cardinality(Q) \in Nat
  BY <1>3, <1>4, FS_CardinalityType
<1> QED  BY <1>1, <1>3, <1>4, <1>5 DEF then

\* Quotients grow with their dividends, and the whole is a hundred percent.
LEMMA PercentGrows ==
    ASSUME NEW p \in Nat, NEW q \in Nat, NEW n \in Nat \ {0}, p <= q, q <= n
    PROVE  /\ (100 * p) \div n \in Nat /\ (100 * q) \div n \in Nat
           /\ (100 * p) \div n <= (100 * q) \div n
           /\ (100 * q) \div n <= 100 /\ ((100 * q) \div n >= 100 => q = n)
<1> DEFINE a == (100 * p) \div n
           b == (100 * q) \div n
<1>1. a \in Int /\ b \in Int /\ a * n <= 100 * p /\ 100 * p < (a + 1) * n
      /\ b * n <= 100 * q /\ 100 * q < (b + 1) * n
  OBVIOUS
<1> HIDE DEF a, b
<1>2. ASSUME NEW x \in Int, NEW y \in Int, x * n < (y + 1) * n PROVE x <= y
  <2>1. y + 1 <= x => (y + 1) * n <= x * n
    BY ProductGrows
  <2>2. (y + 1) * n \in Int /\ x * n \in Int
    OBVIOUS
  <2> QED  BY <2>1, <2>2, <1>2
<1>3. a * n \in Int /\ b * n \in Int /\ (a + 1) * n \in Int /\ (b + 1) * n \in Int
      /\ (100 + 1) * n = 100 * n + n
  BY <1>1
<1>4. a * n < (b + 1) * n
  BY <1>1, <1>3
<1>5. a <= b
  BY <1>1, <1>2, <1>4
<1>6. 0 * n = 0 /\ 0 * n < (a + 1) * n /\ b * n < (100 + 1) * n
  BY <1>1, <1>3
<1>7. 0 <= a /\ b <= 100
  BY <1>1, <1>2, <1>6
<1>8. b >= 100 => q = n
  <2>1. b >= 100 => 100 * n <= b * n
    BY <1>1, ProductGrows
  <2> QED  BY <2>1, <1>1, <1>3
<1> QED  BY <1>1, <1>5, <1>7, <1>8 DEF a, b

\* The recommendation, by what decides it.
Grade(stop, pct, high, last) ==
    IF stop \/ pct < 50 THEN "NOT_READY"
    ELSE IF pct < 75 THEN "LIMITED_PILOT"
    ELSE IF pct < 100 \/ high THEN "BETA"
    ELSE IF last THEN "PRODUCTION" ELSE "NOT_READY"

Stops(gtm) == Critical(gtm) # {} \/ \E c \in DOMAIN gtm : gtm[c] = "blocked"

LEMMA BucketIsGrade ==
    ASSUME NEW gtm
    PROVE  Bucket(gtm, TRUE) = Grade(Stops(gtm), Percent(gtm), High(gtm) # {}, gtm[25] = "pass")
BY DEF Bucket, Grade, Stops

\* It gets no worse with any of them, if the last category passes when all do.
LEMMA GradeGrows ==
    ASSUME NEW stop \in BOOLEAN, NEW Stop \in BOOLEAN, Stop => stop,
           NEW pct \in Nat, NEW Pct \in Nat, pct <= Pct,
           NEW high \in BOOLEAN, NEW High1 \in BOOLEAN, High1 => high,
           NEW last \in BOOLEAN, NEW Last1 \in BOOLEAN, Pct >= 100 => Last1
    PROVE  Better(Grade(stop, pct, high, last), Grade(Stop, Pct, High1, Last1))
<1> DEFINE a == Grade(stop, pct, high, last)
           b == Grade(Stop, Pct, High1, Last1)
<1>1. \A i, j \in 1 .. 4 : i <= j => Better(Ranks[i], Ranks[j])
  BY DEF Better
<1>2. /\ Ranks[1] = "NOT_READY" /\ Ranks[2] = "LIMITED_PILOT" /\ Ranks[3] = "BETA"
      /\ Ranks[4] = "PRODUCTION"
  BY DEF Ranks
<1>3. /\ Better("NOT_READY", "NOT_READY") /\ Better("NOT_READY", "LIMITED_PILOT")
      /\ Better("NOT_READY", "BETA") /\ Better("NOT_READY", "PRODUCTION")
      /\ Better("LIMITED_PILOT", "LIMITED_PILOT") /\ Better("LIMITED_PILOT", "BETA")
      /\ Better("LIMITED_PILOT", "PRODUCTION")
      /\ Better("BETA", "BETA") /\ Better("BETA", "PRODUCTION")
      /\ Better("PRODUCTION", "PRODUCTION")
  <2>1. 1 <= 2 /\ 2 <= 3 /\ 3 <= 4 /\ 1 <= 3 /\ 1 <= 4 /\ 2 <= 4
        /\ 1 \in 1 .. 4 /\ 2 \in 1 .. 4 /\ 3 \in 1 .. 4 /\ 4 \in 1 .. 4
        /\ \A i \in 1 .. 4 : i <= i
    OBVIOUS
  <2>2. Better(Ranks[1], Ranks[1]) /\ Better(Ranks[1], Ranks[2]) /\ Better(Ranks[1], Ranks[3])
        /\ Better(Ranks[1], Ranks[4]) /\ Better(Ranks[2], Ranks[2]) /\ Better(Ranks[2], Ranks[3])
        /\ Better(Ranks[2], Ranks[4]) /\ Better(Ranks[3], Ranks[3]) /\ Better(Ranks[3], Ranks[4])
        /\ Better(Ranks[4], Ranks[4])
    BY <1>1, <2>1, Zenon
  <2> QED  BY <1>2, <2>2
<1> SUFFICES Better(a, b)
  OBVIOUS
<1> HIDE DEF a, b
<1>4. CASE a = "NOT_READY"
  <2>1. b \in {"NOT_READY", "LIMITED_PILOT", "BETA", "PRODUCTION"}
    BY DEF Grade, a, b
  <2> QED  BY <1>3, <1>4, <2>1
<1>5. CASE a = "LIMITED_PILOT"
  <2>1. b \in {"LIMITED_PILOT", "BETA", "PRODUCTION"}
    BY <1>5 DEF Grade, a, b
  <2> QED  BY <1>3, <1>5, <2>1
<1>6. CASE a = "BETA"
  <2>1. b \in {"BETA", "PRODUCTION"}
    BY <1>6 DEF Grade, a, b
  <2> QED  BY <1>3, <1>6, <2>1
<1>7. CASE a = "PRODUCTION"
  <2>1. b = "PRODUCTION"
    BY <1>7 DEF Grade, a, b
  <2> QED  BY <1>3, <1>7, <2>1
<1>8. a \in {"NOT_READY", "LIMITED_PILOT", "BETA", "PRODUCTION"}
  BY DEF Grade, a, b
<1> QED  BY <1>4, <1>5, <1>6, <1>7, <1>8

\* When all are counted, all pass.
LEMMA AllPass ==
    ASSUME NEW gtm \in [Cats -> {"pass", "fail", "blocked"}], Passes(gtm) = Cardinality(Cats)
    PROVE  \A c \in Cats : gtm[c] = "pass"
<1> DEFINE P == {c \in Cats : gtm[c] = "pass"}
<1>1. Passes(gtm) = Cardinality(P) /\ P \in SUBSET Cats
  BY DEF Passes
<1> HIDE DEF P
<1>2. P = Cats
  BY <1>1, PmReportAssumption, FS_Subset
<1> QED  BY <1>2 DEF P

\* The recommendation follows the certification.
LEMMA ReadinessFollows == ReadinessMonotone
<1> SUFFICES ASSUME NEW gtm \in [Cats -> {"pass", "fail", "blocked"}]
             PROVE  /\ \A c \in Cats : Better(Bucket(gtm, TRUE), Bucket([gtm EXCEPT ![c] = "pass"], TRUE))
                    /\ Bucket(gtm, TRUE) = "PRODUCTION" => Passes(gtm) = Cardinality(Cats)
  BY DEF ReadinessMonotone
<1> DEFINE n == Cardinality(Cats)
<1>1. n \in Nat \ {0} /\ 25 \in Cats
  BY PmReportAssumption, FS_CardinalityType, FS_EmptySet
<1> HIDE DEF n
<1>2. ASSUME NEW c \in Cats
      PROVE  Better(Bucket(gtm, TRUE), Bucket([gtm EXCEPT ![c] = "pass"], TRUE))
  <2> DEFINE then == [gtm EXCEPT ![c] = "pass"]
  <2>1. /\ Passes(gtm) \in Nat /\ Passes(then) \in Nat
        /\ Passes(gtm) <= Passes(then) /\ Passes(then) <= n
    BY PassesGrow DEF n
  <2>2. Percent(gtm) = (100 * Passes(gtm)) \div n /\ Percent(then) = (100 * Passes(then)) \div n
    BY DEF Percent, n
  <2>3. then \in [Cats -> {"pass", "fail", "blocked"}] /\ \A d \in Cats : then[d] \in {"pass", gtm[d]}
    OBVIOUS
  <2>4. \A d \in Cats : then[d] # "pass" => then[d] = gtm[d]
    OBVIOUS
  <2> HIDE DEF then
  <2>5. /\ Percent(gtm) \in Nat /\ Percent(then) \in Nat /\ Percent(gtm) <= Percent(then)
        /\ Percent(then) >= 100 => Passes(then) = n
    BY <1>1, <2>1, <2>2, PercentGrows
  <2>6. Percent(then) >= 100 => then[25] = "pass"
    BY <1>1, <2>3, <2>5, AllPass DEF n
  <2>7. Stops(then) => Stops(gtm)
    BY <2>3, <2>4 DEF Stops, Critical
  <2>8. High(then) # {} => High(gtm) # {}
    BY <2>3, <2>4 DEF High
  <2> DEFINE s == Stops(gtm)
             t == Stops(then)
             h == High(gtm) # {}
             i == High(then) # {}
             x == gtm[25] = "pass"
             y == then[25] = "pass"
  <2>9. s \in BOOLEAN /\ t \in BOOLEAN /\ h \in BOOLEAN /\ i \in BOOLEAN /\ x \in BOOLEAN /\ y \in BOOLEAN
    BY DEF Stops
  <2>10. Bucket(gtm, TRUE) = Grade(s, Percent(gtm), h, x) /\ Bucket(then, TRUE) = Grade(t, Percent(then), i, y)
    BY BucketIsGrade
  <2>11. (t => s) /\ (i => h) /\ (Percent(then) >= 100 => y)
    BY <2>6, <2>7, <2>8
  <2> HIDE DEF s, t, h, i, x, y
  <2>12. Better(Grade(s, Percent(gtm), h, x), Grade(t, Percent(then), i, y))
    BY <2>5, <2>9, <2>11, GradeGrows
  <2> QED  BY <2>10, <2>12 DEF then
<1>3. Bucket(gtm, TRUE) = "PRODUCTION" => Passes(gtm) = n
  <2>1. 25 \in Cats /\ Passes(gtm) \in Nat /\ Passes(gtm) <= n
    <3> DEFINE then == [gtm EXCEPT ![25] = "pass"]
    <3>1. /\ Passes(gtm) \in Nat /\ Passes(then) \in Nat
          /\ Passes(gtm) <= Passes(then) /\ Passes(then) <= n
      BY <1>1, PassesGrow DEF n
    <3> HIDE DEF then
    <3> QED  BY <3>1, <1>1
  <2>2. Percent(gtm) = (100 * Passes(gtm)) \div n
    BY DEF Percent, n
  <2>3. Percent(gtm) \in Nat /\ (Percent(gtm) >= 100 => Passes(gtm) = n)
    BY <1>1, <2>1, <2>2, PercentGrows
  <2>4. Bucket(gtm, TRUE) = "PRODUCTION" => ~(Percent(gtm) < 100)
    BY BucketIsGrade DEF Grade
  <2> QED  BY <2>3, <2>4
<1> QED  BY <1>2, <1>3 DEF n

-----------------------------------------------------------------------------
(* PmReport: news *)

PassLooked == {"prior", "built", "cut", "latest", "filed"}
Built == {"built", "cut", "latest", "filed"}
SnapFields == {"id", "prior", "fails", "swap", "load", "passes"}
SavedSoFar == reportpast.saved

SnapsListed ==
    /\ \E T : snaps \in Seq(T)
    /\ SnapsRead
    /\ \A i \in DOMAIN snaps : /\ snaps[i].id \in 1 .. SavedSoFar
                               /\ snaps[i].prior \in 0 .. SavedSoFar
    /\ \A i, j \in DOMAIN snaps : i < j => snaps[i].id < snaps[j].id
DraftsShaped ==
    /\ DOMAIN draft = Reporters /\ draft = [r \in Reporters |-> draft[r]]
    /\ \A r \in Reporters :
          /\ DOMAIN draft[r] = {"at", "seen", "prior", "base", "fails", "news"}
          /\ draft[r].at # "off" => \A m \in Metrics : draft[r].seen[m] \in Int \cup {Missing}
          /\ draft[r].at = "prior" => draft[r].fails = Missing
          /\ draft[r].at = "seen" => draft[r].fails = Missing /\ draft[r].prior = 0

\* A draft knows the snapshot it compares with as it is saved, and has its news.
DraftKnows(r) ==
    draft[r].at \in PassLooked =>
        /\ draft[r].prior \in 0 .. SavedSoFar
        /\ \A i \in DOMAIN snaps : snaps[i].id = draft[r].prior => snaps[i].fails = draft[r].base
DraftHasNews(r) ==
    draft[r].at \in Built /\ draft[r].base # Missing /\ draft[r].fails # Missing =>
        draft[r].fails \ draft[r].base \subseteq draft[r].news
DraftAnnounced(r) ==
    draft[r].at = "filed" => \A o \in draft[r].news : <<o, draft[r].prior>> \in announced

ReportInv ==
    /\ matter \in Worlds
    /\ SavedSoFar \in Nat /\ DOMAIN reportpast = {"news", "begun", "saved", "kills"}
    /\ SnapsListed /\ DraftsShaped
    /\ \A r \in Reporters : DraftKnows(r) /\ DraftHasNews(r) /\ DraftAnnounced(r)
    /\ NewsTold

LEMMA ReportBegins == PmReportInit => ReportInv
<1> SUFFICES ASSUME PmReportInit PROVE ReportInv
  OBVIOUS
<1>1. snaps = <<>> /\ DOMAIN snaps = {} /\ snaps \in Seq({})
  BY DEF PmReportInit
<1>2. \A r \in Reporters : draft[r] = Off /\ draft[r].at = "off" /\ DOMAIN draft[r] = {"at", "seen", "prior", "base", "fails", "news"}
  BY DEF PmReportInit, Off
<1>3. SnapsListed
  <2>1. \E T : snaps \in Seq(T)
    BY <1>1
  <2> QED  BY <1>1, <2>1 DEF SnapsListed, SnapsRead
<1>4. DraftsShaped
  BY <1>2 DEF PmReportInit, DraftsShaped
<1>5. \A r \in Reporters : DraftKnows(r) /\ DraftHasNews(r) /\ DraftAnnounced(r)
  BY <1>2 DEF DraftKnows, DraftHasNews, DraftAnnounced, PassLooked, Built
<1>6. NewsTold
  BY <1>1 DEF NewsTold
<1>7. SavedSoFar \in Nat /\ DOMAIN reportpast = {"news", "begun", "saved", "kills"}
  BY DEF PmReportInit, SavedSoFar
<1> QED  BY <1>3, <1>4, <1>5, <1>6, <1>7 DEF ReportInv, PmReportInit

\* What a step must do for the drafts when the snapshots stay: one draft changes, and what is
\* announced and counted grows.
LEMMA OneDraftMoves ==
    ASSUME ReportInv, matter' \in Worlds, snaps' = snaps, announced \subseteq announced',
           SavedSoFar' = SavedSoFar, DOMAIN reportpast' = DOMAIN reportpast,
           NEW r \in Reporters, NEW d, draft' = [draft EXCEPT ![r] = d],
           DOMAIN d = {"at", "seen", "prior", "base", "fails", "news"},
           d.at # "off" => \A m \in Metrics : d.seen[m] \in Int \cup {Missing},
           d.at \in {"seen", "prior"} => d.fails = Missing,
           d.at = "seen" => d.prior = 0,
           d.at \in PassLooked =>
               /\ d.prior \in 0 .. SavedSoFar
               /\ \A i \in DOMAIN snaps : snaps[i].id = d.prior => snaps[i].fails = d.base,
           d.at \in Built /\ d.base # Missing /\ d.fails # Missing => d.fails \ d.base \subseteq d.news,
           d.at = "filed" => \A o \in d.news : <<o, d.prior>> \in announced'
    PROVE  ReportInv'
<1>1. /\ DOMAIN draft' = Reporters /\ draft'[r] = d
      /\ \A q \in Reporters : q # r => draft'[q] = draft[q]
  BY DEF ReportInv, DraftsShaped
<1>2. SnapsListed'
  BY DEF ReportInv, SnapsListed, SnapsRead
<1>3. DraftsShaped'
  <2>1. draft' = [q \in Reporters |-> draft'[q]]
    BY DEF ReportInv, DraftsShaped
  <2>2. ASSUME NEW q \in Reporters
        PROVE  /\ DOMAIN draft'[q] = {"at", "seen", "prior", "base", "fails", "news"}
               /\ draft'[q].at # "off" => \A m \in Metrics : draft'[q].seen[m] \in Int \cup {Missing}
               /\ draft'[q].at = "prior" => draft'[q].fails = Missing
               /\ draft'[q].at = "seen" => draft'[q].fails = Missing /\ draft'[q].prior = 0
    <3>1. CASE q = r  BY <1>1, <3>1
    <3>2. CASE q # r  BY <1>1, <3>2 DEF ReportInv, DraftsShaped
    <3> QED  BY <3>1, <3>2
  <2> QED  BY <1>1, <2>1, <2>2 DEF DraftsShaped
<1>4. ASSUME NEW q \in Reporters PROVE DraftKnows(q)' /\ DraftHasNews(q)' /\ DraftAnnounced(q)'
  <2>1. CASE q = r  BY <1>1, <2>1 DEF DraftKnows, DraftHasNews, DraftAnnounced
  <2>2. CASE q # r
    <3>1. draft'[q] = draft[q] /\ DraftKnows(q) /\ DraftHasNews(q) /\ DraftAnnounced(q)
      BY <1>1, <2>2 DEF ReportInv
    <3> QED  BY <3>1 DEF DraftKnows, DraftHasNews, DraftAnnounced
  <2> QED  BY <2>1, <2>2
<1>5. NewsTold'
  BY DEF ReportInv, NewsTold
<1>6. SavedSoFar' \in Nat /\ DOMAIN reportpast' = {"news", "begun", "saved", "kills"}
  BY DEF ReportInv
<1> QED  BY <1>2, <1>3, <1>4, <1>5, <1>6 DEF ReportInv

LEMMA GatheringKeeps ==
    ASSUME ReportInv, NEW r \in Reporters, ReadsServer(r) \/ ReadsPrior(r) \/ RunsAudit(r) \/ ReportKilled(r)
    PROVE  ReportInv'
<1>0. /\ DOMAIN draft[r] = {"at", "seen", "prior", "base", "fails", "news"}
      /\ draft[r].at # "off" => \A m \in Metrics : draft[r].seen[m] \in Int \cup {Missing}
      /\ draft[r].at = "prior" => draft[r].fails = Missing
      /\ draft[r].at = "seen" => draft[r].fails = Missing /\ draft[r].prior = 0
      /\ DraftKnows(r) /\ matter \in Worlds /\ SnapsListed /\ SavedSoFar \in Nat
      /\ DOMAIN reportpast = {"news", "begun", "saved", "kills"}
  BY DEF ReportInv, DraftsShaped
<1>1. CASE ReadsServer(r)
  <2> DEFINE d == [Off EXCEPT !.at = "seen", !.seen = [swap |-> matter.swap, load |-> matter.load,
                                                       passes |-> Passes(matter.gtm)]]
  <2>1. draft' = [draft EXCEPT ![r] = d]
    BY <1>1 DEF ReadsServer, Step
  <2>2. /\ DOMAIN d = {"at", "seen", "prior", "base", "fails", "news"} /\ d.at = "seen" /\ d.fails = Missing /\ d.prior = 0
        /\ d.seen["swap"] = matter.swap /\ d.seen["load"] = matter.load
        /\ d.seen["passes"] = Passes(matter.gtm)
    BY DEF Off
  <2>3. matter.swap \in Int \cup {Missing} /\ matter.load \in Int \cup {Missing}
        /\ matter.gtm \in [Cats -> {"pass", "fail", "blocked"}]
    BY <1>0, WorldAssumption
  <2>4. Passes(matter.gtm) \in Nat
    BY <2>3, PassesGrow, PmReportAssumption
  <2> HIDE DEF d
  <2>5. \A m \in Metrics : d.seen[m] \in Int \cup {Missing}
    BY <2>2, <2>3, <2>4 DEF Metrics
  <2>6. /\ matter' = matter /\ snaps' = snaps /\ announced' = announced
        /\ SavedSoFar' = SavedSoFar /\ DOMAIN reportpast' = DOMAIN reportpast
    BY <1>0, <1>1 DEF ReadsServer, Gathers, SavedSoFar
  <2>7. d.at \notin PassLooked /\ d.at \notin Built /\ d.at # "filed"
    BY <2>2 DEF PassLooked, Built
  <2> QED  BY <1>0, <2>1, <2>2, <2>5, <2>6, <2>7, OneDraftMoves
<1>2. CASE ReadsPrior(r)
  <2>1. draft[r].at = "seen" /\ draft[r].fails = Missing /\ draft[r].prior = 0
    BY <1>0, <1>2 DEF ReadsPrior, Step
  <2>2. /\ matter' = matter /\ snaps' = snaps /\ announced' = announced /\ reportpast' = reportpast
        /\ SavedSoFar' = SavedSoFar
    BY <1>2 DEF ReadsPrior, Gathers, SavedSoFar
  <2>3. PICK T : snaps \in Seq(T)
    BY <1>0 DEF SnapsListed
  <2>4. PICK d : /\ draft' = [draft EXCEPT ![r] = d]
                 /\ d = IF snaps = <<>> THEN [draft[r] EXCEPT !.at = "prior"]
                        ELSE [draft[r] EXCEPT !.at = "prior", !.prior = Last(snaps).id,
                                             !.base = Last(snaps).fails]
    BY <1>2 DEF ReadsPrior, Step
  <2>5. /\ DOMAIN d = {"at", "seen", "prior", "base", "fails", "news"} /\ d.at = "prior"
        /\ d.fails = Missing /\ d.seen = draft[r].seen
        /\ snaps # <<>> => d.prior = Last(snaps).id /\ d.base = Last(snaps).fails
        /\ snaps = <<>> => d.prior = draft[r].prior
    BY <1>0, <2>1, <2>4
  <2>6. /\ d.prior \in 0 .. SavedSoFar
        /\ \A i \in DOMAIN snaps : snaps[i].id = d.prior => snaps[i].fails = d.base
    <3>1. CASE snaps = <<>>
      <4>1. DOMAIN snaps = {}
        BY <3>1
      <4>2. d.prior = 0  BY <2>1, <2>5, <3>1
      <4> QED  BY <4>1, <4>2, <1>0
    <3>2. CASE snaps # <<>>
      <4>1. Len(snaps) \in DOMAIN snaps /\ \A i \in DOMAIN snaps : i = Len(snaps) \/ i < Len(snaps)
        BY <2>3, <3>2
      <4>2. d.prior = snaps[Len(snaps)].id /\ d.base = snaps[Len(snaps)].fails
        BY <2>5, <3>2 DEF Last
      <4>3. \A i \in DOMAIN snaps : i # Len(snaps) => snaps[i].id # snaps[Len(snaps)].id
        BY <4>1, <1>0 DEF SnapsListed
      <4> QED  BY <1>0, <4>1, <4>2, <4>3 DEF SnapsListed
    <3> QED  BY <3>1, <3>2
  <2>7. d.at \notin Built /\ d.at # "filed" /\ \A m \in Metrics : d.seen[m] \in Int \cup {Missing}
    BY <1>0, <2>1, <2>5 DEF Built
  <2> QED  BY <1>0, <2>2, <2>4, <2>5, <2>6, <2>7, OneDraftMoves
<1>3. CASE RunsAudit(r)
  <2>1. draft[r].at = "prior" /\ draft[r].fails = Missing
    BY <1>0, <1>3 DEF RunsAudit, Step
  <2>2. /\ matter' = matter /\ snaps' = snaps /\ announced' = announced /\ reportpast' = reportpast
        /\ SavedSoFar' = SavedSoFar
    BY <1>3 DEF RunsAudit, Gathers, SavedSoFar
  <2>3. PICK d : /\ draft' = [draft EXCEPT ![r] = d]
                 /\ \/ d = [draft[r] EXCEPT !.at = "built", !.fails = matter.fails,
                                            !.news = NewsSince(draft[r].base, matter.fails)]
                    \/ d = [draft[r] EXCEPT !.at = "built"]
    BY <1>3 DEF RunsAudit, Step
  <2>4. /\ DOMAIN d = {"at", "seen", "prior", "base", "fails", "news"} /\ d.at = "built"
        /\ d.seen = draft[r].seen /\ d.prior = draft[r].prior /\ d.base = draft[r].base
        /\ d.fails = Missing \/ d.news = NewsSince(d.base, d.fails)
    BY <1>0, <2>1, <2>3, ZenonT(30)
  <2>5. d.base # Missing /\ d.fails # Missing => d.fails \ d.base \subseteq d.news
    BY <2>4 DEF NewsSince
  <2>6. /\ d.prior \in 0 .. SavedSoFar
        /\ \A i \in DOMAIN snaps : snaps[i].id = d.prior => snaps[i].fails = d.base
    BY <1>0, <2>1, <2>4 DEF DraftKnows, PassLooked
  <2>7. d.at \notin {"seen", "prior"} /\ d.at # "filed" /\ \A m \in Metrics : d.seen[m] \in Int \cup {Missing}
    BY <1>0, <2>1, <2>4
  <2> QED  BY <1>0, <2>2, <2>3, <2>4, <2>5, <2>6, <2>7, OneDraftMoves
<1>4. CASE ReportKilled(r)
  <2>1. draft' = [draft EXCEPT ![r] = Off]
    BY <1>4 DEF ReportKilled
  <2>2. /\ matter' = matter /\ snaps' = snaps /\ announced' = announced
        /\ SavedSoFar' = SavedSoFar /\ DOMAIN reportpast' = DOMAIN reportpast
    BY <1>0, <1>4 DEF ReportKilled, Gathers, SavedSoFar
  <2>3. Off.at = "off" /\ DOMAIN Off = {"at", "seen", "prior", "base", "fails", "news"}
        /\ Off.at \notin PassLooked /\ Off.at \notin Built
    BY DEF Off, PassLooked, Built
  <2> QED  BY <1>0, <2>1, <2>2, <2>3, OneDraftMoves
<1> QED  BY <1>1, <1>2, <1>3, <1>4

LEMMA WritingKeeps ==
    ASSUME ReportInv, NEW r \in Reporters, OpensLatest(r) \/ WritesLatest(r) \/ AppendsHistory(r)
    PROVE  ReportInv'
<1>0. /\ DOMAIN draft[r] = {"at", "seen", "prior", "base", "fails", "news"}
      /\ draft[r].at # "off" => \A m \in Metrics : draft[r].seen[m] \in Int \cup {Missing}
      /\ DraftKnows(r) /\ DraftHasNews(r) /\ matter \in Worlds
      /\ DOMAIN reportpast = {"news", "begun", "saved", "kills"}
  BY DEF ReportInv, DraftsShaped
<1>1. PICK d : /\ draft' = [draft EXCEPT ![r] = d]
               /\ \/ draft[r].at \in {"built", "cut"} /\ d = [draft[r] EXCEPT !.at = NextWrite[draft[r].at]]
                  \/ /\ draft[r].at = "latest" /\ d = [draft[r] EXCEPT !.at = "filed"]
                     /\ announced' = announced \cup {<<o, draft[r].prior>> : o \in draft[r].news}
  BY DEF OpensLatest, WritesLatest, AppendsHistory, Proceeds, Step, NextWrite
<1>2. /\ matter' = matter /\ snaps' = snaps /\ announced \subseteq announced' /\ reportpast' = reportpast
      /\ SavedSoFar' = SavedSoFar
  BY DEF OpensLatest, WritesLatest, AppendsHistory, SavedSoFar
<1>3. /\ DOMAIN d = {"at", "seen", "prior", "base", "fails", "news"} /\ d.at \in {"cut", "latest", "filed"}
      /\ d.seen = draft[r].seen /\ d.prior = draft[r].prior /\ d.base = draft[r].base
      /\ d.fails = draft[r].fails /\ d.news = draft[r].news /\ draft[r].at \in Built
  <2>1. CASE draft[r].at = "built" /\ d = [draft[r] EXCEPT !.at = NextWrite[draft[r].at]]
    <3>1. NextWrite["built"] = "cut"  BY DEF NextWrite
    <3>2. d = [draft[r] EXCEPT !.at = "cut"]  BY <2>1, <3>1
    <3> QED  BY <1>0, <2>1, <3>2 DEF Built
  <2>2. CASE draft[r].at = "cut" /\ d = [draft[r] EXCEPT !.at = NextWrite[draft[r].at]]
    <3>1. NextWrite["cut"] = "latest"  BY DEF NextWrite
    <3>2. d = [draft[r] EXCEPT !.at = "latest"]  BY <2>2, <3>1
    <3> QED  BY <1>0, <2>2, <3>2 DEF Built
  <2>3. CASE draft[r].at = "latest" /\ d = [draft[r] EXCEPT !.at = "filed"]
    BY <1>0, <2>3 DEF Built
  <2> QED  BY <1>1, <2>1, <2>2, <2>3
<1>4. d.at = "filed" => \A o \in d.news : <<o, d.prior>> \in announced'
  <2>1. NextWrite["built"] = "cut" /\ NextWrite["cut"] = "latest"  BY DEF NextWrite
  <2>2. draft[r].at \in {"built", "cut"} /\ d = [draft[r] EXCEPT !.at = NextWrite[draft[r].at]] => d.at # "filed"
    BY <1>0, <2>1
  <2> QED  BY <1>1, <1>3, <2>2
<1>5. /\ d.prior \in 0 .. SavedSoFar
      /\ \A i \in DOMAIN snaps : snaps[i].id = d.prior => snaps[i].fails = d.base
  BY <1>0, <1>3 DEF DraftKnows, PassLooked, Built
<1>6. d.base # Missing /\ d.fails # Missing => d.fails \ d.base \subseteq d.news
  BY <1>0, <1>3 DEF DraftHasNews
<1>7. d.at \notin {"seen", "prior"} /\ \A m \in Metrics : d.seen[m] \in Int \cup {Missing}
  BY <1>0, <1>3 DEF Built
<1> QED  BY <1>0, <1>1, <1>2, <1>3, <1>4, <1>5, <1>6, <1>7, OneDraftMoves

LEMMA SavingKeeps == ASSUME ReportInv, NEW r \in Reporters, SavesSnapshot(r) PROVE ReportInv'
<1>0. /\ DOMAIN draft[r] = {"at", "seen", "prior", "base", "fails", "news"}
      /\ draft[r].at # "off" => \A m \in Metrics : draft[r].seen[m] \in Int \cup {Missing}
      /\ DraftKnows(r) /\ DraftHasNews(r) /\ DraftAnnounced(r) /\ matter \in Worlds
      /\ DOMAIN reportpast = {"news", "begun", "saved", "kills"} /\ SavedSoFar \in Nat
      /\ SnapsListed /\ DraftsShaped /\ NewsTold
  BY DEF ReportInv, DraftsShaped
<1>1. /\ draft[r].at = "filed" /\ draft' = [draft EXCEPT ![r] = Off]
      /\ snaps' = Append(snaps, Snapshot(r)) /\ matter' = matter /\ announced' = announced
      /\ reportpast' = [reportpast EXCEPT !.saved = @ + 1]
  BY DEF SavesSnapshot, Proceeds, Step, NextWrite
<1>2. SavedSoFar' = SavedSoFar + 1 /\ DOMAIN reportpast' = {"news", "begun", "saved", "kills"}
  BY <1>0, <1>1 DEF SavedSoFar
<1> DEFINE s == Snapshot(r)
           n == Len(snaps) + 1
<1>3. /\ s.id = SavedSoFar + 1 /\ s.prior = draft[r].prior /\ s.fails = draft[r].fails
      /\ \A m \in Metrics : s[m] = draft[r].seen[m]
  BY DEF Snapshot, SavedSoFar, Metrics
<1>4. PICK T : snaps \in Seq(T)
  BY <1>0 DEF SnapsListed
<1> HIDE DEF s
<1>5. /\ DOMAIN snaps' = DOMAIN snaps \cup {n} /\ snaps'[n] = s /\ \A i \in DOMAIN snaps : snaps'[i] = snaps[i]
      /\ \A i \in DOMAIN snaps : i \in Nat /\ i < n
      /\ n \in Nat
  <2>1. snaps \in Seq(T \cup {s}) /\ s \in T \cup {s}
    BY <1>4
  <2> QED  BY <1>1, <2>1 DEF s
<1>6. /\ draft[r].prior \in 0 .. SavedSoFar
      /\ \A i \in DOMAIN snaps : snaps[i].id = draft[r].prior => snaps[i].fails = draft[r].base
      /\ draft[r].base # Missing /\ draft[r].fails # Missing => draft[r].fails \ draft[r].base \subseteq draft[r].news
      /\ \A o \in draft[r].news : <<o, draft[r].prior>> \in announced
  BY <1>0, <1>1 DEF DraftKnows, DraftHasNews, DraftAnnounced, PassLooked, Built
<1>7. \E U : snaps' \in Seq(U)
  <2>1. snaps \in Seq(T \cup {s}) /\ s \in T \cup {s}
    BY <1>4
  <2>2. snaps' \in Seq(T \cup {s})
    BY <1>1, <2>1 DEF s
  <2> QED  BY <2>2
<1> HIDE DEF n
<1>8. SnapsListed'
  <2>1. \A i \in DOMAIN snaps' : \A m \in Metrics : snaps'[i][m] \in Int \cup {Missing}
    BY <1>0, <1>1, <1>3, <1>5 DEF SnapsListed, SnapsRead
  <2>2. \A i \in DOMAIN snaps' : snaps'[i].id \in 1 .. SavedSoFar' /\ snaps'[i].prior \in 0 .. SavedSoFar'
    BY <1>0, <1>2, <1>3, <1>5, <1>6 DEF SnapsListed
  <2>3. ASSUME NEW i \in DOMAIN snaps', NEW j \in DOMAIN snaps', i < j PROVE snaps'[i].id < snaps'[j].id
    <3>1. i \in DOMAIN snaps
      BY <1>5, <2>3
    <3>2. CASE j = n
      <4>1. snaps[i].id \in 1 .. SavedSoFar /\ snaps'[i].id = snaps[i].id /\ snaps'[j].id = SavedSoFar + 1
        BY <3>1, <3>2, <1>0, <1>3, <1>5 DEF SnapsListed
      <4> QED  BY <4>1, <1>0
    <3>3. CASE j \in DOMAIN snaps
      BY <2>3, <3>1, <3>3, <1>0, <1>5 DEF SnapsListed
    <3> QED  BY <1>5, <3>2, <3>3
  <2> QED  BY <1>7, <2>1, <2>2, <2>3 DEF SnapsListed, SnapsRead
<1>9. NewsTold'
  <2> SUFFICES ASSUME NEW i \in DOMAIN snaps', NEW j \in DOMAIN snaps', snaps'[i].id = snaps'[j].prior,
                      snaps'[i].fails # Missing, snaps'[j].fails # Missing,
                      NEW o \in snaps'[j].fails \ snaps'[i].fails
               PROVE  <<o, snaps'[i].id>> \in announced
    BY <1>1 DEF NewsTold
  <2>1. i # n
    <3>1. snaps'[j].prior \in 0 .. SavedSoFar
      BY <1>0, <1>3, <1>5, <1>6 DEF SnapsListed
    <3> QED  BY <3>1, <1>0, <1>3, <1>5
  <2>2. i \in DOMAIN snaps /\ snaps'[i] = snaps[i]
    BY <2>1, <1>5
  <2>3. CASE j \in DOMAIN snaps
    <3>1. snaps'[j] = snaps[j]
      BY <2>3, <1>5
    <3> QED  BY <2>2, <2>3, <3>1, <1>0 DEF NewsTold
  <2>4. CASE j = n
    <3>1. snaps[i].id = draft[r].prior /\ snaps[i].fails = draft[r].base /\ snaps'[j].fails = draft[r].fails
      BY <2>2, <2>4, <1>3, <1>5, <1>6
    <3>2. o \in draft[r].news
      BY <2>2, <3>1, <1>6
    <3> QED  BY <2>2, <3>1, <3>2, <1>6
  <2> QED  BY <1>5, <2>3, <2>4
<1>10. /\ DOMAIN draft' = Reporters /\ draft'[r] = Off /\ draft' = [q \in Reporters |-> draft'[q]]
       /\ \A q \in Reporters : q # r => draft'[q] = draft[q]
  BY <1>0, <1>1 DEF DraftsShaped
<1>11. Off.at = "off" /\ DOMAIN Off = {"at", "seen", "prior", "base", "fails", "news"}
  BY DEF Off
<1>12. DraftsShaped'
  BY <1>0, <1>10, <1>11 DEF DraftsShaped
<1>13. ASSUME NEW q \in Reporters PROVE DraftKnows(q)' /\ DraftHasNews(q)' /\ DraftAnnounced(q)'
  <2>1. CASE q = r  BY <1>10, <1>11, <2>1 DEF DraftKnows, DraftHasNews, DraftAnnounced, PassLooked, Built
  <2>2. CASE q # r
    <3>1. draft'[q] = draft[q] /\ DraftKnows(q) /\ DraftHasNews(q) /\ DraftAnnounced(q)
      BY <1>10, <2>2 DEF ReportInv
    <3>2. DraftHasNews(q)' /\ DraftAnnounced(q)'
      BY <3>1, <1>1 DEF DraftHasNews, DraftAnnounced
    <3>3. ASSUME draft[q].at \in PassLooked
          PROVE  /\ draft[q].prior \in 0 .. SavedSoFar'
                 /\ \A i \in DOMAIN snaps' : snaps'[i].id = draft[q].prior => snaps'[i].fails = draft[q].base
      <4>1. draft[q].prior \in 0 .. SavedSoFar
            /\ \A i \in DOMAIN snaps : snaps[i].id = draft[q].prior => snaps[i].fails = draft[q].base
        BY <3>1, <3>3 DEF DraftKnows
      <4>2. snaps'[n].id # draft[q].prior
        BY <4>1, <1>0, <1>3, <1>5
      <4> QED  BY <4>1, <4>2, <1>0, <1>2, <1>5
    <3>4. DraftKnows(q)'
      BY <3>1, <3>3 DEF DraftKnows
    <3> QED  BY <3>2, <3>4
  <2> QED  BY <2>1, <2>2
<1> QED  BY <1>0, <1>1, <1>2, <1>8, <1>9, <1>12, <1>13 DEF ReportInv

LEMMA ExpiryKeeps == ASSUME ReportInv, SnapshotExpires PROVE ReportInv'
<1>1. PICK T : snaps \in Seq(T)
  BY DEF ReportInv, SnapsListed
<1>2. /\ snaps' = Tail(snaps) /\ Len(snaps) > 0 /\ UNCHANGED <<matter, draft, announced, reportpast>>
  BY <1>1, PmReportAssumption DEF SnapshotExpires
<1>3. /\ snaps' \in Seq(T)
      /\ \A i \in DOMAIN snaps' : i \in Nat /\ i + 1 \in DOMAIN snaps /\ snaps'[i] = snaps[i + 1]
  BY <1>1, <1>2
<1>4. SavedSoFar' = SavedSoFar
  BY <1>2 DEF SavedSoFar
<1>5. SnapsListed'
  <2>1. \E U : snaps' \in Seq(U)
    BY <1>3
  <2>2. \A i \in DOMAIN snaps' : \A m \in Metrics : snaps'[i][m] \in Int \cup {Missing}
    BY <1>3 DEF ReportInv, SnapsListed, SnapsRead
  <2>3. \A i \in DOMAIN snaps' : snaps'[i].id \in 1 .. SavedSoFar /\ snaps'[i].prior \in 0 .. SavedSoFar
    BY <1>3 DEF ReportInv, SnapsListed
  <2>4. ASSUME NEW i \in DOMAIN snaps', NEW j \in DOMAIN snaps', i < j PROVE snaps'[i].id < snaps'[j].id
    <3>1. i + 1 \in DOMAIN snaps /\ j + 1 \in DOMAIN snaps /\ i + 1 < j + 1
      BY <1>3, <2>4
    <3> QED  BY <3>1, <1>3 DEF ReportInv, SnapsListed
  <2> QED  BY <2>1, <2>2, <2>3, <2>4, <1>4 DEF SnapsListed, SnapsRead
<1>6. DraftsShaped'
  BY <1>2 DEF ReportInv, DraftsShaped
<1>7. ASSUME NEW q \in Reporters PROVE DraftKnows(q)' /\ DraftHasNews(q)' /\ DraftAnnounced(q)'
  <2>1. DraftKnows(q) /\ DraftHasNews(q) /\ DraftAnnounced(q)
    BY DEF ReportInv
  <2> QED  BY <1>2, <1>3, <1>4, <2>1 DEF DraftKnows, DraftHasNews, DraftAnnounced
<1>8. NewsTold'
  BY <1>2, <1>3 DEF ReportInv, NewsTold
<1> QED  BY <1>2, <1>4, <1>5, <1>6, <1>7, <1>8 DEF ReportInv

LEMMA ReportGoesOn == ReportInv /\ [PmReportNext]_reportvars => ReportInv'
<1> SUFFICES ASSUME ReportInv, [PmReportNext]_reportvars PROVE ReportInv'
  OBVIOUS
<1>1. CASE WorldChanges
  <2>1. matter' \in Worlds /\ UNCHANGED <<snaps, draft, latest, announced>>
    BY <1>1 DEF WorldChanges
  <2>2. SavedSoFar' = SavedSoFar /\ DOMAIN reportpast' = DOMAIN reportpast
    BY <1>1 DEF WorldChanges, SavedSoFar, ReportInv
  <2>3. SnapsListed' /\ DraftsShaped' /\ NewsTold'
    BY <2>1, <2>2 DEF ReportInv, SnapsListed, SnapsRead, DraftsShaped, NewsTold
  <2>4. ASSUME NEW q \in Reporters PROVE DraftKnows(q)' /\ DraftHasNews(q)' /\ DraftAnnounced(q)'
    BY <2>1, <2>2 DEF ReportInv, DraftKnows, DraftHasNews, DraftAnnounced
  <2> QED  BY <2>1, <2>2, <2>3, <2>4 DEF ReportInv
<1>2. CASE SnapshotExpires
  BY <1>2, ExpiryKeeps
<1>3. ASSUME NEW r \in Reporters,
             \/ ReadsServer(r) \/ ReadsPrior(r) \/ RunsAudit(r) \/ OpensLatest(r)
             \/ WritesLatest(r) \/ AppendsHistory(r) \/ SavesSnapshot(r) \/ ReportKilled(r)
      PROVE  ReportInv'
  BY <1>3, GatheringKeeps, WritingKeeps, SavingKeeps
<1>4. CASE UNCHANGED reportvars
  <2>1. UNCHANGED <<matter, snaps, draft, announced, reportpast>> /\ SavedSoFar' = SavedSoFar
    BY <1>4 DEF reportvars, SavedSoFar
  <2>2. SnapsListed' /\ DraftsShaped' /\ NewsTold'
    BY <2>1 DEF ReportInv, SnapsListed, SnapsRead, DraftsShaped, NewsTold
  <2>3. ASSUME NEW q \in Reporters PROVE DraftKnows(q)' /\ DraftHasNews(q)' /\ DraftAnnounced(q)'
    BY <2>1 DEF ReportInv, DraftKnows, DraftHasNews, DraftAnnounced
  <2> QED  BY <2>1, <2>2, <2>3 DEF ReportInv
<1> QED  BY <1>1, <1>2, <1>3, <1>4 DEF PmReportNext

\* For every set of reporters and worlds, every window, tolerance and cap: what began to fail is
\* in the history, no trend is told the wrong way round, citations come first, and the
\* recommendation follows the certification.
THEOREM ReportsTell == PmReportSpec => []ReportTold
<1>1. ReportInv => ReportTold
  <2> SUFFICES ASSUME ReportInv PROVE ReportTold
    OBVIOUS
  <2>1. NewsTold /\ matter \in Worlds
    BY DEF ReportInv
  <2>2. TrendsHonest
    <3>1. PICK T : snaps \in Seq(T)
      BY DEF ReportInv, SnapsListed
    <3> QED  BY <3>1, TrendsAreHonest DEF ReportInv, SnapsListed
  <2> QED  BY <2>1, <2>2, CitationsAreFirst, ReadinessFollows DEF ReportTold
<1> QED  BY <1>1, ReportBegins, ReportGoesOn, PTL DEF PmReportSpec

\* The reporters at work; each begun report is at work, saved or killed.
AtWork == {r \in Reporters : draft[r].at # "off"}
ReportsCounted ==
    /\ reportpast.begun \in Nat /\ reportpast.begun <= MaxReports
    /\ SavedSoFar + Cardinality(AtWork) <= reportpast.begun
NewsTyped ==
    /\ \A r \in Reporters : /\ draft[r].at \in {"off", "seen", "prior", "built", "cut", "latest", "filed"}
                            /\ draft[r].news \subseteq Ocids
    /\ latest \in {"none", "cut", "whole"}
    /\ announced \subseteq Ocids \X (0 .. MaxReports)
ReportRest == ReportsCounted /\ NewsTyped

LEMMA AtWorkCounts == IsFiniteSet(AtWork) /\ Cardinality(AtWork) \in Nat
<1>1. AtWork \subseteq Reporters /\ IsFiniteSet(Reporters)
  BY PmReportAssumption DEF AtWork
<1> QED  BY <1>1, FS_Subset, FS_CardinalityType

LEMMA ReportRestBegins == PmReportInit => ReportRest
<1> SUFFICES ASSUME PmReportInit PROVE ReportRest
  OBVIOUS
<1>1. \A r \in Reporters : draft[r].at = "off" /\ draft[r].news = {}
  BY DEF PmReportInit, Off
<1>2. AtWork = {}
  BY <1>1 DEF AtWork
<1>3. Cardinality(AtWork) = 0
  BY <1>2, FS_EmptySet
<1>4. reportpast.begun = 0 /\ SavedSoFar = 0 /\ MaxReports \in Nat
  BY PmReportAssumption DEF PmReportInit, SavedSoFar
<1> QED  BY <1>1, <1>3, <1>4 DEF PmReportInit, ReportRest, ReportsCounted, NewsTyped

\* One reporter moves, and the count of those at work with it.
LEMMA WorkCounted ==
    ASSUME ReportInv, ReportRest, NEW r \in Reporters, NEW d, draft' = [draft EXCEPT ![r] = d]
    PROVE  /\ draft[r].at = "off" /\ d.at # "off" => Cardinality(AtWork') = Cardinality(AtWork) + 1
           /\ draft[r].at # "off" /\ d.at = "off" => Cardinality(AtWork') = Cardinality(AtWork) - 1
           /\ (draft[r].at = "off") = (d.at = "off") => AtWork' = AtWork
<1>1. /\ DOMAIN draft' = Reporters /\ draft'[r] = d /\ \A q \in Reporters : q # r => draft'[q] = draft[q]
  BY DEF ReportInv, DraftsShaped
<1>2. CASE draft[r].at = "off" /\ d.at # "off"
  <2>1. AtWork' = AtWork \cup {r} /\ r \notin AtWork
    BY <1>1, <1>2 DEF AtWork
  <2>2. Cardinality(AtWork') = Cardinality(AtWork) + 1
    BY <2>1, AtWorkCounts, FS_AddElement
  <2> QED  BY <1>2, <2>2
<1>3. CASE draft[r].at # "off" /\ d.at = "off"
  <2>1. AtWork' = AtWork \ {r} /\ r \in AtWork
    BY <1>1, <1>3 DEF AtWork
  <2>2. Cardinality(AtWork') = Cardinality(AtWork) - 1
    BY <2>1, AtWorkCounts, FS_RemoveElement
  <2> QED  BY <1>3, <2>2
<1>4. CASE (draft[r].at = "off") = (d.at = "off")
  <2>1. AtWork' = AtWork
    BY <1>1, <1>4 DEF AtWork
  <2> QED  BY <1>4, <2>1
<1> QED  BY <1>2, <1>3, <1>4

\* A draft moves on, and what is announced is of its news.
LEMMA DraftMovesRest ==
    ASSUME ReportInv, ReportRest, NEW r \in Reporters, NEW d, draft' = [draft EXCEPT ![r] = d],
           d.at \in {"off", "seen", "prior", "built", "cut", "latest", "filed"}, d.news \subseteq Ocids,
           latest' \in {"none", "cut", "whole"}, announced' \subseteq Ocids \X (0 .. MaxReports)
    PROVE  NewsTyped'
<1>1. /\ DOMAIN draft' = Reporters /\ draft'[r] = d /\ \A q \in Reporters : q # r => draft'[q] = draft[q]
  BY DEF ReportInv, DraftsShaped
<1>2. ASSUME NEW q \in Reporters
      PROVE  /\ draft'[q].at \in {"off", "seen", "prior", "built", "cut", "latest", "filed"}
             /\ draft'[q].news \subseteq Ocids
  <2>1. CASE q = r  BY <1>1, <2>1
  <2>2. CASE q # r  BY <1>1, <2>2 DEF ReportRest, NewsTyped
  <2> QED  BY <2>1, <2>2
<1> QED  BY <1>2 DEF NewsTyped

LEMMA ReportRestGoesOn == ReportInv /\ ReportRest /\ [PmReportNext]_reportvars => ReportRest'
<1> SUFFICES ASSUME ReportInv, ReportRest, [PmReportNext]_reportvars PROVE ReportRest'
  OBVIOUS
<1>0. /\ DOMAIN reportpast = {"news", "begun", "saved", "kills"} /\ SavedSoFar \in Nat
      /\ reportpast.begun \in Nat /\ reportpast.begun <= MaxReports /\ MaxReports \in Nat
      /\ SavedSoFar + Cardinality(AtWork) <= reportpast.begun /\ Cardinality(AtWork) \in Nat
      /\ matter.fails \subseteq Ocids
  BY PmReportAssumption, WorldAssumption, AtWorkCounts DEF ReportInv, ReportRest, ReportsCounted
<1>1. ASSUME UNCHANGED draft, UNCHANGED <<latest, announced>>, SavedSoFar' = SavedSoFar,
             reportpast'.begun = reportpast.begun
      PROVE  ReportRest'
  <2>1. AtWork' = AtWork
    BY <1>1 DEF AtWork
  <2> QED  BY <1>1, <2>1 DEF ReportRest, ReportsCounted, NewsTyped
<1>2. CASE WorldChanges \/ SnapshotExpires \/ UNCHANGED reportvars
  <2>1. UNCHANGED <<draft, latest, announced>>
    BY <1>2 DEF WorldChanges, SnapshotExpires, reportvars
  <2>2. SavedSoFar' = SavedSoFar /\ reportpast'.begun = reportpast.begun
    BY <1>0, <1>2 DEF WorldChanges, SnapshotExpires, reportvars, SavedSoFar
  <2> QED  BY <1>1, <2>1, <2>2
<1>3. ASSUME NEW r \in Reporters, ReadsServer(r) PROVE ReportRest'
  <2>1. PICK d : draft' = [draft EXCEPT ![r] = d] /\ d.at = "seen" /\ d.news = {}
    <3> DEFINE x == [Off EXCEPT !.at = "seen", !.seen = [swap |-> matter.swap, load |-> matter.load,
                                                         passes |-> Passes(matter.gtm)]]
    <3>1. draft' = [draft EXCEPT ![r] = x]
      BY <1>3 DEF ReadsServer, Step
    <3>2. x.at = "seen" /\ x.news = {}
      BY DEF Off
    <3> HIDE DEF x
    <3> QED  BY <3>1, <3>2
  <2>2. /\ draft[r].at = "off" /\ UNCHANGED <<latest, announced>> /\ reportpast.begun < MaxReports
        /\ reportpast' = [reportpast EXCEPT !.begun = @ + 1]
    BY <1>3 DEF ReadsServer, Step, Gathers
  <2>3. SavedSoFar' = SavedSoFar /\ reportpast'.begun = reportpast.begun + 1
    BY <1>0, <2>2 DEF SavedSoFar
  <2>4. Cardinality(AtWork') = Cardinality(AtWork) + 1
    BY <2>1, <2>2, WorkCounted
  <2>5. ReportsCounted'
    BY <1>0, <2>2, <2>3, <2>4 DEF ReportsCounted
  <2>6. NewsTyped'
    BY <2>1, <2>2, DraftMovesRest DEF ReportRest, NewsTyped
  <2> QED  BY <2>5, <2>6 DEF ReportRest
<1>4. ASSUME NEW r \in Reporters, NEW d, draft' = [draft EXCEPT ![r] = d], draft[r].at # "off",
             d.at \in {"prior", "built", "cut", "latest", "filed"}, d.news \subseteq Ocids,
             latest' \in {"none", "cut", "whole"}, announced' \subseteq Ocids \X (0 .. MaxReports),
             UNCHANGED reportpast
      PROVE  ReportRest'
  <2>1. AtWork' = AtWork
    BY <1>4, WorkCounted
  <2>2. ReportsCounted'
    BY <1>0, <1>4, <2>1 DEF ReportsCounted, SavedSoFar
  <2>3. NewsTyped'
    BY <1>4, DraftMovesRest
  <2> QED  BY <2>2, <2>3 DEF ReportRest
<1>5. ASSUME NEW r \in Reporters
      PROVE  /\ DOMAIN draft[r] = {"at", "seen", "prior", "base", "fails", "news"}
             /\ draft[r].news \subseteq Ocids /\ latest \in {"none", "cut", "whole"}
             /\ announced \subseteq Ocids \X (0 .. MaxReports)
  BY DEF ReportInv, DraftsShaped, ReportRest, NewsTyped
<1>6. ASSUME NEW r \in Reporters, ReadsPrior(r) PROVE ReportRest'
  <2>1. PICK d : draft' = [draft EXCEPT ![r] = d] /\ d.at = "prior" /\ d.news = draft[r].news
    <3>1. PICK d : /\ draft' = [draft EXCEPT ![r] = d]
                 /\ d = IF snaps = <<>> THEN [draft[r] EXCEPT !.at = "prior"]
                        ELSE [draft[r] EXCEPT !.at = "prior", !.prior = Last(snaps).id,
                                             !.base = Last(snaps).fails]
      BY <1>6 DEF ReadsPrior, Step
    <3>2. d.at = "prior" /\ d.news = draft[r].news
      BY <1>5, <3>1
    <3> QED  BY <3>1, <3>2
  <2>2. draft[r].at = "seen" /\ UNCHANGED <<latest, announced, reportpast>>
    BY <1>6 DEF ReadsPrior, Step, Gathers
  <2> QED  BY <1>4, <1>5, <2>1, <2>2
<1>7. ASSUME NEW r \in Reporters, RunsAudit(r) PROVE ReportRest'
  <2>1. PICK d : /\ draft' = [draft EXCEPT ![r] = d]
                 /\ \/ d = [draft[r] EXCEPT !.at = "built", !.fails = matter.fails,
                                            !.news = NewsSince(draft[r].base, matter.fails)]
                    \/ d = [draft[r] EXCEPT !.at = "built"]
    BY <1>7 DEF RunsAudit, Step
  <2>2. NewsSince(draft[r].base, matter.fails) \subseteq Ocids
    BY <1>0 DEF NewsSince
  <2>3. d.at = "built" /\ d.news \subseteq Ocids
    BY <1>5, <2>1, <2>2
  <2>4. draft[r].at = "prior" /\ UNCHANGED <<latest, announced, reportpast>>
    BY <1>7 DEF RunsAudit, Step, Gathers
  <2> QED  BY <1>4, <1>5, <2>1, <2>3, <2>4
<1>8. ASSUME NEW r \in Reporters, OpensLatest(r) \/ WritesLatest(r) \/ AppendsHistory(r) PROVE ReportRest'
  <2>1. PICK d : /\ draft' = [draft EXCEPT ![r] = d]
                 /\ draft[r].at \in {"built", "cut", "latest"}
                 /\ d = [draft[r] EXCEPT !.at = NextWrite[draft[r].at]]
    BY <1>8 DEF OpensLatest, WritesLatest, AppendsHistory, Proceeds, Step, NextWrite
  <2>2. NextWrite["built"] = "cut" /\ NextWrite["cut"] = "latest" /\ NextWrite["latest"] = "filed"
    BY DEF NextWrite
  <2>3. d.at \in {"cut", "latest", "filed"} /\ d.news = draft[r].news
    BY <1>5, <2>1, <2>2
  <2>4. latest' \in {"none", "cut", "whole"} /\ UNCHANGED reportpast
    BY <1>5, <1>8 DEF OpensLatest, WritesLatest, AppendsHistory
  <2>5. announced' \subseteq Ocids \X (0 .. MaxReports)
    <3>1. CASE UNCHANGED announced
      BY <1>5, <3>1
    <3>2. CASE AppendsHistory(r)
      <4>1. announced' = announced \cup {<<o, draft[r].prior>> : o \in draft[r].news} /\ draft[r].at = "latest"
        BY <3>2 DEF AppendsHistory, Proceeds, Step, NextWrite
      <4>2. draft[r].prior \in 0 .. SavedSoFar
        BY <4>1 DEF ReportInv, DraftKnows, PassLooked
      <4>3. draft[r].prior \in 0 .. MaxReports
        BY <1>0, <4>2
      <4> QED  BY <1>5, <4>1, <4>3
    <3> QED  BY <1>8, <3>1, <3>2 DEF OpensLatest, WritesLatest
  <2> QED  BY <1>4, <1>5, <2>1, <2>3, <2>4, <2>5
<1>9. ASSUME NEW r \in Reporters, SavesSnapshot(r) \/ ReportKilled(r) PROVE ReportRest'
  <2>1. Off.at = "off" /\ Off.news = {}
    BY DEF Off
  <2>2. draft' = [draft EXCEPT ![r] = Off] /\ draft[r].at # "off" /\ UNCHANGED <<latest, announced>>
    BY <1>9 DEF SavesSnapshot, ReportKilled, Proceeds, Step, NextWrite, Gathers
  <2>3. reportpast'.begun = reportpast.begun
        /\ (SavedSoFar' = SavedSoFar \/ SavedSoFar' = SavedSoFar + 1)
    BY <1>0, <1>9 DEF SavesSnapshot, ReportKilled, SavedSoFar
  <2>4. Cardinality(AtWork') = Cardinality(AtWork) - 1
    BY <2>1, <2>2, WorkCounted
  <2>5. ReportsCounted'
    BY <1>0, <2>3, <2>4 DEF ReportsCounted
  <2>6. NewsTyped'
    BY <1>5, <2>1, <2>2, DraftMovesRest
  <2> QED  BY <2>5, <2>6 DEF ReportRest
<1> QED  BY <1>2, <1>3, <1>6, <1>7, <1>8, <1>9 DEF PmReportNext

\* Reports keep their types: no more are saved than were begun.
LEMMA ReportTyped == PmReportSpec => []PmReportTypeOK
<1>1. ReportInv /\ ReportRest => PmReportTypeOK
  <2> SUFFICES ASSUME ReportInv, ReportRest PROVE PmReportTypeOK
    OBVIOUS
  <2>1. /\ matter \in Worlds /\ matter.gtm \in [Cats -> {"pass", "fail", "blocked"}]
        /\ {matter.swap, matter.load} \subseteq Values /\ matter.fails \subseteq Ocids
    BY WorldAssumption DEF ReportInv, Values
  <2>2. ASSUME NEW i \in DOMAIN snaps
        PROVE  snaps[i].id \in 1 .. MaxReports /\ \A m \in Metrics : snaps[i][m] \in Values
    <3>1. SavedSoFar \in Nat /\ SavedSoFar <= MaxReports /\ MaxReports \in Nat
      BY AtWorkCounts, PmReportAssumption DEF ReportInv, ReportRest, ReportsCounted
    <3>2. snaps[i].id \in 1 .. SavedSoFar /\ \A m \in Metrics : snaps[i][m] \in Values
      BY DEF ReportInv, SnapsListed, SnapsRead, Values
    <3> QED  BY <3>1, <3>2
  <2> QED  BY <2>1, <2>2 DEF ReportRest, NewsTyped, PmReportTypeOK
<1> QED  BY <1>1, ReportBegins, ReportGoesOn, ReportRestBegins, ReportRestGoesOn, PTL DEF PmReportSpec

-----------------------------------------------------------------------------
(* WiringRegistry *)

\* Entities are records of these fields; all of what they go to is there; and of those
\* that stand for a file there is one per path.
Ids(ents) == {e.id : e \in ents}
Shaped(ents) == \A e \in ents : DOMAIN e = {"id", "path", "to", "refs"}
Linked(ents) == \A e \in ents : e.to \subseteq Ids(ents)
OnePerPath(ents) ==
    \A e, f \in ents : (\E p \in Paths : Claims(e, p) /\ Claims(f, p)) => e = f
Sound(ents) == Shaped(ents) /\ Linked(ents) /\ OnePerPath(ents)

\* What was there is there still, with the references it had.
Grown(ents, more) ==
    \A e \in ents : \E f \in more :
        f.id = e.id /\ f.path = e.path /\ f.to = e.to /\ e.refs \subseteq f.refs

StandsForFile == {"file", "known", "doc"}

LEMMA GrownTwice ==
    ASSUME NEW A, NEW B, NEW C, Grown(A, B), Grown(B, C)
    PROVE  Grown(A, C)
<1> SUFFICES ASSUME NEW e \in A
             PROVE  \E f \in C : f.id = e.id /\ f.path = e.path /\ f.to = e.to /\ e.refs \subseteq f.refs
  BY DEF Grown
<1>1. PICK b \in B : b.id = e.id /\ b.path = e.path /\ b.to = e.to /\ e.refs \subseteq b.refs
  BY DEF Grown
<1>2. PICK c \in C : c.id = b.id /\ c.path = b.path /\ c.to = b.to /\ b.refs \subseteq c.refs
  BY DEF Grown
<1> QED  BY <1>1, <1>2

LEMMA GrownIds == ASSUME NEW A, NEW B, Grown(A, B) PROVE Ids(A) \subseteq Ids(B)
BY DEF Grown, Ids

LEMMA EntityFields ==
    ASSUME NEW id, NEW path, NEW to, NEW ref
    PROVE  LET e == Entity(id, path, to, ref)
           IN  /\ DOMAIN e = {"id", "path", "to", "refs"}
               /\ e.id = id /\ e.path = path /\ e.to = to /\ e.refs = {ref}
BY DEF Entity

\* More entities, none of which stands for a file, that go to what is there then.
LEMMA MoreEntities ==
    ASSUME NEW E, Sound(E), NEW N, Shaped(N),
           \A e \in N : e.id[1] \notin StandsForFile,
           \A e \in N : e.to \subseteq Ids(E) \cup Ids(N)
    PROVE  Sound(E \cup N) /\ Grown(E, E \cup N) /\ Ids(E \cup N) = Ids(E) \cup Ids(N)
<1>1. Ids(E \cup N) = Ids(E) \cup Ids(N)
  BY DEF Ids
<1>2. Shaped(E \cup N)
  BY DEF Sound, Shaped
<1>3. Linked(E \cup N)
  BY <1>1 DEF Sound, Linked
<1>4. OnePerPath(E \cup N)
  BY DEF Sound, OnePerPath, Claims, StandsForFile
<1>5. Grown(E, E \cup N)
  BY DEF Grown
<1> QED  BY <1>1, <1>2, <1>3, <1>4, <1>5 DEF Sound

\* The entities that claim one of the paths are told of it, and the rest stay.
Told(ents, paths, ref) ==
    {IF \E p \in paths : Claims(e, p) THEN [e EXCEPT !.refs = @ \cup {ref}] ELSE e : e \in ents}

\* New entities for files that none claims, of one path each, and no two of one path.
FilesOnly(N, E) ==
    \A e \in N : /\ e.to = {} /\ \E q \in Paths : e.path = {q} /\ \A f \in E : ~Claims(f, q)
                 /\ \A f \in N : e.path = f.path => e = f

\* Whatever claimed one of the paths has been told.
Informed(E, F, paths, ref) ==
    \A p \in paths : \A e \in E : Claims(e, p) =>
        \E f \in F : Claims(f, p) /\ p \in f.path /\ ref \in f.refs

LEMMA ToldAndFiled ==
    ASSUME NEW E, Sound(E), NEW paths, NEW ref, NEW N, Shaped(N), FilesOnly(N, E)
    PROVE  LET F == Told(E, paths, ref) \cup N
           IN  /\ Sound(F) /\ Grown(E, F) /\ Ids(F) = Ids(E) \cup Ids(N)
               /\ Informed(E, F, paths, ref)
<1> DEFINE t == [e \in E |-> IF \E p \in paths : Claims(e, p) THEN [e EXCEPT !.refs = @ \cup {ref}] ELSE e]
           F == Told(E, paths, ref) \cup N
<1>1. Told(E, paths, ref) = {t[e] : e \in E}
  BY DEF Told
<1>2. ASSUME NEW e \in E
      PROVE  /\ DOMAIN t[e] = {"id", "path", "to", "refs"}
             /\ t[e].id = e.id /\ t[e].path = e.path /\ t[e].to = e.to /\ e.refs \subseteq t[e].refs
             /\ (\E p \in paths : Claims(e, p)) => ref \in t[e].refs
  <2>1. DOMAIN e = {"id", "path", "to", "refs"}
    BY DEF Sound, Shaped
  <2>2. CASE \E p \in paths : Claims(e, p)
    <3>1. t[e] = [e EXCEPT !.refs = @ \cup {ref}]
      BY <2>2
    <3> QED  BY <2>1, <3>1
  <2>3. CASE ~\E p \in paths : Claims(e, p)
    <3>1. t[e] = e
      BY <2>3
    <3> QED  BY <2>1, <2>3, <3>1
  <2> QED  BY <2>2, <2>3
<1> HIDE DEF t
<1>3. ASSUME NEW e \in E, NEW p PROVE Claims(t[e], p) <=> Claims(e, p)
  BY <1>2 DEF Claims
<1>4. Ids(F) = Ids(E) \cup Ids(N)
  BY <1>1, <1>2 DEF Ids
<1>5. Shaped(F)
  BY <1>1, <1>2 DEF Shaped
<1>6. Linked(F)
  BY <1>1, <1>2, <1>4 DEF Sound, Linked, FilesOnly
<1>7. OnePerPath(F)
  <2> SUFFICES ASSUME NEW a \in F, NEW b \in F, NEW p \in Paths, Claims(a, p), Claims(b, p)
               PROVE  a = b
    BY DEF OnePerPath
  <2>1. ASSUME NEW e \in E, NEW n \in N, Claims(e, p), Claims(n, p) PROVE FALSE
    <3>1. PICK q \in Paths : n.path = {q} /\ \A f \in E : ~Claims(f, q)
      BY DEF FilesOnly
    <3>2. q = p
      BY <2>1, <3>1 DEF Claims
    <3> QED  BY <2>1, <3>1, <3>2
  <2>2. CASE a \in N /\ b \in N
    <3>1. a.path = {p} /\ b.path = {p}
      BY <2>2 DEF FilesOnly, Claims
    <3> QED  BY <2>2, <3>1 DEF FilesOnly
  <2>3. CASE a \notin N /\ b \notin N
    <3>1. PICK e \in E, f \in E : a = t[e] /\ b = t[f]
      BY <2>3, <1>1
    <3>2. e = f
      BY <3>1, <1>3 DEF Sound, OnePerPath
    <3> QED  BY <3>1, <3>2
  <2>4. CASE a \notin N /\ b \in N
    <3>1. PICK e \in E : a = t[e]
      BY <2>4, <1>1
    <3> QED  BY <2>1, <2>4, <3>1, <1>3
  <2>5. CASE a \in N /\ b \notin N
    <3>1. PICK e \in E : b = t[e]
      BY <2>5, <1>1
    <3> QED  BY <2>1, <2>5, <3>1, <1>3
  <2> QED  BY <2>2, <2>3, <2>4, <2>5
<1>8. Grown(E, F)
  BY <1>1, <1>2 DEF Grown
<1>9. ASSUME NEW p \in paths, NEW e \in E, Claims(e, p)
      PROVE  \E f \in F : Claims(f, p) /\ p \in f.path /\ ref \in f.refs
  <2>1. t[e] \in F /\ Claims(t[e], p) /\ ref \in t[e].refs
    BY <1>1, <1>2, <1>3, <1>9
  <2> QED  BY <2>1 DEF Claims
<1>10. Informed(E, F, paths, ref)
  BY <1>9 DEF Informed
<1>11. Sound(F)
  BY <1>5, <1>6, <1>7 DEF Sound
<1> QED  BY <1>4, <1>8, <1>10, <1>11

Claimed(ents, p) == \E e \in ents : Claims(e, p)

LEMMA IdOfClaimed == ASSUME NEW E, NEW p, Claimed(E, p) PROVE IdOf(E, p) \in Ids(E)
BY DEF IdOf, Ids, Claimed

\* The engines and gateways are there, and an entity for each of their files.
Holds(ents, units) ==
    /\ DOMAIN units \subseteq Ids(ents)
    /\ \A u \in DOMAIN units : \A p \in units[u] : Claimed(ents, p)

LEMMA HoldsStill == ASSUME NEW A, NEW B, NEW units, Grown(A, B), Holds(A, units) PROVE Holds(B, units)
<1>1. DOMAIN units \subseteq Ids(B)
  BY GrownIds DEF Holds
<1>2. ASSUME NEW u \in DOMAIN units, NEW p \in units[u] PROVE Claimed(B, p)
  <2>1. PICK e \in A : Claims(e, p)
    BY DEF Holds, Claimed
  <2>2. PICK f \in B : f.id = e.id /\ f.path = e.path
    BY DEF Grown
  <2> QED  BY <2>1, <2>2 DEF Claims, Claimed
<1> QED  BY <1>1, <1>2 DEF Holds

LEMMA FiledIsSound ==
    ASSUME NEW E, Sound(E), NEW paths \in SUBSET Paths, NEW ref
    PROVE  /\ Sound(Filed(E, paths, ref)) /\ Grown(E, Filed(E, paths, ref))
           /\ \A p \in paths : /\ Claimed(Filed(E, paths, ref), p)
                               /\ IdOf(Filed(E, paths, ref), p) \in Ids(Filed(E, paths, ref))
<1> DEFINE N == {Entity(<<"file", p>>, {p}, {}, ref) : p \in {q \in paths : \A e \in E : ~Claims(e, q)}}
           F == Told(E, paths, ref) \cup N
<1>1. Filed(E, paths, ref) = F
  BY DEF Filed, Told
<1>2. Shaped(N)
  BY DEF Shaped, Entity
<1>3. FilesOnly(N, E)
  <2> SUFFICES ASSUME NEW e \in N
               PROVE  /\ e.to = {} /\ \E q \in Paths : e.path = {q} /\ \A f \in E : ~Claims(f, q)
                      /\ \A f \in N : e.path = f.path => e = f
    BY DEF FilesOnly
  <2>1. PICK q \in paths : e = Entity(<<"file", q>>, {q}, {}, ref) /\ \A f \in E : ~Claims(f, q)
    OBVIOUS
  <2>2. e.to = {} /\ e.path = {q}
    BY <2>1 DEF Entity
  <2>3. ASSUME NEW f \in N, e.path = f.path PROVE e = f
    <3>1. PICK r \in paths : f = Entity(<<"file", r>>, {r}, {}, ref)
      OBVIOUS
    <3>2. f.path = {r}
      BY <3>1 DEF Entity
    <3>3. r = q
      BY <2>2, <2>3, <3>2
    <3> QED  BY <2>1, <3>1, <3>3
  <2> QED  BY <2>1, <2>2, <2>3
<1>4. ASSUME NEW p \in paths PROVE \E f \in F : Claims(f, p)
  <2>1. CASE \E e \in E : Claims(e, p)
    <3> HIDE DEF N
    <3> QED  BY <2>1, <1>2, <1>3, ToldAndFiled DEF Informed
  <2>2. CASE \A e \in E : ~Claims(e, p)
    <3> DEFINE n == Entity(<<"file", p>>, {p}, {}, ref)
    <3>1. n \in N
      BY <2>2
    <3>2. Claims(n, p)
      BY DEF Claims, Entity
    <3> QED  BY <3>1, <3>2
  <2> QED  BY <2>1, <2>2
<1> HIDE DEF N
<1>5. Sound(F) /\ Grown(E, F)
  BY <1>2, <1>3, ToldAndFiled
<1>6. \A p \in paths : Claimed(F, p) /\ IdOf(F, p) \in Ids(F)
  BY <1>4, IdOfClaimed DEF Claimed
<1> QED  BY <1>1, <1>5, <1>6

-----------------------------------------------------------------------------
(* The lists *)

LEMMA ListedShape ==
    ASSUME NEW c \in Catalogs
    PROVE  /\ \A u \in DOMAIN c.units : c.units[u] \in SUBSET Paths /\ u[1] \in {"engine", "gateway"}
           /\ c.tables.file \in SUBSET Paths /\ c.roles.file \in SUBSET Paths
           /\ \A f \in c.functions : f.file \in Paths
           /\ \A r \in c.routes : r.from \in Paths /\ r.to \in Paths
           /\ \A p \in DOMAIN c.projects : c.projects[p] \subseteq DOMAIN c.repos
BY WiringAssumption

LEMMA EnginesAreSound ==
    ASSUME NEW c \in Catalogs
    PROVE  LET F == EnginesAndGateways(c) IN Sound(F) /\ Holds(F, c.units)
<1> DEFINE paths == UNION {c.units[u] : u \in DOMAIN c.units}
           E == Filed({}, paths, "inventory")
           Sharing(u) == {v \in DOMAIN c.units \ {u} : c.units[u] \cap c.units[v] # {}}
           N == {Entity(u, c.units[u], {IdOf(E, p) : p \in c.units[u]} \cup Sharing(u), "inventory") :
                    u \in DOMAIN c.units}
<1>1. EnginesAndGateways(c) = E \cup N
  BY DEF EnginesAndGateways
<1>2. Sound({}) /\ paths \in SUBSET Paths
  BY ListedShape DEF Sound, Shaped, Linked, OnePerPath
<1>3. Sound(E) /\ \A p \in paths : Claimed(E, p) /\ IdOf(E, p) \in Ids(E)
  <2> HIDE DEF paths
  <2> QED  BY <1>2, FiledIsSound
<1>4. ASSUME NEW u \in DOMAIN c.units
      PROVE  u \in Ids(N)
  <2> DEFINE n == Entity(u, c.units[u], {IdOf(E, p) : p \in c.units[u]} \cup Sharing(u), "inventory")
  <2>1. n \in N
    OBVIOUS
  <2>2. n.id = u
    BY EntityFields
  <2> HIDE DEF n, N
  <2> QED  BY <2>1, <2>2 DEF Ids
<1>5. ASSUME NEW n \in N
      PROVE  /\ DOMAIN n = {"id", "path", "to", "refs"} /\ n.id[1] \notin StandsForFile
             /\ n.to \subseteq Ids(E) \cup Ids(N) /\ n.id \in DOMAIN c.units
  <2>1. PICK u \in DOMAIN c.units :
            n = Entity(u, c.units[u], {IdOf(E, p) : p \in c.units[u]} \cup Sharing(u), "inventory")
    OBVIOUS
  <2>2. c.units[u] \subseteq paths /\ u[1] \in {"engine", "gateway"}
    BY ListedShape
  <2>3. Sharing(u) \subseteq Ids(N)
    BY <1>4
  <2> HIDE DEF E, Sharing, N, paths
  <2>4. /\ DOMAIN n = {"id", "path", "to", "refs"} /\ n.id = u
        /\ n.to = {IdOf(E, p) : p \in c.units[u]} \cup Sharing(u)
    BY <2>1 DEF Entity
  <2> QED  BY <1>3, <2>2, <2>3, <2>4 DEF StandsForFile
<1>6. Shaped(N)
  BY <1>5 DEF Shaped
<1> HIDE DEF E, N
<1>7. Sound(E \cup N) /\ Ids(E \cup N) = Ids(E) \cup Ids(N)
  BY <1>3, <1>5, <1>6, MoreEntities
<1>8. Holds(E \cup N, c.units)
  BY <1>3, <1>4, <1>7 DEF Holds, Claimed
<1> QED  BY <1>1, <1>7, <1>8

LEMMA DefinedInIsSound ==
    ASSUME NEW E, Sound(E), NEW kind, kind \in {"table", "role"}, NEW list, list.file \in SUBSET Paths,
           NEW ref
    PROVE  LET F == DefinedIn(E, kind, list, ref) IN Sound(F) /\ Grown(E, F)
<1> DEFINE F == Filed(E, list.file, ref)
           N == {Entity(<<kind, n>>, {}, {IdOf(F, p) : p \in list.file}, ref) : n \in list.names}
<1>1. DefinedIn(E, kind, list, ref) = F \cup N
  BY DEF DefinedIn
<1>2. Sound(F) /\ Grown(E, F) /\ \A p \in list.file : IdOf(F, p) \in Ids(F)
  BY FiledIsSound
<1> HIDE DEF F
<1>3. ASSUME NEW n \in N
      PROVE  /\ DOMAIN n = {"id", "path", "to", "refs"} /\ n.id[1] \notin StandsForFile
             /\ n.to \subseteq Ids(F) \cup Ids(N)
  <2>1. PICK i : n = Entity(<<kind, i>>, {}, {IdOf(F, p) : p \in list.file}, ref)
    OBVIOUS
  <2>2. /\ DOMAIN n = {"id", "path", "to", "refs"} /\ n.id = <<kind, i>>
        /\ n.to = {IdOf(F, p) : p \in list.file}
    BY <2>1 DEF Entity
  <2>3. n.id[1] = kind
    BY <2>2
  <2> QED  BY <1>2, <2>2, <2>3 DEF StandsForFile
<1> HIDE DEF N
<1>4. Shaped(N)
  BY <1>3 DEF Shaped
<1>5. Sound(F \cup N) /\ Grown(F, F \cup N)
  BY <1>2, <1>3, <1>4, MoreEntities
<1> QED  BY <1>1, <1>2, <1>5, GrownTwice

LEMMA FunctionsAreSound ==
    ASSUME NEW c \in Catalogs, NEW E, Sound(E), DOMAIN c.units \subseteq Ids(E)
    PROVE  LET F == FunctionsOf(c, E) IN Sound(F) /\ Grown(E, F)
<1> DEFINE paths == {f.file : f \in c.functions}
           F == Filed(E, paths, "function_catalog")
           Engines(f) == {u \in DOMAIN c.units : u[1] = "engine" /\ c.units[u] \cap Inside[f.file] # {}}
           N == {Entity(<<"function", f.name>>, {f.file}, {IdOf(F, f.file)} \cup Engines(f), "function_catalog") :
                    f \in c.functions}
<1>1. FunctionsOf(c, E) = F \cup N
  BY DEF FunctionsOf
<1>2. paths \in SUBSET Paths /\ \A f \in c.functions : f.file \in paths
  BY ListedShape
<1>3. Sound(F) /\ Grown(E, F) /\ \A p \in paths : IdOf(F, p) \in Ids(F)
  <2> HIDE DEF paths
  <2> QED  BY <1>2, FiledIsSound
<1>4. Ids(E) \subseteq Ids(F) /\ \A f \in c.functions : Engines(f) \subseteq Ids(E)
  BY <1>3, GrownIds
<1> HIDE DEF F, paths, Engines
<1>5. ASSUME NEW n \in N
      PROVE  /\ DOMAIN n = {"id", "path", "to", "refs"} /\ n.id[1] \notin StandsForFile
             /\ n.to \subseteq Ids(F) \cup Ids(N)
  <2>1. PICK f \in c.functions :
            n = Entity(<<"function", f.name>>, {f.file}, {IdOf(F, f.file)} \cup Engines(f), "function_catalog")
    OBVIOUS
  <2>2. /\ DOMAIN n = {"id", "path", "to", "refs"} /\ n.id = <<"function", f.name>>
        /\ n.to = {IdOf(F, f.file)} \cup Engines(f)
    BY <2>1 DEF Entity
  <2> QED  BY <1>2, <1>3, <1>4, <2>2 DEF StandsForFile
<1> HIDE DEF N
<1>6. Shaped(N)
  BY <1>5 DEF Shaped
<1>7. Sound(F \cup N) /\ Grown(F, F \cup N)
  BY <1>3, <1>5, <1>6, MoreEntities
<1> QED  BY <1>1, <1>3, <1>7, GrownTwice

LEMMA RoutesAreSound ==
    ASSUME NEW c \in Catalogs, NEW E, Sound(E), DOMAIN c.units \subseteq Ids(E)
    PROVE  LET F == Routes(c, E) IN Sound(F) /\ Grown(E, F)
<1> DEFINE paths == UNION {{r.from, r.to} : r \in c.routes}
           F == Filed(E, paths, "route_registry_schema")
           N == {Entity(<<"route", r.id>>, {r.from, r.to},
                        {IdOf(F, r.from), IdOf(F, r.to)} \cup (r.hops \cap DOMAIN c.units),
                        "route_registry_schema") : r \in c.routes}
<1>1. Routes(c, E) = F \cup N
  BY DEF Routes
<1>2. paths \in SUBSET Paths /\ \A r \in c.routes : r.from \in paths /\ r.to \in paths
  BY ListedShape
<1>3. Sound(F) /\ Grown(E, F) /\ \A p \in paths : IdOf(F, p) \in Ids(F)
  <2> HIDE DEF paths
  <2> QED  BY <1>2, FiledIsSound
<1>4. Ids(E) \subseteq Ids(F)
  BY <1>3, GrownIds
<1> HIDE DEF F, paths
<1>5. ASSUME NEW n \in N
      PROVE  /\ DOMAIN n = {"id", "path", "to", "refs"} /\ n.id[1] \notin StandsForFile
             /\ n.to \subseteq Ids(F) \cup Ids(N)
  <2>1. PICK r \in c.routes :
            n = Entity(<<"route", r.id>>, {r.from, r.to},
                       {IdOf(F, r.from), IdOf(F, r.to)} \cup (r.hops \cap DOMAIN c.units), "route_registry_schema")
    OBVIOUS
  <2>2. /\ DOMAIN n = {"id", "path", "to", "refs"} /\ n.id = <<"route", r.id>>
        /\ n.to = {IdOf(F, r.from), IdOf(F, r.to)} \cup (r.hops \cap DOMAIN c.units)
    BY <2>1 DEF Entity
  <2> QED  BY <1>2, <1>3, <1>4, <2>2 DEF StandsForFile
<1> HIDE DEF N
<1>6. Shaped(N)
  BY <1>5 DEF Shaped
<1>7. Sound(F \cup N) /\ Grown(F, F \cup N)
  BY <1>3, <1>5, <1>6, MoreEntities
<1> QED  BY <1>1, <1>3, <1>7, GrownTwice

LEMMA ScriptsAreSound ==
    ASSUME NEW c \in Catalogs, NEW E, Sound(E)
    PROVE  LET F == ScriptsAndCron(c, E) IN Sound(F) /\ Grown(E, F)
<1> DEFINE cronJobs == {Entity(<<"cron", k>>, {}, {<<"script", p>> : p \in c.crons[k] \cap c.scripts}, "software_catalog") :
                       k \in DOMAIN c.crons}
           scripts == {Entity(<<"script", p>>, {p}, {<<"cron", k>> : k \in {j \in DOMAIN c.crons : p \in c.crons[j]}},
                              "software_catalog") : p \in c.scripts}
           N == scripts \cup cronJobs
<1>1. ScriptsAndCron(c, E) = E \cup N
  BY DEF ScriptsAndCron
<1>2. /\ \A p \in c.scripts : <<"script", p>> \in Ids(N)
      /\ \A k \in DOMAIN c.crons : <<"cron", k>> \in Ids(N)
  <2>1. ASSUME NEW p \in c.scripts PROVE <<"script", p>> \in Ids(N)
    <3> DEFINE n == Entity(<<"script", p>>, {p}, {<<"cron", k>> : k \in {j \in DOMAIN c.crons : p \in c.crons[j]}},
                           "software_catalog")
    <3>1. n \in N
      OBVIOUS
    <3>2. n.id = <<"script", p>>
      BY DEF Entity
    <3> HIDE DEF n, N
    <3> QED  BY <3>1, <3>2 DEF Ids
  <2>2. ASSUME NEW k \in DOMAIN c.crons PROVE <<"cron", k>> \in Ids(N)
    <3> DEFINE n == Entity(<<"cron", k>>, {}, {<<"script", p>> : p \in c.crons[k] \cap c.scripts}, "software_catalog")
    <3>1. n \in N
      OBVIOUS
    <3>2. n.id = <<"cron", k>>
      BY DEF Entity
    <3> HIDE DEF n, N
    <3> QED  BY <3>1, <3>2 DEF Ids
  <2> QED  BY <2>1, <2>2
<1>3. ASSUME NEW n \in N
      PROVE  /\ DOMAIN n = {"id", "path", "to", "refs"} /\ n.id[1] \notin StandsForFile
             /\ n.to \subseteq Ids(N)
  <2>1. CASE n \in scripts
    <3>1. PICK p \in c.scripts :
              n = Entity(<<"script", p>>, {p}, {<<"cron", k>> : k \in {j \in DOMAIN c.crons : p \in c.crons[j]}},
                         "software_catalog")
      BY <2>1
    <3> HIDE DEF N
    <3>2. /\ DOMAIN n = {"id", "path", "to", "refs"} /\ n.id = <<"script", p>>
          /\ n.to = {<<"cron", k>> : k \in {j \in DOMAIN c.crons : p \in c.crons[j]}}
      BY <3>1 DEF Entity
    <3> QED  BY <1>2, <3>2 DEF StandsForFile
  <2>2. CASE n \in cronJobs
    <3>1. PICK k \in DOMAIN c.crons :
              n = Entity(<<"cron", k>>, {}, {<<"script", p>> : p \in c.crons[k] \cap c.scripts}, "software_catalog")
      BY <2>2
    <3> HIDE DEF N
    <3>2. /\ DOMAIN n = {"id", "path", "to", "refs"} /\ n.id = <<"cron", k>>
          /\ n.to = {<<"script", p>> : p \in c.crons[k] \cap c.scripts}
      BY <3>1 DEF Entity
    <3> QED  BY <1>2, <3>2 DEF StandsForFile
  <2> QED  BY <2>1, <2>2
<1> HIDE DEF N
<1>4. Shaped(N)
  BY <1>3 DEF Shaped
<1> QED  BY <1>1, <1>3, <1>4, MoreEntities

\* Together: the entities of a run that has read the lists.
Listed(c) == ScriptsAndCron(c, Routes(c, Roles(c, FunctionsOf(c, Tables(c, EnginesAndGateways(c))))))

LEMMA ListedIsSound ==
    ASSUME NEW c \in Catalogs
    PROVE  Sound(Listed(c)) /\ Holds(Listed(c), c.units)
<1> DEFINE A == EnginesAndGateways(c)
           B == Tables(c, A)
           C == FunctionsOf(c, B)
           D == Roles(c, C)
           E == Routes(c, D)
           F == ScriptsAndCron(c, E)
<1>1. Sound(A) /\ Holds(A, c.units)
  BY EnginesAreSound
<1> HIDE DEF A
<1>2. Sound(B) /\ Grown(A, B)
  BY <1>1, ListedShape, DefinedInIsSound DEF Tables
<1>3. Holds(B, c.units)
  BY <1>1, <1>2, HoldsStill
<1> HIDE DEF B
<1>4. Sound(C) /\ Grown(B, C)
  BY <1>2, <1>3, FunctionsAreSound DEF Holds
<1>5. Holds(C, c.units)
  BY <1>3, <1>4, HoldsStill
<1> HIDE DEF C
<1>6. Sound(D) /\ Grown(C, D)
  BY <1>4, ListedShape, DefinedInIsSound DEF Roles
<1>7. Holds(D, c.units)
  BY <1>5, <1>6, HoldsStill
<1> HIDE DEF D
<1>8. Sound(E) /\ Grown(D, E)
  BY <1>6, <1>7, RoutesAreSound DEF Holds
<1>9. Holds(E, c.units)
  BY <1>7, <1>8, HoldsStill
<1> HIDE DEF E
<1>10. Sound(F) /\ Grown(E, F)
  BY <1>8, ScriptsAreSound
<1>11. Holds(F, c.units)
  BY <1>9, <1>10, HoldsStill
<1> QED  BY <1>10, <1>11 DEF Listed, A, B, C, D, E

-----------------------------------------------------------------------------
(* The rows of knowledge, and what comes after them *)

RowsRead(rows) ==
    /\ \E L \in Nat : DOMAIN rows = 1 .. L
    /\ \A n \in DOMAIN rows : rows[n].path \in Paths

\* Of the rows, the first of each path.
Firsts(rows, S) == {m \in S : \A k \in 1 .. m - 1 : ~(k \in S /\ rows[k].path = rows[m].path)}

FirstEntities(rows, S, E, kind, ref) ==
    {Entity(<<kind, n>>, {rows[n].path}, {}, ref) :
        n \in {m \in Firsts(rows, S) : ~Claimed(E, rows[m].path)}}

LEMMA FirstsAreFiles ==
    ASSUME NEW rows, RowsRead(rows), NEW S, S \subseteq DOMAIN rows, NEW E, NEW kind, NEW ref
    PROVE  /\ Shaped(FirstEntities(rows, S, E, kind, ref))
           /\ FilesOnly(FirstEntities(rows, S, E, kind, ref), E)
<1> DEFINE M == {m \in Firsts(rows, S) : ~Claimed(E, rows[m].path)}
           N == {Entity(<<kind, n>>, {rows[n].path}, {}, ref) : n \in M}
<1>1. ASSUME NEW e \in N
      PROVE  \E n \in M : /\ e = Entity(<<kind, n>>, {rows[n].path}, {}, ref)
                          /\ e.to = {} /\ e.path = {rows[n].path} /\ DOMAIN e = {"id", "path", "to", "refs"}
  BY DEF Entity
<1>2. Shaped(N)
  BY <1>1 DEF Shaped
<1>3. ASSUME NEW n \in M, NEW m \in M, rows[n].path = rows[m].path PROVE n = m
  <2>1. PICK L \in Nat : DOMAIN rows = 1 .. L
    BY DEF RowsRead
  <2>2. n \in S /\ m \in S /\ n \in 1 .. L /\ m \in 1 .. L
    BY <2>1 DEF Firsts
  <2>3. ~(n \in 1 .. m - 1) /\ ~(m \in 1 .. n - 1)
    BY <2>2, <1>3 DEF Firsts
  <2> QED  BY <2>2, <2>3
<1>4. \A n \in M : rows[n].path \in Paths /\ \A f \in E : ~Claims(f, rows[n].path)
  BY DEF RowsRead, Firsts, Claimed
<1> HIDE DEF N, M
<1>5. FilesOnly(N, E)
  <2> SUFFICES ASSUME NEW e \in N
               PROVE  /\ e.to = {} /\ \E q \in Paths : e.path = {q} /\ \A f \in E : ~Claims(f, q)
                      /\ \A f \in N : e.path = f.path => e = f
    BY DEF FilesOnly
  <2>1. PICK n \in M : /\ e = Entity(<<kind, n>>, {rows[n].path}, {}, ref)
                       /\ e.to = {} /\ e.path = {rows[n].path}
    BY <1>1
  <2>2. ASSUME NEW f \in N, e.path = f.path PROVE e = f
    <3>1. PICK m \in M : f = Entity(<<kind, m>>, {rows[m].path}, {}, ref) /\ f.path = {rows[m].path}
      BY <1>1
    <3>2. rows[n].path = rows[m].path
      BY <2>1, <2>2, <3>1
    <3> QED  BY <2>1, <3>1, <3>2, <1>3
  <2> QED  BY <2>1, <2>2, <1>4
<1> QED  BY <1>2, <1>5 DEF N, M, FirstEntities

LEMMA GovernanceIsSound ==
    ASSUME NEW E, Sound(E), NEW rows, RowsRead(rows)
    PROVE  LET F == GovernanceDocs(rows, E) IN Sound(F) /\ Grown(E, F)
<1> DEFINE S == {m \in DOMAIN rows : rows[m].tagged}
           N == FirstEntities(rows, S, E, "doc", "governance_tag")
<1>1. {m \in DOMAIN rows : /\ rows[m].tagged
                           /\ \A e \in E : ~Claims(e, rows[m].path)
                           /\ \A k \in 1 .. m - 1 : ~(rows[k].tagged /\ rows[k].path = rows[m].path)}
      = {m \in Firsts(rows, S) : ~Claimed(E, rows[m].path)}
  <2>1. PICK L \in Nat : DOMAIN rows = 1 .. L
    BY DEF RowsRead
  <2>2. \A m \in DOMAIN rows : \A k \in 1 .. m - 1 : k \in DOMAIN rows
    BY <2>1
  <2> QED  BY <2>2 DEF Firsts, Claimed
<1>2. GovernanceDocs(rows, E) = E \cup N
  BY <1>1 DEF GovernanceDocs, FirstEntities
<1>3. S \subseteq DOMAIN rows
  OBVIOUS
<1>4. Shaped(N) /\ FilesOnly(N, E)
  <2> HIDE DEF S
  <2> QED  BY <1>3, FirstsAreFiles
<1>5. Told(E, {}, "none") = E
  BY DEF Told
<1> HIDE DEF N
<1>6. Sound(Told(E, {}, "none") \cup N) /\ Grown(E, Told(E, {}, "none") \cup N)
  BY <1>4, ToldAndFiled
<1> QED  BY <1>2, <1>5, <1>6

\* The path of each row has an entity that is told of the row.
Covers(ents, rows) ==
    \A n \in DOMAIN rows : \E e \in ents : rows[n].path \in e.path /\ "knowledge_engine" \in e.refs

LEMMA CoversStill == ASSUME NEW A, NEW B, NEW rows, Grown(A, B), Covers(A, rows) PROVE Covers(B, rows)
<1> SUFFICES ASSUME NEW n \in DOMAIN rows
             PROVE  \E e \in B : rows[n].path \in e.path /\ "knowledge_engine" \in e.refs
  BY DEF Covers
<1>1. PICK e \in A : rows[n].path \in e.path /\ "knowledge_engine" \in e.refs
  BY DEF Covers
<1>2. PICK f \in B : f.path = e.path /\ e.refs \subseteq f.refs
  BY DEF Grown
<1> QED  BY <1>1, <1>2

LEMMA KnowledgeIsSound ==
    ASSUME NEW E, Sound(E), NEW rows, RowsRead(rows)
    PROVE  LET F == FromKnowledge(rows, E) IN Sound(F) /\ Grown(E, F) /\ Covers(F, rows)
<1> DEFINE paths == {rows[n].path : n \in DOMAIN rows}
           N == FirstEntities(rows, DOMAIN rows, E, "known", "knowledge_engine")
           F == Told(E, paths, "knowledge_engine") \cup N
<1>1. PICK L \in Nat : DOMAIN rows = 1 .. L
  BY DEF RowsRead
<1>2. {m \in DOMAIN rows : /\ \A e \in E : ~Claims(e, rows[m].path)
                           /\ \A k \in 1 .. m - 1 : rows[k].path # rows[m].path}
      = {m \in Firsts(rows, DOMAIN rows) : ~Claimed(E, rows[m].path)}
  <2>1. \A m \in DOMAIN rows : \A k \in 1 .. m - 1 : k \in DOMAIN rows
    BY <1>1
  <2> QED  BY <2>1 DEF Firsts, Claimed
<1>3. FromKnowledge(rows, E) = F
  BY <1>2 DEF FromKnowledge, Told, FirstEntities
<1>4. Shaped(N) /\ FilesOnly(N, E)
  BY FirstsAreFiles
<1>5. ASSUME NEW n \in DOMAIN rows, ~Claimed(E, rows[n].path)
      PROVE  \E e \in N : rows[n].path \in e.path /\ "knowledge_engine" \in e.refs
  <2> DEFINE K == {k \in DOMAIN rows : rows[k].path = rows[n].path}
  <2>1. K \in SUBSET Nat /\ K # {}
    BY <1>1
  <2> HIDE DEF K
  <2>2. PICK m \in K : \A k \in K : m <= k
    BY <2>1, Least
  <2>3. m \in DOMAIN rows /\ rows[m].path = rows[n].path
    BY DEF K
  <2>4. m \in Firsts(rows, DOMAIN rows)
    <3> SUFFICES ASSUME NEW k \in 1 .. m - 1, k \in DOMAIN rows, rows[k].path = rows[m].path PROVE FALSE
      BY <2>3 DEF Firsts
    <3>1. k \in K
      BY <2>3 DEF K
    <3>2. m <= k /\ m \in Nat
      BY <3>1, <2>1, <2>2
    <3> QED  BY <3>2
  <2> DEFINE e == Entity(<<"known", m>>, {rows[m].path}, {}, "knowledge_engine")
  <2>5. e \in N
    BY <2>3, <2>4, <1>5 DEF FirstEntities
  <2>6. e.path = {rows[n].path} /\ e.refs = {"knowledge_engine"}
    BY <2>3 DEF Entity
  <2> QED  BY <2>5, <2>6
<1> HIDE DEF N
<1>6. Sound(F) /\ Grown(E, F) /\ Informed(E, F, paths, "knowledge_engine")
  <2> HIDE DEF paths
  <2> QED  BY <1>4, ToldAndFiled
<1>7. Covers(F, rows)
  <2> SUFFICES ASSUME NEW n \in DOMAIN rows
               PROVE  \E e \in F : rows[n].path \in e.path /\ "knowledge_engine" \in e.refs
    BY DEF Covers
  <2>1. CASE Claimed(E, rows[n].path)
    BY <2>1, <1>6 DEF Claimed, Informed
  <2>2. CASE ~Claimed(E, rows[n].path)
    BY <2>2, <1>5
  <2> QED  BY <2>1, <2>2
<1> QED  BY <1>3, <1>6, <1>7

LEMMA BrowserIsSound ==
    ASSUME NEW E, Sound(E), NEW units, Holds(E, units)
    PROVE  LET F == BrowserComponents(units, E) IN Sound(F) /\ Grown(E, F)
<1> DEFINE Engines(p) == {u \in DOMAIN units : u[1] = "engine" /\ p \in units[u]}
           N == {Entity(<<"component", p>>, {p}, {IdOf(E, p)} \cup Engines(p), "inventory") :
                    p \in {q \in Browser : Engines(q) # {}}}
<1>1. BrowserComponents(units, E) = E \cup N
  BY DEF BrowserComponents
<1>2. ASSUME NEW n \in N
      PROVE  /\ DOMAIN n = {"id", "path", "to", "refs"} /\ n.id[1] \notin StandsForFile
             /\ n.to \subseteq Ids(E) \cup Ids(N)
  <2>1. PICK p : /\ n = Entity(<<"component", p>>, {p}, {IdOf(E, p)} \cup Engines(p), "inventory")
                 /\ Engines(p) # {}
    OBVIOUS
  <2>2. IdOf(E, p) \in Ids(E) /\ Engines(p) \subseteq Ids(E)
    BY <2>1, IdOfClaimed DEF Holds
  <2> HIDE DEF Engines, N
  <2>3. /\ DOMAIN n = {"id", "path", "to", "refs"} /\ n.id = <<"component", p>>
        /\ n.to = {IdOf(E, p)} \cup Engines(p)
    BY <2>1 DEF Entity
  <2> QED  BY <2>2, <2>3 DEF StandsForFile
<1> HIDE DEF N
<1>3. Shaped(N)
  BY <1>2 DEF Shaped
<1> QED  BY <1>1, <1>2, <1>3, MoreEntities

LEMMA CensusIsSound ==
    ASSUME NEW c \in Catalogs, NEW E, Sound(E)
    PROVE  LET F == VercelAndGithub(c, E) IN Sound(F) /\ Grown(E, F)
<1> DEFINE F == Filed(E, {IndexFile}, "census")
           index == IdOf(F, IndexFile)
           HasPart(r) == {e.id : e \in {f \in F : /\ f.id[1] \in {"file", "known", "engine", "gateway"}
                                                   /\ f.path \cap c.repos[r] # {}}}
           Deployed(r) == {<<"project", p>> : p \in {q \in DOMAIN c.projects : r \in c.projects[q]}}
           Built2(p) == {<<"repo", r>> : r \in c.projects[p]}
           repos == {Entity(<<"repo", r>>, {}, {index} \cup HasPart(r) \cup Deployed(r), "census") :
                        r \in DOMAIN c.repos}
           projects == {Entity(<<"project", p>>, {}, {index} \cup Built2(p), "census") : p \in DOMAIN c.projects}
           N == repos \cup projects
<1>1. VercelAndGithub(c, E) = IF DOMAIN c.repos \cup DOMAIN c.projects = {} THEN E ELSE F \cup N
  BY DEF VercelAndGithub
<1>2. Grown(E, E)
  BY DEF Grown
<1>3. Sound(F) /\ Grown(E, F) /\ index \in Ids(F)
  <2>1. {IndexFile} \in SUBSET Paths
    BY WiringAssumption
  <2> QED  BY <2>1, FiledIsSound
<1>4. \A r : HasPart(r) \subseteq Ids(F)
  BY DEF Ids
<1>5. \A r \in DOMAIN c.repos : <<"repo", r>> \in Ids(N)
  <2> SUFFICES ASSUME NEW r \in DOMAIN c.repos PROVE <<"repo", r>> \in Ids(N)
    OBVIOUS
  <2> DEFINE n == Entity(<<"repo", r>>, {}, {index} \cup HasPart(r) \cup Deployed(r), "census")
  <2>1. n \in N
    OBVIOUS
  <2> HIDE DEF N, F, index, HasPart, Deployed
  <2>2. n.id = <<"repo", r>>
    BY DEF Entity
  <2> HIDE DEF n
  <2> QED  BY <2>1, <2>2 DEF Ids
<1>6. \A p \in DOMAIN c.projects : <<"project", p>> \in Ids(N)
  <2> SUFFICES ASSUME NEW p \in DOMAIN c.projects PROVE <<"project", p>> \in Ids(N)
    OBVIOUS
  <2> DEFINE n == Entity(<<"project", p>>, {}, {index} \cup Built2(p), "census")
  <2>1. n \in N
    OBVIOUS
  <2> HIDE DEF N, F, index, Built2
  <2>2. n.id = <<"project", p>>
    BY DEF Entity
  <2> HIDE DEF n
  <2> QED  BY <2>1, <2>2 DEF Ids
<1>7. /\ \A r : Deployed(r) \subseteq Ids(N)
      /\ \A p \in DOMAIN c.projects : Built2(p) \subseteq Ids(N)
  <2> HIDE DEF N
  <2> QED  BY <1>5, <1>6, ListedShape
<1>8. ASSUME NEW n \in N
      PROVE  /\ DOMAIN n = {"id", "path", "to", "refs"} /\ n.id[1] \notin StandsForFile
             /\ n.to \subseteq Ids(F) \cup Ids(N)
  <2>1. CASE n \in repos
    <3>1. PICK r : n = Entity(<<"repo", r>>, {}, {index} \cup HasPart(r) \cup Deployed(r), "census")
      BY <2>1
    <3> HIDE DEF F, N, index, HasPart, Deployed
    <3>2. /\ DOMAIN n = {"id", "path", "to", "refs"} /\ n.id = <<"repo", r>>
          /\ n.to = {index} \cup HasPart(r) \cup Deployed(r)
      BY <3>1 DEF Entity
    <3> QED  BY <1>3, <1>4, <1>7, <3>2 DEF StandsForFile
  <2>2. CASE n \in projects
    <3>1. PICK p \in DOMAIN c.projects : n = Entity(<<"project", p>>, {}, {index} \cup Built2(p), "census")
      BY <2>2
    <3> HIDE DEF F, N, index, Built2
    <3>2. /\ DOMAIN n = {"id", "path", "to", "refs"} /\ n.id = <<"project", p>>
          /\ n.to = {index} \cup Built2(p)
      BY <3>1 DEF Entity
    <3> QED  BY <1>3, <1>7, <3>2 DEF StandsForFile
  <2> QED  BY <2>1, <2>2
<1> HIDE DEF N, F, index
<1>9. Shaped(N)
  BY <1>8 DEF Shaped
<1>10. Sound(F \cup N) /\ Grown(F, F \cup N)
  BY <1>3, <1>8, <1>9, MoreEntities
<1> QED  BY <1>1, <1>2, <1>3, <1>10, GrownTwice

-----------------------------------------------------------------------------
(* The registry *)

KnownIsRead ==
    /\ \E T : known \in Seq(T)
    /\ \A n \in DOMAIN known : known[n].path \in Paths /\ DOMAIN known[n] = {"path", "hash", "tagged"}

\* What a run has gathered hangs together, holds the inventory it read and, from the
\* rows on, covers those.
RunIsSound(g) ==
    /\ DOMAIN generator[g] = {"at", "units", "rows", "ents"}
    /\ Sound(generator[g].ents)
    /\ generator[g].at \in {"governance", "knowledge", "census", "write"} =>
           Holds(generator[g].ents, generator[g].units)
    /\ generator[g].at \in {"census", "write"} => Covers(generator[g].ents, generator[g].rows)

WiringInv ==
    /\ catalog \in Catalogs /\ KnownIsRead
    /\ DOMAIN generator = Generators /\ \A g \in Generators : RunIsSound(g)
    /\ Linked(wired)
    /\ \A ended \in lastRun : Covered(ended.units, ended.rows)

LEMMA NothingIsSound == Sound({})
BY DEF Sound, Shaped, Linked, OnePerPath

LEMMA WiringBegins == WiringInit => WiringInv
<1> SUFFICES ASSUME WiringInit PROVE WiringInv
  OBVIOUS
<1>1. known \in Seq({}) /\ DOMAIN known = {}
  BY DEF WiringInit
<1>2. \A g \in Generators : RunIsSound(g)
  BY NothingIsSound DEF WiringInit, RunIsSound, Unread
<1>3. Linked(wired)
  BY DEF WiringInit, Linked
<1> QED  BY <1>1, <1>2, <1>3 DEF WiringInit, WiringInv, KnownIsRead

\* One run moves, and the rows, the lists and the registry stay.
LEMMA OneRunMoves ==
    ASSUME WiringInv, NEW g \in Generators, NEW x, generator' = [generator EXCEPT ![g] = x],
           catalog' = catalog, known' = known, wired' = wired, lastRun' = lastRun,
           DOMAIN x = {"at", "units", "rows", "ents"}, Sound(x.ents),
           x.at \in {"governance", "knowledge", "census", "write"} => Holds(x.ents, x.units),
           x.at \in {"census", "write"} => Covers(x.ents, x.rows)
    PROVE  WiringInv'
<1>1. ASSUME NEW q \in Generators PROVE RunIsSound(q)'
  <2>1. CASE q = g
    <3>1. generator'[q] = x
      BY <2>1 DEF WiringInv
    <3> QED  BY <3>1 DEF RunIsSound
  <2>2. CASE q # g
    <3>1. generator'[q] = generator[q] /\ RunIsSound(q)
      BY <2>2 DEF WiringInv
    <3> QED  BY <3>1 DEF RunIsSound
  <2> QED  BY <2>1, <2>2
<1>2. DOMAIN generator' = Generators
  BY DEF WiringInv
<1>3. KnownIsRead' /\ Linked(wired')
  BY DEF WiringInv, KnownIsRead
<1>4. \A ended \in lastRun' : Covered(ended.units, ended.rows)'
  BY DEF WiringInv, Covered
<1> QED  BY <1>1, <1>2, <1>3, <1>4 DEF WiringInv

LEMMA KnownRows == ASSUME KnownIsRead PROVE RowsRead(known)
<1>1. PICK T : known \in Seq(T)
  BY DEF KnownIsRead
<1>2. Len(known) \in Nat /\ DOMAIN known = 1 .. Len(known)
  BY <1>1
<1> QED  BY <1>2 DEF KnownIsRead, RowsRead

LEMMA RunsKeep ==
    ASSUME WiringInv, NEW g \in Generators,
           ReadsLists(g) \/ ReadsGovernance(g) \/ ReadsKnowledge(g) \/ ReadsCensus(g) \/ GeneratorKilled(g)
    PROVE  WiringInv'
<1>0. /\ DOMAIN generator[g] = {"at", "units", "rows", "ents"} /\ Sound(generator[g].ents)
      /\ RunIsSound(g) /\ RowsRead(known)
  BY KnownRows DEF WiringInv, RunIsSound
<1>1. CASE ReadsLists(g)
  <2> DEFINE x == [at |-> "governance", units |-> catalog.units, rows |-> <<>>, ents |-> Listed(catalog)]
  <2>1. Sound(Listed(catalog)) /\ Holds(Listed(catalog), catalog.units)
    BY ListedIsSound DEF WiringInv
  <2>2. generator' = [generator EXCEPT ![g] = x] /\ UNCHANGED <<catalog, known, wired, lastRun>>
    BY <1>1 DEF ReadsLists, Listed
  <2>3. /\ DOMAIN x = {"at", "units", "rows", "ents"} /\ x.at = "governance"
        /\ x.ents = Listed(catalog) /\ x.units = catalog.units
    OBVIOUS
  <2> HIDE DEF x
  <2> QED  BY <2>1, <2>2, <2>3, OneRunMoves
<1>2. CASE ReadsGovernance(g)
  <2> DEFINE F == GovernanceDocs(known, generator[g].ents)
  <2>1. Sound(F) /\ Grown(generator[g].ents, F)
    BY <1>0, GovernanceIsSound
  <2>2. generator[g].at = "governance" /\ Holds(generator[g].ents, generator[g].units)
    BY <1>0, <1>2 DEF ReadsGovernance, RunIsSound
  <2>3. Holds(F, generator[g].units)
    BY <2>1, <2>2, HoldsStill
  <2>4. UNCHANGED <<catalog, known, wired, lastRun>>
    BY <1>2 DEF ReadsGovernance
  <2> HIDE DEF F
  <2>5. PICK x : /\ generator' = [generator EXCEPT ![g] = x]
                 /\ x = [generator[g] EXCEPT !.at = "knowledge", !.ents = F]
    BY <1>2 DEF ReadsGovernance, WiringInv, F
  <2>6. /\ DOMAIN x = {"at", "units", "rows", "ents"} /\ x.at = "knowledge" /\ x.ents = F
        /\ x.units = generator[g].units
    BY <1>0, <2>5
  <2> QED  BY <2>1, <2>3, <2>4, <2>5, <2>6, OneRunMoves
<1>3. CASE ReadsKnowledge(g)
  <2> DEFINE F == FromKnowledge(known, generator[g].ents)
  <2>1. Sound(F) /\ Grown(generator[g].ents, F) /\ Covers(F, known)
    BY <1>0, KnowledgeIsSound
  <2>2. generator[g].at = "knowledge" /\ Holds(generator[g].ents, generator[g].units)
    BY <1>0, <1>3 DEF ReadsKnowledge, RunIsSound
  <2>3. Holds(F, generator[g].units)
    BY <2>1, <2>2, HoldsStill
  <2>4. UNCHANGED <<catalog, known, wired, lastRun>>
    BY <1>3 DEF ReadsKnowledge
  <2> HIDE DEF F
  <2>5. PICK x : /\ generator' = [generator EXCEPT ![g] = x]
                 /\ x = [generator[g] EXCEPT !.at = "census", !.rows = known, !.ents = F]
    BY <1>3 DEF ReadsKnowledge, WiringInv, F
  <2>6. /\ DOMAIN x = {"at", "units", "rows", "ents"} /\ x.at = "census" /\ x.ents = F
        /\ x.units = generator[g].units /\ x.rows = known
    BY <1>0, <2>5
  <2> QED  BY <2>1, <2>3, <2>4, <2>5, <2>6, OneRunMoves
<1>4. CASE ReadsCensus(g)
  <2> DEFINE B == BrowserComponents(generator[g].units, generator[g].ents)
             F == VercelAndGithub(catalog, B)
  <2>1. /\ generator[g].at = "census" /\ Holds(generator[g].ents, generator[g].units)
        /\ Covers(generator[g].ents, generator[g].rows)
    BY <1>0, <1>4 DEF ReadsCensus, RunIsSound
  <2>2. Sound(B) /\ Grown(generator[g].ents, B)
    BY <1>0, <2>1, BrowserIsSound
  <2> HIDE DEF B
  <2>3. Sound(F) /\ Grown(generator[g].ents, F)
    BY <2>2, CensusIsSound, GrownTwice DEF WiringInv
  <2> HIDE DEF F
  <2>4. Holds(F, generator[g].units) /\ Covers(F, generator[g].rows)
    BY <2>1, <2>3, HoldsStill, CoversStill
  <2>5. UNCHANGED <<catalog, known, wired, lastRun>>
    BY <1>4 DEF ReadsCensus
  <2>6. PICK x : /\ generator' = [generator EXCEPT ![g] = x]
                 /\ x = [generator[g] EXCEPT !.at = "write", !.ents = F]
    BY <1>4 DEF ReadsCensus, WiringInv, F, B
  <2>7. /\ DOMAIN x = {"at", "units", "rows", "ents"} /\ x.at = "write" /\ x.ents = F
        /\ x.units = generator[g].units /\ x.rows = generator[g].rows
    BY <1>0, <2>6
  <2> QED  BY <2>3, <2>4, <2>5, <2>6, <2>7, OneRunMoves
<1>5. CASE GeneratorKilled(g)
  <2>1. generator' = [generator EXCEPT ![g] = Unread] /\ UNCHANGED <<catalog, known, wired, lastRun>>
    BY <1>5 DEF GeneratorKilled
  <2>2. DOMAIN Unread = {"at", "units", "rows", "ents"} /\ Unread.at = "idle" /\ Sound(Unread.ents)
    BY NothingIsSound DEF Unread
  <2> QED  BY <2>1, <2>2, OneRunMoves
<1> QED  BY <1>1, <1>2, <1>3, <1>4, <1>5

\* Entities that go to each other may be written over the registry.
LEMMA UpsertedIsLinked ==
    ASSUME Linked(wired), NEW E, Linked(E)
    PROVE  Linked(Upserted(E)) /\ E \subseteq Upserted(E)
<1>1. E \subseteq Upserted(E)
  BY DEF Upserted
<1>2. Ids(wired) \subseteq Ids(Upserted(E)) /\ Ids(E) \subseteq Ids(Upserted(E))
  BY DEF Ids, Upserted
<1> QED  BY <1>1, <1>2 DEF Linked, Upserted

LEMMA WriteKeeps == ASSUME WiringInv, NEW g \in Generators, WritesEntities(g) PROVE WiringInv'
<1>0. PICK E, units, rows :
          E = generator[g].ents /\ units = generator[g].units /\ rows = generator[g].rows
  OBVIOUS
<1>1. Sound(E) /\ Holds(E, units) /\ Covers(E, rows)
  BY <1>0 DEF WiringInv, RunIsSound, WritesEntities
<1>2. /\ wired' = Upserted(E) /\ lastRun' = {[units |-> units, rows |-> rows]}
      /\ generator' = [generator EXCEPT ![g] = Unread] /\ UNCHANGED <<catalog, known>>
  BY <1>0 DEF WritesEntities
<1>3. Linked(wired') /\ E \subseteq wired'
  BY <1>1, <1>2, UpsertedIsLinked DEF WiringInv, Sound
<1>4. Covered(units, rows)'
  <2>1. \A u \in DOMAIN units : \E e \in wired' : e.id = u
    BY <1>1, <1>3 DEF Holds, Ids
  <2>2. \A p \in TaggedPaths(rows) : \E e \in wired' : p \in e.path /\ "knowledge_engine" \in e.refs
    BY <1>1, <1>3 DEF Covers, TaggedPaths
  <2> QED  BY <2>1, <2>2 DEF Covered
<1>5. \A ended \in lastRun' : Covered(ended.units, ended.rows)'
  <2> SUFFICES ASSUME NEW ended \in lastRun' PROVE Covered(ended.units, ended.rows)'
    OBVIOUS
  <2>1. ended.units = units /\ ended.rows = rows
    BY <1>2
  <2> QED  BY <1>4, <2>1
<1>6. ASSUME NEW q \in Generators PROVE RunIsSound(q)'
  <2>1. CASE q = g
    <3>1. generator'[q] = Unread
      BY <2>1, <1>2 DEF WiringInv
    <3> QED  BY <3>1, NothingIsSound DEF RunIsSound, Unread
  <2>2. CASE q # g
    <3>1. generator'[q] = generator[q] /\ RunIsSound(q)
      BY <2>2, <1>2 DEF WiringInv
    <3> QED  BY <3>1 DEF RunIsSound
  <2> QED  BY <2>1, <2>2
<1>7. DOMAIN generator' = Generators /\ catalog' \in Catalogs /\ KnownIsRead'
  BY <1>2 DEF WiringInv, KnownIsRead
<1> QED  BY <1>3, <1>5, <1>6, <1>7 DEF WiringInv
LEMMA OthersKeep ==
    ASSUME WiringInv, UNCHANGED generator,
           \/ \E p \in Paths : AddTag(p)
           \/ \E p \in Paths, h \in Hashes : VerifyKnowledge(p, h)
           \/ \E p \in Paths, h \in Hashes, tagged \in BOOLEAN :
                 RegisterKnowledge(p, h, tagged) \/ UpsertFragment(p, h, tagged)
           \/ \E id \in {<<"other", 0>>} \cup {e.id : e \in wired} : RegisterEntity(id)
           \/ ListsChange
    PROVE  WiringInv'
<1>1. catalog' \in Catalogs
  BY DEF WiringInv, AddTag, VerifyKnowledge, RegisterKnowledge, UpsertFragment, RegisterEntity, ListsChange
<1>2. DOMAIN generator' = Generators /\ \A g \in Generators : RunIsSound(g)'
  BY DEF WiringInv, RunIsSound
<1>3. KnownIsRead'
  <2>1. PICK T : known \in Seq(T)
    BY DEF WiringInv, KnownIsRead
  <2>2. ASSUME NEW n \in DOMAIN known, NEW row, known' = [known EXCEPT ![n] = row],
               row.path = known[n].path, DOMAIN row = {"path", "hash", "tagged"}
        PROVE  KnownIsRead'
    <3>1. known \in Seq(T \cup {row}) /\ row \in T \cup {row}
      BY <2>1
    <3>2. known' \in Seq(T \cup {row}) /\ DOMAIN known' = DOMAIN known
      BY <2>2, <3>1
    <3>3. \A m \in DOMAIN known : known'[m] = IF m = n THEN row ELSE known[m]
      BY <2>2
    <3> QED  BY <2>2, <3>2, <3>3 DEF WiringInv, KnownIsRead
  <2>3. ASSUME NEW p \in Paths, AddTag(p) PROVE KnownIsRead'
    <3>1. PICK n \in DOMAIN known : known' = [known EXCEPT ![n].tagged = TRUE]
      BY <2>3 DEF AddTag
    <3>2. PICK row : row = [known[n] EXCEPT !.tagged = TRUE] /\ known' = [known EXCEPT ![n] = row]
      BY <3>1, Zenon
    <3>3. DOMAIN known[n] = {"path", "hash", "tagged"}
      BY DEF WiringInv, KnownIsRead
    <3>4. row.path = known[n].path /\ DOMAIN row = {"path", "hash", "tagged"}
      BY <3>2, <3>3
    <3> QED  BY <2>2, <3>2, <3>4
  <2>4. ASSUME NEW p \in Paths, NEW h \in Hashes, VerifyKnowledge(p, h) PROVE KnownIsRead'
    <3>1. PICK n \in DOMAIN known : known' = [known EXCEPT ![n].hash = h]
      BY <2>4 DEF VerifyKnowledge
    <3>2. PICK row : row = [known[n] EXCEPT !.hash = h] /\ known' = [known EXCEPT ![n] = row]
      BY <3>1
    <3>3. DOMAIN known[n] = {"path", "hash", "tagged"}
      BY DEF WiringInv, KnownIsRead
    <3>4. row.path = known[n].path /\ DOMAIN row = {"path", "hash", "tagged"}
      BY <3>2, <3>3
    <3> QED  BY <2>2, <3>2, <3>4
  <2>5. ASSUME NEW p \in Paths, NEW h \in Hashes, NEW tagged \in BOOLEAN, UpsertFragment(p, h, tagged)
        PROVE  KnownIsRead'
    <3>1. PICK n \in DOMAIN known : known' = [known EXCEPT ![n].hash = h, ![n].tagged = tagged]
      BY <2>5 DEF UpsertFragment
    <3>3. DOMAIN known[n] = {"path", "hash", "tagged"}
      BY DEF WiringInv, KnownIsRead
    <3>2. PICK row : /\ row = [[known[n] EXCEPT !.hash = h] EXCEPT !.tagged = tagged]
                     /\ known' = [known EXCEPT ![n] = row]
      <4> DEFINE one == [known[n] EXCEPT !.hash = h]
                 two == [one EXCEPT !.tagged = tagged]
      <4>1. known' = [[known EXCEPT ![n] = one] EXCEPT ![n].tagged = tagged]
        BY <3>1
      <4>2. [known EXCEPT ![n] = one][n] = one
        OBVIOUS
      <4>3. [[known EXCEPT ![n] = one] EXCEPT ![n].tagged = tagged] = [[known EXCEPT ![n] = one] EXCEPT ![n] = two]
        BY <4>2, Zenon
      <4> HIDE DEF two
      <4>4. known' = [known EXCEPT ![n] = two]
        BY <4>1, <4>3
      <4> QED  BY <4>4 DEF two
    <3>4. row.path = known[n].path /\ DOMAIN row = {"path", "hash", "tagged"}
      BY <3>2, <3>3
    <3> QED  BY <2>2, <3>2, <3>4
  <2>6. ASSUME NEW p \in Paths, NEW h \in Hashes, NEW tagged \in BOOLEAN, RegisterKnowledge(p, h, tagged)
        PROVE  KnownIsRead'
    <3>1. PICK row : row = [path |-> p, hash |-> h, tagged |-> tagged] /\ known' = Append(known, row)
      BY <2>6 DEF RegisterKnowledge
    <3>2. row.path = p /\ DOMAIN row = {"path", "hash", "tagged"}
      BY <3>1
    <3>3. known \in Seq(T \cup {row}) /\ row \in T \cup {row}
      BY <2>1
    <3>4. /\ known' \in Seq(T \cup {row}) /\ DOMAIN known' = 1 .. Len(known) + 1
          /\ known'[Len(known) + 1] = row /\ \A m \in DOMAIN known : known'[m] = known[m]
          /\ DOMAIN known = 1 .. Len(known) /\ Len(known) \in Nat
      BY <3>1, <3>3
    <3> QED  BY <3>2, <3>4 DEF WiringInv, KnownIsRead
  <2>7. CASE UNCHANGED known
    BY <2>7 DEF WiringInv, KnownIsRead
  <2> QED  BY <2>3, <2>4, <2>5, <2>6, <2>7 DEF RegisterEntity, ListsChange
<1>4. Linked(wired') /\ \A ended \in lastRun' : Covered(ended.units, ended.rows)'
  <2>1. CASE \E id \in {<<"other", 0>>} \cup {e.id : e \in wired} : RegisterEntity(id)
    <3>1. PICK id : wired' = Upserted({Entity(id, {}, {}, "record_file")}) /\ lastRun' = {}
      BY <2>1 DEF RegisterEntity
    <3>2. Linked({Entity(id, {}, {}, "record_file")})
      BY DEF Linked, Entity
    <3> QED  BY <3>1, <3>2, UpsertedIsLinked DEF WiringInv
  <2>2. CASE wired' = wired /\ lastRun' = lastRun
    BY <2>2 DEF WiringInv, Covered
  <2> QED  BY <2>1, <2>2 DEF AddTag, VerifyKnowledge, RegisterKnowledge, UpsertFragment, ListsChange
<1> QED  BY <1>1, <1>2, <1>3, <1>4 DEF WiringInv

LEMMA WiringGoesOn == WiringInv /\ [WiringNext]_wirevars => WiringInv'
<1> SUFFICES ASSUME WiringInv, [WiringNext]_wirevars PROVE WiringInv'
  OBVIOUS
<1>1. CASE UNCHANGED wirevars
  BY <1>1 DEF WiringInv, wirevars, KnownIsRead, RunIsSound, Covered
<1>2. ASSUME NEW g \in Generators,
             \/ ReadsLists(g) \/ ReadsGovernance(g) \/ ReadsKnowledge(g) \/ ReadsCensus(g)
             \/ WritesEntities(g) \/ GeneratorKilled(g)
      PROVE  WiringInv'
  BY <1>2, RunsKeep, WriteKeeps
<1>3. ASSUME NEW p \in Paths, AddTag(p) PROVE WiringInv'
  BY <1>3, OthersKeep DEF AddTag, Others
<1>4. ASSUME NEW p \in Paths, NEW h \in Hashes, VerifyKnowledge(p, h) PROVE WiringInv'
  BY <1>4, OthersKeep DEF VerifyKnowledge, Others
<1>5. ASSUME NEW p \in Paths, NEW h \in Hashes, NEW tagged \in BOOLEAN,
             RegisterKnowledge(p, h, tagged) \/ UpsertFragment(p, h, tagged)
      PROVE  WiringInv'
  <2>1. UNCHANGED generator
    BY <1>5 DEF RegisterKnowledge, UpsertFragment, Others
  <2> QED  BY <1>5, <2>1, OthersKeep
<1>6. ASSUME NEW id \in {<<"other", 0>>} \cup {e.id : e \in wired}, RegisterEntity(id) PROVE WiringInv'
  <2>1. UNCHANGED generator
    BY <1>6 DEF RegisterEntity, Others
  <2> QED  BY <1>6, <2>1, OthersKeep
<1>7. CASE ListsChange
  BY <1>7, OthersKeep DEF ListsChange, Others
<1> QED  BY <1>1, <1>2, <1>3, <1>4, <1>5, <1>6, <1>7 DEF WiringNext

\* Whatever the lists may say, the rows hold and the runs overlap: every target of an entity in
\* the registry is in it, no run makes two entities of one file, and what the last run to write
\* had read is covered (generate_wiring_registry.py's generate and coverage_delta).
THEOREM RegistrySound == WiringSpec => []WiringSound
<1>1. WiringInv => WiringSound
  <2> SUFFICES ASSUME WiringInv PROVE WiringSound
    OBVIOUS
  <2>1. \A e \in wired : e.to \subseteq {f.id : f \in wired}
    BY DEF WiringInv, Linked, Ids
  <2>2. \A g \in Generators : \A e, f \in generator[g].ents :
            (\E p \in Paths : Claims(e, p) /\ Claims(f, p)) => e = f
    BY DEF WiringInv, RunIsSound, Sound, OnePerPath
  <2> QED  BY <2>1, <2>2 DEF WiringInv, WiringSound
<1> QED  BY <1>1, WiringBegins, WiringGoesOn, PTL DEF WiringSpec

\* No two entities have one id; the ids are of the kinds K; and that of a file says its path.
Distinct(ents) == \A e, f \in ents : e.id = f.id => e = f
Keyed(ents, K) ==
    /\ Distinct(ents)
    /\ \A e \in ents : e.id[1] \in K /\ (e.id[1] = "file" => e.path = {e.id[2]})

LEMMA MoreKeyed ==
    ASSUME NEW K, NEW J, NEW E, Keyed(E, K), NEW N, Distinct(N),
           \A e \in N : e.id[1] \in J, J \cap K = {}, "file" \in K
    PROVE  Keyed(E \cup N, K \cup J)
BY DEF Keyed, Distinct

LEMMA KeyedTold ==
    ASSUME NEW K, NEW E, Shaped(E), Keyed(E, K), NEW paths, NEW ref
    PROVE  Keyed(Told(E, paths, ref), K) /\ Ids(Told(E, paths, ref)) = Ids(E)
<1> DEFINE t == [e \in E |-> IF \E p \in paths : Claims(e, p) THEN [e EXCEPT !.refs = @ \cup {ref}] ELSE e]
           F == Told(E, paths, ref)
<1>1. F = {t[e] : e \in E}
  BY DEF Told
<1>2. ASSUME NEW e \in E
      PROVE  t[e].id = e.id /\ t[e].path = e.path
  <2>1. DOMAIN e = {"id", "path", "to", "refs"}
    BY DEF Shaped
  <2>2. CASE \E p \in paths : Claims(e, p)
    <3>1. t[e] = [e EXCEPT !.refs = @ \cup {ref}]
      BY <2>2
    <3> QED  BY <2>1, <3>1
  <2>3. CASE ~\E p \in paths : Claims(e, p)
    <3>1. t[e] = e
      BY <2>3
    <3> QED  BY <3>1
  <2> QED  BY <2>2, <2>3
<1> HIDE DEF t, F
<1>3. Ids(F) = Ids(E)
  BY <1>1, <1>2 DEF Ids
<1>4. Distinct(F)
  <2> SUFFICES ASSUME NEW a \in F, NEW b \in F, a.id = b.id PROVE a = b
    BY DEF Distinct
  <2>1. PICK e \in E, f \in E : a = t[e] /\ b = t[f]
    BY <1>1
  <2>2. e = f
    BY <1>2, <2>1 DEF Keyed, Distinct
  <2> QED  BY <2>1, <2>2
<1>5. \A a \in F : a.id[1] \in K /\ (a.id[1] = "file" => a.path = {a.id[2]})
  BY <1>1, <1>2 DEF Keyed
<1> QED  BY <1>3, <1>4, <1>5 DEF Keyed, F

LEMMA KeyedFiled ==
    ASSUME NEW K, "file" \in K, NEW E, Shaped(E), Keyed(E, K), NEW paths, NEW ref
    PROVE  Keyed(Filed(E, paths, ref), K)
<1> DEFINE N == {Entity(<<"file", p>>, {p}, {}, ref) : p \in {q \in paths : \A e \in E : ~Claims(e, q)}}
           T == Told(E, paths, ref)
<1>1. Filed(E, paths, ref) = T \cup N
  BY DEF Filed, Told
<1>2. Keyed(T, K) /\ Ids(T) = Ids(E)
  BY KeyedTold
<1>3. ASSUME NEW n \in N
      PROVE  \E p : /\ n = Entity(<<"file", p>>, {p}, {}, ref) /\ n.id = <<"file", p>> /\ n.path = {p}
                    /\ n.id[1] = "file" /\ n.id[2] = p /\ n.id \notin Ids(E)
  <2>1. PICK p \in paths : n = Entity(<<"file", p>>, {p}, {}, ref) /\ \A e \in E : ~Claims(e, p)
    OBVIOUS
  <2>2. n.id = <<"file", p>> /\ n.path = {p} /\ n.id[1] = "file" /\ n.id[2] = p
    BY <2>1 DEF Entity
  <2>3. ASSUME NEW e \in E, e.id = n.id PROVE FALSE
    <3>1. e.path = {p} /\ e.id[1] = "file"
      BY <2>2, <2>3 DEF Keyed
    <3> QED  BY <2>1, <3>1 DEF Claims
  <2> QED  BY <2>1, <2>2, <2>3 DEF Ids
<1> HIDE DEF N, T
<1>4. Distinct(T \cup N)
  <2> SUFFICES ASSUME NEW a \in T \cup N, NEW b \in T \cup N, a.id = b.id PROVE a = b
    BY DEF Distinct
  <2>1. CASE a \in T /\ b \in T
    BY <1>2, <2>1 DEF Keyed, Distinct
  <2>2. CASE a \in N /\ b \in N
    <3>1. PICK p : a = Entity(<<"file", p>>, {p}, {}, ref) /\ a.id[2] = p
      BY <1>3, <2>2
    <3>2. PICK q : b = Entity(<<"file", q>>, {q}, {}, ref) /\ b.id[2] = q
      BY <1>3, <2>2
    <3> QED  BY <3>1, <3>2
  <2>3. ASSUME NEW e \in T, NEW n \in N PROVE e.id # n.id
    BY <1>2, <1>3 DEF Ids
  <2> QED  BY <2>1, <2>2, <2>3
<1>5. \A e \in T \cup N : e.id[1] \in K /\ (e.id[1] = "file" => e.path = {e.id[2]})
  BY <1>2, <1>3 DEF Keyed
<1> QED  BY <1>1, <1>4, <1>5 DEF Keyed

\* The entities N are made of the members of X, each with an id of its own.
Makes(en, X, J, N) ==
    /\ \A x \in X : en[x].id[1] \in J
    /\ \A x, y \in X : en[x].id = en[y].id => x = y
    /\ \A e \in N : \E x \in X : e = en[x]

LEMMA MadeKeyed ==
    ASSUME NEW K, "file" \in K, NEW J, \A k \in J : k \notin K, NEW E, Keyed(E, K), NEW X, NEW en,
           NEW N, Makes(en, X, J, N)
    PROVE  Keyed(E \cup N, K \cup J)
<1>1. Distinct(N)
  BY DEF Distinct, Makes
<1>2. \A e \in N : e.id[1] \in J
  BY DEF Makes
<1>3. J \cap K = {}
  OBVIOUS
<1> QED  BY <1>1, <1>2, <1>3, MoreKeyed

LEMMA EnginesAreKeyed ==
    ASSUME NEW c \in Catalogs
    PROVE  Keyed(EnginesAndGateways(c), {"file"} \cup {"engine", "gateway"})
<1> DEFINE paths == UNION {c.units[u] : u \in DOMAIN c.units}
           E == Filed({}, paths, "inventory")
           Sharing(u) == {v \in DOMAIN c.units \ {u} : c.units[u] \cap c.units[v] # {}}
           en == [u \in DOMAIN c.units |->
                     Entity(u, c.units[u], {IdOf(E, p) : p \in c.units[u]} \cup Sharing(u), "inventory")]
<1>1. EnginesAndGateways(c) = E \cup {en[u] : u \in DOMAIN c.units}
  BY DEF EnginesAndGateways
<1>2. Keyed({}, {"file"}) /\ Shaped({})
  BY DEF Keyed, Distinct, Shaped
<1>3. Keyed(E, {"file"})
  <2> HIDE DEF paths
  <2> QED  BY <1>2, KeyedFiled
<1> HIDE DEF E, Sharing, paths
<1>4. \A u \in DOMAIN c.units : en[u].id = u
  BY DEF Entity
<1> HIDE DEF en
<1>5. \A u \in DOMAIN c.units : en[u].id[1] \in {"engine", "gateway"}
  BY <1>4, ListedShape
<1>6. Keyed(E \cup {en[u] : u \in DOMAIN c.units}, {"file"} \cup {"engine", "gateway"})
  <2> DEFINE N == {en[u] : u \in DOMAIN c.units}
  <2>1. Makes(en, DOMAIN c.units, {"engine", "gateway"}, N)
    BY <1>3, <1>4, <1>5 DEF Makes
  <2> HIDE DEF N
  <2>2. \A k \in {"engine", "gateway"} : k \notin {"file"}
    OBVIOUS
  <2>3. Keyed(E \cup N, {"file"} \cup {"engine", "gateway"})
    BY <1>2, <1>3, <2>1, <2>2, MadeKeyed
  <2> QED  BY <2>3 DEF N
<1> QED  BY <1>1, <1>6

LEMMA DefinedAreKeyed ==
    ASSUME NEW K, "file" \in K, NEW E, Sound(E), Keyed(E, K), NEW kind, kind \notin K, NEW list, NEW ref
    PROVE  Keyed(DefinedIn(E, kind, list, ref), K \cup {kind})
<1> DEFINE F == Filed(E, list.file, ref)
           en == [n \in list.names |-> Entity(<<kind, n>>, {}, {IdOf(F, p) : p \in list.file}, ref)]
<1>1. DefinedIn(E, kind, list, ref) = F \cup {en[n] : n \in list.names}
  BY DEF DefinedIn
<1>2. Keyed(F, K)
  BY KeyedFiled DEF Sound
<1> HIDE DEF F
<1>3. \A n \in list.names : en[n].id = <<kind, n>>
  BY DEF Entity
<1> HIDE DEF en
<1>4. \A n \in list.names : en[n].id[1] = kind /\ en[n].id[2] = n
  BY <1>3
<1>5. Keyed(F \cup {en[n] : n \in list.names}, K \cup {kind})
  <2> DEFINE N == {en[n] : n \in list.names}
  <2>1. Makes(en, list.names, {kind}, N)
    BY <1>2, <1>4 DEF Makes
  <2> HIDE DEF N
  <2>2. \A k \in {kind} : k \notin K
    OBVIOUS
  <2>3. Keyed(F \cup N, K \cup {kind})
    BY <1>2, <1>3, <2>1, <2>2, MadeKeyed
  <2> QED  BY <2>3 DEF N
<1> QED  BY <1>1, <1>5

LEMMA FunctionsAreKeyed ==
    ASSUME NEW K, "file" \in K, "function" \notin K, NEW c \in Catalogs, NEW E, Sound(E), Keyed(E, K)
    PROVE  Keyed(FunctionsOf(c, E), K \cup {"function"})
<1> DEFINE F == Filed(E, {f.file : f \in c.functions}, "function_catalog")
           Engines(f) == {u \in DOMAIN c.units : u[1] = "engine" /\ c.units[u] \cap Inside[f.file] # {}}
           en == [f \in c.functions |-> Entity(<<"function", f.name>>, {f.file},
                                               {IdOf(F, f.file)} \cup Engines(f), "function_catalog")]
<1>1. FunctionsOf(c, E) = F \cup {en[f] : f \in c.functions}
  BY DEF FunctionsOf
<1>2. Keyed(F, K)
  BY KeyedFiled DEF Sound
<1> HIDE DEF F, Engines
<1>3. \A f \in c.functions : en[f].id = <<"function", f.name>>
  BY DEF Entity
<1> HIDE DEF en
<1>4. \A f \in c.functions : en[f].id[1] = "function" /\ en[f].id[2] = f.name
  BY <1>3
<1>5. \A f, h \in c.functions : f.name = h.name => f = h
  BY WiringAssumption
<1>6. Keyed(F \cup {en[f] : f \in c.functions}, K \cup {"function"})
  <2> DEFINE N == {en[f] : f \in c.functions}
  <2>1. Makes(en, c.functions, {"function"}, N)
    BY <1>2, <1>4, <1>5 DEF Makes
  <2> HIDE DEF N
  <2>2. \A k \in {"function"} : k \notin K
    OBVIOUS
  <2>3. Keyed(F \cup N, K \cup {"function"})
    BY <1>2, <1>3, <2>1, <2>2, MadeKeyed
  <2> QED  BY <2>3 DEF N
<1> QED  BY <1>1, <1>6

LEMMA RoutesAreKeyed ==
    ASSUME NEW K, "file" \in K, "route" \notin K, NEW c \in Catalogs, NEW E, Sound(E), Keyed(E, K)
    PROVE  Keyed(Routes(c, E), K \cup {"route"})
<1> DEFINE F == Filed(E, UNION {{r.from, r.to} : r \in c.routes}, "route_registry_schema")
           en == [r \in c.routes |->
                     Entity(<<"route", r.id>>, {r.from, r.to},
                            {IdOf(F, r.from), IdOf(F, r.to)} \cup (r.hops \cap DOMAIN c.units),
                            "route_registry_schema")]
<1>1. Routes(c, E) = F \cup {en[r] : r \in c.routes}
  BY DEF Routes
<1>2. Keyed(F, K)
  BY KeyedFiled DEF Sound
<1> HIDE DEF F
<1>3. \A r \in c.routes : en[r].id = <<"route", r.id>>
  BY DEF Entity
<1> HIDE DEF en
<1>4. \A r \in c.routes : en[r].id[1] = "route" /\ en[r].id[2] = r.id
  BY <1>3
<1>5. \A r, s \in c.routes : r.id = s.id => r = s
  BY WiringAssumption
<1>6. Keyed(F \cup {en[r] : r \in c.routes}, K \cup {"route"})
  <2> DEFINE N == {en[r] : r \in c.routes}
  <2>1. Makes(en, c.routes, {"route"}, N)
    BY <1>2, <1>4, <1>5 DEF Makes
  <2> HIDE DEF N
  <2>2. \A k \in {"route"} : k \notin K
    OBVIOUS
  <2>3. Keyed(F \cup N, K \cup {"route"})
    BY <1>2, <1>3, <2>1, <2>2, MadeKeyed
  <2> QED  BY <2>3 DEF N
<1> QED  BY <1>1, <1>6

LEMMA ScriptsAreKeyed ==
    ASSUME NEW K, "file" \in K, "script" \notin K, "cron" \notin K, NEW c \in Catalogs, NEW E, Keyed(E, K)
    PROVE  Keyed(ScriptsAndCron(c, E), (K \cup {"script"}) \cup {"cron"})
<1> DEFINE Jobs(p) == {<<"cron", k>> : k \in {j \in DOMAIN c.crons : p \in c.crons[j]}}
           Programs(k) == {<<"script", p>> : p \in c.crons[k] \cap c.scripts}
           script == [p \in c.scripts |-> Entity(<<"script", p>>, {p}, Jobs(p), "software_catalog")]
           cron == [k \in DOMAIN c.crons |-> Entity(<<"cron", k>>, {}, Programs(k), "software_catalog")]
           S == E \cup {script[p] : p \in c.scripts}
<1>1. ScriptsAndCron(c, E) = S \cup {cron[k] : k \in DOMAIN c.crons}
  BY DEF ScriptsAndCron
<1> HIDE DEF Jobs, Programs
<1>2. /\ \A p \in c.scripts : script[p].id = <<"script", p>>
      /\ \A k \in DOMAIN c.crons : cron[k].id = <<"cron", k>>
  BY DEF Entity
<1> HIDE DEF script, cron
<1>3. /\ \A p \in c.scripts : script[p].id[1] = "script" /\ script[p].id[2] = p
      /\ \A k \in DOMAIN c.crons : cron[k].id[1] = "cron" /\ cron[k].id[2] = k
  BY <1>2
<1>4. Keyed(S, K \cup {"script"})
  <2> DEFINE N == {script[p] : p \in c.scripts}
  <2>1. Makes(script, c.scripts, {"script"}, N)
    BY <1>3 DEF Makes
  <2> HIDE DEF N
  <2>2. \A k \in {"script"} : k \notin K
    OBVIOUS
  <2>3. Keyed(E \cup N, K \cup {"script"})
    BY <2>1, <2>2, MadeKeyed
  <2> QED  BY <2>3 DEF N
<1> HIDE DEF S
<1>5. Keyed(S \cup {cron[k] : k \in DOMAIN c.crons}, (K \cup {"script"}) \cup {"cron"})
  <2> DEFINE N == {cron[k] : k \in DOMAIN c.crons}
  <2>1. Makes(cron, DOMAIN c.crons, {"cron"}, N)
    BY <1>3 DEF Makes
  <2> HIDE DEF N
  <2>2. "file" \in K \cup {"script"} /\ \A k \in {"cron"} : k \notin K \cup {"script"}
    OBVIOUS
  <2>3. Keyed(S \cup N, (K \cup {"script"}) \cup {"cron"})
    BY <1>4, <2>1, <2>2, MadeKeyed
  <2> QED  BY <2>3 DEF N
<1> QED  BY <1>1, <1>5

LEMMA DocsAreKeyed ==
    ASSUME NEW K, "file" \in K, "doc" \notin K, NEW E, Keyed(E, K), NEW rows
    PROVE  Keyed(GovernanceDocs(rows, E), K \cup {"doc"})
<1> DEFINE M == {m \in DOMAIN rows :
                    /\ rows[m].tagged
                    /\ \A e \in E : ~Claims(e, rows[m].path)
                    /\ \A k \in 1 .. m - 1 : ~(rows[k].tagged /\ rows[k].path = rows[m].path)}
           en == [n \in M |-> Entity(<<"doc", n>>, {rows[n].path}, {}, "governance_tag")]
<1>1. GovernanceDocs(rows, E) = E \cup {en[n] : n \in M}
  BY DEF GovernanceDocs
<1> HIDE DEF M
<1>2. \A n \in M : en[n].id = <<"doc", n>>
  BY DEF Entity
<1> HIDE DEF en
<1>3. \A n \in M : en[n].id[1] = "doc" /\ en[n].id[2] = n
  BY <1>2
<1>4. Keyed(E \cup {en[n] : n \in M}, K \cup {"doc"})
  <2> DEFINE N == {en[n] : n \in M}
  <2>1. Makes(en, M, {"doc"}, N)
    BY <1>3 DEF Makes
  <2> HIDE DEF N
  <2>2. \A k \in {"doc"} : k \notin K
    OBVIOUS
  <2>3. Keyed(E \cup N, K \cup {"doc"})
    BY <1>2, <1>3, <2>1, <2>2, MadeKeyed
  <2> QED  BY <2>3 DEF N
<1> QED  BY <1>1, <1>4

LEMMA KnowledgeIsKeyed ==
    ASSUME NEW K, "file" \in K, "known" \notin K, NEW E, Shaped(E), Keyed(E, K), NEW rows
    PROVE  Keyed(FromKnowledge(rows, E), K \cup {"known"})
<1> DEFINE T == Told(E, {rows[n].path : n \in DOMAIN rows}, "knowledge_engine")
           M == {m \in DOMAIN rows : /\ \A e \in E : ~Claims(e, rows[m].path)
                                     /\ \A k \in 1 .. m - 1 : rows[k].path # rows[m].path}
           en == [n \in M |-> Entity(<<"known", n>>, {rows[n].path}, {}, "knowledge_engine")]
<1>1. FromKnowledge(rows, E) = T \cup {en[n] : n \in M}
  BY DEF FromKnowledge, Told
<1>2. Keyed(T, K)
  BY KeyedTold
<1> HIDE DEF M, T
<1>3. \A n \in M : en[n].id = <<"known", n>>
  BY DEF Entity
<1> HIDE DEF en
<1>4. \A n \in M : en[n].id[1] = "known" /\ en[n].id[2] = n
  BY <1>3
<1>5. Keyed(T \cup {en[n] : n \in M}, K \cup {"known"})
  <2> DEFINE N == {en[n] : n \in M}
  <2>1. Makes(en, M, {"known"}, N)
    BY <1>2, <1>4 DEF Makes
  <2> HIDE DEF N
  <2>2. \A k \in {"known"} : k \notin K
    OBVIOUS
  <2>3. Keyed(T \cup N, K \cup {"known"})
    BY <1>2, <1>3, <2>1, <2>2, MadeKeyed
  <2> QED  BY <2>3 DEF N
<1> QED  BY <1>1, <1>5

LEMMA BrowserIsKeyed ==
    ASSUME NEW K, "file" \in K, "component" \notin K, NEW E, Keyed(E, K), NEW units
    PROVE  Keyed(BrowserComponents(units, E), K \cup {"component"})
<1> DEFINE Engines(p) == {u \in DOMAIN units : u[1] = "engine" /\ p \in units[u]}
           M == {q \in Browser : Engines(q) # {}}
           en == [p \in M |-> Entity(<<"component", p>>, {p}, {IdOf(E, p)} \cup Engines(p), "inventory")]
<1>1. BrowserComponents(units, E) = E \cup {en[p] : p \in M}
  BY DEF BrowserComponents
<1> HIDE DEF M, Engines
<1>2. \A p \in M : en[p].id = <<"component", p>>
  BY DEF Entity
<1> HIDE DEF en
<1>3. \A p \in M : en[p].id[1] = "component" /\ en[p].id[2] = p
  BY <1>2
<1>4. Keyed(E \cup {en[p] : p \in M}, K \cup {"component"})
  <2> DEFINE N == {en[p] : p \in M}
  <2>1. Makes(en, M, {"component"}, N)
    BY <1>3 DEF Makes
  <2> HIDE DEF N
  <2>2. \A k \in {"component"} : k \notin K
    OBVIOUS
  <2>3. Keyed(E \cup N, K \cup {"component"})
    BY <1>2, <1>3, <2>1, <2>2, MadeKeyed
  <2> QED  BY <2>3 DEF N
<1> QED  BY <1>1, <1>4

LEMMA CensusIsKeyed ==
    ASSUME NEW K, "file" \in K, "repo" \notin K, "project" \notin K, NEW c \in Catalogs, NEW E, Sound(E), Keyed(E, K)
    PROVE  Distinct(VercelAndGithub(c, E))
<1> DEFINE F == Filed(E, {IndexFile}, "census")
           index == IdOf(F, IndexFile)
           HasPart(r) == {e.id : e \in {f \in F : /\ f.id[1] \in {"file", "known", "engine", "gateway"}
                                                   /\ f.path \cap c.repos[r] # {}}}
           Deployed(r) == {<<"project", p>> : p \in {q \in DOMAIN c.projects : r \in c.projects[q]}}
           From(p) == {<<"repo", r>> : r \in c.projects[p]}
           repo == [r \in DOMAIN c.repos |-> Entity(<<"repo", r>>, {}, {index} \cup HasPart(r) \cup Deployed(r), "census")]
           project == [p \in DOMAIN c.projects |-> Entity(<<"project", p>>, {}, {index} \cup From(p), "census")]
           R == F \cup {repo[r] : r \in DOMAIN c.repos}
<1>1. VercelAndGithub(c, E) = IF DOMAIN c.repos \cup DOMAIN c.projects = {} THEN E
                              ELSE R \cup {project[p] : p \in DOMAIN c.projects}
  BY DEF VercelAndGithub
<1>2. Keyed(F, K)
  BY KeyedFiled DEF Sound
<1> HIDE DEF F, index, HasPart, Deployed, From
<1>3. /\ \A r \in DOMAIN c.repos : repo[r].id = <<"repo", r>>
      /\ \A p \in DOMAIN c.projects : project[p].id = <<"project", p>>
  BY DEF Entity
<1> HIDE DEF repo, project
<1>4. /\ \A r \in DOMAIN c.repos : repo[r].id[1] = "repo" /\ repo[r].id[2] = r
      /\ \A p \in DOMAIN c.projects : project[p].id[1] = "project" /\ project[p].id[2] = p
  BY <1>3
<1>5. Keyed(R, K \cup {"repo"})
  <2> DEFINE N == {repo[r] : r \in DOMAIN c.repos}
  <2>1. Makes(repo, DOMAIN c.repos, {"repo"}, N)
    BY <1>4 DEF Makes
  <2> HIDE DEF N
  <2>2. \A k \in {"repo"} : k \notin K
    OBVIOUS
  <2>3. Keyed(F \cup N, K \cup {"repo"})
    BY <1>2, <2>1, <2>2, MadeKeyed
  <2> QED  BY <2>3 DEF N
<1> HIDE DEF R
<1>6. Keyed(R \cup {project[p] : p \in DOMAIN c.projects}, (K \cup {"repo"}) \cup {"project"})
  <2> DEFINE N == {project[p] : p \in DOMAIN c.projects}
  <2>1. Makes(project, DOMAIN c.projects, {"project"}, N)
    BY <1>4 DEF Makes
  <2> HIDE DEF N
  <2>2. "file" \in K \cup {"repo"} /\ \A k \in {"project"} : k \notin K \cup {"repo"}
    OBVIOUS
  <2>3. Keyed(R \cup N, (K \cup {"repo"}) \cup {"project"})
    BY <1>5, <2>1, <2>2, MadeKeyed
  <2> QED  BY <2>3 DEF N
<1> QED  BY <1>1, <1>6 DEF Keyed

\* The kinds of the entities of a run, as it goes on.
UnitKinds == {"file"} \cup {"engine", "gateway"}
ListKinds == ((((UnitKinds \cup {"table"}) \cup {"function"}) \cup {"role"}) \cup {"route"})
ListedKinds == (ListKinds \cup {"script"}) \cup {"cron"}
DocKinds == ListedKinds \cup {"doc"}
RowKinds == DocKinds \cup {"known"}

LEMMA ListedIsKeyed == ASSUME NEW c \in Catalogs PROVE Keyed(Listed(c), ListedKinds)
<1> DEFINE A == EnginesAndGateways(c)
           B == Tables(c, A)
           C == FunctionsOf(c, B)
           D == Roles(c, C)
           E == Routes(c, D)
<1>1. Sound(A) /\ Holds(A, c.units) /\ Keyed(A, UnitKinds)
  BY EnginesAreSound, EnginesAreKeyed DEF UnitKinds
<1> HIDE DEF A
<1>2. Sound(B) /\ Grown(A, B)
  BY <1>1, ListedShape, DefinedInIsSound DEF Tables
<1>3. Holds(B, c.units) /\ DOMAIN c.units \subseteq Ids(B)
  BY <1>1, <1>2, HoldsStill DEF Holds
<1>4. Keyed(B, UnitKinds \cup {"table"})
  <2>1. "file" \in UnitKinds /\ "table" \notin UnitKinds
    BY DEF UnitKinds
  <2> QED  BY <1>1, <2>1, DefinedAreKeyed DEF Tables
<1> HIDE DEF B
<1>5. Sound(C) /\ Grown(B, C)
  BY <1>2, <1>3, FunctionsAreSound
<1>6. Holds(C, c.units)
  BY <1>3, <1>5, HoldsStill
<1>7. Keyed(C, (UnitKinds \cup {"table"}) \cup {"function"})
  <2>1. "file" \in UnitKinds \cup {"table"} /\ "function" \notin UnitKinds \cup {"table"}
    BY DEF UnitKinds
  <2> QED  BY <1>2, <1>4, <2>1, FunctionsAreKeyed
<1> HIDE DEF C
<1>8. Sound(D) /\ Grown(C, D)
  BY <1>5, ListedShape, DefinedInIsSound DEF Roles
<1>9. Holds(D, c.units) /\ DOMAIN c.units \subseteq Ids(D)
  BY <1>6, <1>8, HoldsStill DEF Holds
<1>10. Keyed(D, ((UnitKinds \cup {"table"}) \cup {"function"}) \cup {"role"})
  <2> DEFINE K == (UnitKinds \cup {"table"}) \cup {"function"}
  <2>1. "file" \in K /\ "role" \notin K
    BY DEF UnitKinds
  <2> HIDE DEF K
  <2>2. Keyed(D, K \cup {"role"})
    BY <1>5, <1>7, <2>1, DefinedAreKeyed DEF Roles, K
  <2> QED  BY <2>2 DEF K
<1> HIDE DEF D
<1>11. Keyed(E, ListKinds)
  <2> DEFINE K == ((UnitKinds \cup {"table"}) \cup {"function"}) \cup {"role"}
  <2>1. "file" \in K /\ "route" \notin K
    BY DEF UnitKinds
  <2> HIDE DEF K
  <2>2. Keyed(E, K \cup {"route"})
    BY <1>8, <1>10, <2>1, RoutesAreKeyed DEF K
  <2> QED  BY <2>2 DEF K, ListKinds
<1> HIDE DEF E
<1>12. Keyed(ScriptsAndCron(c, E), ListedKinds)
  <2>1. "file" \in ListKinds /\ "script" \notin ListKinds /\ "cron" \notin ListKinds
    BY DEF ListKinds, UnitKinds
  <2> QED  BY <1>11, <2>1, ScriptsAreKeyed DEF ListedKinds
<1> QED  BY <1>12 DEF Listed, A, B, C, D, E

AKnownRow == [path : Paths, hash : Hashes, tagged : BOOLEAN]

\* Where a run is, and the kinds of what it has.
StageTyped(x) ==
    /\ x.at \in {"idle", "governance", "knowledge", "census", "write"}
    /\ x.at = "governance" => Keyed(x.ents, ListedKinds)
    /\ x.at = "knowledge" => Keyed(x.ents, DocKinds)
    /\ x.at = "census" => Keyed(x.ents, RowKinds)
    /\ x.at = "write" => Distinct(x.ents)

WiringRest ==
    /\ known \in Seq(AKnownRow) /\ Len(known) <= MaxKnown
    /\ Distinct(wired) /\ wirings \in 0 .. MaxWirings
    /\ \A g \in Generators : StageTyped(generator[g])

LEMMA WiringRestBegins == WiringInit => WiringRest
<1> SUFFICES ASSUME WiringInit PROVE WiringRest
  OBVIOUS
<1>1. known \in Seq(AKnownRow) /\ Len(known) <= MaxKnown /\ wirings \in 0 .. MaxWirings
  <2>1. <<>> \in Seq(AKnownRow) /\ Len(<<>>) = 0 /\ MaxKnown \in Nat /\ MaxWirings \in Nat
    BY WiringAssumption
  <2> QED  BY <2>1 DEF WiringInit
<1>2. \A g \in Generators : generator[g].at = "idle"
  BY DEF WiringInit, Unread
<1> QED  BY <1>1, <1>2 DEF WiringInit, WiringRest, StageTyped, Distinct

\* One run moves.
LEMMA StageMoves ==
    ASSUME WiringInv, WiringRest, NEW g \in Generators, NEW x, generator' = [generator EXCEPT ![g] = x],
           StageTyped(x), UNCHANGED <<known, wirings>>, Distinct(wired')
    PROVE  WiringRest'
<1>1. generator'[g] = x /\ \A q \in Generators \ {g} : generator'[q] = generator[q]
  BY DEF WiringInv
<1>2. \A q \in Generators : StageTyped(generator[q])'
  BY <1>1 DEF WiringRest, StageTyped, Keyed, Distinct
<1> QED  BY <1>2 DEF WiringRest, AKnownRow, Distinct

LEMMA RunsRest ==
    ASSUME WiringInv, WiringRest, NEW g \in Generators,
           ReadsLists(g) \/ ReadsGovernance(g) \/ ReadsKnowledge(g) \/ ReadsCensus(g) \/ GeneratorKilled(g)
    PROVE  WiringRest'
<1> DEFINE E == generator[g].ents
<1>0. /\ DOMAIN generator[g] = {"at", "units", "rows", "ents"} /\ Sound(E) /\ Shaped(E)
      /\ StageTyped(generator[g]) /\ DOMAIN generator = Generators
      /\ generator[g].at \in {"governance", "knowledge", "census", "write"}
            => Holds(E, generator[g].units)
  BY DEF WiringInv, RunIsSound, WiringRest, Sound
<1>00. UNCHANGED <<known, wirings, wired>> /\ Distinct(wired)
  BY DEF ReadsLists, ReadsGovernance, ReadsKnowledge, ReadsCensus, GeneratorKilled, WiringRest
<1>1. CASE ReadsLists(g)
  <2> DEFINE x == [at |-> "governance", units |-> catalog.units, rows |-> <<>>, ents |-> Listed(catalog)]
  <2>1. Keyed(Listed(catalog), ListedKinds)
    BY ListedIsKeyed DEF WiringInv
  <2>2. generator' = [generator EXCEPT ![g] = x]
    BY <1>1 DEF ReadsLists, Listed
  <2>3. x.at = "governance" /\ x.ents = Listed(catalog)
    OBVIOUS
  <2> HIDE DEF x
  <2>4. StageTyped(x)
    BY <2>1, <2>3 DEF StageTyped
  <2> QED  BY <1>00, <2>2, <2>4, StageMoves
<1>2. CASE ReadsGovernance(g)
  <2> DEFINE F == GovernanceDocs(known, E)
  <2>1. Keyed(E, ListedKinds)
    BY <1>0, <1>2 DEF ReadsGovernance, StageTyped
  <2>2. Keyed(F, DocKinds)
    <3>1. "file" \in ListedKinds /\ "doc" \notin ListedKinds
      BY DEF ListedKinds, ListKinds, UnitKinds
    <3> QED  BY <2>1, <3>1, DocsAreKeyed DEF DocKinds
  <2> HIDE DEF F
  <2>3. PICK x : /\ generator' = [generator EXCEPT ![g] = x]
                 /\ x = [generator[g] EXCEPT !.at = "knowledge", !.ents = F]
    BY <1>2 DEF ReadsGovernance, WiringInv, F
  <2>4. x.at = "knowledge" /\ x.ents = F
    BY <1>0, <2>3
  <2>5. StageTyped(x)
    BY <2>2, <2>4 DEF StageTyped
  <2> QED  BY <1>00, <2>3, <2>5, StageMoves
<1>3. CASE ReadsKnowledge(g)
  <2> DEFINE F == FromKnowledge(known, E)
  <2>1. Keyed(E, DocKinds)
    BY <1>0, <1>3 DEF ReadsKnowledge, StageTyped
  <2>2. Keyed(F, RowKinds)
    <3>1. "file" \in DocKinds /\ "known" \notin DocKinds
      BY DEF DocKinds, ListedKinds, ListKinds, UnitKinds
    <3> QED  BY <1>0, <2>1, <3>1, KnowledgeIsKeyed DEF RowKinds
  <2> HIDE DEF F
  <2>3. PICK x : /\ generator' = [generator EXCEPT ![g] = x]
                 /\ x = [generator[g] EXCEPT !.at = "census", !.rows = known, !.ents = F]
    BY <1>3 DEF ReadsKnowledge, WiringInv, F
  <2>4. x.at = "census" /\ x.ents = F
    BY <1>0, <2>3
  <2>5. StageTyped(x)
    BY <2>2, <2>4 DEF StageTyped
  <2> QED  BY <1>00, <2>3, <2>5, StageMoves
<1>4. CASE ReadsCensus(g)
  <2> DEFINE B == BrowserComponents(generator[g].units, E)
             F == VercelAndGithub(catalog, B)
  <2>1. Keyed(E, RowKinds) /\ Holds(E, generator[g].units)
    BY <1>0, <1>4 DEF ReadsCensus, StageTyped
  <2>2. Sound(B)
    BY <1>0, <2>1, BrowserIsSound
  <2>3. Keyed(B, RowKinds \cup {"component"})
    <3>1. "file" \in RowKinds /\ "component" \notin RowKinds
      BY DEF RowKinds, DocKinds, ListedKinds, ListKinds, UnitKinds
    <3> QED  BY <2>1, <3>1, BrowserIsKeyed
  <2> HIDE DEF B
  <2>4. Distinct(F)
    <3> DEFINE K == RowKinds \cup {"component"}
    <3>1. "file" \in K /\ "repo" \notin K /\ "project" \notin K
      BY DEF RowKinds, DocKinds, ListedKinds, ListKinds, UnitKinds
    <3> HIDE DEF K
    <3>2. Keyed(B, K) /\ catalog \in Catalogs
      BY <2>3 DEF K, WiringInv
    <3> QED  BY <2>2, <3>1, <3>2, CensusIsKeyed
  <2> HIDE DEF F
  <2>5. PICK x : /\ generator' = [generator EXCEPT ![g] = x]
                 /\ x = [generator[g] EXCEPT !.at = "write", !.ents = F]
    BY <1>4 DEF ReadsCensus, WiringInv, F, B
  <2>6. x.at = "write" /\ x.ents = F
    BY <1>0, <2>5
  <2>7. StageTyped(x)
    BY <2>4, <2>6 DEF StageTyped
  <2> QED  BY <1>00, <2>5, <2>7, StageMoves
<1>5. CASE GeneratorKilled(g)
  <2>1. generator' = [generator EXCEPT ![g] = Unread] /\ StageTyped(Unread)
    BY <1>5 DEF GeneratorKilled, Unread, StageTyped
  <2> QED  BY <1>00, <2>1, StageMoves
<1> QED  BY <1>1, <1>2, <1>3, <1>4, <1>5

LEMMA UpsertedIsDistinct ==
    ASSUME Distinct(wired), NEW E, Distinct(E)
    PROVE  Distinct(Upserted(E))
BY DEF Distinct, Upserted

LEMMA WriteRest == ASSUME WiringInv, WiringRest, NEW g \in Generators, WritesEntities(g) PROVE WiringRest'
<1>1. Distinct(generator[g].ents)
  BY DEF WritesEntities, WiringRest, StageTyped
<1>2. /\ wired' = Upserted(generator[g].ents) /\ UNCHANGED <<known, wirings>>
      /\ generator' = [generator EXCEPT ![g] = Unread]
  BY DEF WritesEntities
<1>3. Distinct(wired')
  BY <1>1, <1>2, UpsertedIsDistinct DEF WiringRest
<1>4. StageTyped(Unread)
  BY DEF Unread, StageTyped
<1> QED  BY <1>2, <1>3, <1>4, StageMoves

\* The rows of knowledge stay rows.
LEMMA KnownRest ==
    ASSUME WiringInv, WiringRest,
           \/ \E p \in Paths : AddTag(p)
           \/ \E p \in Paths, h \in Hashes : VerifyKnowledge(p, h)
           \/ \E p \in Paths, h \in Hashes, tagged \in BOOLEAN :
                 RegisterKnowledge(p, h, tagged) \/ UpsertFragment(p, h, tagged)
    PROVE  known' \in Seq(AKnownRow) /\ Len(known') <= MaxKnown
<1>0. known \in Seq(AKnownRow) /\ Len(known) <= MaxKnown
  BY DEF WiringRest
<1>1. ASSUME NEW n \in DOMAIN known, NEW row \in AKnownRow, known' = [known EXCEPT ![n] = row]
      PROVE  known' \in Seq(AKnownRow) /\ Len(known') <= MaxKnown
  BY <1>0, <1>1
<1>2. \A n \in DOMAIN known : known[n] \in AKnownRow
  BY <1>0
<1>3. ASSUME NEW p \in Paths, AddTag(p) PROVE known' \in Seq(AKnownRow) /\ Len(known') <= MaxKnown
  <2>1. PICK n \in DOMAIN known : known' = [known EXCEPT ![n].tagged = TRUE]
    BY <1>3 DEF AddTag
  <2> DEFINE row == [known[n] EXCEPT !.tagged = TRUE]
  <2>2. known' = [known EXCEPT ![n] = row]
    BY <2>1, Zenon
  <2>3. row \in AKnownRow
    <3>1. PICK b \in BOOLEAN : b = TRUE
      OBVIOUS
    <3>2. [known[n] EXCEPT !.tagged = b] \in AKnownRow
      BY <1>2 DEF AKnownRow
    <3>3. row = [known[n] EXCEPT !.tagged = b]
      BY <3>1, Zenon
    <3> QED  BY <3>2, <3>3
  <2> HIDE DEF row
  <2> QED  BY <1>1, <2>2, <2>3
<1>4. ASSUME NEW p \in Paths, NEW h \in Hashes, VerifyKnowledge(p, h)
      PROVE  known' \in Seq(AKnownRow) /\ Len(known') <= MaxKnown
  <2>1. PICK n \in DOMAIN known : known' = [known EXCEPT ![n].hash = h]
    BY <1>4 DEF VerifyKnowledge
  <2> DEFINE row == [known[n] EXCEPT !.hash = h]
  <2>2. known' = [known EXCEPT ![n] = row]
    BY <2>1
  <2>3. row \in AKnownRow
    BY <1>2 DEF AKnownRow
  <2> HIDE DEF row
  <2> QED  BY <1>1, <2>2, <2>3
<1>5. ASSUME NEW p \in Paths, NEW h \in Hashes, NEW tagged \in BOOLEAN, UpsertFragment(p, h, tagged)
      PROVE  known' \in Seq(AKnownRow) /\ Len(known') <= MaxKnown
  <2>1. PICK n \in DOMAIN known : known' = [known EXCEPT ![n].hash = h, ![n].tagged = tagged]
    BY <1>5 DEF UpsertFragment
  <2> DEFINE one == [known[n] EXCEPT !.hash = h]
             two == [one EXCEPT !.tagged = tagged]
  <2>2. known' = [[known EXCEPT ![n] = one] EXCEPT ![n].tagged = tagged]
    BY <2>1
  <2>3. [known EXCEPT ![n] = one][n] = one
    OBVIOUS
  <2>4. [[known EXCEPT ![n] = one] EXCEPT ![n].tagged = tagged] = [[known EXCEPT ![n] = one] EXCEPT ![n] = two]
    BY <2>3, Zenon
  <2>5. two \in AKnownRow
    BY <1>2 DEF AKnownRow
  <2> HIDE DEF two
  <2>6. known' = [known EXCEPT ![n] = two]
    BY <2>2, <2>4
  <2> QED  BY <1>1, <2>5, <2>6
<1>6. ASSUME NEW p \in Paths, NEW h \in Hashes, NEW tagged \in BOOLEAN, RegisterKnowledge(p, h, tagged)
      PROVE  known' \in Seq(AKnownRow) /\ Len(known') <= MaxKnown
  <2>1. PICK row \in AKnownRow : known' = Append(known, row)
    BY <1>6 DEF RegisterKnowledge, AKnownRow
  <2>2. Len(known) < MaxKnown
    BY <1>6 DEF RegisterKnowledge
  <2> QED  BY <1>0, <2>1, <2>2, WiringAssumption
<1> QED  BY <1>3, <1>4, <1>5, <1>6

LEMMA OthersRest ==
    ASSUME WiringInv, WiringRest, Others,
           \/ \E p \in Paths : AddTag(p)
           \/ \E p \in Paths, h \in Hashes : VerifyKnowledge(p, h)
           \/ \E p \in Paths, h \in Hashes, tagged \in BOOLEAN :
                 RegisterKnowledge(p, h, tagged) \/ UpsertFragment(p, h, tagged)
           \/ \E id \in {<<"other", 0>>} \cup {e.id : e \in wired} : RegisterEntity(id)
           \/ ListsChange
    PROVE  WiringRest'
<1>1. wirings' \in 0 .. MaxWirings /\ UNCHANGED generator
  BY WiringAssumption DEF Others, WiringRest
<1>2. known' \in Seq(AKnownRow) /\ Len(known') <= MaxKnown
  <2>1. CASE UNCHANGED known
    BY <2>1 DEF WiringRest
  <2> QED  BY <2>1, KnownRest DEF RegisterEntity, ListsChange
<1>3. Distinct(wired')
  <2>1. CASE \E id \in {<<"other", 0>>} \cup {e.id : e \in wired} : RegisterEntity(id)
    <3>1. PICK id : wired' = Upserted({Entity(id, {}, {}, "record_file")})
      BY <2>1 DEF RegisterEntity
    <3>2. Distinct({Entity(id, {}, {}, "record_file")})
      BY DEF Distinct
    <3> QED  BY <3>1, <3>2, UpsertedIsDistinct DEF WiringRest
  <2>2. CASE UNCHANGED wired
    BY <2>2 DEF WiringRest
  <2> QED  BY <2>1, <2>2 DEF AddTag, VerifyKnowledge, RegisterKnowledge, UpsertFragment, ListsChange
<1>4. \A g \in Generators : StageTyped(generator[g])'
  BY <1>1 DEF WiringRest, StageTyped, Keyed, Distinct
<1> QED  BY <1>1, <1>2, <1>3, <1>4 DEF WiringRest, AKnownRow, Distinct

LEMMA WiringRestGoesOn == WiringInv /\ WiringRest /\ [WiringNext]_wirevars => WiringRest'
<1> SUFFICES ASSUME WiringInv, WiringRest, [WiringNext]_wirevars PROVE WiringRest'
  OBVIOUS
<1>1. CASE UNCHANGED wirevars
  BY <1>1 DEF wirevars, WiringRest, StageTyped, Keyed, Distinct, AKnownRow
<1>2. ASSUME NEW g \in Generators,
             ReadsLists(g) \/ ReadsGovernance(g) \/ ReadsKnowledge(g) \/ ReadsCensus(g) \/ GeneratorKilled(g)
      PROVE  WiringRest'
  BY <1>2, RunsRest
<1>3. ASSUME NEW g \in Generators, WritesEntities(g) PROVE WiringRest'
  BY <1>3, WriteRest
<1>4. CASE \/ \E p \in Paths : AddTag(p)
           \/ \E p \in Paths, h \in Hashes : VerifyKnowledge(p, h)
           \/ \E p \in Paths, h \in Hashes, tagged \in BOOLEAN :
                 RegisterKnowledge(p, h, tagged) \/ UpsertFragment(p, h, tagged)
           \/ \E id \in {<<"other", 0>>} \cup {e.id : e \in wired} : RegisterEntity(id)
           \/ ListsChange
  <2>1. Others
    BY <1>4, Zenon DEF AddTag, VerifyKnowledge, RegisterKnowledge, UpsertFragment, RegisterEntity, ListsChange
  <2> QED  BY <1>4, <2>1, OthersRest
<1> QED  BY <1>1, <1>2, <1>3, <1>4 DEF WiringNext

\* The registry keeps its types: however often it is written, no two entities have one id.
LEMMA WiringTyped == WiringSpec => []WiringTypeOK
<1>1. WiringInv /\ WiringRest => WiringTypeOK
  <2> SUFFICES ASSUME WiringInv, WiringRest PROVE WiringTypeOK
    OBVIOUS
  <2>1. \A n \in DOMAIN known : known[n] \in AKnownRow
    BY DEF WiringRest
  <2>2. \A g \in Generators : generator[g].at \in {"idle", "governance", "knowledge", "census", "write"}
    BY DEF WiringRest, StageTyped
  <2> QED  BY <2>1, <2>2 DEF WiringInv, WiringRest, WiringTypeOK, AKnownRow, Distinct
<1> QED  BY <1>1, WiringBegins, WiringGoesOn, WiringRestBegins, WiringRestGoesOn, PTL DEF WiringSpec

-----------------------------------------------------------------------------
(* RowBackfills *)

(* Lists of any values *)

ListOf(s) == \E n \in Nat : s = [i \in 1 .. n |-> s[i]]

LEMMA ListFacts ==
    ASSUME NEW s, ListOf(s)
    PROVE  /\ Len(s) \in Nat /\ DOMAIN s = 1 .. Len(s) /\ s \in Seq({s[i] : i \in DOMAIN s})
<1>1. PICK n \in Nat : s = [i \in 1 .. n |-> s[i]]
  BY DEF ListOf
<1>2. DOMAIN s = 1 .. n
  BY <1>1
<1> DEFINE T == {s[i] : i \in DOMAIN s}
<1>3. \A i \in 1 .. n : s[i] \in T
  BY <1>2
<1> HIDE DEF T
<1>4. s \in [1 .. n -> T]
  BY <1>1, <1>3
<1>5. s \in Seq(T)
  BY <1>4, SeqDef
<1>6. Len(s) \in Nat /\ DOMAIN s = 1 .. Len(s)
  BY <1>5
<1> QED  BY <1>5, <1>6 DEF T

LEMMA ListAppended ==
    ASSUME NEW s, ListOf(s), NEW x
    PROVE  LET t == Append(s, x)
           IN  /\ ListOf(t) /\ DOMAIN t = DOMAIN s \cup {Len(s) + 1} /\ t[Len(s) + 1] = x
               /\ \A i \in DOMAIN s : t[i] = s[i]
<1>1. PICK T : s \in Seq(T)
  BY ListFacts
<1>2. s \in Seq(T \cup {x}) /\ x \in T \cup {x}
  BY <1>1
<1> DEFINE t == Append(s, x)
<1>3. /\ t \in Seq(T \cup {x}) /\ Len(t) = Len(s) + 1 /\ Len(s) \in Nat
      /\ DOMAIN t = DOMAIN s \cup {Len(s) + 1} /\ t[Len(s) + 1] = x /\ \A i \in DOMAIN s : t[i] = s[i]
  BY <1>2
<1> HIDE DEF t
<1>4. t = [i \in 1 .. Len(t) |-> t[i]]
  BY <1>3
<1>5. ListOf(t)
  BY <1>3, <1>4 DEF ListOf
<1> QED  BY <1>3, <1>5 DEF t

LEMMA ListChanged ==
    ASSUME NEW s, ListOf(s), NEW t, DOMAIN t = DOMAIN s, t = [i \in DOMAIN t |-> t[i]]
    PROVE  ListOf(t)
BY DEF ListOf

-----------------------------------------------------------------------------
(* What the looks back keep *)

RowFields == {"label", "unit", "heart", "says", "bucket", "recorded"}
MatterFields == {"up", "file", "pull", "tip", "session"}

RowsCounted ==
    /\ ListOf(issued) /\ ListOf(matters) /\ ListOf(proposed)
    /\ 1 \in RowsIssued /\ DOMAIN matters = RowsIssued /\ DOMAIN proposed = RowsIssued
    /\ \A r \in RowsIssued : /\ DOMAIN issued[r] = RowFields /\ DOMAIN matters[r] = MatterFields
                             /\ matters[r].pull \in Requests /\ proposed[r] \in Nat
    /\ DOMAIN happenings = {"events", "triages"} /\ happenings.triages \in Nat

\* A verdict's row was down, and a row that is called complete is; what has been filled
\* neither is to be filled nor would be listed.
FillerSound ==
    /\ DOMAIN filler = {"at", "todo", "docs", "verdict"}
    /\ filler.todo \subseteq RowsIssued /\ filled \subseteq RowsIssued
    /\ filler.at = "writing" =>
           /\ filler.verdict[1] \in RowsIssued \cap sinceList.idle
           /\ filler.verdict[2] = "completed" => matters[filler.verdict[1]].pull = "merged"
    /\ filler.at = "external" => \A r \in filler.todo : matters[r].session = "COMPLETE"
    /\ filler.todo \cap filled = {}
    /\ \A r \in filled : ~Unbeaten(r)

JudgedWell(r) ==
    /\ triage.judged[r].bucket = "superseded" => \E s \in RowsIssued : s > r
    /\ triage.judged[r].bucket = "retryable" => r \in sinceList.alone
    /\ triage.judged[r].words \cap Blockers # {} => triage.judged[r].bucket = "blocked"

\* Nobody has been asked about a row in this run before its proposal is filed.
TriageSound ==
    /\ DOMAIN triage = {"at", "todo", "judged"} /\ triage.at \in {"idle", "judging", "proposing"}
    /\ triage.todo \subseteq RowsIssued
    /\ triage.at = "idle" => DOMAIN triage.judged = {}
    /\ DOMAIN triage.judged \subseteq RowsIssued /\ \A r \in DOMAIN triage.judged : JudgedWell(r)
    /\ triage.at # "idle" => happenings.triages > 0
    /\ triage.at = "judging" => \A r \in RowsIssued : proposed[r] < happenings.triages
    /\ triage.at = "proposing" => \A r \in triage.todo : proposed[r] < happenings.triages
    /\ \A r \in RowsIssued : proposed[r] <= happenings.triages

BackInv == RowsCounted /\ FillerSound /\ TriageSound

LEMMA BackBegins == BackfillInit => BackInv
<1> SUFFICES ASSUME BackfillInit PROVE BackInv
  OBVIOUS
<1>1. PICK w, row :
          /\ w \in Beginnings /\ matters = <<w>> /\ issued = <<row>> /\ DOMAIN row = RowFields
  <2>0. PICK w \in Beginnings, words \in Reasons, label \in {"running", "failed"} :
            /\ matters = <<w>>
            /\ issued = <<[Issue(w.session = "none") EXCEPT
                               !.label = label, !.says = IF label = "failed" THEN words ELSE {}]>>
    BY Zenon DEF BackfillInit
  <2>1. PICK said, u :
            matters = <<w>> /\ issued = <<[[Issue(u) EXCEPT !.label = label] EXCEPT !.says = said]>>
    BY <2>0, Zenon
  <2>2. DOMAIN Issue(u) = RowFields
    BY DEF Issue, RowFields
  <2>3. DOMAIN [[Issue(u) EXCEPT !.label = label] EXCEPT !.says = said] = RowFields
    BY <2>2
  <2> QED  BY <2>1, <2>3
<1>2. DOMAIN w = MatterFields /\ w.pull \in Requests
  BY <1>1, BackfillAssumption DEF Matter, MatterFields
<1>3. /\ RowsIssued = {1} /\ DOMAIN matters = {1} /\ issued[1] = row /\ matters[1] = w
      /\ issued = [i \in 1 .. 1 |-> issued[i]] /\ matters = [i \in 1 .. 1 |-> matters[i]]
  BY <1>1 DEF RowsIssued
<1>4. proposed = [i \in 1 .. 1 |-> proposed[i]] /\ DOMAIN proposed = {1} /\ proposed[1] = 0
  BY DEF BackfillInit
<1>5. ListOf(issued) /\ ListOf(matters) /\ ListOf(proposed)
  BY <1>3, <1>4 DEF ListOf
<1>6. DOMAIN happenings = {"events", "triages"} /\ happenings.triages = 0
  BY DEF BackfillInit
<1>7. RowsCounted
  BY <1>1, <1>2, <1>3, <1>4, <1>5, <1>6 DEF RowsCounted
<1>8. FillerSound
  BY DEF BackfillInit, FillerSound, FillerIdle
<1>9. TriageSound
  BY <1>3, <1>4, <1>6 DEF BackfillInit, TriageSound, TriageIdle
<1> QED  BY <1>7, <1>8, <1>9 DEF BackInv

-----------------------------------------------------------------------------
(* What a step leaves alone *)

\* The rows and matters stay, or one is changed.
LEMMA RowsStay ==
    ASSUME RowsCounted, UNCHANGED <<issued, matters, proposed>>,
           DOMAIN happenings' = {"events", "triages"}, happenings'.triages \in Nat
    PROVE  RowsCounted'
BY DEF RowsCounted, RowsIssued

LEMMA RowChanges ==
    ASSUME RowsCounted, NEW r \in RowsIssued, NEW x, DOMAIN x = RowFields,
           issued' = [issued EXCEPT ![r] = x], UNCHANGED <<matters, proposed>>,
           DOMAIN happenings' = {"events", "triages"}, happenings'.triages \in Nat
    PROVE  /\ RowsCounted' /\ RowsIssued' = RowsIssued /\ issued'[r] = x
           /\ \A s \in RowsIssued : s # r => issued'[s] = issued[s]
<1>1. /\ DOMAIN issued' = RowsIssued /\ issued'[r] = x /\ issued' = [i \in DOMAIN issued' |-> issued'[i]]
      /\ \A s \in RowsIssued : s # r => issued'[s] = issued[s]
  BY DEF RowsCounted, RowsIssued
<1>2. ListOf(issued')
  BY <1>1, ListChanged DEF RowsCounted, RowsIssued
<1>3. RowsIssued' = RowsIssued
  BY <1>1 DEF RowsIssued
<1> QED  BY <1>1, <1>2, <1>3 DEF RowsCounted

LEMMA SinceGrows ==
    ASSUME Moments
    PROVE  /\ IdleNow' \subseteq sinceList'.idle /\ AloneNow' \subseteq sinceList'.alone
           /\ filler.at # "idle" => sinceList.idle \subseteq sinceList'.idle
           /\ triage.at # "idle" => sinceList.alone \subseteq sinceList'.alone
<1> DEFINE i == IF filler.at = "idle" THEN {} ELSE sinceList.idle
           a == IF triage.at = "idle" THEN {} ELSE sinceList.alone
<1>1. sinceList'.idle = IdleNow' \cup i /\ sinceList'.alone = AloneNow' \cup a
  BY DEF Moments
<1> QED  BY <1>1

LEMMA FillerStays ==
    ASSUME BackInv, Moments, filler' = filler, RowsIssued \subseteq RowsIssued', filled' \subseteq filled,
           \A r \in filled' : ~Unbeaten(r)',
           \A r \in RowsIssued : /\ matters[r].pull = "merged" => matters'[r].pull = "merged"
                                 /\ matters[r].session = "COMPLETE" => matters'[r].session = "COMPLETE"
    PROVE  FillerSound'
<1>1. FillerSound
  BY DEF BackInv
<1>2. ASSUME filler.at = "writing"
      PROVE  /\ filler.verdict[1] \in RowsIssued' \cap sinceList'.idle
             /\ filler.verdict[2] = "completed" => matters'[filler.verdict[1]].pull = "merged"
  BY <1>1, <1>2, SinceGrows DEF FillerSound
<1>3. filler.at = "external" => \A r \in filler.todo : matters'[r].session = "COMPLETE"
  BY <1>1 DEF FillerSound
<1> QED  BY <1>1, <1>2, <1>3 DEF FillerSound

LEMMA TriageStays ==
    ASSUME BackInv, Moments, triage' = triage, RowsIssued \subseteq RowsIssued',
           happenings'.triages = happenings.triages,
           \A r \in RowsIssued : proposed'[r] = proposed[r],
           \A r \in RowsIssued' \ RowsIssued : proposed'[r] = 0
    PROVE  TriageSound'
<1>1. TriageSound /\ happenings.triages \in Nat
  BY DEF BackInv, RowsCounted
<1>2. ASSUME NEW r \in DOMAIN triage.judged PROVE JudgedWell(r)'
  <2>1. JudgedWell(r) /\ triage.at # "idle"
    BY <1>1, <1>2 DEF TriageSound
  <2>2. r \in sinceList.alone => r \in sinceList'.alone
    BY <2>1, SinceGrows
  <2> QED  BY <2>1, <2>2 DEF JudgedWell
<1> QED  BY <1>1, <1>2 DEF TriageSound

-----------------------------------------------------------------------------
(* The backfill's steps *)

LEMMA MergedOrNot ==
    ASSUME RowsCounted, NEW r \in RowsIssued, NEW doc, "completed" \in ForwardProgress(r, doc)
    PROVE  matters[r].pull = "merged"
<1> DEFINE Of(answer) == CASE answer = "merged" -> "completed" [] answer = "open" -> "running"
                         [] answer \in {"unknown", "none", "closed"} -> "failed"
<1>1. CASE doc.cites /\ doc.status # "ended"
  <2>1. ForwardProgress(r, doc) = {Of(answer) : answer \in PullTold(r)}
    BY <1>1 DEF ForwardProgress
  <2>2. PICK answer \in PullTold(r) : Of(answer) = "completed"
    BY <2>1
  <2>3. answer = "unknown" \/ answer = matters[r].pull
    BY DEF PullTold
  <2>4. answer # "unknown"
    BY <2>2
  <2>5. answer = matters[r].pull
    BY <2>3, <2>4
  <2>6. answer = "merged"
    BY <2>2, <2>5 DEF RowsCounted, Requests
  <2> QED  BY <2>5, <2>6
<1>2. CASE ~(doc.cites /\ doc.status # "ended")
  BY <1>2 DEF ForwardProgress
<1> QED  BY <1>1, <1>2

LEMMA FillerKeeps ==
    ASSUME BackInv, Moments,
           FillerLists \/ ReadsDocs \/ ChecksUnit \/ ListsSessions \/ FillerKilled
    PROVE  BackInv'
<1>0. /\ RowsCounted /\ FillerSound /\ TriageSound
      /\ UNCHANGED <<issued, matters, triage, proposed, filled, happenings>>
  BY DEF BackInv, FillerLists, ReadsDocs, ChecksUnit, ListsSessions, FillerKilled
<1>1. RowsCounted'
  BY <1>0 DEF RowsCounted, RowsIssued
<1>2. RowsIssued' = RowsIssued /\ IdleNow' = IdleNow /\ \A r \in RowsIssued : Unbeaten(r)' <=> Unbeaten(r)
  BY <1>0 DEF RowsIssued, IdleNow, Unbeaten
<1>3. TriageSound'
  BY <1>0, <1>2, TriageStays
<1>4. FillerSound'
  <2>1. ASSUME filler' = FillerIdle PROVE FillerSound'
    BY <1>0, <1>2, <2>1 DEF FillerSound, FillerIdle
  <2>2. CASE FillerLists
    <3>1. filler' = [FillerIdle EXCEPT !.at = "docs", !.todo = {r \in RowsIssued : Unbeaten(r)}]
      BY <2>2 DEF FillerLists
    <3>2. DOMAIN filler' = {"at", "todo", "docs", "verdict"} /\ filler'.at = "docs"
          /\ filler'.todo = {r \in RowsIssued : Unbeaten(r)}
      BY <3>1 DEF FillerIdle
    <3> QED  BY <1>0, <1>2, <3>2 DEF FillerSound
  <2>3. CASE ReadsDocs
    <3>1. PICK docs : filler' = [filler EXCEPT !.at = "units", !.docs = docs]
      BY <2>3 DEF ReadsDocs
    <3>2. DOMAIN filler' = {"at", "todo", "docs", "verdict"} /\ filler'.at = "units" /\ filler'.todo = filler.todo
      BY <1>0, <3>1 DEF FillerSound
    <3> QED  BY <1>0, <1>2, <3>2 DEF FillerSound
  <2>4. CASE ChecksUnit
    <3>1. PICK r \in UnitsLeft :
              IF matters[r].up
              THEN filler' = [filler EXCEPT !.todo = @ \ {r}]
              ELSE \E v \in ForwardProgress(r, filler.docs[r]) :
                      filler' = [filler EXCEPT !.at = "writing", !.verdict = <<r, v>>]
      BY <2>4 DEF ChecksUnit
    <3>2. filler.at = "units"
      BY <2>4 DEF ChecksUnit
    <3>3. CASE matters[r].up
      <4>1. DOMAIN filler' = {"at", "todo", "docs", "verdict"} /\ filler'.at = "units"
            /\ filler'.todo = filler.todo \ {r}
        BY <1>0, <3>1, <3>2, <3>3 DEF FillerSound
      <4> QED  BY <1>0, <1>2, <4>1 DEF FillerSound
    <3>4. CASE ~matters[r].up
      <4>1. PICK v \in ForwardProgress(r, filler.docs[r]) :
                filler' = [filler EXCEPT !.at = "writing", !.verdict = <<r, v>>]
        BY <3>1, <3>4
      <4>2. v = "completed" => matters[r].pull = "merged"
        BY <1>0, <4>1, MergedOrNot DEF UnitsLeft, FillerSound
      <4>3. /\ DOMAIN filler' = {"at", "todo", "docs", "verdict"} /\ filler'.at = "writing"
            /\ filler'.todo = filler.todo /\ filler'.verdict[1] = r /\ filler'.verdict[2] = v
        BY <1>0, <4>1 DEF FillerSound
      <4>4. r \in RowsIssued /\ r \in IdleNow
        BY <1>0, <3>4 DEF UnitsLeft, FillerSound, IdleNow
      <4>5. r \in sinceList'.idle
        BY <1>2, <4>4, SinceGrows
      <4> QED  BY <1>0, <1>2, <4>2, <4>3, <4>4, <4>5 DEF FillerSound
    <3> QED  BY <3>3, <3>4
  <2>5. CASE ListsSessions
    <3>1. PICK answer \in BOOLEAN :
              filler' = [filler EXCEPT !.at = "external",
                             !.todo = {r \in filler.todo : answer /\ matters[r].session = "COMPLETE"}]
      BY <2>5 DEF ListsSessions
    <3>2. PICK todo : /\ todo = {r \in filler.todo : answer /\ matters[r].session = "COMPLETE"}
                      /\ filler' = [filler EXCEPT !.at = "external", !.todo = todo]
      BY <3>1, Zenon
    <3>3. todo \subseteq filler.todo /\ \A r \in todo : matters[r].session = "COMPLETE"
      BY <3>2
    <3>4. DOMAIN filler' = {"at", "todo", "docs", "verdict"} /\ filler'.at = "external" /\ filler'.todo = todo
      BY <1>0, <3>2 DEF FillerSound
    <3> QED  BY <1>0, <1>2, <3>3, <3>4 DEF FillerSound
  <2>6. CASE FillerKilled
    BY <2>1, <2>6 DEF FillerKilled
  <2> QED  BY <2>2, <2>3, <2>4, <2>5, <2>6
<1> QED  BY <1>1, <1>3, <1>4 DEF BackInv

\* A row that has been relabelled would not be listed.
LEMMA Relabelled ==
    ASSUME RowsCounted, NEW r \in RowsIssued, NEW v, NEW words, Relabels(r, v, words),
           UNCHANGED <<matters, proposed, happenings>>
    PROVE  /\ RowsCounted' /\ RowsIssued' = RowsIssued /\ ~Unbeaten(r)'
           /\ \A s \in RowsIssued : s # r => (Unbeaten(s)' <=> Unbeaten(s))
<1>1. issued' = [issued EXCEPT ![r].label = v, ![r].heart = issued[r].heart \/ v = "running", ![r].says = words]
  BY DEF Relabels
<1> DEFINE one == [issued[r] EXCEPT !.label = v]
           two == [one EXCEPT !.heart = issued[r].heart \/ v = "running"]
           x == [two EXCEPT !.says = words]
<1>2. DOMAIN issued[r] = RowFields
  BY DEF RowsCounted
<1>3. issued' = [issued EXCEPT ![r] = x]
  BY <1>1, Zenon DEF RowsIssued
<1>4. DOMAIN x = RowFields /\ x.label = v /\ (v = "running" => x.heart)
  <2>1. DOMAIN one = RowFields /\ one.label = v
    BY <1>2 DEF RowFields
  <2> HIDE DEF one
  <2>2. DOMAIN two = RowFields /\ two.label = v /\ (v = "running" => two.heart)
    BY <2>1 DEF RowFields
  <2> HIDE DEF two
  <2> QED  BY <2>2 DEF RowFields
<1> HIDE DEF x
<1>5. /\ RowsCounted' /\ RowsIssued' = RowsIssued /\ issued'[r] = x
      /\ \A s \in RowsIssued : s # r => issued'[s] = issued[s]
  BY <1>3, <1>4, RowChanges DEF RowsCounted
<1> QED  BY <1>4, <1>5 DEF Unbeaten
LEMMA FilledKeeps == ASSUME BackInv, Moments, WritesVerdict \/ EndsExternal PROVE BackInv'
<1>0. /\ RowsCounted /\ FillerSound /\ TriageSound
      /\ UNCHANGED <<matters, triage, proposed, happenings>>
  BY DEF BackInv, WritesVerdict, EndsExternal
<1>1. ASSUME NEW r \in RowsIssued, NEW v, NEW words, Relabels(r, v, words), filled' = filled \cup {r},
             DOMAIN filler' = {"at", "todo", "docs", "verdict"}, filler'.todo = filler.todo \ {r},
             filler'.at # "writing", filler'.at = "external" => filler.at = "external"
      PROVE  BackInv'
  <2>1. /\ RowsCounted' /\ RowsIssued' = RowsIssued /\ ~Unbeaten(r)'
        /\ \A s \in RowsIssued : s # r => (Unbeaten(s)' <=> Unbeaten(s))
    BY <1>0, <1>1, Relabelled
  <2>2. FillerSound'
    BY <1>0, <1>1, <2>1 DEF FillerSound
  <2>3. TriageSound'
    BY <1>0, <2>1, TriageStays
  <2> QED  BY <2>1, <2>2, <2>3 DEF BackInv
<1>2. CASE WritesVerdict
  <2>1. PICK r, v, words :
            /\ r = filler.verdict[1] /\ Relabels(r, v, words) /\ filled' = filled \cup {r}
            /\ filler' = [filler EXCEPT !.at = "units", !.todo = @ \ {r}, !.verdict = "none"]
    BY <1>2 DEF WritesVerdict
  <2>2. r \in RowsIssued
    BY <1>0, <1>2, <2>1 DEF FillerSound, WritesVerdict
  <2>3. /\ DOMAIN filler' = {"at", "todo", "docs", "verdict"} /\ filler'.todo = filler.todo \ {r}
        /\ filler'.at = "units"
    BY <1>0, <2>1 DEF FillerSound
  <2> QED  BY <1>1, <2>1, <2>2, <2>3
<1>3. ASSUME NEW r \in filler.todo, Relabels(r, "completed", {}), filled' = filled \cup {r},
             filler' = [filler EXCEPT !.todo = @ \ {r}], filler.at = "external"
      PROVE  BackInv'
  <2>1. /\ DOMAIN filler' = {"at", "todo", "docs", "verdict"} /\ filler'.todo = filler.todo \ {r}
        /\ filler'.at = "external"
    BY <1>0, <1>3 DEF FillerSound
  <2> QED  BY <1>0, <1>1, <1>3, <2>1 DEF FillerSound
<1>4. ASSUME filler' = FillerIdle, UNCHANGED <<issued, filled>> PROVE BackInv'
  <2>1. RowsCounted' /\ RowsIssued' = RowsIssued /\ \A r \in RowsIssued : Unbeaten(r)' <=> Unbeaten(r)
    BY <1>0, <1>4 DEF RowsCounted, RowsIssued, Unbeaten
  <2>2. FillerSound'
    BY <1>0, <1>4, <2>1 DEF FillerSound, FillerIdle
  <2>3. TriageSound'
    BY <1>0, <2>1, TriageStays
  <2> QED  BY <2>1, <2>2, <2>3 DEF BackInv
<1> QED  BY <1>2, <1>3, <1>4 DEF EndsExternal

-----------------------------------------------------------------------------
(* The triage's steps *)

LEMMA BucketOnEvidence ==
    ASSUME NEW r \in RowsIssued, NEW answer, NEW onMain
    PROVE  LET b == BucketOf(r, answer, onMain)
           IN  /\ b.bucket = "superseded" => Superseded(r)
               /\ b.bucket = "retryable" => ~Superseded(r)
               /\ b.words \cap Blockers # {} => b.bucket = "blocked"
<1> DEFINE text == EvidenceText(r)
           b == BucketOf(r, answer, onMain)
<1>1. CASE ("commit" \in text \/ answer = "merged") /\ onMain
  <2>1. b = [bucket |-> "already_done", words |-> {}]
    BY <1>1 DEF BucketOf
  <2> QED  BY <2>1
<1>2. CASE ~(("commit" \in text \/ answer = "merged") /\ onMain) /\ Superseded(r)
  <2>1. b = [bucket |-> "superseded", words |-> {}]
    BY <1>2 DEF BucketOf
  <2> QED  BY <1>2, <2>1
<1>3. CASE ~(("commit" \in text \/ answer = "merged") /\ onMain) /\ ~Superseded(r) /\ Blocked(r, answer)
  <2>1. PICK words : b = [bucket |-> "blocked", words |-> words]
    BY <1>3 DEF BucketOf
  <2> QED  BY <2>1
<1>4. CASE /\ ~(("commit" \in text \/ answer = "merged") /\ onMain) /\ ~Superseded(r) /\ ~Blocked(r, answer)
           /\ text \cap Mechanical # {}
  <2>1. PICK words \in {{"conflict"}, {"gate"}} : b = [bucket |-> "retryable", words |-> words]
    BY <1>4 DEF BucketOf
  <2>2. words \cap Blockers = {}
    BY DEF Blockers
  <2> QED  BY <1>4, <2>1, <2>2
<1>5. CASE /\ ~(("commit" \in text \/ answer = "merged") /\ onMain) /\ ~Superseded(r) /\ ~Blocked(r, answer)
           /\ text \cap Mechanical = {}
  <2>1. PICK bucket \in {"retryable", "blocked"} : b = [bucket |-> bucket, words |-> {}]
    BY <1>5 DEF BucketOf
  <2> QED  BY <1>5, <2>1
<1> QED  BY <1>1, <1>2, <1>3, <1>4, <1>5

LEMMA TriageKeeps ==
    ASSUME BackInv, Moments, TriageLists \/ JudgesRow \/ TriageKilled PROVE BackInv'
<1>0. /\ RowsCounted /\ FillerSound /\ TriageSound /\ UNCHANGED <<issued, matters, filler, proposed, filled>>
  BY DEF BackInv, TriageLists, JudgesRow, TriageKilled
<1>1. /\ RowsIssued' = RowsIssued /\ AloneNow' = AloneNow
      /\ \A r \in RowsIssued : Unbeaten(r)' <=> Unbeaten(r)
  BY <1>0 DEF RowsIssued, Unbeaten, AloneNow, Superseded
<1>2. FillerSound'
  BY <1>0, <1>1, FillerStays DEF FillerSound
<1>3. CASE TriageLists
  <2>1. /\ triage' = [at |-> "judging", judged |-> <<>>, todo |-> {r \in RowsIssued : issued[r].label = "failed"}]
        /\ happenings' = [happenings EXCEPT !.triages = @ + 1]
    BY <1>3 DEF TriageLists
  <2>2. DOMAIN happenings' = {"events", "triages"} /\ happenings'.triages = happenings.triages + 1
    BY <1>0, <2>1 DEF RowsCounted
  <2>3. RowsCounted'
    BY <1>0, <1>1, <2>2 DEF RowsCounted
  <2>4. /\ DOMAIN triage' = {"at", "todo", "judged"} /\ triage'.at = "judging" /\ DOMAIN triage'.judged = {}
        /\ triage'.todo \subseteq RowsIssued
    BY <2>1
  <2>5. \A r \in RowsIssued : proposed[r] <= happenings.triages /\ proposed[r] \in Nat
    BY <1>0 DEF TriageSound, RowsCounted
  <2>6. happenings.triages \in Nat
    BY <1>0 DEF RowsCounted
  <2>7. \A r \in RowsIssued : proposed'[r] < happenings'.triages /\ proposed'[r] <= happenings'.triages
    BY <1>0, <2>2, <2>5, <2>6
  <2>8. TriageSound'
    BY <1>1, <2>2, <2>4, <2>6, <2>7 DEF TriageSound
  <2> QED  BY <1>2, <2>3, <2>8 DEF BackInv
<1>4. CASE JudgesRow
  <2>1. PICK r \in triage.todo, onMain \in BOOLEAN : \E answer \in PullFound(r) :
            triage' = [triage EXCEPT !.todo = @ \ {r},
                           !.judged = [s \in DOMAIN @ \cup {r} |->
                                          IF s = r THEN BucketOf(r, answer, onMain) ELSE @[s]]]
    BY <1>4 DEF JudgesRow
  <2>2. PICK answer, judged :
            /\ answer \in PullFound(r)
            /\ judged = [s \in DOMAIN triage.judged \cup {r} |->
                            IF s = r THEN BucketOf(r, answer, onMain) ELSE triage.judged[s]]
            /\ triage' = [triage EXCEPT !.todo = @ \ {r}, !.judged = judged]
    BY <2>1, Zenon
  <2>3. /\ DOMAIN judged = DOMAIN triage.judged \cup {r} /\ judged[r] = BucketOf(r, answer, onMain)
        /\ \A s \in DOMAIN triage.judged : s # r => judged[s] = triage.judged[s]
    BY <2>2
  <2>4. triage.at = "judging" /\ happenings' = happenings /\ r \in RowsIssued
    BY <1>0, <1>4 DEF JudgesRow, TriageSound
  <2>5. /\ DOMAIN triage' = {"at", "todo", "judged"} /\ triage'.at = "judging"
        /\ triage'.todo = triage.todo \ {r} /\ triage'.judged = judged
    BY <1>0, <2>2, <2>4 DEF TriageSound
  <2>6. JudgedWell(r)'
    <3> DEFINE b == BucketOf(r, answer, onMain)
    <3>1. triage'.judged[r] = b
      BY <2>3, <2>5
    <3> HIDE DEF b
    <3>3. Superseded(r) => \E s \in RowsIssued : s > r
      BY DEF Superseded
    <3>4. ~Superseded(r) => r \in sinceList'.alone
      BY <1>1, <2>4, SinceGrows DEF AloneNow
    <3>5. b.bucket = "superseded" => Superseded(r)
      BY <2>4, BucketOnEvidence DEF b
    <3>6. b.bucket = "retryable" => ~Superseded(r)
      BY <2>4, BucketOnEvidence DEF b
    <3>7. b.words \cap Blockers # {} => b.bucket = "blocked"
      BY <2>4, BucketOnEvidence DEF b
    <3> QED  BY <1>1, <3>1, <3>3, <3>4, <3>5, <3>6, <3>7 DEF JudgedWell
  <2>7. ASSUME NEW s \in DOMAIN judged PROVE JudgedWell(s)'
    <3>1. CASE s = r
      BY <2>6, <3>1
    <3>2. CASE s # r
      <4>1. triage'.judged[s] = triage.judged[s] /\ JudgedWell(s)
        BY <1>0, <2>3, <2>5, <3>2 DEF TriageSound
      <4>2. s \in sinceList.alone => s \in sinceList'.alone
        BY <2>4, SinceGrows
      <4> QED  BY <1>1, <4>1, <4>2 DEF JudgedWell
    <3> QED  BY <3>1, <3>2
  <2>8. TriageSound'
    BY <1>0, <1>1, <2>3, <2>4, <2>5, <2>7 DEF TriageSound
  <2>9. RowsCounted'
    BY <1>0, <1>1, <2>4 DEF RowsCounted
  <2> QED  BY <1>2, <2>8, <2>9 DEF BackInv
<1>5. CASE TriageKilled
  <2>1. triage' = TriageIdle /\ happenings' = happenings
    BY <1>5 DEF TriageKilled
  <2>2. TriageSound'
    BY <1>0, <1>1, <2>1 DEF TriageSound, TriageIdle
  <2>3. RowsCounted'
    BY <1>0, <1>1, <2>1 DEF RowsCounted
  <2> QED  BY <1>2, <2>2, <2>3 DEF BackInv
<1> QED  BY <1>3, <1>4, <1>5

LEMMA AppliesKeeps == ASSUME BackInv, Moments, AppliesBuckets PROVE BackInv'
<1>0. /\ RowsCounted /\ FillerSound /\ TriageSound
      /\ UNCHANGED <<matters, filler, proposed, filled, happenings>> /\ triage.at = "judging"
  BY DEF BackInv, AppliesBuckets
<1>1. ASSUME RowsCounted', RowsIssued' = RowsIssued,
             \A r \in RowsIssued : Unbeaten(r)' <=> Unbeaten(r), TriageSound'
      PROVE  BackInv'
  BY <1>0, <1>1, FillerStays DEF FillerSound, BackInv
<1>2. CASE triage' = TriageIdle /\ UNCHANGED issued
  <2>1. RowsIssued' = RowsIssued /\ \A r \in RowsIssued : Unbeaten(r)' <=> Unbeaten(r)
    BY <1>2 DEF RowsIssued, Unbeaten
  <2>2. TriageSound'
    BY <1>0, <1>2, <2>1 DEF TriageSound, TriageIdle
  <2>3. RowsCounted'
    BY <1>0, <1>2, <2>1 DEF RowsCounted
  <2> QED  BY <1>1, <2>1, <2>2, <2>3
<1>3. ASSUME NEW judged, judged = triage.judged,
             issued' = [r \in RowsIssued |->
                    IF r \notin DOMAIN judged THEN issued[r]
                    ELSE [issued[r] EXCEPT !.bucket = judged[r].bucket, !.recorded = judged[r].words]],
             NEW todo, todo \subseteq DOMAIN judged,
             triage' = [triage EXCEPT !.at = "proposing", !.todo = todo]
      PROVE  BackInv'
  <2>1. RowsIssued' = RowsIssued /\ issued' = [i \in DOMAIN issued' |-> issued'[i]]
    BY <1>3 DEF RowsIssued
  <2>2. ASSUME NEW r \in RowsIssued
        PROVE  /\ DOMAIN issued'[r] = RowFields
               /\ issued'[r].label = issued[r].label /\ issued'[r].heart = issued[r].heart
    <3>1. DOMAIN issued[r] = RowFields
      BY <1>0 DEF RowsCounted
    <3>2. CASE r \notin DOMAIN judged
      <4>1. issued'[r] = issued[r]
        BY <1>3, <3>2
      <4> QED  BY <3>1, <4>1
    <3>3. CASE r \in DOMAIN judged
      <4>1. issued'[r] = [issued[r] EXCEPT !.bucket = judged[r].bucket, !.recorded = judged[r].words]
        BY <1>3, <3>3
      <4> QED  BY <3>1, <4>1 DEF RowFields
    <3> QED  BY <3>2, <3>3
  <2>3. ListOf(issued')
    BY <1>0, <2>1, ListChanged DEF RowsCounted, RowsIssued
  <2>4. RowsCounted'
    BY <1>0, <2>1, <2>2, <2>3 DEF RowsCounted
  <2>5. \A r \in RowsIssued : Unbeaten(r)' <=> Unbeaten(r)
    BY <2>2 DEF Unbeaten
  <2>6. /\ DOMAIN triage' = {"at", "todo", "judged"} /\ triage'.at = "proposing" /\ triage'.todo = todo
        /\ triage'.judged = triage.judged
    BY <1>0, <1>3 DEF TriageSound
  <2>7. ASSUME NEW s \in DOMAIN triage.judged PROVE JudgedWell(s)'
    <3>1. triage'.judged[s] = triage.judged[s] /\ JudgedWell(s)
      BY <1>0, <2>6 DEF TriageSound
    <3>2. s \in sinceList.alone => s \in sinceList'.alone
      BY <1>0, SinceGrows
    <3> QED  BY <2>1, <3>1, <3>2 DEF JudgedWell
  <2>8. TriageSound'
    BY <1>0, <1>3, <2>1, <2>6, <2>7 DEF TriageSound
  <2> QED  BY <1>1, <2>1, <2>4, <2>5, <2>8
<1>4. CASE triage' # TriageIdle \/ ~UNCHANGED issued
  <2>1. PICK judged : judged = triage.judged
    OBVIOUS
  <2>2. /\ issued' = [r \in RowsIssued |->
               IF r \notin DOMAIN judged THEN issued[r]
               ELSE [issued[r] EXCEPT !.bucket = judged[r].bucket, !.recorded = judged[r].words]]
        /\ \E file \in BOOLEAN :
              triage' = [triage EXCEPT !.at = "proposing", !.todo =
                  {r \in DOMAIN judged : file /\ judged[r].bucket \in {"retryable", "blocked"}}]
    BY <1>4, <2>1 DEF AppliesBuckets
  <2>3. PICK file \in BOOLEAN :
            triage' = [triage EXCEPT !.at = "proposing", !.todo =
                {r \in DOMAIN judged : file /\ judged[r].bucket \in {"retryable", "blocked"}}]
    BY <2>2
  <2> DEFINE todo == {r \in DOMAIN judged : file /\ judged[r].bucket \in {"retryable", "blocked"}}
  <2>4. todo \subseteq DOMAIN judged /\ triage' = [triage EXCEPT !.at = "proposing", !.todo = todo]
    BY <2>3
  <2> HIDE DEF todo
  <2> QED  BY <1>3, <2>1, <2>2, <2>4
<1> QED  BY <1>2, <1>4
LEMMA ProposalKeeps == ASSUME BackInv, Moments, FilesProposal PROVE BackInv'
<1>0. /\ RowsCounted /\ FillerSound /\ TriageSound
      /\ UNCHANGED <<issued, matters, filler, filled, happenings>> /\ triage.at = "proposing"
  BY DEF BackInv, FilesProposal
<1>1. /\ RowsIssued' = RowsIssued /\ \A r \in RowsIssued : Unbeaten(r)' <=> Unbeaten(r)
  BY <1>0 DEF RowsIssued, Unbeaten
<1>2. FillerSound'
  BY <1>0, <1>1, FillerStays DEF FillerSound
<1>3. CASE triage' = TriageIdle /\ UNCHANGED proposed
  <2>1. TriageSound'
    BY <1>0, <1>1, <1>3 DEF TriageSound, TriageIdle
  <2>2. RowsCounted'
    BY <1>0, <1>1, <1>3 DEF RowsCounted
  <2> QED  BY <1>2, <2>1, <2>2 DEF BackInv
<1>4. ASSUME NEW r \in triage.todo,
             proposed' \in {proposed, [proposed EXCEPT ![r] = @ + 1]},
             triage' = [triage EXCEPT !.todo = @ \ {r}]
      PROVE  BackInv'
  <2>1. r \in RowsIssued /\ proposed[r] < happenings.triages
    BY <1>0 DEF TriageSound
  <2>2. /\ DOMAIN triage' = {"at", "todo", "judged"} /\ triage'.at = "proposing"
        /\ triage'.todo = triage.todo \ {r} /\ triage'.judged = triage.judged
    BY <1>0, <1>4 DEF TriageSound
  <2>3. DOMAIN proposed = RowsIssued /\ ListOf(proposed) /\ \A s \in RowsIssued : proposed[s] \in Nat
    BY <1>0 DEF RowsCounted
  <2>4. /\ DOMAIN proposed' = RowsIssued
        /\ proposed'[r] = proposed[r] \/ proposed'[r] = proposed[r] + 1
        /\ \A s \in RowsIssued : s # r => proposed'[s] = proposed[s]
    BY <1>4, <2>1, <2>3
  <2>5. ListOf(proposed')
    <3>1. proposed = [i \in DOMAIN proposed |-> proposed[i]]
      BY <2>3 DEF ListOf
    <3>2. proposed' = [i \in DOMAIN proposed' |-> proposed'[i]]
      BY <1>4, <3>1
    <3> QED  BY <2>3, <2>4, <3>2, ListChanged
  <2>6. \A s \in RowsIssued : proposed'[s] \in Nat
    BY <2>1, <2>3, <2>4
  <2>7. RowsCounted'
    BY <1>0, <1>1, <2>4, <2>5, <2>6 DEF RowsCounted
  <2>8. ASSUME NEW s \in DOMAIN triage.judged PROVE JudgedWell(s)'
    <3>1. triage'.judged[s] = triage.judged[s] /\ JudgedWell(s)
      BY <1>0, <2>2 DEF TriageSound
    <3>2. s \in sinceList.alone => s \in sinceList'.alone
      BY <1>0, SinceGrows
    <3> QED  BY <1>1, <3>1, <3>2 DEF JudgedWell
  <2>9. happenings.triages \in Nat /\ \A s \in RowsIssued : proposed'[s] <= happenings.triages
    BY <1>0, <2>1, <2>3, <2>4 DEF TriageSound, RowsCounted
  <2>10. \A s \in triage'.todo : proposed'[s] < happenings.triages
    BY <1>0, <2>2, <2>4 DEF TriageSound
  <2>11. TriageSound'
    BY <1>0, <1>1, <2>2, <2>8, <2>9, <2>10 DEF TriageSound
  <2> QED  BY <1>2, <2>7, <2>11 DEF BackInv
<1> QED  BY <1>3, <1>4 DEF FilesProposal

-----------------------------------------------------------------------------
(* Everyone else's steps *)

LEMMA RowMovesKeeps == ASSUME BackInv, Moments, RowMoves PROVE BackInv'
<1>0. /\ RowsCounted /\ FillerSound /\ TriageSound /\ UNCHANGED <<matters, filler, triage, proposed>>
      /\ happenings' = [happenings EXCEPT !.events = @ + 1]
  BY DEF BackInv, RowMoves, Happens
<1>1. DOMAIN happenings' = {"events", "triages"} /\ happenings'.triages = happenings.triages
      /\ happenings.triages \in Nat
  BY <1>0 DEF RowsCounted
<1>2. ASSUME NEW r \in RowsIssued, NEW x, DOMAIN x = RowFields, issued' = [issued EXCEPT ![r] = x],
             filled' \subseteq filled, r \in filled' => x.label # "running"
      PROVE  BackInv'
  <2>1. /\ RowsCounted' /\ RowsIssued' = RowsIssued /\ issued'[r] = x
        /\ \A s \in RowsIssued : s # r => issued'[s] = issued[s]
    BY <1>0, <1>1, <1>2, RowChanges
  <2>2. \A s \in filled' : ~Unbeaten(s)'
    BY <1>0, <1>2, <2>1 DEF FillerSound, Unbeaten
  <2>3. FillerSound'
    BY <1>0, <1>2, <2>1, <2>2, FillerStays
  <2>4. TriageSound'
    BY <1>0, <1>1, <2>1, TriageStays
  <2> QED  BY <2>1, <2>3, <2>4 DEF BackInv
<1>3. PICK r \in RowsIssued :
          \/ /\ \E words \in Reasons, v \in {"failed", "completed"} :
                   issued' = [issued EXCEPT ![r].label = v, ![r].says = words]
             /\ UNCHANGED filled
          \/ issued' = [issued EXCEPT ![r].label = "queued"] /\ UNCHANGED filled
          \/ /\ \E h \in BOOLEAN : issued' = [issued EXCEPT ![r].label = "running", ![r].heart = h]
             /\ filled' = filled \ {r}
  BY DEF RowMoves
<1>4. DOMAIN issued[r] = RowFields
  BY <1>0 DEF RowsCounted
<1>5. ASSUME NEW words, NEW v \in {"failed", "completed"},
             issued' = [issued EXCEPT ![r].label = v, ![r].says = words], UNCHANGED filled
      PROVE  BackInv'
  <2> DEFINE one == [issued[r] EXCEPT !.label = v]
             x == [one EXCEPT !.says = words]
  <2>1. issued' = [issued EXCEPT ![r] = x]
    BY <1>5, Zenon DEF RowsIssued
  <2>2. DOMAIN x = RowFields /\ x.label = v
    BY <1>4 DEF RowFields
  <2> HIDE DEF x
  <2> QED  BY <1>2, <1>5, <2>1, <2>2
<1>6. ASSUME issued' = [issued EXCEPT ![r].label = "queued"], UNCHANGED filled PROVE BackInv'
  <2> DEFINE x == [issued[r] EXCEPT !.label = "queued"]
  <2>1. issued' = [issued EXCEPT ![r] = x]
    BY <1>6, Zenon DEF RowsIssued
  <2>2. DOMAIN x = RowFields /\ x.label = "queued"
    BY <1>4 DEF RowFields
  <2> HIDE DEF x
  <2> QED  BY <1>2, <1>6, <2>1, <2>2
<1>7. ASSUME NEW h \in BOOLEAN, issued' = [issued EXCEPT ![r].label = "running", ![r].heart = h],
             filled' = filled \ {r}
      PROVE  BackInv'
  <2> DEFINE one == [issued[r] EXCEPT !.label = "running"]
             x == [one EXCEPT !.heart = h]
  <2>1. issued' = [issued EXCEPT ![r] = x]
    BY <1>7, Zenon DEF RowsIssued
  <2>2. DOMAIN x = RowFields
    BY <1>4 DEF RowFields
  <2> HIDE DEF x
  <2> QED  BY <1>2, <1>7, <2>1, <2>2
<1> QED  BY <1>3, <1>5, <1>6, <1>7

LEMMA ResubmittedKeeps == ASSUME BackInv, Moments, SubmittedAgain PROVE BackInv'
<1>0. /\ RowsCounted /\ FillerSound /\ TriageSound /\ UNCHANGED <<filler, triage, filled>>
      /\ happenings' = [happenings EXCEPT !.events = @ + 1]
  BY DEF BackInv, SubmittedAgain, Happens
<1>1. DOMAIN happenings' = {"events", "triages"} /\ happenings'.triages = happenings.triages
      /\ happenings.triages \in Nat
  BY <1>0 DEF RowsCounted
<1>2. PICK x, w : /\ issued' = Append(issued, x) /\ x = Issue(issued[1].unit)
                  /\ matters' = Append(matters, w) /\ w = [matters[1] EXCEPT !.up = FALSE, !.file = NoFile]
                  /\ proposed' = Append(proposed, 0)
  BY Zenon DEF SubmittedAgain
<1> DEFINE n == Len(issued) + 1
<1>3. /\ DOMAIN issued = 1 .. Len(issued) /\ Len(issued) \in Nat
      /\ Len(matters) = Len(issued) /\ Len(proposed) = Len(issued)
  BY <1>0, ListFacts DEF RowsCounted, RowsIssued
<1>4. /\ ListOf(issued') /\ DOMAIN issued' = RowsIssued \cup {n} /\ issued'[n] = x
      /\ \A r \in RowsIssued : issued'[r] = issued[r]
  BY <1>0, <1>2, <1>3, ListAppended DEF RowsCounted, RowsIssued
<1>5. /\ ListOf(matters') /\ DOMAIN matters' = RowsIssued \cup {n} /\ matters'[n] = w
      /\ \A r \in RowsIssued : matters'[r] = matters[r]
  BY <1>0, <1>2, <1>3, ListAppended DEF RowsCounted
<1>6. /\ ListOf(proposed') /\ DOMAIN proposed' = RowsIssued \cup {n} /\ proposed'[n] = 0
      /\ \A r \in RowsIssued : proposed'[r] = proposed[r]
  BY <1>0, <1>2, <1>3, ListAppended DEF RowsCounted
<1>7. RowsIssued' = RowsIssued \cup {n} /\ n \notin RowsIssued
  BY <1>3, <1>4 DEF RowsIssued
<1>8. DOMAIN x = RowFields
  BY <1>2 DEF Issue, RowFields
<1>9. DOMAIN w = MatterFields /\ w.pull \in Requests
  <2>1. 1 \in RowsIssued
    BY <1>0 DEF RowsCounted
  <2> QED  BY <1>0, <1>2, <2>1 DEF RowsCounted, MatterFields
<1>10. RowsCounted'
  BY <1>0, <1>1, <1>4, <1>5, <1>6, <1>7, <1>8, <1>9, SMTT(30) DEF RowsCounted
<1>11. \A r \in filled' : ~Unbeaten(r)'
  BY <1>0, <1>4 DEF FillerSound, Unbeaten
<1>12. FillerSound'
  BY <1>0, <1>5, <1>7, <1>11, FillerStays
<1>13. TriageSound'
  BY <1>0, <1>1, <1>6, <1>7, TriageStays
<1> QED  BY <1>10, <1>12, <1>13 DEF BackInv

LEMMA WorkMovesKeeps == ASSUME BackInv, Moments, WorkMoves PROVE BackInv'
<1>0. /\ RowsCounted /\ FillerSound /\ TriageSound /\ UNCHANGED <<issued, filler, triage, proposed, filled>>
      /\ happenings' = [happenings EXCEPT !.events = @ + 1]
  BY DEF BackInv, WorkMoves, Happens
<1>1. DOMAIN happenings' = {"events", "triages"} /\ happenings'.triages = happenings.triages
      /\ happenings.triages \in Nat
  BY <1>0 DEF RowsCounted
<1>2. PICK r \in RowsIssued :
          \/ matters' = [matters EXCEPT ![r] = [matters[r] EXCEPT !.up = ~@]]
          \/ \E f \in FilesOf \ {NoFile} : matters' = [matters EXCEPT ![r] = [matters[r] EXCEPT !.file = f]]
          \/ /\ matters[r].pull \in {"none", "open"}
             /\ \E p \in IF matters[r].pull = "none" THEN {"open"} ELSE {"merged", "closed"} :
                   matters' = [matters EXCEPT ![r] = [matters[r] EXCEPT !.pull = p]]
          \/ matters' = [matters EXCEPT ![r] = [matters[r] EXCEPT !.tip = "new"]]
          \/ matters' = [matters EXCEPT ![r] = [matters[r] EXCEPT !.session = "COMPLETE"]]
  BY Zenon DEF WorkMoves
<1> DEFINE Moved(x) ==
               \/ \E b : x = [matters[r] EXCEPT !.up = b]
               \/ \E f : x = [matters[r] EXCEPT !.file = f]
               \/ /\ matters[r].pull \in {"none", "open"}
                  /\ \E p \in {"open", "merged", "closed"} : x = [matters[r] EXCEPT !.pull = p]
               \/ x = [matters[r] EXCEPT !.tip = "new"]
               \/ x = [matters[r] EXCEPT !.session = "COMPLETE"]
<1>11. PICK x : matters' = [matters EXCEPT ![r] = x] /\ Moved(x)
  <2>1. CASE matters' = [matters EXCEPT ![r] = [matters[r] EXCEPT !.up = ~@]]
    BY <2>1, Zenon
  <2>2. CASE \E f \in FilesOf \ {NoFile} : matters' = [matters EXCEPT ![r] = [matters[r] EXCEPT !.file = f]]
    BY <2>2, Zenon
  <2>3. CASE /\ matters[r].pull \in {"none", "open"}
             /\ \E p \in IF matters[r].pull = "none" THEN {"open"} ELSE {"merged", "closed"} :
                   matters' = [matters EXCEPT ![r] = [matters[r] EXCEPT !.pull = p]]
    <3>1. PICK p \in {"open", "merged", "closed"} :
              matters' = [matters EXCEPT ![r] = [matters[r] EXCEPT !.pull = p]]
      BY <2>3
    <3> QED  BY <2>3, <3>1, Zenon
  <2>4. CASE matters' = [matters EXCEPT ![r] = [matters[r] EXCEPT !.tip = "new"]]
    BY <2>4, Zenon
  <2>5. CASE matters' = [matters EXCEPT ![r] = [matters[r] EXCEPT !.session = "COMPLETE"]]
    BY <2>5, Zenon
  <2> QED  BY <1>2, <2>1, <2>2, <2>3, <2>4, <2>5
<1>3. DOMAIN matters[r] = MatterFields /\ matters[r].pull \in Requests
  BY <1>0 DEF RowsCounted
<1>4. /\ DOMAIN x = MatterFields /\ x.pull \in Requests
      /\ matters[r].pull = "merged" => x.pull = "merged"
      /\ matters[r].session = "COMPLETE" => x.session = "COMPLETE"
  BY <1>11, <1>3 DEF MatterFields, Requests
<1>5. /\ DOMAIN matters' = RowsIssued /\ matters'[r] = x
      /\ \A s \in RowsIssued : s # r => matters'[s] = matters[s]
  BY <1>0, <1>11 DEF RowsCounted
<1>6. ListOf(matters')
  <2>1. matters' = [i \in DOMAIN matters' |-> matters'[i]]
    BY <1>11
  <2> QED  BY <1>0, <1>5, <2>1, ListChanged DEF RowsCounted
<1>7. RowsIssued' = RowsIssued /\ \A s \in RowsIssued : Unbeaten(s)' <=> Unbeaten(s)
  BY <1>0 DEF RowsIssued, Unbeaten
<1>8. RowsCounted'
  BY <1>0, <1>1, <1>4, <1>5, <1>6, <1>7 DEF RowsCounted
<1>9. FillerSound'
  <2>1. \A s \in filled' : ~Unbeaten(s)'
    BY <1>0, <1>7 DEF FillerSound
  <2>2. \A s \in RowsIssued : /\ matters[s].pull = "merged" => matters'[s].pull = "merged"
                              /\ matters[s].session = "COMPLETE" => matters'[s].session = "COMPLETE"
    BY <1>4, <1>5
  <2> QED  BY <1>0, <1>7, <2>1, <2>2, FillerStays
<1>10. TriageSound'
  BY <1>0, <1>1, <1>7, TriageStays
<1> QED  BY <1>8, <1>9, <1>10 DEF BackInv

LEMMA BackGoesOn == BackInv /\ [BackfillNext]_backvars => BackInv'
<1> SUFFICES ASSUME BackInv, [BackfillNext]_backvars PROVE BackInv'
  OBVIOUS
<1>1. CASE UNCHANGED backvars
  BY <1>1 DEF backvars, BackInv, RowsCounted, FillerSound, TriageSound, JudgedWell, RowsIssued, Unbeaten
<1>2. CASE BackfillNext
  BY <1>2, FillerKeeps, FilledKeeps, TriageKeeps, AppliesKeeps, ProposalKeeps, RowMovesKeeps,
     ResubmittedKeeps, WorkMovesKeeps DEF BackfillNext
<1> QED  BY <1>1, <1>2

\* However the backfill and the triage run over rows that others move meanwhile: a row is ended
\* on evidence only and not twice, and a bucket has what it says behind it, with one proposal
\* per row and run (backfill_null_heartbeats, classify, apply_classification, file_proposal).
THEOREM RowsAreJudged == BackfillSpec => []RowsJudged
<1>1. BackInv => RowsJudged
  BY DEF BackInv, FillerSound, TriageSound, JudgedWell, RowsJudged, FilledOnEvidence, TriagedOnEvidence
<1> QED  BY <1>1, BackBegins, BackGoesOn, PTL DEF BackfillSpec

\* A row, and the rows and matters in full.
ARow == [label : {"queued", "running", "completed", "failed"}, unit : BOOLEAN, heart : BOOLEAN,
         says : SUBSET Words, bucket : Buckets \cup {"none"}, recorded : SUBSET Words]

RowsWell == \A r \in RowsIssued : issued[r] \in ARow
MattersWell == \A r \in RowsIssued : matters[r] \in Matter
VerdictWell ==
    /\ filler.at \in {"idle", "docs", "units", "writing", "sessions", "external"}
    /\ filler.at = "writing" => filler.verdict[2] \in {"completed", "running", "failed"}
JudgedTyped ==
    \A r \in DOMAIN triage.judged : /\ triage.judged[r].bucket \in Buckets
                                    /\ triage.judged[r].words \subseteq Words
BackCounted == Len(issued) <= MaxIssued /\ happenings.triages <= MaxTriages

BackRest == RowsWell /\ MattersWell /\ VerdictWell /\ JudgedTyped /\ BackCounted

\* A row as it is begun.
LEMMA IssueTyped == ASSUME NEW u \in BOOLEAN PROVE Issue(u) \in ARow
<1>1. PICK n \in BOOLEAN : n = FALSE
  OBVIOUS
<1>2. Issue(u) = [label |-> "running", unit |-> u, heart |-> n, says |-> {}, bucket |-> "none",
                  recorded |-> {}]
  BY <1>1, Zenon DEF Issue
<1> QED  BY <1>2 DEF ARow

LEMMA BackRestBegins == BackfillInit => BackRest
<1> SUFFICES ASSUME BackfillInit PROVE BackRest
  OBVIOUS
<1>1. PICK w \in Beginnings, words \in Reasons, label \in {"running", "failed"} :
          /\ matters = <<w>>
          /\ issued = <<[Issue(w.session = "none") EXCEPT
                             !.label = label, !.says = IF label = "failed" THEN words ELSE {}]>>
  BY Zenon DEF BackfillInit
<1>2. PICK u \in BOOLEAN : u = (w.session = "none")
  BY Zenon
<1>3. PICK said \in SUBSET Words : said = IF label = "failed" THEN words ELSE {}
  BY BackfillAssumption
<1>4. PICK row : row = [[Issue(u) EXCEPT !.label = label] EXCEPT !.says = said] /\ issued = <<row>>
  BY <1>1, <1>2, <1>3, Zenon
<1>5. row \in ARow
  BY <1>4, IssueTyped DEF ARow
<1>6. RowsIssued = {1} /\ issued[1] = row /\ Len(issued) = 1 /\ matters[1] = w
  BY <1>1, <1>4 DEF RowsIssued
<1>7. w \in Matter /\ MaxIssued >= 1 /\ MaxTriages \in Nat
  BY BackfillAssumption
<1>8. DOMAIN triage.judged = {} /\ filler.at = "idle" /\ happenings.triages = 0
  BY DEF BackfillInit, TriageIdle, FillerIdle
<1> QED
  BY <1>5, <1>6, <1>7, <1>8 DEF BackRest, RowsWell, MattersWell, VerdictWell, JudgedTyped, BackCounted

\* One row changes.
LEMMA RowWell ==
    ASSUME BackInv, RowsWell, NEW r \in RowsIssued, NEW x \in ARow, issued' = [issued EXCEPT ![r] = x]
    PROVE  RowsWell'
BY DEF BackInv, RowsCounted, RowsIssued, RowsWell

LEMMA RelabelledWell ==
    ASSUME BackInv, RowsWell, NEW r \in RowsIssued, NEW v \in {"completed", "running", "failed"},
           NEW words \in SUBSET Words, Relabels(r, v, words)
    PROVE  RowsWell'
<1>1. PICK h \in BOOLEAN : h = (issued[r].heart \/ v = "running")
  BY Zenon
<1>2. issued' = [issued EXCEPT ![r].label = v, ![r].heart = h, ![r].says = words]
  BY <1>1, Zenon DEF Relabels
<1> DEFINE one == [issued[r] EXCEPT !.label = v]
           two == [one EXCEPT !.heart = h]
           x == [two EXCEPT !.says = words]
<1>3. issued' = [issued EXCEPT ![r] = x]
  BY <1>2, Zenon DEF RowsIssued
<1>4. x \in ARow
  BY DEF RowsWell, ARow
<1> HIDE DEF x
<1> QED  BY <1>3, <1>4, RowWell

\* The rows keep their types: what is written into one are words that triage knows.
LEMMA RowsStayWell == ASSUME BackInv, BackRest, BackfillNext PROVE RowsWell'
<1>0. RowsWell /\ RowsCounted
  BY DEF BackRest, BackInv
<1>1. CASE WritesVerdict
  <2>1. /\ filler.verdict[1] \in RowsIssued /\ filler.verdict[2] \in {"completed", "running", "failed"}
    BY <1>1 DEF WritesVerdict, BackInv, FillerSound, BackRest, VerdictWell
  <2>2. PICK words \in SUBSET Words : Relabels(filler.verdict[1], filler.verdict[2], words)
    BY <1>1 DEF WritesVerdict, Words
  <2> QED  BY <1>0, <2>1, <2>2, RelabelledWell
<1>2. CASE EndsExternal
  <2>1. CASE UNCHANGED issued
    BY <1>0, <2>1 DEF RowsWell, RowsIssued
  <2>2. CASE ~UNCHANGED issued
    <3>1. PICK r \in filler.todo : Relabels(r, "completed", {})
      BY <1>2, <2>2 DEF EndsExternal
    <3>2. r \in RowsIssued
      BY <3>1 DEF BackInv, FillerSound
    <3> QED  BY <1>0, <3>1, <3>2, RelabelledWell
  <2> QED  BY <2>1, <2>2
<1>3. CASE AppliesBuckets
  <2>1. CASE UNCHANGED issued
    BY <1>0, <2>1 DEF RowsWell, RowsIssued
  <2>2. CASE ~UNCHANGED issued
    <3>1. PICK judged : judged = triage.judged
      OBVIOUS
    <3>2. issued' = [r \in RowsIssued |->
                        IF r \notin DOMAIN judged THEN issued[r]
                        ELSE [issued[r] EXCEPT !.bucket = judged[r].bucket, !.recorded = judged[r].words]]
      BY <1>3, <2>2, <3>1 DEF AppliesBuckets
    <3>3. ASSUME NEW r \in RowsIssued PROVE issued'[r] \in ARow
      <4>1. CASE r \notin DOMAIN judged
        BY <1>0, <3>2, <4>1 DEF RowsWell
      <4>2. CASE r \in DOMAIN judged
        <5>1. PICK b \in Buckets, words \in SUBSET Words :
                  b = judged[r].bucket /\ words = judged[r].words
          BY <3>1, <4>2 DEF BackRest, JudgedTyped
        <5>2. issued'[r] = [issued[r] EXCEPT !.bucket = b, !.recorded = words]
          BY <3>2, <4>2, <5>1
        <5>3. issued[r] \in ARow
          BY <1>0 DEF RowsWell
        <5> QED  BY <5>2, <5>3 DEF ARow
      <4> QED  BY <4>1, <4>2
    <3>4. RowsIssued' = RowsIssued
      BY <3>2 DEF RowsIssued
    <3> QED  BY <3>3, <3>4 DEF RowsWell
  <2> QED  BY <2>1, <2>2
<1>4. CASE RowMoves
  <2>1. PICK r \in RowsIssued :
            \/ \E words \in Reasons, v \in {"failed", "completed"} :
                   issued' = [issued EXCEPT ![r].label = v, ![r].says = words]
            \/ issued' = [issued EXCEPT ![r].label = "queued"]
            \/ \E h \in BOOLEAN : issued' = [issued EXCEPT ![r].label = "running", ![r].heart = h]
    BY <1>4 DEF RowMoves
  <2>0. issued[r] \in ARow
    BY <1>0 DEF RowsWell
  <2>2. ASSUME NEW words \in Reasons, NEW v \in {"failed", "completed"},
               issued' = [issued EXCEPT ![r].label = v, ![r].says = words]
        PROVE  RowsWell'
    <3> DEFINE one == [issued[r] EXCEPT !.label = v]
               x == [one EXCEPT !.says = words]
    <3>1. issued' = [issued EXCEPT ![r] = x]
      BY <2>2, Zenon DEF RowsIssued
    <3>2. words \in SUBSET Words
      BY BackfillAssumption
    <3>3. x \in ARow
      BY <2>0, <3>2 DEF ARow
    <3> HIDE DEF x
    <3> QED  BY <1>0, <3>1, <3>3, RowWell
  <2>3. ASSUME issued' = [issued EXCEPT ![r].label = "queued"] PROVE RowsWell'
    <3> DEFINE x == [issued[r] EXCEPT !.label = "queued"]
    <3>1. issued' = [issued EXCEPT ![r] = x]
      BY <2>3, Zenon DEF RowsIssued
    <3>2. x \in ARow
      BY <2>0 DEF ARow
    <3> HIDE DEF x
    <3> QED  BY <1>0, <3>1, <3>2, RowWell
  <2>4. ASSUME NEW h \in BOOLEAN, issued' = [issued EXCEPT ![r].label = "running", ![r].heart = h]
        PROVE  RowsWell'
    <3> DEFINE one == [issued[r] EXCEPT !.label = "running"]
               x == [one EXCEPT !.heart = h]
    <3>1. issued' = [issued EXCEPT ![r] = x]
      BY <2>4, Zenon DEF RowsIssued
    <3>2. x \in ARow
      BY <2>0 DEF ARow
    <3> HIDE DEF x
    <3> QED  BY <1>0, <3>1, <3>2, RowWell
  <2> QED  BY <2>1, <2>2, <2>3, <2>4
<1>5. CASE SubmittedAgain
  <2>1. issued' = Append(issued, Issue(issued[1].unit)) /\ 1 \in RowsIssued
    BY <1>0, <1>5 DEF SubmittedAgain, RowsCounted
  <2>2. issued[1].unit \in BOOLEAN
    BY <1>0, <2>1 DEF RowsWell, ARow
  <2>3. Issue(issued[1].unit) \in ARow
    BY <2>2, IssueTyped
  <2>4. /\ DOMAIN issued' = DOMAIN issued \cup {Len(issued) + 1}
        /\ issued'[Len(issued) + 1] = Issue(issued[1].unit)
        /\ \A i \in DOMAIN issued : issued'[i] = issued[i]
    BY <1>0, <2>1, ListAppended DEF RowsCounted
  <2> QED  BY <1>0, <2>3, <2>4 DEF RowsWell, RowsIssued
<1>6. CASE UNCHANGED issued
  BY <1>0, <1>6 DEF RowsWell, RowsIssued
<1> QED
  BY <1>1, <1>2, <1>3, <1>4, <1>5, <1>6 DEF BackfillNext, FillerLists, ReadsDocs, ChecksUnit,
     ListsSessions, FillerKilled, TriageLists, JudgesRow, FilesProposal, TriageKilled, WorkMoves

LEMMA MattersStayWell == ASSUME BackInv, BackRest, BackfillNext PROVE MattersWell'
<1>0. MattersWell /\ RowsCounted
  BY DEF BackRest, BackInv
<1>1. CASE WorkMoves
  <2>0. RowsIssued' = RowsIssued /\ DOMAIN matters = RowsIssued
    BY <1>0, <1>1 DEF WorkMoves, RowsIssued, RowsCounted
  <2>1. PICK r \in RowsIssued :
            \/ matters' = [matters EXCEPT ![r] = [matters[r] EXCEPT !.up = ~@]]
            \/ \E f \in FilesOf : matters' = [matters EXCEPT ![r] = [matters[r] EXCEPT !.file = f]]
            \/ \E p \in IF matters[r].pull = "none" THEN {"open"} ELSE {"merged", "closed"} :
                   matters' = [matters EXCEPT ![r] = [matters[r] EXCEPT !.pull = p]]
            \/ matters' = [matters EXCEPT ![r] = [matters[r] EXCEPT !.tip = "new"]]
            \/ matters' = [matters EXCEPT ![r] = [matters[r] EXCEPT !.session = "COMPLETE"]]
    BY <1>1, Zenon DEF WorkMoves
  <2>2. ASSUME NEW x \in Matter, matters' = [matters EXCEPT ![r] = x] PROVE MattersWell'
    BY <1>0, <2>0, <2>2 DEF MattersWell
  <2>3. matters[r] \in Matter
    BY <1>0 DEF MattersWell
  <2>4. CASE matters' = [matters EXCEPT ![r] = [matters[r] EXCEPT !.up = ~@]]
    <3>1. PICK b \in BOOLEAN : b = ~matters[r].up
      BY Zenon
    <3>2. matters' = [matters EXCEPT ![r] = [matters[r] EXCEPT !.up = b]]
      BY <2>4, <3>1, Zenon
    <3>3. [matters[r] EXCEPT !.up = b] \in Matter
      BY <2>3 DEF Matter
    <3> QED  BY <2>2, <3>2, <3>3
  <2>5. ASSUME NEW f \in FilesOf, matters' = [matters EXCEPT ![r] = [matters[r] EXCEPT !.file = f]]
        PROVE  MattersWell'
    <3>1. [matters[r] EXCEPT !.file = f] \in Matter
      BY <2>3 DEF Matter
    <3> QED  BY <2>2, <2>5, <3>1
  <2>6. ASSUME NEW p \in {"open", "merged", "closed"},
               matters' = [matters EXCEPT ![r] = [matters[r] EXCEPT !.pull = p]]
        PROVE  MattersWell'
    <3>1. [matters[r] EXCEPT !.pull = p] \in Matter
      BY <2>3 DEF Matter, Requests
    <3> QED  BY <2>2, <2>6, <3>1
  <2>7. CASE matters' = [matters EXCEPT ![r] = [matters[r] EXCEPT !.tip = "new"]]
    <3>1. [matters[r] EXCEPT !.tip = "new"] \in Matter
      BY <2>3 DEF Matter
    <3> QED  BY <2>2, <2>7, <3>1
  <2>8. CASE matters' = [matters EXCEPT ![r] = [matters[r] EXCEPT !.session = "COMPLETE"]]
    <3>1. [matters[r] EXCEPT !.session = "COMPLETE"] \in Matter
      BY <2>3 DEF Matter
    <3> QED  BY <2>2, <2>8, <3>1
  <2> QED  BY <2>1, <2>4, <2>5, <2>6, <2>7, <2>8
<1>2. CASE SubmittedAgain
  <2>0. /\ ListOf(issued) /\ ListOf(matters) /\ 1 \in RowsIssued /\ DOMAIN matters = RowsIssued
    BY <1>0 DEF RowsCounted
  <2>1. PICK x, w : /\ issued' = Append(issued, x) /\ matters' = Append(matters, w)
                    /\ w = [matters[1] EXCEPT !.up = FALSE, !.file = NoFile]
    BY <1>2, Zenon DEF SubmittedAgain
  <2>2. PICK n \in BOOLEAN : n = FALSE
    OBVIOUS
  <2>3. PICK none \in FilesOf : none = NoFile
    <3>1. NoFile = [status |-> "none", cites |-> n]
      BY <2>2, Zenon DEF NoFile
    <3> QED  BY <3>1 DEF FilesOf
  <2>4. w = [matters[1] EXCEPT !.up = n, !.file = none]
    BY <2>1, <2>2, <2>3, Zenon
  <2>5. w \in Matter
    BY <1>0, <2>0, <2>4, ZenonT(30) DEF MattersWell, Matter
  <2>6. /\ DOMAIN issued' = DOMAIN issued \cup {Len(issued) + 1} /\ Len(issued) = Len(matters)
    BY <2>0, <2>1, ListAppended, ListFacts DEF RowsIssued
  <2>7. /\ matters'[Len(matters) + 1] = w /\ \A i \in DOMAIN matters : matters'[i] = matters[i]
    BY <2>0, <2>1, ListAppended
  <2> QED  BY <1>0, <2>0, <2>5, <2>6, <2>7 DEF MattersWell, RowsIssued
<1>3. CASE UNCHANGED matters
  <2>1. RowsIssued' = RowsIssued \/ SubmittedAgain
    <3>1. BackInv'
      BY BackGoesOn
    <3> QED  BY <1>0, <1>3, <3>1 DEF BackInv, RowsCounted
  <2> QED  BY <1>0, <1>2, <1>3, <2>1 DEF MattersWell
<1> QED
  BY <1>1, <1>2, <1>3 DEF BackfillNext, FillerLists, ReadsDocs, ChecksUnit, WritesVerdict, EndsExternal,
     ListsSessions, FillerKilled, TriageLists, JudgesRow, FilesProposal, TriageKilled, AppliesBuckets,
     RowMoves

\* What a verdict and a bucket may be.
LEMMA ProgressTyped ==
    ASSUME RowsCounted, NEW r \in RowsIssued, NEW doc, NEW v \in ForwardProgress(r, doc)
    PROVE  v \in {"completed", "running", "failed"}
<1> DEFINE Of(answer) == CASE answer = "merged" -> "completed" [] answer = "open" -> "running"
                         [] answer \in {"unknown", "none", "closed"} -> "failed"
<1>1. CASE doc.cites /\ doc.status # "ended"
  <2>1. ForwardProgress(r, doc) = {Of(answer) : answer \in PullTold(r)}
    BY <1>1 DEF ForwardProgress
  <2>2. PICK answer \in PullTold(r) : v = Of(answer)
    BY <2>1
  <2>3. answer \in {"unknown", "none", "open", "merged", "closed"}
    BY DEF PullTold, RowsCounted, Requests
  <2> QED  BY <2>2, <2>3
<1>2. CASE ~(doc.cites /\ doc.status # "ended")
  BY <1>2 DEF ForwardProgress
<1> QED  BY <1>1, <1>2

LEMMA BucketTyped ==
    ASSUME NEW r, NEW answer, NEW onMain
    PROVE  LET b == BucketOf(r, answer, onMain) IN b.bucket \in Buckets /\ b.words \subseteq Words
<1> DEFINE text == EvidenceText(r)
           done == ("commit" \in text \/ answer = "merged") /\ onMain
           hard == IF "credit accountant" \in text THEN {}
                   ELSE IF text \cap Blockers = {"owner"} THEN {"owner"} ELSE {"reviewer"}
           soft == IF "conflict" \in text THEN {"conflict"} ELSE {"gate"}
           late == IF NeverBegun(r, answer) THEN "retryable" ELSE "blocked"
           b == BucketOf(r, answer, onMain)
<1>1. \/ b = [bucket |-> "already_done", words |-> {}]
      \/ b = [bucket |-> "superseded", words |-> {}]
      \/ b = [bucket |-> "blocked", words |-> hard]
      \/ b = [bucket |-> "retryable", words |-> soft]
      \/ b = [bucket |-> late, words |-> {}]
  BY Zenon DEF BucketOf
<1>2. hard \subseteq Words /\ soft \subseteq Words /\ late \in Buckets
  BY DEF Words, Blockers, Mechanical, Buckets
<1> HIDE DEF b, hard, soft, late
<1>3. b.bucket \in Buckets /\ b.words \subseteq Words
  BY <1>1, <1>2 DEF Buckets
<1> QED  BY <1>3 DEF b

LEMMA BackRestGoesOn == BackInv /\ BackRest /\ [BackfillNext]_backvars => BackRest'
<1> SUFFICES ASSUME BackInv, BackRest, [BackfillNext]_backvars PROVE BackRest'
  OBVIOUS
<1>1. CASE UNCHANGED backvars
  BY <1>1 DEF backvars, BackRest, RowsWell, MattersWell, VerdictWell, JudgedTyped, BackCounted, RowsIssued
<1>2. CASE BackfillNext
  <2>1. VerdictWell'
    <3>1. DOMAIN filler = {"at", "todo", "docs", "verdict"} /\ VerdictWell /\ RowsCounted
      BY DEF BackInv, FillerSound, BackRest
    <3>2. \/ UNCHANGED filler \/ filler' = FillerIdle
          \/ \E todo : filler' = [FillerIdle EXCEPT !.at = "docs", !.todo = todo]
          \/ \E docs : filler' = [filler EXCEPT !.at = "units", !.docs = docs]
          \/ filler.at = "units" /\ \E r : filler' = [filler EXCEPT !.todo = filler.todo \ {r}]
          \/ \E r \in UnitsLeft : \E v \in ForwardProgress(r, filler.docs[r]) :
                 filler' = [filler EXCEPT !.at = "writing", !.verdict = <<r, v>>]
          \/ \E r : filler' = [filler EXCEPT !.at = "units", !.todo = filler.todo \ {r}, !.verdict = "none"]
          \/ \E todo : filler' = [filler EXCEPT !.at = "external", !.todo = todo]
          \/ filler.at = "external" /\ \E r : filler' = [filler EXCEPT !.todo = filler.todo \ {r}]
      BY <1>2, Zenon DEF BackfillNext, FillerLists, ReadsDocs, ChecksUnit, WritesVerdict, EndsExternal,
         ListsSessions, FillerKilled, TriageLists, JudgesRow, FilesProposal, TriageKilled,
         AppliesBuckets, RowMoves, SubmittedAgain, WorkMoves
    <3>3. ASSUME NEW r \in UnitsLeft, NEW v \in ForwardProgress(r, filler.docs[r]),
                 filler' = [filler EXCEPT !.at = "writing", !.verdict = <<r, v>>]
          PROVE  VerdictWell'
      <4>1. r \in RowsIssued
        BY DEF UnitsLeft, BackInv, FillerSound
      <4>2. v \in {"completed", "running", "failed"}
        BY <3>1, <4>1, ProgressTyped
      <4> QED  BY <3>1, <3>3, <4>2 DEF VerdictWell
    <3>4. ASSUME filler'.at \in {"idle", "docs", "units", "external"} PROVE VerdictWell'
      BY <3>4 DEF VerdictWell
    <3>5. CASE UNCHANGED filler
      BY <3>1, <3>5 DEF VerdictWell
    <3>6. CASE filler' = FillerIdle
      BY <3>4, <3>6 DEF FillerIdle
    <3>7. ASSUME NEW todo, filler' = [FillerIdle EXCEPT !.at = "docs", !.todo = todo] PROVE VerdictWell'
      BY <3>4, <3>7 DEF FillerIdle
    <3>8. ASSUME NEW docs, filler' = [filler EXCEPT !.at = "units", !.docs = docs] PROVE VerdictWell'
      BY <3>1, <3>4, <3>8
    <3>9. ASSUME NEW r, filler.at = "units" \/ filler.at = "external",
                 filler' = [filler EXCEPT !.todo = filler.todo \ {r}]
          PROVE  VerdictWell'
      BY <3>1, <3>4, <3>9
    <3>10. ASSUME NEW r, filler' = [filler EXCEPT !.at = "units", !.todo = filler.todo \ {r}, !.verdict = "none"]
           PROVE  VerdictWell'
      BY <3>1, <3>4, <3>10
    <3>11. ASSUME NEW todo, filler' = [filler EXCEPT !.at = "external", !.todo = todo] PROVE VerdictWell'
      BY <3>1, <3>4, <3>11
    <3> QED  BY <3>2, <3>3, <3>5, <3>6, <3>7, <3>8, <3>9, <3>10, <3>11, Zenon
  <2>2. JudgedTyped'
    <3>1. DOMAIN triage = {"at", "todo", "judged"} /\ JudgedTyped
      BY DEF BackInv, TriageSound, BackRest
    <3>2. \/ UNCHANGED triage \/ triage' = TriageIdle
          \/ \E todo : triage' = [at |-> "judging", judged |-> <<>>, todo |-> todo]
          \/ JudgesRow
          \/ \E todo : triage' = [triage EXCEPT !.at = "proposing", !.todo = todo]
          \/ \E r : triage' = [triage EXCEPT !.todo = triage.todo \ {r}]
      BY <1>2, Zenon DEF BackfillNext, FillerLists, ReadsDocs, ChecksUnit, WritesVerdict, EndsExternal,
         ListsSessions, FillerKilled, TriageLists, FilesProposal, TriageKilled,
         AppliesBuckets, RowMoves, SubmittedAgain, WorkMoves
    <3>3. CASE JudgesRow
      <4>1. PICK r, b, j, todo :
                /\ b.bucket \in Buckets /\ b.words \subseteq Words
                /\ j = [s \in DOMAIN triage.judged \cup {r} |-> IF s = r THEN b ELSE triage.judged[s]]
                /\ triage' = [triage EXCEPT !.todo = todo, !.judged = j]
        <5>1. PICK r \in triage.todo, onMain \in BOOLEAN :
                 \E answer \in PullFound(r) :
                  triage' = [triage EXCEPT !.todo = @ \ {r},
                         !.judged = [s \in DOMAIN @ \cup {r} |->
                                        IF s = r THEN BucketOf(r, answer, onMain) ELSE @[s]]]
          BY <3>3, Zenon DEF JudgesRow
        <5>2. PICK answer \in PullFound(r) :
                  triage' = [triage EXCEPT !.todo = @ \ {r},
                         !.judged = [s \in DOMAIN @ \cup {r} |->
                                        IF s = r THEN BucketOf(r, answer, onMain) ELSE @[s]]]
          BY <5>1
        <5> DEFINE c == BucketOf(r, answer, onMain)
        <5>3. c.bucket \in Buckets /\ c.words \subseteq Words
          BY BucketTyped
        <5> QED  BY <5>2, <5>3, Zenon
      <4>2. triage'.judged = j
        BY <3>1, <4>1
      <4> QED  BY <3>1, <4>1, <4>2 DEF JudgedTyped
    <3>4. ASSUME DOMAIN triage'.judged = {} PROVE JudgedTyped'
      BY <3>4 DEF JudgedTyped
    <3>5. CASE triage' = TriageIdle
      BY <3>4, <3>5 DEF TriageIdle
    <3>6. ASSUME NEW todo, triage' = [at |-> "judging", judged |-> <<>>, todo |-> todo] PROVE JudgedTyped'
      BY <3>4, <3>6
    <3>7. ASSUME triage'.judged = triage.judged PROVE JudgedTyped'
      BY <3>1, <3>7 DEF JudgedTyped
    <3>8. ASSUME NEW todo, triage' = [triage EXCEPT !.at = "proposing", !.todo = todo] PROVE JudgedTyped'
      BY <3>1, <3>7, <3>8
    <3>9. ASSUME NEW r, triage' = [triage EXCEPT !.todo = triage.todo \ {r}] PROVE JudgedTyped'
      BY <3>1, <3>7, <3>9
    <3> QED  BY <3>2, <3>3, <3>5, <3>6, <3>7, <3>8, <3>9
  <2>3. BackCounted'
    <3>1. /\ DOMAIN happenings = {"events", "triages"} /\ happenings.triages \in Nat
          /\ MaxIssued \in Nat /\ MaxTriages \in Nat /\ Len(issued) \in Nat
          /\ BackCounted /\ ListOf(issued) /\ 1 \in DOMAIN issued /\ DOMAIN issued = 1 .. Len(issued)
      BY BackfillAssumption, ListFacts DEF BackInv, RowsCounted, BackRest, RowsIssued
    <3>2. happenings'.triages <= MaxTriages
      <4>1. \/ UNCHANGED happenings
            \/ happenings' = [happenings EXCEPT !.events = @ + 1]
            \/ happenings.triages < MaxTriages /\ happenings' = [happenings EXCEPT !.triages = @ + 1]
        BY <1>2, Zenon DEF BackfillNext, FillerLists, ReadsDocs, ChecksUnit, WritesVerdict, EndsExternal,
           ListsSessions, FillerKilled, TriageLists, JudgesRow, FilesProposal, TriageKilled,
           AppliesBuckets, RowMoves, SubmittedAgain, WorkMoves, Happens
      <4> QED  BY <3>1, <4>1 DEF BackCounted
    <3>3. Len(issued') <= MaxIssued
      <4>0. BackInv'
        BY BackGoesOn
      <4>1. Len(issued') \in Nat /\ DOMAIN issued' = 1 .. Len(issued')
        BY <4>0, ListFacts DEF BackInv, RowsCounted
      <4>2. CASE DOMAIN issued' = DOMAIN issued
        <5>1. Len(issued') \in 1 .. Len(issued)
          BY <3>1, <4>1, <4>2
        <5> QED  BY <3>1, <5>1 DEF BackCounted
      <4>3. CASE SubmittedAgain
        <5>1. Len(issued) < MaxIssued /\ \E x : issued' = Append(issued, x)
          BY <4>3, Zenon DEF SubmittedAgain
        <5>2. DOMAIN issued' = DOMAIN issued \cup {Len(issued) + 1}
          BY <3>1, <5>1, ListAppended
        <5>3. 1 \in DOMAIN issued'
          BY <3>1, <5>2
        <5>4. Len(issued') \in DOMAIN issued'
          BY <4>1, <5>3
        <5>5. Len(issued') \in 1 .. Len(issued) + 1
          <6>1. Len(issued') \in DOMAIN issued \/ Len(issued') = Len(issued) + 1
            BY <5>2, <5>4
          <6>2. DOMAIN issued = 1 .. Len(issued) /\ Len(issued) \in Nat
            BY <3>1
          <6> QED  BY <6>1, <6>2
        <5> QED  BY <3>1, <4>1, <5>1, <5>5
      <4>4. DOMAIN issued' = DOMAIN issued \/ SubmittedAgain
        <5>1. \/ UNCHANGED issued \/ SubmittedAgain \/ AppliesBuckets
              \/ \E r, v, words : Relabels(r, v, words)
              \/ RowMoves
          BY <1>2, Zenon DEF BackfillNext, FillerLists, ReadsDocs, ChecksUnit, WritesVerdict, EndsExternal,
             ListsSessions, FillerKilled, TriageLists, JudgesRow, FilesProposal, TriageKilled, WorkMoves
        <5>2. CASE AppliesBuckets
          BY <5>2 DEF AppliesBuckets, RowsIssued
        <5>3. CASE RowMoves
          BY <5>3 DEF RowMoves
        <5>4. ASSUME NEW r, NEW v, NEW words, Relabels(r, v, words)
              PROVE  DOMAIN issued' = DOMAIN issued
          BY <5>4 DEF Relabels
        <5> QED  BY <5>1, <5>2, <5>3, <5>4
      <4> QED  BY <4>2, <4>3, <4>4
    <3> QED  BY <3>2, <3>3 DEF BackCounted
  <2>4. RowsWell' /\ MattersWell'
    BY <1>2, RowsStayWell, MattersStayWell
  <2> QED  BY <2>1, <2>2, <2>3, <2>4 DEF BackRest
<1> QED  BY <1>1, <1>2

\* The rows and what is made of them keep their types: of a row no more proposals are filed
\* than there are runs of the triage.
LEMMA BackfillTyped == BackfillSpec => []BackfillTypeOK
<1>1. BackInv /\ BackRest => BackfillTypeOK
  <2> SUFFICES ASSUME BackInv, BackRest PROVE BackfillTypeOK
    OBVIOUS
  <2>1. /\ ListOf(issued) /\ ListOf(matters) /\ ListOf(proposed)
        /\ DOMAIN matters = RowsIssued /\ DOMAIN proposed = RowsIssued
    BY DEF BackInv, RowsCounted
  <2>2. issued \in Seq(ARow)
    <3>1. PICK n \in Nat : issued = [i \in 1 .. n |-> issued[i]]
      BY <2>1 DEF ListOf
    <3>2. \A i \in 1 .. n : issued[i] \in ARow
      BY <3>1 DEF BackRest, RowsWell, RowsIssued
    <3>3. issued \in [1 .. n -> ARow]
      BY <3>1, <3>2
    <3> QED  BY <3>3, SeqDef
  <2>3. matters \in [RowsIssued -> Matter]
    <3>1. matters = [r \in RowsIssued |-> matters[r]]
      BY <2>1 DEF ListOf
    <3> QED  BY <3>1 DEF BackRest, MattersWell
  <2>4. proposed \in [RowsIssued -> 0 .. MaxTriages]
    <3>1. proposed = [r \in RowsIssued |-> proposed[r]]
      BY <2>1 DEF ListOf
    <3>2. /\ happenings.triages \in Nat /\ happenings.triages <= MaxTriages /\ MaxTriages \in Nat
          /\ \A r \in RowsIssued : proposed[r] \in Nat /\ proposed[r] <= happenings.triages
      BY BackfillAssumption DEF BackInv, RowsCounted, TriageSound, BackRest, BackCounted
    <3>3. \A r \in RowsIssued : proposed[r] \in 0 .. MaxTriages
      BY <3>2
    <3> QED  BY <3>1, <3>3
  <2>5. triage.at \in {"idle", "judging", "proposing"}
        /\ filler.todo \cup triage.todo \cup filled \subseteq RowsIssued
    BY DEF BackInv, FillerSound, TriageSound
  <2> QED
    BY <2>2, <2>3, <2>4, <2>5, Zenon DEF BackRest, VerdictWell, BackCounted, ARow, BackfillTypeOK
<1> QED
  BY <1>1, BackBegins, BackGoesOn, BackRestBegins, BackRestGoesOn, PTL DEF BackfillSpec

-----------------------------------------------------------------------------
(* GtmCertification *)

\* What a passing row's check may have seen.
Borne(c) == CASE c = 21 -> {"bad"} [] c = 24 -> {"none"} [] OTHER -> {}

GtmTyped ==
    /\ category \in [1..25 -> Verdicts]
    /\ DOMAIN pending \subseteq 1..25
    /\ \A c \in DOMAIN pending : pending[c] = Unfound \/ pending[c].verdict \in Verdicts
    /\ listing \in [Listers -> {"none", "gaps", "clear"}]
    /\ certificate \in BOOLEAN
    /\ DOMAIN gtmpast = {"probes", "seen", "allPassed"}
    /\ DOMAIN gtmpast.seen = 1..25

\* A verdict to pass that waits to be written is earned as well.
PendingEarned ==
    \A c \in DOMAIN pending :
        pending[c].verdict = "pass" => pending[c].seen \subseteq Borne(c)
RowsEarned ==
    \A c \in DOMAIN pending : category[c] = "pass" => gtmpast.seen[c] \subseteq Borne(c)

\* When all have passed, that is remembered; a listing without a gap was of such a time.
PassesKnown ==
    /\ (\A c \in 1..25 : category[c] = "pass") => gtmpast.allPassed
    /\ \A l \in Listers : listing[l] = "clear" => gtmpast.allPassed
    /\ certificate => gtmpast.allPassed

GtmInv == GtmTyped /\ PendingEarned /\ RowsEarned /\ PassesKnown

\* Every script of its own: what neither blocks nor fails it is not grave, but for two.
LEMMA ScriptsEarn ==
    ASSUME NEW c \in (1..25) \ {13, 25}, NEW seen \in SUBSET Possible(c),
           VerdictOf(c, seen) = "pass"
    PROVE  Grave(seen) \subseteq Borne(c)
<1> DEFINE k == CheckOf(c)
<1>1. seen \cap k.blocks = {} /\ seen \cap k.fails = {}
  BY DEF VerdictOf
<1>2. seen \subseteq k.misses
  BY <1>1 DEF Possible
<1> HIDE DEF k
<1>3. SUFFICES {"tools", "none", "bad"} \cap k.misses \subseteq Borne(c) \cup k.blocks \cup k.fails
  BY <1>1, <1>2 DEF Grave
<1> USE DEF k, CheckOf, Check, Borne
<1>4. CASE c \in {1, 2, 3, 4, 5}
  BY <1>4 DEF ArchitectureAudit, StaticCodeAnalysis, SecurityAudit, ApiTesting, UiTesting
<1>5. CASE c \in {6, 7, 8, 9}
  BY <1>5 DEF E2eTesting, RegressionTesting, AccessibilityTesting, PerformanceTesting
<1>6. CASE c \in {10, 11, 12, 14}
  BY <1>6 DEF LoadTesting, DatabaseTesting, GovernanceTesting
<1>7. CASE c \in {15, 16, 17, 18}
  BY <1>7 DEF MultiTenantTesting, RolePermissionTesting, BrowserCompatibility, ResponsiveTesting
<1>8. CASE c \in {19, 20, 21}
  BY <1>8 DEF BackupRecoveryTesting, MonitoringTesting, DeploymentTesting
<1>9. CASE c \in {22, 23, 24}
  BY <1>9 DEF DocumentationAudit, UxAudit, LighthouseAudit
<1> HIDE DEF k, CheckOf, Check, Borne
<1>10. c \in {1, 2, 3, 4, 5} \cup {6, 7, 8, 9} \cup {10, 11, 12, 14} \cup {15, 16, 17, 18}
            \cup {19, 20, 21} \cup {22, 23, 24}
  OBVIOUS
<1> QED  BY <1>4, <1>5, <1>6, <1>7, <1>8, <1>9, <1>10

\* A verdict is found: it is earned, and nothing else changes but who has run.
LEMMA FindsKeeps ==
    ASSUME GtmInv, NEW c \in DOMAIN pending, NEW v \in Verdicts, NEW seen,
           Finds(c, v, seen), v = "pass" => Grave(seen) \subseteq Borne(c),
           UNCHANGED <<category, listing, certificate>>,
           gtmpast'.seen = gtmpast.seen, gtmpast'.allPassed = gtmpast.allPassed,
           DOMAIN gtmpast' = DOMAIN gtmpast
    PROVE  GtmInv'
<1>1. /\ DOMAIN pending' = DOMAIN pending
      /\ pending'[c].verdict = v /\ pending'[c].seen = Grave(seen)
      /\ \A d \in DOMAIN pending \ {c} : pending'[d] = pending[d]
  BY DEF Finds
<1>2. GtmTyped'
  BY <1>1 DEF GtmInv, GtmTyped
<1>3. PendingEarned' /\ RowsEarned'
  BY <1>1 DEF GtmInv, PendingEarned, RowsEarned
<1>4. PassesKnown'
  BY DEF GtmInv, PassesKnown
<1> QED  BY <1>2, <1>3, <1>4 DEF GtmInv

LEMMA GtmBegins == GtmInit => GtmInv
<1> SUFFICES ASSUME GtmInit PROVE GtmInv
  OBVIOUS
<1>1. PICK w \in Watchable, first \in {"pass", "blocked"} :
        /\ category = [c \in 1..25 |-> IF c \in w THEN first
                                       ELSE IF c = 25 THEN "blocked" ELSE "pass"]
        /\ pending = [c \in w \cup {25} |-> Unfound]
  BY DEF GtmInit
<1>2. w \subseteq 1..24
  BY DEF Watchable
<1>3. DOMAIN pending = w \cup {25} /\ \A c \in DOMAIN pending : pending[c] = Unfound
  BY <1>1
<1>4. category \in [1..25 -> Verdicts] /\ category[25] = "blocked"
  BY <1>1, <1>2 DEF Verdicts
<1>5. PICK b \in BOOLEAN : b = FALSE
  OBVIOUS
<1>6. /\ gtmpast = [probes |-> 0, seen |-> [c \in 1..25 |-> {}], allPassed |-> b]
      /\ certificate = b
  BY <1>5, Zenon DEF GtmInit
<1>7. GtmTyped
  <2>1. DOMAIN pending \subseteq 1..25 /\ \A c \in DOMAIN pending : pending[c] = Unfound
    BY <1>2, <1>3
  <2>2. listing \in [Listers -> {"none", "gaps", "clear"}]
    BY DEF GtmInit
  <2>3. DOMAIN gtmpast = {"probes", "seen", "allPassed"} /\ DOMAIN gtmpast.seen = 1..25
    BY <1>6
  <2>4. certificate \in BOOLEAN
    BY <1>6
  <2> QED  BY <1>4, <2>1, <2>2, <2>3, <2>4 DEF GtmTyped
<1>8. PendingEarned /\ RowsEarned
  <2>1. \A c \in DOMAIN pending : pending[c].verdict = "none"
    BY <1>3 DEF Unfound
  <2>2. \A c \in DOMAIN pending : gtmpast.seen[c] = {}
    <3>1. gtmpast.seen = [c \in 1..25 |-> {}]
      BY <1>6
    <3>2. DOMAIN pending \subseteq 1..25
      BY <1>2, <1>3
    <3> QED  BY <3>1, <3>2
  <2> QED  BY <2>1, <2>2 DEF PendingEarned, RowsEarned
<1>9. PassesKnown
  BY <1>4, <1>5, <1>6 DEF PassesKnown, GtmInit
<1> QED  BY <1>7, <1>8, <1>9 DEF GtmInv

LEMMA ProbesKeeps ==
    ASSUME GtmInv, NEW c \in DOMAIN pending, c \notin {11, 13, 25}, NEW seen \in SUBSET Possible(c),
           Probes(c, seen)
    PROVE  GtmInv'
<1>1. /\ gtmpast'.seen = gtmpast.seen /\ gtmpast'.allPassed = gtmpast.allPassed
      /\ DOMAIN gtmpast' = DOMAIN gtmpast
      /\ UNCHANGED <<category, listing, certificate>>
  BY DEF Probes, Probing, GtmInv, GtmTyped
<1>2. c \in (1..25) \ {13, 25}
  BY DEF GtmInv, GtmTyped
<1>3. CASE c = 10 /\ VerdictOf(c, seen) = "blocked"
  <2>1. pending' = [d \in DOMAIN pending |->
                        IF d = 25 THEN pending[d]
                        ELSE [verdict |-> "blocked", seen |-> Grave(seen)]]
    BY <1>3 DEF Probes
  <2>2. GtmTyped'
    BY <1>1, <2>1 DEF GtmInv, GtmTyped, Verdicts
  <2>3. PendingEarned' /\ RowsEarned'
    BY <1>1, <2>1 DEF GtmInv, PendingEarned, RowsEarned
  <2>4. PassesKnown'
    BY <1>1 DEF GtmInv, PassesKnown
  <2> QED  BY <2>2, <2>3, <2>4 DEF GtmInv
<1>4. CASE ~(c = 10 /\ VerdictOf(c, seen) = "blocked")
  <2>1. Finds(c, VerdictOf(c, seen), seen)
    BY <1>4 DEF Probes
  <2>2. VerdictOf(c, seen) \in Verdicts
    BY DEF VerdictOf, Verdicts
  <2> QED  BY <1>1, <1>2, <2>1, <2>2, FindsKeeps, ScriptsEarn
<1> QED  BY <1>3, <1>4

LEMMA ReadinessKeeps == GtmInv /\ ProbesReadiness => GtmInv'
<1> SUFFICES ASSUME GtmInv, ProbesReadiness PROVE GtmInv'
  OBVIOUS
<1> DEFINE v == IF Ready(category) THEN "pass" ELSE "fail"
           seen == IF \E c \in P0 : category[c] # "pass" THEN {"bad"} ELSE {}
<1>1. Finds(25, v, seen) /\ 25 \in DOMAIN pending /\ v \in Verdicts
  BY DEF ProbesReadiness, Probing, Verdicts
<1>2. v = "pass" => seen = {}
  BY DEF Ready
<1>3. v = "pass" => Grave(seen) \subseteq Borne(25)
  BY <1>2 DEF Grave
<1>4. /\ gtmpast'.seen = gtmpast.seen /\ gtmpast'.allPassed = gtmpast.allPassed
      /\ DOMAIN gtmpast' = DOMAIN gtmpast
      /\ UNCHANGED <<category, listing, certificate>>
  BY DEF ProbesReadiness, Probing, GtmInv, GtmTyped
<1> HIDE DEF v, seen
<1> QED  BY <1>1, <1>3, <1>4, FindsKeeps

\* A result is written with what its check saw, and so is that all have passed.
LEMMA WritesKeeps == ASSUME GtmInv, NEW c \in DOMAIN pending, WritesResult(c) PROVE GtmInv'
<1> DEFINE all == \A d \in 1..25 : category'[d] = "pass"
<1>1. PICK b \in BOOLEAN : b <=> gtmpast.allPassed \/ all
  OBVIOUS
<1>2. c \in 1..25
  BY DEF GtmInv, GtmTyped
<1>3. gtmpast' = [gtmpast EXCEPT !.seen[c] = pending[c].seen, !.allPassed = gtmpast.allPassed \/ all]
  BY DEF WritesResult
<1>4. b = (gtmpast.allPassed \/ all)
  BY <1>1
<1>5. gtmpast' = [gtmpast EXCEPT !.seen[c] = pending[c].seen, !.allPassed = b]
  BY <1>3, <1>4, Zenon
<1> HIDE DEF all
<1>6. /\ gtmpast'.seen = [gtmpast.seen EXCEPT ![c] = pending[c].seen] /\ gtmpast'.allPassed = b
      /\ DOMAIN gtmpast' = DOMAIN gtmpast
  BY <1>5 DEF GtmInv, GtmTyped
<1>7. /\ category' = [category EXCEPT ![c] = pending[c].verdict]
      /\ pending' = [pending EXCEPT ![c] = Unfound] /\ pending[c] # Unfound
      /\ UNCHANGED <<listing, certificate>>
  BY DEF WritesResult
<1>8. pending[c].verdict \in Verdicts
  BY <1>7 DEF GtmInv, GtmTyped
<1>9. /\ category' \in [1..25 -> Verdicts] /\ category'[c] = pending[c].verdict
      /\ \A d \in (1..25) \ {c} : category'[d] = category[d]
  BY <1>2, <1>7, <1>8 DEF GtmInv, GtmTyped
<1>10. GtmTyped'
  BY <1>6, <1>7, <1>9 DEF GtmInv, GtmTyped
<1>11. PendingEarned'
  BY <1>7 DEF GtmInv, PendingEarned, Unfound
<1>12. RowsEarned'
  <2>1. DOMAIN pending' = DOMAIN pending /\ DOMAIN pending \subseteq 1..25
        /\ DOMAIN gtmpast.seen = 1..25
    BY <1>7 DEF GtmInv, GtmTyped
  <2> QED  BY <1>2, <1>6, <1>9, <2>1 DEF GtmInv, PendingEarned, RowsEarned
<1>13. PassesKnown'
  <2>1. (\A d \in 1..25 : category'[d] = "pass") => b
    BY <1>1 DEF all
  <2>2. gtmpast.allPassed => b
    BY <1>1
  <2> QED  BY <1>6, <1>7, <2>1, <2>2 DEF GtmInv, PassesKnown
<1> QED  BY <1>10, <1>11, <1>12, <1>13 DEF GtmInv

LEMMA GtmGoesOn == GtmInv /\ [GtmNext]_gtmvars => GtmInv'
<1> SUFFICES ASSUME GtmInv, [GtmNext]_gtmvars PROVE GtmInv'
  OBVIOUS
<1>0. GtmTyped /\ PendingEarned /\ RowsEarned /\ PassesKnown
  BY DEF GtmInv
<1>1. ASSUME NEW c \in DOMAIN pending, CheckKilled(c) PROVE GtmInv'
  <2>1. /\ pending' = [pending EXCEPT ![c] = Unfound]
        /\ UNCHANGED <<category, listing, certificate, gtmpast>>
    BY <1>1 DEF CheckKilled
  <2> QED  BY <1>0, <2>1 DEF GtmInv, GtmTyped, PendingEarned, RowsEarned, PassesKnown, Unfound
<1>2. ASSUME NEW c, FixRecorded(c) PROVE GtmInv'
  BY <1>0, <1>2 DEF FixRecorded, GtmInv, GtmTyped, PendingEarned, RowsEarned, PassesKnown
<1>3. ASSUME NEW seen \in SUBSET (Possible(11) \ {"tools"}), ProbesStress(seen) PROVE GtmInv'
  <2>1. /\ gtmpast' = gtmpast /\ UNCHANGED <<category, listing, certificate>>
        /\ Finds(11, VerdictOf(11, seen), seen)
    BY <1>3 DEF ProbesStress
  <2>2. CASE 11 \in DOMAIN pending
    <3>1. VerdictOf(11, seen) \in Verdicts
      BY DEF VerdictOf, Verdicts
    <3>2. seen \in SUBSET Possible(11) /\ 11 \in (1..25) \ {13, 25}
      OBVIOUS
    <3>3. VerdictOf(11, seen) = "pass" => Grave(seen) \subseteq Borne(11)
      BY <3>2, ScriptsEarn
    <3> QED  BY <2>1, <2>2, <3>1, <3>3, FindsKeeps
  <2>3. CASE 11 \notin DOMAIN pending
    <3>1. DOMAIN pending' = DOMAIN pending /\ \A d \in DOMAIN pending : pending'[d] = pending[d]
      BY <2>1, <2>3 DEF Finds
    <3> QED  BY <1>0, <2>1, <3>1 DEF GtmInv, GtmTyped, PendingEarned, RowsEarned, PassesKnown
  <2> QED  BY <2>2, <2>3
<1>4. CASE ProbesAi
  <2> DEFINE v == CASE scenario = "completed" -> "pass"
                    [] scenario = "failed" -> "fail"
                    [] OTHER -> "blocked"
  <2>1. Finds(13, v, {}) /\ 13 \in DOMAIN pending /\ v \in Verdicts
    BY <1>4 DEF ProbesAi, Probing, Verdicts
  <2>2. Grave({}) \subseteq Borne(13)
    BY DEF Grave
  <2>3. /\ gtmpast'.seen = gtmpast.seen /\ gtmpast'.allPassed = gtmpast.allPassed
        /\ DOMAIN gtmpast' = DOMAIN gtmpast
        /\ UNCHANGED <<category, listing, certificate>>
    BY <1>0, <1>4 DEF ProbesAi, Probing, GtmTyped
  <2> HIDE DEF v
  <2> QED  BY <2>1, <2>2, <2>3, FindsKeeps
<1>5. CASE ScenarioEnds
  BY <1>0, <1>5 DEF ScenarioEnds, GtmInv, GtmTyped, PendingEarned, RowsEarned, PassesKnown
<1>6. ASSUME NEW l \in Listers, ListsCategories(l) PROVE GtmInv'
  <2>1. PICK s \in {"gaps", "clear"} :
             s = IF \E c \in 1..25 : category[c] # "pass" THEN "gaps" ELSE "clear"
    OBVIOUS
  <2>2. listing' = [listing EXCEPT ![l] = s] /\ UNCHANGED <<category, pending, certificate, gtmpast>>
    BY <1>6, <2>1 DEF ListsCategories
  <2>3. s = "clear" => gtmpast.allPassed
    BY <1>0, <2>1 DEF PassesKnown
  <2> QED  BY <1>0, <2>2, <2>3 DEF GtmInv, GtmTyped, PendingEarned, RowsEarned, PassesKnown
<1>7. ASSUME NEW l \in Listers, DispatchesGaps(l) PROVE GtmInv'
  BY <1>0, <1>7 DEF DispatchesGaps, GtmInv, GtmTyped, PendingEarned, RowsEarned, PassesKnown
<1>8. ASSUME NEW l \in Listers, RecordsCertificate(l) PROVE GtmInv'
  <2>1. /\ listing[l] = "clear" /\ listing' = [listing EXCEPT ![l] = "none"]
        /\ UNCHANGED <<category, pending, gtmpast>> /\ certificate' = TRUE
    BY <1>8 DEF RecordsCertificate
  <2>2. gtmpast.allPassed
    BY <1>0, <2>1 DEF PassesKnown
  <2>3. PassesKnown'
    BY <1>0, <2>1, <2>2 DEF GtmTyped, PassesKnown
  <2>4. certificate' \in BOOLEAN
    BY <2>1
  <2>5. GtmTyped' /\ PendingEarned' /\ RowsEarned'
    BY <1>0, <2>1, <2>4 DEF GtmTyped, PendingEarned, RowsEarned
  <2> QED  BY <2>3, <2>5 DEF GtmInv
<1>9. CASE UNCHANGED gtmvars
  BY <1>0, <1>9 DEF gtmvars, GtmInv, GtmTyped, PendingEarned, RowsEarned, PassesKnown
<1> QED
  BY <1>1, <1>2, <1>3, <1>4, <1>5, <1>6, <1>7, <1>8, <1>9, ProbesKeeps, ReadinessKeeps,
     WritesKeeps DEF GtmNext

\* Whatever checks, writes and ticks overlap, a pass is earned, and a certificate is of a time
\* at which all 25 rows had passed.
THEOREM CertificatesAreEarned == GtmSpec => []Certification
<1>1. GtmInv => Certification
  BY DEF GtmInv, RowsEarned, PassesKnown, Certification, PassIsEarned, CertifiedTogether, Borne
<1> QED  BY <1>1, GtmBegins, GtmGoesOn, PTL DEF GtmSpec

\* What a check has found, and what the rest of the audit remembers.
FoundTyped == \A c \in DOMAIN pending : /\ pending[c].verdict \in Verdicts \cup {"none"}
                                        /\ pending[c].seen \subseteq Mishaps
AuditRest ==
    /\ fix \subseteq 1..25
    /\ stress \in {"no", "due"}
    /\ scenario \in {"none", "flying", "completed", "failed"}

\* The audit keeps its types.
LEMMA GtmWellTyped == GtmSpec => []GtmTypeOK
<1>0. /\ Unfound.verdict = "none" /\ Unfound.seen = {}
      /\ \A seen : Grave(seen) \subseteq Mishaps
      /\ \A c, seen : VerdictOf(c, seen) \in Verdicts
  BY DEF Unfound, Grave, Mishaps, VerdictOf, Verdicts
<1>1. GtmInit => FoundTyped /\ AuditRest
  <2> SUFFICES ASSUME GtmInit PROVE FoundTyped /\ AuditRest
    OBVIOUS
  <2>1. PICK w : pending = [c \in w \cup {25} |-> Unfound]
    BY DEF GtmInit
  <2>2. FoundTyped
    BY <1>0, <2>1 DEF FoundTyped
  <2> QED  BY <2>2 DEF GtmInit, AuditRest
<1>2. GtmInv /\ FoundTyped /\ [GtmNext]_gtmvars => FoundTyped'
  <2> SUFFICES ASSUME GtmInv, FoundTyped, [GtmNext]_gtmvars PROVE FoundTyped'
    OBVIOUS
  <2>1. ASSUME NEW c, NEW v \in Verdicts, NEW seen, Finds(c, v, seen) PROVE FoundTyped'
    <3> DEFINE r == [verdict |-> v, seen |-> Grave(seen)]
    <3>1. pending' = [pending EXCEPT ![c] = r] /\ r.verdict = v /\ r.seen = Grave(seen)
      BY <2>1 DEF Finds
    <3> HIDE DEF r
    <3>2. \A d \in DOMAIN pending' : d \in DOMAIN pending /\ (pending'[d] = r \/ pending'[d] = pending[d])
      BY <3>1
    <3> QED  BY <1>0, <3>1, <3>2 DEF FoundTyped
  <2>2. ASSUME NEW c, pending' = [pending EXCEPT ![c] = Unfound] PROVE FoundTyped'
    <3>1. \A d \in DOMAIN pending' : d \in DOMAIN pending /\ (pending'[d] = Unfound \/ pending'[d] = pending[d])
      BY <2>2
    <3> QED  BY <1>0, <3>1 DEF FoundTyped
  <2>3. ASSUME NEW c, NEW seen, Probes(c, seen) PROVE FoundTyped'
    <3>1. CASE Finds(c, VerdictOf(c, seen), seen)
      BY <1>0, <2>1, <3>1
    <3>2. CASE pending' = [d \in DOMAIN pending |->
                            IF d = 25 THEN pending[d]
                            ELSE [verdict |-> "blocked", seen |-> Grave(seen)]]
      <4> DEFINE r == [verdict |-> "blocked", seen |-> Grave(seen)]
      <4>1. r.verdict = "blocked" /\ r.seen = Grave(seen)
        OBVIOUS
      <4>2. \A d \in DOMAIN pending' : d \in DOMAIN pending /\ (pending'[d] = r \/ pending'[d] = pending[d])
        BY <3>2
      <4> HIDE DEF r
      <4> QED  BY <1>0, <4>1, <4>2 DEF FoundTyped, Verdicts
    <3> QED  BY <2>3, <3>1, <3>2 DEF Probes
  <2>4. ASSUME NEW seen, ProbesStress(seen) PROVE FoundTyped'
    BY <1>0, <2>1, <2>4 DEF ProbesStress
  <2>5. CASE ProbesAi
    <3>1. PICK v \in Verdicts : Finds(13, v, {})
      <4>1. (CASE scenario = "completed" -> "pass" [] scenario = "failed" -> "fail"
               [] OTHER -> "blocked") \in Verdicts
        BY DEF Verdicts
      <4> QED  BY <2>5, <4>1, Zenon DEF ProbesAi
    <3> QED  BY <2>1, <3>1
  <2>6. CASE ProbesReadiness
    <3>1. PICK v, seen : v \in Verdicts /\ Finds(25, v, seen)
      <4>1. (IF Ready(category) THEN "pass" ELSE "fail") \in Verdicts
        BY DEF Verdicts
      <4> QED  BY <2>6, <4>1, Zenon DEF ProbesReadiness
    <3> QED  BY <2>1, <3>1
  <2>7. ASSUME NEW c, WritesResult(c) \/ CheckKilled(c) PROVE FoundTyped'
    BY <2>2, <2>7 DEF WritesResult, CheckKilled
  <2>8. CASE UNCHANGED pending
    BY <2>8 DEF FoundTyped
  <2>9. \/ UNCHANGED pending \/ ProbesAi \/ ProbesReadiness
        \/ \E c \in DOMAIN pending : \/ WritesResult(c) \/ CheckKilled(c)
                                     \/ \E seen \in SUBSET Possible(c) : Probes(c, seen)
        \/ \E seen \in SUBSET (Possible(11) \ {"tools"}) : ProbesStress(seen)
    BY Zenon DEF GtmNext, gtmvars, FixRecorded, ScenarioEnds, ListsCategories, DispatchesGaps,
       RecordsCertificate
  <2> QED  BY <2>3, <2>4, <2>5, <2>6, <2>7, <2>8, <2>9
<1>3. GtmInv /\ AuditRest /\ [GtmNext]_gtmvars => AuditRest'
  <2> SUFFICES ASSUME GtmInv, AuditRest, [GtmNext]_gtmvars PROVE AuditRest'
    OBVIOUS
  <2>1. fix' \subseteq 1..25
    <3>1. UNCHANGED fix \/ \E c \in DOMAIN pending : WritesResult(c) \/ FixRecorded(c)
      BY Zenon DEF GtmNext, gtmvars, Probes, ProbesStress, ProbesAi, ScenarioEnds, ProbesReadiness,
         CheckKilled, ListsCategories, DispatchesGaps, RecordsCertificate
    <3>2. UNCHANGED fix \/ \E c \in DOMAIN pending : fix' \in {fix \ {c}, fix \cup {c}}
      BY <3>1 DEF WritesResult, FixRecorded
    <3>3. DOMAIN pending \subseteq 1..25
      BY DEF GtmInv, GtmTyped
    <3> QED  BY <3>2, <3>3 DEF AuditRest
  <2>2. stress' \in {"no", "due"}
    <3>1. \/ UNCHANGED stress
          \/ \E c \in DOMAIN pending : \/ CheckKilled(c)
                                       \/ \E seen \in SUBSET Possible(c) : Probes(c, seen)
          \/ \E seen \in SUBSET (Possible(11) \ {"tools"}) : ProbesStress(seen)
      BY Zenon DEF GtmNext, gtmvars, ProbesAi, ScenarioEnds, ProbesReadiness, WritesResult,
         FixRecorded, ListsCategories, DispatchesGaps, RecordsCertificate
    <3>2. stress' \in {stress, "no", "due"}
      BY <3>1, Zenon DEF CheckKilled, Probes, ProbesStress
    <3> QED  BY <3>2 DEF AuditRest
  <2>3. scenario' \in {"none", "flying", "completed", "failed"}
    <3>1. UNCHANGED scenario \/ ProbesAi \/ ScenarioEnds
      BY Zenon DEF GtmNext, gtmvars, Probes, ProbesStress, ProbesReadiness, WritesResult, CheckKilled,
         FixRecorded, ListsCategories, DispatchesGaps, RecordsCertificate
    <3> QED  BY <3>1 DEF ProbesAi, ScenarioEnds, AuditRest
  <2> QED  BY <2>1, <2>2, <2>3 DEF AuditRest
<1>4. GtmInv /\ FoundTyped /\ AuditRest => GtmTypeOK
  BY DEF GtmInv, GtmTyped, FoundTyped, AuditRest, GtmTypeOK
<1> QED  BY <1>1, <1>2, <1>3, <1>4, GtmBegins, GtmGoesOn, PTL DEF GtmSpec

-----------------------------------------------------------------------------
(* ComplianceAudit *)

\* The order of the log, and its entries about u.
Before(x, y) == x.at < y.at \/ (x.at = y.at /\ x.nr <= y.nr)
AboutUmr(u, log) == {x \in log : x.umr = u}

\* The audits are numbered: of each id, no two have one number, and one is the latest.
AuditsNumbered ==
    /\ time \in 0..MaxDay
    /\ DOMAIN compast = {"audits", "reused", "byHand", "changes"}
    /\ IsFiniteSet(compast.audits)
    /\ \A x \in compast.audits : /\ x.at \in Nat /\ x.at <= time
                                 /\ x.nr \in Nat /\ x.nr < Cardinality(compast.audits)
    /\ \A x, y \in compast.audits : x.umr = y.umr /\ x.nr = y.nr => x = y
    /\ \A u \in Umrs : AuditsOf(u) # {} =>
                          \E e \in AuditsOf(u) : \A x \in AuditsOf(u) : Before(x, e)

\* What retention has deleted or is to delete is archived, and older than what is left.
DeletedIsOld ==
    /\ entries \subseteq compast.audits
    /\ compast.audits \subseteq entries \cup archived
    /\ \A x \in compast.audits \ entries : x.at < time /\ \A y \in entries : x.at < y.at
    /\ DOMAIN retention = {"at", "cutoff"}
    /\ retention.at = "archived" =>
        /\ retention.cutoff \in Nat /\ retention.cutoff <= time
        /\ \A e \in entries : e.at < retention.cutoff => e \in archived

FlagsTold ==
    /\ DOMAIN flags = Umrs
    /\ \A u \in Umrs : \/ flags[u] = NoFlags
                       \/ flags[u] = Derived(u, AuditsOf(u))
                       \/ flags[u] = Derived(u, {}) /\ AuditsOf(u) \cap entries = {}

UseFields == {"status", "from", "until", "beat", "named", "linked"}
AUse(r) ==
    /\ DOMAIN r = UseFields
    /\ r.status \in {"absent", "active", "sigterm", "ended"}
    /\ r.from \in Nat /\ r.from <= time /\ r.until \in 0..Open

\* A row has no end while it runs for the first time.
RowsUsed ==
    /\ DOMAIN uses = Umrs
    /\ \A u \in Umrs : AUse(uses[u])
    /\ \A u \in Umrs : uses[u].status \in {"active", "sigterm"} /\ u \notin compast.reused
                          => uses[u].until = Open

\* v did not run when u was submitted, whatever becomes of v but a new use.
Apart(u, v) ==
    \/ uses[v].status = "absent"
    \/ uses[v].from >= uses[u].from
    \/ uses[v].status = "ended" /\ uses[v].until < uses[u].from

\* The rule of reuse was kept by every id of which an audit said so.
JudgedApart ==
    \A e \in compast.audits :
        e.umr \in Umrs /\ "reuse" \in e.set =>
            /\ uses[e.umr].status # "absent"
            /\ \A v \in Umrs : v \in e.ids /\ v # e.umr =>
                    v \in compast.reused \/ Apart(e.umr, v)

ComplianceInv ==
    /\ AuditsNumbered /\ DeletedIsOld /\ FlagsTold /\ RowsUsed /\ JudgedApart
    /\ auditing.canon.ids \subseteq Umrs /\ canon.ids \subseteq Umrs
    /\ DOMAIN auditing = {"at", "canon"}

\* Where one entry is the latest, it is the one that is chosen.
LEMMA LatestChosen ==
    ASSUME NEW u, NEW log, NEW e \in AboutUmr(u, log),
           \A x \in AboutUmr(u, log) : Before(x, e) /\ x.at \in Nat /\ x.nr \in Nat,
           \A x, y \in AboutUmr(u, log) : x.nr = y.nr => x = y
    PROVE  Latest(u, log) = e
<1> DEFINE S == AboutUmr(u, log)
           P(d) == \A x \in S : Before(x, d)
<1>1. \A d \in S : P(d) => d = e
  <2> SUFFICES ASSUME NEW d \in S, P(d) PROVE d = e
    OBVIOUS
  <2>1. Before(d, e) /\ Before(e, d)
    OBVIOUS
  <2>2. d.nr = e.nr
    BY <2>1 DEF Before
  <2> QED  BY <2>2
<1>2. Latest(u, log) = CHOOSE d \in S : P(d)
  BY DEF Latest, AboutUmr, Before
<1>3. e \in S /\ P(e)
  OBVIOUS
<1> HIDE DEF S, P
<1> QED  BY <1>1, <1>2, <1>3

LEMMA LatestIs ==
    ASSUME ComplianceInv, NEW u, NEW log \in SUBSET compast.audits, NEW e \in AboutUmr(u, log),
           \A x \in AboutUmr(u, log) : Before(x, e)
    PROVE  Latest(u, log) = e
<1>1. \A x \in AboutUmr(u, log) : x \in compast.audits /\ x.umr = u
  BY DEF AboutUmr
<1>2. \A x \in AboutUmr(u, log) : x.at \in Nat /\ x.nr \in Nat
  BY <1>1 DEF ComplianceInv, AuditsNumbered
<1>3. \A x, y \in AboutUmr(u, log) : x.nr = y.nr => x = y
  BY <1>1 DEF ComplianceInv, AuditsNumbered
<1> QED  BY <1>2, <1>3, LatestChosen

\* The flags derived from two logs are the same when they have the same latest entry, or none.
LEMMA DerivedAlike ==
    ASSUME NEW u, NEW A, NEW B, AboutUmr(u, A) # {}, AboutUmr(u, B) # {},
           Latest(u, A) = Latest(u, B)
    PROVE  Derived(u, A) = Derived(u, B)
<1>1. (\E x \in A : x.umr = u) = TRUE
  BY DEF AboutUmr
<1>2. (\E x \in B : x.umr = u) = TRUE
  BY DEF AboutUmr
<1> QED  BY <1>1, <1>2, Zenon DEF Derived

LEMMA DerivedNone ==
    ASSUME NEW u, NEW A, AboutUmr(u, A) = {}
    PROVE  Derived(u, A) = Derived(u, {})
<1>1. (\E x \in A : x.umr = u) = FALSE
  BY DEF AboutUmr
<1>2. (\E x \in {} : x.umr = u) = FALSE
  OBVIOUS
<1> QED  BY <1>1, <1>2, Zenon DEF Derived

\* What the triggers derive from the log is of the last audit, or of none when that is deleted.
LEMMA DerivedFromLog ==
    ASSUME ComplianceInv, NEW u \in Umrs
    PROVE  \/ Derived(u, entries) = Derived(u, AuditsOf(u))
           \/ Derived(u, entries) = Derived(u, {}) /\ AuditsOf(u) \cap entries = {}
<1>1. CASE AboutUmr(u, entries) = {}
  <2>1. AuditsOf(u) \cap entries = {}
    BY <1>1 DEF AboutUmr, AuditsOf
  <2> QED  BY <1>1, <2>1, DerivedNone
<1>2. CASE AboutUmr(u, entries) # {}
  <2>1. entries \subseteq compast.audits
    BY DEF ComplianceInv, DeletedIsOld
  <2>2. PICK y : y \in AboutUmr(u, entries)
    BY <1>2
  <2>3. AboutUmr(u, entries) \subseteq AuditsOf(u) /\ AboutUmr(u, AuditsOf(u)) = AuditsOf(u)
    BY <2>1 DEF AboutUmr, AuditsOf
  <2>4. PICK e \in AuditsOf(u) : \A x \in AuditsOf(u) : Before(x, e)
    BY <2>2, <2>3 DEF ComplianceInv, AuditsNumbered
  <2>5. e \in entries
    <3> SUFFICES ASSUME e \notin entries PROVE FALSE
      OBVIOUS
    <3>1. e \in compast.audits /\ y \in entries /\ y \in compast.audits
      BY <2>1, <2>2 DEF AuditsOf, AboutUmr
    <3>2. e.at < y.at /\ e.at \in Nat /\ y.at \in Nat
      BY <3>1 DEF ComplianceInv, DeletedIsOld, AuditsNumbered
    <3>3. Before(y, e)
      BY <2>2, <2>3, <2>4
    <3> QED  BY <3>2, <3>3 DEF Before
  <2>6. e \in AboutUmr(u, entries)
    BY <2>5 DEF AboutUmr, AuditsOf
  <2>7. Latest(u, entries) = e
    BY <2>1, <2>3, <2>4, <2>6, LatestIs
  <2>8. Latest(u, AuditsOf(u)) = e
    <3>1. AuditsOf(u) \in SUBSET compast.audits
      BY DEF AuditsOf
    <3> QED  BY <2>3, <2>4, <3>1, LatestIs
  <2>9. AboutUmr(u, AuditsOf(u)) # {}
    BY <2>3, <2>4
  <2> QED  BY <1>2, <2>7, <2>8, <2>9, DerivedAlike
<1> QED  BY <1>1, <1>2

\* Steps that leave audits, log, flags and rows alone.
LEMMA AuditPartStays ==
    ASSUME ComplianceInv, UNCHANGED <<entries, flags, archived, retention>>,
           compast'.audits = compast.audits, DOMAIN compast' = DOMAIN compast,
           time' \in 0..MaxDay, time <= time'
    PROVE  AuditsNumbered' /\ DeletedIsOld' /\ FlagsTold'
<1>1. \A u : AuditsOf(u)' = AuditsOf(u)
  BY DEF AuditsOf
<1>2. time \in Nat /\ time' \in Nat
  BY DEF ComplianceInv, AuditsNumbered
<1>3. \A x \in compast.audits : x.at \in Nat /\ x.at <= time
  BY DEF ComplianceInv, AuditsNumbered
<1>4. \A x \in compast.audits : x.at <= time' /\ (x.at < time => x.at < time')
  BY <1>2, <1>3
<1>5. AuditsNumbered'
  BY <1>1, <1>3, <1>4 DEF ComplianceInv, AuditsNumbered
<1>6. retention.at = "archived" => retention.cutoff \in Nat /\ retention.cutoff <= time'
  BY <1>2 DEF ComplianceInv, DeletedIsOld
<1>7. DeletedIsOld'
  BY <1>4, <1>6 DEF ComplianceInv, DeletedIsOld
<1>8. FlagsTold'
  <2> SUFFICES ASSUME NEW u \in Umrs
               PROVE  \/ flags[u] = NoFlags
                      \/ flags[u] = Derived(u, AuditsOf(u)')
                      \/ flags[u] = Derived(u, {}) /\ AuditsOf(u)' \cap entries = {}
    BY Zenon DEF ComplianceInv, FlagsTold
  <2>1. AuditsOf(u)' = AuditsOf(u)
    BY <1>1
  <2> QED  BY <2>1, Zenon DEF ComplianceInv, FlagsTold
<1> QED  BY <1>5, <1>7, <1>8

LEMMA ComplianceStarts == ComplianceInit => ComplianceInv
<1> SUFFICES ASSUME ComplianceInit PROVE ComplianceInv
  OBVIOUS
<1>0. MaxDay \in Nat
  BY ComplianceAssumption
<1>1. compast.audits = {} /\ DOMAIN compast = {"audits", "reused", "byHand", "changes"}
  BY DEF ComplianceInit
<1>2. AuditsNumbered
  BY <1>0, <1>1, FS_EmptySet DEF ComplianceInit, AuditsNumbered, AuditsOf
<1>3. DeletedIsOld
  BY <1>1 DEF ComplianceInit, DeletedIsOld
<1>4. FlagsTold
  BY DEF ComplianceInit, FlagsTold
<1>5. RowsUsed
  <2> SUFFICES ASSUME NEW u \in Umrs
               PROVE  AUse(uses[u]) /\ uses[u].status = "absent"
    BY DEF ComplianceInit, RowsUsed
  <2>1. uses[u] = NoUmr
    BY DEF ComplianceInit
  <2>2. Open \in 0..Open
    BY <1>0 DEF Open
  <2>3. PICK b \in BOOLEAN : b = FALSE
    OBVIOUS
  <2>4. NoUmr = [status |-> "absent", from |-> 0, until |-> Open, beat |-> b,
                 named |-> b, linked |-> b]
    BY <2>3, Zenon DEF NoUmr
  <2>5. time = 0
    BY DEF ComplianceInit
  <2> QED  BY <2>1, <2>2, <2>4, <2>5 DEF AUse, UseFields
<1>6. JudgedApart
  BY <1>1 DEF JudgedApart
<1> QED  BY <1>2, <1>3, <1>4, <1>5, <1>6 DEF ComplianceInit, ComplianceInv

\* A row is minted, changed, ended or used again.
LEMMA UseChanges ==
    ASSUME ComplianceInv, NEW u \in Umrs, NEW r,
           uses' = [uses EXCEPT ![u] = r], time' = time,
           DOMAIN r = UseFields, r.status \in {"active", "sigterm", "ended"},
           r.until \in 0..Open,
           r.from = IF uses[u].status = "absent" THEN time ELSE uses[u].from,
           compast'.audits = compast.audits, compast.reused \subseteq compast'.reused,
           r.status # "ended" /\ u \notin compast'.reused => r.until = Open,
           uses[u].status = "ended" =>
                u \in compast'.reused \/ (r.status = "ended" /\ r.until = uses[u].until)
    PROVE  RowsUsed' /\ JudgedApart'
<1>0. RowsUsed /\ JudgedApart /\ AuditsNumbered
  BY DEF ComplianceInv
<1>1. uses'[u] = r /\ \A v \in Umrs : v # u => uses'[v] = uses[v]
  BY <1>0 DEF RowsUsed
<1>2. AUse(uses[u]) /\ time \in Nat
  BY <1>0 DEF RowsUsed, AuditsNumbered
<1>3. r.from \in Nat /\ r.from <= time
  BY <1>2 DEF AUse
<1>4. RowsUsed'
  <2>1. \A v \in Umrs : AUse(uses[v])'
    <3> SUFFICES ASSUME NEW v \in Umrs PROVE AUse(uses[v])'
      OBVIOUS
    <3>1. CASE v = u
      BY <1>1, <1>3, <3>1 DEF AUse
    <3>2. CASE v # u
      BY <1>0, <1>1, <3>2 DEF AUse, RowsUsed
    <3> QED  BY <3>1, <3>2
  <2>2. \A v \in Umrs : uses'[v].status \in {"active", "sigterm"} /\ v \notin compast'.reused
                          => uses'[v].until = Open
    BY <1>0, <1>1 DEF RowsUsed
  <2>3. DOMAIN uses' = Umrs
    BY <1>0 DEF RowsUsed
  <2> QED  BY <2>1, <2>2, <2>3 DEF RowsUsed
<1>5. JudgedApart'
  <2> SUFFICES ASSUME NEW e \in compast.audits, e.umr \in Umrs, "reuse" \in e.set
               PROVE  /\ uses'[e.umr].status # "absent"
                      /\ \A v \in Umrs : v \in e.ids /\ v # e.umr =>
                            v \in compast'.reused \/ Apart(e.umr, v)'
    BY DEF JudgedApart
  <2>1. uses[e.umr].status # "absent" /\ uses'[e.umr].status # "absent"
    BY <1>0, <1>1 DEF JudgedApart
  <2>2. uses'[e.umr].from = uses[e.umr].from
    BY <1>1, <2>1
  <2> SUFFICES ASSUME NEW v \in Umrs, v \in e.ids, v # e.umr, v \notin compast'.reused
               PROVE  Apart(e.umr, v)'
    BY <2>1
  <2>3. Apart(e.umr, v)
    BY <1>0 DEF JudgedApart
  <2>4. CASE v # u
    BY <1>1, <2>2, <2>3, <2>4 DEF Apart
  <2>5. CASE v = u /\ uses[u].status = "absent"
    <3>1. uses[e.umr].from \in Nat /\ uses[e.umr].from <= time
      BY <1>0 DEF RowsUsed, AUse
    <3> QED  BY <1>1, <2>2, <2>5, <3>1 DEF Apart
  <2>6. CASE v = u /\ uses[u].status # "absent"
    <3>1. r.from = uses[u].from
      BY <2>6
    <3> QED  BY <1>1, <2>2, <2>3, <2>6, <3>1 DEF Apart
  <2> QED  BY <2>4, <2>5, <2>6
<1> QED  BY <1>4, <1>5

LEMMA ComplianceMints ==
    ASSUME ComplianceInv, NEW u \in Umrs, NEW named \in BOOLEAN, Mints(u, named)
    PROVE  ComplianceInv'
<1>0. MaxDay \in Nat
  BY ComplianceAssumption
<1>1. PICK r : /\ uses' = [uses EXCEPT ![u] = r] /\ DOMAIN r = UseFields
               /\ r.status \in {"active", "ended"} /\ r.until = Open /\ r.from = time
  <2>1. PICK refused \in BOOLEAN : refused = (named /\ LinkedActive # {})
    BY Zenon
  <2>2. PICK linked \in BOOLEAN : linked = (named /\ ~refused)
    BY Zenon
  <2>3. PICK b \in BOOLEAN : b = FALSE
    OBVIOUS
  <2>4. NoUmr = [status |-> "absent", from |-> 0, until |-> Open, beat |-> b,
                 named |-> b, linked |-> b]
    BY <2>3, Zenon DEF NoUmr
  <2> DEFINE r == [NoUmr EXCEPT !.status = IF refused THEN "ended" ELSE "active",
                                !.from = time, !.named = named, !.linked = linked]
  <2>5. uses' = [uses EXCEPT ![u] = r]
    BY <2>1, <2>2, Zenon DEF Mints
  <2>6. /\ DOMAIN r = UseFields /\ r.until = Open /\ r.from = time
        /\ r.status \in {"active", "ended"}
    BY <2>4 DEF UseFields
  <2> HIDE DEF r
  <2> QED  BY <2>5, <2>6
<1>2. /\ uses[u].status = "absent"
      /\ UNCHANGED <<time, canon, entries, flags, auditing, retention, archived, compast>>
  BY DEF Mints
<1>3. Open \in 0..Open
  BY <1>0 DEF Open
<1>4. RowsUsed' /\ JudgedApart'
  BY <1>1, <1>2, <1>3, UseChanges
<1>5. AuditsNumbered' /\ DeletedIsOld' /\ FlagsTold'
  <2>1. time \in 0..MaxDay /\ time <= time'
    BY <1>0, <1>2 DEF ComplianceInv, AuditsNumbered
  <2> QED  BY <1>2, <2>1, AuditPartStays
<1> QED  BY <1>2, <1>4, <1>5 DEF ComplianceInv

\* Steps that change neither audits nor the log and count the changes of rows and registry.
LEMMA ChangedStays ==
    ASSUME ComplianceInv, NEW S, Changed(S),
           UNCHANGED <<time, entries, flags, retention, archived>>
    PROVE  /\ AuditsNumbered' /\ DeletedIsOld' /\ FlagsTold'
           /\ compast'.audits = compast.audits
           /\ compast'.reused = compast.reused \cup S
<1>1. /\ compast'.audits = compast.audits /\ DOMAIN compast' = DOMAIN compast
      /\ compast'.reused = compast.reused \cup S
  BY DEF Changed, ComplianceInv, AuditsNumbered
<1>2. MaxDay \in Nat
  BY ComplianceAssumption
<1>3. time' \in 0..MaxDay /\ time <= time'
  BY <1>2 DEF ComplianceInv, AuditsNumbered
<1> QED  BY <1>1, <1>3, AuditPartStays

LEMMA ComplianceLinks ==
    ASSUME ComplianceInv, NEW u \in Umrs, LinksRow(u)
    PROVE  ComplianceInv'
<1>1. /\ Changed({}) /\ uses[u].status # "absent"
      /\ UNCHANGED <<time, canon, entries, flags, auditing, retention, archived>>
  BY DEF LinksRow
<1>2. AuditsNumbered' /\ DeletedIsOld' /\ FlagsTold' /\ compast'.audits = compast.audits
      /\ compast'.reused = compast.reused
  BY <1>1, ChangedStays
<1>3. PICK b \in BOOLEAN : b = TRUE
  OBVIOUS
<1> DEFINE r == [uses[u] EXCEPT !.linked = b]
<1>4. uses' = [uses EXCEPT ![u].linked = b]
  BY <1>3, Zenon DEF LinksRow
<1>5. uses' = [uses EXCEPT ![u] = r]
  BY <1>4
<1>6. AUse(uses[u]) /\ (uses[u].status # "ended" /\ u \notin compast.reused => uses[u].until = Open)
  BY <1>1 DEF ComplianceInv, RowsUsed, AUse
<1>7. /\ DOMAIN r = UseFields /\ r.status = uses[u].status /\ r.from = uses[u].from
      /\ r.until = uses[u].until
  BY <1>6 DEF AUse, UseFields
<1> HIDE DEF r
<1>8. r.status \in {"active", "sigterm", "ended"} /\ r.until \in 0..Open
  BY <1>1, <1>6, <1>7 DEF AUse
<1>9. RowsUsed' /\ JudgedApart'
  BY <1>1, <1>2, <1>5, <1>6, <1>7, <1>8, UseChanges
<1> QED  BY <1>1, <1>2, <1>9 DEF ComplianceInv

LEMMA ComplianceLives ==
    ASSUME ComplianceInv, NEW u \in Umrs, RowLives(u)
    PROVE  ComplianceInv'
<1> DEFINE S == {u} \ {v \in Umrs : uses[v].status # "ended"}
<1>1. /\ Changed(S)
      /\ UNCHANGED <<time, canon, entries, flags, auditing, retention, archived>>
  BY DEF RowLives
<1>2. AuditsNumbered' /\ DeletedIsOld' /\ FlagsTold' /\ compast'.audits = compast.audits
      /\ compast'.reused = compast.reused \cup S
  BY <1>1, ChangedStays
<1>3. u \in S <=> uses[u].status = "ended"
  OBVIOUS
<1> HIDE DEF S
<1>4. /\ AUse(uses[u]) /\ time \in 0..MaxDay
      /\ uses[u].status \in {"active", "sigterm"} /\ u \notin compast.reused => uses[u].until = Open
  BY DEF ComplianceInv, RowsUsed, AuditsNumbered
<1>5. MaxDay \in Nat
  BY ComplianceAssumption
<1>6. time \in 0..Open
  BY <1>4, <1>5 DEF Open
<1>7. PICK r : /\ uses' = [uses EXCEPT ![u] = r] /\ DOMAIN r = UseFields
               /\ r.from = uses[u].from /\ uses[u].status # "absent"
               /\ \/ /\ uses[u].status = "active" /\ r.status \in {"active", "sigterm"}
                     /\ r.until = uses[u].until
                  \/ r.status = "ended" /\ r.until = time /\ uses[u].status # "ended"
                  \/ uses[u].status = "ended" /\ r.status = "active" /\ r.until = uses[u].until
  <2>1. CASE Active(u) /\ uses' = [uses EXCEPT ![u].beat = TRUE]
    <3>1. PICK b \in BOOLEAN : b = TRUE
      OBVIOUS
    <3> DEFINE r == [uses[u] EXCEPT !.beat = b]
    <3>2. uses' = [uses EXCEPT ![u].beat = b]
      BY <2>1, <3>1, Zenon
    <3>3. uses' = [uses EXCEPT ![u] = r]
      BY <3>2
    <3>4. /\ DOMAIN r = UseFields /\ r.status = uses[u].status /\ r.from = uses[u].from
          /\ r.until = uses[u].until
      BY <1>4 DEF AUse, UseFields
    <3>5. uses[u].status = "active"
      BY <2>1 DEF Active
    <3> HIDE DEF r
    <3> QED  BY <3>3, <3>4, <3>5
  <2>2. CASE Active(u) /\ uses' = [uses EXCEPT ![u].status = "sigterm"]
    <3> DEFINE r == [uses[u] EXCEPT !.status = "sigterm"]
    <3>1. uses' = [uses EXCEPT ![u] = r]
      BY <2>2
    <3>2. /\ DOMAIN r = UseFields /\ r.status = "sigterm" /\ r.from = uses[u].from
          /\ r.until = uses[u].until
      BY <1>4 DEF AUse, UseFields
    <3>3. uses[u].status = "active"
      BY <2>2 DEF Active
    <3> HIDE DEF r
    <3> QED  BY <3>1, <3>2, <3>3
  <2>3. CASE /\ uses[u].status \in {"active", "sigterm"}
             /\ uses' = [uses EXCEPT ![u].status = "ended", ![u].until = time]
    <3> DEFINE r == [uses[u] EXCEPT !.status = "ended", !.until = time]
    <3>1. uses' = [uses EXCEPT ![u] = r]
      BY <2>3
    <3>2. /\ DOMAIN r = UseFields /\ r.status = "ended" /\ r.from = uses[u].from
          /\ r.until = time
      BY <1>4 DEF AUse, UseFields
    <3> HIDE DEF r
    <3> QED  BY <2>3, <3>1, <3>2
  <2>4. CASE uses[u].status = "ended" /\ uses' = [uses EXCEPT ![u].status = "active"]
    <3> DEFINE r == [uses[u] EXCEPT !.status = "active"]
    <3>1. uses' = [uses EXCEPT ![u] = r]
      BY <2>4
    <3>2. /\ DOMAIN r = UseFields /\ r.status = "active" /\ r.from = uses[u].from
          /\ r.until = uses[u].until
      BY <1>4 DEF AUse, UseFields
    <3> HIDE DEF r
    <3> QED  BY <2>4, <3>1, <3>2
  <2> QED  BY <2>1, <2>2, <2>3, <2>4, Zenon DEF RowLives
<1>8. r.status \in {"active", "sigterm", "ended"} /\ r.until \in 0..Open
  BY <1>4, <1>6, <1>7 DEF AUse
<1>9. r.status # "ended" /\ u \notin compast'.reused => r.until = Open
  BY <1>2, <1>3, <1>4, <1>7
<1>10. uses[u].status = "ended" => u \in compast'.reused
  BY <1>2, <1>3
<1>11. r.from = IF uses[u].status = "absent" THEN time ELSE uses[u].from
  BY <1>7
<1>12. compast.reused \subseteq compast'.reused
  BY <1>2
<1>13. RowsUsed' /\ JudgedApart'
  BY <1>1, <1>2, <1>7, <1>8, <1>9, <1>10, <1>11, <1>12, UseChanges
<1> QED  BY <1>1, <1>2, <1>13 DEF ComplianceInv

LEMMA ComplianceAudits ==
    ASSUME ComplianceInv, NEW shown \in GitShows, Audits(shown)
    PROVE  ComplianceInv'
<1> DEFINE all == auditing.canon.ids
           count == Cardinality(compast.audits)
           new == [u \in all |->
                    [umr |-> u, nr |-> count, at |-> time, ids |-> all,
                     set |-> RulesKept(u, all) \cup FactsOf(auditing.canon.file, shown)]]
           more == {new[u] : u \in all}
<1>1. /\ entries' = entries \cup more
      /\ flags' = [u \in Umrs |-> IF u \in all THEN Derived(u, entries \cup more) ELSE flags[u]]
      /\ compast' = [compast EXCEPT !.audits = @ \cup more]
      /\ auditing' = [auditing EXCEPT !.at = "off"]
      /\ UNCHANGED <<time, uses, canon, retention, archived>>
  <2>1. more = {[umr |-> u, nr |-> count, at |-> time, ids |-> all,
                 set |-> RulesKept(u, all) \cup FactsOf(auditing.canon.file, shown)] : u \in all}
    OBVIOUS
  <2> HIDE DEF more
  <2> QED  BY <2>1, Zenon DEF Audits, Triggered
<1>2. \A u \in all : /\ new[u].umr = u /\ new[u].nr = count /\ new[u].at = time
                     /\ new[u].ids = all
                     /\ new[u].set = RulesKept(u, all) \cup FactsOf(auditing.canon.file, shown)
  OBVIOUS
<1>3. all \subseteq Umrs /\ IsFiniteSet(all)
  <2>1. all \in SUBSET Umrs /\ IsFiniteSet(Umrs)
    BY ComplianceAssumption DEF ComplianceInv
  <2> HIDE DEF all
  <2> QED  BY <2>1, FS_Subset
<1>4. new \in Surjection(all, more)
  <2>1. new \in [all -> more]
    OBVIOUS
  <2>2. \A x \in more : \E u \in all : new[u] = x
    OBVIOUS
  <2> HIDE DEF all, new, more
  <2> QED  BY <2>1, <2>2 DEF Surjection
<1> HIDE DEF all, new
<1>5. (\A x \in more : x.umr \in all /\ x = new[x.umr]) /\ \A u \in all : new[u] \in more
  <2>1. \A u \in all : new[u].umr = u
    BY <1>2
  <2> QED  BY <2>1
<1> HIDE DEF more
<1>6. IsFiniteSet(more)
  BY <1>3, <1>4, FS_Surjection
<1>7. AuditsNumbered
  BY DEF ComplianceInv
<1>8. compast'.audits = compast.audits \cup more /\ DOMAIN compast' = DOMAIN compast
      /\ compast'.reused = compast.reused
  BY <1>1, <1>7 DEF AuditsNumbered
<1>9. count \in Nat /\ time \in Nat /\ MaxDay \in Nat
  BY <1>7, FS_CardinalityType, ComplianceAssumption DEF AuditsNumbered
<1>10. IsFiniteSet(compast'.audits)
  <2>1. IsFiniteSet(compast.audits)
    BY <1>7 DEF AuditsNumbered
  <2>2. IsFiniteSet(compast.audits \cup more)
    BY <1>6, <2>1, FS_Union
  <2> QED  BY <1>8, <2>2
<1>11. /\ Cardinality(compast'.audits) \in Nat
       /\ count <= Cardinality(compast'.audits)
       /\ more # {} => count < Cardinality(compast'.audits)
  <2>1. compast.audits \in SUBSET compast'.audits
    BY <1>8
  <2>2. /\ count <= Cardinality(compast'.audits)
        /\ Cardinality(compast'.audits) = count => compast'.audits = compast.audits
    BY <1>10, <2>1, FS_Subset
  <2>3. Cardinality(compast'.audits) \in Nat
    BY <1>10, FS_CardinalityType
  <2>4. more # {} => compast'.audits # compast.audits
    <3> SUFFICES ASSUME NEW x \in more, x \in compast.audits PROVE FALSE
      BY <1>8
    <3>1. x.nr = count
      BY <1>2, <1>5
    <3>2. x.nr < count
      BY <1>7 DEF AuditsNumbered
    <3> QED  BY <1>9, <3>1, <3>2
  <2> QED  BY <1>9, <2>2, <2>3, <2>4
<1> HIDE DEF count
<1>12. \A x \in more : x.nr = count /\ x.at = time
  BY <1>2, <1>5
<1>13. \A x \in compast.audits : x.nr \in Nat /\ x.nr < count /\ x.at \in Nat /\ x.at <= time
  BY <1>7 DEF AuditsNumbered, count
<1>14. \A u : u \notin all => AuditsOf(u)' = AuditsOf(u) /\ \A x \in more : x.umr # u
  BY <1>5, <1>8 DEF AuditsOf
<1>15. \A u \in all : AuditsOf(u)' = AuditsOf(u) \cup {new[u]}
  BY <1>2, <1>5, <1>8 DEF AuditsOf
<1>16. \A u \in all : \A x \in AuditsOf(u)' : Before(x, new[u])
  <2> SUFFICES ASSUME NEW u \in all, NEW x \in AuditsOf(u)' PROVE Before(x, new[u])
    OBVIOUS
  <2>1. x \in AuditsOf(u) => x \in compast.audits
    BY DEF AuditsOf
  <2> QED  BY <1>2, <1>9, <1>13, <1>15, <2>1 DEF Before
<1>17. \A x, y \in compast'.audits : x.umr = y.umr /\ x.nr = y.nr => x = y
  <2> SUFFICES ASSUME NEW x \in compast'.audits, NEW y \in compast'.audits,
                      x.umr = y.umr, x.nr = y.nr
               PROVE  x = y
    OBVIOUS
  <2>1. CASE x \in more /\ y \in more
    BY <1>5, <2>1
  <2>2. CASE x \in compast.audits /\ y \in compast.audits
    BY <1>7, <2>2 DEF AuditsNumbered
  <2>3. CASE x \in more /\ y \in compast.audits
    BY <1>9, <1>12, <1>13, <2>3
  <2>4. CASE x \in compast.audits /\ y \in more
    BY <1>9, <1>12, <1>13, <2>4
  <2> QED  BY <1>8, <2>1, <2>2, <2>3, <2>4
<1>18. AuditsNumbered'
  <2>1. time' \in 0..MaxDay
    BY <1>1, <1>7 DEF AuditsNumbered
  <2>2. DOMAIN compast' = {"audits", "reused", "byHand", "changes"}
    BY <1>7, <1>8 DEF AuditsNumbered
  <2>3. \A x \in compast'.audits : /\ x.at \in Nat /\ x.at <= time'
                                   /\ x.nr \in Nat /\ x.nr < Cardinality(compast'.audits)
    BY <1>1, <1>8, <1>9, <1>11, <1>12, <1>13
  <2>4. \A u \in Umrs : AuditsOf(u)' # {} =>
            \E e \in AuditsOf(u)' : \A x \in AuditsOf(u)' : Before(x, e)
    <3> SUFFICES ASSUME NEW u \in Umrs, AuditsOf(u)' # {}
                 PROVE  \E e \in AuditsOf(u)' : \A x \in AuditsOf(u)' : Before(x, e)
      OBVIOUS
    <3>1. CASE u \in all
      <4>1. new[u] \in AuditsOf(u)'
        BY <1>15, <3>1
      <4> QED  BY <1>16, <3>1, <4>1
    <3>2. CASE u \notin all
      BY <1>7, <1>14, <3>2 DEF AuditsNumbered
    <3> QED  BY <3>1, <3>2
  <2> QED  BY <1>10, <1>17, <2>1, <2>2, <2>3, <2>4 DEF AuditsNumbered
<1>19. DeletedIsOld'
  <2>1. DeletedIsOld
    BY DEF ComplianceInv
  <2>2. entries' \subseteq compast'.audits /\ compast'.audits \subseteq entries' \cup archived'
    BY <1>1, <1>8, <2>1 DEF DeletedIsOld
  <2>3. \A x \in compast'.audits \ entries' : x \in compast.audits \ entries
    BY <1>1, <1>8
  <2>4. \A x \in compast'.audits \ entries' : x.at < time' /\ \A y \in entries' : x.at < y.at
    BY <1>1, <1>12, <2>1, <2>3 DEF DeletedIsOld
  <2>5. retention'.at = "archived" => \A e \in entries' : e.at < retention'.cutoff => e \in archived'
    BY <1>1, <1>9, <1>12, <2>1 DEF DeletedIsOld
  <2> QED  BY <1>1, <2>1, <2>2, <2>4, <2>5 DEF DeletedIsOld
<1>20. FlagsTold'
  <2>1. DOMAIN flags' = Umrs
    BY <1>1
  <2> SUFFICES ASSUME NEW u \in Umrs
               PROVE  \/ flags'[u] = NoFlags
                      \/ flags'[u] = Derived(u, AuditsOf(u)')
                      \/ flags'[u] = Derived(u, {}) /\ AuditsOf(u)' \cap entries' = {}
    BY <2>1, Zenon DEF FlagsTold
  <2>2. CASE u \in all
    <3>1. flags'[u] = Derived(u, entries \cup more)
      BY <1>1, <2>2
    <3>2. /\ AboutUmr(u, entries \cup more) \subseteq AuditsOf(u)'
          /\ new[u] \in AboutUmr(u, entries \cup more)
          /\ new[u] \in AuditsOf(u)' /\ AboutUmr(u, AuditsOf(u)') = AuditsOf(u)'
          /\ \A x \in AuditsOf(u)' : x \in compast'.audits /\ x.umr = u
      BY <1>2, <1>5, <1>8, <1>15, <2>2 DEF AboutUmr, AuditsOf, ComplianceInv, DeletedIsOld
    <3>3. \A x \in AuditsOf(u)' : Before(x, new[u]) /\ x.at \in Nat /\ x.nr \in Nat
      BY <1>16, <1>18, <2>2, <3>2 DEF AuditsNumbered
    <3>4. \A x, y \in AuditsOf(u)' : x.nr = y.nr => x = y
      BY <1>17, <3>2
    <3>5. Latest(u, entries \cup more) = new[u]
      BY <3>2, <3>3, <3>4, LatestChosen
    <3>6. Latest(u, AuditsOf(u)') = new[u]
      BY <3>2, <3>3, <3>4, LatestChosen
    <3>7. AboutUmr(u, entries \cup more) # {} /\ AboutUmr(u, AuditsOf(u)') # {}
      BY <3>2
    <3>8. Derived(u, entries \cup more) = Derived(u, AuditsOf(u)')
      BY <3>5, <3>6, <3>7, DerivedAlike
    <3> QED  BY <3>1, <3>8
  <2>3. CASE u \notin all
    <3>1. flags'[u] = flags[u] /\ AuditsOf(u)' = AuditsOf(u)
      BY <1>1, <1>14, <2>3
    <3>2. AuditsOf(u)' \cap entries' = AuditsOf(u) \cap entries
      BY <1>1, <1>14, <2>3, <3>1 DEF AuditsOf
    <3>3. FlagsTold
      BY DEF ComplianceInv
    <3> QED  BY <3>1, <3>2, <3>3, Zenon DEF FlagsTold
  <2> QED  BY <2>2, <2>3
<1>21. RowsUsed'
  BY <1>1, <1>8 DEF ComplianceInv, RowsUsed, AUse
<1>22. JudgedApart'
  <2> SUFFICES ASSUME NEW e \in compast'.audits, e.umr \in Umrs, "reuse" \in e.set
               PROVE  /\ uses[e.umr].status # "absent"
                      /\ \A v \in Umrs : v \in e.ids /\ v # e.umr =>
                            v \in compast.reused \/ Apart(e.umr, v)
    BY <1>1, <1>8 DEF JudgedApart, Apart
  <2>1. CASE e \in compast.audits
    BY <2>1 DEF ComplianceInv, JudgedApart
  <2>2. CASE e \in more
    <3>1. e = new[e.umr] /\ e.umr \in all
      BY <1>5, <2>2
    <3>2. "reuse" \in RulesKept(e.umr, all) \cup FactsOf(auditing.canon.file, shown) /\ e.ids = all
      BY <1>2, <3>1, Zenon
    <3>3. "reuse" \notin FactsOf(auditing.canon.file, shown)
      BY DEF FactsOf, Facts
    <3>4. uses[e.umr].status # "absent" /\ Kept("reuse", e.umr, all)
      BY <3>2, <3>3 DEF RulesKept
    <3>5. ~Overlapped(e.umr, all)
      BY <3>4 DEF Kept
    <3> SUFFICES ASSUME NEW v \in Umrs, v \in all, v # e.umr, v \notin compast.reused
                 PROVE  Apart(e.umr, v)
      BY <3>2, <3>4
    <3>6. \/ uses[v].status = "absent"
          \/ ~(uses[v].from <= uses[e.umr].from)
          \/ ~(uses[e.umr].from <= uses[v].until)
      BY <3>5 DEF Overlapped
    <3>7. /\ AUse(uses[v]) /\ AUse(uses[e.umr])
          /\ uses[v].status \in {"active", "sigterm"} => uses[v].until = Open
      BY DEF ComplianceInv, RowsUsed
    <3>8. time <= MaxDay
      BY <1>7 DEF AuditsNumbered
    <3> QED  BY <1>9, <3>6, <3>7, <3>8 DEF Apart, AUse, Open
  <2> QED  BY <1>8, <2>1, <2>2
<1>23. auditing'.canon.ids \subseteq Umrs /\ canon'.ids \subseteq Umrs /\ DOMAIN auditing' = {"at", "canon"}
  BY <1>1 DEF ComplianceInv
<1> QED  BY <1>18, <1>19, <1>20, <1>21, <1>22, <1>23 DEF ComplianceInv

LEMMA ComplianceElse ==
    ASSUME ComplianceInv,
           \/ \E u \in Umrs : EditsByHand(u)
           \/ \E ids \in SUBSET Umrs, file \in Canons : WritesCanon(ids, file)
           \/ Plans \/ AuditKilled \/ TimePasses
           \/ RetentionArchives \/ RetentionDeletes \/ RetentionFails
           \/ UNCHANGED compvars
    PROVE  ComplianceInv'
<1>0. /\ time \in Nat /\ time <= MaxDay /\ MaxDay \in Nat
      /\ DOMAIN compast = {"audits", "reused", "byHand", "changes"}
      /\ DOMAIN auditing = {"at", "canon"} /\ DOMAIN retention = {"at", "cutoff"}
  BY ComplianceAssumption DEF ComplianceInv, AuditsNumbered, DeletedIsOld
<1>1. ASSUME UNCHANGED <<entries, flags, archived, retention>>,
             compast'.audits = compast.audits, DOMAIN compast' = DOMAIN compast,
             compast.reused = compast'.reused, UNCHANGED uses,
             time' = time \/ (time < MaxDay /\ time' = time + 1),
             DOMAIN auditing' = DOMAIN auditing, auditing'.canon.ids \subseteq Umrs,
             canon'.ids \subseteq Umrs
      PROVE  ComplianceInv'
  <2>1. time' \in 0..MaxDay /\ time <= time'
    BY <1>0, <1>1
  <2>2. AuditsNumbered' /\ DeletedIsOld' /\ FlagsTold'
    BY <1>1, <2>1, AuditPartStays
  <2>3. RowsUsed'
    <3>1. \A u \in Umrs : AUse(uses[u])'
      <4> SUFFICES ASSUME NEW u \in Umrs PROVE AUse(uses[u])'
        OBVIOUS
      <4>1. AUse(uses[u])
        BY DEF ComplianceInv, RowsUsed
      <4> QED  BY <1>0, <1>1, <2>1, <4>1 DEF AUse
    <3> QED  BY <1>1, <3>1 DEF ComplianceInv, RowsUsed
  <2>4. JudgedApart'
    BY <1>1 DEF ComplianceInv, JudgedApart, Apart
  <2> QED  BY <1>0, <1>1, <2>2, <2>3, <2>4 DEF ComplianceInv
<1>2. ASSUME NEW u \in Umrs, EditsByHand(u) PROVE ComplianceInv'
  <2>1. /\ flags' = [flags EXCEPT ![u] = Derived(u, entries)]
        /\ compast' = [compast EXCEPT !.byHand = @ + 1]
        /\ UNCHANGED <<time, uses, canon, entries, auditing, retention, archived>>
    BY <1>2 DEF EditsByHand, Triggered
  <2>2. /\ compast'.audits = compast.audits /\ compast'.reused = compast.reused
        /\ DOMAIN compast' = DOMAIN compast
    BY <1>0, <2>1
  <2>3. \A v : AuditsOf(v)' = AuditsOf(v)
    BY <2>2 DEF AuditsOf
  <2>4. FlagsTold'
    <3>1. FlagsTold
      BY DEF ComplianceInv
    <3>2. DOMAIN flags' = Umrs /\ flags'[u] = Derived(u, entries)
          /\ \A v \in Umrs : v # u => flags'[v] = flags[v]
      BY <2>1, <3>1 DEF FlagsTold
    <3> SUFFICES ASSUME NEW v \in Umrs
                 PROVE  \/ flags'[v] = NoFlags
                        \/ flags'[v] = Derived(v, AuditsOf(v)')
                        \/ flags'[v] = Derived(v, {}) /\ AuditsOf(v)' \cap entries' = {}
      BY <3>2, Zenon DEF FlagsTold
    <3>3. AuditsOf(v)' = AuditsOf(v) /\ entries' = entries
      BY <2>1, <2>3
    <3>4. CASE v = u
      BY <3>2, <3>3, <3>4, DerivedFromLog
    <3>5. CASE v # u
      BY <3>1, <3>2, <3>3, <3>5, Zenon DEF FlagsTold
    <3> QED  BY <3>4, <3>5
  <2>5. AuditsNumbered'
    BY <2>1, <2>2, <2>3 DEF ComplianceInv, AuditsNumbered
  <2>6. DeletedIsOld'
    BY <2>1, <2>2 DEF ComplianceInv, DeletedIsOld
  <2>7. RowsUsed' /\ JudgedApart'
    BY <2>1, <2>2 DEF ComplianceInv, RowsUsed, AUse, JudgedApart, Apart
  <2> QED  BY <2>1, <2>4, <2>5, <2>6, <2>7 DEF ComplianceInv
<1>3. ASSUME NEW S \in SUBSET Umrs, NEW file \in Canons, WritesCanon(S, file)
      PROVE  ComplianceInv'
  <2>1. canon'.ids = S /\ compast' = [compast EXCEPT !.changes = @ + 1, !.reused = @ \cup {}]
        /\ UNCHANGED <<time, uses, entries, flags, auditing, retention, archived>>
    BY <1>3 DEF WritesCanon, Changed
  <2>2. /\ compast'.audits = compast.audits /\ compast'.reused = compast.reused
        /\ DOMAIN compast' = DOMAIN compast
    BY <1>0, <2>1
  <2>3. auditing.canon.ids \subseteq Umrs
    BY DEF ComplianceInv
  <2> QED  BY <1>1, <2>1, <2>2, <2>3
<1>4. CASE Plans \/ AuditKilled \/ TimePasses \/ UNCHANGED compvars
  <2>1. auditing.canon.ids \subseteq Umrs /\ canon.ids \subseteq Umrs
    BY DEF ComplianceInv
  <2>2. /\ UNCHANGED <<entries, flags, archived, retention, compast, uses, canon>>
        /\ time' = time \/ (time < MaxDay /\ time' = time + 1)
        /\ DOMAIN auditing' = DOMAIN auditing /\ auditing'.canon.ids \subseteq Umrs
    BY <1>0, <1>4, <2>1 DEF Plans, AuditKilled, TimePasses, compvars
  <2> QED  BY <1>1, <2>1, <2>2
<1>5. CASE RetentionArchives \/ RetentionDeletes \/ RetentionFails
  <2>1. UNCHANGED <<time, uses, canon, flags, auditing, compast>>
    BY <1>5 DEF RetentionArchives, RetentionDeletes, RetentionFails
  <2>2. /\ entries' \subseteq entries /\ archived \subseteq archived'
        /\ \A x \in entries \ entries' : /\ x \in archived' /\ x.at < time
                                         /\ \A y \in entries' : x.at < y.at
        /\ DOMAIN retention' = {"at", "cutoff"}
        /\ retention'.at = "archived" =>
             /\ retention'.cutoff \in Nat /\ retention'.cutoff <= time
             /\ \A e \in entries' : e.at < retention'.cutoff => e \in archived'
    <3>1. RetainFor \in Nat
      BY ComplianceAssumption
    <3>2. \A x \in entries : x.at \in Nat
      BY DEF ComplianceInv, AuditsNumbered, DeletedIsOld
    <3>3. CASE RetentionArchives
      BY <1>0, <3>1, <3>2, <3>3 DEF RetentionArchives
    <3>4. CASE RetentionDeletes
      BY <1>0, <3>2, <3>4 DEF RetentionDeletes, ComplianceInv, DeletedIsOld
    <3>5. CASE RetentionFails
      BY <1>0, <3>5 DEF RetentionFails
    <3> QED  BY <1>5, <3>3, <3>4, <3>5
  <2>3. DeletedIsOld'
    BY <2>1, <2>2 DEF ComplianceInv, DeletedIsOld
  <2>4. \A v : AuditsOf(v)' = AuditsOf(v)
    BY <2>1 DEF AuditsOf
  <2>5. AuditsNumbered'
    BY <2>1, <2>4 DEF ComplianceInv, AuditsNumbered
  <2>6. FlagsTold'
    <3> SUFFICES ASSUME NEW v \in Umrs
                 PROVE  \/ flags[v] = NoFlags
                        \/ flags[v] = Derived(v, AuditsOf(v)')
                        \/ flags[v] = Derived(v, {}) /\ AuditsOf(v)' \cap entries' = {}
      BY <2>1, Zenon DEF FlagsTold, ComplianceInv
    <3>1. AuditsOf(v)' = AuditsOf(v) /\ (AuditsOf(v) \cap entries = {} => AuditsOf(v)' \cap entries' = {})
      BY <2>2, <2>4
    <3> QED  BY <3>1, Zenon DEF ComplianceInv, FlagsTold
  <2>7. RowsUsed' /\ JudgedApart'
    BY <2>1 DEF ComplianceInv, RowsUsed, AUse, JudgedApart, Apart
  <2> QED  BY <2>1, <2>3, <2>5, <2>6, <2>7 DEF ComplianceInv
<1> QED  BY <1>2, <1>3, <1>4, <1>5

LEMMA ComplianceStep == ComplianceInv /\ [ComplianceNext]_compvars => ComplianceInv'
<1> SUFFICES ASSUME ComplianceInv, [ComplianceNext]_compvars PROVE ComplianceInv'
  OBVIOUS
<1>1. \/ \E u \in Umrs : \E named \in BOOLEAN : Mints(u, named)
      \/ \E u \in Umrs : LinksRow(u)
      \/ \E u \in Umrs : RowLives(u)
      \/ \E shown \in GitShows : Audits(shown)
      \/ \/ \E u \in Umrs : EditsByHand(u)
         \/ \E ids \in SUBSET Umrs, file \in Canons : WritesCanon(ids, file)
         \/ Plans \/ AuditKilled \/ TimePasses
         \/ RetentionArchives \/ RetentionDeletes \/ RetentionFails
         \/ UNCHANGED compvars
  BY DEF ComplianceNext
<1> QED
  BY <1>1, ComplianceMints, ComplianceLinks, ComplianceLives, ComplianceAudits, ComplianceElse

\* The flags of a row that passed are those of its latest audit, which found its
\* use apart from the others.
LEMMA ComplianceHolds == ComplianceInv => ComplianceKept
<1> SUFFICES ASSUME ComplianceInv PROVE ComplianceKept
  OBVIOUS
<1>1. ArchivedFirst
  BY DEF ArchivedFirst, ComplianceInv, DeletedIsOld
<1>2. FlagsOfLastAudit
  <2>1. ~NoFlags.exists
    <3>1. PICK b \in BOOLEAN : b = FALSE
      OBVIOUS
    <3>2. NoFlags = [exists |-> b, set |-> {}, done |-> b, passed |-> b]
      BY <3>1, Zenon DEF NoFlags
    <3>3. NoFlags.exists = b
      BY <3>2
    <3> QED  BY <3>1, <3>3
  <2> QED  BY <2>1, Zenon DEF FlagsOfLastAudit, ComplianceInv, FlagsTold
<1>3. DuplicateNeverPasses
  <2> SUFFICES ASSUME NEW u \in Umrs, NEW v \in Umrs,
                      flags[u].passed, u # v, v \notin compast.reused,
                      uses[v].status # "absent", v \in Latest(u, AuditsOf(u)).ids,
                      uses[v].from < uses[u].from, uses[u].from < uses[v].until
               PROVE  FALSE
    BY DEF DuplicateNeverPasses
  <2>1. ~NoFlags.passed
    <3>1. PICK b \in BOOLEAN : b = FALSE
      OBVIOUS
    <3>2. NoFlags = [exists |-> b, set |-> {}, done |-> b, passed |-> b]
      BY <3>1, Zenon DEF NoFlags
    <3>3. NoFlags.passed = b
      BY <3>2
    <3> QED  BY <3>1, <3>3
  <2>2. \A S : Derived(u, S).passed => AboutUmr(u, S) # {} /\ "reuse" \in Latest(u, S).set
    <3> SUFFICES ASSUME NEW S, Derived(u, S).passed
                 PROVE  AboutUmr(u, S) # {} /\ "reuse" \in Latest(u, S).set
      OBVIOUS
    <3> DEFINE set == IF \E x \in S : x.umr = u THEN Latest(u, S).set ELSE {}
    <3>1. PICK a \in BOOLEAN : a = \E x \in S : x.umr = u
      BY Zenon
    <3>2. PICK b \in BOOLEAN : b = (Rules \subseteq set)
      BY Zenon
    <3>3. PICK c \in BOOLEAN : c = TRUE
      OBVIOUS
    <3>4. Derived(u, S) = [exists |-> c, set |-> set, done |-> a, passed |-> b]
      BY <3>1, <3>2, <3>3, Zenon DEF Derived
    <3> HIDE DEF set
    <3>5. Derived(u, S).passed = b
      BY <3>4
    <3>6. Rules \subseteq set
      BY <3>2, <3>5
    <3>7. "reuse" \in set
      BY <3>6 DEF Rules
    <3> QED  BY <3>7 DEF set, AboutUmr
  <2>3. flags[u] = Derived(u, AuditsOf(u))
    <3>1. AboutUmr(u, {}) = {}
      BY DEF AboutUmr
    <3>2. flags[u] # NoFlags /\ flags[u] # Derived(u, {})
      BY <2>1, <2>2, <3>1
    <3> QED  BY <3>2, Zenon DEF ComplianceInv, FlagsTold
  <2>4. AboutUmr(u, AuditsOf(u)) # {} /\ "reuse" \in Latest(u, AuditsOf(u)).set
    BY <2>2, <2>3
  <2>5. AboutUmr(u, AuditsOf(u)) = AuditsOf(u) /\ AuditsOf(u) \in SUBSET compast.audits
    BY DEF AboutUmr, AuditsOf
  <2>6. PICK e \in AuditsOf(u) : \A x \in AuditsOf(u) : Before(x, e)
    BY <2>4, <2>5 DEF ComplianceInv, AuditsNumbered
  <2>7. Latest(u, AuditsOf(u)) = e
    BY <2>5, <2>6, LatestIs
  <2>8. e \in compast.audits /\ e.umr = u
    BY <2>6 DEF AuditsOf
  <2>9. Apart(u, v)
    BY <2>4, <2>7, <2>8 DEF ComplianceInv, JudgedApart
  <2>10. AUse(uses[v]) /\ AUse(uses[u])
    BY DEF ComplianceInv, RowsUsed
  <2>11. Open \in Nat
    BY ComplianceAssumption DEF Open
  <2> QED  BY <2>9, <2>10, <2>11 DEF Apart, AUse
<1> QED  BY <1>1, <1>2, <1>3 DEF ComplianceKept

\* For every set of ids, mechanisms and entries of the log, and every retention: the state of
\* compliance tells the last audit, and what retention removes was archived.
THEOREM ComplianceIsKept == ComplianceSpec => []ComplianceKept
<1> QED
  BY ComplianceStarts, ComplianceStep, ComplianceHolds, PTL DEF ComplianceSpec

\* A row of the register in full, and the rest of the audit's records.
AFullUse == [status : {"absent", "active", "sigterm", "ended"}, from : 0..MaxDay, until : 0..Open,
             beat : BOOLEAN, named : BOOLEAN, linked : BOOLEAN]
RowsTyped == uses \in [Umrs -> AFullUse]
AuditTyped ==
    /\ canon \in [ids : SUBSET Umrs, file : Canons]
    /\ archived \subseteq compast.audits
    /\ auditing.at \in {"off", "planned"} /\ retention.at \in {"off", "archived"}
    /\ \A x \in compast.audits : x.set \subseteq Rules \cup Facts
    /\ flags = [u \in Umrs |-> flags[u]]

LEMMA NoUseTyped == NoUmr \in AFullUse
<1>1. PICK n \in BOOLEAN : n = FALSE
  OBVIOUS
<1>2. NoUmr = [status |-> "absent", from |-> 0, until |-> Open, beat |-> n, named |-> n, linked |-> n]
  BY <1>1, Zenon DEF NoUmr
<1>3. 0 \in 0..MaxDay /\ Open \in 0..Open
  BY ComplianceAssumption DEF Open
<1> QED  BY <1>2, <1>3 DEF AFullUse

\* An act on a row keeps its type.
LEMMA RowsStayTyped == ComplianceInv /\ RowsTyped /\ [ComplianceNext]_compvars => RowsTyped'
<1> SUFFICES ASSUME ComplianceInv, RowsTyped, [ComplianceNext]_compvars PROVE RowsTyped'
  OBVIOUS
<1>0. /\ MaxDay \in Nat /\ Open \in 0..Open /\ time \in 0..MaxDay /\ time \in 0..Open
      /\ uses \in [Umrs -> AFullUse]
  BY ComplianceAssumption DEF ComplianceInv, AuditsNumbered, Open, RowsTyped
<1>1. ASSUME NEW u \in Umrs, NEW r \in AFullUse, uses' = [uses EXCEPT ![u] = r] PROVE RowsTyped'
  BY <1>0, <1>1 DEF RowsTyped
<1>2. ASSUME NEW u \in Umrs, NEW named \in BOOLEAN, Mints(u, named) PROVE RowsTyped'
  <2>1. PICK b \in BOOLEAN : b <=> named /\ LinkedActive # {}
    OBVIOUS
  <2>2. PICK c \in BOOLEAN : c <=> named /\ ~b
    OBVIOUS
  <2>3. PICK st \in {"ended", "active"} : st = IF b THEN "ended" ELSE "active"
    OBVIOUS
  <2> DEFINE r == [NoUmr EXCEPT !.status = st, !.from = time, !.named = named, !.linked = c]
  <2>4. uses' = [uses EXCEPT ![u] =
                [NoUmr EXCEPT !.status = IF named /\ LinkedActive # {} THEN "ended" ELSE "active",
                              !.from = time, !.named = named,
                              !.linked = named /\ ~(named /\ LinkedActive # {})]]
    BY <1>2 DEF Mints
  <2>5. (named /\ LinkedActive # {}) = b /\ (named /\ ~(named /\ LinkedActive # {})) = c
    BY <2>1, <2>2, Zenon
  <2>6. uses' = [uses EXCEPT ![u] = r]
    BY <2>4, <2>5, <2>3, Zenon
  <2>7. r \in AFullUse
    BY <1>0, NoUseTyped DEF AFullUse
  <2> HIDE DEF r
  <2> QED  BY <1>1, <2>6, <2>7
<1>3. ASSUME NEW u \in Umrs, LinksRow(u) PROVE RowsTyped'
  <2>1. PICK b \in BOOLEAN : uses' = [uses EXCEPT ![u].linked = b]
    BY <1>3, Zenon DEF LinksRow
  <2> DEFINE r == [uses[u] EXCEPT !.linked = b]
  <2>2. uses' = [uses EXCEPT ![u] = r] /\ r \in AFullUse
    BY <1>0, <2>1 DEF AFullUse
  <2> QED  BY <1>1, <2>2
<1>4. ASSUME NEW u \in Umrs, RowLives(u) PROVE RowsTyped'
  <2>1. \/ \E b \in BOOLEAN : uses' = [uses EXCEPT ![u].beat = b]
        \/ \E s \in {"active", "sigterm"} : uses' = [uses EXCEPT ![u].status = s]
        \/ uses' = [uses EXCEPT ![u].status = "ended", ![u].until = time]
    BY <1>4, Zenon DEF RowLives
  <2>2. ASSUME NEW b \in BOOLEAN, uses' = [uses EXCEPT ![u].beat = b] PROVE RowsTyped'
    <3> DEFINE r == [uses[u] EXCEPT !.beat = b]
    <3>1. uses' = [uses EXCEPT ![u] = r] /\ r \in AFullUse
      BY <1>0, <2>2 DEF AFullUse
    <3> QED  BY <1>1, <3>1
  <2>3. ASSUME NEW s \in {"active", "sigterm"}, uses' = [uses EXCEPT ![u].status = s] PROVE RowsTyped'
    <3> DEFINE r == [uses[u] EXCEPT !.status = s]
    <3>1. uses' = [uses EXCEPT ![u] = r] /\ r \in AFullUse
      BY <1>0, <2>3 DEF AFullUse
    <3> QED  BY <1>1, <3>1
  <2>4. CASE uses' = [uses EXCEPT ![u].status = "ended", ![u].until = time]
    <3> DEFINE r == [uses[u] EXCEPT !.status = "ended", !.until = time]
    <3>1. uses' = [uses EXCEPT ![u] = r] /\ r \in AFullUse
      BY <1>0, <2>4 DEF AFullUse
    <3> QED  BY <1>1, <3>1
  <2> QED  BY <2>1, <2>2, <2>3, <2>4
<1>5. \/ UNCHANGED uses
      \/ \E u \in Umrs : \/ \E named \in BOOLEAN : Mints(u, named)
                         \/ LinksRow(u) \/ RowLives(u)
  BY Zenon DEF ComplianceNext, compvars, EditsByHand, WritesCanon, Plans, AuditKilled, TimePasses,
     Audits, RetentionArchives, RetentionDeletes, RetentionFails
<1> QED  BY <1>2, <1>3, <1>4, <1>5 DEF RowsTyped

\* An audit writes down rules and facts, and the archives have entries of audits only.
LEMMA AuditStaysTyped == ComplianceInv /\ AuditTyped /\ [ComplianceNext]_compvars => AuditTyped'
<1> SUFFICES ASSUME ComplianceInv, AuditTyped, [ComplianceNext]_compvars PROVE AuditTyped'
  OBVIOUS
<1>1. canon' \in [ids : SUBSET Umrs, file : Canons]
  <2>1. UNCHANGED canon \/ \E ids \in SUBSET Umrs, file \in Canons : WritesCanon(ids, file)
    BY Zenon DEF ComplianceNext, compvars, Mints, LinksRow, RowLives, EditsByHand, Plans, AuditKilled,
       TimePasses, Audits, RetentionArchives, RetentionDeletes, RetentionFails
  <2> QED  BY <2>1 DEF WritesCanon, AuditTyped
<1>2. DOMAIN compast = {"audits", "reused", "byHand", "changes"}
  BY DEF ComplianceInv, AuditsNumbered
<1>3. \/ compast'.audits = compast.audits
      \/ \E shown \in GitShows : Audits(shown)
  <2>1. \/ UNCHANGED compast \/ \E shown \in GitShows : Audits(shown)
        \/ \E S : Changed(S)
        \/ \E u \in Umrs : EditsByHand(u)
    BY Zenon DEF ComplianceNext, compvars, Mints, LinksRow, RowLives, WritesCanon, Plans, AuditKilled,
       TimePasses, RetentionArchives, RetentionDeletes, RetentionFails
  <2>2. ASSUME NEW S, Changed(S) PROVE compast'.audits = compast.audits
    BY <1>2, <2>2 DEF Changed
  <2>3. ASSUME NEW u \in Umrs, EditsByHand(u) PROVE compast'.audits = compast.audits
    BY <1>2, <2>3 DEF EditsByHand
  <2> QED  BY <2>1, <2>2, <2>3
<1>4. ASSUME NEW shown \in GitShows, Audits(shown)
      PROVE  /\ compast.audits \subseteq compast'.audits
             /\ \A x \in compast'.audits : x.set \subseteq Rules \cup Facts
  <2> DEFINE ids == auditing.canon.ids
             nr == Cardinality(compast.audits)
             found == {[umr |-> u, nr |-> nr, at |-> time, ids |-> ids,
                        set |-> RulesKept(u, ids) \cup FactsOf(auditing.canon.file, shown)] :
                           u \in ids}
  <2>1. compast' = [compast EXCEPT !.audits = @ \cup found]
    BY <1>4 DEF Audits
  <2>2. \A x \in found : x.set \subseteq Rules \cup Facts
    <3>1. ASSUME NEW u PROVE RulesKept(u, ids) \subseteq Rules
      BY Zenon DEF RulesKept
    <3>2. FactsOf(auditing.canon.file, shown) \subseteq Facts
      BY Zenon DEF FactsOf
    <3>3. PICK facts \in SUBSET Facts : facts = FactsOf(auditing.canon.file, shown)
      BY <3>2
    <3>4. found = {[umr |-> u, nr |-> nr, at |-> time, ids |-> ids,
                    set |-> RulesKept(u, ids) \cup facts] : u \in ids}
      BY <3>3, Zenon
    <3>5. ASSUME NEW x \in found PROVE x.set \subseteq Rules \cup Facts
      <4>1. PICK u \in ids : x = [umr |-> u, nr |-> nr, at |-> time, ids |-> ids,
                                 set |-> RulesKept(u, ids) \cup facts]
        BY <3>4
      <4>2. x.set = RulesKept(u, ids) \cup facts
        BY <4>1
      <4> QED  BY <3>1, <4>2
    <3> QED  BY <3>5
  <2> HIDE DEF found
  <2>3. compast'.audits = compast.audits \cup found
    BY <1>2, <2>1
  <2> QED  BY <2>2, <2>3 DEF AuditTyped
<1>5. compast.audits \subseteq compast'.audits
      /\ \A x \in compast'.audits : x.set \subseteq Rules \cup Facts
  BY <1>3, <1>4 DEF AuditTyped
<1>6. archived' \subseteq compast'.audits
  <2>1. UNCHANGED archived \/ RetentionArchives
    BY Zenon DEF ComplianceNext, compvars, Mints, LinksRow, RowLives, EditsByHand, WritesCanon, Plans,
       AuditKilled, TimePasses, Audits, RetentionDeletes, RetentionFails
  <2>2. entries \subseteq compast.audits
    BY DEF ComplianceInv, DeletedIsOld
  <2> QED  BY <1>5, <2>1, <2>2 DEF RetentionArchives, AuditTyped
<1>7. auditing'.at \in {"off", "planned"}
  <2>1. DOMAIN auditing = {"at", "canon"}
    BY DEF ComplianceInv
  <2>2. \/ UNCHANGED auditing
        \/ auditing' = [at |-> "planned", canon |-> canon]
        \/ auditing' = [auditing EXCEPT !.at = "off"]
    BY Zenon DEF ComplianceNext, compvars, Mints, LinksRow, RowLives, EditsByHand, WritesCanon, Plans,
       AuditKilled, TimePasses, Audits, RetentionArchives, RetentionDeletes, RetentionFails
  <2> QED  BY <2>1, <2>2 DEF AuditTyped
<1>8. retention'.at \in {"off", "archived"}
  <2>1. DOMAIN retention = {"at", "cutoff"}
    BY DEF ComplianceInv, DeletedIsOld
  <2>2. \/ UNCHANGED retention \/ RetentionArchives
        \/ retention' = [retention EXCEPT !.at = "off"]
    BY Zenon DEF ComplianceNext, compvars, Mints, LinksRow, RowLives, EditsByHand, WritesCanon, Plans,
       AuditKilled, TimePasses, Audits, RetentionDeletes, RetentionFails
  <2> QED  BY <2>1, <2>2 DEF RetentionArchives, AuditTyped
<1>9. flags' = [u \in Umrs |-> flags'[u]]
  <2>1. \/ UNCHANGED flags
        \/ \E shown \in GitShows : Audits(shown)
        \/ \E u \in Umrs : EditsByHand(u)
    BY Zenon DEF ComplianceNext, compvars, Mints, LinksRow, RowLives, WritesCanon, Plans, AuditKilled,
       TimePasses, RetentionArchives, RetentionDeletes, RetentionFails
  <2>2. ASSUME NEW shown \in GitShows, Audits(shown) PROVE flags' = [u \in Umrs |-> flags'[u]]
    <3> DEFINE ids == auditing.canon.ids
               found == {[umr |-> u, nr |-> Cardinality(compast.audits), at |-> time, ids |-> ids,
                          set |-> RulesKept(u, ids) \cup FactsOf(auditing.canon.file, shown)] :
                             u \in ids}
               F(u) == IF u \in ids
                       THEN Triggered(u, Latest(u, found).set, entries \cup found) ELSE flags[u]
    <3>1. flags' = [u \in Umrs |-> F(u)]
      BY <2>2, Zenon DEF Audits
    <3> HIDE DEF F
    <3> QED  BY <3>1
  <2>3. ASSUME NEW u \in Umrs, EditsByHand(u) PROVE flags' = [v \in Umrs |-> flags'[v]]
    <3>1. PICK x : flags' = [flags EXCEPT ![u] = x]
      BY <2>3, Zenon DEF EditsByHand
    <3> QED  BY <3>1 DEF AuditTyped
  <2>4. CASE UNCHANGED flags
    BY <2>4 DEF AuditTyped
  <2> QED  BY <2>1, <2>2, <2>3, <2>4
<1> QED  BY <1>1, <1>5, <1>6, <1>7, <1>8, <1>9 DEF AuditTyped

\* The records of the audit and of its retention keep their types: flags are of rules and
\* facts, as some audit found them.
LEMMA ComplianceTyped == ComplianceSpec => []ComplianceTypeOK
<1>0. MaxDay \in Nat
  BY ComplianceAssumption
<1>1. ComplianceInit => RowsTyped /\ AuditTyped
  <2> SUFFICES ASSUME ComplianceInit PROVE RowsTyped /\ AuditTyped
    OBVIOUS
  <2>1. RowsTyped
    <3> QED  BY NoUseTyped DEF ComplianceInit, RowsTyped
  <2> QED  BY <2>1 DEF ComplianceInit, AuditTyped
<1>2. ComplianceInv /\ RowsTyped /\ AuditTyped => ComplianceTypeOK
  <2> SUFFICES ASSUME ComplianceInv, RowsTyped, AuditTyped PROVE ComplianceTypeOK
    OBVIOUS
  <2>1. ASSUME NEW u \in Umrs, NEW log, log \in {{}, AuditsOf(u)}
        PROVE  Derived(u, log) \in [exists : BOOLEAN, set : SUBSET (Rules \cup Facts),
                                    done : BOOLEAN, passed : BOOLEAN]
    <3> DEFINE any == \E x \in log : x.umr = u
               set == IF any THEN Latest(u, log).set ELSE {}
    <3>1. set \subseteq Rules \cup Facts
      <4>1. CASE log = {}
        BY <4>1
      <4>2. CASE log = AuditsOf(u) /\ AuditsOf(u) # {}
        <5>1. PICK e \in AuditsOf(u) : \A x \in AuditsOf(u) : Before(x, e)
          BY <4>2 DEF ComplianceInv, AuditsNumbered
        <5>2. AuditsOf(u) \in SUBSET compast.audits /\ e \in AboutUmr(u, AuditsOf(u))
              /\ \A x \in AboutUmr(u, AuditsOf(u)) : Before(x, e)
          BY <5>1 DEF AuditsOf, AboutUmr
        <5>3. Latest(u, AuditsOf(u)) = e
          BY <5>2, LatestIs
        <5>4. e \in compast.audits
          BY DEF AuditsOf
        <5> QED  BY <4>2, <5>3, <5>4 DEF AuditTyped
      <4> QED  BY <2>1, <4>1, <4>2
    <3> HIDE DEF set
    <3>2. PICK t \in BOOLEAN : t = TRUE
      OBVIOUS
    <3>3. PICK a \in BOOLEAN : a = any
      BY Zenon
    <3>4. PICK p \in BOOLEAN : p = (Rules \subseteq set)
      BY Zenon
    <3>5. Derived(u, log) = [exists |-> t, set |-> set, done |-> a, passed |-> p]
      BY <3>2, <3>3, <3>4, Zenon DEF Derived, set
    <3> QED  BY <3>1, <3>5
  <2>2. NoFlags \in [exists : BOOLEAN, set : SUBSET (Rules \cup Facts), done : BOOLEAN, passed : BOOLEAN]
    <3>1. PICK n \in BOOLEAN : n = FALSE
      OBVIOUS
    <3>2. NoFlags = [exists |-> n, set |-> {}, done |-> n, passed |-> n]
      BY <3>1, Zenon DEF NoFlags
    <3> QED  BY <3>2
  <2>3. flags \in [Umrs -> [exists : BOOLEAN, set : SUBSET (Rules \cup Facts), done : BOOLEAN,
                            passed : BOOLEAN]]
    <3> DEFINE F == [exists : BOOLEAN, set : SUBSET (Rules \cup Facts), done : BOOLEAN, passed : BOOLEAN]
    <3>1. ASSUME NEW u \in Umrs PROVE flags[u] \in F
      <4>1. flags[u] \in {NoFlags, Derived(u, AuditsOf(u)), Derived(u, {})}
        BY DEF ComplianceInv, FlagsTold
      <4>2. Derived(u, AuditsOf(u)) \in F /\ Derived(u, {}) \in F
        BY <2>1
      <4> QED  BY <2>2, <4>1, <4>2
    <3>2. flags = [u \in Umrs |-> flags[u]]
      BY DEF AuditTyped
    <3> HIDE DEF F
    <3>3. [u \in Umrs |-> flags[u]] \in [Umrs -> F]
      BY <3>1
    <3>4. flags \in [Umrs -> F]
      BY <3>2, <3>3
    <3> QED  BY <3>4 DEF F
  <2> QED
    BY <2>3 DEF ComplianceInv, AuditsNumbered, DeletedIsOld, RowsTyped, AFullUse, AuditTyped,
                ComplianceTypeOK
<1> QED
  BY <1>1, <1>2, RowsStayTyped, AuditStaysTyped, ComplianceStarts, ComplianceStep, PTL
     DEF ComplianceSpec
=============================================================================
