------------------------ MODULE RestoreMemoryProofs ------------------------
(***************************************************************************)
(* Proofs about RestoreMemory: the restorer is never overwritten by what it *)
(* moves, and tasks resume with the memory they were dumped with.          *)
(***************************************************************************)
EXTENDS RestoreMemory, WellFoundedInduction, FiniteSetTheorems, TLAPS

-----------------------------------------------------------------------------
(* Numbers *)

\* A set of numbers has a least one.
LEMMA LeastNat ==
  ASSUME NEW T \in SUBSET Nat, T # {}
  PROVE  \E n \in T : \A m \in T : n <= m
<1>1. PICK n \in T : \A m \in T : <<m, n>> \notin OpToRel(<, Nat)
  BY WFMin, NatLessThanWellFounded
<1>2. \A m \in T : ~ (m < n)
  BY <1>1 DEF OpToRel
<1> QED BY <1>2

\* Induction, over the set of the numbers for which the claim holds.
LEMMA Induct ==
  ASSUME NEW T, 0 \in T, \A n \in Nat : n \in T => n + 1 \in T
  PROVE  Nat \subseteq T
<1> SUFFICES ASSUME ~ (Nat \subseteq T) PROVE FALSE
  OBVIOUS
<1>1. PICK n \in Nat \ T : \A m \in Nat \ T : n <= m
  BY LeastNat
<1>2. n # 0 /\ n - 1 \in Nat /\ n - 1 \in T
  BY <1>1
<1> QED BY <1>2

\* A function can be defined by recursion: F gives the next value.
Recursive(f, n, x, F) == f = [k \in 0..n |-> IF k = 0 THEN x ELSE F[<<k, f[k - 1]>>]]
LEMMA Iterate ==
  ASSUME NEW S, NEW x \in S, NEW F \in [Nat \X S -> S]
  PROVE  \A n \in Nat : \E f \in [0..n -> S] : Recursive(f, n, x, F)
<1> DEFINE T == {n \in Nat : \E f \in [0..n -> S] : f = [k \in 0..n |-> IF k = 0 THEN x ELSE F[<<k, f[k-1]>>]]}
<1>1. 0 \in T
  <2> DEFINE f == [k \in 0..0 |-> x]
  <2>1. f \in [0..0 -> S] /\ f = [k \in 0..0 |-> IF k = 0 THEN x ELSE F[<<k, f[k-1]>>]]
    OBVIOUS
  <2> QED BY <2>1
<1>2. ASSUME NEW n \in Nat, n \in T PROVE n + 1 \in T
  <2>1. PICK f \in [0..n -> S] : f = [k \in 0..n |-> IF k = 0 THEN x ELSE F[<<k, f[k-1]>>]]
    BY <1>2
  <2>2. PICK v \in S : v = F[<<n + 1, f[n]>>]
    OBVIOUS
  <2>3. PICK g : g = [k \in 0..(n+1) |-> IF k = n + 1 THEN v ELSE f[k]]
    OBVIOUS
  <2>4. g \in [0..(n+1) -> S]
    BY <2>3
  <2>5. ASSUME NEW k \in 0..(n+1) PROVE g[k] = IF k = 0 THEN x ELSE F[<<k, g[k-1]>>]
    <3>1. CASE k = n + 1
      <4>1. k # 0 /\ k - 1 = n /\ k - 1 \in 0..(n + 1) /\ k - 1 # n + 1
        BY <3>1
      <4>2. g[k] = v /\ g[k - 1] = f[n]
        BY <3>1, <4>1, <2>3
      <4> QED BY <3>1, <4>1, <4>2, <2>2
    <3>2. CASE k \in 0..n
      <4>1. f[k] = IF k = 0 THEN x ELSE F[<<k, f[k-1]>>]
        BY <2>1, <3>2
      <4>2. k # n + 1 /\ (k # 0 => k - 1 \in 0..(n + 1) /\ k - 1 # n + 1)
        BY <3>2
      <4>3. g[k] = f[k] /\ (k # 0 => g[k-1] = f[k-1])
        BY <4>2, <2>3
      <4> QED BY <4>1, <4>3
    <3> QED BY <3>1, <3>2
  <2>6. g = [k \in 0..(n+1) |-> IF k = 0 THEN x ELSE F[<<k, g[k-1]>>]]
    BY <2>3, <2>4, <2>5
  <2>7. n + 1 \in Nat
    OBVIOUS
  <2> QED BY <2>4, <2>6, <2>7
<1>3. Nat \subseteq T
  <2> HIDE DEF T
  <2> QED BY <1>1, <1>2, Induct
<1> QED BY <1>3 DEF Recursive

\* The greatest of a bounded set.
LEMMA Greatest ==
  ASSUME NEW b \in Nat, NEW T \in SUBSET (0..b), T # {}
  PROVE  \E n \in T : \A m \in T : m <= n
<1> DEFINE U == {b - i : i \in T}
<1>1. U \in SUBSET Nat /\ U # {}
  <2>1. \A u \in U : u \in Nat
    OBVIOUS
  <2>2. PICK i \in T : TRUE
    OBVIOUS
  <2>3. b - i \in U
    OBVIOUS
  <2> QED BY <2>1, <2>3
<1>2. PICK u \in U : \A m \in U : u <= m
  BY <1>1, LeastNat
<1>3. PICK n \in T : u = b - n
  OBVIOUS
<1>4. ASSUME NEW m \in T PROVE m <= n
  <2>1. b - m \in U
    OBVIOUS
  <2> QED BY <1>2, <1>3, <2>1
<1> QED BY <1>4

LEMMA MaxOfTwo ==
  ASSUME NEW a \in Int, NEW b \in Int
  PROVE  Max({a, b}) = IF a >= b THEN a ELSE b
<1>1. PICK m \in {a, b} : m = IF a >= b THEN a ELSE b
  OBVIOUS
<1>2. \A y \in {a, b} : m >= y
  BY <1>1
<1>3. \A x \in {a, b} : (\A y \in {a, b} : x >= y) => x = m
  BY <1>2
<1> QED BY <1>1, <1>2, <1>3 DEF Max

\* The next and the previous area of a list.
LEMMA NextIs ==
  ASSUME NEW S \in SUBSET (1..TaskSize), NEW k \in 0..TaskSize, NEW n, n = NextOf(S, k)
  PROVE  /\ n \in S \cup {TaskSize + 1} /\ n > k /\ n \in 1..(TaskSize + 1)
         /\ \A i \in S : i > k => n <= i
<1>0. TaskSize \in Nat
  BY MemoryAssumption
<1> DEFINE T == {i \in S : i > k} \cup {TaskSize + 1}
<1>1. T \in SUBSET Nat /\ T # {}
  <2>1. TaskSize + 1 \in T /\ \A i \in T : i \in Nat
    BY <1>0
  <2> QED BY <2>1
<1>2. \E m \in T : \A y \in T : m <= y
  BY <1>1, LeastNat
<1>3. n \in T /\ \A y \in T : n <= y
  BY <1>2 DEF NextOf, Min
<1> QED BY <1>0, <1>3

LEMMA PrevIs ==
  ASSUME NEW S \in SUBSET (1..TaskSize), NEW k \in 1..(TaskSize + 1), NEW n, n = PrevOf(S, k)
  PROVE  /\ n \in S \cup {0} /\ n < k /\ n \in 0..TaskSize
         /\ \A i \in S : i < k => i <= n
<1>0. TaskSize \in Nat
  BY MemoryAssumption
<1> DEFINE T == {i \in S : i < k} \cup {0}
<1>1. T \in SUBSET (0..TaskSize) /\ T # {}
  <2>1. 0 \in T /\ \A i \in T : i \in 0..TaskSize
    BY <1>0
  <2> QED BY <2>1
<1>2. \E m \in T : \A y \in T : m >= y
  BY <1>0, <1>1, Greatest
<1>3. n \in T /\ \A y \in T : n >= y
  BY <1>2 DEF PrevOf, Max
<1> QED BY <1>0, <1>3


-----------------------------------------------------------------------------
(* The areas of an image *)

Ordered(v) ==
  /\ v \in Seq(VmaEntry) /\ Len(v) <= TaskSize
  /\ \A i \in 1..Len(v) : 1 <= v[i].start /\ v[i].start <= v[i].end /\ v[i].end <= TaskSize + 1
  /\ \A i, j \in 1..Len(v) : i < j => v[i].end <= v[j].start

\* The areas of a dumped task are in order.
LEMMA DumpedOrdered ==
  ASSUME NEW tr \in Trees, NEW t \in DOMAIN tr.vmas
  PROVE  /\ Ordered(tr.vmas[t])
         /\ \A i \in 1..Len(tr.vmas[t]) : tr.vmas[t][i].start < tr.vmas[t][i].end
<1>1. PICK v : v = tr.vmas[t]
  OBVIOUS
<1>2. /\ v \in Seq(VmaEntry) /\ TaskSize \in Nat
      /\ \A i \in DOMAIN v : /\ 1 <= v[i].start /\ v[i].start < v[i].end /\ v[i].end <= TaskSize + 1
                             /\ i > 1 => v[i - 1].end <= v[i].start
  BY <1>1, MemoryAssumption
<1>3. PICK l \in Nat : l = Len(v) /\ DOMAIN v = 1..l
  BY <1>2
<1>4. \A i \in 1..l : v[i].start \in Nat /\ v[i].end \in Nat
  <2>1. \A i \in 1..l : v[i] \in VmaEntry
    BY <1>2, <1>3
  <2> QED BY <2>1 DEF VmaEntry
<1>5. \A i \in 1..l : i <= v[i].start
  <2> DEFINE T == {n \in Nat : n \in 1..l => n <= v[n].start}
  <2>1. 0 \in T
    OBVIOUS
  <2>2. ASSUME NEW n \in Nat, n \in T PROVE n + 1 \in T
    <3> SUFFICES ASSUME n + 1 \in 1..l PROVE n + 1 <= v[n + 1].start
      OBVIOUS
    <3>1. CASE n = 0
      BY <3>1, <1>2, <1>3
    <3>2. CASE n # 0
      <4>1. n \in 1..l /\ n <= v[n].start
        BY <2>2, <3>2, <1>3
      <4>2. v[n].start < v[n].end
        BY <4>1, <1>2, <1>3
      <4>3. v[(n + 1) - 1].end <= v[n + 1].start
        BY <3>2, <1>2, <1>3
      <4>4. (n + 1) - 1 = n
        OBVIOUS
      <4>5. v[n].end <= v[n + 1].start
        BY <4>3, <4>4
      <4> QED BY <4>1, <4>2, <4>5, <1>4
    <3> QED BY <3>1, <3>2
  <2>3. Nat \subseteq T
    <3> HIDE DEF T
    <3> QED BY <2>1, <2>2, Induct
  <2> QED BY <2>3, <1>3
<1>6. l <= TaskSize
  <2>1. CASE l = 0
    BY <2>1, <1>2
  <2>2. CASE l # 0
    <3>1. l \in 1..l /\ l <= v[l].start /\ v[l].start < v[l].end /\ v[l].end <= TaskSize + 1
      BY <2>2, <1>2, <1>3, <1>5
    <3> QED BY <3>1, <1>2, <1>4
  <2> QED BY <2>1, <2>2
<1>7. \A i, j \in 1..l : i < j => v[i].end <= v[j].start
  <2> SUFFICES ASSUME NEW i \in 1..l PROVE \A j \in 1..l : i < j => v[i].end <= v[j].start
    OBVIOUS
  <2> DEFINE T == {n \in Nat : n \in 1..l /\ i < n => v[i].end <= v[n].start}
  <2>1. 0 \in T
    OBVIOUS
  <2>2. ASSUME NEW n \in Nat, n \in T PROVE n + 1 \in T
    <3> SUFFICES ASSUME n + 1 \in 1..l, i < n + 1 PROVE v[i].end <= v[n + 1].start
      OBVIOUS
    <3>0. n \in 1..l /\ (n + 1) - 1 = n /\ (i = n \/ i < n)
      BY <1>3
    <3>1. v[(n + 1) - 1].end <= v[n + 1].start
      BY <3>0, <1>2, <1>3
    <3>2. v[n].end <= v[n + 1].start /\ v[n].start < v[n].end
      BY <3>0, <3>1, <1>2, <1>3
    <3>3. CASE i = n
      BY <3>2, <3>3
    <3>4. CASE i < n
      <4>1. v[i].end <= v[n].start
        BY <2>2, <3>0, <3>4
      <4> QED BY <4>1, <3>2, <3>0, <1>4
    <3> QED BY <3>0, <3>3, <3>4
  <2>3. Nat \subseteq T
    <3> HIDE DEF T
    <3> QED BY <2>1, <2>2, Induct
  <2> QED BY <2>3, <1>3
<1>8. Ordered(v)
  <2>1. \A i \in 1..l : 1 <= v[i].start /\ v[i].start <= v[i].end /\ v[i].end <= TaskSize + 1
    BY <1>2, <1>3, <1>4
  <2> QED BY <2>1, <1>2, <1>3, <1>6, <1>7 DEF Ordered
<1>9. \A i \in 1..Len(v) : v[i].start < v[i].end
  BY <1>2, <1>3
<1> QED BY <1>1, <1>8, <1>9

\* What parse_smaps() makes of them is in order too: only the lowest page of a
\* stack may be missing.
LEMMA ImageOrdered ==
  ASSUME NEW tr \in Trees, NEW t \in DOMAIN tr.vmas
  PROVE  Ordered(parse_smaps(tr.vmas[t]))
<1>1. PICK v : v = tr.vmas[t]
  OBVIOUS
<1>2. Ordered(v) /\ \A i \in 1..Len(v) : v[i].start < v[i].end
  BY <1>1, DumpedOrdered
<1>3. PICK l \in Nat : l = Len(v) /\ DOMAIN v = 1..l /\ TaskSize \in Nat
  BY <1>2, MemoryAssumption DEF Ordered
<1>4. PICK w : w = parse_smaps(v)
  OBVIOUS
<1>5. ASSUME NEW i \in 1..l
      PROVE  /\ w[i] \in VmaEntry /\ w[i].end = v[i].end
             /\ w[i].start = v[i].start \/ w[i].start = v[i].start + 1
  <2>1. v[i] \in VmaEntry
    BY <1>2, <1>3 DEF Ordered
  <2>2. PICK sh : sh = Shown(v, i)
    OBVIOUS
  <2>3. sh = v[i] \/ (v[i].kind = "stack" /\ sh = [v[i] EXCEPT !.start = @ + 1])
    BY <2>2 DEF Shown
  <2>4. sh \in VmaEntry /\ sh.end = v[i].end /\ (sh.start = v[i].start \/ sh.start = v[i].start + 1)
    BY <2>1, <2>3 DEF VmaEntry
  <2>5. CASE v[i].kind = "stack" /\ ~ (i > 1 /\ v[i - 1].kind = "stack")
    <3>1. sh = [v[i] EXCEPT !.start = @ + 1]
      BY <2>2, <2>5 DEF Shown
    <3>2. w[i] = [sh EXCEPT !.start = @ - 1]
      BY <2>2, <2>5, <1>3, <1>4 DEF parse_smaps
    <3>3. sh.start = v[i].start + 1
      BY <2>1, <3>1 DEF VmaEntry
    <3> QED BY <2>1, <2>4, <3>2, <3>3 DEF VmaEntry
  <2>6. CASE ~ (v[i].kind = "stack" /\ ~ (i > 1 /\ v[i - 1].kind = "stack"))
    <3>1. w[i] = sh
      BY <2>2, <2>6, <1>3, <1>4 DEF parse_smaps
    <3> QED BY <2>4, <3>1
  <2> QED BY <2>5, <2>6
<1>6. w \in Seq(VmaEntry) /\ Len(w) = l
  <2>1. w = [i \in 1..l |-> w[i]]
    BY <1>3, <1>4 DEF parse_smaps
  <2> QED BY <2>1, <1>5
<1>7. \A i \in 1..l : v[i].start \in Nat /\ v[i].end \in Nat
  <2>1. \A i \in 1..l : v[i] \in VmaEntry
    BY <1>2, <1>3 DEF Ordered
  <2> QED BY <2>1 DEF VmaEntry
<1>8. \A i \in 1..l : 1 <= w[i].start /\ w[i].start <= w[i].end /\ w[i].end <= TaskSize + 1
  BY <1>2, <1>3, <1>5, <1>7 DEF Ordered
<1>9. \A i, j \in 1..l : i < j => w[i].end <= w[j].start
  <2> SUFFICES ASSUME NEW i \in 1..l, NEW j \in 1..l, i < j PROVE w[i].end <= w[j].start
    OBVIOUS
  <2>1. v[i].end <= v[j].start
    BY <1>2, <1>3 DEF Ordered
  <2> QED BY <2>1, <1>5, <1>7
<1> QED BY <1>1, <1>2, <1>3, <1>4, <1>6, <1>8, <1>9 DEF Ordered

-----------------------------------------------------------------------------
(* The premapped areas, side by side *)

PrivOf(v) == {i \in 1..Len(v) : vma_priv(v[i])}
Width(x) == IF vma_priv(x) THEN Chunk(x) ELSE 0

LEMMA AreaTypes ==
  ASSUME NEW v, Ordered(v)
  PROVE  /\ Len(v) \in Nat /\ DOMAIN v = 1..Len(v) /\ TaskSize \in Nat
         /\ \A i \in 1..Len(v) :
              /\ v[i].start \in Nat /\ v[i].end \in Nat /\ Size(v[i]) \in Nat
              /\ v[i].end = v[i].start + Size(v[i])
              /\ Chunk(v[i]) \in Nat /\ Width(v[i]) \in Nat
              /\ Chunk(v[i]) = Size(v[i]) + (IF v[i].kind = "stack" THEN 1 ELSE 0)
<1>1. Len(v) \in Nat /\ DOMAIN v = 1..Len(v) /\ TaskSize \in Nat
  BY MemoryAssumption DEF Ordered
<1>2. ASSUME NEW i \in 1..Len(v)
      PROVE  /\ v[i].start \in Nat /\ v[i].end \in Nat /\ Size(v[i]) \in Nat
             /\ v[i].end = v[i].start + Size(v[i])
             /\ Chunk(v[i]) \in Nat /\ Width(v[i]) \in Nat
             /\ Chunk(v[i]) = Size(v[i]) + (IF v[i].kind = "stack" THEN 1 ELSE 0)
  <2>1. v[i] \in VmaEntry /\ v[i].start <= v[i].end
    BY <1>1 DEF Ordered
  <2>2. v[i].start \in Nat /\ v[i].end \in Nat
    BY <2>1 DEF VmaEntry
  <2>3. Size(v[i]) \in Nat /\ v[i].end = v[i].start + Size(v[i])
    BY <2>1, <2>2 DEF Size
  <2> QED BY <2>2, <2>3 DEF Chunk, Width
<1> QED BY <1>1, <1>2

\* The recursion of prepare_mappings() is well defined.
LEMMA EndsAre ==
  ASSUME NEW v, Ordered(v)
  PROVE  /\ Ends(v) \in [0..Len(v) -> Nat] /\ Ends(v)[0] = 0
         /\ \A i \in 1..Len(v) : Ends(v)[i] = Ends(v)[i - 1] + Width(v[i])
<1>0. PICK l \in Nat : l = Len(v) /\ \A i \in 1..l : Width(v[i]) \in Nat
  BY AreaTypes
<1>1. PICK F : F = [x \in Nat \X Nat |-> IF x[1] \in 1..l THEN x[2] + Width(v[x[1]]) ELSE 0]
  OBVIOUS
<1>2. F \in [Nat \X Nat -> Nat]
  BY <1>0, <1>1
<1>3. PICK f \in [0..l -> Nat] : f = [k \in 0..l |-> IF k = 0 THEN 0 ELSE F[<<k, f[k - 1]>>]]
  <2>1. 0 \in Nat
    OBVIOUS
  <2>2. \A n \in Nat : \E f \in [0..n -> Nat] : Recursive(f, n, 0, F)
    BY ONLY <1>2, <2>1, Iterate
  <2> QED BY <2>2 DEF Recursive
<1>4. ASSUME NEW k \in 1..l PROVE f[k] = f[k - 1] + Width(v[k])
  <2>1. k \in 0..l /\ k # 0 /\ k - 1 \in 0..l /\ k \in Nat
    OBVIOUS
  <2>2. f[k] = F[<<k, f[k - 1]>>]
    BY <1>3, <2>1
  <2>3. <<k, f[k - 1]>> \in Nat \X Nat
    BY <2>1
  <2> QED BY <1>1, <2>2, <2>3
<1>5. f[0] = 0
  BY <1>3
<1>6. f = [i \in 0..Len(v) |-> IF i = 0 THEN 0 ELSE f[i - 1] + IF vma_priv(v[i]) THEN Chunk(v[i]) ELSE 0]
  <2>1. f = [i \in 0..l |-> IF i = 0 THEN 0 ELSE f[i - 1] + Width(v[i])]
    BY <1>4, <1>5
  <2> QED BY <1>0, <2>1 DEF Width
<1>7. PICK e : e = Ends(v)
  OBVIOUS
<1>8. e = [i \in 0..Len(v) |-> IF i = 0 THEN 0 ELSE e[i - 1] + IF vma_priv(v[i]) THEN Chunk(v[i]) ELSE 0]
  BY <1>6, <1>7 DEF Ends
<1>9. e[0] = 0 /\ \A i \in 1..l : e[i] = e[i - 1] + Width(v[i])
  <2>1. e = [i \in 0..l |-> IF i = 0 THEN 0 ELSE e[i - 1] + Width(v[i])]
    BY <1>0, <1>8 DEF Width
  <2> QED BY <2>1
<1>10. DOMAIN e = 0..l
  BY <1>0, <1>8
<1>11. \A i \in 0..l : e[i] \in Nat
  <2> DEFINE T == {n \in Nat : n \in 0..l => e[n] \in Nat}
  <2>1. 0 \in T
    BY <1>9
  <2>2. ASSUME NEW n \in Nat, n \in T PROVE n + 1 \in T
    <3> SUFFICES ASSUME n + 1 \in 0..l PROVE e[n + 1] \in Nat
      OBVIOUS
    <3>1. n \in 0..l /\ n + 1 \in 1..l /\ (n + 1) - 1 = n
      BY <1>0
    <3>2. e[n] \in Nat /\ e[n + 1] = e[n] + Width(v[n + 1])
      BY <2>2, <3>1, <1>9
    <3> QED BY <3>1, <3>2, <1>0
  <2>3. Nat \subseteq T
    <3> HIDE DEF T
    <3> QED BY <2>1, <2>2, Induct
  <2> QED BY <2>3
<1>12. e = [i \in 0..l |-> e[i]]
  BY <1>8, <1>10
<1> QED BY <1>0, <1>7, <1>9, <1>11, <1>12

LEMMA EndsGrow ==
  ASSUME NEW v, Ordered(v), NEW i \in 0..Len(v)
  PROVE  \A j \in i..Len(v) : Ends(v)[i] <= Ends(v)[j]
<1>1. PICK l \in Nat : l = Len(v) /\ \A k \in 1..l : Width(v[k]) \in Nat
  BY AreaTypes
<1>2. PICK e \in [0..l -> Nat] : e = Ends(v) /\ \A k \in 1..l : e[k] = e[k - 1] + Width(v[k])
  BY <1>1, EndsAre
<1>3. i \in 0..l
  BY <1>1
<1> DEFINE T == {n \in Nat : n \in i..l => e[i] <= e[n]}
<1>4. 0 \in T
  BY <1>2, <1>3
<1>5. ASSUME NEW n \in Nat, n \in T PROVE n + 1 \in T
  <2> SUFFICES ASSUME n + 1 \in i..l PROVE e[i] <= e[n + 1]
    OBVIOUS
  <2>1. CASE n + 1 = i
    BY <2>1, <1>2, <1>3
  <2>2. CASE n + 1 # i
    <3>1. n \in i..l /\ n + 1 \in 1..l /\ (n + 1) - 1 = n /\ n \in 0..l
      BY <2>2, <1>3
    <3>2. e[i] <= e[n] /\ e[n + 1] = e[n] + Width(v[n + 1])
      BY <3>1, <1>2, <1>5
    <3> QED BY <3>1, <3>2, <1>1, <1>2, <1>3
  <2> QED BY <2>1, <2>2
<1>6. Nat \subseteq T
  <2> HIDE DEF T
  <2> QED BY <1>4, <1>5, Induct
<1> QED BY <1>1, <1>2, <1>3, <1>6

\* Every premapped page belongs to an area or is the guard below it.
LEMMA EndsCover ==
  ASSUME NEW v, Ordered(v), NEW q \in Nat, q < Ends(v)[Len(v)]
  PROVE  \E i \in PrivOf(v) : Ends(v)[i - 1] <= q /\ q < Ends(v)[i]
<1>1. PICK l \in Nat : l = Len(v)
  BY AreaTypes
<1>2. PICK e \in [0..l -> Nat] : e = Ends(v) /\ e[0] = 0 /\ \A k \in 1..l : e[k] = e[k - 1] + Width(v[k])
  BY <1>1, EndsAre
<1> DEFINE T == {n \in 0..l : q < e[n]}
<1>3. T \in SUBSET Nat /\ T # {}
  <2>1. l \in T
    BY <1>1, <1>2
  <2> QED BY <2>1
<1>4. PICK i \in T : \A m \in T : i <= m
  BY <1>3, LeastNat
<1>5. i \in 1..l /\ i - 1 \in 0..l
  BY <1>2, <1>4
<1>6. i - 1 \notin T
  BY <1>4, <1>5
<1>7. e[i - 1] <= q /\ q < e[i]
  BY <1>2, <1>5, <1>6
<1>8. vma_priv(v[i])
  <2>1. Width(v[i]) # 0
    <3> SUFFICES ASSUME Width(v[i]) = 0 PROVE FALSE
      OBVIOUS
    <3>1. e[i] = e[i - 1] + 0
      BY <1>2, <1>5
    <3> QED BY <3>1, <1>2, <1>5, <1>7
  <2> QED BY <2>1 DEF Width
<1> QED BY <1>1, <1>2, <1>5, <1>7, <1>8 DEF PrivOf

\* Where prepare_mappings() has put the areas.
Packed(v, pr) ==
  /\ pr.base \in Nat /\ 1 <= pr.base /\ pr.len = Ends(v)[Len(v)] /\ pr.base + pr.len <= TaskSize + 1
  /\ pr.addr = [i \in PrivOf(v) |-> pr.base + Ends(v)[i] - Size(v[i])]
Source(v, pr, i) == pr.addr[i]..(pr.addr[i] + Size(v[i]) - 1)

\* They are in the order of the image, each stack with a page before it.
LEMMA SourcesApart ==
  ASSUME NEW v, Ordered(v), NEW pr, Packed(v, pr)
  PROVE  /\ \A i \in PrivOf(v) :
              /\ i \in 1..Len(v) /\ i \in 1..TaskSize /\ pr.addr[i] \in Nat /\ Size(v[i]) \in Nat
              /\ pr.base <= pr.addr[i] /\ pr.addr[i] + Size(v[i]) <= pr.base + pr.len
              /\ v[i].kind = "stack" => pr.base <= pr.addr[i] - 1
         /\ \A i, j \in PrivOf(v) : i < j =>
              /\ pr.addr[i] + Size(v[i]) <= pr.addr[j]
              /\ v[j].kind = "stack" => pr.addr[i] + Size(v[i]) <= pr.addr[j] - 1
         /\ pr.len \in Nat /\ pr.base \in Nat
<1>1. PICK l \in Nat : /\ l = Len(v) /\ TaskSize \in Nat /\ l <= TaskSize
                       /\ \A k \in 1..l : /\ Size(v[k]) \in Nat /\ Chunk(v[k]) \in Nat
                                          /\ Chunk(v[k]) = Size(v[k]) + (IF v[k].kind = "stack" THEN 1 ELSE 0)
  BY AreaTypes DEF Ordered
<1>2. PICK e \in [0..l -> Nat] : e = Ends(v) /\ \A k \in 1..l : e[k] = e[k - 1] + Width(v[k])
  BY <1>1, EndsAre
<1>3. \A i, j \in 0..l : i <= j => e[i] <= e[j]
  BY <1>1, <1>2, EndsGrow
<1>4. PICK b \in Nat : b = pr.base /\ pr.len = e[l] /\ pr.addr = [i \in PrivOf(v) |-> b + e[i] - Size(v[i])]
  BY <1>1, <1>2 DEF Packed
<1>5. ASSUME NEW i \in PrivOf(v)
      PROVE  /\ i \in 1..l /\ i - 1 \in 0..l /\ i \in 0..l /\ i \in 1..TaskSize
             /\ pr.addr[i] = b + e[i] - Size(v[i])
             /\ Size(v[i]) \in Nat /\ e[i] \in Nat /\ e[i - 1] \in Nat
             /\ e[i] = e[i - 1] + Size(v[i]) + (IF v[i].kind = "stack" THEN 1 ELSE 0)
  <2>1. i \in 1..l /\ vma_priv(v[i]) /\ i - 1 \in 0..l /\ i \in 0..l
    BY <1>1 DEF PrivOf
  <2>2. Width(v[i]) = Chunk(v[i])
    BY <2>1 DEF Width
  <2>3. e[i] = e[i - 1] + Chunk(v[i])
    BY <2>1, <2>2, <1>2
  <2>4. e[i - 1] \in Nat /\ e[i] \in Nat /\ Size(v[i]) \in Nat
    BY <2>1, <1>1, <1>2
  <2>5. e[i] = e[i - 1] + Size(v[i]) + (IF v[i].kind = "stack" THEN 1 ELSE 0)
    BY <2>1, <2>3, <2>4, <1>1
  <2>6. pr.addr[i] = b + e[i] - Size(v[i])
    BY <1>4
  <2> QED BY <1>1, <2>1, <2>4, <2>5, <2>6
<1>6. ASSUME NEW i \in PrivOf(v)
      PROVE  /\ i \in 1..Len(v) /\ i \in 1..TaskSize /\ pr.addr[i] \in Nat /\ Size(v[i]) \in Nat
             /\ pr.base <= pr.addr[i] /\ pr.addr[i] + Size(v[i]) <= pr.base + pr.len
             /\ v[i].kind = "stack" => pr.base <= pr.addr[i] - 1
  <2>1. e[i] <= e[l] /\ e[l] \in Nat
    BY <1>1, <1>2, <1>3, <1>5
  <2>2. PICK x \in Nat, y \in Nat, z \in Nat, m \in Nat, g \in 0..1 :
          /\ x = e[i] /\ y = e[i - 1] /\ z = Size(v[i]) /\ m = e[l]
          /\ g = IF v[i].kind = "stack" THEN 1 ELSE 0
    BY SMTT(30), <1>5, <2>1
  <2>3. x = y + z + g /\ pr.addr[i] = b + x - z /\ x <= m /\ pr.base = b /\ pr.len = m
    BY <1>4, <1>5, <2>1, <2>2
  <2>4. PICK a \in Nat : a = b + y + g
    OBVIOUS
  <2>5. b + x - z = a /\ b <= a /\ a + z <= b + m /\ (g = 1 => b <= a - 1)
    BY <2>3, <2>4
  <2>6. pr.addr[i] = a
    BY <2>3, <2>5
  <2> QED BY <1>1, <1>5, <2>2, <2>3, <2>5, <2>6
<1>7. ASSUME NEW i \in PrivOf(v), NEW j \in PrivOf(v), i < j
      PROVE  /\ pr.addr[i] + Size(v[i]) <= pr.addr[j]
             /\ v[j].kind = "stack" => pr.addr[i] + Size(v[i]) <= pr.addr[j] - 1
  <2>1. e[i] <= e[j - 1]
    BY SMTT(30), <1>3, <1>5, <1>7
  <2>2. PICK x \in Nat, z \in Nat, y \in Nat, w \in Nat, m \in Nat, g \in 0..1 :
          /\ x = e[i] /\ z = Size(v[i]) /\ y = e[j] /\ w = Size(v[j]) /\ m = e[j - 1]
          /\ g = IF v[j].kind = "stack" THEN 1 ELSE 0
    <3>1. e[i] \in Nat /\ e[j] \in Nat /\ e[j - 1] \in Nat /\ Size(v[i]) \in Nat /\ Size(v[j]) \in Nat
      BY <1>5
    <3>2. \E g \in 0..1 : g = IF v[j].kind = "stack" THEN 1 ELSE 0
      OBVIOUS
    <3> QED BY <3>1, <3>2, Zenon
  <2>3. y = m + w + g /\ x <= m /\ pr.addr[i] = b + x - z /\ pr.addr[j] = b + y - w
    BY <1>5, <2>1, <2>2
  <2>4. pr.addr[i] + z <= pr.addr[j] /\ (g = 1 => pr.addr[i] + z <= pr.addr[j] - 1)
    BY <2>3
  <2> QED BY <2>2, <2>4
<1>8. pr.len \in Nat /\ pr.base \in Nat
  BY <1>1, <1>2, <1>4
<1> QED BY <1>6, <1>7, <1>8

\* The premapped areas share no page, nor have they the page before a stack.
LEMMA SourcesDisjoint ==
  ASSUME NEW v, Ordered(v), NEW pr, Packed(v, pr)
  PROVE  /\ \A i, j \in PrivOf(v) : \A p \in Source(v, pr, i) :
              /\ p \in Source(v, pr, j) => i = j
              /\ v[j].kind = "stack" => p # pr.addr[j] - 1
         /\ \A i \in PrivOf(v) : \A p \in Source(v, pr, i) :
              p \in Pages /\ p \in pr.base..(pr.base + pr.len - 1)
<1> USE SourcesApart
<1>1. ASSUME NEW i \in PrivOf(v), NEW j \in PrivOf(v), NEW p \in Source(v, pr, i)
      PROVE  /\ p \in Source(v, pr, j) => i = j
             /\ v[j].kind = "stack" => p # pr.addr[j] - 1
  <2>1. /\ pr.addr[i] \in Nat /\ pr.addr[j] \in Nat /\ Size(v[i]) \in Nat /\ Size(v[j]) \in Nat
        /\ i \in Nat /\ j \in Nat
        /\ i < j => /\ pr.addr[i] + Size(v[i]) <= pr.addr[j]
                    /\ v[j].kind = "stack" => pr.addr[i] + Size(v[i]) <= pr.addr[j] - 1
        /\ j < i => pr.addr[j] + Size(v[j]) <= pr.addr[i]
    OBVIOUS
  <2>2. p \in Nat /\ pr.addr[i] <= p /\ p < pr.addr[i] + Size(v[i])
    BY SMTT(30), <2>1 DEF Source
  <2>3. p \in Source(v, pr, j) => pr.addr[j] <= p /\ p < pr.addr[j] + Size(v[j])
    BY <2>1 DEF Source
  <2>4. PICK x \in Nat, z \in Nat, y \in Nat, w \in Nat :
          x = pr.addr[i] /\ z = Size(v[i]) /\ y = pr.addr[j] /\ w = Size(v[j])
    BY <2>1
  <2>5. CASE i = j
    BY <2>2, <2>4, <2>5
  <2>6. CASE i < j
    <3>1. x + z <= y /\ (v[j].kind = "stack" => x + z <= y - 1) /\ p < x + z /\ p \in Nat
      BY <2>1, <2>2, <2>4, <2>6
    <3>2. p < y /\ (v[j].kind = "stack" => p # y - 1)
      BY <3>1
    <3> QED BY <3>2, <2>2, <2>3, <2>4
  <2>7. CASE j < i
    <3>1. y + w <= p
      BY SMTT(30), <2>1, <2>2, <2>4, <2>7
    <3> QED BY SMTT(30), <3>1, <2>2, <2>3, <2>4
  <2> QED BY <2>1, <2>5, <2>6, <2>7
<1>2. ASSUME NEW i \in PrivOf(v), NEW p \in Source(v, pr, i)
      PROVE  p \in Pages /\ p \in pr.base..(pr.base + pr.len - 1)
  <2>1. /\ pr.addr[i] \in Nat /\ Size(v[i]) \in Nat /\ pr.len \in Nat /\ pr.base \in Nat
        /\ pr.base <= pr.addr[i] /\ pr.addr[i] + Size(v[i]) <= pr.base + pr.len
    OBVIOUS
  <2>2. p \in Nat /\ pr.addr[i] <= p /\ p < pr.addr[i] + Size(v[i])
    BY <2>1 DEF Source
  <2>3. 1 <= pr.base /\ pr.base + pr.len <= TaskSize + 1 /\ TaskSize \in Nat
    BY MemoryAssumption DEF Packed
  <2>4. PICK x \in Nat, z \in Nat, b \in Nat, m \in Nat :
          x = pr.addr[i] /\ z = Size(v[i]) /\ b = pr.base /\ m = pr.len
    BY <2>1
  <2>5. b <= x /\ x <= p /\ p < x + z /\ x + z <= b + m /\ 1 <= b /\ b + m <= TaskSize + 1
    BY <2>1, <2>2, <2>3, <2>4
  <2>6. p \in 1..TaskSize /\ p \in b..(b + m - 1)
    BY SMTT(30), <2>2, <2>3, <2>5
  <2> QED BY <2>4, <2>6 DEF Pages
<1> QED BY <1>1, <1>2

\* What is between them are the guard pages of stacks.
LEMMA OnlyGuardsBetween ==
  ASSUME NEW v, Ordered(v), NEW pr, Packed(v, pr), NEW p \in pr.base..(pr.base + pr.len - 1)
  PROVE  \E i \in PrivOf(v) : p \in Source(v, pr, i) \/ (v[i].kind = "stack" /\ p = pr.addr[i] - 1)
<1>1. PICK l \in Nat : /\ l = Len(v)
                       /\ \A k \in 1..l : /\ Size(v[k]) \in Nat /\ Chunk(v[k]) \in Nat
                                          /\ Chunk(v[k]) = Size(v[k]) + (IF v[k].kind = "stack" THEN 1 ELSE 0)
  BY AreaTypes
<1>2. PICK e \in [0..l -> Nat] : e = Ends(v) /\ \A k \in 1..l : e[k] = e[k - 1] + Width(v[k])
  BY <1>1, EndsAre
<1>3. PICK b \in Nat : b = pr.base /\ pr.len = e[l] /\ pr.addr = [i \in PrivOf(v) |-> b + e[i] - Size(v[i])]
  BY <1>1, <1>2 DEF Packed
<1>4. PICK q \in Nat : q = p - b /\ q < e[l] /\ p \in Nat
  <2>1. PICK m \in Nat : m = e[l] /\ m = pr.len
    BY SMTT(30), <1>1, <1>2, <1>3
  <2>2. p \in b..(b + m - 1)
    BY <1>3, <2>1
  <2>3. p - b \in Nat /\ p - b < m /\ p \in Nat
    BY <2>2
  <2> QED BY <2>1, <2>3
<1>5. PICK i \in PrivOf(v) : e[i - 1] <= q /\ q < e[i]
  BY <1>1, <1>2, <1>4, EndsCover
<1>6. /\ i \in 1..l /\ i - 1 \in 0..l /\ i \in 0..l /\ e[i] = e[i - 1] + Chunk(v[i])
      /\ pr.addr[i] = b + e[i] - Size(v[i])
  BY <1>2, <1>1, <1>3 DEF PrivOf, Width
<1>7. e[i] \in Nat /\ e[i - 1] \in Nat /\ Size(v[i]) \in Nat
  BY <1>1, <1>2, <1>6
<1>8. PICK x \in Nat, y \in Nat, z \in Nat, g \in 0..1 :
        /\ x = e[i] /\ y = e[i - 1] /\ z = Size(v[i]) /\ g = IF v[i].kind = "stack" THEN 1 ELSE 0
  BY <1>7
<1>9. x = y + z + g /\ y <= q /\ q < x /\ p = b + q /\ pr.addr[i] = b + x - z
  <2>1. Chunk(v[i]) = z + g
    BY <1>1, <1>6, <1>8
  <2>2. x = y + (z + g)
    BY <2>1, <1>6, <1>8
  <2>3. y <= q /\ q < x /\ pr.addr[i] = b + x - z
    BY <1>5, <1>6, <1>8
  <2>4. p = b + q
    BY <1>4
  <2> QED BY <2>2, <2>3, <2>4
<1>10. CASE q >= x - z
  <2>1. p \in (b + x - z)..((b + x - z) + z - 1)
    BY <1>9, <1>10
  <2> QED BY <1>8, <1>9, <2>1 DEF Source
<1>11. CASE q < x - z
  <2>1. g = 1 /\ p = (b + x - z) - 1
    BY <1>9, <1>11
  <2>2. v[i].kind = "stack"
    BY <1>8, <2>1
  <2>3. p = pr.addr[i] - 1
    BY <1>9, <2>1
  <2> QED BY <2>2, <2>3
<1> QED BY <1>10, <1>11

-----------------------------------------------------------------------------
(* The place for the restorer *)

\* A list that restorer_get_vma_hint() goes through.
SortedList(L) ==
  /\ DOMAIN L \subseteq 1..TaskSize
  /\ \A i \in DOMAIN L : /\ L[i].start \in Nat /\ L[i].end \in Nat
                         /\ L[i].start <= L[i].end /\ L[i].end <= TaskSize + 1
  /\ \A i, j \in DOMAIN L : i < j => L[i].end <= L[j].start

\* The loop is at k, and prev is not below what it has passed.
Behind(L, prev, k) == \A j \in DOMAIN L : j < k => L[j].end <= prev

LEMMA OrderedIsSorted ==
  ASSUME NEW v, Ordered(v)
  PROVE  SortedList(v)
<1>1. PICK l \in Nat : l = Len(v) /\ DOMAIN v = 1..l /\ TaskSize \in Nat /\ l <= TaskSize
  BY AreaTypes DEF Ordered
<1>2. 1..l \subseteq 1..TaskSize
  BY <1>1
<1>3. \A i \in 1..l : v[i].start \in Nat /\ v[i].end \in Nat
  BY <1>1, AreaTypes
<1> QED BY <1>1, <1>2, <1>3 DEF Ordered, SortedList

LEMMA UsedIsSorted ==
  ASSUME NEW U \in SUBSET Pages
  PROVE  SortedList([p \in U |-> [start |-> p, end |-> p + 1]])
<1>0. TaskSize \in Nat
  BY MemoryAssumption
<1>1. \A p \in U : p \in Nat /\ 1 <= p /\ p <= TaskSize
  BY <1>0 DEF Pages
<1> DEFINE L == [p \in U |-> [start |-> p, end |-> p + 1]]
<1>2. DOMAIN L = U /\ U \subseteq 1..TaskSize
  BY DEF Pages
<1>3. ASSUME NEW p \in U PROVE L[p].start = p /\ L[p].end = p + 1
  OBVIOUS
<1>4. \A i \in DOMAIN L : /\ L[i].start \in Nat /\ L[i].end \in Nat
                          /\ L[i].start <= L[i].end /\ L[i].end <= TaskSize + 1
  <2> SUFFICES ASSUME NEW i \in U
               PROVE  i \in Nat /\ i + 1 \in Nat /\ i <= i + 1 /\ i + 1 <= TaskSize + 1
    BY <1>2, <1>3
  <2> QED BY <1>0, <1>1
<1>5. \A i, j \in DOMAIN L : i < j => L[i].end <= L[j].start
  <2> SUFFICES ASSUME NEW i \in U, NEW j \in U, i < j PROVE i + 1 <= j
    BY <1>2, <1>3
  <2> QED BY <1>1
<1> HIDE DEF L
<1>6. SortedList(L)
  BY <1>2, <1>4, <1>5 DEF SortedList
<1> QED BY <1>6 DEF L

LEMMA FirstArea ==
  ASSUME NEW L, SortedList(L)
  PROVE  /\ NextArea(L, 0) \in 1..(TaskSize + 2) /\ Behind(L, MinAddr, NextArea(L, 0))
         /\ NextArea(L, 0) \in DOMAIN L \/ NextArea(L, 0) > TaskSize
<1>1. TaskSize \in Nat /\ 0 \in 0..TaskSize /\ ~ (0 > TaskSize)
  BY MemoryAssumption
<1>2. PICK n : n = NextOf(DOMAIN L, 0)
  OBVIOUS
<1>3. n \in 1..(TaskSize + 1) /\ n \in DOMAIN L \cup {TaskSize + 1} /\ \A i \in DOMAIN L : i > 0 => n <= i
  BY <1>1, <1>2, NextIs DEF SortedList
<1>4. NextArea(L, 0) = n
  BY <1>1, <1>2 DEF NextArea
<1>5. \A j \in DOMAIN L : j > 0 /\ j \in Nat
  BY <1>1 DEF SortedList
<1> QED BY <1>1, <1>3, <1>4, <1>5 DEF Behind

\* One area further.
LEMMA StepOver ==
  ASSUME NEW L, SortedList(L), NEW k \in 1..(TaskSize + 1), NEW prev \in 1..(TaskSize + 1),
         Behind(L, prev, k)
  PROVE  /\ Past(prev, L, k) \in prev..(TaskSize + 1)
         /\ NextArea(L, k) \in 1..(TaskSize + 2)
         /\ NextArea(L, k) \in DOMAIN L \/ NextArea(L, k) > TaskSize
         /\ Behind(L, Past(prev, L, k), NextArea(L, k))
<1>1. TaskSize \in Nat /\ DOMAIN L \in SUBSET (1..TaskSize)
  BY MemoryAssumption DEF SortedList
<1>2. PICK q \in prev..(TaskSize + 1) : q = Past(prev, L, k) /\ (k \in DOMAIN L => L[k].end <= q)
  <2>1. CASE k \in DOMAIN L
    <3>1. PICK e \in Nat : e = L[k].end /\ e <= TaskSize + 1
      BY <2>1 DEF SortedList
    <3>2. Past(prev, L, k) = IF prev >= e THEN prev ELSE e
      BY <2>1, <3>1, MaxOfTwo DEF Past
    <3> QED BY <1>1, <3>1, <3>2
  <2>2. CASE k \notin DOMAIN L
    BY <1>1, <2>2 DEF Past
  <2> QED BY <2>1, <2>2
<1>3. PICK n : n = NextArea(L, k)
  OBVIOUS
<1>4. /\ n \in 1..(TaskSize + 2) /\ (n \in DOMAIN L \/ n > TaskSize)
      /\ \A j \in DOMAIN L : j < n => j <= k
  <2>1. CASE k > TaskSize
    BY <1>1, <1>3, <2>1 DEF NextArea
  <2>2. CASE ~ (k > TaskSize)
    <3>1. k \in 0..TaskSize /\ n = NextOf(DOMAIN L, k)
      BY <1>1, <1>3, <2>2 DEF NextArea
    <3>2. n \in 1..(TaskSize + 1) /\ n \in DOMAIN L \cup {TaskSize + 1} /\ \A i \in DOMAIN L : i > k => n <= i
      BY <1>1, <3>1, NextIs
    <3> QED BY <1>1, <3>2
  <2> QED BY <2>1, <2>2
<1>5. ASSUME NEW j \in DOMAIN L, j < n PROVE L[j].end <= q
  <2>1. j <= k /\ j \in Nat /\ L[j].end \in Nat
    BY <1>1, <1>4, <1>5 DEF SortedList
  <2>2. CASE j = k
    BY <1>2, <2>2
  <2>3. CASE j < k
    <3>1. L[j].end <= prev
      BY <2>3 DEF Behind
    <3> QED BY <1>1, <1>2, <2>1, <3>1
  <2> QED BY <2>1, <2>2, <2>3
<1> QED BY <1>2, <1>3, <1>4, <1>5 DEF Behind

LEMMA BehindStays ==
  ASSUME NEW L, SortedList(L), NEW k, NEW p \in Nat, NEW q \in Nat, p <= q, Behind(L, p, k)
  PROVE  Behind(L, q, k)
BY DEF Behind, SortedList

\* What fits before the area at k is in no area at all.
LEMMA FitsIsFree ==
  ASSUME NEW L, SortedList(L), NEW k \in 1..(TaskSize + 2), NEW prev \in 1..(TaskSize + 1),
         Behind(L, prev, k), ~ Blocked(prev, L, k), k \in DOMAIN L \/ k > TaskSize
  PROVE  \A q \in prev..(prev + BootLen - 1), j \in DOMAIN L : ~ (L[j].start <= q /\ q < L[j].end)
<1>1. TaskSize \in Nat /\ BootLen \in Nat /\ DOMAIN L \in SUBSET (1..TaskSize)
  BY MemoryAssumption DEF SortedList
<1> SUFFICES ASSUME NEW q \in prev..(prev + BootLen - 1), NEW j \in DOMAIN L
             PROVE  ~ (L[j].start <= q /\ q < L[j].end)
  OBVIOUS
<1>2. PICK x \in Nat, y \in Nat : x = L[j].start /\ y = L[j].end /\ j \in 1..TaskSize
  BY <1>1 DEF SortedList
<1>3. CASE j < k
  BY <1>2, <1>3 DEF Behind
<1>4. CASE ~ (j < k)
  <2>1. k \in DOMAIN L
    BY <1>1, <1>2, <1>4
  <2>2. PICK z \in Nat, w \in Nat : z = L[k].start /\ w = L[k].end /\ z <= w
    BY <2>1 DEF SortedList
  <2>3. prev + BootLen <= z
    BY <1>1, <2>1, <2>2 DEF Blocked, Area
  <2>4. j = k \/ w <= x
    BY <1>1, <1>2, <1>4, <2>1, <2>2 DEF SortedList
  <2>5. z <= x
    BY <1>2, <2>2, <2>4
  <2> QED BY <1>1, <1>2, <2>3, <2>5
<1> QED BY <1>3, <1>4

Good(c, tgt, self) ==
  /\ c \in Cursors
  /\ Behind(self, c.prev, c.s) /\ (c.s \in DOMAIN self \/ c.s > TaskSize)
  /\ Behind(tgt, c.prev, c.u) /\ (c.u \in DOMAIN tgt \/ c.u > TaskSize)

LEMMA RoundIsGood ==
  ASSUME NEW tgt, NEW self, SortedList(tgt), SortedList(self), NEW c, Good(c, tgt, self)
  PROVE  Good(Round(tgt, self)[c], tgt, self)
<1>1. PICK p \in 1..(TaskSize + 1), s \in 1..(TaskSize + 2), u \in 1..(TaskSize + 2) :
        c = [prev |-> p, s |-> s, u |-> u]
  BY DEF Good, Cursors
<1>2. TaskSize \in Nat /\ c \in Cursors /\ c.prev = p /\ c.s = s /\ c.u = u
  BY <1>1, MemoryAssumption DEF Good
<1>3. PICK d : d = Round(tgt, self)[c]
  OBVIOUS
<1>4. d = IF Blocked(p, self, s)
            THEN IF s > TaskSize + 1 THEN c
                 ELSE [prev |-> Past(p, self, s), s |-> NextArea(self, s), u |-> u]
          ELSE IF Blocked(p, tgt, u) /\ u <= TaskSize + 1
            THEN [prev |-> Past(p, tgt, u), s |-> s, u |-> NextArea(tgt, u)]
          ELSE c
  BY <1>2, <1>3 DEF Round
<1>5. /\ Behind(self, p, s) /\ (s \in DOMAIN self \/ s > TaskSize)
      /\ Behind(tgt, p, u) /\ (u \in DOMAIN tgt \/ u > TaskSize)
  BY <1>2 DEF Good
<1>6. CASE d = c
  BY <1>3, <1>6
<1>7. CASE s <= TaskSize + 1 /\ d = [prev |-> Past(p, self, s), s |-> NextArea(self, s), u |-> u]
  <2>1. s \in 1..(TaskSize + 1)
    BY <1>2, <1>7
  <2>2. PICK q \in p..(TaskSize + 1), n \in 1..(TaskSize + 2) :
          /\ q = Past(p, self, s) /\ n = NextArea(self, s)
          /\ (n \in DOMAIN self \/ n > TaskSize) /\ Behind(self, q, n)
    BY <2>1, <1>5, StepOver
  <2>3. q \in 1..(TaskSize + 1) /\ q \in Nat /\ p \in Nat /\ p <= q
    BY <1>2
  <2>4. Behind(tgt, q, u)
    BY <2>3, <1>5, BehindStays
  <2>5. d = [prev |-> q, s |-> n, u |-> u]
    BY <1>7, <2>2
  <2> QED BY <1>3, <1>5, <2>2, <2>3, <2>4, <2>5 DEF Good, Cursors
<1>8. CASE u <= TaskSize + 1 /\ d = [prev |-> Past(p, tgt, u), s |-> s, u |-> NextArea(tgt, u)]
  <2>1. u \in 1..(TaskSize + 1)
    BY <1>2, <1>8
  <2>2. PICK q \in p..(TaskSize + 1), n \in 1..(TaskSize + 2) :
          /\ q = Past(p, tgt, u) /\ n = NextArea(tgt, u)
          /\ (n \in DOMAIN tgt \/ n > TaskSize) /\ Behind(tgt, q, n)
    BY <2>1, <1>5, StepOver
  <2>3. q \in 1..(TaskSize + 1) /\ q \in Nat /\ p \in Nat /\ p <= q
    BY <1>2
  <2>4. Behind(self, q, s)
    BY <2>3, <1>5, BehindStays
  <2>5. d = [prev |-> q, s |-> s, u |-> n]
    BY <1>8, <2>2
  <2> QED BY <1>3, <1>5, <2>2, <2>3, <2>4, <2>5 DEF Good, Cursors
<1> QED BY <1>2, <1>4, <1>6, <1>7, <1>8

LEMMA SearchIsGood ==
  ASSUME NEW tgt, NEW self, SortedList(tgt), SortedList(self)
  PROVE  Good(Search(tgt, self), tgt, self)
<1>1. TaskSize \in Nat /\ Rounds \in Nat
  BY MemoryAssumption DEF Rounds
<1>2. PICK x : x = [prev |-> MinAddr, s |-> NextArea(self, 0), u |-> NextArea(tgt, 0)]
  OBVIOUS
<1>3. Good(x, tgt, self)
  <2>1. MinAddr \in 1..(TaskSize + 1)
    BY <1>1 DEF MinAddr
  <2> QED BY <1>2, <2>1, FirstArea DEF Good, Cursors
<1>4. PICK R : R = Round(tgt, self)
  OBVIOUS
<1>5. PICK S : S = {c \in Cursors : Good(c, tgt, self)}
  OBVIOUS
<1>6. x \in S /\ \A c \in S : R[c] \in S
  BY <1>3, <1>4, <1>5, RoundIsGood DEF Good
<1>7. PICK F : F = [k \in Nat \X S |-> R[k[2]]]
  OBVIOUS
<1>8. F \in [Nat \X S -> S]
  BY <1>6, <1>7
<1>9. PICK f \in [0..Rounds -> S] : Recursive(f, Rounds, x, F)
  BY <1>1, <1>6, <1>8, Iterate
<1>10. f = [k \in 0..Rounds |-> IF k = 0 THEN x ELSE R[f[k - 1]]]
  <2>1. ASSUME NEW k \in 0..Rounds, k # 0 PROVE F[<<k, f[k - 1]>>] = R[f[k - 1]]
    <3>1. k \in Nat /\ k - 1 \in 0..Rounds
      BY <1>1, <2>1
    <3>2. <<k, f[k - 1]>> \in Nat \X S
      BY <3>1, <1>9
    <3> QED BY <3>2, <1>7
  <2> QED BY <1>9, <2>1 DEF Recursive
<1>11. PICK g : g = [k \in 0..Rounds |-> IF k = 0 THEN x ELSE R[g[k - 1]]] /\ Search(tgt, self) = g[Rounds]
  BY <1>2, <1>4, <1>10 DEF Search
<1>12. g[0] = x /\ \A k \in 1..Rounds : g[k] = R[g[k - 1]]
  BY <1>1, <1>11
<1> DEFINE T == {n \in Nat : n \in 0..Rounds => g[n] \in S}
<1>13. 0 \in T
  BY <1>6, <1>12
<1>14. ASSUME NEW n \in Nat, n \in T PROVE n + 1 \in T
  <2> SUFFICES ASSUME n + 1 \in 0..Rounds PROVE g[n + 1] \in S
    OBVIOUS
  <2>1. n \in 0..Rounds /\ n + 1 \in 1..Rounds /\ (n + 1) - 1 = n
    BY <1>1
  <2>2. g[n + 1] = R[g[n]]
    BY <2>1, <1>12
  <2> QED BY <1>6, <1>14, <2>1, <2>2
<1>15. Nat \subseteq T
  <2> HIDE DEF T
  <2> QED BY <1>13, <1>14, Induct
<1>16. g[Rounds] \in S
  BY <1>1, <1>15
<1> QED BY <1>5, <1>11, <1>16

\* The hint of restorer_get_vma_hint() is apart from every page in use and from
\* every area that is to be restored.
LEMMA HintIsFree ==
  ASSUME NEW v, Ordered(v), NEW m, NEW h, h = restorer_get_vma_hint(v, self_vmas(m)), h # 0
  PROVE  /\ h \in Nat /\ 1 <= h
         /\ \A q \in h..(h + BootLen - 1) : q \notin InUse(m) /\ \A i \in 1..Len(v) : q \notin Span(v[i])
<1> DEFINE U == InUse(m)
<1>0. U \in SUBSET Pages
  BY DEF InUse
<1>1. PICK L : L = self_vmas(m) /\ L = [p \in U |-> [start |-> p, end |-> p + 1]]
  BY DEF self_vmas
<1> HIDE DEF U
<1>2. SortedList(L) /\ SortedList(v)
  BY <1>0, <1>1, UsedIsSorted, OrderedIsSorted
<1>3. PICK c : c = Search(v, L) /\ Good(c, v, L)
  BY <1>2, SearchIsGood
<1>4. ~ Blocked(c.prev, L, c.s) /\ ~ Blocked(c.prev, v, c.u) /\ h = c.prev
  BY <1>1, <1>3 DEF restorer_get_vma_hint
<1>5. TaskSize \in Nat /\ h \in 1..(TaskSize + 1) /\ c.s \in 1..(TaskSize + 2) /\ c.u \in 1..(TaskSize + 2)
  BY <1>3, <1>4, MemoryAssumption DEF Good, Cursors
<1>6. \A q \in h..(h + BootLen - 1), j \in DOMAIN L : ~ (L[j].start <= q /\ q < L[j].end)
  BY <1>2, <1>3, <1>4, <1>5, FitsIsFree DEF Good
<1>7. \A q \in h..(h + BootLen - 1), j \in DOMAIN v : ~ (v[j].start <= q /\ q < v[j].end)
  BY <1>2, <1>3, <1>4, <1>5, FitsIsFree DEF Good
<1>8. ASSUME NEW q \in h..(h + BootLen - 1)
      PROVE  q \notin U /\ \A i \in 1..Len(v) : q \notin Span(v[i])
  <2>1. q \in Int /\ DOMAIN v = 1..Len(v) /\ DOMAIN L = U
    BY <1>1, <1>5, AreaTypes, MemoryAssumption
  <2>2. q \notin U
    <3> SUFFICES ASSUME q \in U PROVE FALSE
      OBVIOUS
    <3>1. L[q].start = q /\ L[q].end = q + 1
      BY <1>1
    <3> QED BY <1>6, <2>1, <3>1
  <2>3. ASSUME NEW i \in 1..Len(v) PROVE q \notin Span(v[i])
    <3>1. v[i].start \in Nat /\ v[i].end \in Nat /\ ~ (v[i].start <= q /\ q < v[i].end)
      BY <1>7, <2>1, AreaTypes
    <3> QED BY <2>1, <3>1 DEF Span
  <2> QED BY <2>2, <2>3
<1> QED BY <1>5, <1>8 DEF U

-----------------------------------------------------------------------------
(* The restorer keeps its place.  Once premapped, the private areas are in   *)
(* use until the restorer is placed, which is why it is placed apart from    *)
(* them; and it is placed apart from the areas to come.  Then nothing that   *)
(* is unmapped, moved or mapped can touch it.                                *)

InUseAll(m, v, pr) == \A i \in PrivOf(v) : \A p \in Source(v, pr, i) : m[p] # Free
BootApart(m, v, pr, bt) ==
  /\ bt \in Nat /\ 1 <= bt /\ bt + BootLen <= TaskSize + 1
  /\ \A q \in bt..(bt + BootLen - 1) :
       /\ m[q] = Boot
       /\ \A i \in PrivOf(v) : q \notin Source(v, pr, i)
       /\ \A i \in 1..Len(v) : q \notin Span(v[i])

Premapped == {"fork", "guards", "open"}
InRestorer == {"restorer", "left", "right", "map", "mapped"}
TaskInv(c, m, v, pr, bt) ==
  /\ DOMAIN m = Pages
  /\ c \in Premapped \cup InRestorer => Packed(v, pr)
  /\ c \in Premapped => InUseAll(m, v, pr)
  /\ c \in InRestorer => BootApart(m, v, pr, bt)
BootInv ==
  /\ tree \in Trees /\ img = [t \in Tasks |-> parse_smaps(tree.vmas[t])]
  /\ pc = [t \in Tasks |-> pc[t]] /\ mem = [t \in Tasks |-> mem[t]]
  /\ pre = [t \in Tasks |-> pre[t]] /\ boot = [t \in Tasks |-> boot[t]]
  /\ \A t \in Tasks : TaskInv(pc[t], mem[t], Image(t), pre[t], boot[t])

LEMMA BootInvInit == Init => BootInv
<1> SUFFICES ASSUME Init PROVE BootInv
  OBVIOUS
<1>1. /\ tree \in Trees /\ img = [t \in Tasks |-> parse_smaps(tree.vmas[t])]
      /\ pc = [t \in Tasks |-> pc[t]] /\ mem = [t \in Tasks |-> mem[t]]
      /\ pre = [t \in Tasks |-> pre[t]] /\ boot = [t \in Tasks |-> boot[t]]
  BY DEF Init
<1>2. \A t \in Tasks : pc[t] \in {"prepare", "unborn"} /\ DOMAIN mem[t] = Pages
  BY DEF Init
<1> QED BY <1>1, <1>2 DEF BootInv, TaskInv, Premapped, InRestorer

LEMMA ImageIs ==
  ASSUME BootInv, NEW t \in Tasks
  PROVE  /\ Ordered(Image(t)) /\ Privates(t) = PrivOf(Image(t)) /\ DOMAIN Image(t) = 1..Len(Image(t))
         /\ Shareds(t) = DOMAIN Image(t) \ PrivOf(Image(t))
<1>1. Ordered(Image(t))
  BY ImageOrdered DEF BootInv, Tasks, Image
<1>2. DOMAIN Image(t) = 1..Len(Image(t))
  BY <1>1, AreaTypes
<1> QED BY <1>1, <1>2 DEF Privates, Shareds, PrivOf

\* A step of one task leaves the others alone.
LEMMA OneTask ==
  ASSUME BootInv, NEW t \in Tasks, UNCHANGED <<tree, img>>,
         NEW c, NEW m, NEW pr, NEW bt,
         pc' = [pc EXCEPT ![t] = c], mem' = [mem EXCEPT ![t] = m],
         pre' = [pre EXCEPT ![t] = pr], boot' = [boot EXCEPT ![t] = bt],
         TaskInv(c, m, Image(t), pr, bt)
  PROVE  BootInv'
<1>1. Tasks' = Tasks /\ \A u \in Tasks : Image(u)' = Image(u)
  BY DEF Tasks, Image
<1>2. /\ tree' \in Trees /\ img' = [u \in Tasks' |-> parse_smaps(tree.vmas[u])'] 
      /\ pc' = [u \in Tasks |-> pc'[u]] /\ mem' = [u \in Tasks |-> mem'[u]]
      /\ pre' = [u \in Tasks |-> pre'[u]] /\ boot' = [u \in Tasks |-> boot'[u]]
  BY <1>1 DEF BootInv
<1>3. ASSUME NEW u \in Tasks PROVE TaskInv(pc'[u], mem'[u], Image(u), pre'[u], boot'[u])
  <2>1. CASE u = t
    BY <2>1 DEF BootInv
  <2>2. CASE u # t
    <3>1. pc'[u] = pc[u] /\ mem'[u] = mem[u] /\ pre'[u] = pre[u] /\ boot'[u] = boot[u]
      BY <2>2 DEF BootInv
    <3> QED BY <3>1 DEF BootInv
  <2> QED BY <2>1, <2>2
<1>4. \A u \in Tasks' : TaskInv(pc'[u], mem'[u], Image(u)', pre'[u], boot'[u])
  BY <1>1, <1>3
<1> QED BY <1>2, <1>4 DEF BootInv, TaskInv

LEMMA NothingElse ==
  ASSUME BootInv, NEW t \in Tasks
  PROVE  /\ pc = [pc EXCEPT ![t] = pc[t]] /\ mem = [mem EXCEPT ![t] = mem[t]]
         /\ pre = [pre EXCEPT ![t] = pre[t]] /\ boot = [boot EXCEPT ![t] = boot[t]]
         /\ TaskInv(pc[t], mem[t], Image(t), pre[t], boot[t])
BY DEF BootInv

\* What page p of area x of task t holds; r is the root.
Was(r, t, x, p) == Private(100 * (IF x.cow THEN r ELSE t) + p, t)
Contents(m, r, t, v, pr) ==
  \A i \in PrivOf(v) : \A p \in Source(v, pr, i) : m[p] = Was(r, t, v[i], v[i].start + p - pr.addr[i])

\* prepare_mappings() puts the private areas side by side, with their content.
LEMMA PrepareDoes ==
  ASSUME BootInv, NEW t \in Tasks, prepare_mappings(t)
  PROVE  \E c, m, pr :
           /\ c \in {"fork", "guards"} /\ pc' = [pc EXCEPT ![t] = c]
           /\ mem' = [mem EXCEPT ![t] = m] /\ pre' = [pre EXCEPT ![t] = pr]
           /\ DOMAIN m = Pages /\ Packed(Image(t), pr) /\ Contents(m, tree.root, t, Image(t), pr)
<1> DEFINE v == Image(t)
           n == Ends(v)[Len(v)]
<1>1. Ordered(v) /\ Privates(t) = PrivOf(v)
  BY ImageIs
<1>3. PICK base \in {b \in Pages : IsFree(mem[t], b, Ends(Image(t))[Len(Image(t))])} :
        LET addr == [i \in Privates(t) |-> base + Ends(Image(t))[i] - Size(Image(t)[i])]
            area(p) == {i \in Privates(t) : p - addr[i] \in 0..(Size(Image(t)[i]) - 1)}
        IN  /\ pre' = [pre EXCEPT ![t] = [base |-> base, len |-> Ends(Image(t))[Len(Image(t))], addr |-> addr]]
            /\ mem' = [mem EXCEPT ![t] = [p \in Pages |->
                         IF p \notin base..(base + Ends(Image(t))[Len(Image(t))] - 1) THEN @[p]
                         ELSE IF area(p) = {} THEN Guard
                         ELSE LET i == CHOOSE i \in area(p) : TRUE
                              IN  Restored(t, i, Image(t)[i].start + p - addr[i], @)]]
  BY DEF prepare_mappings
<1> DEFINE addr == [i \in Privates(t) |-> base + Ends(v)[i] - Size(v[i])]
           area(p) == {i \in Privates(t) : p - addr[i] \in 0..(Size(v[i]) - 1)}
           content(p) == LET i == CHOOSE i \in area(p) : TRUE
                         IN  Restored(t, i, v[i].start + p - addr[i], mem[t])
           m == [p \in Pages |-> IF p \notin base..(base + n - 1) THEN mem[t][p]
                                 ELSE IF area(p) = {} THEN Guard ELSE content(p)]
           pr == [base |-> base, len |-> n, addr |-> addr]
<1>5. pre' = [pre EXCEPT ![t] = pr] /\ mem' = [mem EXCEPT ![t] = m]
  BY <1>3
<1> HIDE DEF v
<1>6. PICK c : pc' = [pc EXCEPT ![t] = c]
  BY DEF prepare_mappings, Goes
<1>7. c \in {"fork", "guards"}
  <2>1. pc'[t] = c
    BY <1>6 DEF BootInv
  <2> QED BY <2>1 DEF prepare_mappings, Goes, BootInv
<1>8. TaskSize \in Nat /\ n \in Nat /\ base \in Nat /\ 1 <= base /\ base <= TaskSize
  <2>1. Len(v) \in Nat /\ TaskSize \in Nat
    BY <1>1, AreaTypes
  <2> QED BY <1>1, <2>1, EndsAre DEF Pages
<1>9. base + n <= TaskSize + 1
  <2>1. CASE n = 0
    BY <1>8, <2>1
  <2>2. CASE n > 0
    <3>1. base + n - 1 \in base..(base + n - 1)
      BY <1>8, <2>2
    <3>2. base + n - 1 \in Pages
      BY <3>1, <1>3 DEF IsFree, v
    <3> QED BY <1>8, <3>2 DEF Pages
  <2> QED BY <1>8, <2>1, <2>2
<1>10. Packed(v, pr)
  BY <1>1, <1>8, <1>9 DEF Packed
<1>11. Contents(m, tree.root, t, v, pr)
  <2> SUFFICES ASSUME NEW i \in PrivOf(v), NEW p \in Source(v, pr, i)
               PROVE  m[p] = Was(tree.root, t, v[i], v[i].start + p - pr.addr[i])
    BY DEF Contents
  <2>1. p \in Pages /\ p \in base..(base + n - 1)
    BY <1>1, <1>10, SourcesDisjoint
  <2>2. \A j \in PrivOf(v) : addr[j] \in Nat /\ Size(v[j]) \in Nat
    BY <1>1, <1>10, SourcesApart
  <2>3. i \in area(p)
    BY <1>1, <2>2 DEF Source
  <2>4. ASSUME NEW j \in area(p) PROVE j = i
    <3>1. p \in Int /\ j \in PrivOf(v) /\ p - addr[j] \in 0..(Size(v[j]) - 1)
      BY <1>1, <2>2 DEF Source
    <3>2. PICK x \in Nat, y \in Nat : x = addr[j] /\ y = Size(v[j])
      BY <2>2, <3>1
    <3>3. p \in x..(x + y - 1)
      BY <3>1, <3>2
    <3>4. p \in Source(v, pr, j)
      BY <3>2, <3>3 DEF Source
    <3> QED BY <1>1, <1>10, <3>1, <3>4, SourcesDisjoint
  <2>5. (CHOOSE j \in area(p) : TRUE) = i
    <3> HIDE DEF area
    <3> QED BY <2>3, <2>4
  <2>6. m[p] = Restored(t, i, v[i].start + p - addr[i], mem[t])
    BY <2>1, <2>3, <2>5
  <2>7. \A q : Restored(t, i, q, mem[t]) = Was(tree.root, t, v[i], q)
    BY DEF v, Restored, paddr, premmaped_addr, Content, Was, Root
  <2> QED BY <2>6, <2>7
<1>12. DOMAIN m = Pages
  OBVIOUS
<1> HIDE DEF m, pr
<1> QED BY <1>5, <1>6, <1>7, <1>10, <1>11, <1>12 DEF v

LEMMA ContentsInUse ==
  ASSUME NEW m, NEW r, NEW t, NEW v, NEW pr, Contents(m, r, t, v, pr)
  PROVE  InUseAll(m, v, pr)
<1> SUFFICES ASSUME NEW i \in PrivOf(v), NEW p \in Source(v, pr, i) PROVE m[p] # Free
  BY DEF InUseAll
<1>1. PICK x : m[p] = <<"page", x, t>>
  BY DEF Contents, Was, Private
<1>2. \A y : <<"page", y, t>> # Free
  BY DEF Free
<1> QED BY <1>1, <1>2

LEMMA PrepareKeeps ==
  ASSUME BootInv, NEW t \in Tasks, prepare_mappings(t)
  PROVE  BootInv'
<1>1. PICK c, m, pr :
        /\ c \in {"fork", "guards"} /\ pc' = [pc EXCEPT ![t] = c]
        /\ mem' = [mem EXCEPT ![t] = m] /\ pre' = [pre EXCEPT ![t] = pr]
        /\ DOMAIN m = Pages /\ Packed(Image(t), pr) /\ Contents(m, tree.root, t, Image(t), pr)
  BY PrepareDoes
<1>2. PICK bt : bt = boot[t] /\ boot' = [boot EXCEPT ![t] = bt]
  BY NothingElse DEF prepare_mappings
<1>3. InUseAll(m, Image(t), pr)
  BY <1>1, ContentsInUse
<1>4. TaskInv(c, m, Image(t), pr, bt)
  BY <1>1, <1>3 DEF TaskInv, InRestorer
<1>5. UNCHANGED <<tree, img>>
  BY DEF prepare_mappings
<1> QED BY <1>1, <1>2, <1>4, <1>5, OneTask

LEMMA ForkKeeps ==
  ASSUME BootInv, Root \in Tasks, create_children
  PROVE  BootInv'
<1>1. Tasks' = Tasks /\ \A u \in Tasks : Image(u)' = Image(u)
  BY DEF Tasks, Image, create_children
<1>2. /\ tree' \in Trees /\ img' = [u \in Tasks' |-> parse_smaps(tree.vmas[u])']
      /\ pc' = [u \in Tasks |-> pc'[u]] /\ mem' = [u \in Tasks |-> mem'[u]]
      /\ pre' = [u \in Tasks |-> pre'[u]] /\ boot' = [u \in Tasks |-> boot'[u]]
  BY <1>1 DEF BootInv, create_children
<1>3. TaskInv("fork", mem[Root], Image(Root), pre[Root], boot[Root])
  BY DEF BootInv, create_children
<1>4. ASSUME NEW u \in Tasks PROVE TaskInv(pc'[u], mem'[u], Image(u), pre'[u], boot'[u])
  <2>1. mem'[u] = mem[Root] /\ pre'[u] = pre[u] /\ boot'[u] = boot[u]
        /\ pc'[u] = IF u = Root THEN "guards" ELSE "prepare"
    BY DEF create_children
  <2> QED BY <1>3, <2>1 DEF TaskInv, Premapped, InRestorer
<1>5. \A u \in Tasks' : TaskInv(pc'[u], mem'[u], Image(u)', pre'[u], boot'[u])
  BY <1>1, <1>4
<1> QED BY <1>1, <1>2, <1>5 DEF BootInv

LEMMA GuardsKeep ==
  ASSUME BootInv, NEW t \in Tasks, unmap_guard_pages(t)
  PROVE  BootInv'
<1>1. PICK v, pr : v = Image(t) /\ pr = pre[t] /\ Ordered(v) /\ Privates(t) = PrivOf(v)
  BY ImageIs
<1>2. Packed(v, pr) /\ InUseAll(mem[t], v, pr)
  BY <1>1 DEF BootInv, TaskInv, unmap_guard_pages, Premapped
<1>3. PICK m : m = [p \in Pages |->
        IF \E i \in PrivOf(v) : v[i].kind = "stack" /\ p = pr.addr[i] - 1 THEN Free ELSE mem[t][p]]
  OBVIOUS
<1>4. InUseAll(m, v, pr)
  <2> SUFFICES ASSUME NEW i \in PrivOf(v), NEW p \in Source(v, pr, i) PROVE m[p] # Free
    BY DEF InUseAll
  <2>1. p \in Pages /\ \A j \in PrivOf(v) : ~ (v[j].kind = "stack" /\ p = pr.addr[j] - 1)
    BY <1>1, <1>2, SourcesDisjoint
  <2>2. m[p] = mem[t][p]
    BY <1>3, <2>1
  <2> QED BY <1>2, <2>2 DEF InUseAll
<1>5. TaskInv("open", m, v, pr, boot[t])
  BY <1>2, <1>3, <1>4 DEF TaskInv, InRestorer
<1>6. pc' = [pc EXCEPT ![t] = "open"] /\ mem' = [mem EXCEPT ![t] = m] /\ UNCHANGED <<tree, img, pre, boot>>
  BY <1>1, <1>3 DEF unmap_guard_pages, Goes, BootInv
<1>7. pre' = [pre EXCEPT ![t] = pr] /\ boot' = [boot EXCEPT ![t] = boot[t]]
  BY <1>1, <1>6, NothingElse
<1> QED BY <1>1, <1>5, <1>6, <1>7, OneTask

\* What a task does that maps nothing, or fails.
LEMMA PcKeeps ==
  ASSUME BootInv, NEW t \in Tasks, UNCHANGED <<tree, img, mem, pre, boot>>, NEW c,
         pc' = [pc EXCEPT ![t] = c],
         c \in {pc[t], "failed"} \/ (pc[t] \in InRestorer /\ c \in InRestorer)
  PROVE  BootInv'
<1>1. PICK m, pr, bt : m = mem[t] /\ pr = pre[t] /\ bt = boot[t]
  OBVIOUS
<1>2. TaskInv(c, m, Image(t), pr, bt)
  <2>1. TaskInv(pc[t], m, Image(t), pr, bt)
    BY <1>1, NothingElse
  <2>2. c \in InRestorer => c \notin Premapped
    BY DEF InRestorer, Premapped
  <2> QED BY <2>1, <2>2 DEF TaskInv, InRestorer, Premapped
<1>3. mem' = [mem EXCEPT ![t] = m] /\ pre' = [pre EXCEPT ![t] = pr] /\ boot' = [boot EXCEPT ![t] = bt]
  BY <1>1, NothingElse
<1> QED BY <1>2, <1>3, OneTask

LEMMA SharedKeeps ==
  ASSUME BootInv, NEW t \in Tasks, get_shmem_fd(t) \/ shmem_wait_and_open(t)
  PROVE  BootInv'
<1>1. UNCHANGED <<tree, img, mem, pre, boot>>
  BY DEF get_shmem_fd, shmem_wait_and_open
<1>2. UNCHANGED pc \/ pc' = [pc EXCEPT ![t] = "failed"]
  BY DEF get_shmem_fd, shmem_wait_and_open, Goes
<1>3. pc = [pc EXCEPT ![t] = pc[t]]
  BY NothingElse
<1>4. PICK c \in {pc[t], "failed"} : pc' = [pc EXCEPT ![t] = c]
  BY <1>2, <1>3
<1> QED BY <1>1, <1>4, PcKeeps

LEMMA RestorerKeeps ==
  ASSUME BootInv, NEW t \in Tasks, sigreturn_restore(t)
  PROVE  BootInv'
<1>1. PICK v, pr, m : v = Image(t) /\ pr = pre[t] /\ m = mem[t] /\ Ordered(v)
  BY ImageIs
<1>2. Packed(v, pr) /\ InUseAll(m, v, pr) /\ DOMAIN m = Pages
  BY <1>1 DEF BootInv, TaskInv, sigreturn_restore, Premapped
<1>3. UNCHANGED <<tree, img, pre>>
  BY DEF sigreturn_restore
<1>4. PICK h : h = restorer_get_vma_hint(Image(t), self_vmas(mem[t]))
  OBVIOUS
<1>5. IF h = 0 \/ h + BootLen > TaskSize + 1 THEN Goes(t, "failed") /\ UNCHANGED <<boot, mem>>
      ELSE /\ boot' = [boot EXCEPT ![t] = h]
           /\ mem' = [mem EXCEPT ![t] = [p \in Pages |-> IF p \in h..(h + BootLen - 1) THEN Boot ELSE @[p]]]
           /\ Goes(t, "restorer")
  BY <1>4 DEF sigreturn_restore
<1>6. CASE h = 0 \/ h + BootLen > TaskSize + 1
  BY <1>3, <1>5, <1>6, PcKeeps DEF Goes
<1>7. CASE ~ (h = 0 \/ h + BootLen > TaskSize + 1)
  <2>1. PICK w : w = [p \in Pages |-> IF p \in h..(h + BootLen - 1) THEN Boot ELSE m[p]]
    OBVIOUS
  <2>2. pc' = [pc EXCEPT ![t] = "restorer"] /\ mem' = [mem EXCEPT ![t] = w] /\ boot' = [boot EXCEPT ![t] = h]
    BY <1>1, <1>5, <1>7, <2>1 DEF Goes
  <2>4. /\ h \in Nat /\ 1 <= h
        /\ \A q \in h..(h + BootLen - 1) : q \notin InUse(m) /\ \A i \in 1..Len(v) : q \notin Span(v[i])
    BY <1>1, <1>4, <1>7, HintIsFree
  <2>5. h + BootLen <= TaskSize + 1 /\ BootLen \in Nat /\ TaskSize \in Nat
    BY <1>7, <2>4, MemoryAssumption
  <2>6. \A q \in h..(h + BootLen - 1) : q \in Pages
    BY <2>4, <2>5 DEF Pages
  <2>7. \A q \in h..(h + BootLen - 1) : w[q] = Boot
    BY <2>1, <2>6
  <2>8. ASSUME NEW q \in h..(h + BootLen - 1), NEW i \in PrivOf(v) PROVE q \notin Source(v, pr, i)
    BY <1>2, <2>4, <2>6 DEF InUse, InUseAll
  <2>9. BootApart(w, v, pr, h)
    BY <2>4, <2>5, <2>7, <2>8 DEF BootApart
  <2>10. TaskInv("restorer", w, v, pr, h)
    BY <1>2, <2>1, <2>9 DEF TaskInv, Premapped
  <2>11. pre' = [pre EXCEPT ![t] = pr]
    BY <1>1, <1>3, NothingElse
  <2> QED BY <1>1, <1>3, <2>2, <2>10, <2>11, OneTask
<1> QED BY <1>6, <1>7

\* A step in the restorer that leaves the pages of the restorer alone.
LEMMA StaysInRestorer ==
  ASSUME BootInv, NEW t \in Tasks, UNCHANGED <<tree, img, pre, boot>>,
         NEW c \in InRestorer, NEW m, pc[t] \in InRestorer,
         pc' = [pc EXCEPT ![t] = c], mem' = [mem EXCEPT ![t] = m],
         DOMAIN m = Pages, \A q \in BootPages(t) : m[q] = Boot
  PROVE  BootInv'
<1>1. PICK pr, bt : pr = pre[t] /\ bt = boot[t]
  OBVIOUS
<1>2. TaskInv(pc[t], mem[t], Image(t), pr, bt)
  BY <1>1, NothingElse
<1>3. Packed(Image(t), pr) /\ BootApart(m, Image(t), pr, bt)
  BY <1>1, <1>2 DEF TaskInv, BootApart, BootPages
<1>4. TaskInv(c, m, Image(t), pr, bt)
  BY <1>3 DEF TaskInv, Premapped, InRestorer
<1>5. pre' = [pre EXCEPT ![t] = pr] /\ boot' = [boot EXCEPT ![t] = bt]
  BY <1>1, NothingElse
<1> QED BY <1>4, <1>5, OneTask

LEMMA WhereBootIs ==
  ASSUME BootInv, NEW t \in Tasks, pc[t] \in InRestorer
  PROVE  /\ DOMAIN mem[t] = Pages /\ Packed(Image(t), pre[t])
         /\ \A q \in BootPages(t) :
              /\ q \in Pages /\ mem[t][q] = Boot
              /\ \A i \in PrivOf(Image(t)) : q \notin Source(Image(t), pre[t], i)
              /\ \A i \in 1..Len(Image(t)) : q \notin Span(Image(t)[i])
<1>1. TaskInv(pc[t], mem[t], Image(t), pre[t], boot[t])
  BY NothingElse
<1>2. BootApart(mem[t], Image(t), pre[t], boot[t])
  BY <1>1 DEF TaskInv
<1>3. ASSUME NEW q \in BootPages(t) PROVE q \in Pages
  BY <1>2, MemoryAssumption DEF BootPages, BootApart, Pages
<1> QED BY <1>1, <1>2, <1>3 DEF TaskInv, BootApart, BootPages

LEMMA UnmapKeeps ==
  ASSUME BootInv, NEW t \in Tasks, unmap_old_vmas(t)
  PROVE  BootInv'
<1>1. PICK m : m = [p \in Pages |->
        IF p \in BootPages(t) \/ p \in pre[t].base..(pre[t].base + pre[t].len - 1) THEN mem[t][p] ELSE Free]
  OBVIOUS
<1>2. /\ UNCHANGED <<tree, img, pre, boot>> /\ pc[t] \in InRestorer /\ pc' = [pc EXCEPT ![t] = "left"]
      /\ mem' = [mem EXCEPT ![t] = m] /\ "left" \in InRestorer
  BY <1>1 DEF unmap_old_vmas, Goes, InRestorer
<1>3. DOMAIN m = Pages /\ \A q \in BootPages(t) : m[q] = Boot
  BY <1>1, <1>2, WhereBootIs
<1> QED BY <1>2, <1>3, StaysInRestorer

LEMMA ShiftKeeps ==
  ASSUME BootInv, NEW t \in Tasks, NEW next, pc[t] \in InRestorer, at[t] \in Privates(t),
         vma_remap(t, next), UNCHANGED <<tree, img, pre, boot, shm>>
  PROVE  BootInv'
<1>1. PICK v, src : v = Image(t)[at[t]] /\ src = pre[t].addr[at[t]]
  OBVIOUS
<1>2. \/ pc' = [pc EXCEPT ![t] = "failed"] /\ UNCHANGED mem
      \/ mem' = [mem EXCEPT ![t] = Moved(mem[t], src, v)] /\ UNCHANGED pc
  BY <1>1 DEF vma_remap, Goes
<1>3. CASE pc' = [pc EXCEPT ![t] = "failed"] /\ UNCHANGED mem
  BY <1>3, PcKeeps
<1>4. CASE mem' = [mem EXCEPT ![t] = Moved(mem[t], src, v)] /\ UNCHANGED pc
  <2>1. PICK m : m = Moved(mem[t], src, v)
    OBVIOUS
  <2>2. at[t] \in PrivOf(Image(t)) /\ at[t] \in 1..Len(Image(t))
    BY ImageIs DEF PrivOf
  <2>3. ASSUME NEW q \in BootPages(t) PROVE m[q] = Boot
    <3>1. /\ q \in Pages /\ mem[t][q] = Boot /\ q \notin Span(v)
          /\ q \notin Source(Image(t), pre[t], at[t])
      BY <1>1, <2>2, WhereBootIs
    <3>2. q \notin src..(src + Size(v) - 1)
      BY <1>1, <3>1 DEF Source
    <3> QED BY <2>1, <3>1, <3>2 DEF Moved
  <2>4. DOMAIN m = Pages
    BY <2>1 DEF Moved
  <2>5. PICK c : c = pc[t] /\ pc' = [pc EXCEPT ![t] = c]
    BY <1>4, NothingElse
  <2>6. c \in InRestorer /\ mem' = [mem EXCEPT ![t] = m]
    BY <1>4, <2>1, <2>5
  <2> QED BY <2>3, <2>4, <2>5, <2>6, StaysInRestorer
<1> QED BY <1>2, <1>3, <1>4

LEMMA MapKeeps ==
  ASSUME BootInv, NEW t \in Tasks, restore_mappings(t)
  PROVE  BootInv'
<1>1. PICK m : m = [p \in Pages |->
        IF \E i \in Shareds(t) : p \in Span(Image(t)[i]) THEN restore_mapping(t, p) ELSE mem[t][p]]
  OBVIOUS
<1>2. /\ UNCHANGED <<tree, img, pre, boot>> /\ pc[t] \in InRestorer /\ pc' = [pc EXCEPT ![t] = "mapped"]
      /\ mem' = [mem EXCEPT ![t] = m] /\ "mapped" \in InRestorer
  BY <1>1 DEF restore_mappings, Goes, InRestorer
<1>3. Shareds(t) \subseteq 1..Len(Image(t))
  BY ImageIs
<1>4. DOMAIN m = Pages /\ \A q \in BootPages(t) : m[q] = Boot
  BY <1>1, <1>2, <1>3, WhereBootIs
<1> QED BY <1>2, <1>4, StaysInRestorer

LEMMA ResumeKeeps ==
  ASSUME BootInv, NEW t \in Tasks, Resume(t)
  PROVE  BootInv'
<1>1. PICK m : m = [p \in Pages |-> IF p \in BootPages(t) THEN Free ELSE mem[t][p]]
  OBVIOUS
<1>2. UNCHANGED <<tree, img, pre, boot>> /\ pc' = [pc EXCEPT ![t] = "done"] /\ mem' = [mem EXCEPT ![t] = m]
  BY <1>1 DEF Resume, Goes
<1>3. PICK pr, bt : pr = pre[t] /\ bt = boot[t]
  OBVIOUS
<1>4. TaskInv("done", m, Image(t), pr, bt)
  BY <1>1 DEF TaskInv, Premapped, InRestorer
<1>5. pre' = [pre EXCEPT ![t] = pr] /\ boot' = [boot EXCEPT ![t] = bt]
  BY <1>2, <1>3, NothingElse
<1> QED BY <1>2, <1>4, <1>5, OneTask

\* Every step keeps the invariant.
LEMMA BootInvNext == BootInv /\ [Next]_vars => BootInv'
<1> SUFFICES ASSUME BootInv, [Next]_vars PROVE BootInv'
  OBVIOUS
<1>1. CASE UNCHANGED vars
  BY <1>1 DEF vars, BootInv, Tasks, Image
<1>2. CASE Next
  <2>1. PICK t \in Tasks : Step(t)
    BY <1>2 DEF Next
  <2>2. CASE prepare_mappings(t)
    BY <2>2, PrepareKeeps
  <2>3. CASE t = Root /\ create_children
    BY <2>3, ForkKeeps
  <2>4. CASE unmap_guard_pages(t)
    BY <2>4, GuardsKeep
  <2>5. CASE get_shmem_fd(t) \/ shmem_wait_and_open(t)
    BY <2>5, SharedKeeps
  <2>6. CASE sigreturn_restore(t)
    BY <2>6, RestorerKeeps
  <2>7. CASE unmap_old_vmas(t)
    BY <2>7, UnmapKeeps
  <2>8. CASE ShiftLeft(t) \/ ShiftRight(t)
    <3>1. pc[t] \in InRestorer /\ at[t] \in Privates(t) /\ UNCHANGED <<tree, img, pre, boot, shm>>
      BY <2>8 DEF ShiftLeft, ShiftRight, InRestorer
    <3>2. PICK next : vma_remap(t, next)
      BY <2>8 DEF ShiftLeft, ShiftRight
    <3> QED BY <3>1, <3>2, ShiftKeeps
  <2>9. CASE EndLeft(t) \/ EndRight(t)
    <3>1. PICK c \in {"right", "map"} : pc' = [pc EXCEPT ![t] = c]
      BY <2>9 DEF EndLeft, EndRight, Goes
    <3>2. pc[t] \in InRestorer /\ c \in InRestorer /\ UNCHANGED <<tree, img, mem, pre, boot>>
      BY <2>9 DEF EndLeft, EndRight, InRestorer
    <3> QED BY <3>1, <3>2, PcKeeps
  <2>10. CASE restore_mappings(t)
    BY <2>10, MapKeeps
  <2>11. CASE Resume(t)
    BY <2>11, ResumeKeeps
  <2> QED BY <2>1, <2>2, <2>3, <2>4, <2>5, <2>6, <2>7, <2>8, <2>9, <2>10, <2>11 DEF Step
<1> QED BY <1>1, <1>2 DEF Next

\* A task that runs in the restorer never loses it: what unmap_old_vmas()
\* frees, vma_remap() moves and restore_mapping() maps is elsewhere, whatever
\* the areas are and wherever the task was mapped before.
THEOREM RestorerStays == FairSpec => []RestorerIntact
<1>1. BootInv => RestorerIntact
  BY WhereBootIs DEF RestorerIntact, InRestorer
<1> QED BY <1>1, BootInvInit, BootInvNext, PTL DEF FairSpec

-----------------------------------------------------------------------------
(* The memory of a task that resumes *)

\* A task has one area that grows downwards; section 6 of the README says what
\* happens to more.
OneStackIn(v) == \A i, j \in 1..Len(v) : v[i].kind = "stack" /\ v[j].kind = "stack" => i = j
OneStack == \A tr \in Trees : \A t \in DOMAIN tr.vmas : OneStackIn(tr.vmas[t])

-----------------------------------------------------------------------------
(* The invariant *)

\* Between the premapped areas there is nothing, but for the restorer at B.
NoGuards(m, v, pr, B) ==
  \A p \in pr.base..(pr.base + pr.len - 1) :
    m[p] = Free \/ p \in B \/ \E i \in PrivOf(v) : p \in Source(v, pr, i)

\* The areas of M are in place, the others where they were premapped, and
\* there is nothing else.
Laid(m, r, t, v, pr, bt, M) ==
  /\ \A i \in M : \A p \in Span(v[i]) : m[p] = Was(r, t, v[i], p)
  /\ \A i \in PrivOf(v) \ M : \A p \in Source(v, pr, i) : m[p] = Was(r, t, v[i], v[i].start + p - pr.addr[i])
  /\ \A p \in Pages :
       \/ m[p] = Free \/ p \in bt..(bt + BootLen - 1)
       \/ \E i \in M : p \in Span(v[i])
       \/ \E i \in PrivOf(v) \ M : p \in Source(v, pr, i)
Left(v, pr, i) == v[i].start <= pr.addr[i]
Right(v, pr, i) == v[i].start >= pr.addr[i]
Below(v, a) == {i \in PrivOf(v) : i < a}
InPlace(v, pr, a) == {i \in PrivOf(v) : i > a \/ Left(v, pr, i)}
\* The address space is as in the image, but for the restorer.
AsImage(m, r, t, v, bt) ==
  \A p \in Pages :
    /\ \A i \in 1..Len(v) : p \in Span(v[i]) =>
         m[p] = IF vma_priv(v[i]) THEN Was(r, t, v[i], p) ELSE Shared(v[i].id, v[i].off + p - v[i].start)
    /\ (\A i \in 1..Len(v) : p \notin Span(v[i])) => m[p] = Free \/ p \in bt..(bt + BootLen - 1)
NoRestorer(m, bt) == \A p \in bt..(bt + BootLen - 1) : m[p] = Free
AreaInv(c, a, m, r, t, v, pr, bt) ==
  /\ c \in {"fork", "guards", "open", "restorer"} => Contents(m, r, t, v, pr)
  /\ c = "open" => NoGuards(m, v, pr, {})
  /\ c = "restorer" => NoGuards(m, v, pr, bt..(bt + BootLen - 1))
  /\ c = "left" => /\ a \in PrivOf(v) \cup {TaskSize + 1}
                   /\ \A i \in PrivOf(v) : i < a => Left(v, pr, i)
                   /\ Laid(m, r, t, v, pr, bt, Below(v, a))
  /\ c = "right" => /\ a \in PrivOf(v) \cup {0}
                    /\ \A i \in PrivOf(v) : i > a => Right(v, pr, i)
                    /\ Laid(m, r, t, v, pr, bt, InPlace(v, pr, a))
  /\ c = "map" => Laid(m, r, t, v, pr, bt, PrivOf(v))
  /\ c \in {"mapped", "done"} => AsImage(m, r, t, v, bt)
  /\ c = "done" => NoRestorer(m, bt)

\* Segments: whoever has got to an area of one finds all of it there.
ShOf(v) == {i \in 1..Len(v) : ~ vma_priv(v[i])}
Complete(im, id, pg) ==
  \A t \in DOMAIN im : \A i \in ShOf(im[t]) :
    im[t][i].id = id => \A o \in im[t][i].off..(im[t][i].off + Size(im[t][i]) - 1) : o \in pg
SegTable(im, sh) ==
  /\ sh = [id \in DOMAIN sh |-> sh[id]]
  /\ \A id \in DOMAIN sh : {"pid", "start", "size", "pages", "lock"} \subseteq DOMAIN sh[id]
  /\ \A t \in DOMAIN im : \A i \in ShOf(im[t]) :
       /\ im[t][i].id \in DOMAIN sh /\ sh[im[t][i].id].size \in Nat
       /\ im[t][i].off + Size(im[t][i]) <= sh[im[t][i].id].size
  /\ \A id \in DOMAIN sh : sh[id].lock = 1 => Complete(im, id, sh[id].pages)
SegTask(c, a, im, t, sh) ==
  /\ c = "open" =>
       /\ a \in ShOf(im[t]) \cup {TaskSize + 1}
       /\ \A i \in ShOf(im[t]) : i < a => Complete(im, im[t][i].id, sh[im[t][i].id].pages)
  /\ c \in {"restorer", "left", "right", "map"} =>
       \A i \in ShOf(im[t]) : Complete(im, im[t][i].id, sh[im[t][i].id].pages)

LayoutInv ==
  /\ BootInv /\ at = [t \in Tasks |-> at[t]] /\ SegTable(img, shm)
  /\ \A t \in Tasks : SegTask(pc[t], at[t], img, t, shm)
  /\ \A t \in Tasks : AreaInv(pc[t], at[t], mem[t], tree.root, t, img[t], pre[t], boot[t])

-----------------------------------------------------------------------------
(* The order of the moves.  The premapped areas are side by side but for the *)
(* page before the stack, so an area after one that goes up does not go down. *)

LEMMA NoCrossing ==
  ASSUME NEW v, Ordered(v), OneStackIn(v), NEW pr, Packed(v, pr),
         NEW i \in PrivOf(v), NEW j \in PrivOf(v), i < j, ~ Left(v, pr, i)
  PROVE  Right(v, pr, j)
<1>1. PICK l \in Nat : /\ l = Len(v) /\ i \in 1..l /\ j \in 1..l
                       /\ \A k \in 1..l : /\ Size(v[k]) \in Nat /\ v[k].start \in Nat /\ v[k].end \in Nat
                                          /\ v[k].end = v[k].start + Size(v[k]) /\ Width(v[k]) \in Nat
                                          /\ Chunk(v[k]) = Size(v[k]) + (IF v[k].kind = "stack" THEN 1 ELSE 0)
  BY AreaTypes DEF PrivOf
<1>2. PICK e \in [0..l -> Nat] : e = Ends(v) /\ \A k \in 1..l : e[k] = e[k - 1] + Width(v[k])
  BY <1>1, EndsAre
<1>20. i \in Nat /\ j \in Nat /\ \A k \in 1..l : k \in 0..l /\ k \in Nat /\ e[k] \in Nat
  BY <1>1
<1> DEFINE Extra(n) == IF \E k \in (i + 1)..n : v[k].kind = "stack" THEN 1 ELSE 0
           T == {n \in Nat : n \in i..l => e[n] + v[i].end <= e[i] + v[n].end + Extra(n)}
<1>3. 0 \in T
  BY <1>1
<1>4. ASSUME NEW n \in Nat, n \in T PROVE n + 1 \in T
  <2> SUFFICES ASSUME n + 1 \in i..l PROVE e[n + 1] + v[i].end <= e[i] + v[n + 1].end + Extra(n + 1)
    OBVIOUS
  <2>1. CASE n + 1 = i
    <3>1. PICK x \in Nat, y \in Nat : x = e[i] /\ y = v[i].end
      BY <1>1, <1>20
    <3>2. PICK z \in 0..1 : z = Extra(n + 1)
      OBVIOUS
    <3> QED BY <2>1, <3>1, <3>2
  <2>2. CASE n + 1 # i
    <3>1. n \in i..l /\ n \in 1..l /\ n + 1 \in 1..l
      BY <1>1, <2>2
    <3>2. PICK x \in 0..1 : x = IF v[n + 1].kind = "stack" THEN 1 ELSE 0
      OBVIOUS
    <3>3. Width(v[n + 1]) <= Size(v[n + 1]) + x
      BY <1>1, <3>1, <3>2 DEF Width
    <3>4. PICK y \in 0..1, z \in 0..1 : y = Extra(n) /\ z = Extra(n + 1)
      OBVIOUS
    <3>5. x + y <= z
      <4>1. CASE x = 0
        <5>1. \A k \in (i + 1)..n : k \in (i + 1)..(n + 1)
          BY <1>1
        <5> QED BY <4>1, <3>4, <5>1
      <4>2. CASE x = 1
        <5>1. v[n + 1].kind = "stack" /\ n + 1 \in (i + 1)..(n + 1)
          BY <1>1, <3>1, <3>2, <4>2
        <5>2. z = 1
          BY <3>4, <5>1
        <5>3. \A k \in (i + 1)..n : v[k].kind # "stack"
          BY SMTT(30), <1>1, <3>1, <5>1 DEF OneStackIn
        <5>4. y = 0
          BY <3>4, <5>3
        <5> QED BY <4>2, <5>2, <5>4
      <4> QED BY <4>1, <4>2
    <3>6. v[n].end <= v[n + 1].start
      BY <1>1, <3>1 DEF Ordered
    <3>7. e[n] + v[i].end <= e[i] + v[n].end + y
      BY <1>4, <3>1, <3>4
    <3>8. PICK en \in Nat, ei \in Nat, e1 \in Nat, w \in Nat, vi \in Nat, vn \in Nat, vs \in Nat, sz \in Nat :
            /\ en = e[n] /\ ei = e[i] /\ e1 = e[n + 1] /\ w = Width(v[n + 1]) /\ vi = v[i].end
            /\ vn = v[n].end /\ vs = v[n + 1].start /\ sz = Size(v[n + 1])
      BY <1>1, <1>20, <3>1
    <3>9. v[n + 1].end = vs + sz /\ e1 = en + w
      BY <1>1, <1>2, <3>1, <3>8
    <3>10. w <= sz + x /\ vn <= vs /\ en + vi <= ei + vn + y
      BY <3>3, <3>6, <3>7, <3>8
    <3>12. e1 = en + w
      BY <3>9
    <3>11. e1 + vi <= ei + (vs + sz) + z
      BY ONLY <3>5, <3>10, <3>12, x \in 0..1, y \in 0..1, z \in 0..1, en \in Nat, ei \in Nat,
           e1 \in Nat, w \in Nat, vi \in Nat, vn \in Nat, vs \in Nat, sz \in Nat
    <3> QED BY <3>4, <3>8, <3>9, <3>11
  <2> QED BY <2>1, <2>2
<1>5. \A n \in Nat : n \in T
  <2> HIDE DEF T
  <2>1. Nat \subseteq T
    BY <1>3, <1>4, Induct
  <2> QED BY <2>1
<1>6. PICK z \in 0..1 : z = Extra(j)
  OBVIOUS
<1>7. e[j] + v[i].end <= e[i] + v[j].end + z
  <2>1. j \in i..l
    BY <1>1, <1>20
  <2>2. j \in T
    BY <1>5, <1>20
  <2> QED BY <1>6, <2>1, <2>2
<1>8. PICK b \in Nat : b = pr.base /\ pr.addr[i] = b + e[i] - Size(v[i]) /\ pr.addr[j] = b + e[j] - Size(v[j])
  BY <1>2 DEF Packed
<1>9. PICK ei \in Nat, ej \in Nat, vi \in Nat, vj \in Nat, si \in Nat, sj \in Nat :
        /\ ei = e[i] /\ ej = e[j] /\ vi = v[i].start /\ vj = v[j].start /\ si = Size(v[i]) /\ sj = Size(v[j])
        /\ v[i].end = vi + si /\ v[j].end = vj + sj
  <2>1. PICK ei \in Nat, ej \in Nat : ei = e[i] /\ ej = e[j]
    BY <1>1, <1>20
  <2>2. PICK vi \in Nat, si \in Nat : vi = v[i].start /\ si = Size(v[i]) /\ v[i].end = vi + si
    BY <1>1
  <2>3. PICK vj \in Nat, sj \in Nat : vj = v[j].start /\ sj = Size(v[j]) /\ v[j].end = vj + sj
    BY <1>1
  <2> QED BY <2>1, <2>2, <2>3
<1>10. ~ (vi <= b + ei - si)
  BY <1>8, <1>9 DEF Left
<1>11. vj >= b + ej - sj
  <2>1. ej + (vi + si) <= ei + (vj + sj) + z
    BY <1>7, <1>9
  <2> QED BY ONLY <1>10, <2>1, z \in 0..1, b \in Nat, ei \in Nat, ej \in Nat, vi \in Nat, vj \in Nat,
           si \in Nat, sj \in Nat
<1> QED BY <1>8, <1>9, <1>11 DEF Right

-----------------------------------------------------------------------------
(* One move *)

\* Areas do not share pages.
LEMMA SpansApart ==
  ASSUME NEW v, Ordered(v), NEW i \in 1..Len(v), NEW j \in 1..Len(v), NEW p, p \in Span(v[i]), p \in Span(v[j])
  PROVE  i = j
<1>1. /\ v[i].start \in Nat /\ v[i].end \in Nat /\ v[j].start \in Nat /\ v[j].end \in Nat
      /\ Len(v) \in Nat /\ i \in Nat /\ j \in Nat
  BY AreaTypes
<1>2. (i < j => v[i].end <= v[j].start) /\ (j < i => v[j].end <= v[i].start)
  BY DEF Ordered
<1>3. v[i].start <= p /\ p < v[i].end /\ v[j].start <= p /\ p < v[j].end /\ p \in Int
  BY <1>1 DEF Span
<1> QED BY <1>1, <1>2, <1>3

\* mremap() of area i to its place, over nothing that is still needed.
LEMMA MoveOne ==
  ASSUME NEW v, Ordered(v), NEW pr, Packed(v, pr), NEW m, NEW r, NEW t, NEW bt, NEW M \in SUBSET PrivOf(v),
         Laid(m, r, t, v, pr, bt, M), NEW i \in PrivOf(v) \ M,
         \A k \in M : \A p \in Span(v[k]) : p \notin Source(v, pr, i),
         \A k \in PrivOf(v) \ M : \A p \in Source(v, pr, k) : p \in Span(v[i]) => k = i
  PROVE  Laid(Moved(m, pr.addr[i], v[i]), r, t, v, pr, bt, M \cup {i})
<1>1. PICK w : w = Moved(m, pr.addr[i], v[i])
  OBVIOUS
<1>2. PICK s \in Nat, n \in Nat, a \in Nat : /\ s = v[i].start /\ n = Size(v[i]) /\ a = pr.addr[i]
                                             /\ v[i].end = s + n /\ i \in 1..Len(v)
  BY AreaTypes, SourcesApart DEF PrivOf
<1>3. \A q \in Source(v, pr, i) : q \in a..(a + n - 1) /\ q \in Pages
  BY <1>2, SourcesDisjoint DEF Source
<1>4. \A p \in Pages : w[p] = IF p \in Span(v[i]) THEN m[a + p - s]
                              ELSE IF p \in Source(v, pr, i) THEN Free ELSE m[p]
  BY <1>1, <1>2 DEF Moved, Source
<1>5. \A k \in 1..Len(v) : \A p \in Span(v[k]) : p \in Pages
  <2> SUFFICES ASSUME NEW k \in 1..Len(v), NEW p \in Span(v[k]) PROVE p \in Pages
    OBVIOUS
  <2>1. v[k].start \in Nat /\ v[k].end \in Nat /\ 1 <= v[k].start /\ v[k].end <= TaskSize + 1 /\ TaskSize \in Nat
    BY AreaTypes DEF Ordered
  <2> QED BY <2>1 DEF Span, Pages
<1>6. ASSUME NEW k \in M \cup {i}, NEW p \in Span(v[k]) PROVE w[p] = Was(r, t, v[k], p)
  <2>1. k \in 1..Len(v) /\ p \in Pages
    BY <1>5 DEF PrivOf
  <2>2. CASE k = i
    <3>1. p \in s..(s + n - 1) /\ p \in Int
      BY <1>2, <2>2 DEF Span
    <3>2. PICK q \in Int : q = a + p - s /\ q \in a..(a + n - 1)
      BY <3>1
    <3>6. q \in Source(v, pr, i)
      BY <1>2, <3>2 DEF Source
    <3>3. q \in Source(v, pr, i) /\ s + q - a = p
      BY <3>1, <3>2, <3>6
    <3>4. m[q] = Was(r, t, v[i], v[i].start + q - pr.addr[i])
      BY <3>3 DEF Laid
    <3>5. w[p] = m[q]
      BY <1>4, <2>1, <2>2, <3>2
    <3> QED BY <1>2, <2>2, <3>3, <3>4, <3>5
  <2>3. CASE k # i
    <3>1. k \in M /\ p \notin Source(v, pr, i) /\ p \notin Span(v[i])
      BY <1>2, <2>1, <2>3, SpansApart
    <3>2. w[p] = m[p]
      BY <1>4, <2>1, <3>1
    <3> QED BY <3>1, <3>2 DEF Laid
  <2> QED BY <2>2, <2>3
<1>7. ASSUME NEW k \in PrivOf(v) \ (M \cup {i}), NEW p \in Source(v, pr, k)
      PROVE  w[p] = Was(r, t, v[k], v[k].start + p - pr.addr[k])
  <2>1. p \in Pages /\ p \notin Source(v, pr, i) /\ p \notin Span(v[i])
    BY SourcesDisjoint
  <2>2. w[p] = m[p]
    BY <1>4, <2>1
  <2> QED BY <2>2 DEF Laid
<1>8. ASSUME NEW p \in Pages
      PROVE  \/ w[p] = Free \/ p \in bt..(bt + BootLen - 1)
             \/ \E k \in M \cup {i} : p \in Span(v[k])
             \/ \E k \in PrivOf(v) \ (M \cup {i}) : p \in Source(v, pr, k)
  <2>1. CASE p \in Span(v[i])
    BY <2>1
  <2>2. CASE p \notin Span(v[i]) /\ p \in Source(v, pr, i)
    BY <1>4, <2>2
  <2>3. CASE p \notin Span(v[i]) /\ p \notin Source(v, pr, i)
    <3>1. w[p] = m[p]
      BY <1>4, <2>3
    <3>2. \/ m[p] = Free \/ p \in bt..(bt + BootLen - 1)
          \/ \E k \in M : p \in Span(v[k])
          \/ \E k \in PrivOf(v) \ M : p \in Source(v, pr, k)
      BY DEF Laid
    <3> QED BY <2>3, <3>1, <3>2
  <2> QED BY <2>1, <2>2, <2>3
<1>9. Laid(w, r, t, v, pr, bt, M \cup {i})
  BY <1>6, <1>7, <1>8 DEF Laid
<1> QED BY <1>1, <1>9

\* An area that was premapped at its place is in place.
LEMMA AlreadyThere ==
  ASSUME NEW v, Ordered(v), NEW pr, Packed(v, pr), NEW m, NEW r, NEW t, NEW bt, NEW M \in SUBSET PrivOf(v),
         Laid(m, r, t, v, pr, bt, M), NEW N \in SUBSET PrivOf(v),
         \A i \in PrivOf(v) : ~ (i \in M <=> i \in N) => v[i].start = pr.addr[i]
  PROVE  Laid(m, r, t, v, pr, bt, N)
<1>1. ASSUME NEW i \in PrivOf(v), ~ (i \in M <=> i \in N)
      PROVE Span(v[i]) = Source(v, pr, i) /\ \A p \in Source(v, pr, i) : v[i].start + p - pr.addr[i] = p
  <2>1. PICK s \in Nat, n \in Nat : s = v[i].start /\ n = Size(v[i]) /\ v[i].end = s + n /\ s = pr.addr[i]
    BY <1>1, AreaTypes DEF PrivOf
  <2>2. Span(v[i]) = s..(s + n - 1) /\ Source(v, pr, i) = s..(s + n - 1)
    BY <2>1 DEF Span, Source
  <2> QED BY <2>1, <2>2
<1>2. ASSUME NEW k \in N, NEW p \in Span(v[k]) PROVE m[p] = Was(r, t, v[k], p)
  <2>1. CASE k \in M
    BY <2>1 DEF Laid
  <2>2. CASE k \notin M
    <3>1. p \in Source(v, pr, k) /\ v[k].start + p - pr.addr[k] = p
      BY <1>1, <2>2
    <3>2. m[p] = Was(r, t, v[k], v[k].start + p - pr.addr[k])
      BY <2>2, <3>1 DEF Laid
    <3> QED BY <3>1, <3>2
  <2> QED BY <2>1, <2>2
<1>3. ASSUME NEW k \in PrivOf(v) \ N, NEW p \in Source(v, pr, k)
      PROVE  m[p] = Was(r, t, v[k], v[k].start + p - pr.addr[k])
  <2>1. CASE k \notin M
    BY <2>1 DEF Laid
  <2>2. CASE k \in M
    <3>1. p \in Span(v[k]) /\ v[k].start + p - pr.addr[k] = p
      BY <1>1, <2>2
    <3>2. m[p] = Was(r, t, v[k], p)
      BY <2>2, <3>1 DEF Laid
    <3> QED BY <3>1, <3>2
  <2> QED BY <2>1, <2>2
<1>4. ASSUME NEW p \in Pages
      PROVE  \/ m[p] = Free \/ p \in bt..(bt + BootLen - 1)
             \/ \E k \in N : p \in Span(v[k])
             \/ \E k \in PrivOf(v) \ N : p \in Source(v, pr, k)
  <2>1. \/ m[p] = Free \/ p \in bt..(bt + BootLen - 1)
        \/ \E k \in M : p \in Span(v[k])
        \/ \E k \in PrivOf(v) \ M : p \in Source(v, pr, k)
    BY DEF Laid
  <2>2. ASSUME NEW k \in PrivOf(v) \ M, p \in Source(v, pr, k), k \in N PROVE p \in Span(v[k])
    BY <1>1, <2>2
  <2>3. ASSUME NEW k \in M, p \in Span(v[k]), k \notin N PROVE p \in Source(v, pr, k)
    BY <1>1, <2>3
  <2> QED BY <2>1, <2>2, <2>3
<1> QED BY <1>2, <1>3, <1>4 DEF Laid

\* Where areas begin and end, before and after the move.
LEMMA Bounds ==
  ASSUME NEW v, Ordered(v), NEW pr, Packed(v, pr), NEW i \in PrivOf(v)
  PROVE  /\ i \in 1..Len(v) /\ i \in 1..TaskSize /\ i \in Nat /\ TaskSize \in Nat
         /\ v[i].start \in Nat /\ pr.addr[i] \in Nat /\ Size(v[i]) \in Nat
         /\ \A p \in Span(v[i]) : p \in Int /\ v[i].start <= p /\ p < v[i].start + Size(v[i])
         /\ \A p \in Source(v, pr, i) : p \in Int /\ pr.addr[i] <= p /\ p < pr.addr[i] + Size(v[i])
<1>1. PICK s \in Nat, n \in Nat, a \in Nat : s = v[i].start /\ n = Size(v[i]) /\ a = pr.addr[i] /\ v[i].end = s + n
  BY AreaTypes, SourcesApart DEF PrivOf
<1>2. i \in 1..Len(v) /\ i \in 1..TaskSize /\ i \in Nat /\ TaskSize \in Nat
  BY SourcesApart, MemoryAssumption
<1>3. Span(v[i]) = s..(s + n - 1) /\ Source(v, pr, i) = a..(a + n - 1)
  BY <1>1 DEF Span, Source
<1>4. \A p \in s..(s + n - 1) : p \in Int /\ s <= p /\ p < s + n
  OBVIOUS
<1>5. \A p \in a..(a + n - 1) : p \in Int /\ a <= p /\ p < a + n
  OBVIOUS
<1>6. \A p \in Span(v[i]) : p \in Int /\ v[i].start <= p /\ p < v[i].start + Size(v[i])
  BY <1>1, <1>3, <1>4
<1>7. \A p \in Source(v, pr, i) : p \in Int /\ pr.addr[i] <= p /\ p < pr.addr[i] + Size(v[i])
  BY <1>1, <1>3, <1>5
<1> QED BY <1>1, <1>2, <1>6, <1>7

\* An area that went down is below the places of those after it, and one that
\* went up above the places of those before it.
LEMMA LeftIsBelow ==
  ASSUME NEW v, Ordered(v), NEW pr, Packed(v, pr), NEW i \in PrivOf(v), NEW j \in PrivOf(v), i < j, Left(v, pr, i)
  PROVE  \A p \in Span(v[i]) : p \notin Source(v, pr, j)
<1>1. PICK si \in Nat, ai \in Nat, ni \in Nat, aj \in Nat :
        si = v[i].start /\ ai = pr.addr[i] /\ ni = Size(v[i]) /\ aj = pr.addr[j]
  BY Bounds
<1>2. ai + ni <= aj /\ si <= ai
  BY <1>1, SourcesApart DEF Left
<1>3. \A p \in Span(v[i]) : p \in Int /\ p < si + ni
  BY <1>1, Bounds
<1>4. \A p \in Source(v, pr, j) : p \in Int /\ aj <= p
  BY <1>1, Bounds
<1> QED BY <1>2, <1>3, <1>4
LEMMA RightIsAbove ==
  ASSUME NEW v, Ordered(v), NEW pr, Packed(v, pr), NEW i \in PrivOf(v), NEW j \in PrivOf(v), i < j, Right(v, pr, j)
  PROVE  \A p \in Span(v[j]) : p \notin Source(v, pr, i)
<1>1. PICK sj \in Nat, aj \in Nat, ni \in Nat, ai \in Nat :
        sj = v[j].start /\ aj = pr.addr[j] /\ ni = Size(v[i]) /\ ai = pr.addr[i]
  BY Bounds
<1>2. ai + ni <= aj /\ sj >= aj
  BY <1>1, SourcesApart DEF Right
<1>3. \A p \in Span(v[j]) : p \in Int /\ p >= sj
  BY <1>1, Bounds
<1>4. \A p \in Source(v, pr, i) : p \in Int /\ p < ai + ni
  BY <1>1, Bounds
<1> QED BY <1>2, <1>3, <1>4

\* A move down: what is in place is below, what is to be moved above.
LEMMA MoveLeft ==
  ASSUME NEW v, Ordered(v), NEW pr, Packed(v, pr), NEW m, NEW r, NEW t, NEW bt, NEW a \in PrivOf(v),
         \A i \in PrivOf(v) : i < a => Left(v, pr, i), Left(v, pr, a),
         Laid(m, r, t, v, pr, bt, Below(v, a)), NEW n, n = NextOf(PrivOf(v), a)
  PROVE  /\ n \in PrivOf(v) \cup {TaskSize + 1}
         /\ \A i \in PrivOf(v) : i < n => Left(v, pr, i)
         /\ Laid(Moved(m, pr.addr[a], v[a]), r, t, v, pr, bt, Below(v, n))
<1>1. TaskSize \in Nat /\ a \in 0..TaskSize /\ PrivOf(v) \in SUBSET (1..TaskSize) /\ a \in Nat
  BY Bounds
<1>2. n \in PrivOf(v) \cup {TaskSize + 1} /\ n > a /\ n \in Nat /\ \A i \in PrivOf(v) : i > a => n <= i
  BY <1>1, NextIs
<1>3. \A i \in PrivOf(v) : i \in Nat /\ (i < n <=> i < a \/ i = a)
  BY <1>1, <1>2
<1>4. Below(v, n) = Below(v, a) \cup {a}
  BY <1>3 DEF Below
<1>5. PICK M \in SUBSET PrivOf(v) : M = Below(v, a) /\ a \notin M
  BY <1>1 DEF Below
<1>6. \A k \in M : \A p \in Span(v[k]) : p \notin Source(v, pr, a)
  BY <1>5, LeftIsBelow DEF Below
<1>7. ASSUME NEW k \in PrivOf(v) \ M, NEW p \in Source(v, pr, k), p \in Span(v[a]) PROVE k = a
  <2>1. k \in Nat /\ ~ (k < a)
    BY <1>3, <1>5 DEF Below
  <2>2. CASE a < k
    BY <1>7, <2>2, LeftIsBelow
  <2> QED BY <1>1, <2>1, <2>2
<1>8. Laid(Moved(m, pr.addr[a], v[a]), r, t, v, pr, bt, M \cup {a})
  BY <1>5, <1>6, <1>7, MoveOne
<1> QED BY <1>2, <1>3, <1>4, <1>5, <1>8

\* When the first loop stops, all that goes down is in place: the rest goes up.
LEMMA LastLeft ==
  ASSUME NEW v, Ordered(v), OneStackIn(v), NEW pr, Packed(v, pr), NEW m, NEW r, NEW t, NEW bt,
         NEW a \in PrivOf(v) \cup {TaskSize + 1}, \A i \in PrivOf(v) : i < a => Left(v, pr, i),
         a \in PrivOf(v) => ~ Left(v, pr, a),
         Laid(m, r, t, v, pr, bt, Below(v, a)), NEW n, n = PrevOf(PrivOf(v), TaskSize + 1)
  PROVE  /\ n \in PrivOf(v) \cup {0}
         /\ \A i \in PrivOf(v) : i > n => Right(v, pr, i)
         /\ Laid(m, r, t, v, pr, bt, InPlace(v, pr, n))
<1>1. TaskSize \in Nat /\ \A i \in PrivOf(v) : i \in Nat /\ i \in 1..TaskSize
  BY Bounds, MemoryAssumption
<1>2. n \in PrivOf(v) \cup {0} /\ n \in Nat /\ \A i \in PrivOf(v) : i <= n
  <2>1. PrivOf(v) \in SUBSET (1..TaskSize) /\ TaskSize + 1 \in 1..(TaskSize + 1)
    BY <1>1
  <2>2. n \in PrivOf(v) \cup {0} /\ n \in 0..TaskSize /\ \A i \in PrivOf(v) : i < TaskSize + 1 => i <= n
    BY <2>1, PrevIs
  <2> QED BY <1>1, <2>2
<1>3. PICK M \in SUBSET PrivOf(v), N \in SUBSET PrivOf(v) : M = Below(v, a) /\ N = InPlace(v, pr, n)
  BY DEF Below, InPlace
<1>4. ASSUME NEW i \in PrivOf(v), ~ (i \in M <=> i \in N) PROVE v[i].start = pr.addr[i]
  <2>1. i \in M => i \in N
    BY <1>3 DEF Below, InPlace
  <2>2. Left(v, pr, i) /\ ~ (i < a)
    BY <1>1, <1>2, <1>3, <1>4, <2>1 DEF Below, InPlace
  <2>3. a \in PrivOf(v) /\ a < i
    BY <1>1, <2>2
  <2>4. Right(v, pr, i)
    BY <2>3, NoCrossing
  <2>5. v[i].start \in Nat /\ pr.addr[i] \in Nat
    BY Bounds
  <2> QED BY <2>2, <2>4, <2>5 DEF Left, Right
<1>5. Laid(m, r, t, v, pr, bt, N)
  BY <1>3, <1>4, AlreadyThere
<1>6. \A i \in PrivOf(v) : ~ (i > n)
  BY <1>1, <1>2
<1> QED BY <1>2, <1>3, <1>5, <1>6

\* A move up: the areas in place that go down are no hindrance either.
LEMMA MoveRight ==
  ASSUME NEW v, Ordered(v), NEW pr, Packed(v, pr), NEW m, NEW r, NEW t, NEW bt, NEW a \in PrivOf(v),
         \A i \in PrivOf(v) : i > a => Right(v, pr, i), Right(v, pr, a),
         Laid(m, r, t, v, pr, bt, InPlace(v, pr, a)), NEW n, n = PrevOf(PrivOf(v), a)
  PROVE  /\ n \in PrivOf(v) \cup {0}
         /\ \A i \in PrivOf(v) : i > n => Right(v, pr, i)
         /\ Laid(Moved(m, pr.addr[a], v[a]), r, t, v, pr, bt, InPlace(v, pr, n))
<1>1. TaskSize \in Nat /\ a \in 1..(TaskSize + 1) /\ PrivOf(v) \in SUBSET (1..TaskSize) /\ a \in Nat
  BY Bounds
<1>2. n \in PrivOf(v) \cup {0} /\ n < a /\ n \in Nat /\ \A i \in PrivOf(v) : i < a => i <= n
  BY <1>1, PrevIs
<1>3. \A i \in PrivOf(v) : i \in Nat /\ (i > n <=> i > a \/ i = a)
  BY <1>1, <1>2
<1>4. PICK M \in SUBSET PrivOf(v) : M = InPlace(v, pr, a) \ {a}
  BY DEF InPlace
<1>5. InPlace(v, pr, n) = M \cup {a}
  BY <1>3, <1>4 DEF InPlace
<1>6. Laid(m, r, t, v, pr, bt, M)
  <2>1. PICK N \in SUBSET PrivOf(v) : N = InPlace(v, pr, a)
    BY DEF InPlace
  <2>2. ASSUME NEW i \in PrivOf(v), ~ (i \in N <=> i \in M) PROVE v[i].start = pr.addr[i]
    <3>1. i = a /\ a \in N
      BY <1>4, <2>1, <2>2
    <3>2. Left(v, pr, a)
      BY <1>1, <2>1, <3>1 DEF InPlace
    <3>3. v[a].start \in Nat /\ pr.addr[a] \in Nat
      BY Bounds
    <3> QED BY <3>1, <3>2, <3>3 DEF Left, Right
  <2> QED BY <2>1, <2>2, AlreadyThere
<1>7. ASSUME NEW k \in M, NEW p \in Span(v[k]) PROVE p \notin Source(v, pr, a)
  <2>1. k \in Nat /\ k # a /\ k \in PrivOf(v)
    BY <1>3, <1>4
  <2>2. CASE k > a
    BY <2>1, <2>2, RightIsAbove
  <2>3. CASE k < a
    <3>1. Left(v, pr, k)
      BY <1>1, <1>4, <2>1, <2>3 DEF InPlace
    <3> QED BY <2>1, <2>3, <3>1, LeftIsBelow
  <2> QED BY <1>1, <2>1, <2>2, <2>3
<1>8. ASSUME NEW k \in PrivOf(v) \ M, NEW p \in Source(v, pr, k), p \in Span(v[a]) PROVE k = a
  <2>1. k \in Nat /\ ~ (k > a)
    BY <1>1, <1>3, <1>4 DEF InPlace
  <2>2. CASE k < a
    BY <1>8, <2>2, RightIsAbove
  <2> QED BY <1>1, <2>1, <2>2
<1>9. Laid(Moved(m, pr.addr[a], v[a]), r, t, v, pr, bt, M \cup {a})
  <2>1. a \in PrivOf(v) \ M
    BY <1>4
  <2> QED BY <1>6, <1>7, <1>8, <2>1, MoveOne
<1>10. \A i \in PrivOf(v) : i > n => Right(v, pr, i)
  BY <1>3
<1> QED BY <1>2, <1>5, <1>9, <1>10

\* When the second loop stops, everything is in place.
LEMMA LastRight ==
  ASSUME NEW v, Ordered(v), OneStackIn(v), NEW pr, Packed(v, pr), NEW m, NEW r, NEW t, NEW bt,
         NEW a \in PrivOf(v) \cup {0}, a \in PrivOf(v) => ~ Right(v, pr, a),
         Laid(m, r, t, v, pr, bt, InPlace(v, pr, a))
  PROVE  Laid(m, r, t, v, pr, bt, PrivOf(v))
<1>1. ASSUME NEW k \in PrivOf(v) PROVE k \in InPlace(v, pr, a)
  <2>1. k \in Nat /\ k > 0 /\ v[k].start \in Nat /\ pr.addr[k] \in Nat
    BY Bounds
  <2>2. CASE a = 0
    BY <2>1, <2>2 DEF InPlace
  <2>3. CASE a \in PrivOf(v)
    <3>1. a \in Nat /\ v[a].start \in Nat /\ pr.addr[a] \in Nat
      BY <2>3, Bounds
    <3>2. CASE k > a
      BY <3>2 DEF InPlace
    <3>3. CASE k = a
      BY <2>1, <2>3, <3>3 DEF InPlace, Left, Right
    <3>4. CASE k < a
      <4>1. Left(v, pr, k)
        BY <2>3, <3>4, NoCrossing
      <4> QED BY <4>1 DEF InPlace
    <3> QED BY <2>1, <3>1, <3>2, <3>3, <3>4
  <2> QED BY <2>2, <2>3
<1>2. InPlace(v, pr, a) = PrivOf(v)
  BY <1>1 DEF InPlace
<1> QED BY <1>2

-----------------------------------------------------------------------------
(* Segments are as long as their longest use *)

\* A function on a finite set has a greatest value.
LEMMA FiniteMax ==
  ASSUME NEW S, IsFiniteSet(S), S # {}, NEW f \in [S -> Nat]
  PROVE  \E u \in S : \A w \in S : f[w] <= f[u]
<1> DEFINE Top(R) == \E u \in R : \A w \in R : f[w] <= f[u]
           T == {n \in Nat : \A R \in SUBSET S : Cardinality(R) = n /\ R # {} => Top(R)}
<1>1. \A R \in SUBSET S : IsFiniteSet(R) /\ Cardinality(R) \in Nat
  BY FS_Subset, FS_CardinalityType
<1>2. 0 \in T
  <2>1. \A R \in SUBSET S : Cardinality(R) = 0 => R = {}
    BY <1>1, FS_EmptySet
  <2> QED BY <2>1
<1>3. ASSUME NEW n \in Nat, n \in T PROVE n + 1 \in T
  <2> SUFFICES ASSUME NEW R \in SUBSET S, Cardinality(R) = n + 1 PROVE Top(R)
    OBVIOUS
  <2>1. PICK x : x \in R
    BY <1>1, FS_EmptySet
  <2>2. PICK Q \in SUBSET S : Q = R \ {x} /\ Cardinality(Q) = n
    <3>1. IsFiniteSet(R)
      BY <1>1
    <3>2. Cardinality(R \ {x}) = Cardinality(R) - 1
      BY ONLY <2>1, <3>1, FS_RemoveElement
    <3>3. Cardinality(R \ {x}) = n
      BY <3>2
    <3> QED BY <3>3
  <2>3. CASE Q = {}
    <3>1. \A w \in R : w = x /\ f[w] \in Nat
      BY <2>2, <2>3
    <3> QED BY <2>1, <3>1
  <2>4. CASE Q # {}
    <3>1. Top(Q)
      BY <1>3, <2>2, <2>4
    <3>2. PICK u \in Q : \A w \in Q : f[w] <= f[u]
      BY <3>1
    <3>3. f[u] \in Nat /\ f[x] \in Nat /\ u \in R /\ \A w \in R : f[w] \in Nat /\ (w = x \/ w \in Q)
      BY <2>1, <2>2
    <3>4. CASE f[x] <= f[u]
      <4>1. \A w \in R : f[w] <= f[u]
        BY <3>2, <3>3, <3>4
      <4> QED BY <3>3, <4>1
    <3>5. CASE f[u] <= f[x]
      <4>1. \A w \in R : f[w] <= f[x]
        BY <3>2, <3>3, <3>5
      <4> QED BY <2>1, <4>1
    <3> QED BY <3>3, <3>4, <3>5
  <2> QED BY <2>3, <2>4
<1>4. \A n \in Nat : n \in T
  <2> HIDE DEF T
  <2>1. Nat \subseteq T
    BY <1>2, <1>3, Induct
  <2> QED BY <2>1
<1>5. Cardinality(S) \in T /\ S \in SUBSET S
  BY <1>1, <1>4
<1> QED BY <1>5

\* The areas of the segment of area i of task t are within it.
LEMMA NeedsCovered ==
  ASSUME BootInv, NEW t \in Tasks, NEW i \in ShOf(img[t]), NEW id, id = img[t][i].id
  PROVE  /\ id \in Shmids /\ add_shmem_area(id) \in Nat
         /\ img[t][i].off + Size(img[t][i]) <= add_shmem_area(id)
<1>1. \A u \in Tasks : /\ Ordered(img[u]) /\ Shareds(u) = ShOf(img[u])
                       /\ \A j \in 1..Len(img[u]) : j \in 1..TaskSize
  <2> SUFFICES ASSUME NEW u \in Tasks
               PROVE  /\ Ordered(img[u]) /\ Shareds(u) = ShOf(img[u])
                      /\ \A j \in 1..Len(img[u]) : j \in 1..TaskSize
    OBVIOUS
  <2>1. Ordered(img[u]) /\ Shareds(u) = DOMAIN img[u] \ PrivOf(img[u]) /\ DOMAIN img[u] = 1..Len(img[u])
    BY ImageIs DEF Image
  <2>2. Len(img[u]) \in Nat /\ Len(img[u]) <= TaskSize /\ TaskSize \in Nat
    BY <2>1, AreaTypes DEF Ordered
  <2>3. Shareds(u) = ShOf(img[u])
    BY <2>1 DEF ShOf, PrivOf
  <2> QED BY <2>1, <2>2, <2>3
<1>2. id \in Shmids
  <2>1. <<t, i>> \in {t} \X Shareds(t)
    BY <1>1
  <2>2. <<t, i>> \in UNION {{u} \X Shareds(u) : u \in Tasks}
    BY <2>1
  <2>3. Image(<<t, i>>[1])[<<t, i>>[2]].id = id
    BY DEF Image
  <2> QED BY <2>2, <2>3 DEF Shmids
<1>3. PICK U : U = Users(id)
  OBVIOUS
<1>4. IsFiniteSet(U)
  <2>1. IsFiniteSet(Tasks) /\ IsFiniteSet(1..TaskSize)
    BY SMTT(30), MemoryAssumption, FS_Interval DEF BootInv, Tasks
  <2>2. IsFiniteSet(Tasks \X (1..TaskSize))
    BY <2>1, FS_Product
  <2>3. \A u \in U : u \in Tasks \X (1..TaskSize)
    BY <1>3 DEF Users
  <2>4. U \in SUBSET (Tasks \X (1..TaskSize))
    BY <2>3
  <2> QED BY <2>2, <2>4, FS_Subset
<1>5. \A u \in U : Needs(u) \in Nat
  <2> SUFFICES ASSUME NEW u \in U PROVE Needs(u) \in Nat
    OBVIOUS
  <2>1. PICK x, j : x = u[1] /\ j = u[2] /\ x \in Tasks /\ j \in Shareds(x)
    BY <1>3 DEF Users
  <2>2. j \in 1..Len(img[x]) /\ Ordered(img[x])
    BY <1>1, <2>1 DEF ShOf
  <2>3. Size(img[x][j]) \in Nat /\ img[x][j] \in VmaEntry
    BY SMTT(30), <2>2, AreaTypes DEF Ordered
  <2>4. img[x][j].off \in Nat
    BY <2>3 DEF VmaEntry
  <2> QED BY <2>1, <2>3, <2>4 DEF Needs, Image
<1>6. <<t, i>> \in U /\ Needs(<<t, i>>) = img[t][i].off + Size(img[t][i])
  <2>1. <<t, i>> \in Tasks \X (1..TaskSize) /\ i \in Shareds(t)
    BY <1>1 DEF ShOf
  <2> QED BY <1>3, <2>1 DEF Users, Needs, Image
<1>7. PICK f \in [U -> Nat] : f = [u \in U |-> Needs(u)]
  <2>1. PICK f : f = [u \in U |-> Needs(u)]
    OBVIOUS
  <2>2. f \in [U -> Nat]
    BY <1>5, <2>1
  <2> QED BY <2>1, <2>2
<1>8. PICK w \in U : \A u \in U : f[u] <= f[w]
  BY <1>4, <1>6, <1>7, FiniteMax
<1>9. PICK S : S = {Needs(u) : u \in Users(id)}
  OBVIOUS
<1>10. S \in SUBSET Nat /\ Needs(w) \in S /\ Needs(<<t, i>>) \in S /\ \A y \in S : y <= Needs(w)
  <2>1. Needs(w) \in S /\ Needs(<<t, i>>) \in S
    BY <1>3, <1>6, <1>9
  <2>2. \A y \in S : y \in Nat /\ y <= Needs(w)
    BY <1>3, <1>5, <1>7, <1>8, <1>9
  <2> QED BY <2>1, <2>2
<1>11. \E x \in S : \A y \in S : x >= y
  BY <1>10
<1>12. Max(S) \in S /\ \A y \in S : Max(S) >= y
  BY <1>11 DEF Max
<1>13. add_shmem_area(id) = Max(S)
  BY <1>9 DEF add_shmem_area
<1> QED BY <1>2, <1>6, <1>10, <1>12, <1>13

-----------------------------------------------------------------------------
(* The steps *)

\* With one stack the image has the areas as they were.
LEMMA ImageAsDumped ==
  ASSUME BootInv, OneStack, NEW t \in Tasks
  PROVE  img[t] = tree.vmas[t] /\ OneStackIn(img[t])
<1>1. PICK v : v = tree.vmas[t] /\ Ordered(v) /\ OneStackIn(v)
  BY DumpedOrdered DEF BootInv, Tasks, OneStack
<1>2. PICK l \in Nat : l = Len(v) /\ DOMAIN v = 1..l
  BY <1>1, AreaTypes
<1>3. ASSUME NEW i \in 1..l PROVE parse_smaps(v)[i] = v[i]
  <2>1. v[i] \in VmaEntry
    BY <1>1, <1>2 DEF Ordered
  <2>2. CASE v[i].kind = "stack"
    <3>1. ~ (i > 1 /\ v[i - 1].kind = "stack")
      <4> SUFFICES ASSUME i > 1, v[i - 1].kind = "stack" PROVE FALSE
        OBVIOUS
      <4>1. i - 1 \in 1..l /\ i - 1 # i
        OBVIOUS
      <4> QED BY <1>1, <1>2, <2>2, <4>1 DEF OneStackIn
    <3>2. parse_smaps(v)[i] = [[v[i] EXCEPT !.start = v[i].start + 1] EXCEPT !.start = (v[i].start + 1) - 1]
      <4>1. Shown(v, i) = [v[i] EXCEPT !.start = v[i].start + 1]
        BY <2>2, <3>1 DEF Shown
      <4>2. Shown(v, i).start = v[i].start + 1
        BY <2>1, <4>1 DEF VmaEntry
      <4> QED BY <1>2, <2>2, <3>1, <4>1, <4>2 DEF parse_smaps
    <3>3. (v[i].start + 1) - 1 = v[i].start
      BY <2>1 DEF VmaEntry
    <3> QED BY <2>1, <3>2, <3>3 DEF VmaEntry
  <2>3. CASE v[i].kind # "stack"
    BY <1>2, <2>3 DEF parse_smaps, Shown
  <2> QED BY <2>2, <2>3
<1>4. v = [i \in 1..l |-> v[i]]
  BY <1>1, <1>2 DEF Ordered
<1>5. parse_smaps(v) = [i \in 1..l |-> parse_smaps(v)[i]]
  BY <1>2 DEF parse_smaps
<1>6. parse_smaps(v) = v
  BY <1>3, <1>4, <1>5
<1>7. img[t] = parse_smaps(v)
  BY <1>1 DEF BootInv
<1> QED BY <1>1, <1>6, <1>7

\* The image of a task and its areas.
LEMMA Facts ==
  ASSUME BootInv, NEW t \in Tasks
  PROVE  /\ Ordered(img[t]) /\ Privates(t) = PrivOf(img[t]) /\ Shareds(t) = ShOf(img[t]) /\ Image(t) = img[t]
         /\ DOMAIN img = Tasks /\ PrivOf(img[t]) \in SUBSET (1..TaskSize) /\ ShOf(img[t]) \in SUBSET (1..TaskSize)
         /\ TaskSize \in Nat
<1>1. Ordered(img[t]) /\ Privates(t) = PrivOf(img[t]) /\ Image(t) = img[t]
  BY ImageIs DEF Image
<1>2. Shareds(t) = DOMAIN img[t] \ PrivOf(img[t]) /\ DOMAIN img[t] = 1..Len(img[t])
  BY ImageIs DEF Image
<1>3. Shareds(t) = ShOf(img[t])
  BY <1>2 DEF ShOf, PrivOf
<1>4. Len(img[t]) \in Nat /\ Len(img[t]) <= TaskSize /\ TaskSize \in Nat
  BY <1>1, AreaTypes DEF Ordered
<1>5. \A i \in 1..Len(img[t]) : i \in 1..TaskSize
  BY <1>4
<1>6. PrivOf(img[t]) \in SUBSET (1..TaskSize) /\ ShOf(img[t]) \in SUBSET (1..TaskSize)
  BY <1>5 DEF PrivOf, ShOf
<1> QED BY <1>1, <1>3, <1>4, <1>6 DEF BootInv

\* A step of one task, which may complete a segment.
LEMMA OneLaid ==
  ASSUME LayoutInv, BootInv', NEW t \in Tasks, UNCHANGED <<tree, img>>,
         NEW c, NEW a, NEW m, NEW pr, NEW bt,
         pc' = [pc EXCEPT ![t] = c], at' = [at EXCEPT ![t] = a], mem' = [mem EXCEPT ![t] = m],
         pre' = [pre EXCEPT ![t] = pr], boot' = [boot EXCEPT ![t] = bt],
         SegTable(img, shm'), DOMAIN shm' = DOMAIN shm,
         \A x \in DOMAIN shm : Complete(img, x, shm[x].pages) => Complete(img, x, shm'[x].pages),
         SegTask(c, a, img, t, shm'), AreaInv(c, a, m, tree.root, t, img[t], pr, bt)
  PROVE  LayoutInv'
<1>1. Tasks' = Tasks /\ tree' = tree /\ img' = img
  BY DEF Tasks
<1>2. at' = [u \in Tasks |-> at'[u]]
  BY DEF LayoutInv
<1>3. ASSUME NEW u \in Tasks
      PROVE  /\ SegTask(pc'[u], at'[u], img, u, shm')
             /\ AreaInv(pc'[u], at'[u], mem'[u], tree.root, u, img[u], pre'[u], boot'[u])
  <2>1. u \in DOMAIN pc /\ u \in DOMAIN at /\ u \in DOMAIN mem /\ u \in DOMAIN pre /\ u \in DOMAIN boot
    BY DEF LayoutInv, BootInv
  <2>2. CASE u = t
    <3>1. pc'[u] = c /\ at'[u] = a /\ mem'[u] = m /\ pre'[u] = pr /\ boot'[u] = bt
      BY <2>1, <2>2
    <3> QED BY <2>2, <3>1
  <2>3. CASE u # t
    <3>1. pc'[u] = pc[u] /\ at'[u] = at[u] /\ mem'[u] = mem[u] /\ pre'[u] = pre[u] /\ boot'[u] = boot[u]
      BY <2>1, <2>3
    <3>2. AreaInv(pc[u], at[u], mem[u], tree.root, u, img[u], pre[u], boot[u]) /\ SegTask(pc[u], at[u], img, u, shm)
      BY DEF LayoutInv
    <3>3. u \in DOMAIN img
      BY Facts DEF LayoutInv
    <3>4. \A i \in ShOf(img[u]) : img[u][i].id \in DOMAIN shm
      BY <3>3 DEF LayoutInv, SegTable
    <3>5. SegTask(pc[u], at[u], img, u, shm')
      BY <3>2, <3>4 DEF SegTask
    <3> QED BY <3>1, <3>2, <3>5
  <2> QED BY <2>2, <2>3
<1> QED BY <1>1, <1>2, <1>3 DEF LayoutInv

LEMMA LaidNothingElse ==
  ASSUME LayoutInv, NEW t \in Tasks
  PROVE  /\ pc = [pc EXCEPT ![t] = pc[t]] /\ mem = [mem EXCEPT ![t] = mem[t]] /\ at = [at EXCEPT ![t] = at[t]]
         /\ pre = [pre EXCEPT ![t] = pre[t]] /\ boot = [boot EXCEPT ![t] = boot[t]]
         /\ SegTable(img, shm) /\ SegTask(pc[t], at[t], img, t, shm)
         /\ AreaInv(pc[t], at[t], mem[t], tree.root, t, img[t], pre[t], boot[t])
         /\ TaskInv(pc[t], mem[t], img[t], pre[t], boot[t]) /\ BootInv
BY DEF LayoutInv, BootInv, Image

LEMMA LayoutInit == OneStack /\ Init => LayoutInv
<1> SUFFICES ASSUME OneStack, Init PROVE LayoutInv
  OBVIOUS
<1>1. BootInv
  BY BootInvInit
<1>2. \A t \in Tasks : pc[t] \in {"prepare", "unborn"}
  BY DEF Init
<1>3. at = [t \in Tasks |-> at[t]]
  BY DEF Init
<1>4. DOMAIN shm = Shmids /\ \A id \in Shmids : shm[id] = collect_shmem(id)
  BY DEF Init
<1>5. shm = [id \in DOMAIN shm |-> shm[id]]
  BY DEF Init
<1>6. \A id \in Shmids : /\ {"pid", "start", "size", "pages", "lock"} \subseteq DOMAIN shm[id]
                         /\ shm[id].lock = 0 /\ shm[id].size = add_shmem_area(id)
  <2> SUFFICES ASSUME NEW id \in Shmids
               PROVE  /\ {"pid", "start", "size", "pages", "lock"} \subseteq DOMAIN shm[id]
                      /\ shm[id].lock = 0 /\ shm[id].size = add_shmem_area(id)
    OBVIOUS
  <2>1. PICK x, y, z : shm[id] = [pid |-> x, start |-> y, end |-> z, size |-> add_shmem_area(id),
                                  pages |-> {}, lock |-> 0]
    BY <1>4 DEF collect_shmem, add_shmem_area
  <2> QED BY <2>1
<1>7. DOMAIN img = Tasks
  BY <1>1 DEF BootInv
<1>8. \A t \in DOMAIN img : \A i \in ShOf(img[t]) :
        /\ img[t][i].id \in DOMAIN shm /\ shm[img[t][i].id].size \in Nat
        /\ img[t][i].off + Size(img[t][i]) <= shm[img[t][i].id].size
  BY <1>1, <1>4, <1>6, <1>7, NeedsCovered
<1>9. SegTable(img, shm)
  BY <1>4, <1>5, <1>6, <1>8 DEF SegTable
<1>10. \A t \in Tasks : SegTask(pc[t], at[t], img, t, shm)
  BY <1>2 DEF SegTask
<1>11. \A t \in Tasks : AreaInv(pc[t], at[t], mem[t], tree.root, t, img[t], pre[t], boot[t])
  BY <1>2 DEF AreaInv
<1> QED BY <1>1, <1>3, <1>9, <1>10, <1>11 DEF LayoutInv

LEMMA OneLaidSame ==
  ASSUME LayoutInv, BootInv', NEW t \in Tasks, UNCHANGED <<tree, img, shm>>,
         NEW c, NEW a, NEW m, NEW pr, NEW bt,
         pc' = [pc EXCEPT ![t] = c], at' = [at EXCEPT ![t] = a], mem' = [mem EXCEPT ![t] = m],
         pre' = [pre EXCEPT ![t] = pr], boot' = [boot EXCEPT ![t] = bt],
         SegTask(c, a, img, t, shm), AreaInv(c, a, m, tree.root, t, img[t], pr, bt)
  PROVE  LayoutInv'
<1>1. SegTable(img, shm') /\ DOMAIN shm' = DOMAIN shm /\ SegTask(c, a, img, t, shm')
  BY DEF LayoutInv
<1>2. \A x \in DOMAIN shm : Complete(img, x, shm[x].pages) => Complete(img, x, shm'[x].pages)
  OBVIOUS
<1> QED BY <1>1, <1>2, OneLaid

LEMMA PrepareLays ==
  ASSUME LayoutInv, BootInv', NEW t \in Tasks, prepare_mappings(t)
  PROVE  LayoutInv'
<1>1. PICK c, m, pr :
        /\ c \in {"fork", "guards"} /\ pc' = [pc EXCEPT ![t] = c]
        /\ mem' = [mem EXCEPT ![t] = m] /\ pre' = [pre EXCEPT ![t] = pr]
        /\ DOMAIN m = Pages /\ Packed(Image(t), pr) /\ Contents(m, tree.root, t, Image(t), pr)
  BY PrepareDoes DEF LayoutInv
<1>2. PICK bt, a : bt = boot[t] /\ a = at[t] /\ boot' = [boot EXCEPT ![t] = bt] /\ at' = [at EXCEPT ![t] = a]
  BY LaidNothingElse DEF prepare_mappings
<1>3. AreaInv(c, a, m, tree.root, t, img[t], pr, bt)
  BY <1>1 DEF AreaInv, Image
<1>4. SegTask(c, a, img, t, shm)
  BY <1>1 DEF SegTask
<1>5. UNCHANGED <<tree, img, shm>>
  BY DEF prepare_mappings
<1> QED BY <1>1, <1>2, <1>3, <1>4, <1>5, OneLaidSame

LEMMA ForkLays ==
  ASSUME LayoutInv, BootInv', Root \in Tasks, create_children
  PROVE  LayoutInv'
<1>1. Tasks' = Tasks /\ tree' = tree /\ img' = img /\ shm' = shm /\ at' = at
  BY DEF Tasks, create_children
<1>2. ASSUME NEW u \in Tasks
      PROVE  /\ SegTask(pc'[u], at[u], img, u, shm)
             /\ AreaInv(pc'[u], at[u], mem'[u], tree.root, u, img[u], pre'[u], boot'[u])
  <2>1. mem'[u] = mem[Root] /\ pre'[u] = pre[u] /\ boot'[u] = boot[u]
        /\ pc'[u] = IF u = Root THEN "guards" ELSE "prepare"
    BY DEF create_children
  <2>2. Contents(mem[Root], tree.root, Root, img[Root], pre[Root])
    <3>1. AreaInv("fork", at[Root], mem[Root], tree.root, Root, img[Root], pre[Root], boot[Root])
      BY DEF LayoutInv, create_children
    <3> QED BY <3>1 DEF AreaInv
  <2>3. SegTask(pc'[u], at[u], img, u, shm)
    BY <2>1 DEF SegTask
  <2>4. CASE u = Root
    BY <2>1, <2>2, <2>3, <2>4 DEF AreaInv
  <2>5. CASE u # Root
    BY <2>1, <2>3, <2>5 DEF AreaInv
  <2> QED BY <2>4, <2>5
<1> QED BY <1>1, <1>2 DEF LayoutInv

LEMMA GuardsLay ==
  ASSUME LayoutInv, BootInv', NEW t \in Tasks, unmap_guard_pages(t)
  PROVE  LayoutInv'
<1>1. PICK v, pr, r : v = img[t] /\ pr = pre[t] /\ r = tree.root
  OBVIOUS
<1>2. Ordered(v) /\ Privates(t) = PrivOf(v) /\ Shareds(t) = ShOf(v) /\ Image(t) = v
      /\ ShOf(v) \in SUBSET (1..TaskSize) /\ TaskSize \in Nat
  BY <1>1, Facts DEF LayoutInv
<1>3. Packed(v, pr) /\ Contents(mem[t], r, t, v, pr)
  <2>1. pc[t] = "guards" /\ TaskInv(pc[t], mem[t], v, pr, boot[t])
        /\ AreaInv(pc[t], at[t], mem[t], r, t, v, pr, boot[t])
    BY <1>1, LaidNothingElse DEF unmap_guard_pages
  <2> QED BY <2>1 DEF TaskInv, AreaInv, Premapped
<1>4. PICK m : m = [p \in Pages |->
        IF \E i \in PrivOf(v) : v[i].kind = "stack" /\ p = pr.addr[i] - 1 THEN Free ELSE mem[t][p]]
  OBVIOUS
<1>5. ASSUME NEW i \in PrivOf(v), NEW p \in Source(v, pr, i) PROVE m[p] = mem[t][p]
  <2>1. p \in Pages /\ \A j \in PrivOf(v) : ~ (v[j].kind = "stack" /\ p = pr.addr[j] - 1)
    BY <1>2, <1>3, SourcesDisjoint
  <2> QED BY <1>4, <2>1
<1>6. Contents(m, r, t, v, pr)
  BY <1>3, <1>5 DEF Contents
<1>7. NoGuards(m, v, pr, {})
  <2> SUFFICES ASSUME NEW p \in pr.base..(pr.base + pr.len - 1)
               PROVE  m[p] = Free \/ \E i \in PrivOf(v) : p \in Source(v, pr, i)
    BY DEF NoGuards
  <2>1. PICK i \in PrivOf(v) : p \in Source(v, pr, i) \/ (v[i].kind = "stack" /\ p = pr.addr[i] - 1)
    BY <1>2, <1>3, OnlyGuardsBetween
  <2>2. p \in Pages
    <3>1. pr.base \in Nat /\ pr.len \in Nat /\ 1 <= pr.base /\ pr.base + pr.len <= TaskSize + 1
      BY <1>2, <1>3, SourcesApart DEF Packed
    <3> QED BY <1>2, <3>1 DEF Pages
  <2> QED BY <1>4, <2>1, <2>2
<1>8. PICK a, bt : a = NextOf(Shareds(t), 0) /\ bt = boot[t]
  OBVIOUS
<1>9. /\ pc' = [pc EXCEPT ![t] = "open"] /\ mem' = [mem EXCEPT ![t] = m] /\ at' = [at EXCEPT ![t] = a]
      /\ UNCHANGED <<tree, img, pre, boot, shm>>
  BY <1>1, <1>2, <1>4, <1>8 DEF unmap_guard_pages, Goes, LayoutInv, BootInv
<1>10. pre' = [pre EXCEPT ![t] = pr] /\ boot' = [boot EXCEPT ![t] = bt]
  BY <1>1, <1>8, <1>9, LaidNothingElse
<1>11. a \in ShOf(v) \cup {TaskSize + 1} /\ \A i \in ShOf(v) : ~ (i < a)
  <2>1. 0 \in 0..TaskSize
    BY <1>2
  <2>2. a \in ShOf(v) \cup {TaskSize + 1} /\ a \in Nat /\ \A i \in ShOf(v) : i > 0 => a <= i
    BY <1>2, <1>8, <2>1, NextIs
  <2> QED BY <1>2, <2>2
<1>12. SegTask("open", a, img, t, shm)
  BY <1>1, <1>11 DEF SegTask
<1>13. AreaInv("open", a, m, r, t, v, pr, bt)
  BY <1>6, <1>7 DEF AreaInv
<1> QED BY <1>1, <1>9, <1>10, <1>12, <1>13, OneLaidSame

\* What a task does that maps nothing, or fails.
LEMMA PcLays ==
  ASSUME LayoutInv, BootInv', NEW t \in Tasks, UNCHANGED <<tree, img, mem, pre, boot, shm>>, NEW c, NEW a,
         pc' = [pc EXCEPT ![t] = c], at' = [at EXCEPT ![t] = a],
         SegTask(c, a, img, t, shm), AreaInv(c, a, mem[t], tree.root, t, img[t], pre[t], boot[t])
  PROVE  LayoutInv'
<1>1. PICK m, pr, bt : m = mem[t] /\ pr = pre[t] /\ bt = boot[t]
  OBVIOUS
<1>2. mem' = [mem EXCEPT ![t] = m] /\ pre' = [pre EXCEPT ![t] = pr] /\ boot' = [boot EXCEPT ![t] = bt]
  BY <1>1, LaidNothingElse
<1>3. AreaInv(c, a, m, tree.root, t, img[t], pr, bt)
  BY <1>1
<1> QED BY <1>2, <1>3, OneLaidSame

LEMMA FailLays ==
  ASSUME LayoutInv, BootInv', NEW t \in Tasks, UNCHANGED <<tree, img, at, mem, pre, boot, shm>>,
         pc' = [pc EXCEPT ![t] = "failed"]
  PROVE  LayoutInv'
<1>1. PICK a : a = at[t] /\ at' = [at EXCEPT ![t] = a]
  BY LaidNothingElse
<1>2. SegTask("failed", a, img, t, shm) /\ AreaInv("failed", a, mem[t], tree.root, t, img[t], pre[t], boot[t])
  BY DEF SegTask, AreaInv
<1> QED BY <1>1, <1>2, PcLays

\* The loop over the shared areas goes on when it has got one.
LEMMA NextSegment ==
  ASSUME NEW im, NEW t, NEW sh, NEW a, NEW n, TaskSize \in Nat, ShOf(im[t]) \in SUBSET (1..TaskSize),
         SegTask("open", a, im, t, sh), a \in ShOf(im[t]), n = NextOf(ShOf(im[t]), a),
         Complete(im, im[t][a].id, sh[im[t][a].id].pages)
  PROVE  SegTask("open", n, im, t, sh)
<1>1. a \in 0..TaskSize /\ a \in Nat
  OBVIOUS
<1>2. n \in ShOf(im[t]) \cup {TaskSize + 1} /\ n \in Nat /\ \A i \in ShOf(im[t]) : i > a => n <= i
  BY <1>1, NextIs
<1>3. \A i \in ShOf(im[t]) : i < n => i < a \/ i = a
  BY <1>1, <1>2
<1>4. \A i \in ShOf(im[t]) : i < a => Complete(im, im[t][i].id, sh[im[t][i].id].pages)
  BY DEF SegTask
<1>5. \A i \in ShOf(im[t]) : i < n => Complete(im, im[t][i].id, sh[im[t][i].id].pages)
  BY <1>3, <1>4
<1> QED BY <1>2, <1>5 DEF SegTask

\* The owner makes the segment as long as anybody maps it.
LEMMA CreateLays ==
  ASSUME LayoutInv, BootInv', NEW t \in Tasks, get_shmem_fd(t)
  PROVE  LayoutInv'
<1>1. PICK v, id, a0 : v = img[t] /\ a0 = at[t] /\ id = v[a0].id /\ pc[t] = "open" /\ a0 \in ShOf(v)
  BY Facts DEF get_shmem_fd, LayoutInv
<1>2. PICK pg : pg = restore_shmem_content(id)
  OBVIOUS
<1>3. shm' = [shm EXCEPT ![id].pages = pg] /\ UNCHANGED <<tree, img, pc, mem, pre, boot>>
  BY <1>1, <1>2 DEF get_shmem_fd, Image
<1>4. PICK n : n = NextOf(ShOf(v), a0) /\ at' = [at EXCEPT ![t] = n]
  BY <1>1, Facts DEF get_shmem_fd, Opened, LayoutInv
<1>5. BootInv /\ SegTable(img, shm) /\ t \in DOMAIN img /\ DOMAIN img = Tasks
  BY Facts DEF LayoutInv
<1>6. Complete(img, id, pg)
  <2> SUFFICES ASSUME NEW u \in Tasks, NEW i \in ShOf(img[u]), img[u][i].id = id,
                      NEW o \in img[u][i].off..(img[u][i].off + Size(img[u][i]) - 1)
               PROVE  o \in pg
    BY <1>5 DEF Complete
  <2>1. i \in 1..Len(img[u]) /\ Ordered(img[u])
    BY <1>5, Facts DEF ShOf
  <2>2. img[u][i].off \in Nat /\ Size(img[u][i]) \in Nat
    <3>1. img[u][i] \in VmaEntry
      BY <2>1 DEF Ordered
    <3> QED BY <2>1, <3>1, AreaTypes DEF VmaEntry
  <2>3. PICK N \in Nat : N = add_shmem_area(id) /\ img[u][i].off + Size(img[u][i]) <= N
    BY <1>5, NeedsCovered
  <2>4. shm[id].size \in Nat /\ img[u][i].off + Size(img[u][i]) <= shm[id].size
    BY <1>5 DEF SegTable
  <2>5. PICK x \in Nat, y \in Nat : x = img[u][i].off /\ y = Size(img[u][i])
    BY <2>2
  <2>6. o \in Nat /\ o < x + y /\ x + y <= N /\ x + y <= shm[id].size
    BY <2>3, <2>4, <2>5
  <2>7. o \in 0..(N - 1)
    BY <2>6
  <2>8. o < shm[id].size
    BY <2>4, <2>5, <2>6
  <2> QED BY <1>2, <2>3, <2>7, <2>8 DEF restore_shmem_content, dump_one_shmem
<1>7. id \in DOMAIN shm
  BY <1>1, <1>5 DEF SegTable
<1>8. DOMAIN shm' = DOMAIN shm
  BY <1>3, <1>5 DEF SegTable
<1>9. ASSUME NEW x \in DOMAIN shm
      PROVE  /\ DOMAIN shm'[x] = DOMAIN shm[x] /\ shm'[x].size = shm[x].size /\ shm'[x].lock = shm[x].lock
             /\ shm'[x].pages = IF x = id THEN pg ELSE shm[x].pages
  <2>1. {"pid", "start", "size", "pages", "lock"} \subseteq DOMAIN shm[x]
    BY <1>5 DEF SegTable
  <2>2. shm'[x] = IF x = id THEN [shm[x] EXCEPT !.pages = pg] ELSE shm[x]
    BY <1>3, <1>5 DEF SegTable
  <2> QED BY <2>1, <2>2
<1>10. \A x \in DOMAIN shm : Complete(img, x, shm[x].pages) => Complete(img, x, shm'[x].pages)
  BY <1>6, <1>9
<1>11. shm' = [x \in DOMAIN shm' |-> shm'[x]]
  BY <1>3, <1>5, <1>8 DEF SegTable
<1>12. SegTable(img, shm')
  BY <1>5, <1>8, <1>9, <1>10, <1>11 DEF SegTable
<1>13. SegTask("open", a0, img, t, shm')
  <2>1. SegTask("open", a0, img, t, shm)
    BY <1>1, LaidNothingElse
  <2>2. \A i \in ShOf(img[t]) : img[t][i].id \in DOMAIN shm
    BY <1>5 DEF SegTable
  <2> QED BY <1>10, <2>1, <2>2 DEF SegTask
<1>14. SegTask("open", n, img, t, shm')
  <2>1. Complete(img, img[t][a0].id, shm'[img[t][a0].id].pages)
    BY <1>1, <1>6, <1>7, <1>9
  <2>2. TaskSize \in Nat /\ ShOf(img[t]) \in SUBSET (1..TaskSize)
    BY <1>5, Facts
  <2>3. PICK sh : sh = shm'
    OBVIOUS
  <2> QED BY <1>1, <1>4, <1>13, <2>1, <2>2, <2>3, NextSegment
<1>15. PICK m, pr, bt :
         /\ m = mem[t] /\ pr = pre[t] /\ bt = boot[t]
         /\ pc' = [pc EXCEPT ![t] = "open"] /\ mem' = [mem EXCEPT ![t] = m] /\ pre' = [pre EXCEPT ![t] = pr]
         /\ boot' = [boot EXCEPT ![t] = bt]
  BY <1>1, <1>3, LaidNothingElse
<1>16. AreaInv("open", n, m, tree.root, t, img[t], pr, bt)
  <2>1. AreaInv("open", a0, m, tree.root, t, img[t], pr, bt)
    BY <1>1, <1>15, LaidNothingElse
  <2> QED BY <1>15, <2>1 DEF AreaInv
<1>17. /\ UNCHANGED <<tree, img>> /\ at' = [at EXCEPT ![t] = n] /\ pc' = [pc EXCEPT ![t] = "open"]
       /\ mem' = [mem EXCEPT ![t] = m] /\ pre' = [pre EXCEPT ![t] = pr] /\ boot' = [boot EXCEPT ![t] = bt]
  BY <1>3, <1>4, <1>15
<1> QED BY <1>8, <1>10, <1>12, <1>14, <1>16, <1>17, OneLaid

\* Who waits for a segment opens a whole one.
LEMMA OpenLays ==
  ASSUME LayoutInv, BootInv', NEW t \in Tasks, shmem_wait_and_open(t)
  PROVE  LayoutInv'
<1>1. PICK v, id, a0 : v = img[t] /\ a0 = at[t] /\ id = v[a0].id /\ pc[t] = "open" /\ a0 \in ShOf(v)
  BY Facts DEF shmem_wait_and_open, LayoutInv
<1>2. UNCHANGED <<tree, img, mem, pre, boot, shm>> /\ shm[id].lock = 1
  BY <1>1 DEF shmem_wait_and_open, Image
<1>3. (Opened(t) /\ UNCHANGED pc) \/ (Goes(t, "failed") /\ UNCHANGED at)
  BY DEF shmem_wait_and_open
<1>4. CASE Goes(t, "failed") /\ UNCHANGED at
  BY <1>2, <1>4, FailLays DEF Goes
<1>5. CASE Opened(t) /\ UNCHANGED pc
  <2>1. PICK n : n = NextOf(ShOf(v), a0) /\ at' = [at EXCEPT ![t] = n]
    BY <1>1, <1>5, Facts DEF Opened, LayoutInv
  <2>2. Complete(img, img[t][a0].id, shm[img[t][a0].id].pages)
    BY <1>1, <1>2, Facts DEF LayoutInv, SegTable
  <2>3. TaskSize \in Nat /\ ShOf(img[t]) \in SUBSET (1..TaskSize) /\ SegTask("open", a0, img, t, shm)
    BY <1>1, Facts, LaidNothingElse
  <2>4. SegTask("open", n, img, t, shm)
    BY <1>1, <2>1, <2>2, <2>3, NextSegment
  <2>5. pc' = [pc EXCEPT ![t] = "open"]
    BY <1>1, <1>5, LaidNothingElse
  <2>6. AreaInv("open", n, mem[t], tree.root, t, img[t], pre[t], boot[t])
    <3>1. AreaInv("open", a0, mem[t], tree.root, t, img[t], pre[t], boot[t])
      BY <1>1, LaidNothingElse
    <3> QED BY <3>1 DEF AreaInv
  <2> QED BY <1>2, <2>1, <2>4, <2>5, <2>6, PcLays
<1> QED BY <1>3, <1>4, <1>5

\* The restorer is mapped apart from the premapped areas.
LEMMA RestorerLays ==
  ASSUME LayoutInv, BootInv', NEW t \in Tasks, sigreturn_restore(t)
  PROVE  LayoutInv'
<1>1. PICK v, pr, r, m, a : v = img[t] /\ pr = pre[t] /\ r = tree.root /\ m = mem[t] /\ a = at[t]
  OBVIOUS
<1>2. /\ Ordered(v) /\ Shareds(t) = ShOf(v) /\ ShOf(v) \in SUBSET (1..TaskSize) /\ TaskSize \in Nat
      /\ Image(t) = v
  BY <1>1, Facts DEF LayoutInv
<1>3. pc[t] = "open" /\ a \notin ShOf(v) /\ UNCHANGED <<tree, img, at, pre, shm>>
  BY <1>1, <1>2 DEF sigreturn_restore
<1>4. Packed(v, pr) /\ Contents(m, r, t, v, pr) /\ NoGuards(m, v, pr, {}) /\ DOMAIN m = Pages
  <2>1. TaskInv("open", m, v, pr, boot[t]) /\ AreaInv("open", a, m, r, t, v, pr, boot[t])
    BY <1>1, <1>3, LaidNothingElse
  <2> QED BY <2>1 DEF TaskInv, AreaInv, Premapped
<1>5. PICK h : h = restorer_get_vma_hint(Image(t), self_vmas(mem[t]))
  OBVIOUS
<1>6. IF h = 0 \/ h + BootLen > TaskSize + 1 THEN Goes(t, "failed") /\ UNCHANGED <<boot, mem>>
      ELSE /\ boot' = [boot EXCEPT ![t] = h]
           /\ mem' = [mem EXCEPT ![t] = [p \in Pages |-> IF p \in h..(h + BootLen - 1) THEN Boot ELSE @[p]]]
           /\ Goes(t, "restorer")
  BY <1>5 DEF sigreturn_restore
<1>7. CASE h = 0 \/ h + BootLen > TaskSize + 1
  BY <1>3, <1>6, <1>7, FailLays DEF Goes
<1>8. CASE ~ (h = 0 \/ h + BootLen > TaskSize + 1)
  <2>1. PICK w : w = [p \in Pages |-> IF p \in h..(h + BootLen - 1) THEN Boot ELSE m[p]]
    OBVIOUS
  <2>2. pc' = [pc EXCEPT ![t] = "restorer"] /\ mem' = [mem EXCEPT ![t] = w] /\ boot' = [boot EXCEPT ![t] = h]
    BY <1>1, <1>6, <1>8, <2>1 DEF Goes
  <2>3. pre' = [pre EXCEPT ![t] = pr] /\ at' = [at EXCEPT ![t] = a]
    BY <1>1, <1>3, LaidNothingElse
  <2>4. BootApart(w, v, pr, h)
    <3>1. TaskInv(pc'[t], mem'[t], Image(t)', pre'[t], boot'[t])
      <4>1. t \in Tasks'
        BY <1>3 DEF Tasks
      <4> QED BY <4>1 DEF BootInv
    <3>2. pc'[t] = "restorer" /\ mem'[t] = w /\ pre'[t] = pr /\ boot'[t] = h /\ Image(t)' = v
      BY <1>1, <1>3, <2>2, <2>3 DEF LayoutInv, BootInv, Image
    <3>3. TaskInv("restorer", w, v, pr, h)
      BY <3>1, <3>2
    <3> QED BY <3>3 DEF TaskInv, InRestorer
  <2>5. Contents(w, r, t, v, pr)
    <3> SUFFICES ASSUME NEW i \in PrivOf(v), NEW p \in Source(v, pr, i)
                 PROVE  w[p] = Was(r, t, v[i], v[i].start + p - pr.addr[i])
      BY DEF Contents
    <3>1. p \in Pages /\ p \notin h..(h + BootLen - 1)
      BY <1>2, <1>4, <2>4, SourcesDisjoint DEF BootApart
    <3> QED BY <1>4, <2>1, <3>1 DEF Contents
  <2>6. NoGuards(w, v, pr, h..(h + BootLen - 1))
    <3> SUFFICES ASSUME NEW p \in pr.base..(pr.base + pr.len - 1), p \notin h..(h + BootLen - 1)
                 PROVE  w[p] = Free \/ \E i \in PrivOf(v) : p \in Source(v, pr, i)
      BY DEF NoGuards
    <3>1. p \in Pages
      <4>1. pr.base \in Nat /\ pr.len \in Nat /\ 1 <= pr.base /\ pr.base + pr.len <= TaskSize + 1
        BY <1>2, <1>4, SourcesApart DEF Packed
      <4> QED BY <1>2, <4>1 DEF Pages
    <3>2. w[p] = m[p]
      BY <2>1, <3>1
    <3> QED BY <1>4, <3>2 DEF NoGuards
  <2>7. AreaInv("restorer", a, w, r, t, v, pr, h)
    BY <2>5, <2>6 DEF AreaInv
  <2>8. SegTask("restorer", a, img, t, shm)
    <3>1. SegTask("open", a, img, t, shm)
      BY <1>1, <1>3, LaidNothingElse
    <3>2. a = TaskSize + 1
      BY <1>1, <1>3, <3>1 DEF SegTask
    <3>3. \A i \in ShOf(v) : i < a
      BY <1>2, <3>2
    <3> QED BY <1>1, <3>1, <3>3 DEF SegTask
  <2> QED BY <1>1, <1>3, <2>2, <2>3, <2>7, <2>8, OneLaidSame
<1> QED BY <1>7, <1>8

\* What is left are the premapped areas and the restorer.
LEMMA UnmapLays ==
  ASSUME LayoutInv, BootInv', NEW t \in Tasks, unmap_old_vmas(t)
  PROVE  LayoutInv'
<1>1. PICK v, pr, r, m, bt : v = img[t] /\ pr = pre[t] /\ r = tree.root /\ m = mem[t] /\ bt = boot[t]
  OBVIOUS
<1>2. /\ Ordered(v) /\ Privates(t) = PrivOf(v) /\ PrivOf(v) \in SUBSET (1..TaskSize) /\ TaskSize \in Nat
  BY <1>1, Facts DEF LayoutInv
<1>3. pc[t] = "restorer" /\ UNCHANGED <<tree, img, pre, boot, shm>> /\ pc' = [pc EXCEPT ![t] = "left"]
  BY DEF unmap_old_vmas, Goes
<1>4. Packed(v, pr) /\ Contents(m, r, t, v, pr) /\ NoGuards(m, v, pr, bt..(bt + BootLen - 1))
  <2>1. TaskInv("restorer", m, v, pr, bt) /\ AreaInv("restorer", at[t], m, r, t, v, pr, bt)
    BY <1>1, <1>3, LaidNothingElse
  <2> QED BY <2>1 DEF TaskInv, AreaInv, InRestorer
<1>5. PICK w : w = [p \in Pages |->
        IF p \in bt..(bt + BootLen - 1) \/ p \in pr.base..(pr.base + pr.len - 1) THEN m[p] ELSE Free]
  OBVIOUS
<1>6. PICK a : a = NextOf(PrivOf(v), 0)
  OBVIOUS
<1>7. mem' = [mem EXCEPT ![t] = w] /\ at' = [at EXCEPT ![t] = a]
  BY <1>1, <1>2, <1>5, <1>6 DEF unmap_old_vmas, BootPages
<1>8. pre' = [pre EXCEPT ![t] = pr] /\ boot' = [boot EXCEPT ![t] = bt]
  BY <1>1, <1>3, LaidNothingElse
<1>9. a \in PrivOf(v) \cup {TaskSize + 1} /\ \A i \in PrivOf(v) : ~ (i < a)
  <2>1. 0 \in 0..TaskSize
    BY <1>2
  <2>2. a \in PrivOf(v) \cup {TaskSize + 1} /\ a \in Nat /\ \A i \in PrivOf(v) : i > 0 => a <= i
    BY <1>2, <1>6, <2>1, NextIs
  <2> QED BY <1>2, <2>2
<1>10. Below(v, a) = {}
  BY <1>9 DEF Below
<1>11. Laid(w, r, t, v, pr, bt, {})
  <2>1. ASSUME NEW i \in PrivOf(v), NEW p \in Source(v, pr, i)
        PROVE  w[p] = Was(r, t, v[i], v[i].start + p - pr.addr[i])
    <3>1. p \in Pages /\ p \in pr.base..(pr.base + pr.len - 1)
      BY <1>2, <1>4, SourcesDisjoint
    <3> QED BY <1>4, <1>5, <3>1 DEF Contents
  <2>2. ASSUME NEW p \in Pages
        PROVE  w[p] = Free \/ p \in bt..(bt + BootLen - 1) \/ \E i \in PrivOf(v) : p \in Source(v, pr, i)
    BY <1>4, <1>5 DEF NoGuards
  <2> QED BY <2>1, <2>2 DEF Laid
<1>12. AreaInv("left", a, w, r, t, v, pr, bt)
  BY <1>9, <1>10, <1>11 DEF AreaInv
<1>13. SegTask("left", a, img, t, shm)
  <2>1. SegTask("restorer", at[t], img, t, shm)
    BY <1>3, LaidNothingElse
  <2> QED BY <2>1 DEF SegTask
<1> QED BY <1>1, <1>3, <1>7, <1>8, <1>12, <1>13, OneLaidSame

\* A move that does not fail.
LEMMA MoveLays ==
  ASSUME LayoutInv, BootInv', NEW t \in Tasks, NEW c \in {"left", "right"}, pc[t] = c, NEW n,
         vma_remap(t, n), UNCHANGED <<tree, img, pre, boot, shm>>,
         AreaInv(c, n, Moved(mem[t], pre[t].addr[at[t]], img[t][at[t]]), tree.root, t, img[t], pre[t], boot[t])
  PROVE  LayoutInv'
<1>1. PICK x, s : x = img[t][at[t]] /\ s = pre[t].addr[at[t]]
  OBVIOUS
<1>2. PICK m, pr, bt : m = Moved(mem[t], s, x) /\ pr = pre[t] /\ bt = boot[t]
  OBVIOUS
<1>3. \/ pc' = [pc EXCEPT ![t] = "failed"] /\ UNCHANGED <<mem, at>>
      \/ mem' = [mem EXCEPT ![t] = m] /\ at' = [at EXCEPT ![t] = n] /\ UNCHANGED pc
  BY <1>1, <1>2 DEF vma_remap, Goes, Image
<1>4. CASE pc' = [pc EXCEPT ![t] = "failed"] /\ UNCHANGED <<mem, at>>
  BY <1>4, FailLays
<1>5. CASE mem' = [mem EXCEPT ![t] = m] /\ at' = [at EXCEPT ![t] = n] /\ UNCHANGED pc
  <2>1. pc' = [pc EXCEPT ![t] = c] /\ pre' = [pre EXCEPT ![t] = pr] /\ boot' = [boot EXCEPT ![t] = bt]
    BY <1>2, <1>5, LaidNothingElse
  <2>2. SegTask(c, n, img, t, shm)
    <3>1. SegTask(c, at[t], img, t, shm)
      BY LaidNothingElse
    <3> QED BY <3>1 DEF SegTask
  <2>3. AreaInv(c, n, m, tree.root, t, img[t], pr, bt)
    BY <1>1, <1>2
  <2> QED BY <1>5, <2>1, <2>2, <2>3, OneLaidSame
<1> QED BY <1>3, <1>4, <1>5

LEMMA ShiftLays ==
  ASSUME LayoutInv, BootInv', NEW t \in Tasks, ShiftLeft(t) \/ ShiftRight(t)
  PROVE  LayoutInv'
<1>1. PICK v, pr, r, m, bt, a :
        v = img[t] /\ pr = pre[t] /\ r = tree.root /\ m = mem[t] /\ bt = boot[t] /\ a = at[t]
  OBVIOUS
<1>2. Ordered(v) /\ Privates(t) = PrivOf(v) /\ Image(t) = v
  BY <1>1, Facts DEF LayoutInv
<1>3. pc[t] \in {"left", "right"} /\ a \in PrivOf(v) /\ UNCHANGED <<tree, img, pre, boot, shm>>
  BY <1>1, <1>2 DEF ShiftLeft, ShiftRight
<1>4. Packed(v, pr) /\ AreaInv(pc[t], a, m, r, t, v, pr, bt)
  <2>1. TaskInv(pc[t], m, v, pr, bt) /\ AreaInv(pc[t], a, m, r, t, v, pr, bt)
    BY <1>1, LaidNothingElse
  <2> QED BY <1>3, <2>1 DEF TaskInv, InRestorer
<1>5. CASE ShiftLeft(t)
  <2>1. PICK n : n = NextOf(PrivOf(v), a) /\ vma_remap(t, n) /\ pc[t] = "left" /\ Left(v, pr, a)
    BY <1>1, <1>2, <1>5 DEF ShiftLeft, GoesLeft, Left
  <2>2. (\A i \in PrivOf(v) : i < a => Left(v, pr, i)) /\ Laid(m, r, t, v, pr, bt, Below(v, a))
    BY <1>4, <2>1 DEF AreaInv
  <2>3. /\ n \in PrivOf(v) \cup {TaskSize + 1}
        /\ \A i \in PrivOf(v) : i < n => Left(v, pr, i)
        /\ Laid(Moved(m, pr.addr[a], v[a]), r, t, v, pr, bt, Below(v, n))
    BY <1>2, <1>3, <1>4, <2>1, <2>2, MoveLeft
  <2>4. AreaInv("left", n, Moved(m, pr.addr[a], v[a]), r, t, v, pr, bt)
    BY <2>3 DEF AreaInv
  <2> QED BY <1>1, <1>3, <2>1, <2>4, MoveLays
<1>6. CASE ShiftRight(t)
  <2>1. PICK n : n = PrevOf(PrivOf(v), a) /\ vma_remap(t, n) /\ pc[t] = "right" /\ Right(v, pr, a)
    BY <1>1, <1>2, <1>6 DEF ShiftRight, GoesRight, Right
  <2>2. (\A i \in PrivOf(v) : i > a => Right(v, pr, i)) /\ Laid(m, r, t, v, pr, bt, InPlace(v, pr, a))
    BY <1>4, <2>1 DEF AreaInv
  <2>3. /\ n \in PrivOf(v) \cup {0}
        /\ \A i \in PrivOf(v) : i > n => Right(v, pr, i)
        /\ Laid(Moved(m, pr.addr[a], v[a]), r, t, v, pr, bt, InPlace(v, pr, n))
    BY <1>2, <1>3, <1>4, <2>1, <2>2, MoveRight
  <2>4. AreaInv("right", n, Moved(m, pr.addr[a], v[a]), r, t, v, pr, bt)
    BY <2>3 DEF AreaInv
  <2> QED BY <1>1, <1>3, <2>1, <2>4, MoveLays
<1> QED BY <1>5, <1>6

\* The ends of the two loops.
LEMMA EndLays ==
  ASSUME LayoutInv, BootInv', OneStack, NEW t \in Tasks, EndLeft(t) \/ EndRight(t)
  PROVE  LayoutInv'
<1>1. PICK v, pr, r, m, bt, a :
        v = img[t] /\ pr = pre[t] /\ r = tree.root /\ m = mem[t] /\ bt = boot[t] /\ a = at[t]
  OBVIOUS
<1>2. Ordered(v) /\ Privates(t) = PrivOf(v) /\ Image(t) = v /\ OneStackIn(v)
  BY <1>1, Facts, ImageAsDumped DEF LayoutInv
<1>3. pc[t] \in {"left", "right"} /\ UNCHANGED <<tree, img, mem, pre, boot, shm>>
  BY DEF EndLeft, EndRight
<1>4. /\ Packed(v, pr) /\ AreaInv(pc[t], a, m, r, t, v, pr, bt)
      /\ \A c \in {"right", "map"}, n \in Int : SegTask(c, n, img, t, shm)
  <2>1. TaskInv(pc[t], m, v, pr, bt) /\ AreaInv(pc[t], a, m, r, t, v, pr, bt) /\ SegTask(pc[t], a, img, t, shm)
    BY <1>1, LaidNothingElse
  <2>2. \A c \in {"right", "map"}, n \in Int : SegTask(c, n, img, t, shm)
    BY <1>3, <2>1 DEF SegTask
  <2> QED BY <1>3, <2>1, <2>2 DEF TaskInv, InRestorer
<1>5. CASE EndLeft(t)
  <2>1. PICK n : /\ n = PrevOf(PrivOf(v), TaskSize + 1) /\ at' = [at EXCEPT ![t] = n]
                 /\ pc[t] = "left" /\ pc' = [pc EXCEPT ![t] = "right"]
    BY <1>2, <1>5 DEF EndLeft, Goes
  <2>2. a \in PrivOf(v) => ~ Left(v, pr, a)
    BY <1>1, <1>2, <1>5 DEF EndLeft, GoesLeft, Left
  <2>3. /\ a \in PrivOf(v) \cup {TaskSize + 1}
        /\ \A i \in PrivOf(v) : i < a => Left(v, pr, i)
        /\ Laid(m, r, t, v, pr, bt, Below(v, a))
    BY <1>4, <2>1 DEF AreaInv
  <2>4. /\ n \in PrivOf(v) \cup {0}
        /\ \A i \in PrivOf(v) : i > n => Right(v, pr, i)
        /\ Laid(m, r, t, v, pr, bt, InPlace(v, pr, n))
    BY <1>2, <1>4, <2>1, <2>2, <2>3, LastLeft
  <2>5. AreaInv("right", n, m, r, t, v, pr, bt)
    BY <2>4 DEF AreaInv
  <2>6. n \in Int
    BY <2>4 DEF PrivOf
  <2>7. SegTask("right", n, img, t, shm)
    BY <1>4, <2>6
  <2> QED BY <1>1, <1>3, <2>1, <2>5, <2>7, PcLays
<1>6. CASE EndRight(t)
  <2>1. pc[t] = "right" /\ pc' = [pc EXCEPT ![t] = "map"] /\ at' = [at EXCEPT ![t] = a]
    BY <1>1, <1>6, LaidNothingElse DEF EndRight, Goes
  <2>2. a \in PrivOf(v) => ~ Right(v, pr, a)
    BY <1>1, <1>2, <1>6 DEF EndRight, GoesRight, Right
  <2>3. a \in PrivOf(v) \cup {0} /\ Laid(m, r, t, v, pr, bt, InPlace(v, pr, a))
    BY <1>4, <2>1 DEF AreaInv
  <2>4. Laid(m, r, t, v, pr, bt, PrivOf(v))
    BY <1>2, <1>4, <2>2, <2>3, LastRight
  <2>5. AreaInv("map", a, m, r, t, v, pr, bt)
    BY <2>4 DEF AreaInv
  <2>6. a \in Int
    BY <2>3 DEF PrivOf
  <2>7. SegTask("map", a, img, t, shm)
    BY <1>4, <2>6
  <2> QED BY <1>1, <1>3, <2>1, <2>5, <2>7, PcLays
<1> QED BY <1>5, <1>6

\* restore_mapping() of all shared areas: what was moved stays, and every
\* segment is long enough.
LEMMA MapLays ==
  ASSUME LayoutInv, BootInv', NEW t \in Tasks, restore_mappings(t)
  PROVE  LayoutInv'
<1>1. PICK v, pr, r, m, bt, a :
        v = img[t] /\ pr = pre[t] /\ r = tree.root /\ m = mem[t] /\ bt = boot[t] /\ a = at[t]
  OBVIOUS
<1>2. Ordered(v) /\ Shareds(t) = ShOf(v) /\ Image(t) = v /\ t \in DOMAIN img
  BY <1>1, Facts DEF LayoutInv
<1>3. pc[t] = "map" /\ pc' = [pc EXCEPT ![t] = "mapped"] /\ UNCHANGED <<tree, img, at, pre, boot>>
  BY DEF restore_mappings, Goes
<1>4. /\ Laid(m, r, t, v, pr, bt, PrivOf(v)) /\ SegTable(img, shm)
      /\ \A i \in ShOf(v) : Complete(img, v[i].id, shm[v[i].id].pages)
  <2>1. AreaInv("map", a, m, r, t, v, pr, bt) /\ SegTask("map", a, img, t, shm) /\ SegTable(img, shm)
    BY <1>1, <1>3, LaidNothingElse
  <2> QED BY <1>1, <2>1 DEF AreaInv, SegTask
<1>5. PICK w : w = [p \in Pages |->
        IF \E i \in Shareds(t) : p \in Span(Image(t)[i]) THEN restore_mapping(t, p) ELSE m[p]]
  OBVIOUS
<1>6. mem' = [mem EXCEPT ![t] = w]
  BY <1>1, <1>5 DEF restore_mappings
<1>7. ASSUME NEW p \in Pages, NEW i \in ShOf(v), p \in Span(v[i])
      PROVE  w[p] = Shared(v[i].id, v[i].off + p - v[i].start)
  <2>1. \A j \in ShOf(v) : p \in Span(v[j]) => j = i
    BY <1>2, <1>7, SpansApart DEF ShOf
  <2>2. (CHOOSE j \in ShOf(v) : p \in Span(v[j])) = i
    BY <1>7, <2>1
  <2>3. w[p] = restore_mapping(t, p)
    BY <1>2, <1>5, <1>7
  <2>4. v[i].off + p - v[i].start \in shm[v[i].id].pages
    <3>1. v[i].start \in Nat /\ v[i].end \in Nat /\ v[i].off \in Nat
      <4>1. v[i] \in VmaEntry
        BY <1>2 DEF Ordered, ShOf
      <4> QED BY <4>1 DEF VmaEntry
    <3>2. PICK s \in Nat, e \in Nat, o \in Nat : s = v[i].start /\ e = v[i].end /\ o = v[i].off
      BY <3>1
    <3>3. p \in s..(e - 1)
      BY <1>7, <3>2 DEF Span
    <3>4. o + p - s \in o..(o + (e - s) - 1)
      BY <3>2, <3>3
    <3>5. Complete(img, v[i].id, shm[v[i].id].pages)
      BY <1>4
    <3>6. \A k \in o..(o + (e - s) - 1) : k \in shm[v[i].id].pages
      BY <1>1, <1>2, <3>2, <3>5 DEF Complete, Size
    <3> QED BY <3>2, <3>4, <3>6
  <2> QED BY <1>2, <2>2, <2>3, <2>4 DEF restore_mapping
<1>8. ASSUME NEW p \in Pages, \A i \in ShOf(v) : p \notin Span(v[i]) PROVE w[p] = m[p]
  BY <1>2, <1>5, <1>8
<1>9. AsImage(w, r, t, v, bt)
  <2>1. ASSUME NEW p \in Pages, NEW i \in 1..Len(v), p \in Span(v[i])
        PROVE  w[p] = IF vma_priv(v[i]) THEN Was(r, t, v[i], p) ELSE Shared(v[i].id, v[i].off + p - v[i].start)
    <3>1. CASE ~ vma_priv(v[i])
      BY <1>7, <2>1, <3>1 DEF ShOf
    <3>2. CASE vma_priv(v[i])
      <4>1. \A j \in ShOf(v) : p \notin Span(v[j])
        BY <1>2, <2>1, <3>2, SpansApart DEF ShOf
      <4>2. i \in PrivOf(v)
        BY <3>2 DEF PrivOf
      <4>3. m[p] = Was(r, t, v[i], p)
        BY <1>4, <2>1, <4>2 DEF Laid
      <4>4. w[p] = m[p]
        BY <1>8, <4>1
      <4> QED BY <3>2, <4>3, <4>4
    <3> QED BY <3>1, <3>2
  <2>2. ASSUME NEW p \in Pages, \A i \in 1..Len(v) : p \notin Span(v[i])
        PROVE  w[p] = Free \/ p \in bt..(bt + BootLen - 1)
    <3>1. w[p] = m[p]
      BY <1>8, <2>2 DEF ShOf
    <3>2. m[p] = Free \/ p \in bt..(bt + BootLen - 1)
      BY <1>4, <2>2 DEF Laid, PrivOf
    <3> QED BY <3>1, <3>2
  <2> QED BY <2>1, <2>2 DEF AsImage
<1>10. AreaInv("mapped", a, w, r, t, v, pr, bt)
  BY <1>9 DEF AreaInv
<1>11. shm' = [id \in DOMAIN shm |->
         IF shm[id].pid = t /\ \E i \in ShOf(v) : v[i].id = id /\ v[i].start = shm[id].start
           THEN [shm[id] EXCEPT !.lock = 1] ELSE shm[id]]
  BY <1>2 DEF restore_mappings
<1>12. PICK sh : sh = shm'
  OBVIOUS
<1>13. DOMAIN sh = DOMAIN shm /\ sh = [id \in DOMAIN sh |-> sh[id]]
  BY <1>11, <1>12
<1>14. ASSUME NEW id \in DOMAIN shm
       PROVE  /\ DOMAIN sh[id] = DOMAIN shm[id] /\ sh[id].size = shm[id].size /\ sh[id].pages = shm[id].pages
              /\ sh[id].lock = 1 => Complete(img, id, sh[id].pages)
  <2>1. {"pid", "start", "size", "pages", "lock"} \subseteq DOMAIN shm[id]
    BY <1>4 DEF SegTable
  <2>2. CASE sh[id] = shm[id]
    BY <1>4, <2>2 DEF SegTable
  <2>3. CASE sh[id] # shm[id]
    <3>1. /\ sh[id] = [shm[id] EXCEPT !.lock = 1]
          /\ \E i \in ShOf(v) : v[i].id = id
      BY <1>11, <1>12, <2>3
    <3>2. Complete(img, id, shm[id].pages)
      BY <1>4, <3>1
    <3>3. DOMAIN sh[id] = DOMAIN shm[id] /\ sh[id].size = shm[id].size /\ sh[id].pages = shm[id].pages
      BY <2>1, <3>1
    <3> QED BY <3>2, <3>3
  <2> QED BY <2>2, <2>3
<1>15. SegTable(img, sh)
  BY <1>4, <1>13, <1>14 DEF SegTable
<1>16. \A x \in DOMAIN shm : Complete(img, x, shm[x].pages) => Complete(img, x, sh[x].pages)
  BY <1>14
<1>17. SegTask("mapped", a, img, t, sh)
  BY DEF SegTask
<1>18. pre' = [pre EXCEPT ![t] = pr] /\ boot' = [boot EXCEPT ![t] = bt] /\ at' = [at EXCEPT ![t] = a]
  BY <1>1, <1>3, LaidNothingElse
<1>19. SegTable(img, shm') /\ DOMAIN shm' = DOMAIN shm /\ SegTask("mapped", a, img, t, shm')
  BY <1>12, <1>13, <1>15, <1>17
<1>20. \A x \in DOMAIN shm : Complete(img, x, shm[x].pages) => Complete(img, x, shm'[x].pages)
  BY <1>12, <1>16
<1>21. AreaInv("mapped", a, w, tree.root, t, img[t], pr, bt)
  BY <1>1, <1>10
<1>22. /\ UNCHANGED <<tree, img>> /\ at' = [at EXCEPT ![t] = a] /\ pc' = [pc EXCEPT ![t] = "mapped"]
       /\ mem' = [mem EXCEPT ![t] = w] /\ pre' = [pre EXCEPT ![t] = pr] /\ boot' = [boot EXCEPT ![t] = bt]
  BY <1>3, <1>6, <1>18
<1> QED BY <1>19, <1>20, <1>21, <1>22, OneLaid

\* The restorer unmaps itself, and nothing of the task.
LEMMA ResumeLays ==
  ASSUME LayoutInv, BootInv', NEW t \in Tasks, Resume(t)
  PROVE  LayoutInv'
<1>1. PICK v, pr, r, m, bt, a :
        v = img[t] /\ pr = pre[t] /\ r = tree.root /\ m = mem[t] /\ bt = boot[t] /\ a = at[t]
  OBVIOUS
<1>2. pc[t] = "mapped" /\ pc' = [pc EXCEPT ![t] = "done"] /\ UNCHANGED <<tree, img, at, pre, boot, shm>>
  BY DEF Resume, Goes
<1>3. AsImage(m, r, t, v, bt) /\ BootApart(m, v, pr, bt)
  <2>1. AreaInv("mapped", a, m, r, t, v, pr, bt) /\ TaskInv("mapped", m, v, pr, bt)
    BY <1>1, <1>2, LaidNothingElse
  <2> QED BY <2>1 DEF AreaInv, TaskInv, InRestorer
<1>4. PICK w : w = [p \in Pages |-> IF p \in bt..(bt + BootLen - 1) THEN Free ELSE m[p]]
  OBVIOUS
<1>5. mem' = [mem EXCEPT ![t] = w]
  BY <1>1, <1>4 DEF Resume, BootPages
<1>6. AsImage(w, r, t, v, bt)
  <2>1. ASSUME NEW p \in Pages, NEW i \in 1..Len(v), p \in Span(v[i])
        PROVE  w[p] = IF vma_priv(v[i]) THEN Was(r, t, v[i], p) ELSE Shared(v[i].id, v[i].off + p - v[i].start)
    <3>1. p \notin bt..(bt + BootLen - 1)
      BY <1>3, <2>1 DEF BootApart
    <3>2. w[p] = m[p]
      BY <1>4, <3>1
    <3> QED BY <1>3, <2>1, <3>2 DEF AsImage
  <2>2. ASSUME NEW p \in Pages, \A i \in 1..Len(v) : p \notin Span(v[i])
        PROVE  w[p] = Free \/ p \in bt..(bt + BootLen - 1)
    BY <1>3, <1>4, <2>2 DEF AsImage
  <2> QED BY <2>1, <2>2 DEF AsImage
<1>7. NoRestorer(w, bt)
  <2>1. \A p \in bt..(bt + BootLen - 1) : p \in Pages
    BY <1>3, MemoryAssumption DEF BootApart, Pages
  <2> QED BY <1>4, <2>1 DEF NoRestorer
<1>8. AreaInv("done", a, w, r, t, v, pr, bt)
  BY <1>6, <1>7 DEF AreaInv
<1>9. SegTask("done", a, img, t, shm)
  BY DEF SegTask
<1>10. pre' = [pre EXCEPT ![t] = pr] /\ boot' = [boot EXCEPT ![t] = bt] /\ at' = [at EXCEPT ![t] = a]
  BY <1>1, <1>2, LaidNothingElse
<1>11. AreaInv("done", a, w, tree.root, t, img[t], pr, bt)
  BY <1>1, <1>8
<1>12. UNCHANGED <<tree, img, shm>> /\ pc' = [pc EXCEPT ![t] = "done"]
  BY <1>2
<1> QED BY <1>5, <1>9, <1>10, <1>11, <1>12, OneLaidSame

\* Every step keeps the invariant.
LEMMA LayoutNext == OneStack /\ LayoutInv /\ [Next]_vars => LayoutInv'
<1> SUFFICES ASSUME OneStack, LayoutInv, [Next]_vars PROVE LayoutInv'
  OBVIOUS
<1>1. BootInv'
  BY BootInvNext DEF LayoutInv
<1>2. CASE UNCHANGED vars
  <2>1. /\ tree' = tree /\ img' = img /\ pc' = pc /\ at' = at /\ mem' = mem /\ pre' = pre /\ boot' = boot
        /\ shm' = shm /\ Tasks' = Tasks
    BY <1>2 DEF vars, Tasks
  <2> QED BY <1>1, <2>1 DEF LayoutInv
<1>3. CASE Next
  <2>1. PICK t \in Tasks : Step(t)
    BY <1>3 DEF Next
  <2>2. CASE prepare_mappings(t)
    BY <1>1, <2>2, PrepareLays
  <2>3. CASE t = Root /\ create_children
    BY <1>1, <2>3, ForkLays
  <2>4. CASE unmap_guard_pages(t)
    BY <1>1, <2>4, GuardsLay
  <2>5. CASE get_shmem_fd(t)
    BY <1>1, <2>5, CreateLays
  <2>6. CASE shmem_wait_and_open(t)
    BY <1>1, <2>6, OpenLays
  <2>7. CASE sigreturn_restore(t)
    BY <1>1, <2>7, RestorerLays
  <2>8. CASE unmap_old_vmas(t)
    BY <1>1, <2>8, UnmapLays
  <2>9. CASE ShiftLeft(t) \/ ShiftRight(t)
    BY <1>1, <2>9, ShiftLays
  <2>10. CASE EndLeft(t) \/ EndRight(t)
    BY <1>1, <2>10, EndLays
  <2>11. CASE restore_mappings(t)
    BY <1>1, <2>11, MapLays
  <2>12. CASE Resume(t)
    BY <1>1, <2>12, ResumeLays
  <2> QED BY <2>1, <2>2, <2>3, <2>4, <2>5, <2>6, <2>7, <2>8, <2>9, <2>10, <2>11, <2>12 DEF Step
<1> QED BY <1>2, <1>3

LEMMA FirstTwo ==
  ASSUME NEW x, NEW y, NEW z
  PROVE  SubSeq(<<x, y, z>>, 1, 2) = <<x, y>>
<1>1. PICK S : x \in S /\ y \in S /\ z \in S
  <2>1. x \in {x, y, z} /\ y \in {x, y, z} /\ z \in {x, y, z}
    OBVIOUS
  <2> QED BY <2>1
<1>2. <<x, y, z>> \in Seq(S) /\ <<x, y>> \in Seq(S)
  BY <1>1
<1>3. PICK q \in Seq(S) : q = <<x, y, z>> /\ Len(q) = 3 /\ q[1] = x /\ q[2] = y
  BY <1>2
<1>4. SubSeq(q, 1, 2) \in Seq(S) /\ Len(SubSeq(q, 1, 2)) = 2 /\ SubSeq(q, 1, 2)[1] = x /\ SubSeq(q, 1, 2)[2] = y
  BY <1>3
<1>5. SubSeq(q, 1, 2) = <<x, y>>
  <2>1. PICK u \in Seq(S), w \in Seq(S) : /\ u = SubSeq(q, 1, 2) /\ Len(u) = 2 /\ u[1] = x /\ u[2] = y
                                         /\ w = <<x, y>> /\ Len(w) = 2 /\ w[1] = x /\ w[2] = y
    BY <1>2, <1>4
  <2>2. \A k \in 1..Len(u) : u[k] = w[k]
    BY <2>1
  <2>3. DOMAIN u = 1..2 /\ DOMAIN w = 1..2 /\ u = [k \in 1..2 |-> u[k]] /\ w = [k \in 1..2 |-> w[k]]
    BY <2>1
  <2>4. u = w
    BY <2>1, <2>2, <2>3
  <2> QED BY <2>1, <2>4
<1> QED BY <1>3, <1>5

LEMMA ImageIsDumped == OneStack /\ LayoutInv => AsDumped
<1> SUFFICES ASSUME OneStack, LayoutInv, NEW t \in Tasks, pc[t] = "done", NEW p \in Pages
             PROVE  \/ Dumped(t, p) = mem[t][p]
                    \/ mem[t][p][1] = "page" /\ Dumped(t, p) = SubSeq(mem[t][p], 1, 2)
  BY DEF AsDumped
<1>1. PICK v, m, r, bt : v = tree.vmas[t] /\ m = mem[t] /\ r = tree.root /\ bt = boot[t]
  OBVIOUS
<1>2. v = img[t] /\ Ordered(v) /\ DOMAIN v = 1..Len(v)
  BY <1>1, ImageAsDumped, Facts, AreaTypes DEF LayoutInv
<1>3. AsImage(m, r, t, v, bt) /\ NoRestorer(m, bt)
  <2>1. AreaInv("done", at[t], m, r, t, v, pre[t], bt)
    BY <1>1, <1>2, LaidNothingElse
  <2> QED BY <2>1 DEF AreaInv
<1>4. CASE \A i \in 1..Len(v) : p \notin Span(v[i])
  <2>1. Dumped(t, p) = Free
    BY <1>1, <1>2, <1>4 DEF Dumped
  <2>2. m[p] = Free
    BY <1>3, <1>4 DEF AsImage, NoRestorer
  <2> QED BY <1>1, <2>1, <2>2
<1>5. CASE \E i \in 1..Len(v) : p \in Span(v[i])
  <2>1. PICK i \in 1..Len(v) : p \in Span(v[i])
    BY <1>5
  <2>2. \A j \in 1..Len(v) : p \in Span(v[j]) => j = i
    BY <1>2, <2>1, SpansApart
  <2>3. (CHOOSE j \in DOMAIN v : p \in Span(v[j])) = i
    BY <1>2, <2>1, <2>2
  <2>4. Dumped(t, p) = IF vma_priv(v[i]) THEN <<"page", Content(t, v[i], p)>>
                       ELSE <<"shm", v[i].id, v[i].off + p - v[i].start>>
    BY <1>1, <1>2, <2>1, <2>3 DEF Dumped
  <2>5. m[p] = IF vma_priv(v[i]) THEN Was(r, t, v[i], p) ELSE Shared(v[i].id, v[i].off + p - v[i].start)
    BY <1>3, <2>1 DEF AsImage
  <2>6. CASE vma_priv(v[i])
    <3>1. PICK x : x = Content(t, v[i], p)
      OBVIOUS
    <3>2. m[p] = <<"page", x, t>>
      BY <1>1, <2>5, <2>6, <3>1 DEF Was, Private, Content, Root
    <3>3. SubSeq(<<"page", x, t>>, 1, 2) = <<"page", x>>
      BY FirstTwo
    <3> QED BY <1>1, <2>4, <2>6, <3>1, <3>2, <3>3
  <2>7. CASE ~ vma_priv(v[i])
    BY <1>1, <2>4, <2>5, <2>7 DEF Shared
  <2> QED BY <2>6, <2>7
<1> QED BY <1>4, <1>5

\* Whatever the trees, wherever criu was mapped and whichever free place each
\* premap takes: a task that resumes has the areas it was dumped with, at their
\* places and with their content, the segments whole, and nothing else; if no
\* task has more than one stack.
THEOREM MemoryAsDumped == OneStack /\ FairSpec => []AsDumped
<1>1. OneStack /\ LayoutInv => AsDumped
  BY ImageIsDumped
<1>2. OneStack /\ Init => LayoutInv
  BY LayoutInit
<1>3. OneStack /\ LayoutInv /\ [Next]_vars => LayoutInv'
  BY LayoutNext
<1>4. OneStack => []OneStack
  <2>1. OneStack => OneStack'
    BY DEF OneStack, OneStackIn
  <2> QED BY <2>1, PTL
<1> QED BY <1>1, <1>2, <1>3, <1>4, PTL DEF FairSpec
=============================================================================
