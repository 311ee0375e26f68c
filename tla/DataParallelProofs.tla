------------------------- MODULE DataParallelProofs -------------------------
(***************************************************************************)
(* Theorems about a batch on its way through the data-parallel workers,    *)
(* for any number of rows, ranks, workers and micro-batches, and about the *)
(* Karmarkar-Karp partition they rest on.                                  *)
(*                                                                         *)
(* The argument: sorting permutes; so do the partition of a batch, the     *)
(* micro-batches of a rank, and the shuffle of an epoch.  So each row is   *)
(* in one place of one micro-batch of one rank, which is what the outputs, *)
(* the gradient and the number of forward passes depend on.                *)
(***************************************************************************)
EXTENDS DataParallel, FiniteSetTheorems, SequenceTheorems, WellFoundedInduction, TLAPS

(* Induction over numbers.                                                 *)
LEMMA Induction ==
  ASSUME NEW G \in SUBSET Nat, 0 \in G, \A n \in G : n + 1 \in G
  PROVE  G = Nat
<1> DEFINE T == Nat \ G
<1>1. SUFFICES ASSUME T # {} PROVE FALSE
  OBVIOUS
<1>2. PICK x \in T : \A y \in T : ~ (<<y, x>> \in OpToRel(<, Nat))
  <2>1. T \in SUBSET Nat
    OBVIOUS
  <2> HIDE DEF T
  <2> QED BY <1>1, <2>1, WFMin, NatLessThanWellFounded, Zenon
<1>3. x - 1 \in Nat /\ x - 1 < x /\ (x - 1) + 1 = x
  <2>1. x \in Nat /\ x # 0
    BY Zenon
  <2> QED BY <2>1
<1>4. x - 1 \notin T
  <2> HIDE DEF T
  <2>1. <<x - 1, x>> \in OpToRel(<, Nat) <=> x - 1 \in Nat /\ x \in Nat /\ x - 1 < x
    BY Zenon DEF OpToRel
  <2>2. x \in Nat
    BY <1>2 DEF T
  <2> QED BY <1>2, <1>3, <2>1, <2>2
<1> QED BY <1>2, <1>3, <1>4

(* A recursion over numbers, the first n steps of it.                      *)
Follows(X, x, step, n, f) ==
  /\ f \in [0 .. n -> X]
  /\ f[0] = x
  /\ \A i \in 0 .. n - 1 : f[i + 1] = step[<<i, f[i]>>]

(* Every recursion over numbers has a function that follows it.            *)
LEMMA Recursion ==
  ASSUME NEW X, NEW x \in X, NEW step \in [Nat \X X -> X], NEW n \in Nat
  PROVE  \E f : Follows(X, x, step, n, f)
<1> DEFINE Good(k, f) == f[0] = x /\ \A i \in 0 .. k - 1 : f[i + 1] = step[<<i, f[i]>>]
           G == {k \in Nat : \E f \in [0 .. k -> X] : Good(k, f)}
<1>1. 0 \in G
  <2> DEFINE f == [i \in 0 .. 0 |-> x]
  <2>1. f \in [0 .. 0 -> X] /\ Good(0, f)
    OBVIOUS
  <2> QED BY <2>1
<1>2. ASSUME NEW k \in G PROVE k + 1 \in G
  <2>1. PICK f \in [0 .. k -> X] : Good(k, f)
    OBVIOUS
  <2> DEFINE h == [i \in 0 .. k + 1 |-> IF i = k + 1 THEN step[<<k, f[k]>>] ELSE f[i]]
  <2>2. h \in [0 .. k + 1 -> X]
    OBVIOUS
  <2>3. ASSUME NEW i \in 0 .. (k + 1) - 1 PROVE h[i + 1] = step[<<i, h[i]>>]
    <3>1. i \in 0 .. k /\ i + 1 \in 0 .. k + 1 /\ i \in 0 .. k + 1 /\ i # k + 1
      OBVIOUS
    <3>2. h[i] = f[i]
      BY <3>1
    <3>3. CASE i = k
      BY <3>1, <3>2, <3>3
    <3>4. CASE i # k
      <4>1. i \in 0 .. k - 1 /\ i + 1 # k + 1
        BY <3>1, <3>4
      <4>2. f[i + 1] = step[<<i, f[i]>>]
        BY <2>1, <4>1
      <4> QED BY <3>1, <3>2, <4>1, <4>2
    <3> QED BY <3>3, <3>4
  <2>4. h[0] = x
    BY <2>1
  <2>5. Good(k + 1, h)
    BY <2>3, <2>4
  <2>6. k + 1 \in Nat
    OBVIOUS
  <2> HIDE DEF Good, h
  <2> QED BY <2>2, <2>5, <2>6
<1>3. G = Nat
  <2>1. G \in SUBSET Nat
    OBVIOUS
  <2> HIDE DEF G
  <2> QED BY <1>1, <1>2, <2>1, Induction
<1>4. PICK f \in [0 .. n -> X] : Good(n, f)
  BY <1>3
<1> QED BY <1>4 DEF Follows

------------------------------------------------------------------------------

(* Where the members of a sequence of sequences begin once these are       *)
(* joined: before the first, before the second, ..., after the last.       *)
Starts(ss) ==
  LET t[k \in 1 .. Len(ss) + 1] == IF k = 1 THEN 0 ELSE t[k - 1] + Len(ss[k - 1]) IN t

(* Where each of a sequence of sequences starts in what they join to.      *)
LEMMA StartsRule ==
  ASSUME NEW C, NEW ss \in Seq(Seq(C))
  PROVE  /\ Starts(ss) \in [1 .. Len(ss) + 1 -> Nat]
         /\ Starts(ss)[1] = 0
         /\ \A k \in 1 .. Len(ss) : Starts(ss)[k + 1] = Starts(ss)[k] + Len(ss[k])
<1> DEFINE L == Len(ss)
           Is(t) == t = [k \in 1 .. L + 1 |-> IF k = 1 THEN 0 ELSE t[k - 1] + Len(ss[k - 1])]
           step == [p \in Nat \X Nat |->
                      p[2] + (IF p[1] + 1 \in 1 .. L THEN Len(ss[p[1] + 1]) ELSE 0)]
<1>1. L \in Nat /\ \A k \in 1 .. L : Len(ss[k]) \in Nat
  OBVIOUS
<1>2. \E t : Is(t)
  <2>1. step \in [Nat \X Nat -> Nat]
    BY <1>1
  <2>2. PICK f \in [0 .. L -> Nat] : f[0] = 0 /\ \A i \in 0 .. L - 1 : f[i + 1] = step[<<i, f[i]>>]
    <3> HIDE DEF step, L
    <3>1. \E f : Follows(Nat, 0, step, L, f)
      BY <2>1, <1>1, Recursion
    <3> QED BY <3>1 DEF Follows
  <2>3. \A i \in 0 .. L - 1 : f[i + 1] = f[i] + Len(ss[i + 1])
    <3> SUFFICES ASSUME NEW i \in 0 .. L - 1 PROVE f[i + 1] = f[i] + Len(ss[i + 1])
      OBVIOUS
    <3>1. i \in Nat /\ f[i] \in Nat /\ i + 1 \in 1 .. L
      BY <1>1
    <3>2. step[<<i, f[i]>>] = f[i] + Len(ss[i + 1])
      BY <3>1
    <3> QED BY <2>2, <3>2
  <2> DEFINE t == [k \in 1 .. L + 1 |-> f[k - 1]]
  <2>4. ASSUME NEW k \in 1 .. L + 1
        PROVE  t[k] = IF k = 1 THEN 0 ELSE t[k - 1] + Len(ss[k - 1])
    <3>1. CASE k = 1
      BY <3>1, <2>2
    <3>2. CASE k # 1
      <4>1. k - 2 \in 0 .. L - 1 /\ k - 1 \in 1 .. L + 1 /\ (k - 2) + 1 = k - 1 /\ (k - 1) - 1 = k - 2
        BY <1>1, <3>2
      <4>2. f[k - 1] = f[k - 2] + Len(ss[k - 1])
        BY <4>1, <2>3
      <4> QED BY <4>1, <4>2, <3>2
    <3> QED BY <3>1, <3>2
  <2>5. Is(t)
    <3>1. t = [k \in 1 .. L + 1 |-> t[k]]
      OBVIOUS
    <3> HIDE DEF t
    <3> QED BY <3>1, <2>4
  <2> QED BY <2>5
<1> DEFINE u == Starts(ss)
<1>3. Is(u)
  BY <1>2 DEF Starts
<1>4. u[1] = 0 /\ \A k \in 1 .. L : u[k + 1] = u[k] + Len(ss[k])
  BY <1>1, <1>3
<1>5. \A k \in 1 .. L + 1 : u[k] \in Nat
  <2> HIDE DEF u
  <2> DEFINE G == {n \in Nat : n + 1 \in 1 .. L + 1 => u[n + 1] \in Nat}
  <2>1. 0 \in G
    BY <1>4
  <2>2. ASSUME NEW n \in G PROVE n + 1 \in G
    <3> HIDE DEF L
    <3>1. CASE n + 1 \in 1 .. L
      <4>1. u[n + 1] \in Nat /\ u[(n + 1) + 1] = u[n + 1] + Len(ss[n + 1]) /\ Len(ss[n + 1]) \in Nat
        BY <1>1, <1>4, <3>1
      <4> QED BY <4>1
    <3>2. CASE n + 1 \notin 1 .. L
      <4>1. (n + 1) + 1 \notin 1 .. L + 1
        BY <1>1, <3>2
      <4> QED BY <4>1
    <3> QED BY <3>1, <3>2
  <2>3. G = Nat
    <3>1. G \in SUBSET Nat
      OBVIOUS
    <3> HIDE DEF G
    <3> QED BY <2>1, <2>2, <3>1, Induction
  <2>4. ASSUME NEW k \in 1 .. L + 1 PROVE u[k] \in Nat
    <3> HIDE DEF L
    <3>1. k - 1 \in Nat /\ (k - 1) + 1 = k
      BY <1>1
    <3> HIDE DEF G
    <3>2. k - 1 \in G
      BY <2>3, <3>1
    <3> QED BY <3>1, <3>2 DEF G
  <2> QED BY <2>4
<1>6. u \in [1 .. L + 1 -> Nat]
  BY <1>3, <1>5
<1> QED BY <1>4, <1>6

(* The starts never decrease.                                              *)
LEMMA StartsIncrease ==
  ASSUME NEW C, NEW ss \in Seq(Seq(C)), NEW i \in 1 .. Len(ss) + 1, NEW k \in i .. Len(ss) + 1
  PROVE  Starts(ss)[i] <= Starts(ss)[k]
<1> DEFINE u == Starts(ss)
           L == Len(ss)
           G == {n \in Nat : i + n <= L + 1 => u[i] <= u[i + n]}
<1>0. /\ u \in [1 .. L + 1 -> Nat] /\ L \in Nat
      /\ \A n \in 1 .. L : u[n + 1] = u[n] + Len(ss[n]) /\ Len(ss[n]) \in Nat
  BY StartsRule
<1> HIDE DEF u, L
<1>1. 0 \in G
  BY <1>0
<1>2. ASSUME NEW n \in G PROVE n + 1 \in G
  <2>1. CASE i + n \in 1 .. L
    <3>0. i \in 1 .. L + 1 /\ i + n \in 1 .. L + 1
      BY <1>0, <2>1 DEF L
    <3>1. u[i] \in Nat /\ u[i + n] \in Nat /\ u[i] <= u[i + n]
      BY <1>0, <3>0
    <3>2. u[(i + n) + 1] = u[i + n] + Len(ss[i + n]) /\ Len(ss[i + n]) \in Nat
      BY <1>0, <2>1
    <3>3. (i + n) + 1 = i + (n + 1)
      BY <1>0 DEF L
    <3> QED BY <3>1, <3>2, <3>3
  <2>2. CASE i + n \notin 1 .. L
    BY <1>0, <2>2 DEF L
  <2> QED BY <2>1, <2>2
<1>3. G = Nat
  <2>1. G \in SUBSET Nat
    OBVIOUS
  <2> HIDE DEF G
  <2> QED BY <1>1, <1>2, <2>1, Induction
<1>4. k - i \in Nat /\ i + (k - i) = k /\ k <= L + 1
  BY <1>0 DEF L
<1>5. k - i \in G
  BY <1>3, <1>4
<1> QED BY <1>4, <1>5 DEF u

(* A member that begins where another ends comes after it.                 *)
LEMMA StartsOrder ==
  ASSUME NEW C, NEW ss \in Seq(Seq(C)), NEW i \in 1 .. Len(ss), NEW k \in 1 .. Len(ss),
         NEW p \in Int, Starts(ss)[i] < p, p <= Starts(ss)[i + 1],
         Starts(ss)[k] < p, p <= Starts(ss)[k + 1]
  PROVE  i = k
<1>1. \A n \in 1 .. Len(ss) + 1 : Starts(ss)[n] \in Nat
  BY StartsRule
<1>2. /\ i + 1 \in 1 .. Len(ss) + 1 /\ k + 1 \in 1 .. Len(ss) + 1
      /\ i \in 1 .. Len(ss) + 1 /\ k \in 1 .. Len(ss) + 1
      /\ i < k => k \in i + 1 .. Len(ss) + 1
      /\ k < i => i \in k + 1 .. Len(ss) + 1
  <2>1. Len(ss) \in Nat
    OBVIOUS
  <2> QED BY <2>1
<1>c. PICK x, y, z, w \in Nat : /\ x = Starts(ss)[i] /\ y = Starts(ss)[i + 1]
                               /\ z = Starts(ss)[k] /\ w = Starts(ss)[k + 1]
  BY <1>1, <1>2
<1>3. ASSUME i < k PROVE FALSE
  <2>1. Starts(ss)[i + 1] <= Starts(ss)[k]
    BY <1>2, <1>3, StartsIncrease
  <2> QED BY <2>1, <1>c
<1>4. ASSUME k < i PROVE FALSE
  <2>1. Starts(ss)[k + 1] <= Starts(ss)[i]
    BY <1>2, <1>4, StartsIncrease
  <2> QED BY <2>1, <1>c
<1> QED BY <1>3, <1>4

(* Every place of the joined sequence lies in one of its members.          *)
LEMMA StartsCover ==
  ASSUME NEW C, NEW ss \in Seq(Seq(C)), NEW p \in 1 .. Starts(ss)[Len(ss) + 1]
  PROVE  \E k \in 1 .. Len(ss) : Starts(ss)[k] < p /\ p <= Starts(ss)[k + 1]
<1> DEFINE u == Starts(ss)
           L == Len(ss)
           G == {n \in Nat : n <= L /\ p <= u[n + 1] =>
                               \E k \in 1 .. L : u[k] < p /\ p <= u[k + 1]}
<1>0. u \in [1 .. L + 1 -> Nat] /\ L \in Nat /\ u[1] = 0
  BY StartsRule
<1>p. p \in Int /\ p >= 1 /\ p <= u[L + 1]
  BY <1>0
<1> HIDE DEF u, L
<1>1. 0 \in G
  BY <1>0, <1>p
<1>2. ASSUME NEW n \in G PROVE n + 1 \in G
  <2>1. CASE n + 1 \in 1 .. L /\ p <= u[(n + 1) + 1]
    <3>1. u[n + 1] \in Nat
      BY <1>0, <2>1
    <3>2. CASE p <= u[n + 1]
      BY <1>0, <2>1, <3>2
    <3>3. CASE u[n + 1] < p
      BY <2>1, <3>3
    <3> QED BY <3>1, <3>2, <3>3, <1>p
  <2>2. CASE ~(n + 1 \in 1 .. L /\ p <= u[(n + 1) + 1])
    BY <1>0, <2>2
  <2> QED BY <2>1, <2>2
<1>3. G = Nat
  <2>1. G \in SUBSET Nat
    OBVIOUS
  <2> HIDE DEF G
  <2> QED BY <1>1, <1>2, <2>1, Induction
<1>4. L \in G
  BY <1>3, <1>0
<1> QED BY <1>4, <1>0, <1>p DEF u, L

(* Where a member begins depends on the lengths of those before it.        *)
LEMMA StartsPrefix ==
  ASSUME NEW C, NEW ss \in Seq(Seq(C)), NEW tt \in Seq(Seq(C)),
         NEW m \in Nat, m <= Len(ss), m <= Len(tt),
         \A i \in 1 .. m : Len(ss[i]) = Len(tt[i])
  PROVE  \A k \in 1 .. m + 1 : Starts(ss)[k] = Starts(tt)[k]
<1> DEFINE u == Starts(ss)
           v == Starts(tt)
           G == {n \in Nat : n <= m => u[n + 1] = v[n + 1]}
<1>0. /\ u[1] = 0 /\ v[1] = 0
      /\ \A n \in 1 .. m : u[n + 1] = u[n] + Len(ss[n]) /\ v[n + 1] = v[n] + Len(tt[n])
  BY StartsRule
<1> HIDE DEF u, v
<1>1. 0 \in G
  BY <1>0
<1>2. ASSUME NEW n \in G PROVE n + 1 \in G
  <2>1. CASE n + 1 \in 1 .. m
    BY <1>0, <2>1
  <2>2. CASE n + 1 \notin 1 .. m
    BY <2>2
  <2> QED BY <2>1, <2>2
<1>3. G = Nat
  <2>1. G \in SUBSET Nat
    OBVIOUS
  <2> HIDE DEF G
  <2> QED BY <1>1, <1>2, <2>1, Induction
<1>4. ASSUME NEW k \in 1 .. m + 1 PROVE u[k] = v[k]
  <2>1. k - 1 \in Nat /\ k - 1 <= m /\ (k - 1) + 1 = k
    OBVIOUS
  <2>2. k - 1 \in G
    BY <1>3, <2>1
  <2> QED BY <2>1, <2>2
<1> QED BY <1>4 DEF u, v

------------------------------------------------------------------------------

(* s is the members of ss, one after the other.                            *)
Joins(ss, s) ==
  /\ Len(s) = Starts(ss)[Len(ss) + 1]
  /\ \A k \in 1 .. Len(ss) : \A j \in 1 .. Len(ss[k]) : ss[k][j] = s[Starts(ss)[k] + j]

(* FlattenSeq joins sequences one after the other.                         *)
LEMMA FlattenRule ==
  ASSUME NEW C, NEW ss \in Seq(Seq(C)), ss # <<>>
  PROVE  FlattenSeq(ss) \in Seq(C) /\ Joins(ss, FlattenSeq(ss))
<1> DEFINE L == Len(ss)
           Is(t) == t = [i \in 1 .. L |-> IF i = 1 THEN ss[i] ELSE t[i - 1] \o ss[i]]
           step == [p \in Nat \X Seq(C) |-> IF p[1] + 2 \in 1 .. L THEN p[2] \o ss[p[1] + 2] ELSE p[2]]
           u == Starts(ss)
<1>1. L \in Nat \ {0} /\ \A k \in 1 .. L : ss[k] \in Seq(C)
  OBVIOUS
<1>u. /\ u \in [1 .. L + 1 -> Nat] /\ u[1] = 0
      /\ \A k \in 1 .. L : u[k + 1] = u[k] + Len(ss[k])
  BY StartsRule
<1>2. \E t : Is(t)
  <2>1. step \in [Nat \X Seq(C) -> Seq(C)]
    BY <1>1
  <2>2. PICK f \in [0 .. L - 1 -> Seq(C)] :
          f[0] = ss[1] /\ \A i \in 0 .. (L - 1) - 1 : f[i + 1] = step[<<i, f[i]>>]
    <3> HIDE DEF step, L
    <3>1. L - 1 \in Nat /\ ss[1] \in Seq(C)
      BY <1>1
    <3>2. \E f : Follows(Seq(C), ss[1], step, L - 1, f)
      BY <2>1, <3>1, Recursion
    <3> QED BY <3>2 DEF Follows
  <2>3. ASSUME NEW i \in 0 .. L - 2 PROVE f[i + 1] = f[i] \o ss[i + 2]
    <3> HIDE DEF L
    <3>1. i \in Nat /\ i \in 0 .. L - 1 /\ i \in 0 .. (L - 1) - 1 /\ i + 2 \in 1 .. L
      BY <1>1
    <3>2. f[i] \in Seq(C)
      BY <3>1
    <3>3. step[<<i, f[i]>>] = f[i] \o ss[i + 2]
      BY <3>1, <3>2
    <3> QED BY <2>2, <3>1, <3>3
  <2> DEFINE t == [k \in 1 .. L |-> f[k - 1]]
  <2>4. ASSUME NEW k \in 1 .. L
        PROVE  t[k] = IF k = 1 THEN ss[k] ELSE t[k - 1] \o ss[k]
    <3>1. CASE k = 1
      BY <3>1, <2>2
    <3>2. CASE k # 1
      <4> HIDE DEF L
      <4>1. k - 2 \in 0 .. L - 2 /\ k - 1 \in 1 .. L /\ (k - 2) + 1 = k - 1 /\ (k - 1) - 1 = k - 2
            /\ (k - 2) + 2 = k
        BY <1>1, <3>2
      <4>2. f[k - 1] = f[k - 2] \o ss[k]
        BY <4>1, <2>3
      <4> QED BY <4>1, <4>2, <3>2
    <3> QED BY <3>1, <3>2
  <2>5. Is(t)
    <3>1. t = [k \in 1 .. L |-> t[k]]
      OBVIOUS
    <3> HIDE DEF t
    <3> QED BY <3>1, <2>4
  <2> QED BY <2>5
<1> DEFINE c == CHOOSE t : Is(t)
<1>3. Is(c)
  BY <1>2
<1>4. FlattenSeq(ss) = c[L]
  BY <1>1 DEF FlattenSeq
<1> HIDE DEF c, u, L
<1>5. c[1] = ss[1] /\ \A k \in 1 .. L : k # 1 => c[k] = c[k - 1] \o ss[k]
  <2>1. \A k \in 1 .. L : c[k] = IF k = 1 THEN ss[k] ELSE c[k - 1] \o ss[k]
    BY <1>3, Zenon
  <2>2. 1 \in 1 .. L
    BY <1>1
  <2> QED BY <2>1, <2>2
<1> DEFINE Holds(n) == /\ c[n] \in Seq(C) /\ Len(c[n]) = u[n + 1]
                       /\ \A k \in 1 .. n : \A j \in 1 .. Len(ss[k]) : ss[k][j] = c[n][u[k] + j]
           G == {n \in Nat : n + 1 <= L => Holds(n + 1)}
<1>6. 0 \in G
  <2>1. Len(ss[1]) = u[2] /\ ss[1] \in Seq(C)
    BY <1>1, <1>u
  <2>2. ASSUME NEW j \in 1 .. Len(ss[1]) PROVE ss[1][j] = c[1][u[1] + j]
    <3>1. u[1] + j = j
      BY <1>u
    <3> QED BY <3>1, <1>5
  <2>3. Holds(1)
    BY <2>1, <2>2, <1>5
  <2> QED BY <2>3
<1>7. ASSUME NEW n \in G PROVE n + 1 \in G
  <2>1. SUFFICES ASSUME n + 2 <= L PROVE Holds(n + 2)
    <3>1. (n + 1) + 1 = n + 2 /\ n + 1 \in Nat
      OBVIOUS
    <3> HIDE DEF Holds
    <3> QED BY <3>1
  <2>2. /\ n + 1 \in 1 .. L /\ n + 2 \in 1 .. L /\ n + 2 # 1 /\ (n + 2) - 1 = n + 1
        /\ (n + 1) + 1 = n + 2 /\ (n + 2) + 1 = n + 3
    BY <1>1, <2>1
  <2>3. Holds(n + 1)
    BY <2>2
  <2>4. c[n + 2] = c[n + 1] \o ss[n + 2]
    BY <2>2, <1>5
  <2>5. ss[n + 2] \in Seq(C) /\ c[n + 1] \in Seq(C)
    BY <2>2, <2>3, <1>1
  <2>c. /\ (c[n + 1] \o ss[n + 2]) \in Seq(C)
        /\ Len(c[n + 1] \o ss[n + 2]) = Len(c[n + 1]) + Len(ss[n + 2])
        /\ \A i \in 1 .. Len(c[n + 1]) + Len(ss[n + 2]) :
             (c[n + 1] \o ss[n + 2])[i]
               = IF i <= Len(c[n + 1]) THEN c[n + 1][i] ELSE ss[n + 2][i - Len(c[n + 1])]
    BY <2>5, ConcatProperties
  <2>d. Len(c[n + 1]) \in Nat /\ Len(ss[n + 2]) \in Nat /\ Len(c[n + 1]) = u[n + 2]
    BY <2>2, <2>3, <2>5
  <2>6. c[n + 2] \in Seq(C) /\ Len(c[n + 2]) = u[n + 3]
    <3>1. u[n + 3] = u[n + 2] + Len(ss[n + 2])
      BY <2>2, <1>u
    <3> QED BY <2>4, <2>c, <2>d, <3>1
  <2>7. ASSUME NEW k \in 1 .. n + 2, NEW j \in 1 .. Len(ss[k])
        PROVE  ss[k][j] = c[n + 2][u[k] + j]
    <3>1. CASE k = n + 2
      <4>1. j \in 1 .. Len(ss[n + 2]) /\ Len(c[n + 1]) = u[n + 2]
        BY <2>2, <2>3, <3>1
      <4>2. (c[n + 1] \o ss[n + 2])[Len(c[n + 1]) + j] = ss[n + 2][j]
        <5>1. PICK a \in Nat : a = Len(c[n + 1])
          BY <2>d
        <5>2. PICK m \in Nat : m = Len(ss[n + 2])
          BY <2>d
        <5>3. j \in 1 .. m
          BY <4>1, <5>2
        <5>4. a + j \in 1 .. a + m /\ ~(a + j <= a) /\ (a + j) - a = j
          BY <5>3
        <5> QED BY <5>1, <5>2, <5>4, <2>c
      <4> QED BY <4>1, <4>2, <2>4, <3>1
    <3>2. CASE k \in 1 .. n + 1
      <4>1. ss[k][j] = c[n + 1][u[k] + j]
        BY <2>3, <3>2
      <4>2. u[k] + j \in 1 .. Len(c[n + 1])
        <5>1. k + 1 \in 1 .. L + 1 /\ n + 2 \in k + 1 .. L + 1 /\ k \in 1 .. L
          BY <3>2, <2>2, <1>1
        <5>2. u[k + 1] <= u[n + 2]
          BY <5>1, StartsIncrease DEF u, L
        <5>3. u[k + 1] = u[k] + Len(ss[k])
          BY <5>1, <1>u
        <5>5. k \in 1 .. L + 1 /\ n + 2 \in 1 .. L + 1
          BY <5>1, <2>2, <1>1
        <5>6. PICK x, z \in Nat : x = u[k] /\ z = u[n + 2]
          BY <5>5, <1>u
        <5>4. Len(ss[k]) \in Nat /\ Len(c[n + 1]) = u[n + 2]
          BY <5>1, <1>1, <2>d
        <5>7. PICK m \in Nat : m = Len(ss[k]) /\ x + m <= z
          BY <5>2, <5>3, <5>4, <5>6
        <5>8. j \in 1 .. m
          BY <5>7
        <5>9. x + j \in 1 .. z
          BY <5>7, <5>8
        <5> QED BY <5>4, <5>6, <5>9
      <4>3. (c[n + 1] \o ss[n + 2])[u[k] + j] = c[n + 1][u[k] + j]
        <5>1. PICK p \in 1 .. Len(c[n + 1]) : p = u[k] + j
          BY <4>2
        <5>2. p \in 1 .. Len(c[n + 1]) + Len(ss[n + 2]) /\ p <= Len(c[n + 1])
          BY <2>d
        <5> QED BY <5>1, <5>2, <2>c
      <4> QED BY <4>1, <4>3, <2>4
    <3> QED BY <3>1, <3>2
  <2> QED BY <2>6, <2>7, <2>2
<1>8. G = Nat
  <2>1. G \in SUBSET Nat
    OBVIOUS
  <2> HIDE DEF G
  <2> QED BY <1>6, <1>7, <2>1, Induction
<1>9. Holds(L)
  <2>1. L - 1 \in Nat /\ (L - 1) + 1 = L
    BY <1>1
  <2>2. L - 1 \in G
    BY <1>8, <2>1
  <2> HIDE DEF Holds
  <2> QED BY <2>1, <2>2
<1> QED BY <1>9, <1>4 DEF Joins, u, L

(* A strict linear order on the set D.                                     *)
Linear(b, D) ==
  /\ \A i \in D : <<i, i>> \notin b
  /\ \A i, j \in D : i # j => <<i, j>> \in b \/ <<j, i>> \in b
  /\ \A i, j, k \in D : <<i, j>> \in b /\ <<j, k>> \in b => <<i, k>> \in b

Below(b, D, i) == {j \in D : <<j, i>> \in b}
PlaceIn(b, D) == [i \in D |-> Cardinality(Below(b, D, i)) + 1]

(* A permutation of the numbers up to n.                                   *)
Permutes(p, n) ==
  /\ p \in [1 .. n -> 1 .. n]
  /\ \A i, j \in 1 .. n : p[i] = p[j] => i = j
  /\ \A i \in 1 .. n : \E j \in 1 .. n : p[j] = i

(* Among finitely many, each has a place of its own, before those above.   *)
LEMMA Ranked ==
  ASSUME NEW n \in Nat, NEW b, Linear(b, 1 .. n)
  PROVE  /\ Permutes(PlaceIn(b, 1 .. n), n)
         /\ \A i, j \in 1 .. n : <<i, j>> \in b => PlaceIn(b, 1 .. n)[i] < PlaceIn(b, 1 .. n)[j]
<1> DEFINE D == 1 .. n
           place == PlaceIn(b, D)
<1>1. IsFiniteSet(D) /\ Cardinality(D) = n
  BY FS_Interval
<1>2. \A i \in D : IsFiniteSet(Below(b, D, i)) /\ Cardinality(Below(b, D, i)) \in Nat
  BY <1>1, FS_Subset, FS_CardinalityType DEF Below
<1>3. \A i \in D : place[i] = Cardinality(Below(b, D, i)) + 1
  BY DEF PlaceIn
<1>4. ASSUME NEW i \in D PROVE place[i] \in D
  <2>1. Below(b, D, i) \subseteq D \ {i}
    BY DEF Below, Linear
  <2>2. IsFiniteSet(D \ {i}) /\ Cardinality(D \ {i}) = n - 1
    BY <1>1, FS_RemoveElement
  <2>3. Cardinality(Below(b, D, i)) <= n - 1
    BY <2>1, <2>2, FS_Subset
  <2> QED
    BY <1>2, <1>3, <2>3
<1>5. ASSUME NEW i \in D, NEW j \in D, <<i, j>> \in b
      PROVE  place[i] < place[j]
  <2> DEFINE I == Below(b, D, i)
             J == Below(b, D, j)
  <2>1. i \notin I
    BY DEF Below, Linear
  <2>2. I \cup {i} \subseteq J
    BY <1>5 DEF Below, Linear
  <2>3. IsFiniteSet(I) /\ Cardinality(I) \in Nat /\ IsFiniteSet(J) /\ Cardinality(J) \in Nat
    BY <1>2
  <2> HIDE DEF I, J
  <2>4. Cardinality(I \cup {i}) = Cardinality(I) + 1
    BY <2>1, <2>3, FS_AddElement
  <2>5. Cardinality(I \cup {i}) <= Cardinality(J)
    BY <2>2, <2>3, FS_Subset
  <2>6. place[i] = Cardinality(I) + 1 /\ place[j] = Cardinality(J) + 1
    BY <1>3 DEF I, J
  <2> HIDE DEF place
  <2> QED
    BY <2>3, <2>4, <2>5, <2>6
<1>6. place \in [D -> D]
  BY <1>4 DEF PlaceIn
<1> HIDE DEF place
<1>7. ASSUME NEW i \in D, NEW j \in D, place[i] = place[j]
      PROVE  i = j
  <2>1. place[i] \in Int /\ place[j] \in Int
    BY <1>6
  <2>2. <<i, j>> \notin b /\ <<j, i>> \notin b
    BY <1>5, <1>7, <2>1
  <2> QED
    BY <2>2 DEF Linear
<1>8. place \in Surjection(D, D)
  <2>1. place \in Injection(D, D)
    BY <1>6, <1>7 DEF Injection, IsInjective
  <2> QED
    BY <1>1, <2>1, FS_Injection
<1>9. \A i \in D : \E j \in D : place[j] = i
  BY <1>8 DEF Surjection
<1> QED
  BY <1>5, <1>6, <1>7, <1>9 DEF Permutes, place

(* An order of places in which some may be level.                          *)
Weak(less, D) ==
  /\ \A i, j \in D : <<i, j>> \in less => <<j, i>> \notin less
  /\ \A i, j, k \in D : <<i, k>> \in less => <<i, j>> \in less \/ <<j, k>> \in less

(* t is s rearranged by the permutation p.                                 *)
Arranges(p, s, t) ==
  /\ Permutes(p, Len(s))
  /\ t = [k \in 1 .. Len(s) |-> s[p[k]]]

(* Sorting rearranges, and puts none before a smaller one.                 *)
LEMMA SortedRule ==
  ASSUME NEW C, NEW s \in Seq(C), NEW less, Weak(less, 1 .. Len(s))
  PROVE  \E p : /\ Arranges(p, s, Sorted(s, less))
                /\ \A k, l \in 1 .. Len(s) : k < l => <<p[l], p[k]>> \notin less
<1> DEFINE n == Len(s)
           b == {q \in (1 .. n) \X (1 .. n) : q \in less \/ (<<q[2], q[1]>> \notin less /\ q[1] < q[2])}
           place == PlaceIn(b, 1 .. n)
<1>1. n \in Nat /\ DOMAIN s = 1 .. n
  BY LenProperties
<1>2. \A i, j \in 1 .. n : <<i, j>> \in b <=> <<i, j>> \in less \/ (<<j, i>> \notin less /\ i < j)
  OBVIOUS
<1> HIDE DEF n
<1>3. Linear(b, 1 .. n)
  <2>1. \A i \in 1 .. n : <<i, i>> \notin b
    BY <1>2 DEF Weak, n
  <2>2. \A i, j \in 1 .. n : i # j => <<i, j>> \in b \/ <<j, i>> \in b
    <3> SUFFICES ASSUME NEW i \in 1 .. n, NEW j \in 1 .. n, i # j
                 PROVE  <<i, j>> \in b \/ <<j, i>> \in b
      OBVIOUS
    <3>1. i < j \/ j < i
      BY <1>1
    <3> QED
      BY <1>2, <3>1
  <2>3. \A i, j, k \in 1 .. n : <<i, j>> \in b /\ <<j, k>> \in b => <<i, k>> \in b
    <3> SUFFICES ASSUME NEW i \in 1 .. n, NEW j \in 1 .. n, NEW k \in 1 .. n,
                        <<i, j>> \in b, <<j, k>> \in b
                 PROVE  <<i, k>> \in b
      OBVIOUS
    <3>1. /\ <<i, j>> \in less \/ (<<j, i>> \notin less /\ i < j)
          /\ <<j, k>> \in less \/ (<<k, j>> \notin less /\ j < k)
      BY <1>2
    <3>2. /\ <<i, j>> \in less => <<j, i>> \notin less
          /\ <<j, k>> \in less => <<k, j>> \notin less
          /\ <<i, j>> \in less => <<i, k>> \in less \/ <<k, j>> \in less
          /\ <<j, k>> \in less => <<j, i>> \in less \/ <<i, k>> \in less
          /\ <<k, i>> \in less => <<k, j>> \in less \/ <<j, i>> \in less
      BY DEF Weak, n
    <3>3. i < j /\ j < k => i < k
      BY <1>1
    <3>4. <<i, k>> \in less \/ (<<k, i>> \notin less /\ i < k)
      BY <3>1, <3>2, <3>3
    <3> QED
      BY <1>2, <3>4
  <2> HIDE DEF b
  <2> QED
    BY <2>1, <2>2, <2>3 DEF Linear
<1>4. \A i \in 1 .. n :
        Below(b, 1 .. n, i) = {j \in 1 .. n : <<j, i>> \in less \/ (<<i, j>> \notin less /\ j < i)}
  BY <1>2 DEF Below
<1> HIDE DEF b
<1>5. /\ Permutes(place, n)
      /\ \A i, j \in 1 .. n : <<i, j>> \in b => place[i] < place[j]
  BY <1>1, <1>3, Ranked
<1>6. place = [i \in 1 .. n |->
        Cardinality({j \in 1 .. n : <<j, i>> \in less \/ (<<i, j>> \notin less /\ j < i)}) + 1]
  BY <1>4 DEF PlaceIn
<1> DEFINE p == [k \in 1 .. n |-> CHOOSE i \in 1 .. n : place[i] = k]
<1>7. Sorted(s, less) = [k \in 1 .. n |-> s[CHOOSE i \in 1 .. n : place[i] = k]]
  <2> DEFINE of(D) == [i \in D |->
               Cardinality({j \in D : <<j, i>> \in less \/ (<<i, j>> \notin less /\ j < i)}) + 1]
             sorted(D) == [k \in D |-> s[CHOOSE i \in D : of(D)[i] = k]]
  <2>1. Sorted(s, less) = sorted(DOMAIN s)
    BY DEF Sorted
  <2>2. place = of(1 .. n)
    BY <1>6
  <2>3. sorted(1 .. n) = [k \in 1 .. n |-> s[CHOOSE i \in 1 .. n : of(1 .. n)[i] = k]]
    OBVIOUS
  <2> HIDE DEF of, sorted, place
  <2> QED
    BY <1>1, <2>1, <2>2, <2>3
<1> HIDE DEF place
<1>8. \A k \in 1 .. n : p[k] \in 1 .. n /\ place[p[k]] = k
  BY <1>5 DEF Permutes
<1>9. \A i \in 1 .. n : place[i] \in 1 .. n /\ p[place[i]] = i
  BY <1>5, <1>8 DEF Permutes
<1>10. Sorted(s, less) = [k \in 1 .. n |-> s[p[k]]]
  BY <1>7
<1> HIDE DEF p
<1>11. p \in [1 .. n -> 1 .. n]
  BY <1>8 DEF p
<1>12. Permutes(p, n)
  BY <1>8, <1>9, <1>11 DEF Permutes
<1>13. ASSUME NEW k \in 1 .. n, NEW l \in 1 .. n, k < l, <<p[l], p[k]>> \in less
       PROVE  FALSE
  <2>1. p[l] \in 1 .. n /\ p[k] \in 1 .. n
    BY <1>8
  <2>2. <<p[l], p[k]>> \in b
    BY <1>2, <1>13, <2>1
  <2>3. place[p[l]] < place[p[k]]
    BY <1>5, <2>1, <2>2
  <2>4. l < k
    BY <1>8, <2>3
  <2> QED
    BY <1>1, <1>13, <2>4
<1> QED
  BY <1>10, <1>12, <1>13 DEF Arranges, n

-----------------------------------------------------------------------------
(* Folds.  A fold of the library is a recursive function on the subsets of *)
(* its argument.                                                           *)

Pick(s) == CHOOSE x \in s : TRUE

FoldsTo(X, x, step, S, g) ==
  /\ g \in [SUBSET S -> X]
  /\ \A s \in SUBSET S : g[s] = IF s = {} THEN x ELSE step[<<Pick(s), g[s \ {Pick(s)}]>>]

(* Every non-empty set of numbers has a least one.                         *)
LEMMA LeastNumber ==
  ASSUME NEW T \in SUBSET Nat, T # {}
  PROVE  \E x \in T : \A y \in T : x <= y
<1>1. PICK x \in T : \A y \in T : ~ (<<y, x>> \in OpToRel(<, Nat))
  BY WFMin, NatLessThanWellFounded, Zenon
<1>2. \A y \in T : y < x => <<y, x>> \in OpToRel(<, Nat)
  BY Zenon DEF OpToRel
<1>3. \A y \in T : ~(y < x)
  BY <1>1, <1>2, Zenon
<1> QED
  BY <1>3

(* Every non-empty family of subsets of a finite set has a least one.      *)
LEMMA LeastSet ==
  ASSUME NEW S, IsFiniteSet(S), NEW B \in SUBSET (SUBSET S), B # {}
  PROVE  \E T \in B : \A U \in B : U \subseteq T => U = T
<1>1. IsWellFoundedOn(StrictSubsetOrdering(S), SUBSET S)
  BY FS_StrictSubsetOrderingWellFounded, FS_FiniteSubsetsOfFinite
<1>2. PICK T \in B : \A U \in B : ~ (<<U, T>> \in StrictSubsetOrdering(S))
  BY <1>1, WFMin
<1>3. \A U \in B : U \subseteq T /\ U # T => <<U, T>> \in StrictSubsetOrdering(S)
  BY DEF StrictSubsetOrdering
<1>4. ASSUME NEW U \in B, U \subseteq T
      PROVE  U = T
  BY <1>2, <1>3, <1>4, Zenon
<1> QED
  BY <1>4

(* A set without one of its members.                                       *)
LEMMA Smaller ==
  ASSUME NEW S, IsFiniteSet(S), S # {}
  PROVE  /\ Pick(S) \in S
         /\ \A x \in S : /\ IsFiniteSet(S \ {x})
                         /\ Cardinality(S) \in Nat /\ Cardinality(S \ {x}) \in Nat
                         /\ Cardinality(S \ {x}) + 1 = Cardinality(S)
<1>1. Pick(S) \in S
  BY DEF Pick
<1>2. ASSUME NEW x \in S
      PROVE  /\ IsFiniteSet(S \ {x})
             /\ Cardinality(S) \in Nat /\ Cardinality(S \ {x}) \in Nat
             /\ Cardinality(S \ {x}) + 1 = Cardinality(S)
  <2>1. IsFiniteSet(S \ {x}) /\ Cardinality(S \ {x}) = Cardinality(S) - 1
    BY FS_RemoveElement
  <2> QED
    BY <2>1, FS_CardinalityType
<1> QED
  BY <1>1, <1>2

(* Every recursion over the subsets of a finite set has a function.        *)
LEMMA FoldExists ==
  ASSUME NEW S, IsFiniteSet(S), NEW X, NEW x \in X, NEW step \in [S \X X -> X]
  PROVE  \E g : FoldsTo(X, x, step, S, g)
<1> DEFINE Up(n) == {s \in SUBSET S : Cardinality(s) <= n}
           Good(n, g) == /\ g \in [Up(n) -> X]
                         /\ \A s \in Up(n) : g[s] = IF s = {} THEN x
                                                    ELSE step[<<Pick(s), g[s \ {Pick(s)}]>>]
           G == {n \in Nat : \E g : Good(n, g)}
<1>1. \A s \in SUBSET S : IsFiniteSet(s) /\ Cardinality(s) \in Nat
  BY FS_Subset, FS_CardinalityType
<1>2. 0 \in G
  <2> DEFINE g == [s \in Up(0) |-> x]
  <2>1. \A s \in Up(0) : s = {}
    BY <1>1, FS_EmptySet
  <2>2. Good(0, g)
    BY <2>1
  <2> QED
    BY <2>2
<1>3. ASSUME NEW n \in G
      PROVE  n + 1 \in G
  <2>1. PICK g : Good(n, g)
    OBVIOUS
  <2> DEFINE h == [s \in Up(n + 1) |-> IF s = {} THEN x ELSE step[<<Pick(s), g[s \ {Pick(s)}]>>]]
  <2>2. ASSUME NEW s \in Up(n + 1), s # {}
        PROVE  /\ Pick(s) \in S /\ s \ {Pick(s)} \in Up(n)
               /\ g[s \ {Pick(s)}] = h[s \ {Pick(s)}]
    <3> DEFINE r == s \ {Pick(s)}
    <3>1. /\ Pick(s) \in S /\ r \in SUBSET S
          /\ Cardinality(r) \in Nat /\ Cardinality(r) + 1 = Cardinality(s)
      BY <1>1, <2>2, Smaller
    <3>2. r \in Up(n) /\ r \in Up(n + 1)
      BY <1>1, <3>1
    <3> HIDE DEF r
    <3>3. g[r] = IF r = {} THEN x ELSE step[<<Pick(r), g[r \ {Pick(r)}]>>]
      BY <2>1, <3>2
    <3>4. h[r] = IF r = {} THEN x ELSE step[<<Pick(r), g[r \ {Pick(r)}]>>]
      BY <3>2
    <3>5. g[r] = h[r]
      BY <3>3, <3>4
    <3> QED
      BY <3>1, <3>2, <3>5 DEF r
  <2>3. \A s \in Up(n + 1) : h[s] = IF s = {} THEN x ELSE step[<<Pick(s), h[s \ {Pick(s)}]>>]
    <3> HIDE DEF Up
    <3> QED
      BY <2>2
  <2>4. h \in [Up(n + 1) -> X]
    <3> SUFFICES ASSUME NEW s \in Up(n + 1), s # {}
                 PROVE  step[<<Pick(s), g[s \ {Pick(s)}]>>] \in X
      OBVIOUS
    <3>1. g[s \ {Pick(s)}] \in X
      <4> HIDE DEF Up
      <4> QED
        BY <2>1, <2>2
    <3> QED
      BY <2>2, <3>1
  <2>5. Good(n + 1, h)
    BY <2>3, <2>4
  <2> HIDE DEF Good, h
  <2> QED
    BY <2>5
<1>4. G = Nat
  <2>1. G \in SUBSET Nat
    OBVIOUS
  <2> HIDE DEF G
  <2> QED
    BY <1>2, <1>3, <2>1, Induction
<1>5. PICK g : Good(Cardinality(S), g)
  <2> HIDE DEF Good
  <2>1. Cardinality(S) \in G
    BY <1>1, <1>4
  <2> QED
    BY <2>1
<1>6. Up(Cardinality(S)) = SUBSET S
  BY FS_Subset
<1> QED
  BY <1>5, <1>6, Zenon DEF FoldsTo

(* A sum of numbers is a number, and no less than any one of them.         *)
LEMMA TotalType ==
  ASSUME NEW D, NEW val \in [D -> Nat], NEW idxs \in Seq(D)
  PROVE  /\ Total(val, idxs) \in Nat
         /\ \A i \in DOMAIN idxs : Total(val, idxs) >= val[idxs[i]]
<1> DEFINE S == DOMAIN idxs
           Is(g) == g = [s \in SUBSET S |-> IF s = {} THEN 0
                                            ELSE g[s \ {Pick(s)}] + val[idxs[Pick(s)]]]
           step == [q \in S \X Nat |-> q[2] + val[idxs[q[1]]]]
           c == CHOOSE g : Is(g)
<1>1. IsFiniteSet(S) /\ \A i \in S : val[idxs[i]] \in Nat
  <2>1. S = 1 .. Len(idxs) /\ Len(idxs) \in Nat /\ \A i \in S : idxs[i] \in D
    OBVIOUS
  <2> QED
    BY <2>1, FS_Interval
<1>2. Total(val, idxs) = c[S]
  BY DEF Total, FoldSeq, FoldFunction, FoldFunctionOnSet, MapThenFoldSet, Pick
<1> HIDE DEF S
<1>3. Is(c)
  <2>1. step \in [S \X Nat -> Nat]
    BY <1>1
  <2>2. PICK g : FoldsTo(Nat, 0, step, S, g)
    <3> HIDE DEF step
    <3> QED
      BY <1>1, <2>1, FoldExists
  <2>3. ASSUME NEW s \in SUBSET S
        PROVE  g[s] = IF s = {} THEN 0 ELSE g[s \ {Pick(s)}] + val[idxs[Pick(s)]]
    <3>1. s # {} => Pick(s) \in S /\ s \ {Pick(s)} \in SUBSET S
      BY DEF Pick
    <3>2. s # {} => g[s \ {Pick(s)}] \in Nat
      BY <2>2, <3>1 DEF FoldsTo
    <3>3. s # {} => step[<<Pick(s), g[s \ {Pick(s)}]>>] = g[s \ {Pick(s)}] + val[idxs[Pick(s)]]
      BY <3>1, <3>2
    <3> HIDE DEF step
    <3> QED
      BY <2>2, <3>3 DEF FoldsTo
  <2>4. g = [s \in SUBSET S |-> g[s]]
    BY <2>2 DEF FoldsTo
  <2>5. Is(g)
    BY <2>3, <2>4
  <2> HIDE DEF Is
  <2> QED
    BY <2>5
<1> HIDE DEF c
<1>4. \A s \in SUBSET S : c[s] = IF s = {} THEN 0 ELSE c[s \ {Pick(s)}] + val[idxs[Pick(s)]]
  BY <1>3
<1>5. \A s \in SUBSET S : c[s] \in Nat
  <2> DEFINE B == {s \in SUBSET S : c[s] \notin Nat}
  <2> SUFFICES ASSUME B # {} PROVE FALSE
    OBVIOUS
  <2>1. PICK s \in B : \A u \in B : u \subseteq s => u = s
    <3>1. B \in SUBSET (SUBSET S)
      OBVIOUS
    <3> HIDE DEF B
    <3> QED
      BY <1>1, <3>1, LeastSet
  <2> DEFINE r == s \ {Pick(s)}
  <2>2. s # {} => Pick(s) \in s
    BY DEF Pick
  <2>3. s # {} => c[r] \in Nat /\ val[idxs[Pick(s)]] \in Nat
    BY <1>1, <2>1, <2>2
  <2>4. c[s] = IF s = {} THEN 0 ELSE c[r] + val[idxs[Pick(s)]]
    BY <1>4
  <2>5. c[s] \notin Nat
    OBVIOUS
  <2> HIDE DEF r
  <2> QED
    BY <2>3, <2>4, <2>5
<1>6. \A s \in SUBSET S : \A i \in s : c[s] >= val[idxs[i]]
  <2> DEFINE B == {s \in SUBSET S : \E i \in s : ~(c[s] >= val[idxs[i]])}
  <2> SUFFICES ASSUME B # {} PROVE FALSE
    OBVIOUS
  <2>1. PICK s \in B : \A u \in B : u \subseteq s => u = s
    <3>1. B \in SUBSET (SUBSET S)
      OBVIOUS
    <3> HIDE DEF B
    <3> QED
      BY <1>1, <3>1, LeastSet
  <2>2. PICK i \in s : ~(c[s] >= val[idxs[i]])
    BY <2>1
  <2>3. PICK x, r : x = Pick(s) /\ r = s \ {x}
    OBVIOUS
  <2>4. x \in s /\ s \in SUBSET S
    BY <2>1, <2>2, <2>3 DEF Pick
  <2>5. r \in SUBSET S /\ r \subseteq s /\ r # s
    BY <2>3, <2>4
  <2>6. \A j \in r : c[r] >= val[idxs[j]]
    BY <2>1, <2>5
  <2>7. c[s] = c[r] + val[idxs[x]]
    BY <1>4, <2>3, <2>4, Zenon
  <2>8. PICK a \in Nat, b \in Nat, d \in Nat : a = c[r] /\ b = val[idxs[x]] /\ d = val[idxs[i]]
    BY <1>1, <1>5, <2>4, <2>5
  <2>9. a >= d \/ b = d
    <3>1. i = x \/ i \in r
      BY <2>3
    <3> QED
      BY <2>6, <2>8, <3>1
  <2> QED
    BY <2>2, <2>7, <2>8, <2>9
<1> QED
  BY <1>2, <1>5, <1>6 DEF S

-----------------------------------------------------------------------------
(* The Karmarkar-Karp partition.  A state has k sets of the items up to n. *)

StatesOf(n, k) == [1 .. k -> Nat \X Seq(1 .. n)]

(* Where a state has its items: the place in a set, and the set.           *)
Slots(x, k) == {q \in (1 .. k) \X Nat : q[2] \in 1 .. Len(x[q[1]][2])}
Held(x, q) == x[q[1]][2][q[2]]

(* The empty sets are the last ones, and as long as there is one no set    *)
(* has two items; the sets are equally large if they were at first.        *)
StateInv(x, n, k, even) ==
  /\ x \in StatesOf(n, k)
  /\ \A a \in 1 .. k : x[a][2] = <<>> => x[a][1] = 0
  /\ Slots(x, k) # {}
  /\ \A a, c \in 1 .. k : a < c /\ x[a][2] = <<>> => x[c][2] = <<>>
  /\ \A a, c \in 1 .. k : x[a][2] = <<>> => Len(x[c][2]) <= 1
  /\ even => \A a, c \in 1 .. k : Len(x[a][2]) = Len(x[c][2])

(* Every item is in one state, in one place.                               *)
Family(S, n, k, even) ==
  /\ IsFiniteSet(S)
  /\ \A x \in S : StateInv(x, n, k, even)
  /\ \A i \in 1 .. n : \E x \in S : \E q \in Slots(x, k) : Held(x, q) = i
  /\ \A x, y \in S : \A q \in Slots(x, k), r \in Slots(y, k) :
       Held(x, q) = Held(y, r) => x = y /\ q = r

LEMMA SlotRule ==
  ASSUME NEW x, NEW k
  PROVE  \A a \in 1 .. k, b \in Nat :
           /\ <<a, b>> \in Slots(x, k) <=> b \in 1 .. Len(x[a][2])
           /\ Held(x, <<a, b>>) = x[a][2][b]
BY DEF Slots, Held

LEMMA SlotOf ==
  ASSUME NEW x, NEW k, NEW q \in Slots(x, k)
  PROVE  \E a \in 1 .. k, b \in Nat : q = <<a, b>> /\ b \in 1 .. Len(x[a][2])
BY DEF Slots

LEMMA SetTypes ==
  ASSUME NEW n, NEW k \in Nat, NEW x \in StatesOf(n, k)
  PROVE  /\ x \in Seq(Nat \X Seq(1 .. n)) /\ Len(x) = k /\ DOMAIN x = 1 .. k
         /\ \A a \in 1 .. k : /\ x[a] \in Nat \X Seq(1 .. n) /\ x[a][1] \in Nat
                              /\ x[a][2] \in Seq(1 .. n) /\ Len(x[a][2]) \in Nat
                              /\ x[a] = <<x[a][1], x[a][2]>>
                              /\ \A b \in 1 .. Len(x[a][2]) : x[a][2][b] \in 1 .. n
<1>1. \A a \in 1 .. k : x[a] \in Nat \X Seq(1 .. n)
  BY DEF StatesOf
<1>2. x \in Seq(Nat \X Seq(1 .. n)) /\ Len(x) = k /\ DOMAIN x = 1 .. k
  BY DEF StatesOf
<1>3. ASSUME NEW a \in 1 .. k
      PROVE  /\ x[a][1] \in Nat /\ x[a][2] \in Seq(1 .. n) /\ Len(x[a][2]) \in Nat
             /\ x[a] = <<x[a][1], x[a][2]>>
             /\ \A b \in 1 .. Len(x[a][2]) : x[a][2][b] \in 1 .. n
  <2>1. x[a][1] \in Nat /\ x[a][2] \in Seq(1 .. n) /\ x[a] = <<x[a][1], x[a][2]>>
    BY <1>1
  <2> QED
    BY <2>1, LenProperties, ElementOfSeq
<1> QED
  BY <1>1, <1>2, <1>3

LEMMA FirstType ==
  ASSUME NEW n, NEW s \in Seq(1 .. n)
  PROVE  First(s) \in Int
<1>1. CASE s = <<>>
  BY <1>1 DEF First
<1>2. CASE s # <<>>
  <2>1. 1 \in 1 .. Len(s)
    <3>1. Len(s) \in Nat /\ Len(s) # 0
      BY <1>2, EmptySeq, LenProperties
    <3> QED
      BY <3>1
  <2>2. s[1] \in 1 .. n
    BY <2>1, ElementOfSeq
  <2> QED
    BY <1>2, <2>2 DEF First
<1> QED
  BY <1>1, <1>2

(* Sets are compared in lexicographic order.                               *)
LEMMA SetOrder ==
  ASSUME NEW n, NEW s \in Nat \X Seq(1 .. n), NEW t \in Nat \X Seq(1 .. n), NEW u \in Nat \X Seq(1 .. n)
  PROVE  /\ SetLess(s, t) => ~SetLess(t, s)
         /\ SetLess(s, u) => SetLess(s, t) \/ SetLess(t, u)
         /\ SetLess(s, t) /\ SetLess(t, u) => SetLess(s, u)
<1>1. /\ s[1] \in Nat /\ t[1] \in Nat /\ u[1] \in Nat
      /\ s[2] \in Seq(1 .. n) /\ t[2] \in Seq(1 .. n) /\ u[2] \in Seq(1 .. n)
  OBVIOUS
<1>2. /\ Len(s[2]) \in Nat /\ Len(t[2]) \in Nat /\ Len(u[2]) \in Nat
      /\ First(s[2]) \in Int /\ First(t[2]) \in Int /\ First(u[2]) \in Int
  BY <1>1, LenProperties, FirstType
<1>a. PICK a, b, c \in Int : a = s[1] /\ b = Len(s[2]) /\ c = First(s[2])
  BY <1>1, <1>2
<1>b. PICK d, e, f \in Int : d = t[1] /\ e = Len(t[2]) /\ f = First(t[2])
  BY <1>1, <1>2
<1>3. PICK x, y, z \in Int : x = u[1] /\ y = Len(u[2]) /\ z = First(u[2])
  BY <1>1, <1>2
<1>4. /\ SetLess(s, t) <=> a < d \/ (a = d /\ b < e) \/ (a = d /\ b = e /\ c < f)
      /\ SetLess(t, s) <=> d < a \/ (d = a /\ e < b) \/ (d = a /\ e = b /\ f < c)
      /\ SetLess(s, u) <=> a < x \/ (a = x /\ b < y) \/ (a = x /\ b = y /\ c < z)
      /\ SetLess(t, u) <=> d < x \/ (d = x /\ e < y) \/ (d = x /\ e = y /\ f < z)
  BY <1>a, <1>b, <1>3 DEF SetLess
<1> QED
  BY <1>4

(* The sets of a state are put in decreasing order.                        *)
LEMMA DecreasingRule ==
  ASSUME NEW n, NEW k \in Nat, NEW x \in StatesOf(n, k)
  PROVE  \E p : /\ Permutes(p, k)
                /\ Decreasing(x) = [a \in 1 .. k |-> x[p[a]]]
                /\ \A a, c \in 1 .. k : a < c => ~SetLess(x[p[a]], x[p[c]])
<1> DEFINE less == {q \in Pairs(x) : SetLess(x[q[2]], x[q[1]])}
<1>1. x \in Seq(Nat \X Seq(1 .. n)) /\ Len(x) = k /\ DOMAIN x = 1 .. k
  BY SetTypes
<1>2. \A a \in 1 .. k : x[a] \in Nat \X Seq(1 .. n)
  BY SetTypes
<1>3. \A i, j \in 1 .. k : <<i, j>> \in less <=> SetLess(x[j], x[i])
  BY <1>1 DEF Pairs
<1> HIDE DEF less
<1>4. Weak(less, 1 .. k)
  <2>1. \A i, j \in 1 .. k : <<i, j>> \in less => <<j, i>> \notin less
    BY <1>2, <1>3, SetOrder
  <2>2. \A i, j, l \in 1 .. k : <<i, l>> \in less => <<i, j>> \in less \/ <<j, l>> \in less
    BY <1>2, <1>3, SetOrder
  <2> QED
    BY <2>1, <2>2 DEF Weak
<1>5. PICK p : /\ Arranges(p, x, Sorted(x, less))
               /\ \A a, c \in 1 .. k : a < c => <<p[c], p[a]>> \notin less
  BY <1>1, <1>4, SortedRule
<1>6. Permutes(p, k) /\ Sorted(x, less) = [a \in 1 .. k |-> x[p[a]]]
  BY <1>1, <1>5 DEF Arranges
<1>7. Decreasing(x) = Sorted(x, less)
  BY DEF Decreasing, less
<1>8. \A a, c \in 1 .. k : a < c => ~SetLess(x[p[a]], x[p[c]])
  BY <1>3, <1>5, <1>6 DEF Permutes
<1> QED
  BY <1>6, <1>7, <1>8

(* Sorting the sets of a state leaves the empty ones last.                 *)
LEMMA DecreasingState ==
  ASSUME NEW n, NEW k \in Nat, NEW even \in BOOLEAN, NEW x \in StatesOf(n, k),
         \A a \in 1 .. k : x[a][2] = <<>> => x[a][1] = 0,
         Slots(x, k) # {},
         \A a, c \in 1 .. k : x[a][2] = <<>> => Len(x[c][2]) <= 1,
         even => \A a, c \in 1 .. k : Len(x[a][2]) = Len(x[c][2])
  PROVE  /\ StateInv(Decreasing(x), n, k, even)
         /\ \A q \in Slots(x, k) : \E r \in Slots(Decreasing(x), k) : Held(Decreasing(x), r) = Held(x, q)
         /\ \A r \in Slots(Decreasing(x), k) : \E q \in Slots(x, k) : Held(Decreasing(x), r) = Held(x, q)
         /\ (\A q, r \in Slots(x, k) : Held(x, q) = Held(x, r) => q = r) =>
              \A q, r \in Slots(Decreasing(x), k) :
                Held(Decreasing(x), q) = Held(Decreasing(x), r) => q = r
<1> DEFINE z == Decreasing(x)
<1>1. PICK p : /\ Permutes(p, k) /\ z = [a \in 1 .. k |-> x[p[a]]]
               /\ \A a, c \in 1 .. k : a < c => ~SetLess(x[p[a]], x[p[c]])
  BY DecreasingRule
<1> HIDE DEF z
<1>2. \A a \in 1 .. k : p[a] \in 1 .. k /\ z[a] = x[p[a]]
  BY <1>1 DEF Permutes
<1>3. \A a \in 1 .. k : \E c \in 1 .. k : p[c] = a
  BY <1>1 DEF Permutes
<1>4. z \in StatesOf(n, k)
  BY <1>1, <1>2 DEF StatesOf
<1>s. \A a \in 1 .. k, b \in Nat : /\ <<a, b>> \in Slots(z, k) <=> b \in 1 .. Len(z[a][2])
                                   /\ Held(z, <<a, b>>) = z[a][2][b]
  BY DEF Slots, Held
<1>5. ASSUME NEW q \in Slots(x, k)
      PROVE  \E r \in Slots(z, k) : Held(z, r) = Held(x, q)
  <2>1. PICK a \in 1 .. k, b \in Nat : q = <<a, b>> /\ b \in 1 .. Len(x[a][2])
    BY SlotOf
  <2>2. PICK c \in 1 .. k : p[c] = a
    BY <1>3
  <2>3. z[c] = x[a]
    BY <1>2, <2>2
  <2>c. b \in 1 .. Len(z[c][2]) /\ z[c][2][b] = x[a][2][b]
    BY <2>1, <2>3
  <2>4. <<c, b>> \in Slots(z, k) /\ Held(z, <<c, b>>) = x[a][2][b]
    BY <2>c, <1>s
  <2>5. Held(x, q) = x[a][2][b]
    BY <2>1, SlotRule
  <2> QED
    BY <2>4, <2>5
<1>6. ASSUME NEW r \in Slots(z, k)
      PROVE  \E a \in 1 .. k, b \in Nat : /\ r = <<a, b>> /\ <<p[a], b>> \in Slots(x, k)
                                          /\ Held(z, r) = Held(x, <<p[a], b>>)
  <2>1. PICK a \in 1 .. k, b \in Nat : r = <<a, b>> /\ b \in 1 .. Len(z[a][2])
    BY SlotOf
  <2>2. z[a] = x[p[a]] /\ p[a] \in 1 .. k
    BY <1>2
  <2>3. <<p[a], b>> \in Slots(x, k) /\ Held(x, <<p[a], b>>) = x[p[a]][2][b]
    BY <2>1, <2>2, SlotRule
  <2>4. Held(z, r) = z[a][2][b]
    BY <2>1, <1>s
  <2> QED
    BY <2>1, <2>2, <2>3, <2>4
<1>7. ASSUME \A q, r \in Slots(x, k) : Held(x, q) = Held(x, r) => q = r,
             NEW q \in Slots(z, k), NEW r \in Slots(z, k), Held(z, q) = Held(z, r)
      PROVE  q = r
  <2>1. PICK a \in 1 .. k, b \in Nat : /\ q = <<a, b>> /\ <<p[a], b>> \in Slots(x, k)
                                       /\ Held(z, q) = Held(x, <<p[a], b>>)
    BY <1>6
  <2>2. PICK c \in 1 .. k, d \in Nat : /\ r = <<c, d>> /\ <<p[c], d>> \in Slots(x, k)
                                       /\ Held(z, r) = Held(x, <<p[c], d>>)
    BY <1>6
  <2>3. <<p[a], b>> = <<p[c], d>>
    BY <1>7, <2>1, <2>2
  <2>4. p[a] = p[c] /\ b = d
    BY <2>3
  <2>5. a = c
    BY <1>1, <2>4 DEF Permutes
  <2> QED
    BY <2>1, <2>2, <2>4, <2>5
<1>8. \A a \in 1 .. k : z[a][2] = <<>> => z[a][1] = 0
  BY <1>2
<1>9. Slots(z, k) # {}
  BY <1>5
<1>10. ASSUME NEW a \in 1 .. k, NEW c \in 1 .. k, a < c, z[a][2] = <<>>
       PROVE  z[c][2] = <<>>
  <2>1. ~SetLess(z[a], z[c])
    BY <1>1, <1>2, <1>10
  <2>2. z[a][1] = 0 /\ Len(z[a][2]) = 0
    BY <1>8, <1>10, EmptySeq
  <2>3. z[c][1] \in Nat /\ z[c][2] \in Seq(1 .. n) /\ Len(z[c][2]) \in Nat
    BY <1>4, SetTypes
  <2>4. Len(z[c][2]) = 0
    BY <2>1, <2>2, <2>3 DEF SetLess
  <2> QED
    BY <2>3, <2>4, EmptySeq
<1>11. \A a, c \in 1 .. k : z[a][2] = <<>> => Len(z[c][2]) <= 1
  BY <1>2
<1>12. ASSUME even, NEW a \in 1 .. k, NEW c \in 1 .. k
       PROVE  Len(z[a][2]) = Len(z[c][2])
  <2>1. p[a] \in 1 .. k /\ p[c] \in 1 .. k /\ z[a] = x[p[a]] /\ z[c] = x[p[c]]
    BY <1>2
  <2>2. Len(x[p[a]][2]) = Len(x[p[c]][2])
    BY <1>12, <2>1, Zenon
  <2> QED
    BY <2>1, <2>2
<1>13. StateInv(z, n, k, even)
  BY <1>4, <1>8, <1>9, <1>10, <1>11, <1>12 DEF StateInv
<1>14. \A r \in Slots(z, k) : \E q \in Slots(x, k) : Held(z, r) = Held(x, q)
  BY <1>6
<1> QED
  BY <1>5, <1>7, <1>13, <1>14 DEF z

(* Two states of different items are merged to one of all of them.         *)
Apart(x, y, k) ==
  /\ \A q, r \in Slots(x, k) : Held(x, q) = Held(x, r) => q = r
  /\ \A q, r \in Slots(y, k) : Held(y, q) = Held(y, r) => q = r
  /\ \A q \in Slots(x, k), r \in Slots(y, k) : Held(x, q) # Held(y, r)

Joined(z, x, y, k) ==
  /\ \A q \in Slots(x, k) : \E r \in Slots(z, k) : Held(z, r) = Held(x, q)
  /\ \A q \in Slots(y, k) : \E r \in Slots(z, k) : Held(z, r) = Held(y, q)
  /\ \A r \in Slots(z, k) : \/ \E q \in Slots(x, k) : Held(z, r) = Held(x, q)
                            \/ \E q \in Slots(y, k) : Held(z, r) = Held(y, q)
  /\ \A q, r \in Slots(z, k) : Held(z, q) = Held(z, r) => q = r

(* The largest set of one with the smallest of the other.                  *)
Facing(k, a) == (k + 1) - a
Crossed(x, y, k) ==
  [i \in 1 .. k |-> <<x[i][1] + y[Facing(k, i)][1], x[i][2] \o y[Facing(k, i)][2]>>]

LEMMA FacingRule ==
  ASSUME NEW k \in Nat
  PROVE  /\ \A a \in 1 .. k : Facing(k, a) \in 1 .. k /\ Facing(k, Facing(k, a)) = a
         /\ \A a, c \in 1 .. k : c < a => Facing(k, a) < Facing(k, c)
BY DEF Facing

CrossedAt(m, x, y, k, a) ==
  /\ m[a][1] = x[a][1] + y[Facing(k, a)][1]
  /\ Len(m[a][2]) = Len(x[a][2]) + Len(y[Facing(k, a)][2])
  /\ \A b \in 1 .. Len(x[a][2]) : m[a][2][b] = x[a][2][b]
  /\ \A b \in 1 .. Len(y[Facing(k, a)][2]) : m[a][2][Len(x[a][2]) + b] = y[Facing(k, a)][2][b]

LEMMA CrossedItems ==
  ASSUME NEW n, NEW k \in Nat, NEW x \in StatesOf(n, k), NEW y \in StatesOf(n, k)
  PROVE  \A a \in 1 .. k : /\ Crossed(x, y, k)[a] \in Nat \X Seq(1 .. n)
                           /\ CrossedAt(Crossed(x, y, k), x, y, k, a)
<1> DEFINE m == Crossed(x, y, k)
<1> SUFFICES ASSUME NEW a \in 1 .. k
             PROVE  m[a] \in Nat \X Seq(1 .. n) /\ CrossedAt(m, x, y, k, a)
  OBVIOUS
<1>1. PICK c \in 1 .. k : c = Facing(k, a)
  BY FacingRule
<1>2. m[a] = <<x[a][1] + y[c][1], x[a][2] \o y[c][2]>>
  BY <1>1 DEF Crossed
<1> HIDE DEF m
<1>3. /\ x[a][1] \in Nat /\ x[a][2] \in Seq(1 .. n) /\ Len(x[a][2]) \in Nat
      /\ y[c][1] \in Nat /\ y[c][2] \in Seq(1 .. n) /\ Len(y[c][2]) \in Nat
  BY <1>1, SetTypes
<1>5. PICK s, t, st : /\ s \in Seq(1 .. n) /\ t \in Seq(1 .. n)
                      /\ s = x[a][2] /\ t = y[c][2] /\ st = s \o t
  BY <1>3
<1>w. PICK w \in Nat : w = x[a][1] + y[c][1]
  BY <1>3
<1>4. m[a] = <<w, st>>
  BY <1>2, <1>5, <1>w, Zenon
<1>l. Len(s) \in Nat /\ Len(t) \in Nat
  BY <1>5, LenProperties
<1>6. /\ st \in Seq(1 .. n)
      /\ Len(st) = Len(s) + Len(t)
      /\ \A i \in 1 .. Len(s) + Len(t) : st[i] = IF i <= Len(s) THEN s[i] ELSE t[i - Len(s)]
  BY <1>5, ConcatProperties
<1>7. m[a] \in Nat \X Seq(1 .. n)
  BY <1>4, <1>6
<1>8. \A b \in 1 .. Len(s) : st[b] = s[b]
  <2> SUFFICES ASSUME NEW b \in 1 .. Len(s) PROVE st[b] = s[b]
    OBVIOUS
  <2>1. b \in 1 .. Len(s) + Len(t) /\ b <= Len(s)
    BY <1>l
  <2> QED
    BY <1>6, <2>1
<1>9. \A b \in 1 .. Len(t) : st[Len(s) + b] = t[b]
  <2> SUFFICES ASSUME NEW b \in 1 .. Len(t) PROVE st[Len(s) + b] = t[b]
    OBVIOUS
  <2>1. Len(s) + b \in 1 .. Len(s) + Len(t) /\ ~(Len(s) + b <= Len(s)) /\ (Len(s) + b) - Len(s) = b
    BY <1>l
  <2> QED
    BY <1>6, <2>1
<1>10. m[a][1] = w /\ m[a][2] = st
  BY <1>4
<1>11. /\ m[a][1] = x[a][1] + y[c][1]
       /\ Len(m[a][2]) = Len(s) + Len(t)
       /\ \A b \in 1 .. Len(s) : m[a][2][b] = s[b]
       /\ \A b \in 1 .. Len(t) : m[a][2][Len(s) + b] = t[b]
  BY <1>w, <1>6, <1>8, <1>9, <1>10
<1>12. CrossedAt(m, x, y, k, a)
  <2>1. s = x[a][2] /\ t = y[Facing(k, a)][2] /\ c = Facing(k, a)
    BY <1>1, <1>5
  <2> QED
    BY <1>11, <2>1 DEF CrossedAt
<1> QED
  BY <1>7, <1>12

(* An item of the crossed sets comes from the one or the other.            *)
ItemFrom(m, x, y, k, a, b) ==
  \/ b \in 1 .. Len(x[a][2]) /\ m[a][2][b] = x[a][2][b]
  \/ \E d \in 1 .. Len(y[Facing(k, a)][2]) :
       b = Len(x[a][2]) + d /\ m[a][2][b] = y[Facing(k, a)][2][d]

LEMMA CrossedFrom ==
  ASSUME NEW n, NEW k \in Nat, NEW x \in StatesOf(n, k), NEW y \in StatesOf(n, k)
  PROVE  \A a \in 1 .. k : \A b \in 1 .. Len(Crossed(x, y, k)[a][2]) :
           ItemFrom(Crossed(x, y, k), x, y, k, a, b)
<1> DEFINE m == Crossed(x, y, k)
<1> SUFFICES ASSUME NEW a \in 1 .. k, NEW b \in 1 .. Len(m[a][2])
             PROVE  ItemFrom(m, x, y, k, a, b)
  OBVIOUS
<1>0. CrossedAt(m, x, y, k, a)
  BY CrossedItems
<1> HIDE DEF m
<1>1. /\ Len(m[a][2]) = Len(x[a][2]) + Len(y[Facing(k, a)][2])
      /\ \A i \in 1 .. Len(x[a][2]) : m[a][2][i] = x[a][2][i]
      /\ \A i \in 1 .. Len(y[Facing(k, a)][2]) : m[a][2][Len(x[a][2]) + i] = y[Facing(k, a)][2][i]
  BY <1>0 DEF CrossedAt
<1>2. Len(x[a][2]) \in Nat /\ Len(y[Facing(k, a)][2]) \in Nat
  BY FacingRule, SetTypes
<1>4. PICK u, v \in Nat : u = Len(x[a][2]) /\ v = Len(y[Facing(k, a)][2])
  BY <1>2
<1>3. b \in 1 .. u + v
  BY <1>1, <1>4
<1>5. CASE b <= u
  <2>1. b \in 1 .. Len(x[a][2])
    BY <1>3, <1>4, <1>5
  <2> QED
    BY <1>1, <2>1 DEF ItemFrom
<1>6. CASE ~(b <= u)
  <2>1. b - u \in 1 .. v /\ b = u + (b - u)
    BY <1>3, <1>6
  <2>2. PICK d \in 1 .. v : b = u + d
    BY <2>1
  <2> QED
    BY <1>1, <1>4, <2>2 DEF ItemFrom
<1> QED
  BY <1>5, <1>6

(* What a state keeps when it is crossed with another.                     *)
Unordered(m, n, k, even) ==
  /\ m \in StatesOf(n, k)
  /\ \A a \in 1 .. k : m[a][2] = <<>> => m[a][1] = 0
  /\ Slots(m, k) # {}
  /\ \A a, c \in 1 .. k : m[a][2] = <<>> => Len(m[c][2]) <= 1
  /\ even => \A a, c \in 1 .. k : Len(m[a][2]) = Len(m[c][2])

LEMMA CrossedState ==
  ASSUME NEW n, NEW k \in Nat, NEW even \in BOOLEAN, NEW x, NEW y,
         StateInv(x, n, k, even), StateInv(y, n, k, even)
  PROVE  Unordered(Crossed(x, y, k), n, k, even)
<1> DEFINE m == Crossed(x, y, k)
           R(a) == Facing(k, a)
<1>0. x \in StatesOf(n, k) /\ y \in StatesOf(n, k)
  BY DEF StateInv
<1>r. \A a \in 1 .. k : R(a) \in 1 .. k
  BY FacingRule
<1>o. \A a, c \in 1 .. k : c < a => R(a) < R(c)
  BY FacingRule
<1>1. ASSUME NEW a \in 1 .. k
      PROVE  /\ m[a] \in Nat \X Seq(1 .. n)
             /\ m[a][1] = x[a][1] + y[R(a)][1]
             /\ Len(m[a][2]) = Len(x[a][2]) + Len(y[R(a)][2])
  <2>1. m[a] \in Nat \X Seq(1 .. n) /\ CrossedAt(m, x, y, k, a)
    BY <1>0, CrossedItems
  <2> HIDE DEF m
  <2> QED
    BY <2>1 DEF CrossedAt
<1>m. m \in StatesOf(n, k)
  <2>1. m = [i \in 1 .. k |-> m[i]]
    BY DEF Crossed
  <2> HIDE DEF m
  <2> QED
    BY <1>1, <2>1 DEF StatesOf
<1> HIDE DEF m, R
<1>2. ASSUME NEW a \in 1 .. k
      PROVE  /\ x[a][1] \in Nat /\ y[R(a)][1] \in Nat
             /\ Len(x[a][2]) \in Nat /\ Len(y[R(a)][2]) \in Nat
             /\ Len(x[a][2]) = 0 <=> x[a][2] = <<>>
             /\ Len(y[R(a)][2]) = 0 <=> y[R(a)][2] = <<>>
             /\ Len(m[a][2]) = 0 <=> m[a][2] = <<>>
  <2>2. x[a][2] \in Seq(1 .. n) /\ y[R(a)][2] \in Seq(1 .. n) /\ m[a][2] \in Seq(1 .. n)
    BY <1>0, <1>r, <1>m, SetTypes
  <2>3. x[a][1] \in Nat /\ y[R(a)][1] \in Nat
    BY <1>0, <1>r, SetTypes
  <2> QED
    BY <2>2, <2>3, EmptySeq, LenProperties
<1>3. ASSUME NEW a \in 1 .. k, m[a][2] = <<>>
      PROVE  x[a][2] = <<>> /\ y[R(a)][2] = <<>>
  <2>1. PICK u, v \in Nat : u = Len(x[a][2]) /\ v = Len(y[R(a)][2])
    BY <1>2
  <2>2. u + v = 0
    BY <1>1, <1>2, <1>3, <2>1
  <2>3. u = 0 /\ v = 0
    BY <2>2
  <2> QED
    BY <1>2, <2>1, <2>3
<1>4. ASSUME NEW a \in 1 .. k, m[a][2] = <<>>
      PROVE  m[a][1] = 0
  <2>1. x[a][2] = <<>> /\ y[R(a)][2] = <<>> /\ R(a) \in 1 .. k
    BY <1>r, <1>3, <1>4
  <2>2. x[a][1] = 0 /\ y[R(a)][1] = 0
    BY <2>1 DEF StateInv
  <2>3. m[a][1] = 0 + 0
    BY <1>1, <2>2
  <2> QED
    BY <2>3
<1>5. Slots(m, k) # {}
  <2>1. PICK q \in Slots(x, k) : TRUE
    BY DEF StateInv
  <2>2. PICK a \in 1 .. k, b \in Nat : b \in 1 .. Len(x[a][2])
    BY <2>1 DEF Slots
  <2>3. PICK u, v \in Nat : u = Len(x[a][2]) /\ v = Len(y[R(a)][2])
    BY <1>2
  <2>4. Len(m[a][2]) = u + v /\ b \in 1 .. u
    BY <1>1, <2>2, <2>3
  <2>5. b \in 1 .. Len(m[a][2])
    BY <2>4
  <2>6. <<a, b>> \in Slots(m, k)
    BY <2>5 DEF Slots
  <2> QED
    BY <2>6
<1>6. ASSUME NEW a \in 1 .. k, NEW c \in 1 .. k, m[a][2] = <<>>
      PROVE  Len(m[c][2]) <= 1
  <2>1. x[a][2] = <<>> /\ y[R(a)][2] = <<>> /\ R(a) \in 1 .. k /\ R(c) \in 1 .. k
    BY <1>r, <1>3, <1>6
  <2>2. Len(x[c][2]) <= 1 /\ Len(y[R(c)][2]) <= 1
    BY <2>1 DEF StateInv
  <2>3. a < c => x[c][2] = <<>>
    BY <2>1 DEF StateInv
  <2>4. c < a => y[R(c)][2] = <<>>
    <3>1. c < a => R(a) < R(c)
      BY <1>o
    <3> QED
      BY <2>1, <3>1 DEF StateInv
  <2>5. PICK u, v \in Nat : u = Len(x[c][2]) /\ v = Len(y[R(c)][2])
    BY <1>2
  <2>6. Len(m[c][2]) = u + v
    BY <1>1, <2>5
  <2>7. CASE a = c
    <3>1. Len(m[c][2]) = 0
      BY <1>2, <1>6, <2>7
    <3> QED
      BY <3>1
  <2>8. CASE a < c
    <3>1. u = 0 /\ v <= 1
      BY <1>2, <2>2, <2>3, <2>5, <2>8
    <3>2. u + v <= 1
      BY <3>1
    <3> QED
      BY <2>6, <3>2
  <2>9. CASE c < a
    <3>1. v = 0 /\ u <= 1
      BY <1>2, <2>2, <2>4, <2>5, <2>9
    <3>2. u + v <= 1
      BY <3>1
    <3> QED
      BY <2>6, <3>2
  <2>10. a < c \/ c < a \/ a = c
    OBVIOUS
  <2> QED
    BY <2>7, <2>8, <2>9, <2>10
<1>7. ASSUME even, NEW a \in 1 .. k, NEW c \in 1 .. k
      PROVE  Len(m[a][2]) = Len(m[c][2])
  <2>1. R(a) \in 1 .. k /\ R(c) \in 1 .. k
    BY <1>r
  <2>2. Len(x[a][2]) = Len(x[c][2]) /\ Len(y[R(a)][2]) = Len(y[R(c)][2])
    BY <1>7, <2>1, Zenon DEF StateInv
  <2>3. Len(m[a][2]) = Len(x[a][2]) + Len(y[R(a)][2]) /\ Len(m[c][2]) = Len(x[c][2]) + Len(y[R(c)][2])
    BY <1>1
  <2> QED
    BY <2>2, <2>3, Zenon
<1>8. Unordered(m, n, k, even)
  BY <1>m, <1>4, <1>5, <1>6, <1>7 DEF Unordered
<1> QED
  BY <1>8 DEF m

LEMMA CrossedJoined ==
  ASSUME NEW n, NEW k \in Nat, NEW x \in StatesOf(n, k), NEW y \in StatesOf(n, k), Apart(x, y, k)
  PROVE  Joined(Crossed(x, y, k), x, y, k)
<1> DEFINE m == Crossed(x, y, k)
           R(a) == Facing(k, a)
<1>0. \A a \in 1 .. k : CrossedAt(m, x, y, k, a)
  BY CrossedItems
<1>f. \A a \in 1 .. k : \A b \in 1 .. Len(m[a][2]) : ItemFrom(m, x, y, k, a, b)
  BY CrossedFrom
<1> HIDE DEF m
<1>1. \A a \in 1 .. k :
        /\ Len(m[a][2]) = Len(x[a][2]) + Len(y[R(a)][2])
        /\ \A b \in 1 .. Len(x[a][2]) : m[a][2][b] = x[a][2][b]
        /\ \A b \in 1 .. Len(y[R(a)][2]) : m[a][2][Len(x[a][2]) + b] = y[R(a)][2][b]
  BY <1>0 DEF CrossedAt
<1>r. \A a \in 1 .. k : R(a) \in 1 .. k
  BY FacingRule
<1>3. \A a \in 1 .. k : R(R(a)) = a
  BY FacingRule
<1>4. ASSUME NEW a \in 1 .. k, NEW b \in 1 .. Len(m[a][2])
      PROVE  \/ b \in 1 .. Len(x[a][2]) /\ m[a][2][b] = x[a][2][b]
             \/ \E d \in 1 .. Len(y[R(a)][2]) : b = Len(x[a][2]) + d /\ m[a][2][b] = y[R(a)][2][d]
  BY <1>f DEF ItemFrom
<1> HIDE DEF R
<1>2. \A a \in 1 .. k : Len(x[a][2]) \in Nat /\ Len(y[R(a)][2]) \in Nat
  BY <1>r, SetTypes
<1>5. \A z : \A q \in Slots(z, k) :
        \E a \in 1 .. k, b \in Nat : q = <<a, b>> /\ b \in 1 .. Len(z[a][2]) /\ Held(z, q) = z[a][2][b]
  BY DEF Slots, Held
<1>6. \A z : \A a \in 1 .. k : \A b \in Nat :
        b \in 1 .. Len(z[a][2]) => <<a, b>> \in Slots(z, k) /\ Held(z, <<a, b>>) = z[a][2][b]
  BY DEF Slots, Held
<1>7. ASSUME NEW q \in Slots(x, k)
      PROVE  \E r \in Slots(m, k) : Held(m, r) = Held(x, q)
  <2>1. PICK a \in 1 .. k, b \in Nat : q = <<a, b>> /\ b \in 1 .. Len(x[a][2]) /\ Held(x, q) = x[a][2][b]
    BY <1>5
  <2>2. PICK u, v \in Nat : u = Len(x[a][2]) /\ v = Len(y[R(a)][2])
    BY <1>2
  <2>3. Len(m[a][2]) = u + v /\ b \in 1 .. u
    BY <1>1, <2>1, <2>2
  <2>4. b \in 1 .. Len(m[a][2])
    BY <2>3
  <2>5. <<a, b>> \in Slots(m, k) /\ Held(m, <<a, b>>) = m[a][2][b]
    BY <1>6, <2>4
  <2>6. m[a][2][b] = x[a][2][b]
    BY <1>1, <2>1
  <2> QED
    BY <2>1, <2>5, <2>6
<1>8. ASSUME NEW q \in Slots(y, k)
      PROVE  \E r \in Slots(m, k) : Held(m, r) = Held(y, q)
  <2>1. PICK c \in 1 .. k, b \in Nat : q = <<c, b>> /\ b \in 1 .. Len(y[c][2]) /\ Held(y, q) = y[c][2][b]
    BY <1>5
  <2>2. PICK a \in 1 .. k : c = R(a)
    BY <1>r, <1>3
  <2>3. PICK u, v \in Nat : u = Len(x[a][2]) /\ v = Len(y[R(a)][2])
    BY <1>2
  <2>4. Len(m[a][2]) = u + v /\ b \in 1 .. v
    BY <1>1, <2>1, <2>2, <2>3
  <2>5. u + b \in 1 .. Len(m[a][2]) /\ u + b \in Nat
    BY <2>4
  <2>6. m[a][2][u + b] = y[c][2][b]
    BY <1>1, <2>1, <2>2, <2>3
  <2>7. PICK d \in Nat : d \in 1 .. Len(m[a][2]) /\ m[a][2][d] = y[c][2][b]
    BY <2>5, <2>6
  <2>8. <<a, d>> \in Slots(m, k) /\ Held(m, <<a, d>>) = m[a][2][d]
    BY <1>6, <2>7
  <2> QED
    BY <2>1, <2>7, <2>8
<1> DEFINE FromX(r) == \E q \in Slots(x, k) : Held(m, r) = Held(x, q)
           FromY(r) == \E q \in Slots(y, k) : Held(m, r) = Held(y, q)
<1>9. ASSUME NEW r \in Slots(m, k)
      PROVE  FromX(r) \/ FromY(r)
  <2>1. PICK a \in 1 .. k, b \in Nat : r = <<a, b>> /\ b \in 1 .. Len(m[a][2]) /\ Held(m, r) = m[a][2][b]
    BY <1>5
  <2>2. CASE b \in 1 .. Len(x[a][2]) /\ m[a][2][b] = x[a][2][b]
    <3>1. <<a, b>> \in Slots(x, k) /\ Held(x, <<a, b>>) = x[a][2][b]
      BY <1>6, <2>2
    <3>2. Held(m, r) = Held(x, <<a, b>>)
      BY <2>1, <2>2, <3>1
    <3> QED
      BY <3>1, <3>2
  <2>3. CASE \E d \in 1 .. Len(y[R(a)][2]) : b = Len(x[a][2]) + d /\ m[a][2][b] = y[R(a)][2][d]
    <3>1. PICK d \in 1 .. Len(y[R(a)][2]) : m[a][2][b] = y[R(a)][2][d]
      BY <2>3
    <3>2. R(a) \in 1 .. k /\ d \in Nat
      BY <1>r
    <3>3. <<R(a), d>> \in Slots(y, k) /\ Held(y, <<R(a), d>>) = y[R(a)][2][d]
      BY <1>6, <3>2
    <3>4. Held(m, r) = Held(y, <<R(a), d>>)
      BY <2>1, <3>1, <3>3
    <3> QED
      BY <3>3, <3>4
  <2> QED
    BY <1>4, <2>1, <2>2, <2>3
<1>10. ASSUME NEW q \in Slots(m, k), NEW r \in Slots(m, k), Held(m, q) = Held(m, r)
       PROVE  q = r
  <2>1. PICK a \in 1 .. k, b \in Nat : q = <<a, b>> /\ b \in 1 .. Len(m[a][2]) /\ Held(m, q) = m[a][2][b]
    BY <1>5
  <2>2. PICK c \in 1 .. k, d \in Nat : r = <<c, d>> /\ d \in 1 .. Len(m[c][2]) /\ Held(m, r) = m[c][2][d]
    BY <1>5
  <2> DEFINE InX(i, j) == j \in 1 .. Len(x[i][2]) /\ m[i][2][j] = x[i][2][j]
             InY(i, j) == \E e \in 1 .. Len(y[R(i)][2]) : j = Len(x[i][2]) + e /\ m[i][2][j] = y[R(i)][2][e]
  <2>3. \A i \in 1 .. k : \A j \in Nat : InX(i, j) => <<i, j>> \in Slots(x, k) /\ Held(x, <<i, j>>) = m[i][2][j]
    BY <1>6
  <2>4. \A i \in 1 .. k : \A j \in Nat : InY(i, j) =>
          \E e \in Nat : /\ <<R(i), e>> \in Slots(y, k) /\ Held(y, <<R(i), e>>) = m[i][2][j]
                         /\ j = Len(x[i][2]) + e
    <3> SUFFICES ASSUME NEW i \in 1 .. k, NEW j \in Nat, InY(i, j)
                 PROVE  \E e \in Nat : /\ <<R(i), e>> \in Slots(y, k) /\ Held(y, <<R(i), e>>) = m[i][2][j]
                                       /\ j = Len(x[i][2]) + e
      OBVIOUS
    <3>1. PICK e \in 1 .. Len(y[R(i)][2]) : j = Len(x[i][2]) + e /\ m[i][2][j] = y[R(i)][2][e]
      OBVIOUS
    <3>2. R(i) \in 1 .. k /\ e \in Nat
      BY <1>r
    <3>3. <<R(i), e>> \in Slots(y, k) /\ Held(y, <<R(i), e>>) = y[R(i)][2][e]
      BY <1>6, <3>2
    <3> QED
      BY <3>1, <3>2, <3>3
  <2>5. InX(a, b) \/ InY(a, b)
    BY <1>4, <2>1
  <2>6. InX(c, d) \/ InY(c, d)
    BY <1>4, <2>2
  <2>7. m[a][2][b] = m[c][2][d]
    BY <1>10, <2>1, <2>2
  <2> HIDE DEF InX, InY
  <2>8. CASE InX(a, b) /\ InX(c, d)
    BY <2>1, <2>2, <2>3, <2>7, <2>8 DEF Apart
  <2>9. CASE InX(a, b) /\ InY(c, d)
    <3>1. PICK e \in Nat : <<R(c), e>> \in Slots(y, k) /\ Held(y, <<R(c), e>>) = m[c][2][d]
      BY <2>4, <2>9
    <3>2. <<a, b>> \in Slots(x, k) /\ Held(x, <<a, b>>) = m[a][2][b]
      BY <2>3, <2>9
    <3> QED
      BY <2>7, <3>1, <3>2 DEF Apart
  <2>10. CASE InY(a, b) /\ InX(c, d)
    <3>1. PICK e \in Nat : <<R(a), e>> \in Slots(y, k) /\ Held(y, <<R(a), e>>) = m[a][2][b]
      BY <2>4, <2>10
    <3>2. <<c, d>> \in Slots(x, k) /\ Held(x, <<c, d>>) = m[c][2][d]
      BY <2>3, <2>10
    <3> QED
      BY <2>7, <3>1, <3>2 DEF Apart
  <2>11. CASE InY(a, b) /\ InY(c, d)
    <3>1. PICK e \in Nat : /\ <<R(a), e>> \in Slots(y, k) /\ Held(y, <<R(a), e>>) = m[a][2][b]
                           /\ b = Len(x[a][2]) + e
      BY <2>4, <2>11
    <3>2. PICK f \in Nat : /\ <<R(c), f>> \in Slots(y, k) /\ Held(y, <<R(c), f>>) = m[c][2][d]
                           /\ d = Len(x[c][2]) + f
      BY <2>4, <2>11
    <3>3. <<R(a), e>> = <<R(c), f>>
      BY <2>7, <3>1, <3>2 DEF Apart
    <3>4. R(a) = R(c) /\ e = f
      BY <3>3
    <3>5. a = c
      BY <1>3, <3>4
    <3> QED
      BY <2>1, <2>2, <3>1, <3>2, <3>4, <3>5
  <2> QED
    BY <2>5, <2>6, <2>8, <2>9, <2>10, <2>11
<1> QED
  BY <1>7, <1>8, <1>9, <1>10 DEF Joined, m

LEMMA MergeRule ==
  ASSUME NEW n, NEW k \in Nat, NEW even \in BOOLEAN, NEW x, NEW y,
         StateInv(x, n, k, even), StateInv(y, n, k, even), Apart(x, y, k)
  PROVE  StateInv(Merge(x, y), n, k, even) /\ Joined(Merge(x, y), x, y, k)
<1> DEFINE m == Crossed(x, y, k)
           z == Decreasing(m)
<1>1. x \in StatesOf(n, k) /\ y \in StatesOf(n, k)
  BY DEF StateInv
<1>2. DOMAIN x = 1 .. k /\ Len(y) = k
  BY <1>1, SetTypes
<1>3. Merge(x, y) = z
  <2> DEFINE cross(D, l) == [i \in D |-> LET j == l + 1 - i IN <<x[i][1] + y[j][1], x[i][2] \o y[j][2]>>]
  <2>1. Merge(x, y) = Decreasing(cross(DOMAIN x, Len(y)))
    BY DEF Merge
  <2>2. cross(1 .. k, k) = m
    BY DEF Crossed, Facing
  <2> HIDE DEF cross, m
  <2> QED
    BY <1>2, <2>1, <2>2
<1>4. Unordered(m, n, k, even)
  BY CrossedState
<1>5. Joined(m, x, y, k)
  BY <1>1, CrossedJoined
<1> HIDE DEF m
<1>6. /\ StateInv(z, n, k, even)
      /\ \A q \in Slots(m, k) : \E r \in Slots(z, k) : Held(z, r) = Held(m, q)
      /\ \A r \in Slots(z, k) : \E q \in Slots(m, k) : Held(z, r) = Held(m, q)
      /\ (\A q, r \in Slots(m, k) : Held(m, q) = Held(m, r) => q = r) =>
           \A q, r \in Slots(z, k) : Held(z, q) = Held(z, r) => q = r
  BY <1>4, DecreasingState DEF Unordered
<1> HIDE DEF z
<1>7. Joined(z, x, y, k)
  <2>0. /\ \A q \in Slots(x, k) : \E r \in Slots(m, k) : Held(m, r) = Held(x, q)
        /\ \A q \in Slots(y, k) : \E r \in Slots(m, k) : Held(m, r) = Held(y, q)
        /\ \A r \in Slots(m, k) : \/ \E q \in Slots(x, k) : Held(m, r) = Held(x, q)
                                  \/ \E q \in Slots(y, k) : Held(m, r) = Held(y, q)
        /\ \A q, r \in Slots(m, k) : Held(m, q) = Held(m, r) => q = r
    BY <1>5 DEF Joined
  <2>1. ASSUME NEW q \in Slots(x, k)
        PROVE  \E r \in Slots(z, k) : Held(z, r) = Held(x, q)
    BY <1>6, <2>0
  <2>2. ASSUME NEW q \in Slots(y, k)
        PROVE  \E r \in Slots(z, k) : Held(z, r) = Held(y, q)
    BY <1>6, <2>0
  <2>3. ASSUME NEW r \in Slots(z, k)
        PROVE  \/ \E q \in Slots(x, k) : Held(z, r) = Held(x, q)
               \/ \E q \in Slots(y, k) : Held(z, r) = Held(y, q)
    BY <1>6, <2>0
  <2>4. \A q, r \in Slots(z, k) : Held(z, q) = Held(z, r) => q = r
    BY <1>6, <2>0
  <2> QED
    BY <2>1, <2>2, <2>3, <2>4 DEF Joined
<1> QED
  BY <1>3, <1>6, <1>7

(* States are compared in lexicographic order, and among finitely many     *)
(* there is one that may be popped.                                        *)
LEMMA StateOrder ==
  ASSUME NEW n, NEW k \in Nat, 1 <= k,
         NEW s \in StatesOf(n, k), NEW t \in StatesOf(n, k), NEW u \in StatesOf(n, k)
  PROVE  /\ ~StateLess(s, s)
         /\ StateLess(s, t) /\ StateLess(t, u) => StateLess(s, u)
<1>1. 1 \in 1 .. k /\ k \in 1 .. k
  OBVIOUS
<1>2. \A v \in StatesOf(n, k) : /\ v[1] \in Nat \X Seq(1 .. n) /\ v[1][1] \in Nat /\ v[k][1] \in Nat
                                /\ Spread(v) = v[1][1] - v[k][1]
  BY <1>1, SetTypes, Zenon DEF Spread
<1>3. \A v \in StatesOf(n, k) : Spread(v) \in Int
  BY <1>2
<1>4. PICK a, b, c \in Int : a = Spread(s) /\ b = Spread(t) /\ c = Spread(u)
  BY <1>3
<1>5. /\ StateLess(s, s) <=> a > a \/ (a = a /\ SetLess(s[1], s[1]))
      /\ StateLess(s, t) <=> a > b \/ (a = b /\ SetLess(t[1], s[1]))
      /\ StateLess(t, u) <=> b > c \/ (b = c /\ SetLess(u[1], t[1]))
      /\ StateLess(s, u) <=> a > c \/ (a = c /\ SetLess(u[1], s[1]))
  BY <1>4 DEF StateLess
<1>6. ~SetLess(s[1], s[1]) /\ (SetLess(u[1], t[1]) /\ SetLess(t[1], s[1]) => SetLess(u[1], s[1]))
  <2>1. s[1] \in Nat \X Seq(1 .. n) /\ t[1] \in Nat \X Seq(1 .. n) /\ u[1] \in Nat \X Seq(1 .. n)
    BY <1>2
  <2> QED
    BY <2>1, SetOrder
<1> QED
  BY <1>5, <1>6

LEMMA LeastRule ==
  ASSUME NEW n, NEW k \in Nat, 1 <= k, NEW S \in SUBSET StatesOf(n, k), IsFiniteSet(S), S # {}
  PROVE  Least(S) # {} /\ Least(S) \subseteq S
<1> DEFINE Bel(x) == {y \in S : StateLess(y, x)}
           B == {Bel(x) : x \in S}
<1>1. B \in SUBSET (SUBSET S) /\ B # {}
  OBVIOUS
<1>2. PICK T \in B : \A U \in B : U \subseteq T => U = T
  <2> HIDE DEF B
  <2> QED
    BY <1>1, LeastSet
<1>3. PICK x \in S : T = Bel(x)
  OBVIOUS
<1>4. ASSUME NEW y \in S, StateLess(y, x) PROVE FALSE
  <2>1. ~StateLess(y, y) /\ \A z \in S : StateLess(z, y) => StateLess(z, x)
    BY <1>4, StateOrder
  <2>2. Bel(y) \subseteq Bel(x) /\ y \in Bel(x) /\ y \notin Bel(y)
    BY <1>4, <2>1
  <2>3. Bel(y) \in B
    OBVIOUS
  <2> HIDE DEF Bel, B
  <2> QED
    BY <1>2, <1>3, <2>2, <2>3
<1>5. x \in Least(S)
  BY <1>4 DEF Least
<1> QED
  BY <1>5 DEF Least

(* Two states are replaced by the one merged of them.                      *)
LEMMA MergeTwoRule ==
  ASSUME NEW n, NEW k \in Nat, 1 <= k, NEW even \in BOOLEAN, NEW S,
         Family(S, n, k, even), Cardinality(S) >= 2
  PROVE  /\ Family(MergeTwo(S), n, k, even)
         /\ Cardinality(MergeTwo(S)) = Cardinality(S) - 1
<1>1. IsFiniteSet(S) /\ S \in SUBSET StatesOf(n, k) /\ Cardinality(S) \in Nat
  BY FS_CardinalityType DEF Family, StateInv
<1>2. S # {}
  BY FS_EmptySet
<1> DEFINE rests(s) == {(S \ {s, t}) \cup {Merge(s, t)} : t \in Least(S \ {s})}
<1>a. PICK s \in Least(S) : \E t \in Least(S \ {s}) : MergeTwo(S) = (S \ {s, t}) \cup {Merge(s, t)}
  <2>1. PICK s \in Least(S) : s \in S
    BY <1>1, <1>2, LeastRule
  <2>2. IsFiniteSet(S \ {s}) /\ Cardinality(S \ {s}) = Cardinality(S) - 1
    BY <1>1, <2>1, FS_RemoveElement
  <2>3. S \ {s} # {}
    BY <1>1, <2>2, FS_EmptySet
  <2>4. Least(S \ {s}) # {}
    BY <1>1, <2>2, <2>3, LeastRule
  <2>5. UNION {rests(r) : r \in Least(S)} # {}
    <3>1. PICK t \in Least(S \ {s}) : TRUE
      BY <2>4
    <3>2. (S \ {s, t}) \cup {Merge(s, t)} \in rests(s)
      OBVIOUS
    <3> HIDE DEF rests
    <3> QED
      BY <3>2
  <2>6. MergeTwo(S) = CHOOSE rest \in UNION {rests(r) : r \in Least(S)} : TRUE
    BY DEF MergeTwo
  <2> DEFINE U == UNION {rests(r) : r \in Least(S)}
  <2>7. MergeTwo(S) \in U
    <3> HIDE DEF U, rests
    <3> QED
      BY <2>5, <2>6 DEF U
  <2> QED
    BY <2>7
<1>3. PICK t \in Least(S \ {s}) : MergeTwo(S) = (S \ {s, t}) \cup {Merge(s, t)}
  BY <1>a
<1>4. s \in S /\ t \in S /\ s # t
  <2>1. s \in S
    BY <1>1, <1>2, LeastRule
  <2>2. IsFiniteSet(S \ {s}) /\ t \in S \ {s}
    BY <1>1, <2>1, FS_RemoveElement DEF Least
  <2> QED
    BY <2>1, <2>2
<1>5. StateInv(s, n, k, even) /\ StateInv(t, n, k, even) /\ Apart(s, t, k)
  BY <1>4 DEF Family, Apart
<1> DEFINE z == Merge(s, t)
           R == S \ {s, t}
<1>6. StateInv(z, n, k, even) /\ Joined(z, s, t, k)
  BY <1>5, MergeRule
<1> HIDE DEF z
<1>7. ASSUME NEW r \in Slots(z, k), NEW y \in S, NEW q \in Slots(y, k), Held(z, r) = Held(y, q)
      PROVE  y = s \/ y = t
  <2>1. \/ \E p \in Slots(s, k) : Held(z, r) = Held(s, p)
        \/ \E p \in Slots(t, k) : Held(z, r) = Held(t, p)
    BY <1>6 DEF Joined
  <2> QED
    BY <1>4, <1>7, <2>1 DEF Family
<1>8. z \notin R
  <2>1. Slots(z, k) # {}
    BY <1>6 DEF StateInv
  <2> QED
    BY <1>7, <2>1
<1>9. IsFiniteSet(R) /\ Cardinality(R) = Cardinality(S) - 2
  <2>1. IsFiniteSet(S \ {s}) /\ Cardinality(S \ {s}) = Cardinality(S) - 1
    BY <1>1, <1>4, FS_RemoveElement
  <2>2. t \in S \ {s}
    BY <1>4
  <2>3. IsFiniteSet((S \ {s}) \ {t}) /\ Cardinality((S \ {s}) \ {t}) = Cardinality(S \ {s}) - 1
    BY <2>1, <2>2, FS_RemoveElement
  <2>4. (S \ {s}) \ {t} = R
    OBVIOUS
  <2> QED
    BY <1>1, <2>1, <2>3, <2>4
<1>10. IsFiniteSet(R \cup {z}) /\ Cardinality(R \cup {z}) = Cardinality(S) - 1
  <2>1. IsFiniteSet(R \cup {z}) /\ Cardinality(R \cup {z}) = Cardinality(R) + 1
    <3> HIDE DEF R
    <3> QED
      BY <1>8, <1>9, FS_AddElement
  <2> QED
    BY <1>1, <1>9, <2>1
<1>11. MergeTwo(S) = R \cup {z}
  BY <1>3 DEF z
<1>12. \A x \in R \cup {z} : StateInv(x, n, k, even)
  BY <1>6 DEF Family
<1>13. ASSUME NEW i \in 1 .. n
       PROVE  \E x \in R \cup {z} : \E q \in Slots(x, k) : Held(x, q) = i
  <2>0. PICK x \in S : \E q \in Slots(x, k) : Held(x, q) = i
    BY DEF Family
  <2>1. PICK q \in Slots(x, k) : Held(x, q) = i
    BY <2>0
  <2>2. CASE x \in R
    BY <2>1, <2>2
  <2>3. CASE x = s
    BY <1>6, <2>1, <2>3 DEF Joined
  <2>4. CASE x = t
    BY <1>6, <2>1, <2>4 DEF Joined
  <2> QED
    BY <2>2, <2>3, <2>4
<1>14. ASSUME NEW x \in R \cup {z}, NEW y \in R \cup {z},
              NEW q \in Slots(x, k), NEW r \in Slots(y, k), Held(x, q) = Held(y, r)
       PROVE  x = y /\ q = r
  <2>1. CASE x \in R /\ y \in R
    BY <1>14, <2>1 DEF Family
  <2>2. CASE x = z /\ y \in R
    BY <1>7, <1>14, <2>2
  <2>3. CASE x \in R /\ y = z
    BY <1>7, <1>14, <2>3
  <2>4. CASE x = z /\ y = z
    BY <1>6, <1>14, <2>4 DEF Joined
  <2> QED
    BY <2>1, <2>2, <2>3, <2>4
<1>15. Family(R \cup {z}, n, k, even)
  <2> HIDE DEF R
  <2> QED
    BY <1>10, <1>12, <1>13, <1>14 DEF Family
<1> QED
  BY <1>10, <1>11, <1>15

(* In the end there is one state with all items.                           *)
ReducedTo(S, n, k, even) == \E x : Reduced(S) = {x} /\ Family({x}, n, k, even)

LEMMA ReducedRule ==
  ASSUME NEW n, NEW k \in Nat, 1 <= k, NEW even \in BOOLEAN, NEW S0,
         Family(S0, n, k, even), S0 # {}
  PROVE  ReducedTo(S0, n, k, even)
<1> DEFINE N == Cardinality(S0)
           idxs == [i \in 1 .. N - 1 |-> i]
           S == DOMAIN idxs
           X == {T \in SUBSET StatesOf(n, k) : Family(T, n, k, even)}
           st(T) == IF Cardinality(T) >= 2 THEN MergeTwo(T) ELSE T
           step == [q \in S \X X |-> st(q[2])]
           Is(g) == g = [s \in SUBSET S |-> IF s = {} THEN S0 ELSE MergeTwo(g[s \ {Pick(s)}])]
           c == CHOOSE g : Is(g)
<1>1. N \in Nat /\ N >= 1
  <2>1. IsFiniteSet(S0) /\ Cardinality(S0) \in Nat
    BY FS_CardinalityType DEF Family
  <2>2. Cardinality(S0) # 0
    BY <2>1, FS_EmptySet
  <2> QED
    BY <2>1, <2>2
<1>2. S = 1 .. N - 1
  OBVIOUS
<1>3. IsFiniteSet(S) /\ Cardinality(S) = N - 1
  <2> HIDE DEF N, S
  <2>1. N - 1 \in Nat /\ 1 \in Nat
    BY <1>1
  <2>2. IsFiniteSet(1 .. N - 1) /\ Cardinality(1 .. N - 1) = IF 1 > N - 1 THEN 0 ELSE (N - 1) - 1 + 1
    BY <1>1, FS_Interval
  <2> QED
    BY <1>1, <1>2, <2>2
<1>4. Reduced(S0) = c[S]
  BY DEF Reduced, FoldSeq, FoldFunction, FoldFunctionOnSet, MapThenFoldSet, Pick
<1> HIDE DEF S, N, idxs
<1>5. S0 \in X
  BY DEF Family, StateInv
<1>6. \A T \in X : st(T) \in X
  <2> SUFFICES ASSUME NEW T \in X PROVE st(T) \in X
    OBVIOUS
  <2>1. CASE Cardinality(T) >= 2
    <3>1. Family(MergeTwo(T), n, k, even)
      BY <2>1, MergeTwoRule
    <3>2. MergeTwo(T) \in SUBSET StatesOf(n, k)
      BY <3>1 DEF Family, StateInv
    <3> QED
      BY <2>1, <3>1, <3>2
  <2> QED
    BY <2>1
<1>7. \A T \in X : Cardinality(T) >= 2 => /\ st(T) = MergeTwo(T)
                                          /\ Cardinality(MergeTwo(T)) = Cardinality(T) - 1
  BY MergeTwoRule
<1>8. step \in [S \X X -> X]
  BY <1>6
<1>9. \A q \in S \X X : step[q] = st(q[2])
  OBVIOUS
<1> HIDE DEF X, st, step
<1>10. PICK g : FoldsTo(X, S0, step, S, g)
  BY <1>3, <1>5, <1>8, FoldExists
<1>11. /\ g \in [SUBSET S -> X]
       /\ \A s \in SUBSET S : g[s] = IF s = {} THEN S0 ELSE st(g[s \ {Pick(s)}])
  <2>1. ASSUME NEW s \in SUBSET S, s # {}
        PROVE  step[<<Pick(s), g[s \ {Pick(s)}]>>] = st(g[s \ {Pick(s)}])
    <3>1. Pick(s) \in S /\ g[s \ {Pick(s)}] \in X
      BY <1>10, <2>1 DEF Pick, FoldsTo
    <3> QED
      BY <1>9, <3>1
  <2> QED
    BY <1>10, <2>1 DEF FoldsTo
<1>12. \A s \in SUBSET S : IsFiniteSet(s) /\ Cardinality(s) \in Nat /\ Cardinality(s) <= N - 1
  BY <1>3, FS_Subset, FS_CardinalityType
<1>13. \A s \in SUBSET S : Cardinality(g[s]) = N - Cardinality(s)
  <2> DEFINE B == {s \in SUBSET S : Cardinality(g[s]) # N - Cardinality(s)}
  <2> SUFFICES ASSUME B # {} PROVE FALSE
    OBVIOUS
  <2>1. PICK s \in B : \A u \in B : u \subseteq s => u = s
    <3>1. B \in SUBSET (SUBSET S)
      OBVIOUS
    <3> HIDE DEF B
    <3> QED
      BY <1>3, <3>1, LeastSet
  <2> DEFINE r == s \ {Pick(s)}
  <2>2. CASE s = {}
    <3>1. g[s] = S0 /\ Cardinality(s) = 0
      BY <1>11, <2>2, FS_EmptySet
    <3>2. Cardinality(g[s]) = N - 0
      BY <1>1, <3>1 DEF N
    <3> QED
      BY <3>1, <3>2
  <2>3. CASE s # {}
    <3>1. Pick(s) \in s /\ r \in SUBSET S /\ r # s
      BY <2>3 DEF Pick
    <3>2. r \notin B
      BY <2>1, <3>1
    <3>3. Cardinality(g[r]) = N - Cardinality(r)
      BY <3>1, <3>2
    <3>4. Cardinality(s) \in Nat /\ Cardinality(s) <= N - 1 /\ IsFiniteSet(s)
      BY <1>12
    <3>5. Cardinality(r) + 1 = Cardinality(s) /\ Cardinality(r) \in Nat
      <4> HIDE DEF B
      <4> QED
        BY <2>3, <3>1, <3>4, Smaller
    <3>6. Cardinality(g[r]) >= 2 /\ Cardinality(g[r]) - 1 = N - Cardinality(s)
      <4>1. PICK u, v \in Nat : u = Cardinality(r) /\ v = Cardinality(s)
        BY <3>4, <3>5
      <4>2. u + 1 = v /\ v <= N - 1 /\ Cardinality(g[r]) = N - u
        BY <3>3, <3>4, <3>5, <4>1
      <4>3. N - u >= 2 /\ (N - u) - 1 = N - v
        BY <1>1, <4>2
      <4> QED
        BY <4>1, <4>2, <4>3
    <3>7. g[r] \in X
      BY <1>11, <3>1
    <3>8. g[s] = st(g[r])
      BY <1>11, <2>3
    <3>9. Cardinality(g[s]) = N - Cardinality(s)
      BY <1>7, <3>6, <3>7, <3>8
    <3> QED
      BY <3>9
  <2> QED
    BY <2>2, <2>3
<1>14. Is(g)
  <2>1. ASSUME NEW s \in SUBSET S
        PROVE  g[s] = IF s = {} THEN S0 ELSE MergeTwo(g[s \ {Pick(s)}])
    <3> DEFINE r == s \ {Pick(s)}
    <3>1. CASE s = {}
      BY <1>11, <3>1
    <3>2. CASE s # {}
      <4>1. Pick(s) \in s /\ r \in SUBSET S /\ g[s] = st(g[r])
        BY <1>11, <3>2 DEF Pick
      <4>2. Cardinality(s) \in Nat /\ Cardinality(s) <= N - 1 /\ IsFiniteSet(s)
        BY <1>12
      <4>3. Cardinality(r) + 1 = Cardinality(s) /\ Cardinality(r) \in Nat
        BY <3>2, <4>1, <4>2, Smaller
      <4>4. Cardinality(g[r]) >= 2
        BY <1>1, <1>13, <4>1, <4>2, <4>3
      <4>5. g[r] \in X
        BY <1>11, <4>1
      <4> QED
        BY <1>7, <3>2, <4>1, <4>4, <4>5
    <3> QED
      BY <3>1, <3>2
  <2>2. g = [s \in SUBSET S |-> g[s]]
    BY <1>11
  <2> QED
    BY <2>1, <2>2
<1>15. Is(c)
  <2> HIDE DEF Is
  <2> QED
    BY <1>14
<1> HIDE DEF c
<1>16. \A s \in SUBSET S : c[s] = IF s = {} THEN S0 ELSE MergeTwo(c[s \ {Pick(s)}])
  BY <1>15
<1>17. \A s \in SUBSET S : g[s] = IF s = {} THEN S0 ELSE MergeTwo(g[s \ {Pick(s)}])
  BY <1>14
<1> HIDE DEF Is
<1>18. \A s \in SUBSET S : c[s] = g[s]
  <2> DEFINE B == {s \in SUBSET S : c[s] # g[s]}
  <2> SUFFICES ASSUME B # {} PROVE FALSE
    OBVIOUS
  <2>1. PICK s \in B : \A u \in B : u \subseteq s => u = s
    <3>1. B \in SUBSET (SUBSET S)
      OBVIOUS
    <3> HIDE DEF B
    <3> QED
      BY <1>3, <3>1, LeastSet
  <2> DEFINE r == s \ {Pick(s)}
  <2>2. s # {} => c[r] = g[r]
    <3>1. s # {} => r \in SUBSET S /\ r # s /\ r \subseteq s
      BY DEF Pick
    <3> QED
      BY <2>1, <3>1
  <2>3. c[s] = g[s]
    BY <1>16, <1>17, <2>2
  <2> QED
    BY <2>3
<1>19. c[S] \in X /\ Cardinality(c[S]) = 1
  <2>1. c[S] = g[S] /\ g[S] \in X
    BY <1>11, <1>18
  <2>2. Cardinality(g[S]) = N - (N - 1)
    BY <1>3, <1>13
  <2> QED
    BY <1>1, <2>1, <2>2
<1>20. Family(c[S], n, k, even)
  BY <1>19 DEF X
<1>21. PICK x : c[S] = {x}
  <2>1. IsFiniteSet(c[S])
    BY <1>20 DEF Family
  <2> QED
    BY <1>19, <2>1, FS_Singleton
<1> QED
  BY <1>4, <1>20, <1>21 DEF ReducedTo

(* m groups of w: the places of the groups are the numbers up to m * w.    *)
LEMMA Times ==
  ASSUME NEW w \in Nat, NEW g \in Nat, NEW h \in Nat
  PROVE  /\ g * w \in Nat /\ (g + 1) * w = g * w + w
         /\ g <= h => g * w <= h * w
<1>1. g * w \in Nat /\ (g + 1) * w = g * w + w
  OBVIOUS
<1>2. ASSUME g <= h PROVE g * w <= h * w
  <2>1. PICK d \in Nat : h = g + d
    <3>1. h - g \in Nat /\ h = g + (h - g)
      BY <1>2
    <3> QED
      BY <3>1
  <2>2. h * w = g * w + d * w /\ d * w \in Nat /\ g * w \in Nat
    BY <2>1
  <2> QED
    BY <2>2
<1> QED
  BY <1>1, <1>2

LEMMA Grouped ==
  ASSUME NEW w \in Nat, NEW m \in Nat, 1 <= w
  PROVE  /\ \A g \in 1 .. m, a \in 1 .. w : (g - 1) * w + a \in 1 .. m * w
         /\ \A j \in 1 .. m * w : \E g \in 1 .. m, a \in 1 .. w : j = (g - 1) * w + a
         /\ \A g, h \in 1 .. m, a, c \in 1 .. w : (g - 1) * w + a = (h - 1) * w + c => g = h /\ a = c
<1>1. ASSUME NEW g \in 1 .. m, NEW a \in 1 .. w
      PROVE  (g - 1) * w + a \in 1 .. m * w
  <2>1. PICK f \in Nat : f = g - 1 /\ f + 1 = g /\ g <= m /\ g \in Nat
    OBVIOUS
  <2>2. f * w \in Nat /\ (f + 1) * w = f * w + w /\ g * w <= m * w /\ m * w \in Nat
    BY <2>1, Times
  <2>3. PICK u, v \in Nat : u = f * w /\ v = m * w
    BY <2>2
  <2>4. u + w <= v
    BY <2>1, <2>2, <2>3
  <2>5. u + a \in 1 .. v
    BY <2>4
  <2> QED
    BY <2>1, <2>3, <2>5
<1>2. ASSUME NEW j \in 1 .. m * w
      PROVE  \E g \in 1 .. m, a \in 1 .. w : j = (g - 1) * w + a
  <2> DEFINE G == {i \in Nat : j \in 1 .. i * w => \E g \in 1 .. i, a \in 1 .. w : j = (g - 1) * w + a}
  <2>1. 0 \in G
    <3>1. 0 * w = 0
      OBVIOUS
    <3> QED
      BY <3>1
  <2>2. ASSUME NEW i \in Nat, i \in G PROVE i + 1 \in G
    <3> SUFFICES ASSUME j \in 1 .. (i + 1) * w
                 PROVE  \E g \in 1 .. i + 1, a \in 1 .. w : j = (g - 1) * w + a
      OBVIOUS
    <3>1. PICK u \in Nat : u = i * w /\ (i + 1) * w = u + w
      BY Times
    <3>2. CASE j <= u
      <4>1. j \in 1 .. i * w
        BY <3>1, <3>2
      <4>2. PICK g \in 1 .. i, a \in 1 .. w : j = (g - 1) * w + a
        BY <2>2, <4>1
      <4>3. g \in 1 .. i + 1
        OBVIOUS
      <4> QED
        BY <4>2, <4>3
    <3>3. CASE ~(j <= u)
      <4>1. j - u \in 1 .. w /\ j = u + (j - u)
        BY <3>1, <3>3
      <4>2. i + 1 \in 1 .. i + 1 /\ (i + 1) - 1 = i
        OBVIOUS
      <4>3. j = ((i + 1) - 1) * w + (j - u)
        BY <3>1, <4>1, <4>2
      <4> QED
        BY <4>1, <4>2, <4>3
    <3> QED
      BY <3>2, <3>3
  <2>3. G = Nat
    <3>1. G \in SUBSET Nat
      OBVIOUS
    <3>2. \A i \in G : i + 1 \in G
      BY <2>2
    <3> HIDE DEF G
    <3> QED
      BY <2>1, <3>1, <3>2, Induction
  <2>4. m \in G
    <3> HIDE DEF G
    <3> QED
      BY <2>3
  <2> QED
    BY <2>4
<1>3. ASSUME NEW g \in 1 .. m, NEW h \in 1 .. m, NEW a \in 1 .. w, NEW c \in 1 .. w,
             (g - 1) * w + a = (h - 1) * w + c
      PROVE  ~(g < h)
  <2> SUFFICES ASSUME g < h PROVE FALSE
    OBVIOUS
  <2>1. PICK e \in Nat, f \in Nat : e = g - 1 /\ f = h - 1 /\ e + 1 <= f
    OBVIOUS
  <2>2. e * w \in Nat /\ f * w \in Nat /\ (e + 1) * w = e * w + w /\ (e + 1) * w <= f * w
    BY <2>1, Times
  <2>3. PICK u, v \in Nat : u = e * w /\ v = f * w /\ u + w <= v
    BY <2>2
  <2>4. u + a = v + c
    BY <1>3, <2>1, <2>3
  <2> QED
    BY <2>3, <2>4
<1>4. ASSUME NEW g \in 1 .. m, NEW h \in 1 .. m, NEW a \in 1 .. w, NEW c \in 1 .. w,
             (g - 1) * w + a = (h - 1) * w + c
      PROVE  g = h /\ a = c
  <2>1. ~(g < h) /\ ~(h < g)
    BY <1>3, <1>4
  <2>2. g = h
    BY <2>1
  <2>3. PICK u \in Nat : u = (g - 1) * w
    <3>1. g - 1 \in Nat
      OBVIOUS
    <3> QED
      BY <3>1, Times
  <2>4. u + a = u + c
    BY <1>4, <2>2, <2>3
  <2> QED
    BY <2>2, <2>4
<1> QED
  BY <1>1, <1>2, <1>4

LEMMA DivMod ==
  ASSUME NEW n \in Nat, NEW k \in Nat \ {0}
  PROVE  n \div k \in Nat /\ n = k * (n \div k) + (n % k)
OBVIOUS

(* In how many sets of how many items the states start.                    *)
Width(k, even) == IF even THEN k ELSE 1
Groups(n, k, even) == n \div Width(k, even)

LEMMA WidthRule ==
  ASSUME NEW n \in Nat, NEW k \in Nat, 1 <= k, 1 <= n, NEW even \in BOOLEAN, even => n % k = 0
  PROVE  /\ Width(k, even) \in 1 .. k /\ Groups(n, k, even) \in Nat /\ 1 <= Groups(n, k, even)
         /\ Groups(n, k, even) * Width(k, even) = n
         /\ even => Width(k, even) = k
<1>1. n \div 1 = n /\ n * 1 = n
  OBVIOUS
<1>2. CASE even
  <2>1. n % k = 0
    BY <1>2
  <2>2. n \div k \in Nat /\ n = k * (n \div k) + (n % k)
    <3>1. k \in Nat \ {0}
      OBVIOUS
    <3> QED
      BY <3>1, DivMod, Zenon
  <2>3. PICK d \in Nat : d = n \div k
    BY <2>2
  <2>4. n = k * d
    BY <2>1, <2>2, <2>3
  <2>5. d # 0
    BY <2>4
  <2>6. d * k = n /\ 1 <= d
    BY <2>4, <2>5
  <2> QED
    BY <1>2, <2>3, <2>6 DEF Width, Groups
<1>3. CASE ~even
  BY <1>1, <1>3 DEF Width, Groups
<1> QED
  BY <1>2, <1>3

(* The items in increasing order of workload.                              *)
Ordered(val) == Sorted([i \in DOMAIN val |-> i], {p \in Pairs(val) : val[p[1]] < val[p[2]]})

LEMMA OrderedRule ==
  ASSUME NEW val \in Seq(Nat)
  PROVE  Permutes(Ordered(val), Len(val))
<1> DEFINE n == Len(val)
           s == [i \in DOMAIN val |-> i]
           less == {p \in Pairs(val) : val[p[1]] < val[p[2]]}
<1>1. n \in Nat /\ DOMAIN val = 1 .. n /\ \A i \in 1 .. n : val[i] \in Nat
  BY LenProperties, ElementOfSeq
<1>2. s \in Seq(Nat) /\ Len(s) = n /\ \A i \in 1 .. n : s[i] = i
  <2>1. s = [i \in 1 .. n |-> i]
    BY <1>1
  <2> HIDE DEF n, s
  <2> QED
    BY <1>1, <2>1
<1>3. \A i, j \in 1 .. n : <<i, j>> \in less <=> val[i] < val[j]
  BY <1>1 DEF Pairs
<1> HIDE DEF n, s, less
<1>4. Weak(less, 1 .. n)
  <2>1. \A i, j \in 1 .. n : <<i, j>> \in less => <<j, i>> \notin less
    BY <1>1, <1>3
  <2>2. \A i, j, l \in 1 .. n : <<i, l>> \in less => <<i, j>> \in less \/ <<j, l>> \in less
    BY <1>1, <1>3
  <2> QED
    BY <2>1, <2>2 DEF Weak
<1>5. PICK p : Arranges(p, s, Sorted(s, less))
  BY <1>2, <1>4, SortedRule
<1>6. Permutes(p, n) /\ Sorted(s, less) = [k \in 1 .. n |-> s[p[k]]]
  BY <1>2, <1>5 DEF Arranges
<1>7. \A k \in 1 .. n : p[k] \in 1 .. n
  BY <1>6 DEF Permutes
<1>8. p = [k \in 1 .. n |-> p[k]]
  BY <1>6 DEF Permutes
<1>9. [k \in 1 .. n |-> s[p[k]]] = [k \in 1 .. n |-> p[k]]
  BY <1>2, <1>7
<1>10. Sorted(s, less) = p
  BY <1>6, <1>8, <1>9, Zenon
<1>11. Ordered(val) = Sorted(s, less)
  BY DEF Ordered, s, less
<1> QED
  BY <1>6, <1>10, <1>11 DEF n

(* The sets of the g-th state: single items, as many as it is wide.        *)
Start(val, k, w, g) ==
  [i \in 1 .. k |-> IF i <= w THEN <<val[Ordered(val)[(g - 1) * w + i]], <<Ordered(val)[(g - 1) * w + i]>>>>
                    ELSE NoItems]

LEMMA InitialStarts ==
  ASSUME NEW val, NEW k, NEW even \in BOOLEAN
  PROVE  Initial(val, k, even) =
           {Decreasing(Start(val, k, Width(k, even), g)) : g \in 1 .. Groups(Len(val), k, even)}
<1> DEFINE sorted == Sorted([i \in DOMAIN val |-> i], {p \in Pairs(val) : val[p[1]] < val[p[2]]})
           width  == IF even THEN k ELSE 1
           Item(g, i) == LET x == sorted[(g - 1) * width + i] IN <<val[x], <<x>>>>
           Sets(g) == [i \in 1 .. k |-> IF i <= width THEN Item(g, i) ELSE NoItems]
<1>1. Initial(val, k, even) = {Decreasing(sets) : sets \in {Sets(g) : g \in 1 .. (Len(val) \div width)}}
  BY DEF Initial
<1>2. sorted = Ordered(val) /\ width = Width(k, even)
  BY DEF Ordered, Width
<1>3. \A g : Sets(g) = Start(val, k, Width(k, even), g)
  <2> SUFFICES ASSUME NEW g PROVE Sets(g) = Start(val, k, Width(k, even), g)
    OBVIOUS
  <2> DEFINE F(s, w) == [i \in 1 .. k |-> IF i <= w THEN <<val[s[(g - 1) * w + i]], <<s[(g - 1) * w + i]>>>>
                                          ELSE NoItems]
  <2>1. Sets(g) = F(sorted, width)
    OBVIOUS
  <2>2. Start(val, k, Width(k, even), g) = F(Ordered(val), Width(k, even))
    BY DEF Start
  <2> HIDE DEF F, sorted, width, Sets
  <2> QED
    BY <1>2, <2>1, <2>2
<1>4. Groups(Len(val), k, even) = Len(val) \div width
  BY DEF Groups, Width
<1> HIDE DEF Sets, width
<1>5. {Decreasing(sets) : sets \in {Sets(g) : g \in 1 .. (Len(val) \div width)}}
        = {Decreasing(Sets(g)) : g \in 1 .. (Len(val) \div width)}
  OBVIOUS
<1>6. {Decreasing(Sets(g)) : g \in 1 .. (Len(val) \div width)}
        = {Decreasing(Start(val, k, Width(k, even), g)) : g \in 1 .. (Len(val) \div width)}
  BY <1>3, Zenon
<1> QED
  BY <1>1, <1>4, <1>5, <1>6, Zenon

Started(x, val, n, k, w, even, g) ==
  /\ Unordered(x, n, k, even)
  /\ \A q \in Slots(x, k) : \E a \in 1 .. w : q = <<a, 1>> /\ Held(x, q) = Ordered(val)[(g - 1) * w + a]
  /\ \A a \in 1 .. w : <<a, 1>> \in Slots(x, k) /\ Held(x, <<a, 1>>) = Ordered(val)[(g - 1) * w + a]

LEMMA StartRule ==
  ASSUME NEW val \in Seq(Nat), NEW n, n = Len(val), NEW k \in Nat, NEW w \in 1 .. k, NEW even \in BOOLEAN,
         even => w = k, NEW g, \A a \in 1 .. w : (g - 1) * w + a \in 1 .. n
  PROVE  Started(Start(val, k, w, g), val, n, k, w, even, g)
<1> DEFINE x == Start(val, k, w, g)
           item(a) == Ordered(val)[(g - 1) * w + a]
<1>0. n \in Nat /\ \A i \in 1 .. n : val[i] \in Nat
  BY LenProperties, ElementOfSeq
<1>1. \A a \in 1 .. w : item(a) \in 1 .. n
  <2>1. Permutes(Ordered(val), n)
    BY OrderedRule
  <2>2. \A j \in 1 .. n : Ordered(val)[j] \in 1 .. n
    BY <2>1 DEF Permutes
  <2> QED
    BY <2>2, Zenon
<1>2. x = [i \in 1 .. k |-> IF i <= w THEN <<val[item(i)], <<item(i)>>>> ELSE NoItems]
  BY DEF Start
<1> HIDE DEF x, item
<1>3. \A a \in 1 .. k : x[a] = IF a <= w THEN <<val[item(a)], <<item(a)>>>> ELSE <<0, <<>>>>
  BY <1>2 DEF NoItems
<1>4. \A a \in 1 .. w : a \in 1 .. k /\ a <= w
  OBVIOUS
<1>5. ASSUME NEW a \in 1 .. w
      PROVE  /\ a \in 1 .. k /\ x[a][1] \in Nat /\ x[a][2] = <<item(a)>>
             /\ x[a][2] \in Seq(1 .. n) /\ Len(x[a][2]) = 1 /\ x[a][2] # <<>> /\ x[a][2][1] = item(a)
             /\ x[a] \in Nat \X Seq(1 .. n)
  <2>1. x[a] = <<val[item(a)], <<item(a)>>>> /\ item(a) \in 1 .. n /\ val[item(a)] \in Nat
    BY <1>0, <1>1, <1>3, <1>4
  <2>2. <<item(a)>> \in Seq(1 .. n) /\ Len(<<item(a)>>) = 1 /\ <<item(a)>> # <<>> /\ <<item(a)>>[1] = item(a)
    BY <2>1
  <2>3. PICK u \in Nat, e \in Seq(1 .. n) : /\ u = val[item(a)] /\ e = <<item(a)>>
                                          /\ Len(e) = 1 /\ e # <<>> /\ e[1] = item(a)
    BY <2>1, <2>2
  <2>4. x[a] = <<u, e>>
    BY <2>1, <2>3, Zenon
  <2>5. x[a][1] = u /\ x[a][2] = e /\ x[a] \in Nat \X Seq(1 .. n)
    BY <2>4
  <2> QED
    BY <1>4, <2>3, <2>5, Zenon
<1>6. ASSUME NEW a \in 1 .. k, ~(a <= w)
      PROVE  /\ x[a][1] = 0 /\ x[a][2] = <<>> /\ Len(x[a][2]) = 0
             /\ x[a] \in Nat \X Seq(1 .. n)
  <2>1. x[a] = <<0, <<>>>>
    BY <1>3, <1>6
  <2>2. <<>> \in Seq(1 .. n) /\ Len(<<>>) = 0
    OBVIOUS
  <2>3. PICK e \in Seq(1 .. n) : e = <<>> /\ Len(e) = 0
    BY <2>2
  <2>4. x[a] = <<0, e>>
    BY <2>1, <2>3, Zenon
  <2>5. x[a][1] = 0 /\ x[a][2] = e /\ x[a] \in Nat \X Seq(1 .. n)
    BY <2>4
  <2> QED
    BY <2>3, <2>5, Zenon
<1>7. \A a \in 1 .. k : a <= w => a \in 1 .. w
  OBVIOUS
<1>8. \A a \in 1 .. w : <<a, 1>> \in Slots(x, k) /\ Held(x, <<a, 1>>) = item(a)
  <2> SUFFICES ASSUME NEW a \in 1 .. w PROVE <<a, 1>> \in Slots(x, k) /\ Held(x, <<a, 1>>) = item(a)
    OBVIOUS
  <2>1. a \in 1 .. k /\ 1 \in 1 .. Len(x[a][2]) /\ x[a][2][1] = item(a)
    BY <1>5
  <2>2. <<a, 1>> \in Slots(x, k)
    BY <2>1 DEF Slots
  <2> QED
    BY <2>1, <2>2 DEF Held
<1>9. ASSUME NEW q \in Slots(x, k)
      PROVE  \E a \in 1 .. w : q = <<a, 1>> /\ Held(x, q) = item(a)
  <2>1. PICK a \in 1 .. k, b \in Nat : q = <<a, b>> /\ b \in 1 .. Len(x[a][2])
    BY SlotOf
  <2>2. a <= w
    <3> SUFFICES ASSUME ~(a <= w) PROVE FALSE
      OBVIOUS
    <3>1. b \in 1 .. 0
      BY <1>6, <2>1
    <3> QED
      BY <3>1
  <2>3. a \in 1 .. w /\ b \in 1 .. 1
    BY <1>5, <1>7, <2>1, <2>2
  <2>4. b = 1
    BY <2>3
  <2> QED
    BY <1>8, <2>1, <2>3, <2>4
<1>10. x \in StatesOf(n, k)
  <2>1. \A a \in 1 .. k : x[a] \in Nat \X Seq(1 .. n)
    BY <1>5, <1>6, <1>7
  <2>2. x = [a \in 1 .. k |-> x[a]]
    BY <1>2
  <2> QED
    BY <2>1, <2>2 DEF StatesOf
<1>11. \A a \in 1 .. k : Len(x[a][2]) <= 1 /\ (x[a][2] = <<>> => x[a][1] = 0)
  <2> SUFFICES ASSUME NEW a \in 1 .. k PROVE Len(x[a][2]) <= 1 /\ (x[a][2] = <<>> => x[a][1] = 0)
    OBVIOUS
  <2>1. CASE a <= w
    <3>1. Len(x[a][2]) = 1 /\ x[a][2] # <<>>
      BY <1>5, <1>7, <2>1
    <3> QED
      BY <3>1
  <2>2. CASE ~(a <= w)
    <3>1. Len(x[a][2]) = 0 /\ x[a][1] = 0
      BY <1>6, <2>2
    <3> QED
      BY <3>1
  <2> QED
    BY <2>1, <2>2
<1>12. even => \A a, c \in 1 .. k : Len(x[a][2]) = Len(x[c][2])
  <2>1. even => \A a \in 1 .. k : a \in 1 .. w
    OBVIOUS
  <2> QED
    BY <1>5, <2>1
<1>13. Slots(x, k) # {}
  <2>1. 1 \in 1 .. w
    OBVIOUS
  <2> QED
    BY <1>8, <2>1
<1>14. Unordered(x, n, k, even)
  BY <1>10, <1>11, <1>12, <1>13 DEF Unordered
<1> QED
  BY <1>8, <1>9, <1>14 DEF x, item, Started

LEMMA InitialFamily ==
  ASSUME NEW val \in Seq(Nat), NEW n, n = Len(val), 1 <= n, NEW k \in Nat, 1 <= k,
         NEW even \in BOOLEAN, even => n % k = 0
  PROVE  Family(Initial(val, k, even), n, k, even) /\ Initial(val, k, even) # {}
<1> DEFINE w == Width(k, even)
           m == Groups(n, k, even)
           st(g) == Start(val, k, w, g)
           nth(g, a) == (g - 1) * w + a
           S == Initial(val, k, even)
<1>0. n \in Nat
  BY LenProperties
<1>1. w \in 1 .. k /\ m \in Nat /\ 1 <= m /\ m * w = n /\ (even => w = k) /\ w \in Nat /\ 1 <= w
  <2>1. w \in 1 .. k /\ m \in Nat /\ 1 <= m /\ m * w = n /\ (even => w = k)
    BY <1>0, WidthRule
  <2> HIDE DEF w, m
  <2> QED
    BY <2>1
<1>2. S = {Decreasing(st(g)) : g \in 1 .. m}
  BY InitialStarts
<1> HIDE DEF w, m, S
<1>3. /\ \A g \in 1 .. m, a \in 1 .. w : nth(g, a) \in 1 .. n
      /\ \A j \in 1 .. n : \E g \in 1 .. m, a \in 1 .. w : j = nth(g, a)
      /\ \A g, h \in 1 .. m, a, c \in 1 .. w : nth(g, a) = nth(h, c) => g = h /\ a = c
  <2>1. /\ \A g \in 1 .. m, a \in 1 .. w : (g - 1) * w + a \in 1 .. m * w
        /\ \A j \in 1 .. m * w : \E g \in 1 .. m, a \in 1 .. w : j = (g - 1) * w + a
        /\ \A g, h \in 1 .. m, a, c \in 1 .. w : (g - 1) * w + a = (h - 1) * w + c => g = h /\ a = c
    BY <1>1, Grouped
  <2> QED
    BY <1>1, <2>1
<1>4. \A g \in 1 .. m :
        /\ Unordered(st(g), n, k, even)
        /\ \A q \in Slots(st(g), k) :
              \E a \in 1 .. w : q = <<a, 1>> /\ Held(st(g), q) = Ordered(val)[nth(g, a)]
        /\ \A a \in 1 .. w : /\ <<a, 1>> \in Slots(st(g), k)
                             /\ Held(st(g), <<a, 1>>) = Ordered(val)[nth(g, a)]
  <2> SUFFICES ASSUME NEW g \in 1 .. m
               PROVE  /\ Unordered(st(g), n, k, even)
                      /\ \A q \in Slots(st(g), k) :
                            \E a \in 1 .. w : q = <<a, 1>> /\ Held(st(g), q) = Ordered(val)[nth(g, a)]
                      /\ \A a \in 1 .. w : /\ <<a, 1>> \in Slots(st(g), k)
                                           /\ Held(st(g), <<a, 1>>) = Ordered(val)[nth(g, a)]
    OBVIOUS
  <2>1. \A a \in 1 .. w : (g - 1) * w + a \in 1 .. n
    BY <1>3
  <2>2. w \in 1 .. k /\ (even => w = k)
    BY <1>1
  <2> QED
    <3>1. Started(st(g), val, n, k, w, even, g)
      BY <2>1, <2>2, StartRule
    <3> HIDE DEF st
    <3> QED
      BY <3>1 DEF Started
<1>p. Permutes(Ordered(val), n)
  BY OrderedRule
<1> HIDE DEF st, nth
<1> DEFINE z(g) == Decreasing(st(g))
<1>5. ASSUME NEW g \in 1 .. m, NEW q \in Slots(st(g), k), NEW r \in Slots(st(g), k),
             Held(st(g), q) = Held(st(g), r)
      PROVE  q = r
  <2>1. PICK a \in 1 .. w : q = <<a, 1>> /\ Held(st(g), q) = Ordered(val)[nth(g, a)]
    BY <1>4
  <2>2. PICK c \in 1 .. w : r = <<c, 1>> /\ Held(st(g), r) = Ordered(val)[nth(g, c)]
    BY <1>4
  <2>3. nth(g, a) = nth(g, c)
    BY <1>3, <1>5, <1>p, <2>1, <2>2 DEF Permutes
  <2>4. a = c
    BY <1>3, <2>3
  <2> QED
    BY <2>1, <2>2, <2>4
<1>6. ASSUME NEW g \in 1 .. m
      PROVE  /\ StateInv(z(g), n, k, even)
             /\ \A q \in Slots(st(g), k) : \E r \in Slots(z(g), k) : Held(z(g), r) = Held(st(g), q)
             /\ \A r \in Slots(z(g), k) : \E q \in Slots(st(g), k) : Held(z(g), r) = Held(st(g), q)
             /\ \A q, r \in Slots(z(g), k) : Held(z(g), q) = Held(z(g), r) => q = r
  <2>1. Unordered(st(g), n, k, even)
    BY <1>4
  <2>2. \A q, r \in Slots(st(g), k) : Held(st(g), q) = Held(st(g), r) => q = r
    BY <1>5
  <2> QED
    BY <2>1, <2>2, DecreasingState DEF Unordered
<1> HIDE DEF z
<1>7. S = {z(g) : g \in 1 .. m}
  BY <1>2 DEF z
<1>8. IsFiniteSet(S) /\ S # {}
  <2>1. IsFiniteSet(1 .. m)
    BY <1>1, FS_Interval
  <2> DEFINE f == [g \in 1 .. m |-> z(g)]
  <2>2. f \in Surjection(1 .. m, {z(g) : g \in 1 .. m})
    BY DEF Surjection
  <2>4. IsFiniteSet({z(g) : g \in 1 .. m})
    <3> HIDE DEF f
    <3> QED
      BY <2>1, <2>2, FS_Surjection
  <2>3. 1 \in 1 .. m
    BY <1>1
  <2> QED
    BY <1>7, <2>3, <2>4
<1>9. \A x \in S : StateInv(x, n, k, even)
  BY <1>6, <1>7
<1>10. ASSUME NEW i \in 1 .. n
       PROVE  \E x \in S : \E q \in Slots(x, k) : Held(x, q) = i
  <2>1. PICK j \in 1 .. n : Ordered(val)[j] = i
    BY <1>p DEF Permutes
  <2>2. PICK g \in 1 .. m, a \in 1 .. w : j = nth(g, a)
    BY <1>3
  <2>3. <<a, 1>> \in Slots(st(g), k) /\ Held(st(g), <<a, 1>>) = i
    BY <1>4, <2>1, <2>2
  <2>4. PICK r \in Slots(z(g), k) : Held(z(g), r) = i
    BY <1>6, <2>3
  <2> QED
    BY <1>7, <2>4
<1>11. ASSUME NEW g \in 1 .. m, NEW h \in 1 .. m, NEW q \in Slots(z(g), k), NEW r \in Slots(z(h), k),
              Held(z(g), q) = Held(z(h), r)
       PROVE  g = h /\ q = r
  <2>1. PICK qq \in Slots(st(g), k) : Held(z(g), q) = Held(st(g), qq)
    BY <1>6
  <2>2. PICK rr \in Slots(st(h), k) : Held(z(h), r) = Held(st(h), rr)
    BY <1>6
  <2>3. PICK a \in 1 .. w : Held(st(g), qq) = Ordered(val)[nth(g, a)]
    BY <1>4
  <2>4. PICK c \in 1 .. w : Held(st(h), rr) = Ordered(val)[nth(h, c)]
    BY <1>4
  <2>7. Ordered(val)[nth(g, a)] = Ordered(val)[nth(h, c)]
    BY <1>11, <2>1, <2>2, <2>3, <2>4, Zenon
  <2>8. nth(g, a) \in 1 .. n /\ nth(h, c) \in 1 .. n
    BY <1>3
  <2>9. \A i, j \in 1 .. n : Ordered(val)[i] = Ordered(val)[j] => i = j
    BY <1>p DEF Permutes
  <2>5. nth(g, a) = nth(h, c)
    BY <2>7, <2>8, <2>9, Zenon
  <2>6. g = h
    BY <1>3, <2>5
  <2> QED
    BY <1>6, <1>11, <2>6
<1>12. ASSUME NEW x \in S, NEW y \in S, NEW q \in Slots(x, k), NEW r \in Slots(y, k),
              Held(x, q) = Held(y, r)
       PROVE  x = y /\ q = r
  <2>1. PICK g \in 1 .. m, h \in 1 .. m : x = z(g) /\ y = z(h)
    BY <1>7
  <2>2. g = h /\ q = r
    BY <1>11, <1>12, <2>1
  <2> QED
    BY <2>1, <2>2
<1>13. Family(S, n, k, even)
  BY <1>8, <1>9, <1>10, <1>12 DEF Family
<1> QED
  BY <1>8, <1>13 DEF S

(* Where the items of joined sequences are.                                *)
Placed(ss, s, u, k) ==
  /\ \A a \in 1 .. k : u[a] \in Nat /\ Len(ss[a]) \in Nat
  /\ \A a \in 1 .. k : \A b \in 1 .. Len(ss[a]) : u[a] + b \in 1 .. Len(s) /\ s[u[a] + b] = ss[a][b]
  /\ \A p \in 1 .. Len(s) : \E a \in 1 .. k : \E b \in 1 .. Len(ss[a]) : p = u[a] + b

LEMMA JoinPlaces ==
  ASSUME NEW C, NEW ss \in Seq(Seq(C)), NEW s \in Seq(C), Joins(ss, s)
  PROVE  Placed(ss, s, Starts(ss), Len(ss))
<1> DEFINE u == Starts(ss)
           L == Len(ss)
<1>1. /\ L \in Nat /\ u \in [1 .. L + 1 -> Nat]
      /\ \A a \in 1 .. L : u[a + 1] = u[a] + Len(ss[a])
  BY StartsRule, LenProperties
<1>2. \A a \in 1 .. L : Len(ss[a]) \in Nat
  BY ElementOfSeq, LenProperties
<1>3. \A a \in 1 .. L : u[a + 1] <= u[L + 1]
  <2> SUFFICES ASSUME NEW a \in 1 .. L PROVE u[a + 1] <= u[L + 1]
    OBVIOUS
  <2>1. a + 1 \in 1 .. L + 1 /\ L + 1 \in (a + 1) .. L + 1
    BY <1>1
  <2> QED
    BY <2>1, StartsIncrease
<1>4. /\ Len(s) = u[L + 1] /\ Len(s) \in Nat
      /\ \A a \in 1 .. L : \A b \in 1 .. Len(ss[a]) : ss[a][b] = s[u[a] + b]
  BY LenProperties DEF Joins
<1>c. \A p \in 1 .. u[L + 1] : \E a \in 1 .. L : u[a] < p /\ p <= u[a + 1]
  BY StartsCover
<1> HIDE DEF u, L
<1>5. \A a \in 1 .. L : u[a] \in Nat /\ u[a + 1] \in Nat
  BY <1>1
<1>6. ASSUME NEW a \in 1 .. L, NEW b \in 1 .. Len(ss[a])
      PROVE  u[a] + b \in 1 .. Len(s) /\ s[u[a] + b] = ss[a][b]
  <2>1. PICK x, y, z \in Nat : x = u[a] /\ y = Len(ss[a]) /\ z = Len(s)
    BY <1>2, <1>4, <1>5
  <2>2. x + y <= z /\ b \in 1 .. y
    BY <1>1, <1>3, <1>4, <2>1
  <2>3. x + b \in 1 .. z
    BY <2>2
  <2> QED
    BY <1>4, <2>1, <2>3
<1>7. ASSUME NEW p \in 1 .. Len(s)
      PROVE  \E a \in 1 .. L : \E b \in 1 .. Len(ss[a]) : p = u[a] + b
  <2>1. PICK a \in 1 .. L : u[a] < p /\ p <= u[a + 1]
    BY <1>c, <1>4
  <2>2. PICK x, y \in Nat : x = u[a] /\ y = Len(ss[a])
    BY <1>2, <1>5
  <2>3. u[a + 1] = x + y
    BY <1>1, <2>2
  <2>6. p \in Nat /\ x < p /\ p <= x + y
    BY <1>4, <2>1, <2>2, <2>3
  <2>4. p - x \in 1 .. y /\ p = x + (p - x)
    BY <2>2, <2>6
  <2>5. PICK b \in 1 .. y : p = x + b
    BY <2>4
  <2> QED
    BY <2>2, <2>5
<1> QED
  BY <1>2, <1>5, <1>6, <1>7 DEF u, L, Placed

-----------------------------------------------------------------------------
(* k sequences that have the numbers up to n, each in one place.           *)
IsPartition(parts, n, k) ==
  /\ parts \in [1 .. k -> Seq(1 .. n)]
  /\ \A i \in 1 .. n : \E a \in 1 .. k : \E b \in 1 .. Len(parts[a]) : parts[a][b] = i
  /\ \A a, c \in 1 .. k : \A b \in 1 .. Len(parts[a]), d \in 1 .. Len(parts[c]) :
       parts[a][b] = parts[c][d] => a = c /\ b = d

LEMMA PartitionTypes ==
  ASSUME NEW n, NEW k \in Nat, NEW parts, IsPartition(parts, n, k)
  PROVE  /\ parts \in Seq(Seq(1 .. n)) /\ Len(parts) = k /\ DOMAIN parts = 1 .. k
         /\ k # 0 => parts # <<>>
         /\ \A a \in 1 .. k : /\ parts[a] \in Seq(1 .. n) /\ Len(parts[a]) \in Nat
                              /\ DOMAIN parts[a] = 1 .. Len(parts[a])
                              /\ \A b \in 1 .. Len(parts[a]) : parts[a][b] \in 1 .. n
<1>1. parts \in [1 .. k -> Seq(1 .. n)]
  BY DEF IsPartition
<1>2. parts \in Seq(Seq(1 .. n)) /\ Len(parts) = k /\ DOMAIN parts = 1 .. k
  BY <1>1
<1>3. k # 0 => parts # <<>>
  BY <1>2, EmptySeq
<1>4. \A a \in 1 .. k : /\ parts[a] \in Seq(1 .. n) /\ Len(parts[a]) \in Nat
                        /\ DOMAIN parts[a] = 1 .. Len(parts[a])
                        /\ \A b \in 1 .. Len(parts[a]) : parts[a][b] \in 1 .. n
  <2> SUFFICES ASSUME NEW a \in 1 .. k
               PROVE  /\ parts[a] \in Seq(1 .. n) /\ Len(parts[a]) \in Nat
                      /\ DOMAIN parts[a] = 1 .. Len(parts[a])
                      /\ \A b \in 1 .. Len(parts[a]) : parts[a][b] \in 1 .. n
    OBVIOUS
  <2>1. parts[a] \in Seq(1 .. n)
    BY <1>1
  <2> QED
    BY <2>1, LenProperties, ElementOfSeq
<1> QED
  BY <1>2, <1>3, <1>4

(* Joined, they are a permutation.                                         *)
LEMMA FlatPermutes ==
  ASSUME NEW n \in Nat, NEW k \in Nat, k # 0, NEW parts, IsPartition(parts, n, k)
  PROVE  /\ FlattenSeq(parts) \in Seq(1 .. n) /\ Joins(parts, FlattenSeq(parts))
         /\ Len(FlattenSeq(parts)) = n /\ DOMAIN FlattenSeq(parts) = 1 .. n
         /\ Permutes(FlattenSeq(parts), n)
<1>0. PICK f : f = FlattenSeq(parts)
  OBVIOUS
<1> DEFINE L == Len(f)
           u == Starts(parts)
<1>1. /\ parts \in Seq(Seq(1 .. n)) /\ Len(parts) = k /\ parts # <<>>
      /\ \A a \in 1 .. k : \A b \in 1 .. Len(parts[a]) : parts[a][b] \in 1 .. n
  BY PartitionTypes
<1>2. f \in Seq(1 .. n) /\ Joins(parts, f)
  BY <1>0, <1>1, FlattenRule
<1>3. L \in Nat /\ DOMAIN f = 1 .. L /\ f \in [1 .. L -> 1 .. n]
  BY <1>2, LenProperties
<1>4. /\ \A a \in 1 .. k : u[a] \in Nat /\ Len(parts[a]) \in Nat
      /\ \A a \in 1 .. k : \A b \in 1 .. Len(parts[a]) : u[a] + b \in 1 .. L /\ f[u[a] + b] = parts[a][b]
      /\ \A p \in 1 .. L : \E a \in 1 .. k : \E b \in 1 .. Len(parts[a]) : p = u[a] + b
  <2>1. Placed(parts, f, Starts(parts), k)
    BY <1>1, <1>2, JoinPlaces
  <2> QED
    BY <2>1 DEF Placed
<1> HIDE DEF u, L
<1>5. ASSUME NEW p \in 1 .. L, NEW q \in 1 .. L, f[p] = f[q]
      PROVE  p = q
  <2>1. PICK a \in 1 .. k : \E b \in 1 .. Len(parts[a]) : p = u[a] + b
    BY <1>4
  <2>2. PICK b \in 1 .. Len(parts[a]) : p = u[a] + b
    BY <2>1
  <2>3. PICK c \in 1 .. k : \E d \in 1 .. Len(parts[c]) : q = u[c] + d
    BY <1>4
  <2>4. PICK d \in 1 .. Len(parts[c]) : q = u[c] + d
    BY <2>3
  <2>5. parts[a][b] = parts[c][d]
    BY <1>4, <1>5, <2>2, <2>4
  <2>6. a = c /\ b = d
    BY <2>5 DEF IsPartition
  <2> QED
    BY <2>2, <2>4, <2>6
<1>6. ASSUME NEW i \in 1 .. n
      PROVE  \E p \in 1 .. L : f[p] = i
  <2>1. PICK a \in 1 .. k : \E b \in 1 .. Len(parts[a]) : parts[a][b] = i
    BY DEF IsPartition
  <2>2. PICK b \in 1 .. Len(parts[a]) : parts[a][b] = i
    BY <2>1
  <2> QED
    BY <1>4, <2>2
<1>7. L = n
  <2>1. f \in Bijection(1 .. L, 1 .. n)
    BY <1>3, <1>5, <1>6 DEF Bijection, Injection, Surjection, IsInjective
  <2>2. IsFiniteSet(1 .. L) /\ Cardinality(1 .. L) = L /\ IsFiniteSet(1 .. n) /\ Cardinality(1 .. n) = n
    <3>1. \A m \in Nat : IsFiniteSet(1 .. m) /\ Cardinality(1 .. m) = m
      <4> SUFFICES ASSUME NEW m \in Nat PROVE IsFiniteSet(1 .. m) /\ Cardinality(1 .. m) = m
        OBVIOUS
      <4>1. IsFiniteSet(1 .. m) /\ Cardinality(1 .. m) = IF 1 > m THEN 0 ELSE m - 1 + 1
        BY FS_Interval
      <4> QED
        BY <4>1
    <3> QED
      BY <1>3, <3>1
  <2>3. ExistsBijection(1 .. L, 1 .. n)
    BY <2>1 DEF ExistsBijection
  <2> QED
    BY <2>2, <2>3, FS_Bijection
<1>8. Permutes(f, n)
  BY <1>3, <1>5, <1>6, <1>7 DEF Permutes
<1> QED
  BY <1>0, <1>2, <1>3, <1>7, <1>8 DEF L

(* Sorting the items of a part.                                            *)
LEMMA AscendingRule ==
  ASSUME NEW n, NEW s \in Seq(1 .. n)
  PROVE  \E p : /\ Permutes(p, Len(s))
                /\ Ascending(s) = [b \in 1 .. Len(s) |-> s[p[b]]]
                /\ \A b, d \in 1 .. Len(s) : b < d => s[p[b]] <= s[p[d]]
<1> DEFINE less == {q \in Pairs(s) : s[q[1]] < s[q[2]]}
           L == Len(s)
<1>1. L \in Nat /\ DOMAIN s = 1 .. L /\ \A b \in 1 .. L : s[b] \in 1 .. n /\ s[b] \in Int
  <2>1. \A b \in 1 .. n : b \in Int
    OBVIOUS
  <2> QED
    BY <2>1, LenProperties, ElementOfSeq
<1>2. \A b, d \in 1 .. L : <<b, d>> \in less <=> s[b] < s[d]
  BY <1>1 DEF Pairs
<1> HIDE DEF less, L
<1>3. Weak(less, 1 .. L)
  <2>1. \A i, j \in 1 .. L : <<i, j>> \in less => <<j, i>> \notin less
    BY <1>1, <1>2
  <2>2. \A i, j, l \in 1 .. L : <<i, l>> \in less => <<i, j>> \in less \/ <<j, l>> \in less
    BY <1>1, <1>2
  <2> QED
    BY <2>1, <2>2 DEF Weak
<1>4. PICK p : /\ Arranges(p, s, Sorted(s, less))
               /\ \A b, d \in 1 .. L : b < d => <<p[d], p[b]>> \notin less
  BY <1>3, SortedRule DEF L
<1>5. Permutes(p, L) /\ Sorted(s, less) = [b \in 1 .. L |-> s[p[b]]]
  BY <1>4 DEF Arranges, L
<1>6. \A b, d \in 1 .. L : b < d => s[p[b]] <= s[p[d]]
  <2> SUFFICES ASSUME NEW b \in 1 .. L, NEW d \in 1 .. L, b < d PROVE s[p[b]] <= s[p[d]]
    OBVIOUS
  <2>1. p[b] \in 1 .. L /\ p[d] \in 1 .. L
    BY <1>5 DEF Permutes
  <2>2. ~(s[p[d]] < s[p[b]])
    BY <1>2, <1>4, <2>1
  <2> QED
    BY <1>1, <2>1, <2>2
<1>7. Ascending(s) = Sorted(s, less)
  BY DEF Ascending, less
<1> QED
  BY <1>5, <1>6, <1>7 DEF L

(* get_seqlen_balanced_partitions                                          *)
Even(parts, k, even) ==
  /\ \A a \in 1 .. k : \A b, d \in 1 .. Len(parts[a]) : b < d => parts[a][b] <= parts[a][d]
  /\ even => \A a, c \in 1 .. k : Len(parts[a]) = Len(parts[c])
  /\ (\E a \in 1 .. k : parts[a] = <<>>) => \A a \in 1 .. k : Len(parts[a]) <= 1

LEMMA PartitionsRule ==
  ASSUME NEW val \in Seq(Nat), NEW n, n = Len(val), 1 <= n, NEW k \in Nat, 1 <= k,
         NEW even \in BOOLEAN, even => n % k = 0
  PROVE  IsPartition(Partitions(val, k, even), n, k) /\ Even(Partitions(val, k, even), k, even)
<1>0. PICK S0 : S0 = Initial(val, k, even)
  OBVIOUS
<1> DEFINE q == Partitions(val, k, even)
<1>1. Family(S0, n, k, even) /\ S0 # {}
  BY <1>0, InitialFamily
<1>2. PICK x : Reduced(S0) = {x} /\ Family({x}, n, k, even)
  <2>1. ReducedTo(S0, n, k, even)
    BY <1>1, ReducedRule
  <2> QED
    BY <2>1 DEF ReducedTo
<1>3. q = [i \in 1 .. k |-> Ascending(x[i][2])]
  <2> DEFINE W == {[i \in 1 .. k |-> Ascending(state[i][2])] : state \in Reduced(S0)}
  <2>1. q = CHOOSE parts \in W : TRUE
    BY <1>0 DEF Partitions
  <2>2. W = {[i \in 1 .. k |-> Ascending(x[i][2])]}
    BY <1>2
  <2> HIDE DEF W, q
  <2> QED
    BY <2>1, <2>2
<1> HIDE DEF q
<1>4. StateInv(x, n, k, even)
  BY <1>2 DEF Family
<1>5. x \in StatesOf(n, k)
  BY <1>4 DEF StateInv
<1> DEFINE s(a) == x[a][2]
<1>6. \A a \in 1 .. k : /\ s(a) \in Seq(1 .. n) /\ Len(s(a)) \in Nat /\ q[a] = Ascending(s(a))
                        /\ \A b \in 1 .. Len(s(a)) : s(a)[b] \in 1 .. n
  BY <1>3, <1>5, SetTypes
<1>7. /\ \A i \in 1 .. n : \E a \in 1 .. k : \E b \in 1 .. Len(s(a)) : s(a)[b] = i
      /\ \A a, c \in 1 .. k : \A b \in 1 .. Len(s(a)), d \in 1 .. Len(s(c)) :
           s(a)[b] = s(c)[d] => a = c /\ b = d
  <2>1. ASSUME NEW i \in 1 .. n
        PROVE  \E a \in 1 .. k : \E b \in 1 .. Len(s(a)) : s(a)[b] = i
    <3>1. PICK e \in Slots(x, k) : Held(x, e) = i
      BY <1>2 DEF Family
    <3>2. PICK a \in 1 .. k, b \in Nat : e = <<a, b>> /\ b \in 1 .. Len(x[a][2])
      BY SlotOf
    <3>3. Held(x, e) = x[a][2][b]
      BY <3>2 DEF Held
    <3> QED
      BY <3>1, <3>2, <3>3
  <2>2. ASSUME NEW a \in 1 .. k, NEW c \in 1 .. k, NEW b \in 1 .. Len(s(a)), NEW d \in 1 .. Len(s(c)),
               s(a)[b] = s(c)[d]
        PROVE  a = c /\ b = d
    <3>1. b \in Nat /\ d \in Nat
      BY <1>6
    <3>2. <<a, b>> \in Slots(x, k) /\ <<c, d>> \in Slots(x, k)
      BY <3>1 DEF Slots
    <3>3. Held(x, <<a, b>>) = Held(x, <<c, d>>)
      BY <2>2 DEF Held
    <3>4. <<a, b>> = <<c, d>>
      BY <1>2, <3>2, <3>3 DEF Family
    <3> QED
      BY <3>4
  <2> QED
    BY <2>1, <2>2
<1>8. \A a \in 1 .. k : (s(a) = <<>> => \A c \in 1 .. k : Len(s(c)) <= 1)
  BY <1>4 DEF StateInv
<1>9. even => \A a, c \in 1 .. k : Len(s(a)) = Len(s(c))
  BY <1>4 DEF StateInv
<1> HIDE DEF s
<1>10. \A a \in 1 .. k : \E p : /\ Permutes(p, Len(s(a)))
                                /\ q[a] = [b \in 1 .. Len(s(a)) |-> s(a)[p[b]]]
                                /\ \A b, d \in 1 .. Len(s(a)) : b < d => s(a)[p[b]] <= s(a)[p[d]]
  <2> SUFFICES ASSUME NEW a \in 1 .. k
               PROVE  \E p : /\ Permutes(p, Len(s(a)))
                             /\ q[a] = [b \in 1 .. Len(s(a)) |-> s(a)[p[b]]]
                             /\ \A b, d \in 1 .. Len(s(a)) : b < d => s(a)[p[b]] <= s(a)[p[d]]
    OBVIOUS
  <2>1. s(a) \in Seq(1 .. n) /\ q[a] = Ascending(s(a))
    BY <1>6
  <2> QED
    BY <2>1, AscendingRule
<1>11. ASSUME NEW a \in 1 .. k
       PROVE  /\ q[a] \in Seq(1 .. n) /\ Len(q[a]) = Len(s(a))
              /\ \A b, d \in 1 .. Len(s(a)) : b < d => q[a][b] <= q[a][d]
              /\ \A b \in 1 .. Len(s(a)) : \E d \in 1 .. Len(s(a)) : q[a][d] = s(a)[b]
              /\ \E p : Permutes(p, Len(s(a))) /\ \A b \in 1 .. Len(s(a)) : q[a][b] = s(a)[p[b]]
  <2>1. PICK p : /\ Permutes(p, Len(s(a)))
                 /\ q[a] = [b \in 1 .. Len(s(a)) |-> s(a)[p[b]]]
                 /\ \A b, d \in 1 .. Len(s(a)) : b < d => s(a)[p[b]] <= s(a)[p[d]]
    BY <1>10
  <2>2. PICK l \in Nat : l = Len(s(a))
    BY <1>6
  <2>3. \A b \in 1 .. l : p[b] \in 1 .. l /\ s(a)[p[b]] \in 1 .. n
    BY <1>6, <2>1, <2>2 DEF Permutes
  <2>4. q[a] \in Seq(1 .. n) /\ Len(q[a]) = l
    <3>1. q[a] = [b \in 1 .. l |-> s(a)[p[b]]]
      BY <2>1, <2>2
    <3>2. q[a] \in [1 .. l -> 1 .. n]
      BY <2>3, <3>1
    <3> QED
      BY <3>2
  <2>5. \A b \in 1 .. l : q[a][b] = s(a)[p[b]]
    BY <2>1, <2>2
  <2>6. \A b \in 1 .. l : \E d \in 1 .. l : p[d] = b
    BY <2>1, <2>2 DEF Permutes
  <2>7. \A b \in 1 .. l : \E d \in 1 .. l : q[a][d] = s(a)[b]
    <3> SUFFICES ASSUME NEW b \in 1 .. l PROVE \E d \in 1 .. l : q[a][d] = s(a)[b]
      OBVIOUS
    <3>1. PICK d \in 1 .. l : p[d] = b
      BY <2>6
    <3>2. q[a][d] = s(a)[b]
      BY <2>5, <3>1, Zenon
    <3> QED
      BY <3>2, Zenon
  <2>8. \A b, d \in 1 .. l : b < d => q[a][b] <= q[a][d]
    BY <2>1, <2>2, <2>5
  <2>9. \E g : Permutes(g, l) /\ \A b \in 1 .. l : q[a][b] = s(a)[g[b]]
    BY <2>1, <2>2, <2>5
  <2> QED
    BY <2>2, <2>4, <2>7, <2>8, <2>9, Zenon
<1>12. q \in [1 .. k -> Seq(1 .. n)]
  BY <1>3, <1>11
<1>13. ASSUME NEW i \in 1 .. n
       PROVE  \E a \in 1 .. k : \E b \in 1 .. Len(q[a]) : q[a][b] = i
  <2>1. PICK a \in 1 .. k : \E b \in 1 .. Len(s(a)) : s(a)[b] = i
    BY <1>7
  <2>2. PICK b \in 1 .. Len(s(a)) : s(a)[b] = i
    BY <2>1
  <2>3. PICK d \in 1 .. Len(s(a)) : q[a][d] = s(a)[b]
    BY <1>11
  <2>4. d \in 1 .. Len(q[a]) /\ q[a][d] = i
    BY <1>11, <2>2, <2>3
  <2> QED
    BY <2>4
<1>14. ASSUME NEW a \in 1 .. k, NEW c \in 1 .. k, NEW b \in 1 .. Len(q[a]), NEW d \in 1 .. Len(q[c]),
              q[a][b] = q[c][d]
       PROVE  a = c /\ b = d
  <2>1. PICK f : Permutes(f, Len(s(a))) /\ \A e \in 1 .. Len(s(a)) : q[a][e] = s(a)[f[e]]
    BY <1>11
  <2>2. PICK g : Permutes(g, Len(s(c))) /\ \A e \in 1 .. Len(s(c)) : q[c][e] = s(c)[g[e]]
    BY <1>11
  <2>3. b \in 1 .. Len(s(a)) /\ d \in 1 .. Len(s(c))
    BY <1>11
  <2>4. f[b] \in 1 .. Len(s(a)) /\ g[d] \in 1 .. Len(s(c)) /\ s(a)[f[b]] = s(c)[g[d]]
    BY <1>14, <2>1, <2>2, <2>3 DEF Permutes
  <2>5. a = c /\ f[b] = g[d]
    <3>1. PICK y \in 1 .. Len(s(a)), z \in 1 .. Len(s(c)) : y = f[b] /\ z = g[d]
      BY <2>4, Zenon
    <3>2. s(a)[y] = s(c)[z]
      BY <2>4, <3>1, Zenon
    <3>3. a = c /\ y = z
      BY <1>7, <3>2
    <3> QED
      BY <3>1, <3>3, Zenon
  <2>7. b = d
    <3>1. q[a][b] = q[a][d] /\ s(a)[f[b]] = s(a)[f[d]] /\ d \in 1 .. Len(s(a))
      BY <1>14, <2>1, <2>3, <2>5
    <3>2. f[d] \in 1 .. Len(s(a))
      BY <2>1, <3>1 DEF Permutes
    <3>4. PICK e \in 1 .. Len(s(a)), h \in 1 .. Len(s(a)) : e = f[b] /\ h = f[d]
      BY <2>4, <3>2
    <3>5. s(a)[e] = s(a)[h]
      BY <3>1, <3>4
    <3>6. \A i, j \in 1 .. Len(s(a)) : s(a)[i] = s(a)[j] => i = j
      BY <1>7
    <3>7. e = h
      BY <3>5, <3>6
    <3>3. f[b] = f[d]
      BY <3>4, <3>7
    <3> QED
      BY <2>1, <2>3, <3>1, <3>3 DEF Permutes
  <2> QED
    BY <2>5, <2>7
<1>15. IsPartition(q, n, k)
  BY <1>12, <1>13, <1>14 DEF IsPartition
<1>16. \A a \in 1 .. k : \A b, d \in 1 .. Len(q[a]) : b < d => q[a][b] <= q[a][d]
  BY <1>11
<1>17. even => \A a, c \in 1 .. k : Len(q[a]) = Len(q[c])
  BY <1>9, <1>11
<1>18. (\E a \in 1 .. k : q[a] = <<>>) => \A a \in 1 .. k : Len(q[a]) <= 1
  <2> SUFFICES ASSUME NEW a \in 1 .. k, q[a] = <<>> PROVE \A c \in 1 .. k : Len(q[c]) <= 1
    OBVIOUS
  <2>1. Len(s(a)) = 0
    BY <1>11, EmptySeq
  <2>2. s(a) = <<>>
    BY <1>6, <2>1, EmptySeq
  <2> QED
    BY <1>8, <1>11, <2>2
<1>19. Even(q, k, even)
  <2> HIDE DEF q
  <2> QED
    BY <1>16, <1>17, <1>18 DEF Even
<1> QED
  BY <1>15, <1>19 DEF q

-----------------------------------------------------------------------------
(* No partition is empty when there are enough items.                      *)
LEMMA NoneEmpty ==
  ASSUME NEW n \in Nat, NEW k \in 1 .. n, NEW parts, IsPartition(parts, n, k),
         (\E a \in 1 .. k : parts[a] = <<>>) => \A a \in 1 .. k : Len(parts[a]) <= 1
  PROVE  \A a \in 1 .. k : parts[a] # <<>>
<1> SUFFICES ASSUME NEW c \in 1 .. k, parts[c] = <<>> PROVE FALSE
  OBVIOUS
<1>1. \A a \in 1 .. k : Len(parts[a]) \in Nat /\ Len(parts[a]) <= 1
  BY PartitionTypes
<1>2. Len(parts[c]) = 0
  BY EmptySeq
<1> DEFINE here(a, i) == \E b \in 1 .. Len(parts[a]) : parts[a][b] = i
           f == [i \in 1 .. n |-> CHOOSE a \in 1 .. k : here(a, i)]
           T == (1 .. k) \ {c}
<1>3. \A i \in 1 .. n : f[i] \in 1 .. k /\ here(f[i], i)
  <2>1. \A i \in 1 .. n : \E a \in 1 .. k : here(a, i)
    BY Zenon DEF IsPartition
  <2> HIDE DEF here
  <2> QED
    BY <2>1
<1>4. \A i \in 1 .. n : f[i] \in T
  <2> SUFFICES ASSUME NEW i \in 1 .. n, f[i] = c PROVE FALSE
    BY <1>3
  <2>1. here(c, i)
    BY <1>3
  <2> QED
    BY <1>2, <2>1
<1>5. \A i, j \in 1 .. n : f[i] = f[j] => i = j
  <2> SUFFICES ASSUME NEW i \in 1 .. n, NEW j \in 1 .. n, f[i] = f[j] PROVE i = j
    OBVIOUS
  <2>1. PICK a \in 1 .. k : here(a, i) /\ here(a, j)
    <3>1. PICK x, y : x = f[i] /\ y = f[j]
      OBVIOUS
    <3> HIDE DEF f, here
    <3>2. x \in 1 .. k /\ here(x, i) /\ here(y, j) /\ x = y
      BY <1>3, <3>1
    <3> QED
      BY <3>2
  <2>2. PICK b \in 1 .. Len(parts[a]), d \in 1 .. Len(parts[a]) : parts[a][b] = i /\ parts[a][d] = j
    BY <2>1
  <2>3. b = d
    BY <1>1
  <2> QED
    BY <2>2, <2>3
<1>6. IsFiniteSet(T) /\ Cardinality(T) = k - 1
  <2>1. IsFiniteSet(1 .. k) /\ Cardinality(1 .. k) = k
    BY FS_Interval
  <2> QED
    BY <2>1, FS_RemoveElement
<1>7. Cardinality(1 .. n) = n
  BY FS_Interval
<1>8. f \in Injection(1 .. n, T)
  <2>1. f \in [1 .. n -> T]
    BY <1>4
  <2> HIDE DEF f, T
  <2> QED
    BY <1>5, <2>1 DEF Injection, IsInjective
<1> HIDE DEF f, T
<1>9. Cardinality(1 .. n) <= Cardinality(T)
  BY <1>6, <1>8, FS_Injection
<1> QED
  BY <1>6, <1>7, <1>9

(* No assertion of get_seqlen_balanced_partitions fails: there are as many *)
(* partitions as asked for, every item is in one place of one of them,     *)
(* none is empty, and they are equally large where this is asked for; each *)
(* is sorted.  This is for whatever workloads, and whatever the heap pops  *)
(* of states that compare equal.                                           *)
THEOREM PartitionsAsserted ==
  ASSUME NEW val \in Seq(Nat), NEW k \in 1 .. Len(val), NEW even \in BOOLEAN,
         even => Len(val) % k = 0
  PROVE  /\ IsPartition(Partitions(val, k, even), Len(val), k)
         /\ \A a \in 1 .. k : Partitions(val, k, even)[a] # <<>>
         /\ even => \A a, c \in 1 .. k :
                      Len(Partitions(val, k, even)[a]) = Len(Partitions(val, k, even)[c])
         /\ \A a \in 1 .. k : \A b, d \in 1 .. Len(Partitions(val, k, even)[a]) :
              b < d => Partitions(val, k, even)[a][b] <= Partitions(val, k, even)[a][d]
<1>1. PICK n \in Nat : n = Len(val) /\ k \in 1 .. n /\ 1 <= n /\ 1 <= k /\ k \in Nat
  BY LenProperties
<1>2. PICK parts : parts = Partitions(val, k, even)
  OBVIOUS
<1>3. /\ IsPartition(parts, n, k)
      /\ \A a \in 1 .. k : \A b, d \in 1 .. Len(parts[a]) : b < d => parts[a][b] <= parts[a][d]
      /\ even => \A a, c \in 1 .. k : Len(parts[a]) = Len(parts[c])
      /\ (\E a \in 1 .. k : parts[a] = <<>>) => \A a \in 1 .. k : Len(parts[a]) <= 1
  <2>1. IsPartition(parts, n, k) /\ Even(parts, k, even)
    BY <1>1, <1>2, PartitionsRule
  <2> QED
    BY <2>1 DEF Even
<1>4. \A a \in 1 .. k : parts[a] # <<>>
  BY <1>1, <1>3, NoneEmpty
<1> QED
  BY <1>1, <1>2, <1>3, <1>4

LEMMA Rearranged ==
  ASSUME NEW n, NEW k \in Nat, NEW parts, IsPartition(parts, n, k), NEW p, Permutes(p, k),
         NEW t, t = [j \in 1 .. k |-> parts[p[j]]]
  PROVE  IsPartition(t, n, k)
<1>1. \A j \in 1 .. k : p[j] \in 1 .. k /\ t[j] = parts[p[j]]
  BY DEF Permutes
<1>2. t \in [1 .. k -> Seq(1 .. n)]
  BY <1>1 DEF IsPartition
<1>3. ASSUME NEW i \in 1 .. n
      PROVE  \E a \in 1 .. k : \E b \in 1 .. Len(t[a]) : t[a][b] = i
  <2>1. PICK c \in 1 .. k : \E b \in 1 .. Len(parts[c]) : parts[c][b] = i
    BY DEF IsPartition
  <2>2. PICK a \in 1 .. k : p[a] = c
    BY DEF Permutes
  <2>3. t[a] = parts[c]
    BY <1>1, <2>2
  <2> QED
    BY <2>1, <2>3
<1>4. ASSUME NEW a \in 1 .. k, NEW c \in 1 .. k, NEW b \in 1 .. Len(t[a]), NEW d \in 1 .. Len(t[c]),
             t[a][b] = t[c][d]
      PROVE  a = c /\ b = d
  <2>1. t[a] = parts[p[a]] /\ t[c] = parts[p[c]] /\ p[a] \in 1 .. k /\ p[c] \in 1 .. k
    BY <1>1
  <2>2. b \in 1 .. Len(parts[p[a]]) /\ d \in 1 .. Len(parts[p[c]]) /\ parts[p[a]][b] = parts[p[c]][d]
    BY <1>4, <2>1
  <2>3. p[a] = p[c] /\ b = d
    BY <2>1, <2>2 DEF IsPartition
  <2> QED
    BY <2>3 DEF Permutes
<1> QED
  BY <1>2, <1>3, <1>4 DEF IsPartition

(* The places from which both ends are filled.                             *)
Ends(k, h) == [j \in 1 .. k |-> IF j <= h THEN 2 * ((h - j) + 1) - 1 ELSE 2 * (j - h)]

LEMMA EndsPermute ==
  ASSUME NEW k \in Nat, NEW h \in Nat, NEW l \in Nat, h + l = k, l <= h, h <= l + 1
  PROVE  Permutes(Ends(k, h), k)
<1>1. \A j \in 1 .. k : Ends(k, h)[j] \in 1 .. k
  BY DEF Ends
<1>2. Ends(k, h) \in [1 .. k -> 1 .. k]
  BY <1>1 DEF Ends
<1>3. \A i, j \in 1 .. k : Ends(k, h)[i] = Ends(k, h)[j] => i = j
  <2> SUFFICES ASSUME NEW i \in 1 .. k, NEW j \in 1 .. k, Ends(k, h)[i] = Ends(k, h)[j] PROVE i = j
    OBVIOUS
  <2>1. /\ Ends(k, h)[i] = IF i <= h THEN 2 * ((h - i) + 1) - 1 ELSE 2 * (i - h)
        /\ Ends(k, h)[j] = IF j <= h THEN 2 * ((h - j) + 1) - 1 ELSE 2 * (j - h)
    BY DEF Ends
  <2>2. CASE i <= h /\ j <= h
    <3>1. 2 * ((h - i) + 1) - 1 = 2 * ((h - j) + 1) - 1
      BY <2>1, <2>2
    <3> QED
      BY <3>1
  <2>3. CASE i <= h /\ ~(j <= h)
    <3>1. 2 * ((h - i) + 1) - 1 = 2 * (j - h)
      BY <2>1, <2>3
    <3> QED
      BY <3>1
  <2>4. CASE ~(i <= h) /\ j <= h
    <3>1. 2 * (i - h) = 2 * ((h - j) + 1) - 1
      BY <2>1, <2>4
    <3> QED
      BY <3>1
  <2>5. CASE ~(i <= h) /\ ~(j <= h)
    <3>1. 2 * (i - h) = 2 * (j - h)
      BY <2>1, <2>5
    <3> QED
      BY <3>1
  <2> QED
    BY <2>2, <2>3, <2>4, <2>5
<1>4. ASSUME NEW i \in 1 .. k
      PROVE  \E j \in 1 .. k : Ends(k, h)[j] = i
  <2>1. \A j \in 1 .. k : Ends(k, h)[j] = IF j <= h THEN 2 * ((h - j) + 1) - 1 ELSE 2 * (j - h)
    BY DEF Ends
  <2>2. PICK m \in Nat : i = 2 * m \/ i = 2 * m + 1
    <3>1. i \div 2 \in Nat /\ (i = 2 * (i \div 2) \/ i = 2 * (i \div 2) + 1)
      OBVIOUS
    <3> QED
      BY <3>1
  <2>3. CASE i = 2 * m
    <3>1. h + m \in 1 .. k /\ ~(h + m <= h) /\ 2 * ((h + m) - h) = i
      BY <2>3
    <3> QED
      BY <2>1, <3>1
  <2>4. CASE i = 2 * m + 1
    <3>1. h - m \in 1 .. k /\ h - m <= h /\ 2 * ((h - (h - m)) + 1) - 1 = i
      BY <2>4
    <3> QED
      BY <2>1, <3>1
  <2> QED
    BY <2>2, <2>3, <2>4
<1> QED
  BY <1>2, <1>3, <1>4 DEF Permutes

(* The small micro-batches at both ends: the order changes, no more.       *)
LEMMA BothEndsRule ==
  ASSUME NEW n, NEW k \in Nat, NEW parts, IsPartition(parts, n, k), NEW val \in [1 .. n -> Nat]
  PROVE  IsPartition(SmallAtBothEnds(parts, val), n, k)
<1> DEFINE More(a, b) == \/ Total(val, a) > Total(val, b)
                         \/ Total(val, a) = Total(val, b) /\ First(a) > First(b)
           less == {q \in Pairs(parts) : More(parts[q[1]], parts[q[2]])}
<1>1. parts \in Seq(Seq(1 .. n)) /\ Len(parts) = k /\ DOMAIN parts = 1 .. k
  BY PartitionTypes
<1>2. \A i, j \in 1 .. k : <<i, j>> \in less <=> More(parts[i], parts[j])
  BY <1>1 DEF Pairs
<1>3. \A i \in 1 .. k : Total(val, parts[i]) \in Nat /\ First(parts[i]) \in Int
  <2> SUFFICES ASSUME NEW i \in 1 .. k PROVE Total(val, parts[i]) \in Nat /\ First(parts[i]) \in Int
    OBVIOUS
  <2>1. parts[i] \in Seq(1 .. n)
    BY <1>1, ElementOfSeq
  <2> QED
    BY <2>1, TotalType, FirstType
<1>4. Weak(less, 1 .. k)
  <2>1. ASSUME NEW i \in 1 .. k, NEW j \in 1 .. k, <<i, j>> \in less
        PROVE  <<j, i>> \notin less
    <3>1. PICK a, b, c, d \in Int : /\ a = Total(val, parts[i]) /\ b = First(parts[i])
                                    /\ c = Total(val, parts[j]) /\ d = First(parts[j])
      BY <1>3
    <3>2. /\ <<i, j>> \in less <=> a > c \/ (a = c /\ b > d)
          /\ <<j, i>> \in less <=> c > a \/ (c = a /\ d > b)
      BY <1>2, <3>1
    <3> HIDE DEF less
    <3> QED
      BY <2>1, <3>2
  <2>2. ASSUME NEW i \in 1 .. k, NEW j \in 1 .. k, NEW l \in 1 .. k, <<i, l>> \in less
        PROVE  <<i, j>> \in less \/ <<j, l>> \in less
    <3>1. PICK a, b, c, d \in Int : /\ a = Total(val, parts[i]) /\ b = First(parts[i])
                                    /\ c = Total(val, parts[j]) /\ d = First(parts[j])
      BY <1>3
    <3>2. PICK e, f \in Int : e = Total(val, parts[l]) /\ f = First(parts[l])
      BY <1>3
    <3>3. /\ <<i, j>> \in less <=> a > c \/ (a = c /\ b > d)
          /\ <<j, l>> \in less <=> c > e \/ (c = e /\ d > f)
          /\ <<i, l>> \in less <=> a > e \/ (a = e /\ b > f)
      BY <1>2, <3>1, <3>2
    <3> HIDE DEF less
    <3> QED
      BY <2>2, <3>3
  <2> QED
    BY <2>1, <2>2 DEF Weak
<1> HIDE DEF less
<1>5. PICK p : Arranges(p, parts, Sorted(parts, less))
  BY <1>1, <1>4, SortedRule
<1> DEFINE s == Sorted(parts, less)
<1>6. Permutes(p, k) /\ s = [j \in 1 .. k |-> parts[p[j]]]
  BY <1>1, <1>5 DEF Arranges
<1> DEFINE odd(z) == [i \in 1 .. CeilDiv(Len(z), 2) |-> z[2 * i - 1]]
           even(z) == [i \in 1 .. (Len(z) \div 2) |-> z[2 * i]]
<1>7. SmallAtBothEnds(parts, val) = Reverse(odd(s)) \o even(s)
  BY DEF SmallAtBothEnds, less
<1>8. PICK t : t = s
  OBVIOUS
<1> HIDE DEF s
<1>9. IsPartition(t, n, k)
  BY <1>6, <1>8, Rearranged
<1>10. t \in Seq(Seq(1 .. n)) /\ Len(t) = k /\ DOMAIN t = 1 .. k /\ \A i \in 1 .. k : t[i] \in Seq(1 .. n)
  BY <1>9, PartitionTypes
<1>11. PICK h \in Nat, l \in Nat : /\ h = CeilDiv(k, 2) /\ l = k \div 2
                                   /\ h + l = k /\ l <= h /\ h <= l + 1
  <2>1. CeilDiv(k, 2) = (k + 1) \div 2
    BY DEF CeilDiv
  <2>2. PICK u \in Nat, v \in Nat : u = (k + 1) \div 2 /\ v = k \div 2
    OBVIOUS
  <2>3. u + v = k /\ v <= u /\ u <= v + 1
    BY <2>2
  <2> QED
    BY <2>1, <2>2, <2>3
<1>12. odd(t) = [i \in 1 .. h |-> t[2 * i - 1]] /\ even(t) = [i \in 1 .. l |-> t[2 * i]]
  BY <1>10, <1>11
<1>13. PICK o \in Seq(Seq(1 .. n)), e \in Seq(Seq(1 .. n)) :
          /\ o = odd(t) /\ e = even(t) /\ Len(o) = h /\ Len(e) = l
          /\ \A i \in 1 .. h : o[i] = t[2 * i - 1]
          /\ \A i \in 1 .. l : e[i] = t[2 * i]
  <2>1. \A i \in 1 .. h : 2 * i - 1 \in 1 .. k
    BY <1>11
  <2>2. \A i \in 1 .. l : 2 * i \in 1 .. k
    BY <1>11
  <2>3. PICK x, y : x = odd(t) /\ y = even(t)
    OBVIOUS
  <2> HIDE DEF odd, even
  <2>4. x = [i \in 1 .. h |-> t[2 * i - 1]] /\ y = [i \in 1 .. l |-> t[2 * i]]
    BY <1>12, <2>3
  <2>5. x \in [1 .. h -> Seq(1 .. n)] /\ y \in [1 .. l -> Seq(1 .. n)]
    BY <1>10, <2>1, <2>2, <2>4
  <2>6. x \in Seq(Seq(1 .. n)) /\ y \in Seq(Seq(1 .. n)) /\ Len(x) = h /\ Len(y) = l
    BY <2>5
  <2>7. /\ \A i \in 1 .. h : x[i] = t[2 * i - 1]
        /\ \A i \in 1 .. l : y[i] = t[2 * i]
    BY <2>4
  <2> QED
    BY <2>3, <2>6, <2>7, Zenon
<1>14. PICK w : w = SmallAtBothEnds(parts, val)
  OBVIOUS
<1>15. w = Reverse(o) \o e
  BY <1>7, <1>8, <1>13, <1>14, Zenon
<1>16. PICK ro \in Seq(Seq(1 .. n)) : /\ ro = Reverse(o) /\ Len(ro) = h
                                      /\ \A j \in 1 .. h : ro[j] = t[2 * ((h - j) + 1) - 1]
  <2> DEFINE rev(m) == [j \in 1 .. m |-> o[(m - j) + 1]]
  <2>0. Reverse(o) = rev(Len(o))
    BY DEF Reverse
  <2>1. Reverse(o) = [j \in 1 .. h |-> o[(h - j) + 1]]
    <3>1. Len(o) = h
      BY <1>13
    <3>2. rev(Len(o)) = rev(h)
      <4> HIDE DEF rev
      <4> QED
        BY <3>1
    <3> QED
      BY <2>0, <3>2
  <2>2. \A j \in 1 .. h : (h - j) + 1 \in 1 .. h
    OBVIOUS
  <2>3. \A j \in 1 .. h : o[(h - j) + 1] = t[2 * ((h - j) + 1) - 1] /\ o[(h - j) + 1] \in Seq(1 .. n)
    BY <1>13, <2>2, ElementOfSeq
  <2>4. PICK ro : ro = Reverse(o)
    OBVIOUS
  <2>5. ro \in [1 .. h -> Seq(1 .. n)] /\ \A j \in 1 .. h : ro[j] = t[2 * ((h - j) + 1) - 1]
    BY <2>1, <2>3, <2>4
  <2>6. ro \in Seq(Seq(1 .. n)) /\ Len(ro) = h
    BY <2>5
  <2> QED
    BY <2>4, <2>5, <2>6
<1>17. /\ Len(w) = h + l /\ w \in Seq(Seq(1 .. n))
       /\ \A j \in 1 .. h + l : w[j] = IF j <= h THEN ro[j] ELSE e[j - h]
  <2>1. /\ (ro \o e) \in Seq(Seq(1 .. n)) /\ Len(ro \o e) = Len(ro) + Len(e)
        /\ \A j \in 1 .. Len(ro) + Len(e) : (ro \o e)[j] = IF j <= Len(ro) THEN ro[j] ELSE e[j - Len(ro)]
    BY <1>13, <1>16, ConcatProperties
  <2>2. w = ro \o e /\ Len(ro) = h /\ Len(e) = l
    BY <1>13, <1>15, <1>16
  <2> QED
    BY <2>1, <2>2
<1>18. \A j \in 1 .. k : w[j] = t[Ends(k, h)[j]]
  <2> SUFFICES ASSUME NEW j \in 1 .. k PROVE w[j] = t[Ends(k, h)[j]]
    OBVIOUS
  <2>1. Ends(k, h)[j] = IF j <= h THEN 2 * ((h - j) + 1) - 1 ELSE 2 * (j - h)
    BY DEF Ends
  <2>2. CASE j <= h
    <3>1. j \in 1 .. h /\ j \in 1 .. h + l
      BY <2>2
    <3> QED
      BY <1>16, <1>17, <2>1, <2>2, <3>1
  <2>3. CASE ~(j <= h)
    <3>1. j - h \in 1 .. l /\ j \in 1 .. h + l
      BY <1>11, <2>3
    <3> QED
      BY <1>13, <1>17, <2>1, <2>3, <3>1
  <2> QED
    BY <2>2, <2>3
<1>19. w = [j \in 1 .. k |-> t[Ends(k, h)[j]]]
  <2>1. w = [j \in 1 .. k |-> w[j]]
    <3>1. DOMAIN w = 1 .. k
      BY <1>11, <1>17, LenProperties
    <3>2. w = [j \in DOMAIN w |-> w[j]]
      BY <1>17
    <3> QED
      BY <3>1, <3>2
  <2> QED
    BY <1>18, <2>1
<1>20. Permutes(Ends(k, h), k)
  BY <1>11, EndsPermute
<1>21. IsPartition(w, n, k)
  BY <1>9, <1>19, <1>20, Rearranged
<1> QED
  BY <1>14, <1>21

(* rearrange_micro_batches                                                 *)
LEMMA MicroBatchesRule ==
  ASSUME NEW lens \in Seq(Nat), lens # <<>>, NEW num \in Nat, 1 <= num
  PROVE  IsPartition(MicroBatches(lens, num), Len(lens), num)
<1>1. PICK n \in Nat : n = Len(lens) /\ 1 <= n /\ DOMAIN lens = 1 .. n
  <2>1. Len(lens) \in Nat /\ Len(lens) # 0 /\ DOMAIN lens = 1 .. Len(lens)
    BY EmptySeq, LenProperties
  <2>2. 1 <= Len(lens)
    BY <2>1
  <2> QED
    BY <2>1, <2>2
<1>2. \A i \in 1 .. n : Workload(lens[i]) \in Nat
  <2>1. \A i \in 1 .. n : lens[i] \in Nat
    BY <1>1, ElementOfSeq
  <2>2. \A m \in Nat : m * m \in Nat /\ 24576 * m \in Nat
    OBVIOUS
  <2>3. \A m \in Nat : Workload(m) \in Nat
    BY <2>2 DEF Workload
  <2> QED
    BY <2>1, <2>3
<1>3. PICK val : val = [i \in DOMAIN lens |-> Workload(lens[i])]
  OBVIOUS
<1>4. val \in [1 .. n -> Nat]
  BY <1>1, <1>2, <1>3
<1>5. val \in Seq(Nat) /\ Len(val) = n
  BY <1>4
<1>6. IsPartition(Partitions(val, num, FALSE), n, num)
  BY <1>1, <1>5, PartitionsRule
<1>7. IsPartition(SmallAtBothEnds(Partitions(val, num, FALSE), val), n, num)
  BY <1>4, <1>6, BothEndsRule
<1>8. MicroBatches(lens, num) = SmallAtBothEnds(Partitions(val, num, FALSE), val)
  BY <1>3 DEF MicroBatches
<1> QED
  BY <1>1, <1>7, <1>8

-----------------------------------------------------------------------------
(* Equal parts of a sequence.                                              *)
LEMMA SameSeq ==
  ASSUME NEW C, NEW s \in Seq(C), NEW t \in Seq(C), NEW n, Len(s) = n, Len(t) = n,
         \A i \in 1 .. n : s[i] = t[i]
  PROVE  s = t
<1>1. DOMAIN s = 1 .. n /\ DOMAIN t = 1 .. n
  BY LenProperties
<1>2. s = [i \in 1 .. n |-> s[i]] /\ t = [i \in 1 .. n |-> t[i]]
  BY <1>1, LenProperties
<1>3. [i \in 1 .. n |-> s[i]] = [i \in 1 .. n |-> t[i]]
  OBVIOUS
<1> QED
  BY <1>2, <1>3, Zenon

(* t is the a-th part of s, of the given size.                             *)
IsPart(t, s, a, size) ==
  /\ Len(t) = size /\ DOMAIN t = 1 .. size
  /\ \A b \in 1 .. size : (a - 1) * size + b \in 1 .. Len(s) /\ t[b] = s[(a - 1) * size + b]

LEMMA PartRule ==
  ASSUME NEW C, NEW s \in Seq(C), NEW size \in Nat, NEW a \in Nat, 1 <= a, a * size <= Len(s)
  PROVE  /\ SubSeq(s, (a - 1) * size + 1, a * size) \in Seq(C)
         /\ IsPart(SubSeq(s, (a - 1) * size + 1, a * size), s, a, size)
<1>1. PICK u \in Nat : u = (a - 1) * size /\ a * size = u + size
  <2>1. PICK c \in Nat : c = a - 1 /\ c + 1 = a
    OBVIOUS
  <2>2. c * size \in Nat /\ (c + 1) * size = c * size + size
    BY <2>1, Times
  <2> QED
    BY <2>1, <2>2
<1>2. PICK L \in Nat : L = Len(s) /\ u + size <= L
  BY <1>1, LenProperties
<1>3. \A i \in u + 1 .. u + size : s[i] \in C
  BY <1>2, ElementOfSeq
<1>4. PICK t : t = SubSeq(s, u + 1, u + size)
  OBVIOUS
<1>5. /\ t \in Seq(C)
      /\ Len(t) = IF u + 1 <= u + size THEN (u + size) - (u + 1) + 1 ELSE 0
      /\ \A i \in 1 .. (u + size) - (u + 1) + 1 : t[i] = s[(u + 1) + i - 1]
  <2>1. u + 1 \in Int /\ u + size \in Int
    OBVIOUS
  <2> QED
    BY <1>3, <1>4, <2>1, SubSeqProperties
<1>6. Len(t) = size /\ \A b \in 1 .. size : u + b \in 1 .. L /\ t[b] = s[u + b]
  <2>1. Len(t) = size
    BY <1>5
  <2>2. ASSUME NEW b \in 1 .. size
        PROVE  u + b \in 1 .. L /\ t[b] = s[u + b]
    <3>1. u + b \in 1 .. L /\ b \in 1 .. (u + size) - (u + 1) + 1 /\ (u + 1) + b - 1 = u + b
      BY <1>2
    <3> QED
      BY <1>5, <3>1
  <2> QED
    BY <2>1, <2>2
<1>7. IsPart(t, s, a, size)
  BY <1>1, <1>2, <1>5, <1>6, LenProperties DEF IsPart
<1>8. t = SubSeq(s, (a - 1) * size + 1, a * size)
  BY <1>1, <1>4
<1> QED
  BY <1>5, <1>7, <1>8

LEMMA Quotient ==
  ASSUME NEW n \in Nat \ {0}, NEW size \in Nat
  PROVE  (n * size) \div n = size /\ (n * size) % n = 0
<1>1. n * size \in Nat /\ n * size = size * n
  OBVIOUS
<1>2. PICK m \in Nat : m = n * size /\ m = size * n + 0
  BY <1>1
<1>3. 0 \in 0 .. n - 1
  OBVIOUS
<1>4. size = m \div n /\ 0 = m % n
  BY <1>2, <1>3
<1> QED
  BY <1>2, <1>4

LEMMA ChunkRule ==
  ASSUME NEW C, NEW s \in Seq(C), NEW n \in Nat \ {0}, NEW size \in Nat, Len(s) = n * size
  PROVE  /\ Chunk(s, n) \in [1 .. n -> Seq(C)]
         /\ \A a \in 1 .. n : IsPart(Chunk(s, n)[a], s, a, size)
<1>1. Chunk(s, n) = [i \in 1 .. n |-> SubSeq(s, (i - 1) * size + 1, i * size)]
  <2> DEFINE chunk(z) == [i \in 1 .. n |-> SubSeq(s, (i - 1) * z + 1, i * z)]
  <2>1. Chunk(s, n) = chunk(Len(s) \div n)
    BY DEF Chunk
  <2>2. Len(s) \div n = size
    BY Quotient
  <2>3. chunk(Len(s) \div n) = chunk(size)
    <3> HIDE DEF chunk
    <3> QED
      BY <2>2
  <2> QED
    BY <2>1, <2>3
<1>2. ASSUME NEW a \in 1 .. n
      PROVE  /\ SubSeq(s, (a - 1) * size + 1, a * size) \in Seq(C)
             /\ IsPart(SubSeq(s, (a - 1) * size + 1, a * size), s, a, size)
  <2>1. a \in Nat /\ n \in Nat /\ 1 <= a /\ a <= n
    OBVIOUS
  <2>2. a * size <= n * size
    BY <2>1, Times
  <2> QED
    BY <2>1, <2>2, PartRule
<1> QED
  BY <1>1, <1>2

LEMMA EqualStarts ==
  ASSUME NEW C, NEW ss \in Seq(Seq(C)), NEW l \in Nat, \A a \in 1 .. Len(ss) : Len(ss[a]) = l
  PROVE  \A a \in 1 .. Len(ss) + 1 : Starts(ss)[a] = (a - 1) * l
<1> DEFINE u == Starts(ss)
           L == Len(ss)
           G == {m \in Nat : m <= L => u[m + 1] = m * l}
<1>1. L \in Nat /\ u[1] = 0 /\ \A a \in 1 .. L : u[a + 1] = u[a] + l
  BY StartsRule, LenProperties
<1> HIDE DEF u, L
<1>2. 0 \in G
  <2>1. 0 * l = 0 /\ 0 + 1 = 1
    OBVIOUS
  <2> QED
    BY <1>1, <2>1
<1>3. ASSUME NEW m \in G
      PROVE  m + 1 \in G
  <2> SUFFICES ASSUME m + 1 <= L PROVE u[(m + 1) + 1] = (m + 1) * l
    OBVIOUS
  <2>1. m <= L /\ m + 1 \in 1 .. L /\ m \in Nat
    BY <1>1
  <2>2. u[m + 1] = m * l
    BY <2>1
  <2>3. u[(m + 1) + 1] = u[m + 1] + l
    BY <1>1, <2>1
  <2>4. (m + 1) * l = m * l + l
    BY <2>1, Times
  <2> QED
    BY <2>2, <2>3, <2>4
<1>4. G = Nat
  <2>1. G \in SUBSET Nat
    OBVIOUS
  <2> HIDE DEF G
  <2> QED
    BY <1>2, <1>3, <2>1, Induction
<1>5. ASSUME NEW a \in 1 .. L + 1
      PROVE  u[a] = (a - 1) * l
  <2>1. PICK m \in Nat : m = a - 1 /\ m <= L /\ m + 1 = a
    BY <1>1
  <2>2. m \in G
    <3> HIDE DEF G
    <3> QED
      BY <1>4
  <2>3. u[m + 1] = m * l
    BY <2>1, <2>2
  <2> QED
    BY <2>1, <2>3
<1> QED
  BY <1>5 DEF u, L

(* What equal parts join to.                                               *)
LEMMA FlattenParts ==
  ASSUME NEW C, NEW n \in Nat \ {0}, NEW out \in [1 .. n -> Seq(C)], NEW size \in Nat,
         NEW t \in Seq(C), Len(t) = n * size, \A a \in 1 .. n : IsPart(out[a], t, a, size)
  PROVE  FlattenSeq(out) = t
<1>1. out \in Seq(Seq(C)) /\ Len(out) = n
  OBVIOUS
<1>2. out # <<>>
  BY <1>1, EmptySeq
<1>3. PICK f : f = FlattenSeq(out)
  OBVIOUS
<1>4. f \in Seq(C) /\ Joins(out, f)
  BY <1>1, <1>2, <1>3, FlattenRule
<1>5. \A a \in 1 .. n + 1 : Starts(out)[a] = (a - 1) * size
  <2>1. \A a \in 1 .. n : Len(out[a]) = size
    BY DEF IsPart
  <2>2. \A a \in 1 .. Len(out) + 1 : Starts(out)[a] = (a - 1) * size
    BY <1>1, <2>1, EqualStarts
  <2> QED
    BY <1>1, <2>2
<1>6. Placed(out, f, Starts(out), n)
  BY <1>1, <1>4, JoinPlaces
<1>7. Len(f) = Len(t)
  <2>1. Len(f) = Starts(out)[n + 1]
    BY <1>1, <1>4 DEF Joins
  <2>2. n + 1 \in 1 .. n + 1 /\ (n + 1) - 1 = n
    OBVIOUS
  <2> QED
    BY <1>5, <2>1, <2>2
<1>8. ASSUME NEW p \in 1 .. Len(f)
      PROVE  f[p] = t[p]
  <2>1. PICK a \in 1 .. n : \E b \in 1 .. Len(out[a]) : p = Starts(out)[a] + b
    BY <1>6 DEF Placed
  <2>2. PICK b \in 1 .. Len(out[a]) : p = Starts(out)[a] + b
    BY <2>1
  <2>3. Starts(out)[a] = (a - 1) * size /\ b \in 1 .. size
    <3>1. a \in 1 .. n + 1
      OBVIOUS
    <3> QED
      BY <1>5, <3>1 DEF IsPart
  <2>4. f[p] = out[a][b]
    BY <1>6, <2>2 DEF Placed
  <2>5. out[a][b] = t[(a - 1) * size + b]
    BY <2>3 DEF IsPart
  <2> QED
    BY <2>2, <2>3, <2>4, <2>5
<1>9. f = t
  BY <1>4, <1>7, <1>8, SameSeq
<1> QED
  BY <1>3, <1>9

-----------------------------------------------------------------------------
(* restore_dynamic_batch puts the outputs back in the order of the rows.   *)
LEMMA RestoreRule ==
  ASSUME NEW n \in Nat, NEW k \in Nat, k # 0, NEW parts, IsPartition(parts, n, k), NEW F, NEW out,
         \A p \in 1 .. n : out[p] = F[FlattenSeq(parts)[p]]
  PROVE  Restore(out, parts) = [i \in 1 .. n |-> F[i]]
<1>1. PICK idx : idx = FlattenSeq(parts)
  OBVIOUS
<1>2. DOMAIN idx = 1 .. n /\ Permutes(idx, n)
  BY <1>1, FlatPermutes
<1> DEFINE back(x, D) == [i \in D |-> out[CHOOSE j \in D : x[j] = i]]
<1>3. Restore(out, parts) = back(idx, DOMAIN idx)
  BY <1>1 DEF Restore
<1>4. back(idx, DOMAIN idx) = back(idx, 1 .. n)
  <2> HIDE DEF back
  <2> QED
    BY <1>2
<1>5. ASSUME NEW i \in 1 .. n
      PROVE  out[CHOOSE j \in 1 .. n : idx[j] = i] = F[i]
  <2>1. \E j \in 1 .. n : idx[j] = i
    BY <1>2 DEF Permutes
  <2>2. PICK j : j = CHOOSE q \in 1 .. n : idx[q] = i
    OBVIOUS
  <2>3. j \in 1 .. n /\ idx[j] = i
    BY <2>1, <2>2
  <2>4. out[j] = F[i]
    BY <1>1, <2>3
  <2> QED
    BY <2>2, <2>4
<1>6. back(idx, 1 .. n) = [i \in 1 .. n |-> F[i]]
  BY <1>5
<1> QED
  BY <1>3, <1>4, <1>6, Zenon

(* What a rank returns for its rows: F of each, in their order.            *)
Restores(F, n, parts) ==
  Restore(FlattenSeq([j \in DOMAIN parts |-> [i \in DOMAIN parts[j] |-> F[parts[j][i]]]]), parts)
    = [i \in 1 .. n |-> F[i]]

LEMMA OutputRule ==
  ASSUME NEW C, NEW n \in Nat, NEW F \in [1 .. n -> C], NEW k \in Nat, k # 0,
         NEW parts, IsPartition(parts, n, k)
  PROVE  Restores(F, n, parts)
<1>1. /\ parts \in Seq(Seq(1 .. n)) /\ Len(parts) = k /\ DOMAIN parts = 1 .. k
      /\ \A a \in 1 .. k : /\ parts[a] \in Seq(1 .. n) /\ Len(parts[a]) \in Nat
                           /\ DOMAIN parts[a] = 1 .. Len(parts[a])
                           /\ \A b \in 1 .. Len(parts[a]) : parts[a][b] \in 1 .. n
  BY PartitionTypes
<1>2. PICK outs : outs = [j \in DOMAIN parts |-> [i \in DOMAIN parts[j] |-> F[parts[j][i]]]]
  OBVIOUS
<1>3. ASSUME NEW a \in 1 .. k
      PROVE  /\ outs[a] \in Seq(C) /\ Len(outs[a]) = Len(parts[a])
             /\ \A b \in 1 .. Len(parts[a]) : outs[a][b] = F[parts[a][b]]
  <2>1. PICK l \in Nat : l = Len(parts[a]) /\ DOMAIN parts[a] = 1 .. l
    BY <1>1
  <2>2. outs[a] = [i \in DOMAIN parts[a] |-> F[parts[a][i]]]
    BY <1>1, <1>2
  <2>3. \A b \in 1 .. l : F[parts[a][b]] \in C
    BY <1>1, <2>1
  <2>4. outs[a] = [i \in 1 .. l |-> F[parts[a][i]]]
    BY <2>1, <2>2
  <2>5. outs[a] \in [1 .. l -> C] /\ \A b \in 1 .. l : outs[a][b] = F[parts[a][b]]
    BY <2>3, <2>4
  <2>6. outs[a] \in Seq(C) /\ Len(outs[a]) = l
    BY <2>5
  <2> QED
    BY <2>1, <2>5, <2>6
<1>4. outs \in Seq(Seq(C)) /\ Len(outs) = k
  <2>1. outs = [a \in 1 .. k |-> outs[a]]
    BY <1>1, <1>2
  <2>2. outs \in [1 .. k -> Seq(C)]
    BY <1>3, <2>1
  <2> QED
    BY <2>2
<1>5. PICK out : out = FlattenSeq(outs)
  OBVIOUS
<1>6. out \in Seq(C) /\ Joins(outs, out)
  <2>1. outs # <<>>
    BY <1>4, EmptySeq
  <2> QED
    BY <1>4, <1>5, <2>1, FlattenRule
<1>7. PICK idx : idx = FlattenSeq(parts)
  OBVIOUS
<1>8. idx \in Seq(1 .. n) /\ Joins(parts, idx) /\ Len(idx) = n
  BY <1>7, FlatPermutes
<1>9. Placed(parts, idx, Starts(parts), k) /\ Placed(outs, out, Starts(outs), k)
  BY <1>1, <1>4, <1>6, <1>8, JoinPlaces
<1>10. \A a \in 1 .. k + 1 : Starts(outs)[a] = Starts(parts)[a]
  <2>1. k <= Len(outs) /\ k <= Len(parts) /\ \A i \in 1 .. k : Len(outs[i]) = Len(parts[i])
    BY <1>1, <1>3, <1>4
  <2>d. PICK D : D = C \cup (1 .. n)
    OBVIOUS
  <2>2. parts \in Seq(Seq(D)) /\ outs \in Seq(Seq(D))
    <3>1. \A S, T : \A s \in Seq(S) : S \subseteq T => s \in Seq(T)
      <4> SUFFICES ASSUME NEW S, NEW T, NEW s \in Seq(S), S \subseteq T PROVE s \in Seq(T)
        OBVIOUS
      <4>1. Len(s) \in Nat /\ s \in [1 .. Len(s) -> S]
        BY LenProperties
      <4>2. s \in [1 .. Len(s) -> T]
        BY <4>1
      <4> QED
        BY <4>1, <4>2
    <3>2. C \subseteq D /\ 1 .. n \subseteq D
      BY <2>d
    <3>3. Seq(C) \subseteq Seq(D) /\ Seq(1 .. n) \subseteq Seq(D)
      BY <3>1, <3>2
    <3> QED
      BY <1>1, <1>4, <3>1, <3>3
  <2> QED
    BY <2>1, <2>2, StartsPrefix
<1>11. ASSUME NEW p \in 1 .. n
       PROVE  out[p] = F[idx[p]]
  <2>1. PICK a \in 1 .. k : \E b \in 1 .. Len(parts[a]) : p = Starts(parts)[a] + b
    BY <1>8, <1>9 DEF Placed
  <2>2. PICK b \in 1 .. Len(parts[a]) : p = Starts(parts)[a] + b
    BY <2>1
  <2>3. idx[p] = parts[a][b]
    BY <1>9, <2>2 DEF Placed
  <2>4. p = Starts(outs)[a] + b /\ b \in 1 .. Len(outs[a])
    <3>1. a \in 1 .. k + 1
      OBVIOUS
    <3> QED
      BY <1>3, <1>10, <2>2, <3>1
  <2>5. out[p] = outs[a][b]
    BY <1>9, <2>4 DEF Placed
  <2> QED
    BY <1>3, <2>3, <2>5
<1>12. Restore(out, parts) = [i \in 1 .. n |-> F[i]]
  BY <1>7, <1>11, RestoreRule
<1> QED
  BY <1>2, <1>5, <1>12, Zenon DEF Restores

-----------------------------------------------------------------------------
(* The least common multiple is one.                                       *)
LEMMA LcmRule ==
  ASSUME NEW a \in Nat \ {0}, NEW b \in Nat \ {0}
  PROVE  Lcm(a, b) \in Nat \ {0} /\ Lcm(a, b) % a = 0 /\ Lcm(a, b) % b = 0
<1> DEFINE both(m) == Divides(a, m) /\ Divides(b, m)
           T == {m \in Nat : 1 <= m /\ both(m)}
           lcm(m) == both(m) /\ \A k \in 1 .. m - 1 : ~both(k)
<1>1. a * b \in Nat /\ 1 <= a * b /\ a * b = b * a
  OBVIOUS
<1>2. (a * b) % a = 0 /\ (a * b) % b = 0
  <2>1. (a * b) % a = 0
    BY Quotient
  <2>2. (b * a) % b = 0
    BY Quotient
  <2> QED
    BY <1>1, <2>1, <2>2
<1>3. PICK p \in Nat : p = a * b
  BY <1>1
<1>4. p \in T
  BY <1>1, <1>2, <1>3 DEF Divides
<1>5. PICK m \in T : \A y \in T : m <= y
  <2>1. T \in SUBSET Nat /\ T # {}
    BY <1>4
  <2> HIDE DEF T
  <2> QED
    BY <2>1, LeastNumber
<1>6. m \in 1 .. p /\ lcm(m)
  <2>1. m <= p /\ m \in Nat /\ 1 <= m /\ both(m)
    BY <1>4, <1>5
  <2>2. ASSUME NEW k \in 1 .. m - 1, both(k) PROVE FALSE
    <3>1. k \in T
      BY <2>1, <2>2
    <3>2. m <= k
      BY <1>5, <3>1
    <3> QED
      BY <2>1, <3>2
  <2> HIDE DEF both
  <2> QED
    BY <2>1, <2>2
<1>7. Lcm(a, b) = CHOOSE x \in 1 .. p : lcm(x)
  <2>1. Lcm(a, b) = CHOOSE x \in 1 .. a * b : lcm(x)
    BY DEF Lcm
  <2> QED
    BY <1>3, <2>1
<1> HIDE DEF lcm
<1>8. Lcm(a, b) \in 1 .. p /\ lcm(Lcm(a, b))
  BY <1>6, <1>7
<1> QED
  BY <1>8 DEF lcm, Divides

LEMMA DividesTransitive ==
  ASSUME NEW a \in Nat \ {0}, NEW b \in Nat \ {0}, NEW c \in Nat, b % a = 0, c % b = 0
  PROVE  c % a = 0
<1>1. b \div a \in Nat /\ b = a * (b \div a) + (b % a)
  BY DivMod
<1>2. c \div b \in Nat /\ c = b * (c \div b) + (c % b)
  BY DivMod
<1>3. PICK d \in Nat, e \in Nat : d = b \div a /\ e = c \div b
  BY <1>1, <1>2
<1>4. b = a * d /\ c = b * e
  BY <1>1, <1>2, <1>3
<1>5. d * e \in Nat /\ c = a * (d * e)
  BY <1>4
<1> QED
  BY <1>5, Quotient

LEMMA MultipleOf ==
  ASSUME NEW a \in Nat \ {0}, NEW c \in Nat, c % a = 0
  PROVE  \E d \in Nat : c = a * d
<1>1. c \div a \in Nat /\ c = a * (c \div a) + (c % a)
  BY DivMod
<1>2. PICK d \in Nat : d = c \div a
  BY <1>1
<1>3. a * d \in Nat
  OBVIOUS
<1> QED
  BY <1>1, <1>2, <1>3

LEMMA ConstantsRule ==
  /\ DpSize \in Nat \ {0} /\ SpSize \in Nat \ {0} /\ NumWorkers \in Nat \ {0}
  /\ MiniBatch \in Nat \ {0} /\ MiniBatch % DpSize = 0
  /\ CriticMiniBatch \in Nat /\ Epochs \in Nat \ {0} /\ Shuffle \in BOOLEAN
  /\ MaxTokenLen \in Nat
BY DataParallelAssumption DEF DataParallelAssumption

(* A sampled batch is padded to a multiple of both sizes.                  *)
LEMMA BatchMultipleRule ==
  /\ BatchMultiple \in Nat \ {0}
  /\ BatchMultiple % DpSize = 0 /\ BatchMultiple % MiniBatch = 0
<1> DEFINE m == Lcm(DpSize, MiniBatch)
<1>1. m \in Nat \ {0} /\ m % DpSize = 0 /\ m % MiniBatch = 0
  BY ConstantsRule, LcmRule
<1> HIDE DEF m
<1>2. CASE CriticMiniBatch = 0
  BY <1>1, <1>2 DEF BatchMultiple, m
<1>3. CASE CriticMiniBatch # 0
  <2>1. PICK M : M = Lcm(m, CriticMiniBatch)
    OBVIOUS
  <2>2. BatchMultiple = M
    BY <1>3, <2>1 DEF BatchMultiple, m
  <2>3. CriticMiniBatch \in Nat \ {0}
    BY <1>3, ConstantsRule
  <2>4. M \in Nat \ {0} /\ M % m = 0
    BY <1>1, <2>1, <2>3, LcmRule
  <2>5. M % DpSize = 0 /\ M % MiniBatch = 0
    BY <1>1, <2>4, ConstantsRule, DividesTransitive
  <2> QED
    BY <2>2, <2>4, <2>5
<1> QED
  BY <1>2, <1>3

LEMMA PaddedLength ==
  ASSUME NEW n \in Nat, NEW m \in Nat \ {0}
  PROVE  /\ (m - (n % m)) % m \in Nat
         /\ (n + ((m - (n % m)) % m)) % m = 0
<1>1. n \div m \in Nat /\ n = m * (n \div m) + (n % m) /\ n % m \in 0 .. m - 1
  BY DivMod
<1>2. PICK d \in Nat, r \in 0 .. m - 1 : d = n \div m /\ r = n % m
  BY <1>1
<1>3. n = m * d + r /\ m * d \in Nat
  BY <1>1, <1>2
<1>4. CASE r = 0
  <2>1. (m - r) % m = 0
    <3>1. m - r = m * 1
      BY <1>4
    <3> QED
      BY <3>1, Quotient
  <2>2. (m * d) % m = 0
    BY Quotient
  <2>3. n + 0 = m * d
    BY <1>3, <1>4
  <2> QED
    BY <1>2, <2>1, <2>2, <2>3
<1>5. CASE r # 0
  <2>1. (m - r) % m = m - r
    <3>1. m - r \in 0 .. m - 1 /\ m - r \in Nat /\ m - r = 0 * m + (m - r) /\ 1 <= m
      BY <1>5
    <3> QED
      BY <3>1
  <2>2. n + (m - r) = m * (d + 1) /\ d + 1 \in Nat /\ m - r \in Nat
    BY <1>3
  <2>3. (m * (d + 1)) % m = 0
    BY <2>2, Quotient
  <2> QED
    BY <1>2, <2>1, <2>2, <2>3
<1> QED
  BY <1>4, <1>5

-----------------------------------------------------------------------------
(* What a rank needs on its own, and what they agree upon.                 *)
LEMMA MaxRule ==
  ASSUME NEW S \in SUBSET Nat, S # {}, NEW n \in Nat, \A x \in S : x <= n
  PROVE  Max(S) \in S
<1> DEFINE U == {u \in Nat : \A x \in S : x <= u}
<1>1. PICK u \in U : \A v \in U : u <= v
  <2>1. U \in SUBSET Nat /\ U # {}
    OBVIOUS
  <2> HIDE DEF U
  <2> QED
    BY <2>1, LeastNumber
<1>2. u \in S
  <2> SUFFICES ASSUME u \notin S PROVE FALSE
    OBVIOUS
  <2>1. \A x \in S : x \in Nat /\ x <= u - 1
    OBVIOUS
  <2>2. u - 1 \in Nat
    <3>1. PICK x \in S : TRUE
      OBVIOUS
    <3>2. x <= u - 1 /\ x \in Nat /\ u \in Nat
      BY <2>1
    <3> QED
      BY <3>2
  <2>3. u - 1 \in U
    BY <2>1, <2>2
  <2> QED
    BY <1>1, <2>2, <2>3
<1>3. \A y \in S : u >= y
  OBVIOUS
<1>4. \E x \in S : \A y \in S : x >= y
  BY <1>2, <1>3
<1> QED
  BY <1>4 DEF Max

LEMMA MicroCountRule ==
  ASSUME NEW lens \in Seq(Nat \ {0}), lens # <<>>, NEW m \in Nat \ {0}
  PROVE  MicroCount(lens, m) \in 1 .. Len(lens)
<1>1. PICK n \in Nat : n = Len(lens) /\ 1 <= n /\ DOMAIN lens = 1 .. n
  <2>1. Len(lens) \in Nat /\ Len(lens) # 0 /\ DOMAIN lens = 1 .. Len(lens)
    BY EmptySeq, LenProperties
  <2>2. 1 <= Len(lens)
    BY <2>1
  <2> QED
    BY <2>1, <2>2
<1>2. \A i \in 1 .. n : lens[i] \in Nat \ {0}
  BY <1>1, ElementOfSeq
<1>3. lens \in [1 .. n -> Nat]
  BY <1>1, <1>2, LenProperties
<1>4. PICK idxs : idxs = [i \in DOMAIN lens |-> i]
  OBVIOUS
<1>5. idxs \in Seq(1 .. n) /\ idxs # <<>> /\ DOMAIN idxs = 1 .. n /\ \A i \in 1 .. n : idxs[i] = i
  <2>1. idxs = [i \in 1 .. n |-> i]
    BY <1>1, <1>4
  <2>2. idxs \in Seq(1 .. n) /\ Len(idxs) = n
    BY <2>1
  <2> QED
    BY <1>1, <2>1, <2>2, EmptySeq
<1>6. Total(lens, idxs) \in Nat \ {0}
  <2>1. /\ Total(lens, idxs) \in Nat
        /\ \A i \in DOMAIN idxs : Total(lens, idxs) >= lens[idxs[i]]
    BY <1>3, <1>5, TotalType
  <2>2. PICK i \in 1 .. n : Total(lens, idxs) >= lens[i]
    <3>1. 1 \in 1 .. n
      BY <1>1
    <3> QED
      BY <1>5, <2>1, <3>1
  <2>3. lens[i] \in Nat \ {0}
    BY <1>2
  <2> QED
    BY <2>1, <2>2, <2>3
<1>7. PICK c \in Nat \ {0} : c = CeilDiv(Total(lens, idxs), m)
  <2>1. PICK t \in Nat \ {0} : t = Total(lens, idxs)
    BY <1>6
  <2>2. (t + m - 1) \div m \in Nat \ {0}
    OBVIOUS
  <2> QED
    BY <2>1, <2>2 DEF CeilDiv
<1>8. MicroCount(lens, m) = Min({n, c})
  BY <1>1, <1>4, <1>7 DEF MicroCount
<1>9. PICK x : x = Min({n, c})
  OBVIOUS
<1>10. x \in {n, c} /\ \A y \in {n, c} : x <= y
  <2>1. \E z \in {n, c} : \A y \in {n, c} : z <= y
    <3>1. CASE n <= c
      BY <3>1
    <3>2. CASE ~(n <= c)
      BY <3>2
    <3> QED
      BY <3>1, <3>2
  <2>2. x = CHOOSE z \in {n, c} : \A y \in {n, c} : z <= y
    BY <1>9 DEF Min
  <2> QED
    BY <2>1, <2>2
<1>11. x \in 1 .. n
  BY <1>1, <1>10
<1> QED
  BY <1>1, <1>8, <1>9, <1>11

(* A row as the workers get it.                                            *)
Row == [key : Nat, len : Nat \ {0}, mask : Nat]

LEMMA AgreedRule ==
  ASSUME MaxTokenLen # 0, NEW n \in Nat \ {0},
         \A q \in Ranks : RowsOf(q) \in Seq(Row) /\ Len(RowsOf(q)) = n
  PROVE  /\ \A r \in Ranks : Agreed(r) \in 1 .. n
         /\ \A r \in Ranks : LensOf(r) \in Seq(Nat) /\ LensOf(r) # <<>> /\ Len(LensOf(r)) = n
<1>1. ASSUME NEW q \in Ranks
      PROVE  /\ LensOf(q) \in Seq(Nat \ {0}) /\ LensOf(q) \in Seq(Nat) /\ LensOf(q) # <<>>
             /\ Len(LensOf(q)) = n
  <2>1. PICK rows \in Seq(Row) : rows = RowsOf(q) /\ Len(rows) = n /\ DOMAIN rows = 1 .. n
    BY LenProperties
  <2>2. \A i \in 1 .. n : rows[i].len \in Nat \ {0}
    <3>1. \A i \in 1 .. n : rows[i] \in Row
      BY <2>1, ElementOfSeq
    <3> QED
      BY <3>1 DEF Row
  <2>3. PICK lens : lens = LensOf(q)
    OBVIOUS
  <2>4. lens = [i \in 1 .. n |-> rows[i].len]
    <3>1. lens = [i \in DOMAIN RowsOf(q) |-> RowsOf(q)[i].len]
      BY <2>3 DEF LensOf
    <3> QED
      BY <2>1, <3>1
  <2>5. lens \in Seq(Nat \ {0}) /\ lens \in Seq(Nat) /\ Len(lens) = n
    BY <2>2, <2>4
  <2>6. lens # <<>>
    BY <2>5, EmptySeq
  <2> QED
    BY <2>3, <2>5, <2>6
<1>2. \A q \in Ranks : MicroCount(LensOf(q), MaxTokenLen) \in 1 .. n
  <2> SUFFICES ASSUME NEW q \in Ranks PROVE MicroCount(LensOf(q), MaxTokenLen) \in 1 .. n
    OBVIOUS
  <2>1. MaxTokenLen \in Nat \ {0}
    BY ConstantsRule
  <2>2. PICK lens \in Seq(Nat \ {0}) : lens = LensOf(q) /\ lens # <<>> /\ Len(lens) = n
    BY <1>1
  <2> QED
    BY <2>1, <2>2, MicroCountRule
<1>3. PICK S : S = {MicroCount(LensOf(q), MaxTokenLen) : q \in Ranks}
  OBVIOUS
<1>4. S \in SUBSET Nat /\ S \in SUBSET (1 .. n) /\ S # {} /\ \A x \in S : x <= n
  <2>1. 1 \in Ranks
    BY ConstantsRule DEF Ranks
  <2>2. S # {}
    BY <1>3, <2>1
  <2>3. \A x \in S : x \in 1 .. n
    BY <1>2, <1>3
  <2> QED
    BY <2>2, <2>3
<1>5. Max(S) \in 1 .. n
  BY <1>4, MaxRule
<1>6. \A r \in Ranks : Agreed(r) = Max(S)
  BY <1>3 DEF Agreed
<1> QED
  BY <1>1, <1>5, <1>6

-----------------------------------------------------------------------------
(* The calls of the workers.                                               *)
LEMMA FirstWorker ==
  ASSUME NEW r \in Ranks
  PROVE  (r - 1) * SpSize + 1 \in World /\ DpRank((r - 1) * SpSize + 1) = r
<1>1. r \in 1 .. DpSize /\ SpSize \in Nat \ {0} /\ DpSize \in Nat \ {0}
  BY ConstantsRule DEF Ranks
<1>2. (r - 1) * SpSize + 1 \in 1 .. DpSize * SpSize
  <2>1. SpSize \in Nat /\ DpSize \in Nat /\ 1 <= SpSize /\ 1 \in 1 .. SpSize
    BY <1>1
  <2> QED
    BY <1>1, <2>1, Grouped
<1>3. PICK c \in Nat : c = r - 1
  BY <1>1
<1>4. PICK u \in Nat : u = (r - 1) * SpSize /\ u = SpSize * c
  <2>1. SpSize * c \in Nat /\ c * SpSize = SpSize * c
    BY <1>1
  <2> QED
    BY <1>3, <2>1
<1>5. (SpSize * c) \div SpSize = c
  BY <1>1, Quotient
<1>6. DpRank(u + 1) = (u \div SpSize) + 1
  <2>1. (u + 1) - 1 = u
    OBVIOUS
  <2> QED
    BY <2>1 DEF DpRank
<1>7. DpRank(u + 1) = r
  BY <1>1, <1>3, <1>4, <1>5, <1>6
<1> QED
  BY <1>2, <1>4, <1>7 DEF World

LEMMA DispatchRule ==
  ASSUME NEW s, NEW r \in Ranks
  PROVE  Dispatch(s)[(r - 1) * SpSize + 1] = Chunk(s, DpSize)[r]
BY FirstWorker DEF Dispatch

LEMMA CollectRule ==
  Collect([w \in World |-> OutputOf(DpRank(w))]) = FlattenSeq([r \in Ranks |-> OutputOf(r)])
<1> DEFINE out == [w \in World |-> OutputOf(DpRank(w))]
<1>1. \A r \in Ranks : out[(r - 1) * SpSize + 1] = OutputOf(r)
  BY FirstWorker
<1> HIDE DEF out
<1>2. [r \in Ranks |-> out[(r - 1) * SpSize + 1]] = [r \in Ranks |-> OutputOf(r)]
  BY <1>1
<1>3. Collect(out) = FlattenSeq([r \in Ranks |-> OutputOf(r)])
  BY <1>2, Zenon DEF Collect
<1> QED
  BY <1>3 DEF out

(* The keys of a sequence of rows.                                         *)
KeysIn(s) == [i \in DOMAIN s |-> s[i].key]

LEMMA KeysInRule ==
  ASSUME NEW s \in Seq(Row)
  PROVE  /\ KeysIn(s) \in Seq(Nat) /\ Len(KeysIn(s)) = Len(s)
         /\ DOMAIN s = 1 .. Len(s)
         /\ \A i \in 1 .. Len(s) : KeysIn(s)[i] = s[i].key /\ s[i].key \in Nat
<1>1. PICK n \in Nat : n = Len(s) /\ DOMAIN s = 1 .. n
  BY LenProperties
<1>2. \A i \in 1 .. n : s[i].key \in Nat
  <2>1. \A i \in 1 .. n : s[i] \in Row
    BY <1>1, ElementOfSeq
  <2> QED
    BY <2>1 DEF Row
<1>3. PICK t : t = KeysIn(s)
  OBVIOUS
<1>4. t = [i \in 1 .. n |-> s[i].key]
  BY <1>1, <1>3 DEF KeysIn
<1>5. t \in Seq(Nat) /\ Len(t) = n
  BY <1>2, <1>4
<1> QED
  BY <1>1, <1>2, <1>3, <1>4, <1>5

(* The parts of the keys are the keys of the parts.                        *)
LEMMA KeysOfPart ==
  ASSUME NEW s \in Seq(Row), NEW t \in Seq(Row), NEW a, NEW size, IsPart(t, s, a, size)
  PROVE  IsPart(KeysIn(t), KeysIn(s), a, size)
<1>1. /\ KeysIn(s) \in Seq(Nat) /\ Len(KeysIn(s)) = Len(s)
      /\ \A i \in 1 .. Len(s) : KeysIn(s)[i] = s[i].key
  BY KeysInRule
<1>2. /\ KeysIn(t) \in Seq(Nat) /\ Len(KeysIn(t)) = Len(t) /\ DOMAIN t = 1 .. Len(t)
      /\ \A i \in 1 .. Len(t) : KeysIn(t)[i] = t[i].key
  BY KeysInRule
<1>3. DOMAIN KeysIn(t) = DOMAIN t
  BY <1>2, LenProperties
<1>4. ASSUME NEW b \in 1 .. size
      PROVE  /\ (a - 1) * size + b \in 1 .. Len(KeysIn(s))
             /\ KeysIn(t)[b] = KeysIn(s)[(a - 1) * size + b]
  <2>1. PICK p : p = (a - 1) * size + b
    OBVIOUS
  <2>2. p \in 1 .. Len(s) /\ t[b] = s[p] /\ b \in 1 .. Len(t)
    BY <2>1 DEF IsPart
  <2>3. KeysIn(t)[b] = KeysIn(s)[p]
    BY <1>1, <1>2, <2>2
  <2> QED
    BY <1>1, <2>1, <2>2, <2>3
<1> QED
  BY <1>2, <1>3, <1>4 DEF IsPart

(* Parts sent out, and what comes back for each joined.                    *)
LEMMA ScatterGather ==
  ASSUME NEW s \in Seq(Row), NEW n \in Nat \ {0}, NEW size \in Nat, Len(s) = n * size
  PROVE  FlattenSeq([a \in 1 .. n |-> KeysIn(Chunk(s, n)[a])]) = KeysIn(s)
<1>1. PICK c : c = Chunk(s, n)
  OBVIOUS
<1>2. c \in [1 .. n -> Seq(Row)] /\ \A a \in 1 .. n : IsPart(c[a], s, a, size)
  BY <1>1, ChunkRule
<1>3. PICK out : out = [a \in 1 .. n |-> KeysIn(c[a])]
  OBVIOUS
<1>4. \A a \in 1 .. n : out[a] \in Seq(Nat) /\ IsPart(out[a], KeysIn(s), a, size)
  <2> SUFFICES ASSUME NEW a \in 1 .. n
               PROVE  out[a] \in Seq(Nat) /\ IsPart(out[a], KeysIn(s), a, size)
    OBVIOUS
  <2>1. PICK t \in Seq(Row) : t = c[a] /\ IsPart(t, s, a, size)
    BY <1>2
  <2>2. KeysIn(t) \in Seq(Nat) /\ IsPart(KeysIn(t), KeysIn(s), a, size)
    BY <2>1, KeysInRule, KeysOfPart
  <2> QED
    BY <1>3, <2>1, <2>2
<1>5. out \in [1 .. n -> Seq(Nat)]
  BY <1>3, <1>4
<1>6. KeysIn(s) \in Seq(Nat) /\ Len(KeysIn(s)) = n * size
  BY KeysInRule
<1>7. FlattenSeq(out) = KeysIn(s)
  BY <1>4, <1>5, <1>6, FlattenParts
<1> QED
  BY <1>1, <1>3, <1>7

-----------------------------------------------------------------------------
(* Places of batches.                                                      *)
Distinct(s) == \A i, j \in 1 .. Len(s) : s[i].key = s[j].key => i = j

LEMMA Padding ==
  ASSUME NEW s \in Seq(Row), s # <<>>, NEW N \in Nat \ {0}
  PROVE  /\ PadToDivisor(s, N) \in Seq(Row)
         /\ \E c \in Nat : Len(PadToDivisor(s, N)) = N * c
         /\ Len(s) <= Len(PadToDivisor(s, N))
         /\ \A i \in 1 .. Len(s) : PadToDivisor(s, N)[i] = s[i]
<1>1. PICK L \in Nat \ {0} : L = Len(s)
  BY EmptySeq, LenProperties
<1>2. PICK c \in Nat : c = CeilDiv(L, N) /\ L <= c * N
  <2>1. (L + N - 1) \div N \in Nat /\ L <= ((L + N - 1) \div N) * N
    OBVIOUS
  <2> QED
    BY <2>1 DEF CeilDiv
<1>3. PICK m \in Nat : m = c * N /\ m = N * c /\ L <= m
  <2>1. c * N \in Nat /\ c * N = N * c
    OBVIOUS
  <2> QED
    BY <1>2, <2>1
<1>4. PICK t : t = PadToDivisor(s, N)
  OBVIOUS
<1>5. t = [i \in 1 .. m |-> s[((i - 1) % L) + 1]]
  BY <1>1, <1>2, <1>3, <1>4 DEF PadToDivisor
<1>6. \A i \in 1 .. m : ((i - 1) % L) + 1 \in 1 .. L
  OBVIOUS
<1>7. \A i \in 1 .. m : s[((i - 1) % L) + 1] \in Row
  BY <1>1, <1>6, ElementOfSeq
<1>8. t \in Seq(Row) /\ Len(t) = m
  BY <1>5, <1>7
<1>9. \A i \in 1 .. L : ((i - 1) % L) + 1 = i
  OBVIOUS
<1>10. \A i \in 1 .. L : t[i] = s[i]
  <2> SUFFICES ASSUME NEW i \in 1 .. L PROVE t[i] = s[i]
    OBVIOUS
  <2>1. i \in 1 .. m
    BY <1>3
  <2> QED
    BY <1>5, <1>9, <2>1
<1> QED
  BY <1>1, <1>3, <1>4, <1>8, <1>10

LEMMA ValidateRule ==
  ASSUME batch \in Seq(Row), batch # <<>>, Validate
  PROVE  values' = KeysIn(batch)
<1>1. PICK padded \in Seq(Row), c \in Nat :
        /\ padded = PadToDivisor(batch, NumWorkers) /\ Len(padded) = NumWorkers * c
        /\ Len(batch) <= Len(padded)
        /\ \A i \in 1 .. Len(batch) : padded[i] = batch[i]
  <2>1. PICK padded : padded = PadToDivisor(batch, NumWorkers)
    OBVIOUS
  <2>2. PICK N \in Nat \ {0} : N = NumWorkers
    BY ConstantsRule
  <2>3. /\ padded \in Seq(Row)
        /\ \E c \in Nat : Len(padded) = N * c
        /\ Len(batch) <= Len(padded)
        /\ \A i \in 1 .. Len(batch) : padded[i] = batch[i]
    BY <2>1, <2>2, Padding
  <2> QED
    BY <2>1, <2>2, <2>3
<1>2. values' = Unpad(FlattenSeq([w \in 1 .. NumWorkers |->
                    [i \in DOMAIN Chunk(padded, NumWorkers)[w] |-> Chunk(padded, NumWorkers)[w][i].key]]),
                  Len(padded) - Len(batch))
  BY <1>1 DEF Validate
<1>3. values' = Unpad(FlattenSeq([w \in 1 .. NumWorkers |-> KeysIn(Chunk(padded, NumWorkers)[w])]),
                  Len(padded) - Len(batch))
  BY <1>2 DEF KeysIn
<1>4. values' = Unpad(KeysIn(padded), Len(padded) - Len(batch))
  BY <1>1, <1>3, ScatterGather, ConstantsRule
<1>5. PICK t \in Seq(Nat) : /\ t = KeysIn(padded) /\ Len(t) = Len(padded)
                            /\ \A i \in 1 .. Len(padded) : t[i] = padded[i].key
  BY KeysInRule
<1>6. PICK L \in Nat, P \in Nat : L = Len(batch) /\ P = Len(padded) /\ L <= P
  BY <1>1, LenProperties
<1>7. values' = SubSeq(t, 1, L)
  <2>1. P - (P - L) = L
    OBVIOUS
  <2> QED
    BY <1>4, <1>5, <1>6, <2>1 DEF Unpad
<1>8. \A i \in 1 .. L : t[i] \in Nat
  BY <1>5, <1>6, ElementOfSeq
<1>9. /\ SubSeq(t, 1, L) \in Seq(Nat) /\ Len(SubSeq(t, 1, L)) = L
      /\ \A i \in 1 .. L : SubSeq(t, 1, L)[i] = t[i]
  <2>1. /\ SubSeq(t, 1, L) \in Seq(Nat)
        /\ Len(SubSeq(t, 1, L)) = IF 1 <= L THEN L - 1 + 1 ELSE 0
        /\ \A i \in 1 .. L - 1 + 1 : SubSeq(t, 1, L)[i] = t[1 + i - 1]
    BY <1>8, SubSeqProperties
  <2>2. L - 1 + 1 = L /\ \A i \in 1 .. L : 1 + i - 1 = i
    OBVIOUS
  <2>3. Len(SubSeq(t, 1, L)) = L
    BY <2>1
  <2>4. \A i \in 1 .. L : SubSeq(t, 1, L)[i] = t[i]
    BY <2>1, <2>2
  <2> QED
    BY <2>1, <2>3, <2>4
<1>10. /\ KeysIn(batch) \in Seq(Nat) /\ Len(KeysIn(batch)) = L
       /\ \A i \in 1 .. L : KeysIn(batch)[i] = batch[i].key
  BY <1>6, KeysInRule
<1>11. \A i \in 1 .. L : SubSeq(t, 1, L)[i] = KeysIn(batch)[i]
  <2> SUFFICES ASSUME NEW i \in 1 .. L PROVE SubSeq(t, 1, L)[i] = KeysIn(batch)[i]
    OBVIOUS
  <2>1. i \in 1 .. P
    BY <1>6
  <2> QED
    BY <1>1, <1>5, <1>6, <1>9, <1>10, <2>1
<1>12. SubSeq(t, 1, L) = KeysIn(batch)
  BY <1>9, <1>10, <1>11, SameSeq
<1> QED
  BY <1>7, <1>12

(* Upsampling makes the sizes divide the batch.                            *)
LEMMA UpsampleRule ==
  ASSUME batch \in Seq(Row), batch # <<>>, Upsample,
         \A i \in 1 .. Len(batch) : batch[i].key = i
  PROVE  /\ batch' \in Seq(Row) /\ batch' # <<>> /\ Distinct(batch')
         /\ Len(batch') % DpSize = 0 /\ Len(batch') % MiniBatch = 0
<1>1. PICK n \in Nat \ {0} : n = Len(batch)
  BY EmptySeq, LenProperties
<1>2. PICK m \in Nat \ {0} : m = BatchMultiple /\ m % DpSize = 0 /\ m % MiniBatch = 0
  BY BatchMultipleRule
<1>3. PICK p \in Nat : p = PadSize /\ (n + p) % m = 0
  BY <1>1, <1>2, PaddedLength DEF PadSize
<1>4. PICK more : more = [i \in 1 .. p |-> [key |-> n + i, len |-> 2, mask |-> 0]]
  OBVIOUS
<1>5. /\ more \in Seq(Row) /\ Len(more) = p
      /\ \A i \in 1 .. p : more[i] = [key |-> n + i, len |-> 2, mask |-> 0]
  <2>1. \A i \in 1 .. p : [key |-> n + i, len |-> 2, mask |-> 0] \in Row
    BY DEF Row
  <2>2. more \in [1 .. p -> Row]
    BY <1>4, <2>1, Zenon
  <2>3. more \in Seq(Row) /\ Len(more) = p
    BY <2>2
  <2>4. \A i \in 1 .. p : more[i] = [key |-> n + i, len |-> 2, mask |-> 0]
    BY <1>4, Zenon
  <2> QED
    BY <2>3, <2>4
<1>6. batch' = batch \o more
  BY <1>1, <1>3, <1>4 DEF Upsample
<1>7. /\ batch' \in Seq(Row) /\ Len(batch') = n + p
      /\ \A i \in 1 .. n + p : batch'[i] = IF i <= n THEN batch[i] ELSE more[i - n]
  BY <1>1, <1>5, <1>6, ConcatProperties
<1>8. \A i \in 1 .. n + p : batch'[i].key = i
  <2> SUFFICES ASSUME NEW i \in 1 .. n + p PROVE batch'[i].key = i
    OBVIOUS
  <2>1. CASE i <= n
    BY <1>1, <1>7, <2>1
  <2>2. CASE ~(i <= n)
    <3>1. i - n \in 1 .. p /\ n + (i - n) = i
      BY <2>2
    <3>2. batch'[i] = [key |-> n + (i - n), len |-> 2, mask |-> 0]
      BY <1>5, <1>7, <2>2, <3>1
    <3> QED
      BY <3>1, <3>2
  <2> QED
    BY <2>1, <2>2
<1>9. Distinct(batch')
  BY <1>7, <1>8 DEF Distinct
<1>10. (n + p) % DpSize = 0 /\ (n + p) % MiniBatch = 0
  <2>1. n + p \in Nat
    OBVIOUS
  <2> QED
    BY <1>2, <1>3, <2>1, ConstantsRule, DividesTransitive
<1>11. batch' # <<>>
  BY <1>7, EmptySeq
<1> QED
  BY <1>7, <1>9, <1>10, <1>11

(* Balancing changes the order of the rows, no more.                       *)
LEMMA BalanceRule ==
  ASSUME batch \in Seq(Row), batch # <<>>, Distinct(batch), Len(batch) % DpSize = 0, Balance
  PROVE  batch' \in Seq(Row) /\ batch' # <<>> /\ Distinct(batch') /\ Len(batch') = Len(batch)
<1>1. PICK n \in Nat \ {0} : n = Len(batch) /\ DOMAIN batch = 1 .. n
  <2>1. Len(batch) \in Nat /\ Len(batch) # 0 /\ DOMAIN batch = 1 .. Len(batch)
    BY EmptySeq, LenProperties
  <2> QED
    BY <2>1
<1>2. PICK val : val = WorkloadsOf(batch)
  OBVIOUS
<1>3. val \in Seq(Nat) /\ Len(val) = n
  <2>1. \A i \in 1 .. n : Workload(batch[i].len) \in Nat
    <3> SUFFICES ASSUME NEW i \in 1 .. n PROVE Workload(batch[i].len) \in Nat
      OBVIOUS
    <3>1. batch[i] \in Row
      BY <1>1, ElementOfSeq
    <3>2. PICK l \in Nat : l = batch[i].len
      BY <3>1 DEF Row
    <3>3. 24576 * l + l * l \in Nat
      OBVIOUS
    <3> QED
      BY <3>2, <3>3 DEF Workload
  <2>2. val = [i \in 1 .. n |-> Workload(batch[i].len)]
    BY <1>1, <1>2 DEF WorkloadsOf
  <2> QED
    BY <2>1, <2>2
<1>4. PICK parts : parts = Partitions(val, DpSize, TRUE)
  OBVIOUS
<1>5. IsPartition(parts, n, DpSize)
  <2>1. DpSize \in Nat /\ 1 <= DpSize /\ 1 <= n
    BY ConstantsRule
  <2> QED
    BY <1>1, <1>3, <1>4, <2>1, PartitionsRule
<1>6. PICK order : order = FlattenSeq(parts)
  OBVIOUS
<1>7. DOMAIN order = 1 .. n /\ Permutes(order, n)
  BY <1>5, <1>6, FlatPermutes, ConstantsRule
<1>8. batch' = [i \in DOMAIN order |-> batch[order[i]]]
  BY <1>2, <1>4, <1>6, Zenon DEF Balance
<1>9. batch' = [i \in 1 .. n |-> batch[order[i]]]
  BY <1>7, <1>8
<1>10. \A i \in 1 .. n : order[i] \in 1 .. n /\ batch[order[i]] \in Row
  BY <1>1, <1>7, ElementOfSeq DEF Permutes
<1>11. batch' \in Seq(Row) /\ Len(batch') = n
  BY <1>9, <1>10
<1>12. Distinct(batch')
  <2> SUFFICES ASSUME NEW i \in 1 .. n, NEW j \in 1 .. n, batch'[i].key = batch'[j].key PROVE i = j
    BY <1>11 DEF Distinct
  <2>1. batch[order[i]].key = batch[order[j]].key
    BY <1>9
  <2>2. order[i] = order[j]
    BY <1>1, <1>10, <2>1 DEF Distinct
  <2> QED
    BY <1>7, <2>2 DEF Permutes
<1>13. batch' # <<>>
  BY <1>11, EmptySeq
<1> QED
  BY <1>1, <1>11, <1>12, <1>13

-----------------------------------------------------------------------------
(* What the ranks go through in a forward_backward_batch: as many rows     *)
(* each, of different keys.                                                *)
Shares(n) ==
  /\ n \in Nat \ {0}
  /\ \A r \in Ranks : RowsOf(r) \in Seq(Row) /\ Len(RowsOf(r)) = n
  /\ \A q, r \in Ranks : \A b, c \in 1 .. n :
       RowsOf(q)[b].key = RowsOf(r)[c].key => q = r /\ b = c

(* Rows at different places of the batch have different keys.              *)
Spreads(size, pl, n) ==
  /\ \A r \in Ranks, b \in 1 .. n : pl[<<r, b>>] \in 1 .. size
  /\ \A r \in Ranks : \A b, c \in 1 .. n : pl[<<r, b>>] = pl[<<r, c>>] => b = c

LEMMA SharesRule ==
  ASSUME batch \in Seq(Row), Distinct(batch), NEW size \in Nat \ {0}, Len(batch) = DpSize * size,
         NEW n \in Nat \ {0}, NEW pl, Spreads(size, pl, n),
         \A r \in Ranks : RowsOf(r) \in Seq(Row) /\ Len(RowsOf(r)) = n,
         \A r \in Ranks : \A b \in 1 .. n : RowsOf(r)[b] = batch[(r - 1) * size + pl[<<r, b>>]]
  PROVE  Shares(n)
<1> SUFFICES ASSUME NEW q \in Ranks, NEW r \in Ranks, NEW b \in 1 .. n, NEW c \in 1 .. n,
                    RowsOf(q)[b].key = RowsOf(r)[c].key
             PROVE  q = r /\ b = c
  BY DEF Shares
<1>1. PICK x \in 1 .. size, y \in 1 .. size : x = pl[<<q, b>>] /\ y = pl[<<r, c>>]
  BY DEF Spreads
<1>2. PICK i, j : i = (q - 1) * size + x /\ j = (r - 1) * size + y
  OBVIOUS
<1>3. i \in 1 .. DpSize * size /\ j \in 1 .. DpSize * size
  <2>1. size \in Nat /\ DpSize \in Nat /\ 1 <= size /\ q \in 1 .. DpSize /\ r \in 1 .. DpSize
    BY ConstantsRule DEF Ranks
  <2> QED
    BY <1>2, <2>1, Grouped
<1>4. batch[i].key = batch[j].key
  BY <1>1, <1>2
<1>5. i = j
  BY <1>3, <1>4 DEF Distinct
<1>6. q = r /\ x = y
  <2>1. size \in Nat /\ DpSize \in Nat /\ 1 <= size /\ q \in 1 .. DpSize /\ r \in 1 .. DpSize
    BY ConstantsRule DEF Ranks
  <2>2. (q - 1) * size + x = (r - 1) * size + y
    BY <1>2, <1>5
  <2> DEFINE at1(g, a) == (g - 1) * size + a
  <2>3. \A g, h \in 1 .. DpSize, a, d \in 1 .. size : at1(g, a) = at1(h, d) => g = h /\ a = d
    BY <2>1, Grouped
  <2>4. at1(q, x) = at1(r, y)
    BY <2>2
  <2> HIDE DEF at1
  <2> QED
    BY <2>1, <2>3, <2>4
<1> QED
  BY <1>1, <1>6 DEF Spreads

LEMMA Sizes ==
  ASSUME batch \in Seq(Row), batch # <<>>, Len(batch) % DpSize = 0
  PROVE  \E size \in Nat \ {0} : Len(batch) = DpSize * size
<1>1. Len(batch) \in Nat /\ Len(batch) # 0
  BY EmptySeq, LenProperties
<1>2. PICK size \in Nat : Len(batch) = DpSize * size
  BY <1>1, MultipleOf, ConstantsRule
<1>3. size # 0
  BY <1>1, <1>2, ConstantsRule
<1> QED
  BY <1>2, <1>3

LEMMA InferShares ==
  ASSUME batch \in Seq(Row), batch # <<>>, Distinct(batch), Len(batch) % DpSize = 0,
         stage = "infer", \A r \in Ranks : local[r] = Chunk(batch, DpSize)[r]
  PROVE  \E n : Shares(n)
<1>1. PICK size \in Nat \ {0} : Len(batch) = DpSize * size
  BY Sizes
<1>2. \A r \in Ranks : RowsOf(r) \in Seq(Row) /\ IsPart(RowsOf(r), batch, r, size)
  <2>1. \A r \in Ranks : RowsOf(r) = Chunk(batch, DpSize)[r]
    BY DEF RowsOf, Training
  <2>2. /\ Chunk(batch, DpSize) \in [1 .. DpSize -> Seq(Row)]
        /\ \A r \in 1 .. DpSize : IsPart(Chunk(batch, DpSize)[r], batch, r, size)
    BY <1>1, ChunkRule, ConstantsRule
  <2> QED
    BY <2>1, <2>2 DEF Ranks
<1>3. PICK pl : pl = [p \in Ranks \X (1 .. size) |-> p[2]]
  OBVIOUS
<1>4. \A r \in Ranks, b \in 1 .. size : pl[<<r, b>>] = b
  BY <1>3
<1>5. Spreads(size, pl, size)
  <2>1. \A r \in Ranks, b \in 1 .. size : pl[<<r, b>>] \in 1 .. size
    BY <1>4, Zenon
  <2>2. \A r \in Ranks : \A b, c \in 1 .. size : pl[<<r, b>>] = pl[<<r, c>>] => b = c
    BY <1>4, Zenon
  <2> QED
    BY <2>1, <2>2 DEF Spreads
<1>6. \A r \in Ranks : \A b \in 1 .. size : RowsOf(r)[b] = batch[(r - 1) * size + pl[<<r, b>>]]
  <2> SUFFICES ASSUME NEW r \in Ranks, NEW b \in 1 .. size
               PROVE  RowsOf(r)[b] = batch[(r - 1) * size + pl[<<r, b>>]]
    OBVIOUS
  <2>1. pl[<<r, b>>] = b
    BY <1>4
  <2>2. RowsOf(r)[b] = batch[(r - 1) * size + b]
    BY <1>2 DEF IsPart
  <2> QED
    BY <2>1, <2>2
<1>7. \A r \in Ranks : Len(RowsOf(r)) = size
  BY <1>2 DEF IsPart
<1>8. Shares(size)
  BY <1>1, <1>2, <1>5, <1>6, <1>7, SharesRule
<1> QED
  BY <1>8

(* The rows of a rank, once for each epoch.                                *)
Shuffled(l, rows, n, ps) ==
  /\ \A e \in 1 .. Epochs, i \in 1 .. n : ps[e][i] \in 1 .. n
  /\ \A e \in 1 .. Epochs : \A i, j \in 1 .. n : ps[e][i] = ps[e][j] => i = j
  /\ \A e \in 1 .. Epochs, i \in 1 .. n : l[(e - 1) * n + i] = rows[ps[e][i]]

LEMMA OrderRule ==
  ASSUME NEW rows \in Seq(Row), NEW n \in Nat, Len(rows) = n, NEW l \in Orders(rows)
  PROVE  /\ l \in Seq(Row) /\ Len(l) = Epochs * n
         /\ \E ps : Shuffled(l, rows, n, ps)
<1> DEFINE perms(m) == IF Shuffle THEN {p \in [1 .. m -> 1 .. m] : \A i, j \in 1 .. m : p[i] = p[j] => i = j}
                                  ELSE {[i \in 1 .. m |-> i]}
           from(m) == {FlattenSeq([e \in 1 .. Epochs |-> [i \in 1 .. m |-> rows[ps[e][i]]]]) :
                         ps \in [1 .. Epochs -> perms(m)]}
<1>0. Epochs \in Nat \ {0}
  BY ConstantsRule
<1>1. PICK ps \in [1 .. Epochs -> perms(n)] :
        l = FlattenSeq([e \in 1 .. Epochs |-> [i \in 1 .. n |-> rows[ps[e][i]]]])
  <2>1. Orders(rows) = from(Len(rows))
    BY DEF Orders
  <2>2. from(Len(rows)) = from(n)
    <3> HIDE DEF from
    <3> QED
      OBVIOUS
  <2> QED
    BY <2>1, <2>2
<1>2. \A p \in perms(n) : p \in [1 .. n -> 1 .. n] /\ \A i, j \in 1 .. n : p[i] = p[j] => i = j
  <2>1. CASE Shuffle
    BY <2>1
  <2>2. CASE ~Shuffle
    BY <2>2
  <2> QED
    BY <2>1, <2>2
<1> HIDE DEF perms
<1>3. /\ \A e \in 1 .. Epochs, i \in 1 .. n : ps[e][i] \in 1 .. n
      /\ \A e \in 1 .. Epochs : \A i, j \in 1 .. n : ps[e][i] = ps[e][j] => i = j
  <2>1. \A e \in 1 .. Epochs : ps[e] \in perms(n)
    OBVIOUS
  <2> QED
    BY <1>2, <2>1
<1>4. PICK ss : ss = [e \in 1 .. Epochs |-> [i \in 1 .. n |-> rows[ps[e][i]]]]
  OBVIOUS
<1>5. \A e \in 1 .. Epochs : /\ ss[e] \in Seq(Row) /\ Len(ss[e]) = n
                             /\ \A i \in 1 .. n : ss[e][i] = rows[ps[e][i]]
  <2> SUFFICES ASSUME NEW e \in 1 .. Epochs
               PROVE  /\ ss[e] \in Seq(Row) /\ Len(ss[e]) = n
                      /\ \A i \in 1 .. n : ss[e][i] = rows[ps[e][i]]
    OBVIOUS
  <2>1. ss[e] = [i \in 1 .. n |-> rows[ps[e][i]]]
    BY <1>4
  <2>2. \A i \in 1 .. n : rows[ps[e][i]] \in Row
    BY <1>3, ElementOfSeq
  <2>3. ss[e] \in [1 .. n -> Row]
    BY <2>1, <2>2, Zenon
  <2>4. ss[e] \in Seq(Row) /\ Len(ss[e]) = n
    BY <2>3
  <2>5. \A i \in 1 .. n : ss[e][i] = rows[ps[e][i]]
    BY <2>1, Zenon
  <2> QED
    BY <2>4, <2>5
<1>6. ss \in Seq(Seq(Row)) /\ Len(ss) = Epochs
  <2>1. ss \in [1 .. Epochs -> Seq(Row)]
    BY <1>4, <1>5
  <2> QED
    BY <1>0, <2>1
<1>7. l \in Seq(Row) /\ Joins(ss, l)
  <2>1. ss # <<>>
    BY <1>0, <1>6, EmptySeq
  <2> QED
    BY <1>1, <1>4, <1>6, <2>1, FlattenRule
<1>8. \A a \in 1 .. Epochs + 1 : Starts(ss)[a] = (a - 1) * n
  BY <1>5, <1>6, EqualStarts
<1>9. Len(l) = Epochs * n
  <2>1. Epochs + 1 \in 1 .. Epochs + 1 /\ (Epochs + 1) - 1 = Epochs
    BY <1>0
  <2> QED
    BY <1>6, <1>7, <1>8, <2>1 DEF Joins
<1>10. \A e \in 1 .. Epochs, i \in 1 .. n : l[(e - 1) * n + i] = rows[ps[e][i]]
  <2> SUFFICES ASSUME NEW e \in 1 .. Epochs, NEW i \in 1 .. n
               PROVE  l[(e - 1) * n + i] = rows[ps[e][i]]
    OBVIOUS
  <2>1. Starts(ss)[e] = (e - 1) * n
    BY <1>0, <1>8
  <2>2. ss[e][i] = l[Starts(ss)[e] + i]
    BY <1>5, <1>6, <1>7 DEF Joins
  <2> QED
    BY <1>5, <2>1, <2>2
<1>11. Shuffled(l, rows, n, ps)
  BY <1>3, <1>10 DEF Shuffled
<1> QED
  BY <1>7, <1>9, <1>11

(* Mini-batches of an epoch.                                               *)
LEMMA MiniSizes ==
  ASSUME NEW L \in Nat \ {0}, NEW size \in Nat \ {0}, L = DpSize * size, L % MiniBatch = 0
  PROVE  \E sz, d \in Nat \ {0} : /\ MiniBatch \div DpSize = sz /\ L \div MiniBatch = d
                                  /\ size = d * sz
<1>1. PICK sz \in Nat : MiniBatch = DpSize * sz
  BY ConstantsRule, MultipleOf
<1>2. PICK d \in Nat : L = MiniBatch * d
  BY ConstantsRule, MultipleOf
<1>3. sz # 0 /\ d # 0
  BY <1>1, <1>2, ConstantsRule
<1>4. MiniBatch \div DpSize = sz /\ L \div MiniBatch = d
  BY <1>1, <1>2, ConstantsRule, Quotient
<1>5. PICK e \in Nat : e = d * sz
  OBVIOUS
<1>6. L = DpSize * e
  <2>1. DpSize \in Nat
    BY ConstantsRule
  <2>2. (DpSize * sz) * d = DpSize * (d * sz)
    BY <2>1
  <2> QED
    BY <1>1, <1>2, <1>5, <2>2
<1>7. size = e
  <2>1. (DpSize * e) \div DpSize = e /\ (DpSize * size) \div DpSize = size
    BY ConstantsRule, Quotient
  <2> QED
    BY <1>6, <2>1
<1> QED
  BY <1>3, <1>4, <1>5, <1>7

LEMMA UpdateShares ==
  ASSUME batch \in Seq(Row), batch # <<>>, Distinct(batch), Len(batch) % DpSize = 0,
         Len(batch) % MiniBatch = 0, stage = "update", mini \in 1 .. MiniBatches * Epochs,
         \A r \in Ranks : local[r] \in Orders(Chunk(batch, DpSize)[r])
  PROVE  \E n : Shares(n)
<1>0. Epochs \in Nat \ {0} /\ DpSize \in Nat \ {0}
  BY ConstantsRule
<1>1. PICK size \in Nat \ {0} : Len(batch) = DpSize * size
  BY Sizes
<1>2. PICK sz \in Nat \ {0}, d \in Nat \ {0} :
        MiniBatch \div DpSize = sz /\ MiniBatches = d /\ size = d * sz
  <2>1. PICK L \in Nat \ {0} : L = Len(batch)
    BY EmptySeq, LenProperties
  <2> QED
    BY <1>1, <2>1, MiniSizes DEF MiniBatches
<1>3. /\ Chunk(batch, DpSize) \in [Ranks -> Seq(Row)]
      /\ \A r \in Ranks : IsPart(Chunk(batch, DpSize)[r], batch, r, size)
  BY <1>0, <1>1, ChunkRule DEF Ranks
<1>4. \A r \in Ranks : /\ local[r] \in Seq(Row) /\ Len(local[r]) = Epochs * size
                       /\ \E ps : Shuffled(local[r], Chunk(batch, DpSize)[r], size, ps)
  <2> SUFFICES ASSUME NEW r \in Ranks
               PROVE  /\ local[r] \in Seq(Row) /\ Len(local[r]) = Epochs * size
                      /\ \E ps : Shuffled(local[r], Chunk(batch, DpSize)[r], size, ps)
    OBVIOUS
  <2>1. PICK rows \in Seq(Row) : rows = Chunk(batch, DpSize)[r] /\ Len(rows) = size
    BY <1>3 DEF IsPart
  <2>2. PICK l \in Orders(rows) : l = local[r]
    BY <2>1
  <2> QED
    BY <2>1, <2>2, OrderRule
<1>5. PICK e \in 1 .. Epochs, m \in 1 .. d : mini = (e - 1) * d + m
  <2>1. mini \in 1 .. Epochs * d
    <3>1. d * Epochs = Epochs * d
      BY <1>0
    <3> QED
      BY <1>2, <3>1
  <2>2. 1 <= d /\ d \in Nat /\ Epochs \in Nat
    BY <1>0
  <2>3. \A j \in 1 .. Epochs * d : \E g \in 1 .. Epochs, a \in 1 .. d : j = (g - 1) * d + a
    BY <2>2, Grouped
  <2> QED
    BY <2>1, <2>3
<1>6. ASSUME NEW b \in 1 .. sz
      PROVE  /\ (m - 1) * sz + b \in 1 .. size
             /\ (mini - 1) * sz + b = (e - 1) * size + ((m - 1) * sz + b)
  <2>1. (m - 1) * sz + b \in 1 .. d * sz
    <3>1. 1 <= sz /\ sz \in Nat /\ d \in Nat
      OBVIOUS
    <3> QED
      BY <3>1, Grouped
  <2>2. PICK u \in Nat, v \in Nat : u = e - 1 /\ v = m - 1
    BY <1>0
  <2>3. mini - 1 = u * d + v
    <3>1. u * d \in Nat
      OBVIOUS
    <3> QED
      BY <1>5, <2>2, <3>1
  <2>4. (u * d + v) * sz = u * (d * sz) + v * sz
    OBVIOUS
  <2>5. u * (d * sz) \in Nat /\ v * sz \in Nat
    OBVIOUS
  <2> QED
    BY <1>2, <2>1, <2>2, <2>3, <2>4, <2>5
<1>7. \A r \in Ranks : RowsOf(r) \in Seq(Row) /\ IsPart(RowsOf(r), local[r], mini, sz)
  <2> SUFFICES ASSUME NEW r \in Ranks
               PROVE  RowsOf(r) \in Seq(Row) /\ IsPart(RowsOf(r), local[r], mini, sz)
    OBVIOUS
  <2>1. RowsOf(r) = SubSeq(local[r], (mini - 1) * sz + 1, mini * sz)
    BY <1>2 DEF RowsOf, Training, MiniBatchRows
  <2>2. PICK k \in Nat, M \in Nat : k = mini /\ M = d * Epochs /\ 1 <= k /\ k <= M
    <3>1. PICK M \in Nat : M = d * Epochs
      <4>1. d * Epochs \in Nat
        BY <1>0
      <4> QED
        BY <4>1
    <3>2. mini \in 1 .. M
      BY <1>2, <3>1
    <3> QED
      BY <3>1, <3>2
  <2>3. k * sz <= M * sz
    BY <2>2, Times
  <2>4. M * sz = Epochs * size
    <3>1. Epochs \in Nat
      BY <1>0
    <3>2. (d * Epochs) * sz = Epochs * (d * sz)
      BY <3>1
    <3> QED
      BY <1>2, <2>2, <3>2
  <2> QED
    BY <1>4, <2>1, <2>2, <2>3, <2>4, PartRule
<1>8. PICK pss : \A r \in Ranks : Shuffled(local[r], Chunk(batch, DpSize)[r], size, pss[r])
  <2> DEFINE pss == [r \in Ranks |-> CHOOSE ps : Shuffled(local[r], Chunk(batch, DpSize)[r], size, ps)]
  <2>1. \A r \in Ranks : Shuffled(local[r], Chunk(batch, DpSize)[r], size, pss[r])
    BY <1>4, Zenon
  <2> QED
    BY <2>1
<1>9. PICK pl : pl = [p \in Ranks \X (1 .. sz) |-> pss[p[1]][e][(m - 1) * sz + p[2]]]
  OBVIOUS
<1>10. \A r \in Ranks, b \in 1 .. sz : pl[<<r, b>>] = pss[r][e][(m - 1) * sz + b]
  BY <1>9
<1>11. Spreads(size, pl, sz)
  <2>1. ASSUME NEW r \in Ranks, NEW b \in 1 .. sz
        PROVE  pl[<<r, b>>] \in 1 .. size
    <3>1. PICK x \in 1 .. size : x = (m - 1) * sz + b
      BY <1>6
    <3>2. pss[r][e][x] \in 1 .. size
      BY <1>8 DEF Shuffled
    <3>3. pl[<<r, b>>] = pss[r][e][x]
      BY <1>10, <3>1
    <3> QED
      BY <3>2, <3>3
  <2>2. ASSUME NEW r \in Ranks, NEW b \in 1 .. sz, NEW c \in 1 .. sz, pl[<<r, b>>] = pl[<<r, c>>]
        PROVE  b = c
    <3>1. PICK x \in 1 .. size, y \in 1 .. size : x = (m - 1) * sz + b /\ y = (m - 1) * sz + c
      BY <1>6
    <3>2. pss[r][e][x] = pss[r][e][y]
      BY <1>10, <2>2, <3>1
    <3>3. x = y
      BY <1>8, <3>2 DEF Shuffled
    <3>4. (m - 1) * sz \in Nat
      <4>1. PICK v \in Nat : v = m - 1
        OBVIOUS
      <4>2. v * sz \in Nat
        OBVIOUS
      <4> QED
        BY <4>1, <4>2
    <3> QED
      BY <3>1, <3>3, <3>4
  <2> QED
    BY <2>1, <2>2 DEF Spreads
<1>12. ASSUME NEW r \in Ranks, NEW b \in 1 .. sz
       PROVE  RowsOf(r)[b] = batch[(r - 1) * size + pl[<<r, b>>]]
  <2>1. PICK x \in 1 .. size : x = (m - 1) * sz + b /\ (mini - 1) * sz + b = (e - 1) * size + x
    BY <1>6
  <2>2. RowsOf(r)[b] = local[r][(mini - 1) * sz + b]
    BY <1>7 DEF IsPart
  <2>6. /\ \A i \in 1 .. size : pss[r][e][i] \in 1 .. size
        /\ \A i \in 1 .. size : local[r][(e - 1) * size + i] = Chunk(batch, DpSize)[r][pss[r][e][i]]
    <3>1. Shuffled(local[r], Chunk(batch, DpSize)[r], size, pss[r])
      BY <1>8
    <3> QED
      BY <3>1 DEF Shuffled
  <2>3. local[r][(e - 1) * size + x] = Chunk(batch, DpSize)[r][pss[r][e][x]]
    BY <2>6, Zenon
  <2>4. PICK y \in 1 .. size : y = pss[r][e][x]
    BY <2>6, Zenon
  <2>5. Chunk(batch, DpSize)[r][y] = batch[(r - 1) * size + y]
    BY <1>3 DEF IsPart
  <2> QED
    BY <1>10, <2>1, <2>2, <2>3, <2>4, <2>5
<1>13. Shares(sz)
  <2>1. \A r \in Ranks : RowsOf(r) \in Seq(Row) /\ Len(RowsOf(r)) = sz
    BY <1>7 DEF IsPart
  <2> QED
    BY <1>1, <1>11, <1>12, <2>1, SharesRule
<1> QED
  BY <1>13

-----------------------------------------------------------------------------
(* The micro-batches of the ranks, and what a rank returns.                *)
LEMMA SplitRule ==
  ASSUME MaxTokenLen # 0, NEW n, Shares(n)
  PROVE  \A r \in Ranks : /\ Agreed(r) \in 1 .. n
                          /\ IsPartition(MicroBatches(LensOf(r), Agreed(r)), n, Agreed(r))
<1>1. n \in Nat \ {0} /\ \A q \in Ranks : RowsOf(q) \in Seq(Row) /\ Len(RowsOf(q)) = n
  BY DEF Shares
<1>2. /\ \A r \in Ranks : Agreed(r) \in 1 .. n
      /\ \A r \in Ranks : LensOf(r) \in Seq(Nat) /\ LensOf(r) # <<>> /\ Len(LensOf(r)) = n
  BY <1>1, AgreedRule
<1> SUFFICES ASSUME NEW r \in Ranks
             PROVE  /\ Agreed(r) \in 1 .. n
                    /\ IsPartition(MicroBatches(LensOf(r), Agreed(r)), n, Agreed(r))
  OBVIOUS
<1>3. PICK lens \in Seq(Nat) : lens = LensOf(r) /\ lens # <<>> /\ Len(lens) = n
  BY <1>2
<1>4. PICK num \in Nat : num = Agreed(r) /\ num \in 1 .. n /\ 1 <= num
  BY <1>1, <1>2
<1>5. IsPartition(MicroBatches(lens, num), Len(lens), num)
  BY <1>3, <1>4, MicroBatchesRule
<1> QED
  BY <1>3, <1>4, <1>5

LEMMA OutputOfRule ==
  ASSUME NEW r \in Ranks, RowsOf(r) \in Seq(Row), NEW k \in Nat \ {0},
         IsPartition(micro[r], Len(RowsOf(r)), k)
  PROVE  OutputOf(r) = KeysIn(RowsOf(r))
<1>1. PICK rows \in Seq(Row), n \in Nat : rows = RowsOf(r) /\ n = Len(rows)
  BY LenProperties
<1>2. PICK parts : parts = micro[r]
  OBVIOUS
<1>3. PICK F : /\ F = KeysIn(rows) /\ F \in Seq(Nat) /\ Len(F) = n
               /\ \A i \in 1 .. n : F[i] = rows[i].key
  BY <1>1, KeysInRule
<1>4. F \in [1 .. n -> Nat]
  BY <1>1, <1>3, LenProperties
<1>5. IsPartition(parts, n, k)
  BY <1>1, <1>2
<1>6. /\ DOMAIN parts = 1 .. k
      /\ \A a \in 1 .. k : /\ DOMAIN parts[a] = 1 .. Len(parts[a])
                           /\ \A b \in 1 .. Len(parts[a]) : parts[a][b] \in 1 .. n
  <2>1. k \in Nat
    OBVIOUS
  <2>2. /\ DOMAIN parts = 1 .. k
        /\ \A a \in 1 .. k : /\ parts[a] \in Seq(1 .. n) /\ Len(parts[a]) \in Nat
                             /\ DOMAIN parts[a] = 1 .. Len(parts[a])
                             /\ \A b \in 1 .. Len(parts[a]) : parts[a][b] \in 1 .. n
    BY <1>5, <2>1, PartitionTypes, Zenon
  <2> QED
    BY <2>2, Zenon
<1>7. [j \in DOMAIN parts |-> [i \in DOMAIN parts[j] |-> rows[parts[j][i]].key]]
        = [j \in DOMAIN parts |-> [i \in DOMAIN parts[j] |-> F[parts[j][i]]]]
  <2>1. ASSUME NEW a \in 1 .. k
        PROVE  [i \in DOMAIN parts[a] |-> rows[parts[a][i]].key] = [i \in DOMAIN parts[a] |-> F[parts[a][i]]]
    <3>1. \A i \in DOMAIN parts[a] : rows[parts[a][i]].key = F[parts[a][i]]
      BY <1>3, <1>6
    <3> QED
      BY <3>1
  <2> QED
    BY <1>6, <2>1
<1>8. OutputOf(r) = Restore(FlattenSeq([j \in DOMAIN parts |->
                      [i \in DOMAIN parts[j] |-> rows[parts[j][i]].key]]), parts)
  BY <1>1, <1>2 DEF OutputOf
<1>9. OutputOf(r) = Restore(FlattenSeq([j \in DOMAIN parts |->
                      [i \in DOMAIN parts[j] |-> F[parts[j][i]]]]), parts)
  BY <1>7, <1>8
<1>10. OutputOf(r) = [i \in 1 .. n |-> F[i]]
  <2>1. k \in Nat /\ k # 0
    OBVIOUS
  <2>2. Restore(FlattenSeq([j \in DOMAIN parts |-> [i \in DOMAIN parts[j] |-> F[parts[j][i]]]]), parts)
          = [i \in 1 .. n |-> F[i]]
    <3>1. Restores(F, n, parts)
      BY <1>4, <1>5, <2>1, OutputRule
    <3> QED
      BY <3>1, Zenon DEF Restores
  <2> QED
    BY <1>9, <2>2, Zenon
<1> QED
  BY <1>1, <1>3, <1>4, <1>10

(* What holds of the batch and of the calls of the workers.                *)
RowsInv ==
  /\ batch \in Seq(Row) /\ batch # <<>> /\ Distinct(batch)
  /\ MaxTokenLen # 0
  /\ stage = "sampled" => \A i \in 1 .. Len(batch) : batch[i].key = i
  /\ stage \in {"padded", "balanced", "infer", "computed", "update", "trained"} =>
       Len(batch) % DpSize = 0 /\ Len(batch) % MiniBatch = 0

CallInv ==
  /\ pc \in [Ranks -> {"idle", "tokens", "count", "forward", "step", "return"}]
  /\ stage \notin {"infer", "update"} => \A r \in Ranks : pc[r] = "idle"
  /\ stage = "infer" => \A r \in Ranks : local[r] = Chunk(batch, DpSize)[r] /\ pc[r] # "step"
  /\ stage = "update" =>
       /\ mini \in 1 .. MiniBatches * Epochs
       /\ \A r \in Ranks : local[r] \in Orders(Chunk(batch, DpSize)[r])

(* The micro-batches of a rank have all of its rows, each once.            *)
MicroInv ==
  \A r \in Ranks : pc[r] \in {"forward", "step", "return"} =>
    \E k \in Nat \ {0} : IsPartition(micro[r], Len(RowsOf(r)), k)

Aligned == RowsInv /\ CallInv /\ MicroInv /\ OutputsAligned

LEMMA AlignedShares ==
  ASSUME RowsInv, CallInv, stage \in {"infer", "update"}
  PROVE  \E n : Shares(n)
<1>1. /\ batch \in Seq(Row) /\ batch # <<>> /\ Distinct(batch)
      /\ Len(batch) % DpSize = 0 /\ Len(batch) % MiniBatch = 0
  BY DEF RowsInv
<1>2. CASE stage = "infer"
  BY <1>1, <1>2, InferShares DEF CallInv
<1>3. CASE stage = "update"
  BY <1>1, <1>3, UpdateShares DEF CallInv
<1> QED
  BY <1>2, <1>3

LEMMA RanksCall ==
  ASSUME CallInv, NEW r \in Ranks, pc[r] # "idle"
  PROVE  stage \in {"infer", "update"}
BY DEF CallInv

LEMMA AlignedInit == Init => Aligned
<1> SUFFICES ASSUME Init PROVE Aligned
  OBVIOUS
<1>1. PICK s \in Samples : batch = Keyed(s)
  BY DEF Init
<1>2. s \in Seq([len : 1 .. MaxTokenLen, mask : Nat]) /\ s # <<>>
  BY DataParallelAssumption DEF DataParallelAssumption
<1>3. PICK n \in Nat \ {0} : n = Len(s) /\ DOMAIN s = 1 .. n
  <2>1. Len(s) \in Nat /\ Len(s) # 0 /\ DOMAIN s = 1 .. Len(s)
    BY <1>2, EmptySeq, LenProperties
  <2> QED
    BY <2>1
<1>4. \A i \in 1 .. n : s[i] \in [len : 1 .. MaxTokenLen, mask : Nat]
  BY <1>2, <1>3, ElementOfSeq
<1>5. \A i \in 1 .. n : s[i].len \in 1 .. MaxTokenLen /\ s[i].mask \in Nat
  BY <1>4
<1>6. MaxTokenLen # 0
  <2>1. s[1].len \in 1 .. MaxTokenLen
    BY <1>5
  <2> QED
    BY <2>1, ConstantsRule
<1>7. batch = [i \in 1 .. n |-> [key |-> i, len |-> s[i].len, mask |-> s[i].mask]]
  BY <1>1, <1>3 DEF Keyed
<1>8. \A i \in 1 .. n : [key |-> i, len |-> s[i].len, mask |-> s[i].mask] \in Row
  <2> SUFFICES ASSUME NEW i \in 1 .. n PROVE [key |-> i, len |-> s[i].len, mask |-> s[i].mask] \in Row
    OBVIOUS
  <2>1. s[i].len \in Nat \ {0} /\ s[i].mask \in Nat /\ i \in Nat
    BY <1>5
  <2> QED
    BY <2>1 DEF Row
<1>9. batch \in Seq(Row) /\ Len(batch) = n
  <2>1. batch \in [1 .. n -> Row]
    BY <1>7, <1>8, Zenon
  <2> QED
    BY <2>1
<1>10. \A i \in 1 .. n : batch[i].key = i
  BY <1>7
<1>11. RowsInv
  <2>1. batch # <<>>
    BY <1>9, EmptySeq
  <2>2. Distinct(batch)
    BY <1>9, <1>10 DEF Distinct
  <2>3. stage \in {"sampled", "validation"}
    BY DEF Init
  <2> QED
    BY <1>6, <1>9, <1>10, <2>1, <2>2, <2>3 DEF RowsInv
<1>12. CallInv /\ MicroInv /\ OutputsAligned
  BY DEF Init, CallInv, MicroInv, OutputsAligned
<1> QED
  BY <1>11, <1>12 DEF Aligned

LEMMA CollectAligned ==
  ASSUME Aligned, CollectInfer
  PROVE  values' = KeysIn(batch)
<1>1. stage = "infer" /\ \A r \in Ranks : pc[r] = "return"
  BY DEF CollectInfer
<1>2. PICK n : Shares(n)
  BY <1>1, AlignedShares DEF Aligned
<1>3. batch \in Seq(Row) /\ batch # <<>> /\ Len(batch) % DpSize = 0
  BY <1>1 DEF Aligned, RowsInv
<1>4. PICK size \in Nat \ {0} : Len(batch) = DpSize * size
  BY <1>3, Sizes
<1>5. \A r \in Ranks : OutputOf(r) = KeysIn(Chunk(batch, DpSize)[r])
  <2> SUFFICES ASSUME NEW r \in Ranks PROVE OutputOf(r) = KeysIn(Chunk(batch, DpSize)[r])
    OBVIOUS
  <2>1. RowsOf(r) = Chunk(batch, DpSize)[r]
    BY <1>1 DEF Aligned, CallInv, RowsOf, Training
  <2>2. RowsOf(r) \in Seq(Row)
    BY <1>2 DEF Shares
  <2>3. PICK k \in Nat \ {0} : IsPartition(micro[r], Len(RowsOf(r)), k)
    BY <1>1 DEF Aligned, MicroInv
  <2>4. OutputOf(r) = KeysIn(RowsOf(r))
    BY <2>2, <2>3, OutputOfRule
  <2> QED
    BY <2>1, <2>4
<1>6. values' = FlattenSeq([r \in Ranks |-> OutputOf(r)])
  BY CollectRule, Zenon DEF CollectInfer
<1>7. [r \in Ranks |-> OutputOf(r)] = [r \in 1 .. DpSize |-> KeysIn(Chunk(batch, DpSize)[r])]
  BY <1>5 DEF Ranks
<1> QED
  BY <1>3, <1>4, <1>6, <1>7, ScatterGather, ConstantsRule

-----------------------------------------------------------------------------
LEMMA FirstRank == 1 \in Ranks
BY ConstantsRule DEF Ranks

LEMMA OutputsAreKeys ==
  OutputsAligned <=>
    (stage \in {"computed", "update", "trained", "validated"} => values = KeysIn(batch))
BY DEF OutputsAligned, KeysIn

LEMMA AlignedStep == Aligned /\ [Next]_vars => Aligned'
<1> SUFFICES ASSUME Aligned, [Next]_vars PROVE Aligned'
  OBVIOUS
<1>0. RowsInv /\ CallInv /\ MicroInv /\ OutputsAligned
  BY DEF Aligned
<1>i. batch \in Seq(Row) /\ batch # <<>> /\ Distinct(batch) /\ MaxTokenLen # 0
  BY <1>0 DEF RowsInv
<1>1. CASE UNCHANGED vars
  <2>1. UNCHANGED <<stage, batch, values, local, mini, pc, micro>>
    BY <1>1 DEF vars
  <2>2. RowsInv'
    BY <1>0, <2>1 DEF RowsInv
  <2>3. CallInv'
    BY <1>0, <2>1 DEF CallInv, MiniBatches
  <2>4. MicroInv'
    BY <1>0, <2>1 DEF MicroInv, RowsOf, Training
  <2>5. OutputsAligned'
    BY <1>0, <2>1 DEF OutputsAligned
  <2> QED
    BY <2>2, <2>3, <2>4, <2>5 DEF Aligned
<1>2. CASE Validate
  <2>1. /\ stage = "validation" /\ stage' = "validated"
        /\ UNCHANGED <<batch, local, mini, pc, micro>>
    BY <1>2 DEF Validate, rankVars
  <2>2. RowsInv'
    BY <1>0, <2>1 DEF RowsInv
  <2>3. CallInv' /\ MicroInv'
    BY <1>0, <2>1 DEF CallInv, MicroInv
  <2>4. OutputsAligned'
    <3>1. values' = KeysIn(batch)
      BY <1>i, <1>2, ValidateRule
    <3>2. values' = KeysIn(batch)'
      BY <2>1, <3>1 DEF KeysIn
    <3> QED
      BY <3>2 DEF OutputsAligned, KeysIn
  <2> QED
    BY <2>2, <2>3, <2>4 DEF Aligned
<1>3. CASE Upsample
  <2>1. /\ stage = "sampled" /\ stage' = "padded" /\ UNCHANGED <<local, mini, pc, micro>>
    BY <1>3 DEF Upsample, rankVars
  <2>2. RowsInv'
    <3>1. \A i \in 1 .. Len(batch) : batch[i].key = i
      BY <1>0, <2>1 DEF RowsInv
    <3>2. /\ batch' \in Seq(Row) /\ batch' # <<>> /\ Distinct(batch')
          /\ Len(batch') % DpSize = 0 /\ Len(batch') % MiniBatch = 0
      BY <1>i, <1>3, <3>1, UpsampleRule
    <3>3. Distinct(batch)'
      BY <3>2 DEF Distinct
    <3> QED
      BY <1>i, <2>1, <3>2, <3>3 DEF RowsInv
  <2>3. CallInv' /\ MicroInv' /\ OutputsAligned'
    BY <1>0, <2>1 DEF CallInv, MicroInv, OutputsAligned
  <2> QED
    BY <2>2, <2>3 DEF Aligned
<1>4. CASE Balance
  <2>1. /\ stage = "padded" /\ stage' = "balanced" /\ UNCHANGED <<local, mini, pc, micro>>
    BY <1>4 DEF Balance, rankVars
  <2>2. RowsInv'
    <3>1. Len(batch) % DpSize = 0 /\ Len(batch) % MiniBatch = 0
      BY <1>0, <2>1 DEF RowsInv
    <3>2. batch' \in Seq(Row) /\ batch' # <<>> /\ Distinct(batch') /\ Len(batch') = Len(batch)
      BY <1>i, <1>4, <3>1, BalanceRule
    <3>3. Distinct(batch)'
      BY <3>2 DEF Distinct
    <3> QED
      BY <1>i, <2>1, <3>1, <3>2, <3>3 DEF RowsInv
  <2>3. CallInv' /\ MicroInv' /\ OutputsAligned'
    BY <1>0, <2>1 DEF CallInv, MicroInv, OutputsAligned
  <2> QED
    BY <2>2, <2>3 DEF Aligned
<1>5. CASE CallInfer
  <2>1. /\ stage = "balanced" /\ stage' = "infer" /\ UNCHANGED batch
        /\ pc' = [r \in Ranks |-> "tokens"]
        /\ local' = [r \in Ranks |-> Dispatch(batch)[(r - 1) * SpSize + 1]]
    BY <1>5 DEF CallInfer, Enter
  <2>2. RowsInv'
    BY <1>0, <2>1 DEF RowsInv
  <2>3. \A r \in Ranks : local'[r] = Chunk(batch', DpSize)[r]
    BY <2>1, DispatchRule
  <2>4. CallInv'
    BY <2>1, <2>3 DEF CallInv
  <2>5. MicroInv' /\ OutputsAligned'
    BY <2>1 DEF MicroInv, OutputsAligned
  <2> QED
    BY <2>2, <2>4, <2>5 DEF Aligned
<1>6. CASE CallUpdate
  <2>1. /\ stage = "computed" /\ stage' = "update" /\ UNCHANGED <<batch, values>> /\ mini' = 1
        /\ pc' = [r \in Ranks |-> "tokens"]
        /\ \A r \in Ranks : local'[r] \in Orders(Chunk(batch, DpSize)[r])
    BY <1>6 DEF CallUpdate, Enter
  <2>2. RowsInv'
    BY <1>0, <2>1 DEF RowsInv
  <2>3. 1 \in 1 .. MiniBatches * Epochs
    <3>1. Len(batch) % DpSize = 0 /\ Len(batch) % MiniBatch = 0
      BY <1>0, <2>1 DEF RowsInv
    <3>2. PICK size \in Nat \ {0} : Len(batch) = DpSize * size
      BY <1>i, <3>1, Sizes
    <3>3. PICK d \in Nat \ {0} : MiniBatches = d
      <4>1. PICK L \in Nat \ {0} : L = Len(batch)
        BY <1>i, EmptySeq, LenProperties
      <4> QED
        BY <3>1, <3>2, <4>1, MiniSizes DEF MiniBatches
    <3>4. PICK e \in Nat \ {0} : e = Epochs
      BY ConstantsRule
    <3>5. 1 <= d * e /\ d * e \in Nat
      OBVIOUS
    <3> QED
      BY <3>3, <3>4, <3>5
  <2>4. CallInv'
    <3>1. (MiniBatches * Epochs)' = MiniBatches * Epochs
      BY <2>1 DEF MiniBatches
    <3>2. \A r \in Ranks : local'[r] \in Orders(Chunk(batch', DpSize)[r])
      BY <2>1
    <3>3. pc' \in [Ranks -> {"idle", "tokens", "count", "forward", "step", "return"}]
      BY <2>1
    <3> QED
      BY <2>1, <2>3, <3>1, <3>2, <3>3 DEF CallInv
  <2>5. MicroInv' /\ OutputsAligned'
    BY <1>0, <2>1 DEF MicroInv, OutputsAligned
  <2> QED
    BY <2>2, <2>4, <2>5 DEF Aligned
<1>7. ASSUME NEW s \in {"tokens", "count"}, pc' = [r \in Ranks |-> s],
             UNCHANGED <<stage, batch, values, local>>, stage \in {"infer", "update"},
             stage = "update" => mini' \in 1 .. MiniBatches * Epochs
      PROVE  Aligned'
  <2>1. RowsInv' /\ MicroInv' /\ OutputsAligned'
    BY <1>0, <1>7 DEF RowsInv, MicroInv, OutputsAligned
  <2>2. CallInv'
    <3>1. (MiniBatches * Epochs)' = MiniBatches * Epochs
      BY <1>7 DEF MiniBatches
    <3>2. pc' \in [Ranks -> {"idle", "tokens", "count", "forward", "step", "return"}]
      BY <1>7
    <3> QED
      BY <1>0, <1>7, <3>1, <3>2 DEF CallInv
  <2> QED
    BY <2>1, <2>2 DEF Aligned
<1>8. CASE ReduceTokens
  <2>1. /\ \A r \in Ranks : pc[r] = "tokens"
        /\ pc' = [r \in Ranks |-> "count"] /\ UNCHANGED <<stage, batch, values, local, mini>>
    BY <1>8 DEF ReduceTokens
  <2>2. stage \in {"infer", "update"}
    BY <1>0, <2>1, FirstRank, RanksCall
  <2>3. stage = "update" => mini' \in 1 .. MiniBatches * Epochs
    BY <1>0, <2>1 DEF CallInv
  <2> QED
    BY <1>7, <2>1, <2>2, <2>3
<1>9. CASE ReduceCount
  <2>1. /\ \A r \in Ranks : pc[r] = "count"
        /\ pc' = [r \in Ranks |-> "forward"]
        /\ micro' = [r \in Ranks |-> MicroBatches(LensOf(r), Agreed(r))]
        /\ UNCHANGED <<stage, batch, values, local, mini>>
    BY <1>9 DEF ReduceCount
  <2>2. stage \in {"infer", "update"}
    BY <1>0, <2>1, FirstRank, RanksCall
  <2>3. RowsInv' /\ OutputsAligned'
    BY <1>0, <2>1 DEF RowsInv, OutputsAligned
  <2>4. CallInv'
    <3>1. (MiniBatches * Epochs)' = MiniBatches * Epochs
      BY <2>1 DEF MiniBatches
    <3>2. pc' \in [Ranks -> {"idle", "tokens", "count", "forward", "step", "return"}]
      BY <2>1
    <3> QED
      BY <1>0, <2>1, <2>2, <3>1, <3>2 DEF CallInv
  <2>5. MicroInv'
    <3>1. PICK n : Shares(n)
      BY <1>0, <2>2, AlignedShares
    <3>2. \A r \in Ranks : Len(RowsOf(r)) = n /\ RowsOf(r)' = RowsOf(r)
      BY <2>1, <3>1 DEF Shares, RowsOf, Training
    <3>3. \A r \in Ranks : Agreed(r) \in Nat \ {0} /\ IsPartition(micro'[r], n, Agreed(r))
      <4> SUFFICES ASSUME NEW r \in Ranks
                   PROVE  Agreed(r) \in Nat \ {0} /\ IsPartition(micro'[r], n, Agreed(r))
        OBVIOUS
      <4>1. Agreed(r) \in 1 .. n /\ IsPartition(MicroBatches(LensOf(r), Agreed(r)), n, Agreed(r))
        BY <1>i, <3>1, SplitRule
      <4>2. micro'[r] = MicroBatches(LensOf(r), Agreed(r))
        BY <2>1
      <4>3. Agreed(r) \in Nat \ {0}
        BY <3>1, <4>1 DEF Shares
      <4> QED
        BY <4>1, <4>2, <4>3
    <3>4. \A r \in Ranks : IsPartition(micro'[r], Len(RowsOf(r))', Agreed(r))
      BY <3>2, <3>3
    <3>5. \A r \in Ranks : \E k \in Nat \ {0} : IsPartition(micro'[r], Len(RowsOf(r))', k)
      BY <3>3, <3>4
    <3>6. \A r \in Ranks : \E k \in Nat \ {0} : IsPartition(micro[r], Len(RowsOf(r)), k)'
      BY <3>5 DEF IsPartition
    <3> QED
      BY <3>6 DEF MicroInv
  <2> QED
    BY <2>3, <2>4, <2>5 DEF Aligned
<1>10. CASE Forward
  <2>1. UNCHANGED <<stage, batch, values, local, mini, pc, micro>>
    BY <1>10 DEF Forward
  <2>2. RowsInv'
    BY <1>0, <2>1 DEF RowsInv
  <2>3. CallInv'
    BY <1>0, <2>1 DEF CallInv, MiniBatches
  <2>4. MicroInv'
    BY <1>0, <2>1 DEF MicroInv, RowsOf, Training
  <2>5. OutputsAligned'
    BY <1>0, <2>1 DEF OutputsAligned
  <2> QED
    BY <2>2, <2>3, <2>4, <2>5 DEF Aligned
<1>11. CASE OptimizerStep
  <2>1. \A r \in Ranks : pc[r] = "step"
    BY <1>11 DEF OptimizerStep
  <2>2. stage \in {"infer", "update"}
    BY <1>0, <2>1, FirstRank, RanksCall
  <2>3. UNCHANGED <<batch, values, local>>
    BY <1>11 DEF OptimizerStep
  <2>4. CASE mini < MiniBatches * Epochs
    <3>1. mini' = mini + 1 /\ pc' = [r \in Ranks |-> "tokens"] /\ stage' = stage
      BY <1>11, <2>4 DEF OptimizerStep, Enter
    <3>2. stage = "update" => mini' \in 1 .. MiniBatches * Epochs
      <4> SUFFICES ASSUME stage = "update" PROVE mini + 1 \in 1 .. MiniBatches * Epochs
        BY <3>1
      <4>1. mini \in 1 .. MiniBatches * Epochs
        BY <1>0 DEF CallInv
      <4>2. PICK d \in Nat : d = MiniBatches * Epochs
        <5>1. \E c \in Nat : MiniBatches = c
          <6>1. PICK L \in Nat : L = Len(batch)
            BY <1>i, LenProperties
          <6>2. L \div MiniBatch \in Nat
            BY ConstantsRule, DivMod
          <6> QED
            BY <6>1, <6>2 DEF MiniBatches
        <5>2. PICK c \in Nat, e \in Nat : c = MiniBatches /\ e = Epochs
          BY <5>1, ConstantsRule
        <5>3. c * e \in Nat
          OBVIOUS
        <5> QED
          BY <5>2, <5>3
      <4> QED
        BY <2>4, <4>1, <4>2
    <3> QED
      BY <1>7, <2>2, <2>3, <3>1, <3>2
  <2>5. CASE ~(mini < MiniBatches * Epochs)
    <3>1. stage' = "trained" /\ pc' = [r \in Ranks |-> "idle"]
      BY <1>11, <2>5 DEF OptimizerStep
    <3>2. CallInv' /\ MicroInv'
      BY <3>1 DEF CallInv, MicroInv
    <3>3. RowsInv'
      BY <1>0, <2>2, <2>3, <3>1 DEF RowsInv
    <3>4. OutputsAligned'
      <4>1. stage = "update"
        <5>1. stage # "infer"
          BY <1>0, <2>1, FirstRank DEF CallInv
        <5> QED
          BY <2>2, <5>1
      <4> QED
        BY <1>0, <2>3, <4>1 DEF OutputsAligned
    <3> QED
      BY <3>2, <3>3, <3>4 DEF Aligned
  <2> QED
    BY <2>4, <2>5
<1>12. CASE CollectInfer
  <2>1. /\ stage = "infer" /\ stage' = "computed" /\ pc' = [r \in Ranks |-> "idle"]
        /\ UNCHANGED <<batch, local, mini, micro>>
    BY <1>12 DEF CollectInfer
  <2>2. RowsInv'
    BY <1>0, <2>1 DEF RowsInv
  <2>3. CallInv' /\ MicroInv'
    BY <2>1 DEF CallInv, MicroInv
  <2>4. OutputsAligned'
    <3>1. values' = KeysIn(batch)
      BY <1>12, CollectAligned
    <3>2. values' = KeysIn(batch)'
      BY <2>1, <3>1 DEF KeysIn
    <3> QED
      BY <3>2 DEF OutputsAligned, KeysIn
  <2> QED
    BY <2>2, <2>3, <2>4 DEF Aligned
<1>13. ASSUME NEW r \in Ranks, Leave(r)
       PROVE  Aligned'
  <2>1. /\ pc[r] = "forward" /\ pc' = [pc EXCEPT ![r] = IF Training THEN "step" ELSE "return"]
        /\ UNCHANGED <<stage, batch, values, local, mini, micro>>
    BY <1>13 DEF Leave
  <2>2. stage \in {"infer", "update"}
    BY <1>0, <2>1, RanksCall
  <2>3. RowsInv' /\ OutputsAligned'
    BY <1>0, <2>1 DEF RowsInv, OutputsAligned
  <2>4. CallInv'
    <3>1. (MiniBatches * Epochs)' = MiniBatches * Epochs
      BY <2>1 DEF MiniBatches
    <3>2. pc' \in [Ranks -> {"idle", "tokens", "count", "forward", "step", "return"}]
      BY <1>0, <2>1 DEF CallInv
    <3>3. stage = "infer" => \A q \in Ranks : pc'[q] # "step"
      BY <1>0, <2>1 DEF CallInv, Training
    <3> QED
      BY <1>0, <2>1, <2>2, <3>1, <3>2, <3>3 DEF CallInv
  <2>5. MicroInv'
    <3>1. \A q \in Ranks : pc'[q] \in {"forward", "step", "return"} => pc[q] \in {"forward", "step", "return"}
      BY <1>0, <2>1 DEF CallInv
    <3>2. \A q \in Ranks : RowsOf(q)' = RowsOf(q)
      BY <2>1 DEF RowsOf, Training
    <3> QED
      BY <1>0, <2>1, <3>1, <3>2 DEF MicroInv
  <2> QED
    BY <2>3, <2>4, <2>5 DEF Aligned
<1>14. CASE Done
  BY <1>1, <1>14 DEF Done
<1> QED
  BY <1>1, <1>2, <1>3, <1>4, <1>5, <1>6, <1>8, <1>9, <1>10, <1>11, <1>12, <1>13, <1>14 DEF Next

(* What the workers computed for a row is what the trainer finds at its    *)
(* place: padding is cut off again, balancing and the dispatch keep the    *)
(* rows, each rank puts its outputs back in the order of its rows, and     *)
(* the collection joins them in the order of the ranks; for whatever       *)
(* rows, ranks, and micro-batches.                                         *)
THEOREM OutputsInPlace == Spec => []OutputsAligned
<1>1. Aligned => OutputsAligned
  BY DEF Aligned
<1> QED
  BY <1>1, AlignedInit, AlignedStep, PTL DEF Spec

-----------------------------------------------------------------------------
(* The ranks are within a forward_backward_batch together; those whose     *)
(* loop goes on have as many micro-batches, and as many behind them, as    *)
(* all others, and those that left it have done all of theirs.             *)
InStep ==
  /\ pc \in [Ranks -> {"idle", "tokens", "count", "forward", "step", "return"}]
  /\ \A q, r \in Ranks : pc[q] = "forward" =>
       /\ pc[r] \in {"forward", "step", "return"}
       /\ at[q] = at[r] /\ Len(micro[q]) = Len(micro[r])
  /\ \A r \in Ranks : pc[r] \in {"step", "return"} => ~(at[r] <= Len(micro[r]))

LEMMA InStepInit == Init => InStep
BY DEF Init, InStep

LEMMA InStepStep == Aligned /\ InStep /\ [Next]_vars => InStep'
<1> SUFFICES ASSUME Aligned, InStep, [Next]_vars PROVE InStep'
  OBVIOUS
<1>1. CASE UNCHANGED <<pc, micro, at>>
  BY <1>1 DEF InStep
<1>2. ASSUME NEW s \in {"idle", "tokens", "count"}, pc' = [r \in Ranks |-> s]
      PROVE  InStep'
  BY <1>2 DEF InStep
<1>3. CASE Done \/ Validate \/ Upsample \/ Balance
  BY <1>1, <1>3 DEF Done, Validate, Upsample, Balance, vars, rankVars
<1>4. CASE CallInfer \/ CallUpdate
  BY <1>2, <1>4 DEF CallInfer, CallUpdate, Enter
<1>5. CASE ReduceTokens
  BY <1>2, <1>5 DEF ReduceTokens
<1>6. CASE ReduceCount
  <2>1. /\ pc' = [r \in Ranks |-> "forward"] /\ at' = [r \in Ranks |-> 1]
        /\ micro' = [r \in Ranks |-> MicroBatches(LensOf(r), Agreed(r))]
        /\ \A r \in Ranks : pc[r] = "count"
    BY <1>6 DEF ReduceCount
  <2>2. PICK n : Shares(n)
    <3>1. stage \in {"infer", "update"}
      BY <2>1, FirstRank, RanksCall DEF Aligned
    <3> QED
      BY <3>1, AlignedShares DEF Aligned
  <2>3. \A q, r \in Ranks : Agreed(q) = Agreed(r)
    BY DEF Agreed
  <2>4. \A r \in Ranks : Len(micro'[r]) = Agreed(r)
    <3> SUFFICES ASSUME NEW r \in Ranks PROVE Len(micro'[r]) = Agreed(r)
      OBVIOUS
    <3>1. Agreed(r) \in 1 .. n /\ IsPartition(MicroBatches(LensOf(r), Agreed(r)), n, Agreed(r))
      BY <2>2, SplitRule DEF Aligned, RowsInv
    <3>2. PICK k, parts : /\ k \in Nat /\ k = Agreed(r) /\ parts = MicroBatches(LensOf(r), Agreed(r))
                          /\ IsPartition(parts, n, k)
      BY <2>2, <3>1 DEF Shares
    <3> QED
      BY <2>1, <3>2, PartitionTypes
  <2>5. \A q, r \in Ranks : Len(micro'[q]) = Len(micro'[r])
    BY <2>3, <2>4, Zenon
  <2> QED
    BY <2>1, <2>5 DEF InStep
<1>7. CASE Forward
  <2>1. /\ \A r \in Ranks : pc[r] = "forward"
        /\ at' = [r \in Ranks |-> at[r] + 1] /\ pc' = pc /\ micro' = micro
    BY <1>7 DEF Forward, Looping
  <2> QED
    BY <2>1 DEF InStep
<1>8. CASE OptimizerStep
  BY <1>2, <1>8 DEF OptimizerStep, Enter
<1>9. CASE CollectInfer
  BY <1>2, <1>9 DEF CollectInfer
<1>10. ASSUME NEW r \in Ranks, Leave(r)
       PROVE  InStep'
  <2>1. /\ pc[r] = "forward" /\ ~(at[r] <= Len(micro[r])) /\ at' = at /\ micro' = micro
        /\ pc' = [pc EXCEPT ![r] = IF Training THEN "step" ELSE "return"]
    BY <1>10 DEF Leave, Looping
  <2> QED
    BY <2>1 DEF InStep
<1>11. CASE UNCHANGED vars
  BY <1>1, <1>11 DEF vars, rankVars
<1> QED
  BY <1>3, <1>4, <1>5, <1>6, <1>7, <1>8, <1>9, <1>10, <1>11 DEF Next

(* No rank waits in a forward pass, a collective of all, while another has *)
(* left its loop: the ranks agree on the number of micro-batches, and make *)
(* that many of whatever rows they have.                                   *)
THEOREM ForwardsTogether == Spec => []SameForwards
<1>1. Aligned /\ InStep => SameForwards
  BY DEF InStep, SameForwards, Looping
<1>2. Init => Aligned /\ InStep
  BY AlignedInit, InStepInit
<1>3. Aligned /\ InStep /\ [Next]_vars => (Aligned /\ InStep)'
  BY AlignedStep, InStepStep
<1> QED
  BY <1>1, <1>2, <1>3, PTL DEF Spec

-----------------------------------------------------------------------------
(* Fractions, and the sum of those of the ranks.                           *)
Fractions == Nat \X Nat

LEMMA AddRule ==
  /\ Zero \in Fractions
  /\ \A a \in Fractions : Add(Zero, a) = a /\ Add(a, Zero) = a
  /\ \A a, b \in Fractions : Add(a, b) \in Fractions
<1>1. Zero \in Fractions
  BY DEF Zero, Fractions
<1>2. ASSUME NEW a \in Fractions
      PROVE  Add(Zero, a) = a /\ Add(a, Zero) = a
  <2>1. PICK m \in Nat, n \in Nat : a = <<m, n>>
    BY DEF Fractions
  <2>2. 0 * n + m * 1 = m /\ 1 * n = n /\ m * 1 + 0 * n = m /\ n * 1 = n
    OBVIOUS
  <2> QED
    BY <2>1, <2>2 DEF Add, Zero
<1>3. ASSUME NEW a \in Fractions, NEW b \in Fractions
      PROVE  Add(a, b) \in Fractions
  <2>1. PICK m \in Nat, n \in Nat : a = <<m, n>>
    BY DEF Fractions
  <2>2. PICK p \in Nat, q \in Nat : b = <<p, q>>
    BY DEF Fractions
  <2>3. m * q + p * n \in Nat /\ n * q \in Nat
    OBVIOUS
  <2>4. Add(a, b) = <<m * q + p * n, n * q>>
    BY <2>1, <2>2 DEF Add
  <2> QED
    BY <2>3, <2>4 DEF Fractions
<1> QED
  BY <1>1, <1>2, <1>3

SumOver(k) == FoldSeq(LAMBDA r, g : Add(g, gradient[r][k]), Zero, [r \in Ranks |-> r])

LEMMA AverageOf ==
  ASSUME NEW k \in Keys
  PROVE  Average[k] = <<SumOver(k)[1], SumOver(k)[2] * DpSize>>
BY Zenon DEF Average, SumOver

(* If one rank at most has a gradient, this is the sum.                    *)
LEMMA SumRule ==
  ASSUME NEW k, NEW w \in Fractions, NEW h \in [Ranks -> {Zero, w}],
         \A r \in Ranks : gradient[r][k] = h[r],
         \A q, r \in Ranks : h[q] # Zero /\ h[r] # Zero => q = r
  PROVE  SumOver(k) = IF \E r \in Ranks : h[r] # Zero THEN w ELSE Zero
<1> DEFINE Is(g) == g = [s \in SUBSET Ranks |-> IF s = {} THEN Zero
                           ELSE Add(g[s \ {Pick(s)}], gradient[[r \in Ranks |-> r][Pick(s)]][k])]
           step == [q \in Ranks \X Fractions |-> Add(q[2], h[q[1]])]
           c == CHOOSE g : Is(g)
<1>1. IsFiniteSet(Ranks) /\ \A r \in Ranks : h[r] \in Fractions
  <2>1. IsFiniteSet(Ranks)
    BY FS_Interval, ConstantsRule DEF Ranks
  <2>2. \A r \in Ranks : h[r] \in {Zero, w}
    OBVIOUS
  <2> QED
    BY <2>1, <2>2, AddRule
<1>2. SumOver(k) = c[Ranks]
  BY DEF SumOver, FoldSeq, FoldFunction, FoldFunctionOnSet, MapThenFoldSet, Pick
<1>3. Is(c)
  <2>1. step \in [Ranks \X Fractions -> Fractions]
    BY <1>1, AddRule
  <2>2. PICK g : FoldsTo(Fractions, Zero, step, Ranks, g)
    <3> HIDE DEF step
    <3> QED
      BY <1>1, <2>1, AddRule, FoldExists
  <2>3. ASSUME NEW s \in SUBSET Ranks
        PROVE  g[s] = IF s = {} THEN Zero
                      ELSE Add(g[s \ {Pick(s)}], gradient[[r \in Ranks |-> r][Pick(s)]][k])
    <3>1. s # {} => Pick(s) \in Ranks /\ s \ {Pick(s)} \in SUBSET Ranks
      BY DEF Pick
    <3>2. s # {} => g[s \ {Pick(s)}] \in Fractions
      BY <2>2, <3>1 DEF FoldsTo
    <3>3. s # {} => step[<<Pick(s), g[s \ {Pick(s)}]>>] = Add(g[s \ {Pick(s)}], h[Pick(s)])
      BY <3>1, <3>2
    <3>4. s # {} => h[Pick(s)] = gradient[[r \in Ranks |-> r][Pick(s)]][k]
      BY <3>1
    <3> HIDE DEF step
    <3>5. g[s] = IF s = {} THEN Zero ELSE step[<<Pick(s), g[s \ {Pick(s)}]>>]
      BY <2>2 DEF FoldsTo
    <3> QED
      BY <3>3, <3>4, <3>5, Zenon
  <2>4. g = [s \in SUBSET Ranks |-> g[s]]
    BY <2>2 DEF FoldsTo
  <2>5. Is(g)
    BY <2>3, <2>4, Zenon
  <2> HIDE DEF Is
  <2> QED
    BY <2>5
<1> HIDE DEF c
<1>4. \A s \in SUBSET Ranks : c[s] = IF s = {} THEN Zero ELSE Add(c[s \ {Pick(s)}], h[Pick(s)])
  <2> SUFFICES ASSUME NEW s \in SUBSET Ranks
               PROVE  c[s] = IF s = {} THEN Zero ELSE Add(c[s \ {Pick(s)}], h[Pick(s)])
    OBVIOUS
  <2>1. c[s] = IF s = {} THEN Zero ELSE Add(c[s \ {Pick(s)}], gradient[[r \in Ranks |-> r][Pick(s)]][k])
    BY <1>3
  <2>2. s # {} => Pick(s) \in Ranks
    BY DEF Pick
  <2>3. s # {} => h[Pick(s)] = gradient[[r \in Ranks |-> r][Pick(s)]][k]
    BY <2>2
  <2> QED
    BY <2>1, <2>3, Zenon
<1> DEFINE some(s) == \E r \in s : h[r] # Zero
           sum(s) == IF some(s) THEN w ELSE Zero
<1>5. \A s \in SUBSET Ranks : c[s] = sum(s)
  <2> DEFINE B == {s \in SUBSET Ranks : c[s] # sum(s)}
  <2> SUFFICES ASSUME B # {} PROVE FALSE
    OBVIOUS
  <2>1. PICK s \in B : \A u \in B : u \subseteq s => u = s
    <3>1. B \in SUBSET (SUBSET Ranks)
      OBVIOUS
    <3> HIDE DEF B
    <3> QED
      BY <1>1, <3>1, LeastSet
  <2>2. CASE s = {}
    BY <1>4, <2>2
  <2>3. CASE s # {}
    <3>1. Pick(s) \in s
      BY <2>3 DEF Pick
    <3>2. PICK x, r : x = Pick(s) /\ r = s \ {x}
      OBVIOUS
    <3>3. c[r] = sum(r)
      <4>1. r \in SUBSET Ranks /\ r \subseteq s /\ r # s
        BY <3>1, <3>2
      <4>2. r \notin B
        BY <2>1, <4>1
      <4> QED
        BY <4>1, <4>2
    <3>4. c[s] = Add(sum(r), h[x])
      BY <1>4, <2>3, <3>2, <3>3, Zenon
    <3>5. x \in s /\ x \in Ranks /\ h[x] \in {Zero, w}
      BY <3>1, <3>2
    <3>6. some(s) <=> some(r) \/ h[x] # Zero
      BY <3>2, <3>5
    <3>7. CASE h[x] = Zero
      <4>1. sum(r) \in Fractions
        BY AddRule
      <4>2. c[s] = sum(r)
        BY <3>4, <3>7, <4>1, AddRule, Zenon
      <4>3. sum(s) = sum(r)
        BY <3>6, <3>7
      <4> QED
        BY <4>2, <4>3
    <3>8. CASE h[x] # Zero
      <4>1. ~some(r)
        <5>1. \A y \in r : h[y] # Zero => y = x
          BY <3>2, <3>5, <3>8
        <5> QED
          BY <3>2, <5>1
      <4>2. h[x] = w
        BY <3>5, <3>8
      <4>3. c[s] = Add(Zero, w)
        BY <3>4, <4>1, <4>2
      <4>4. c[s] = w
        BY <4>3, AddRule
      <4>5. sum(s) = w
        BY <3>6, <3>8
      <4> QED
        BY <4>4, <4>5
    <3> QED
      BY <3>7, <3>8
  <2> QED
    BY <2>2, <2>3
<1> QED
  BY <1>2, <1>5

-----------------------------------------------------------------------------
(* The weights of agg_loss.                                                *)
LEMMA TokensType ==
  ASSUME NEW n, Shares(n)
  PROVE  Tokens \in Nat /\ \A r \in Ranks, b \in 1 .. n : RowsOf(r)[b].mask <= Tokens
<1>1. PICK ss : ss = [r \in Ranks |-> RowsOf(r)]
  OBVIOUS
<1>2. ss \in Seq(Seq(Row)) /\ ss # <<>>
  <2>1. ss \in [1 .. DpSize -> Seq(Row)]
    BY <1>1 DEF Shares, Ranks
  <2>2. ss \in Seq(Seq(Row)) /\ Len(ss) = DpSize
    BY <2>1, ConstantsRule
  <2> QED
    BY <2>2, ConstantsRule, EmptySeq
<1>3. PICK rows \in Seq(Row) : rows = FlattenSeq(ss) /\ Joins(ss, rows)
  BY <1>2, FlattenRule
<1>4. PICK L \in Nat : L = Len(rows) /\ DOMAIN rows = 1 .. L
  BY LenProperties
<1>5. PICK mask : mask = [i \in DOMAIN rows |-> rows[i].mask]
  OBVIOUS
<1>6. mask \in [1 .. L -> Nat]
  <2>1. \A i \in 1 .. L : rows[i] \in Row
    BY <1>4, ElementOfSeq
  <2>2. \A i \in 1 .. L : rows[i].mask \in Nat
    BY <2>1 DEF Row
  <2> QED
    BY <1>4, <1>5, <2>2
<1>7. PICK idxs : idxs = [i \in DOMAIN rows |-> i]
  OBVIOUS
<1>8. idxs \in Seq(1 .. L)
  BY <1>4, <1>7
<1>9. Total(mask, idxs) \in Nat /\ \A i \in 1 .. L : mask[i] <= Total(mask, idxs)
  <2>1. Total(mask, idxs) \in Nat /\ \A i \in DOMAIN idxs : Total(mask, idxs) >= mask[idxs[i]]
    BY <1>6, <1>8, TotalType
  <2>2. DOMAIN idxs = 1 .. L /\ \A i \in 1 .. L : idxs[i] = i
    BY <1>4, <1>7
  <2> SUFFICES ASSUME NEW i \in 1 .. L PROVE mask[i] <= Total(mask, idxs)
    BY <2>1
  <2>3. Total(mask, idxs) >= mask[i]
    BY <2>1, <2>2
  <2>4. PICK a \in Nat, b \in Nat : a = mask[i] /\ b = Total(mask, idxs)
    BY <1>6, <2>1
  <2> QED
    BY <2>3, <2>4
<1>10. Tokens = Total(mask, idxs)
  BY <1>1, <1>3, <1>5, <1>7, Zenon DEF Tokens
<1>11. ASSUME NEW r \in Ranks, NEW b \in 1 .. n
       PROVE  \E i \in 1 .. L : RowsOf(r)[b].mask = mask[i]
  <2>1. r \in 1 .. Len(ss) /\ ss[r] = RowsOf(r) /\ b \in 1 .. Len(ss[r])
    <3>1. ss \in [1 .. DpSize -> Seq(Row)] /\ DpSize \in Nat
      BY <1>1, ConstantsRule DEF Shares, Ranks
    <3>2. Len(ss) = DpSize
      BY <3>1
    <3>3. ss[r] = RowsOf(r)
      BY <1>1
    <3> QED
      BY <3>2, <3>3 DEF Ranks, Shares
  <2>2. Placed(ss, rows, Starts(ss), Len(ss))
    BY <1>2, <1>3, JoinPlaces
  <2>3. PICK i \in 1 .. L : rows[i] = ss[r][b]
    BY <1>4, <2>1, <2>2, Zenon DEF Placed
  <2>4. mask[i] = rows[i].mask
    BY <1>4, <1>5
  <2> QED
    BY <2>1, <2>3, <2>4, Zenon
<1> QED
  BY <1>9, <1>10, <1>11

LEMMA WeightRule ==
  ASSUME mode \in Modes, NEW t \in Nat, NEW row \in Row
  PROVE  /\ \A d \in Nat : TokenWeight(row, t, d) \in Fractions
         /\ \E u \in Nat : /\ \A d \in Nat : TokenWeight(row, t, d) = <<d, u>>
                           /\ row.mask # 0 /\ t # 0 => u # 0
<1>1. mode \in {"token-mean", "seq-mean-token-sum", "seq-mean-token-mean"}
  BY DataParallelAssumption DEF DataParallelAssumption
<1>2. MiniBatch \in Nat \ {0} /\ row.mask \in Nat
  BY ConstantsRule DEF Row
<1>3. PICK p \in Nat : p = MiniBatch * row.mask /\ (row.mask # 0 => p # 0)
  <2>1. PICK a \in Nat \ {0}, b \in Nat : a = MiniBatch /\ b = row.mask
    BY <1>2
  <2>2. a * b \in Nat /\ (b # 0 => a * b # 0)
    OBVIOUS
  <2> QED
    BY <2>1, <2>2
<1>4. PICK u \in Nat : /\ \A d \in Nat : TokenWeight(row, t, d) = <<d, u>>
                       /\ row.mask # 0 /\ t # 0 => u # 0
  <2>1. CASE mode = "token-mean"
    BY <2>1 DEF TokenWeight
  <2>2. CASE mode = "seq-mean-token-sum"
    BY <1>2, <2>2 DEF TokenWeight
  <2>3. CASE mode = "seq-mean-token-mean"
    BY <1>3, <2>3 DEF TokenWeight
  <2> QED
    BY <1>1, <2>1, <2>2, <2>3
<1> QED
  BY <1>4 DEF Fractions

-----------------------------------------------------------------------------
(* What a rank has accumulated over the rows done: the weight of each, and *)
(* nothing for the keys of no row done.                                    *)
Carries(row, k) == row.key = k /\ row.mask > 0

Sums(keys, rows, done, w, g) ==
  \A k \in keys :
    /\ (\A i \in done : ~Carries(rows[i], k)) => g[k] = Zero
    /\ \A i \in done : Carries(rows[i], k) => g[k] = w[rows[i]]

(* One more micro-batch.                                                   *)
Hits(rows, more, k) == {row \in {rows[i] : i \in more} : row.key = k /\ row.mask > 0}
Grown(keys, rows, more, w, g, h) ==
  \A k \in keys : h[k] = IF Hits(rows, more, k) = {} THEN g[k]
                         ELSE Add(g[k], w[CHOOSE row \in Hits(rows, more, k) : TRUE])

LEMMA SumsGrow ==
  ASSUME NEW keys, NEW n \in Nat, NEW rows \in Seq(Row), Len(rows) = n,
         \A i, j \in 1 .. n : rows[i].key = rows[j].key => i = j,
         NEW done \in SUBSET (1 .. n), NEW more \in SUBSET (1 .. n), \A i \in done : i \notin more,
         NEW w \in [Row -> Fractions], NEW g, Sums(keys, rows, done, w, g),
         NEW h, Grown(keys, rows, more, w, g, h)
  PROVE  Sums(keys, rows, done \cup more, w, h)
<1>1. SUFFICES ASSUME NEW k \in keys
               PROVE  /\ (\A i \in done \cup more : ~Carries(rows[i], k)) => h[k] = Zero
                      /\ \A i \in done \cup more : Carries(rows[i], k) => h[k] = w[rows[i]]
  BY DEF Sums
<1>2. /\ (\A i \in done : ~Carries(rows[i], k)) => g[k] = Zero
      /\ \A i \in done : Carries(rows[i], k) => g[k] = w[rows[i]]
  BY DEF Sums
<1>3. Hits(rows, more, k) = {} <=> \A i \in more : ~Carries(rows[i], k)
  BY DEF Hits, Carries
<1>4. CASE Hits(rows, more, k) = {}
  <2>1. h[k] = g[k]
    BY <1>4 DEF Grown
  <2>2. \A i \in more : ~Carries(rows[i], k)
    BY <1>3, <1>4
  <2> QED
    BY <1>2, <2>1, <2>2
<1>5. CASE Hits(rows, more, k) # {}
  <2>1. PICK row : row = CHOOSE x \in Hits(rows, more, k) : TRUE
    OBVIOUS
  <2>2. row \in Hits(rows, more, k)
    BY <1>5, <2>1
  <2>3. PICK i \in more : row = rows[i] /\ Carries(rows[i], k)
    BY <2>2 DEF Hits, Carries
  <2>4. \A j \in done \cup more : Carries(rows[j], k) => j = i
    BY <2>3 DEF Carries
  <2>5. g[k] = Zero
    BY <1>2, <2>3, <2>4
  <2>6. w[row] \in Fractions
    <3>1. row \in Row
      BY <2>3, ElementOfSeq
    <3> QED
      BY <3>1
  <2>7. h[k] = Add(Zero, w[row])
    BY <1>5, <2>1, <2>5 DEF Grown
  <2>8. h[k] = w[rows[i]]
    BY <2>3, <2>6, <2>7, AddRule
  <2> QED
    BY <2>3, <2>4, <2>8
<1> QED
  BY <1>4, <1>5

(* The rows of a rank whose micro-batches are behind it.                   *)
In(part) == {part[b] : b \in 1 .. Len(part)}
Before(parts, t) == UNION {In(parts[j]) : j \in {i \in 1 .. Len(parts) : i < t}}

OneByOne(parts, n, k) ==
  /\ Before(parts, 1) = {}
  /\ Before(parts, k + 1) = 1 .. n
  /\ \A t \in 1 .. k + 1 : Before(parts, t) \in SUBSET (1 .. n)
  /\ \A t \in 1 .. k : /\ Before(parts, t + 1) = Before(parts, t) \cup In(parts[t])
                       /\ In(parts[t]) = ToSet(parts[t])
                       /\ In(parts[t]) \in SUBSET (1 .. n)
                       /\ \A i \in Before(parts, t) : i \notin In(parts[t])

LEMMA BeforeRule ==
  ASSUME NEW n \in Nat, NEW k \in Nat, NEW parts, IsPartition(parts, n, k)
  PROVE  OneByOne(parts, n, k)
<1>1. /\ Len(parts) = k
      /\ \A a \in 1 .. k : /\ DOMAIN parts[a] = 1 .. Len(parts[a])
                           /\ \A b \in 1 .. Len(parts[a]) : parts[a][b] \in 1 .. n
  BY PartitionTypes
<1>2. Before(parts, 1) = {}
  <2>1. {i \in 1 .. k : i < 1} = {}
    OBVIOUS
  <2> QED
    BY <1>1, <2>1, Zenon DEF Before
<1>3. \A a \in 1 .. k : In(parts[a]) \in SUBSET (1 .. n) /\ In(parts[a]) = ToSet(parts[a])
  BY <1>1, Zenon DEF In, ToSet, Range
<1>4. \A t \in 1 .. k + 1 : Before(parts, t) \in SUBSET (1 .. n)
  BY <1>1, <1>3 DEF Before
<1>5. Before(parts, k + 1) = 1 .. n
  <2>1. {i \in 1 .. k : i < k + 1} = 1 .. k
    OBVIOUS
  <2>2. Before(parts, k + 1) = UNION {In(parts[j]) : j \in 1 .. k}
    BY <1>1, <2>1, Zenon DEF Before
  <2>3. \A i \in 1 .. n : \E a \in 1 .. k : i \in In(parts[a])
    <3>1. \A i \in 1 .. n : \E a \in 1 .. k : \E b \in 1 .. Len(parts[a]) : parts[a][b] = i
      BY Zenon DEF IsPartition
    <3> QED
      BY <3>1, Zenon DEF In
  <2> QED
    BY <1>3, <2>2, <2>3
<1>6. ASSUME NEW t \in 1 .. k
      PROVE  /\ Before(parts, t + 1) = Before(parts, t) \cup In(parts[t])
             /\ \A i \in Before(parts, t) : i \notin In(parts[t])
  <2>1. {i \in 1 .. k : i < t + 1} = {i \in 1 .. k : i < t} \cup {t}
    OBVIOUS
  <2>2. Before(parts, t + 1) = UNION {In(parts[j]) : j \in {i \in 1 .. k : i < t} \cup {t}}
    BY <1>1, <2>1, Zenon DEF Before
  <2>3. Before(parts, t) = UNION {In(parts[j]) : j \in {i \in 1 .. k : i < t}}
    BY <1>1, Zenon DEF Before
  <2>4. ASSUME NEW i \in Before(parts, t), i \in In(parts[t])
        PROVE  FALSE
    <3>1. PICK j \in 1 .. k : j < t /\ i \in In(parts[j])
      BY <2>3
    <3>2. PICK b \in 1 .. Len(parts[j]) : parts[j][b] = i
      BY <3>1 DEF In
    <3>3. PICK d \in 1 .. Len(parts[t]) : parts[t][d] = i
      BY <2>4 DEF In
    <3>4. \A a, c \in 1 .. k : \A e \in 1 .. Len(parts[a]), f \in 1 .. Len(parts[c]) :
            parts[a][e] = parts[c][f] => a = c
      BY Zenon DEF IsPartition
    <3>5. j = t
      BY <3>2, <3>3, <3>4, Zenon
    <3> QED
      BY <3>1, <3>5
  <2> QED
    BY <2>2, <2>3, <2>4
<1> QED
  BY <1>2, <1>3, <1>4, <1>5, <1>6 DEF OneByOne

(* What the ranks go through changes with the rows and the mini-batch only. *)
TokensIn(ss) ==
  LET rows == FlattenSeq(ss)
      mask == [i \in DOMAIN rows |-> rows[i].mask]
  IN Total(mask, [i \in DOMAIN rows |-> i])

LEMMA SameRows ==
  ASSUME UNCHANGED <<stage, local, mini>>
  PROVE  (\A r \in Ranks : RowsOf(r)' = RowsOf(r)) /\ Tokens' = Tokens
<1>1. \A r \in Ranks : RowsOf(r)' = RowsOf(r)
  BY DEF RowsOf, Training
<1>2. [r \in Ranks |-> RowsOf(r)'] = [r \in Ranks |-> RowsOf(r)]
  BY <1>1
<1>3. Tokens = TokensIn([r \in Ranks |-> RowsOf(r)])
  BY Zenon DEF Tokens, TokensIn
<1>4. Tokens' = TokensIn([r \in Ranks |-> RowsOf(r)'])
  BY Zenon DEF Tokens, TokensIn
<1> QED
  BY <1>1, <1>2, <1>3, <1>4, Zenon

Weights == [row \in Row |-> TokenWeight(row, Tokens, DpSize)]

(* The rows done since the last step.                                      *)
RowsDone(r) == IF pc[r] \in {"forward", "step"} THEN Before(micro[r], at[r]) ELSE {}

(* The gradient of each rank is what agg_loss gives the rows done.         *)
GradInv ==
  /\ mode \in Modes
  /\ \A r \in Ranks : pc[r] \in {"forward", "step"} => at[r] \in 1 .. Len(micro[r]) + 1
  /\ stage = "update" => \A r \in Ranks : Sums(Keys, RowsOf(r), RowsDone(r), Weights, gradient[r])

-----------------------------------------------------------------------------
LEMMA GradInit == Init => GradInv
BY DEF Init, GradInv

LEMMA WeightsType ==
  ASSUME mode \in Modes, NEW n, Shares(n)
  PROVE  Weights \in [Row -> Fractions]
<1>1. DpSize \in Nat /\ Tokens \in Nat
  BY ConstantsRule, TokensType
<1>2. \A row \in Row : TokenWeight(row, Tokens, DpSize) \in Fractions
  BY <1>1, WeightRule
<1> QED
  BY <1>2 DEF Weights

(* Nothing is done yet, and nothing accumulated.                           *)
LEMMA NothingDone ==
  ASSUME NEW keys, NEW rows, NEW w, NEW g, \A k \in keys : g[k] = Zero
  PROVE  Sums(keys, rows, {}, w, g)
BY DEF Sums

LEMMA NothingSummed ==
  ASSUME NEW keys, NEW rows, NEW w, NEW g, Sums(keys, rows, {}, w, g)
  PROVE  \A k \in keys : g[k] = Zero
BY DEF Sums

(* Steps between the passes, and those of the trainer.                     *)
LEMMA GradPassive ==
  ASSUME GradInv, UNCHANGED <<mode, stage, batch, local, mini, micro, at, gradient>>,
         \A r \in Ranks : pc'[r] \in {"forward", "step"} <=> pc[r] \in {"forward", "step"}
  PROVE  GradInv'
<1>1. (\A r \in Ranks : RowsOf(r)' = RowsOf(r)) /\ Tokens' = Tokens
  BY SameRows
<1>2. Weights' = Weights
  BY <1>1 DEF Weights, TokenWeight
<1>3. Keys' = Keys
  BY DEF Keys
<1>4. \A r \in Ranks : RowsDone(r)' = RowsDone(r)
  BY DEF RowsDone
<1>5. \A r \in Ranks : Sums(Keys', RowsOf(r)', RowsDone(r)', Weights', gradient'[r])
                         <=> Sums(Keys, RowsOf(r), RowsDone(r), Weights, gradient[r])
  BY <1>1, <1>2, <1>3, <1>4
<1>6. \A r \in Ranks : pc'[r] \in {"forward", "step"} => at'[r] \in 1 .. Len(micro'[r]) + 1
  BY DEF GradInv
<1> QED
  BY <1>5, <1>6 DEF GradInv

LEMMA GradForward ==
  ASSUME Aligned, GradInv, Forward, stage = "update", NEW r \in Ranks
  PROVE  /\ at'[r] \in 1 .. Len(micro[r]) + 1
         /\ Sums(Keys', RowsOf(r)', RowsDone(r)', Weights', gradient'[r])
<1>1. /\ pc[r] = "forward" /\ at[r] <= Len(micro[r])
      /\ at' = [q \in Ranks |-> at[q] + 1]
      /\ UNCHANGED <<mode, stage, batch, local, mini, pc, micro>>
  BY DEF Forward, Looping
<1>2. PICK n : Shares(n)
  BY AlignedShares DEF Aligned
<1>3. PICK rows \in Seq(Row) : rows = RowsOf(r) /\ Len(rows) = n
  BY <1>2 DEF Shares
<1>4. n \in Nat /\ \A i, j \in 1 .. n : rows[i].key = rows[j].key => i = j
  BY <1>2, <1>3 DEF Shares
<1>5. PICK parts : parts = micro[r]
  OBVIOUS
<1>6. PICK k \in Nat : IsPartition(parts, n, k) /\ Len(parts) = k
  <2>1. PICK k \in Nat \ {0} : IsPartition(parts, n, k)
    BY <1>1, <1>3, <1>5 DEF Aligned, MicroInv
  <2> QED
    BY <2>1, PartitionTypes
<1>7. PICK t \in 1 .. k : t = at[r]
  BY <1>1, <1>5, <1>6 DEF GradInv
<1>8. PICK done, more : done = Before(parts, t) /\ more = In(parts[t])
  OBVIOUS
<1>9. /\ done \in SUBSET (1 .. n) /\ more \in SUBSET (1 .. n) /\ \A i \in done : i \notin more
      /\ Before(parts, t + 1) = done \cup more /\ more = ToSet(parts[t])
  <2>1. t \in 1 .. k + 1
    OBVIOUS
  <2>2. OneByOne(parts, n, k)
    BY <1>4, <1>6, BeforeRule
  <2> QED
    BY <1>8, <2>1, <2>2 DEF OneByOne
<1>10. PICK w : w = Weights
  OBVIOUS
<1>11. w \in [Row -> Fractions]
  BY <1>2, <1>10, WeightsType DEF GradInv
<1>12. PICK g, h : g = gradient[r] /\ h = gradient'[r]
  OBVIOUS
<1>13. Sums(Keys, rows, done, w, g)
  <2>1. RowsDone(r) = done
    BY <1>1, <1>5, <1>7, <1>8 DEF RowsDone
  <2> QED
    BY <1>3, <1>10, <1>12, <2>1 DEF GradInv
<1>14. Grown(Keys, rows, more, w, g, h)
  <2> SUFFICES ASSUME NEW key \in Keys
               PROVE  h[key] = IF Hits(rows, more, key) = {} THEN g[key]
                               ELSE Add(g[key], w[CHOOSE row \in Hits(rows, more, key) : TRUE])
    BY DEF Grown
  <2>1. Current(r) = {rows[i] : i \in more}
    BY <1>3, <1>5, <1>7, <1>9 DEF Current
  <2> DEFINE hit == {row \in Current(r) : row.key = key /\ row.mask > 0}
  <2>2. hit = Hits(rows, more, key)
    BY <2>1 DEF Hits
  <2>3. h[key] = IF hit = {} THEN gradient[r][key]
                 ELSE Add(gradient[r][key], TokenWeight(CHOOSE row \in hit : TRUE, Tokens, DpSize))
    <3>1. gradient' = [q \in Ranks |->
              [x \in Keys |->
                LET hit1 == {row \in Current(q) : row.key = x /\ row.mask > 0} IN
                IF hit1 = {} THEN gradient[q][x]
                ELSE Add(gradient[q][x], TokenWeight(CHOOSE row \in hit1 : TRUE, Tokens, DpSize))]]
      BY Zenon DEF Forward, Training
    <3> QED
      BY <1>12, <3>1
  <2> HIDE DEF hit
  <2>4. hit # {} => w[CHOOSE row \in hit : TRUE] = TokenWeight(CHOOSE row \in hit : TRUE, Tokens, DpSize)
    <3> SUFFICES ASSUME hit # {}
                 PROVE  w[CHOOSE row \in hit : TRUE] = TokenWeight(CHOOSE row \in hit : TRUE, Tokens, DpSize)
      OBVIOUS
    <3>1. PICK row : row = CHOOSE x \in hit : TRUE
      OBVIOUS
    <3>2. row \in hit
      BY <3>1
    <3>3. row \in Row
      <4>1. PICK i \in more : row = rows[i]
        BY <2>2, <3>2 DEF Hits
      <4> QED
        BY <1>3, <1>9, <4>1, ElementOfSeq
    <3>4. w[row] = TokenWeight(row, Tokens, DpSize)
      BY <1>10, <3>3 DEF Weights
    <3> QED
      BY <3>1, <3>4
  <2> QED
    BY <1>12, <2>2, <2>3, <2>4, Zenon
<1>15. Sums(Keys, rows, done \cup more, w, h)
  <2>1. PICK keys : keys = Keys
    OBVIOUS
  <2>2. Sums(keys, rows, done, w, g) /\ Grown(keys, rows, more, w, g, h)
    BY <1>13, <1>14, <2>1
  <2>3. Sums(keys, rows, done \cup more, w, h)
    BY <1>3, <1>4, <1>9, <1>11, <2>2, SumsGrow
  <2> QED
    BY <2>1, <2>3
<1>16. Keys' = Keys /\ RowsOf(r)' = rows /\ Weights' = w
  <2>1. RowsOf(r)' = RowsOf(r) /\ Tokens' = Tokens
    BY <1>1, SameRows
  <2>2. Weights' = Weights
    BY <1>1, <2>1 DEF Weights, TokenWeight
  <2> QED
    BY <1>1, <1>3, <1>10, <2>1, <2>2 DEF Keys
<1>17. RowsDone(r)' = done \cup more
  <2>1. at'[r] = t + 1
    BY <1>1, <1>7
  <2>2. RowsDone(r)' = Before(micro'[r], at'[r])
    BY <1>1 DEF RowsDone
  <2> QED
    BY <1>1, <1>5, <1>9, <2>1, <2>2
<1>18. at'[r] \in 1 .. Len(micro[r]) + 1
  BY <1>1, <1>5, <1>6, <1>7
<1> QED
  BY <1>12, <1>15, <1>16, <1>17, <1>18

-----------------------------------------------------------------------------
LEMMA GradStep == Aligned /\ InStep /\ GradInv /\ [Next]_vars => GradInv'
<1> SUFFICES ASSUME Aligned, InStep, GradInv, [Next]_vars PROVE GradInv'
  OBVIOUS
<1>0. RowsInv /\ CallInv /\ MicroInv /\ mode \in Modes
  BY DEF Aligned, GradInv
<1>1. CASE UNCHANGED vars
  <2>1. UNCHANGED <<mode, stage, batch, local, mini, pc, micro, at, gradient>>
    BY <1>1 DEF vars
  <2> QED
    BY <2>1, GradPassive
<1>2. ASSUME mode' = mode, stage' # "update",
             \A r \in Ranks : pc'[r] \in {"forward", "step"} => at'[r] \in 1 .. Len(micro'[r]) + 1
      PROVE  GradInv'
  BY <1>0, <1>2 DEF GradInv
<1>3. CASE Validate \/ Upsample \/ Balance
  <2>1. UNCHANGED <<mode, pc, micro, at>> /\ stage' # "update"
    BY <1>3 DEF Validate, Upsample, Balance, rankVars
  <2> QED
    BY <1>2, <2>1 DEF GradInv
<1>4. CASE CallInfer
  <2>1. mode' = mode /\ stage' # "update" /\ pc' = [r \in Ranks |-> "tokens"]
    BY <1>4 DEF CallInfer, Enter
  <2> QED
    BY <1>2, <2>1
<1>5. CASE CollectInfer
  <2>1. mode' = mode /\ stage' # "update" /\ pc' = [r \in Ranks |-> "idle"]
    BY <1>5 DEF CollectInfer
  <2> QED
    BY <1>2, <2>1
<1>6. ASSUME mode' = mode, \A r \in Ranks : pc'[r] \notin {"forward", "step"},
             \A r \in Ranks : \A k \in Keys' : gradient'[r][k] = Zero
      PROVE  GradInv'
  <2>1. \A r \in Ranks : RowsDone(r)' = {}
    BY <1>6 DEF RowsDone
  <2>2. \A r \in Ranks : Sums(Keys', RowsOf(r)', RowsDone(r)', Weights', gradient'[r])
    <3> SUFFICES ASSUME NEW r \in Ranks
                 PROVE  Sums(Keys', RowsOf(r)', RowsDone(r)', Weights', gradient'[r])
      OBVIOUS
    <3>1. PICK keys, rows, w, g : keys = Keys' /\ rows = RowsOf(r)' /\ w = Weights' /\ g = gradient'[r]
      OBVIOUS
    <3>2. Sums(keys, rows, {}, w, g)
      BY <1>6, <3>1, NothingDone
    <3> QED
      BY <2>1, <3>1, <3>2
  <2> QED
    BY <1>0, <1>6, <2>2 DEF GradInv
<1>7. CASE CallUpdate
  <2>1. /\ mode' = mode /\ batch' = batch /\ pc' = [r \in Ranks |-> "tokens"]
        /\ gradient' = NoGradient
    BY <1>7 DEF CallUpdate, Enter
  <2>2. Keys' = Keys
    BY <2>1 DEF Keys
  <2> QED
    BY <1>6, <2>1, <2>2 DEF NoGradient
<1>8. CASE OptimizerStep
  <2>1. /\ mode' = mode /\ batch' = batch /\ gradient' = NoGradient
        /\ pc' = [r \in Ranks |-> "tokens"] \/ pc' = [r \in Ranks |-> "idle"]
    BY <1>8 DEF OptimizerStep, Enter
  <2>2. Keys' = Keys
    BY <2>1 DEF Keys
  <2>3. \A r \in Ranks : pc'[r] \notin {"forward", "step"}
    BY <2>1
  <2> QED
    BY <1>6, <2>1, <2>2, <2>3 DEF NoGradient
<1>9. CASE ReduceTokens
  <2>1. /\ UNCHANGED <<mode, stage, batch, local, mini, micro, at, gradient>>
        /\ \A r \in Ranks : pc[r] = "tokens" /\ pc'[r] = "count"
    BY <1>9 DEF ReduceTokens
  <2> QED
    BY <2>1, GradPassive
<1>10. ASSUME NEW q \in Ranks, Leave(q)
       PROVE  GradInv'
  <2>1. /\ UNCHANGED <<mode, stage, batch, local, mini, micro, at, gradient>>
        /\ pc[q] = "forward" /\ pc' = [pc EXCEPT ![q] = IF Training THEN "step" ELSE "return"]
    BY <1>10 DEF Leave
  <2>2. CASE Training
    <3>1. \A r \in Ranks : pc'[r] \in {"forward", "step"} <=> pc[r] \in {"forward", "step"}
      BY <1>0, <2>1, <2>2 DEF CallInv
    <3> QED
      BY <2>1, <3>1, GradPassive
  <2>3. CASE ~Training
    <3>1. \A r \in Ranks : pc'[r] \in {"forward", "step"} => pc[r] \in {"forward", "step"}
      BY <1>0, <2>1, <2>3 DEF CallInv
    <3> QED
      BY <1>2, <2>1, <2>3, <3>1 DEF GradInv, Training
  <2> QED
    BY <2>2, <2>3
<1>11. CASE ReduceCount
  <2>1. /\ UNCHANGED <<mode, stage, batch, local, mini, gradient>>
        /\ micro' = [r \in Ranks |-> MicroBatches(LensOf(r), Agreed(r))]
        /\ at' = [r \in Ranks |-> 1]
        /\ \A r \in Ranks : pc[r] = "count" /\ pc'[r] = "forward"
    BY <1>11 DEF ReduceCount
  <2>2. stage \in {"infer", "update"}
    BY <1>0, <2>1, FirstRank, RanksCall
  <2>3. PICK n : Shares(n)
    BY <1>0, <2>2, AlignedShares
  <2>4. ASSUME NEW r \in Ranks
        PROVE  /\ at'[r] \in 1 .. Len(micro'[r]) + 1
               /\ Before(micro'[r], at'[r]) = {}
    <3>1. Agreed(r) \in 1 .. n /\ IsPartition(MicroBatches(LensOf(r), Agreed(r)), n, Agreed(r))
      BY <1>0, <2>3, SplitRule DEF RowsInv
    <3>2. n \in Nat
      BY <2>3 DEF Shares
    <3>3. PICK k, parts : k \in Nat /\ k = Agreed(r) /\ parts = micro'[r] /\ IsPartition(parts, n, k)
      BY <2>1, <3>1, <3>2
    <3>4. Len(parts) = k
      BY <3>3, PartitionTypes
    <3>5. Before(parts, 1) = {}
      BY <3>2, <3>3, BeforeRule DEF OneByOne
    <3> QED
      BY <2>1, <3>3, <3>4, <3>5
  <2>5. CASE stage = "infer"
    BY <1>2, <2>1, <2>4, <2>5
  <2>6. CASE stage = "update"
    <3>1. (\A r \in Ranks : RowsOf(r)' = RowsOf(r)) /\ Tokens' = Tokens
      BY <2>1, SameRows
    <3>2. Weights' = Weights /\ Keys' = Keys
      BY <2>1, <3>1 DEF Weights, TokenWeight, Keys
    <3>3. \A r \in Ranks : RowsDone(r)' = {}
      BY <2>1, <2>4 DEF RowsDone
    <3>4. \A r \in Ranks : RowsDone(r) = {}
      BY <2>1 DEF RowsDone
    <3>5. \A r \in Ranks : Sums(Keys', RowsOf(r)', RowsDone(r)', Weights', gradient'[r])
      BY <2>1, <2>6, <3>1, <3>2, <3>3, <3>4 DEF GradInv
    <3> QED
      BY <1>0, <2>1, <2>4, <3>5 DEF GradInv
  <2> QED
    BY <2>2, <2>5, <2>6
<1>12. CASE Forward
  <2>1. UNCHANGED <<mode, stage, batch, local, mini, pc, micro>>
    BY <1>12 DEF Forward
  <2>2. \A r \in Ranks : pc[r] = "forward" /\ at[r] <= Len(micro[r]) /\ at'[r] = at[r] + 1
    BY <1>12 DEF Forward, Looping
  <2>3. stage \in {"infer", "update"}
    BY <1>0, <2>2, FirstRank, RanksCall
  <2>4. CASE stage = "infer"
    <3>1. \A r \in Ranks : at'[r] \in 1 .. Len(micro'[r]) + 1
      <4> SUFFICES ASSUME NEW r \in Ranks PROVE at'[r] \in 1 .. Len(micro'[r]) + 1
        OBVIOUS
      <4>1. at[r] \in 1 .. Len(micro[r]) + 1
        BY <2>2 DEF GradInv
      <4>2. PICK l \in Nat : l = Len(micro[r])
        <5>1. PICK k \in Nat \ {0} : IsPartition(micro[r], Len(RowsOf(r)), k)
          BY <1>0, <2>2 DEF MicroInv
        <5>2. Len(micro[r]) = k
          BY <5>1, PartitionTypes
        <5> QED
          BY <5>2
      <4> QED
        BY <2>1, <2>2, <4>1, <4>2
    <3> QED
      BY <1>2, <2>1, <2>4, <3>1
  <2>5. CASE stage = "update"
    <3>1. \A r \in Ranks : /\ at'[r] \in 1 .. Len(micro[r]) + 1
                           /\ Sums(Keys', RowsOf(r)', RowsDone(r)', Weights', gradient'[r])
      BY <1>12, <2>5, GradForward
    <3> QED
      BY <1>0, <2>1, <3>1 DEF GradInv
  <2> QED
    BY <2>3, <2>4, <2>5
<1>13. CASE Done
  BY <1>1, <1>13 DEF Done
<1> QED
  BY <1>1, <1>3, <1>4, <1>5, <1>7, <1>8, <1>9, <1>10, <1>11, <1>12, <1>13 DEF Next

-----------------------------------------------------------------------------
(* At a step every row has been done.                                      *)
LEMMA AllDone ==
  ASSUME Aligned, InStep, GradInv, NEW n, Shares(n), NEW r \in Ranks, pc[r] = "step"
  PROVE  RowsDone(r) = 1 .. n
<1>1. n \in Nat /\ Len(RowsOf(r)) = n
  BY DEF Shares
<1>2. PICK parts : parts = micro[r]
  OBVIOUS
<1>3. PICK k \in Nat : IsPartition(parts, n, k) /\ Len(parts) = k
  <2>1. PICK k \in Nat \ {0} : IsPartition(parts, n, k)
    BY <1>1, <1>2 DEF Aligned, MicroInv
  <2> QED
    BY <2>1, PartitionTypes
<1>4. at[r] = k + 1
  <2>1. at[r] \in 1 .. k + 1 /\ ~(at[r] <= k)
    BY <1>2, <1>3 DEF GradInv, InStep
  <2> QED
    BY <2>1
<1>5. Before(parts, k + 1) = 1 .. n
  BY <1>1, <1>3, BeforeRule DEF OneByOne
<1> QED
  BY <1>2, <1>4, <1>5 DEF RowsDone

LEMMA GradientRule == Aligned /\ InStep /\ GradInv => GradientInvariant
<1> SUFFICES ASSUME Aligned, InStep, GradInv, \A r \in Ranks : pc[r] = "step", NEW k \in Keys
             PROVE  LET hit == {row \in UNION {ToSet(RowsOf(r)) : r \in Ranks} : row.key = k /\ row.mask > 0} IN
                    Same(Average[k], IF hit = {} THEN Zero
                                     ELSE TokenWeight(CHOOSE row \in hit : TRUE, Tokens, 1))
  BY Zenon DEF GradientInvariant
<1> DEFINE hit == {row \in UNION {ToSet(RowsOf(r)) : r \in Ranks} : row.key = k /\ row.mask > 0}
<1>1. stage = "update"
  BY FirstRank DEF Aligned, CallInv
<1>2. PICK n : Shares(n)
  BY <1>1, AlignedShares DEF Aligned
<1>3. \A r \in Ranks : RowsDone(r) = 1 .. n
  BY <1>2, AllDone
<1>4. \A r \in Ranks : RowsOf(r) \in Seq(Row) /\ Len(RowsOf(r)) = n /\ DOMAIN RowsOf(r) = 1 .. n
  BY <1>2, LenProperties DEF Shares
<1>5. \A r \in Ranks : \A i \in 1 .. n : RowsOf(r)[i] \in Row
  BY <1>4, ElementOfSeq
<1>6. ASSUME NEW r \in Ranks
      PROVE  /\ (\A i \in 1 .. n : ~Carries(RowsOf(r)[i], k)) => gradient[r][k] = Zero
             /\ \A i \in 1 .. n : Carries(RowsOf(r)[i], k) => gradient[r][k] = Weights[RowsOf(r)[i]]
  <2>1. Sums(Keys, RowsOf(r), 1 .. n, Weights, gradient[r])
    BY <1>1, <1>3 DEF GradInv
  <2> QED
    BY <2>1, Zenon DEF Sums
<1>7. \A row : row \in hit <=> \E r \in Ranks : \E i \in 1 .. n : row = RowsOf(r)[i] /\ Carries(row, k)
  <2>1. \A r \in Ranks : ToSet(RowsOf(r)) = {RowsOf(r)[i] : i \in 1 .. n}
    BY <1>4, Zenon DEF ToSet, Range
  <2>2. \A row : row \in UNION {ToSet(RowsOf(r)) : r \in Ranks} <=> \E r \in Ranks : row \in ToSet(RowsOf(r))
    OBVIOUS
  <2>3. \A row : row \in UNION {ToSet(RowsOf(r)) : r \in Ranks}
                   <=> \E r \in Ranks : \E i \in 1 .. n : row = RowsOf(r)[i]
    BY <2>1, <2>2
  <2> QED
    BY <2>3 DEF Carries
<1> HIDE DEF hit
<1>8. PICK d \in Nat \ {0} : d = DpSize
  BY ConstantsRule
<1>9. CASE hit = {}
  <2>1. \A r \in Ranks : gradient[r][k] = Zero
    <3> SUFFICES ASSUME NEW r \in Ranks PROVE gradient[r][k] = Zero
      OBVIOUS
    <3>1. \A i \in 1 .. n : ~Carries(RowsOf(r)[i], k)
      BY <1>7, <1>9
    <3> QED
      BY <1>6, <3>1
  <2>2. PICK h : h = [r \in Ranks |-> Zero]
    OBVIOUS
  <2>3. SumOver(k) = Zero
    <3>1. h \in [Ranks -> {Zero, Zero}] /\ \A r \in Ranks : gradient[r][k] = h[r] /\ h[r] = Zero
      BY <2>1, <2>2
    <3>2. SumOver(k) = IF \E r \in Ranks : h[r] # Zero THEN Zero ELSE Zero
      BY <3>1, AddRule, SumRule
    <3> QED
      BY <3>2
  <2>4. Average[k] = <<Zero[1], Zero[2] * d>>
    BY <1>8, <2>3, AverageOf
  <2>5. Average[k] = <<0, d>>
    BY <2>4 DEF Zero
  <2>6. Same(Average[k], Zero)
    BY <2>5 DEF Same, Zero
  <2> QED
    BY <1>9, <2>6 DEF hit
<1>10. CASE hit # {}
  <2>1. PICK row : row = CHOOSE x \in hit : TRUE
    OBVIOUS
  <2>2. row \in hit
    BY <1>10, <2>1
  <2>3. PICK q \in Ranks, i \in 1 .. n : row = RowsOf(q)[i] /\ Carries(row, k)
    BY <1>7, <2>2
  <2>4. row \in Row
    BY <1>5, <2>3
  <2>5. PICK t \in Nat \ {0} : t = Tokens
    <3>1. Tokens \in Nat /\ row.mask <= Tokens
      BY <1>2, <2>3, TokensType
    <3>2. row.mask \in Nat /\ row.mask > 0
      BY <2>3, <2>4 DEF Carries, Row
    <3> QED
      BY <3>1, <3>2
  <2>17. row.mask # 0
    BY <2>3, <2>4 DEF Carries, Row
  <2>6. PICK u \in Nat \ {0} : \A c \in Nat : TokenWeight(row, t, c) = <<c, u>>
    <3>1. mode \in Modes
      BY DEF GradInv
    <3>2. PICK x \in Nat : (\A c \in Nat : TokenWeight(row, t, c) = <<c, x>>)
                           /\ (row.mask # 0 /\ t # 0 => x # 0)
      BY <2>4, <3>1, WeightRule
    <3>3. x \in Nat \ {0}
      BY <2>17, <3>2
    <3> QED
      BY <3>2, <3>3, Zenon
  <2>7. PICK w \in Fractions : w = <<d, u>> /\ w = Weights[row]
    <3>1. Weights[row] = TokenWeight(row, t, d)
      BY <1>8, <2>4, <2>5 DEF Weights
    <3>2. <<d, u>> \in Fractions
      BY DEF Fractions
    <3> QED
      BY <2>6, <3>1, <3>2
  <2>8. w # Zero
    BY <2>7 DEF Zero
  <2>9. gradient[q][k] = w
    BY <1>6, <2>3, <2>7
  <2>10. \A r \in Ranks : r # q => gradient[r][k] = Zero
    <3> SUFFICES ASSUME NEW r \in Ranks, r # q PROVE gradient[r][k] = Zero
      OBVIOUS
    <3>1. \A j \in 1 .. n : ~Carries(RowsOf(r)[j], k)
      <4> SUFFICES ASSUME NEW j \in 1 .. n, Carries(RowsOf(r)[j], k) PROVE FALSE
        OBVIOUS
      <4>1. RowsOf(r)[j].key = RowsOf(q)[i].key
        BY <2>3 DEF Carries
      <4> QED
        BY <1>2, <4>1 DEF Shares
    <3> QED
      BY <1>6, <3>1
  <2>11. PICK h : h = [r \in Ranks |-> gradient[r][k]]
    OBVIOUS
  <2>12. SumOver(k) = w
    <3>1. \A r \in Ranks : h[r] = gradient[r][k] /\ h[r] = IF r = q THEN w ELSE Zero
      BY <2>9, <2>10, <2>11
    <3>2. h \in [Ranks -> {Zero, w}] /\ \A p, r \in Ranks : h[p] # Zero /\ h[r] # Zero => p = r
      BY <2>11, <3>1
    <3>3. SumOver(k) = IF \E r \in Ranks : h[r] # Zero THEN w ELSE Zero
      BY <3>1, <3>2, SumRule
    <3>4. \E r \in Ranks : h[r] # Zero
      BY <2>8, <3>1
    <3> QED
      BY <3>3, <3>4
  <2>13. Average[k] = <<d, u * d>>
    <3>1. Average[k] = <<w[1], w[2] * d>>
      BY <1>8, <2>12, AverageOf
    <3> QED
      BY <2>7, <3>1
  <2>14. TokenWeight(row, Tokens, 1) = <<1, u>>
    BY <2>5, <2>6
  <2>15. Same(Average[k], TokenWeight(row, Tokens, 1))
    <3>1. u * d \in Nat \ {0} /\ d * u = 1 * (u * d)
      OBVIOUS
    <3> QED
      BY <2>13, <2>14, <3>1 DEF Same
  <2>16. Same(Average[k], IF hit = {} THEN Zero
                          ELSE TokenWeight(CHOOSE x \in hit : TRUE, Tokens, 1))
    BY <1>10, <2>1, <2>15, Zenon
  <2> QED
    BY <2>16 DEF hit
<1> QED
  BY <1>9, <1>10

(* The gradient the optimizer is given at a step is the one of a single    *)
(* process that takes all rows of the mini-batch at once: each row has     *)
(* been through the loss once, on one rank, in one micro-batch, and the    *)
(* ranks' average undoes the scale of agg_loss; for whatever lengths,      *)
(* masks, ranks, micro-batches, epochs and shuffles.                       *)
THEOREM GradientOfAll == Spec => []GradientInvariant
<1>1. Init => Aligned /\ InStep /\ GradInv
  BY AlignedInit, InStepInit, GradInit
<1>2. Aligned /\ InStep /\ GradInv /\ [Next]_vars => (Aligned /\ InStep /\ GradInv)'
  BY AlignedStep, InStepStep, GradStep
<1> QED
  BY <1>1, <1>2, GradientRule, PTL DEF Spec
=============================================================================
