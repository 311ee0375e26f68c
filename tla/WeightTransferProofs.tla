------------------------ MODULE WeightTransferProofs ------------------------

(***************************************************************************)
(* Theorems about the transfer of weights, for models, buckets and         *)
(* receivers of every number and size, any number of updates, and the      *)
(* engines and adapters alike.                                             *)
(***************************************************************************)
EXTENDS WeightTransfer, FiniteSetTheorems, SequenceTheorems, WellFoundedInduction, TLAPS

(* Induction over numbers.                                                 *)
LEMMA Induction ==
  ASSUME NEW G \in SUBSET Nat, 0 \in G, \A n \in G : n + 1 \in G
  PROVE  G = Nat
<1> DEFINE T == Nat \ G
<1>1. SUFFICES ASSUME T # {} PROVE FALSE
  OBVIOUS
<1>2. PICK x \in T : \A y \in T : ~ (<<y, x>> \in OpToRel(<, Nat))
  <2>1. T \in SUBSET Nat
    OBVIOUS
  <2> HIDE DEF T
  <2> QED BY <1>1, <2>1, WFMin, NatLessThanWellFounded, Zenon
<1>3. x - 1 \in Nat /\ x - 1 < x /\ (x - 1) + 1 = x
  <2>1. x \in Nat /\ x # 0
    BY Zenon
  <2> QED BY <2>1
<1>4. x - 1 \notin T
  <2> HIDE DEF T
  <2>1. <<x - 1, x>> \in OpToRel(<, Nat) <=> x - 1 \in Nat /\ x \in Nat /\ x - 1 < x
    BY Zenon DEF OpToRel
  <2>2. x \in Nat
    BY <1>2 DEF T
  <2> QED BY <1>2, <1>3, <2>1, <2>2
<1> QED BY <1>2, <1>3, <1>4

(* A recursion over numbers, the first n steps of it.                      *)
Follows(X, x, step, n, f) ==
  /\ f \in [0 .. n -> X]
  /\ f[0] = x
  /\ \A i \in 0 .. n - 1 : f[i + 1] = step[<<i, f[i]>>]

(* Every recursion over numbers has a function that follows it.            *)
LEMMA Recursion ==
  ASSUME NEW X, NEW x \in X, NEW step \in [Nat \X X -> X], NEW n \in Nat
  PROVE  \E f : Follows(X, x, step, n, f)
<1> DEFINE Good(k, f) == f[0] = x /\ \A i \in 0 .. k - 1 : f[i + 1] = step[<<i, f[i]>>]
           G == {k \in Nat : \E f \in [0 .. k -> X] : Good(k, f)}
<1>1. 0 \in G
  <2> DEFINE f == [i \in 0 .. 0 |-> x]
  <2>1. f \in [0 .. 0 -> X] /\ Good(0, f)
    OBVIOUS
  <2> QED BY <2>1
<1>2. ASSUME NEW k \in G PROVE k + 1 \in G
  <2>1. PICK f \in [0 .. k -> X] : Good(k, f)
    OBVIOUS
  <2> DEFINE h == [i \in 0 .. k + 1 |-> IF i = k + 1 THEN step[<<k, f[k]>>] ELSE f[i]]
  <2>2. h \in [0 .. k + 1 -> X]
    OBVIOUS
  <2>3. ASSUME NEW i \in 0 .. (k + 1) - 1 PROVE h[i + 1] = step[<<i, h[i]>>]
    <3>1. i \in 0 .. k /\ i + 1 \in 0 .. k + 1 /\ i \in 0 .. k + 1 /\ i # k + 1
      OBVIOUS
    <3>2. h[i] = f[i]
      BY <3>1
    <3>3. CASE i = k
      BY <3>1, <3>2, <3>3
    <3>4. CASE i # k
      <4>1. i \in 0 .. k - 1 /\ i + 1 # k + 1
        BY <3>1, <3>4
      <4>2. f[i + 1] = step[<<i, f[i]>>]
        BY <2>1, <4>1
      <4> QED BY <3>1, <3>2, <4>1, <4>2
    <3> QED BY <3>3, <3>4
  <2>4. h[0] = x
    BY <2>1
  <2>5. Good(k + 1, h)
    BY <2>3, <2>4
  <2>6. k + 1 \in Nat
    OBVIOUS
  <2> HIDE DEF Good, h
  <2> QED BY <2>2, <2>5, <2>6
<1>3. G = Nat
  <2>1. G \in SUBSET Nat
    OBVIOUS
  <2> HIDE DEF G
  <2> QED BY <1>1, <1>2, <2>1, Induction
<1>4. PICK f \in [0 .. n -> X] : Good(n, f)
  BY <1>3
<1> QED BY <1>4 DEF Follows

------------------------------------------------------------------------------

(* Where the members of a sequence of sequences begin once these are       *)
(* joined: before the first, before the second, ..., after the last.       *)
Starts(ss) ==
  LET t[k \in 1 .. Len(ss) + 1] == IF k = 1 THEN 0 ELSE t[k - 1] + Len(ss[k - 1]) IN t

(* Where each of a sequence of sequences starts in what they join to.      *)
LEMMA StartsRule ==
  ASSUME NEW C, NEW ss \in Seq(Seq(C))
  PROVE  /\ Starts(ss) \in [1 .. Len(ss) + 1 -> Nat]
         /\ Starts(ss)[1] = 0
         /\ \A k \in 1 .. Len(ss) : Starts(ss)[k + 1] = Starts(ss)[k] + Len(ss[k])
<1> DEFINE L == Len(ss)
           Is(t) == t = [k \in 1 .. L + 1 |-> IF k = 1 THEN 0 ELSE t[k - 1] + Len(ss[k - 1])]
           step == [p \in Nat \X Nat |->
                      p[2] + (IF p[1] + 1 \in 1 .. L THEN Len(ss[p[1] + 1]) ELSE 0)]
<1>1. L \in Nat /\ \A k \in 1 .. L : Len(ss[k]) \in Nat
  OBVIOUS
<1>2. \E t : Is(t)
  <2>1. step \in [Nat \X Nat -> Nat]
    BY <1>1
  <2>2. PICK f \in [0 .. L -> Nat] : f[0] = 0 /\ \A i \in 0 .. L - 1 : f[i + 1] = step[<<i, f[i]>>]
    <3> HIDE DEF step, L
    <3>1. \E f : Follows(Nat, 0, step, L, f)
      BY <2>1, <1>1, Recursion
    <3> QED BY <3>1 DEF Follows
  <2>3. \A i \in 0 .. L - 1 : f[i + 1] = f[i] + Len(ss[i + 1])
    <3> SUFFICES ASSUME NEW i \in 0 .. L - 1 PROVE f[i + 1] = f[i] + Len(ss[i + 1])
      OBVIOUS
    <3>1. i \in Nat /\ f[i] \in Nat /\ i + 1 \in 1 .. L
      BY <1>1
    <3>2. step[<<i, f[i]>>] = f[i] + Len(ss[i + 1])
      BY <3>1
    <3> QED BY <2>2, <3>2
  <2> DEFINE t == [k \in 1 .. L + 1 |-> f[k - 1]]
  <2>4. ASSUME NEW k \in 1 .. L + 1
        PROVE  t[k] = IF k = 1 THEN 0 ELSE t[k - 1] + Len(ss[k - 1])
    <3>1. CASE k = 1
      BY <3>1, <2>2
    <3>2. CASE k # 1
      <4>1. k - 2 \in 0 .. L - 1 /\ k - 1 \in 1 .. L + 1 /\ (k - 2) + 1 = k - 1 /\ (k - 1) - 1 = k - 2
        BY <1>1, <3>2
      <4>2. f[k - 1] = f[k - 2] + Len(ss[k - 1])
        BY <4>1, <2>3
      <4> QED BY <4>1, <4>2, <3>2
    <3> QED BY <3>1, <3>2
  <2>5. Is(t)
    <3>1. t = [k \in 1 .. L + 1 |-> t[k]]
      OBVIOUS
    <3> HIDE DEF t
    <3> QED BY <3>1, <2>4
  <2> QED BY <2>5
<1> DEFINE u == Starts(ss)
<1>3. Is(u)
  BY <1>2 DEF Starts
<1>4. u[1] = 0 /\ \A k \in 1 .. L : u[k + 1] = u[k] + Len(ss[k])
  BY <1>1, <1>3
<1>5. \A k \in 1 .. L + 1 : u[k] \in Nat
  <2> HIDE DEF u
  <2> DEFINE G == {n \in Nat : n + 1 \in 1 .. L + 1 => u[n + 1] \in Nat}
  <2>1. 0 \in G
    BY <1>4
  <2>2. ASSUME NEW n \in G PROVE n + 1 \in G
    <3> HIDE DEF L
    <3>1. CASE n + 1 \in 1 .. L
      <4>1. u[n + 1] \in Nat /\ u[(n + 1) + 1] = u[n + 1] + Len(ss[n + 1]) /\ Len(ss[n + 1]) \in Nat
        BY <1>1, <1>4, <3>1
      <4> QED BY <4>1
    <3>2. CASE n + 1 \notin 1 .. L
      <4>1. (n + 1) + 1 \notin 1 .. L + 1
        BY <1>1, <3>2
      <4> QED BY <4>1
    <3> QED BY <3>1, <3>2
  <2>3. G = Nat
    <3>1. G \in SUBSET Nat
      OBVIOUS
    <3> HIDE DEF G
    <3> QED BY <2>1, <2>2, <3>1, Induction
  <2>4. ASSUME NEW k \in 1 .. L + 1 PROVE u[k] \in Nat
    <3> HIDE DEF L
    <3>1. k - 1 \in Nat /\ (k - 1) + 1 = k
      BY <1>1
    <3> HIDE DEF G
    <3>2. k - 1 \in G
      BY <2>3, <3>1
    <3> QED BY <3>1, <3>2 DEF G
  <2> QED BY <2>4
<1>6. u \in [1 .. L + 1 -> Nat]
  BY <1>3, <1>5
<1> QED BY <1>4, <1>6

(* The starts never decrease.                                              *)
LEMMA StartsIncrease ==
  ASSUME NEW C, NEW ss \in Seq(Seq(C)), NEW i \in 1 .. Len(ss) + 1, NEW k \in i .. Len(ss) + 1
  PROVE  Starts(ss)[i] <= Starts(ss)[k]
<1> DEFINE u == Starts(ss)
           L == Len(ss)
           G == {n \in Nat : i + n <= L + 1 => u[i] <= u[i + n]}
<1>0. /\ u \in [1 .. L + 1 -> Nat] /\ L \in Nat
      /\ \A n \in 1 .. L : u[n + 1] = u[n] + Len(ss[n]) /\ Len(ss[n]) \in Nat
  BY StartsRule
<1> HIDE DEF u, L
<1>1. 0 \in G
  BY <1>0
<1>2. ASSUME NEW n \in G PROVE n + 1 \in G
  <2>1. CASE i + n \in 1 .. L
    <3>0. i \in 1 .. L + 1 /\ i + n \in 1 .. L + 1
      BY <1>0, <2>1 DEF L
    <3>1. u[i] \in Nat /\ u[i + n] \in Nat /\ u[i] <= u[i + n]
      BY <1>0, <3>0
    <3>2. u[(i + n) + 1] = u[i + n] + Len(ss[i + n]) /\ Len(ss[i + n]) \in Nat
      BY <1>0, <2>1
    <3>3. (i + n) + 1 = i + (n + 1)
      BY <1>0 DEF L
    <3> QED BY <3>1, <3>2, <3>3
  <2>2. CASE i + n \notin 1 .. L
    BY <1>0, <2>2 DEF L
  <2> QED BY <2>1, <2>2
<1>3. G = Nat
  <2>1. G \in SUBSET Nat
    OBVIOUS
  <2> HIDE DEF G
  <2> QED BY <1>1, <1>2, <2>1, Induction
<1>4. k - i \in Nat /\ i + (k - i) = k /\ k <= L + 1
  BY <1>0 DEF L
<1>5. k - i \in G
  BY <1>3, <1>4
<1> QED BY <1>4, <1>5 DEF u

(* A member that begins where another ends comes after it.                 *)
LEMMA StartsOrder ==
  ASSUME NEW C, NEW ss \in Seq(Seq(C)), NEW i \in 1 .. Len(ss), NEW k \in 1 .. Len(ss),
         NEW p \in Int, Starts(ss)[i] < p, p <= Starts(ss)[i + 1],
         Starts(ss)[k] < p, p <= Starts(ss)[k + 1]
  PROVE  i = k
<1>1. \A n \in 1 .. Len(ss) + 1 : Starts(ss)[n] \in Nat
  BY StartsRule
<1>2. /\ i + 1 \in 1 .. Len(ss) + 1 /\ k + 1 \in 1 .. Len(ss) + 1
      /\ i \in 1 .. Len(ss) + 1 /\ k \in 1 .. Len(ss) + 1
      /\ i < k => k \in i + 1 .. Len(ss) + 1
      /\ k < i => i \in k + 1 .. Len(ss) + 1
  <2>1. Len(ss) \in Nat
    OBVIOUS
  <2> QED BY <2>1
<1>c. PICK x, y, z, w \in Nat : /\ x = Starts(ss)[i] /\ y = Starts(ss)[i + 1]
                               /\ z = Starts(ss)[k] /\ w = Starts(ss)[k + 1]
  BY <1>1, <1>2
<1>3. ASSUME i < k PROVE FALSE
  <2>1. Starts(ss)[i + 1] <= Starts(ss)[k]
    BY <1>2, <1>3, StartsIncrease
  <2> QED BY <2>1, <1>c
<1>4. ASSUME k < i PROVE FALSE
  <2>1. Starts(ss)[k + 1] <= Starts(ss)[i]
    BY <1>2, <1>4, StartsIncrease
  <2> QED BY <2>1, <1>c
<1> QED BY <1>3, <1>4

(* Every place of the joined sequence lies in one of its members.          *)
LEMMA StartsCover ==
  ASSUME NEW C, NEW ss \in Seq(Seq(C)), NEW p \in 1 .. Starts(ss)[Len(ss) + 1]
  PROVE  \E k \in 1 .. Len(ss) : Starts(ss)[k] < p /\ p <= Starts(ss)[k + 1]
<1> DEFINE u == Starts(ss)
           L == Len(ss)
           G == {n \in Nat : n <= L /\ p <= u[n + 1] =>
                               \E k \in 1 .. L : u[k] < p /\ p <= u[k + 1]}
<1>0. u \in [1 .. L + 1 -> Nat] /\ L \in Nat /\ u[1] = 0
  BY StartsRule
<1>p. p \in Int /\ p >= 1 /\ p <= u[L + 1]
  BY <1>0
<1> HIDE DEF u, L
<1>1. 0 \in G
  BY <1>0, <1>p
<1>2. ASSUME NEW n \in G PROVE n + 1 \in G
  <2>1. CASE n + 1 \in 1 .. L /\ p <= u[(n + 1) + 1]
    <3>1. u[n + 1] \in Nat
      BY <1>0, <2>1
    <3>2. CASE p <= u[n + 1]
      BY <1>0, <2>1, <3>2
    <3>3. CASE u[n + 1] < p
      BY <2>1, <3>3
    <3> QED BY <3>1, <3>2, <3>3, <1>p
  <2>2. CASE ~(n + 1 \in 1 .. L /\ p <= u[(n + 1) + 1])
    BY <1>0, <2>2
  <2> QED BY <2>1, <2>2
<1>3. G = Nat
  <2>1. G \in SUBSET Nat
    OBVIOUS
  <2> HIDE DEF G
  <2> QED BY <1>1, <1>2, <2>1, Induction
<1>4. L \in G
  BY <1>3, <1>0
<1> QED BY <1>4, <1>0, <1>p DEF u, L

(* Where a member begins depends on the lengths of those before it.        *)
LEMMA StartsPrefix ==
  ASSUME NEW C, NEW ss \in Seq(Seq(C)), NEW tt \in Seq(Seq(C)),
         NEW m \in Nat, m <= Len(ss), m <= Len(tt),
         \A i \in 1 .. m : Len(ss[i]) = Len(tt[i])
  PROVE  \A k \in 1 .. m + 1 : Starts(ss)[k] = Starts(tt)[k]
<1> DEFINE u == Starts(ss)
           v == Starts(tt)
           G == {n \in Nat : n <= m => u[n + 1] = v[n + 1]}
<1>0. /\ u[1] = 0 /\ v[1] = 0
      /\ \A n \in 1 .. m : u[n + 1] = u[n] + Len(ss[n]) /\ v[n + 1] = v[n] + Len(tt[n])
  BY StartsRule
<1> HIDE DEF u, v
<1>1. 0 \in G
  BY <1>0
<1>2. ASSUME NEW n \in G PROVE n + 1 \in G
  <2>1. CASE n + 1 \in 1 .. m
    BY <1>0, <2>1
  <2>2. CASE n + 1 \notin 1 .. m
    BY <2>2
  <2> QED BY <2>1, <2>2
<1>3. G = Nat
  <2>1. G \in SUBSET Nat
    OBVIOUS
  <2> HIDE DEF G
  <2> QED BY <1>1, <1>2, <2>1, Induction
<1>4. ASSUME NEW k \in 1 .. m + 1 PROVE u[k] = v[k]
  <2>1. k - 1 \in Nat /\ k - 1 <= m /\ (k - 1) + 1 = k
    OBVIOUS
  <2>2. k - 1 \in G
    BY <1>3, <2>1
  <2> QED BY <2>1, <2>2
<1> QED BY <1>4 DEF u, v

------------------------------------------------------------------------------

(* s is the members of ss, one after the other.                            *)
Joins(ss, s) ==
  /\ Len(s) = Starts(ss)[Len(ss) + 1]
  /\ \A k \in 1 .. Len(ss) : \A j \in 1 .. Len(ss[k]) : ss[k][j] = s[Starts(ss)[k] + j]

(* FlattenSeq joins sequences one after the other.                         *)
LEMMA FlattenRule ==
  ASSUME NEW C, NEW ss \in Seq(Seq(C)), ss # <<>>
  PROVE  FlattenSeq(ss) \in Seq(C) /\ Joins(ss, FlattenSeq(ss))
<1> DEFINE L == Len(ss)
           Is(t) == t = [i \in 1 .. L |-> IF i = 1 THEN ss[i] ELSE t[i - 1] \o ss[i]]
           step == [p \in Nat \X Seq(C) |-> IF p[1] + 2 \in 1 .. L THEN p[2] \o ss[p[1] + 2] ELSE p[2]]
           u == Starts(ss)
<1>1. L \in Nat \ {0} /\ \A k \in 1 .. L : ss[k] \in Seq(C)
  OBVIOUS
<1>u. /\ u \in [1 .. L + 1 -> Nat] /\ u[1] = 0
      /\ \A k \in 1 .. L : u[k + 1] = u[k] + Len(ss[k])
  BY StartsRule
<1>2. \E t : Is(t)
  <2>1. step \in [Nat \X Seq(C) -> Seq(C)]
    BY <1>1
  <2>2. PICK f \in [0 .. L - 1 -> Seq(C)] :
          f[0] = ss[1] /\ \A i \in 0 .. (L - 1) - 1 : f[i + 1] = step[<<i, f[i]>>]
    <3> HIDE DEF step, L
    <3>1. L - 1 \in Nat /\ ss[1] \in Seq(C)
      BY <1>1
    <3>2. \E f : Follows(Seq(C), ss[1], step, L - 1, f)
      BY <2>1, <3>1, Recursion
    <3> QED BY <3>2 DEF Follows
  <2>3. ASSUME NEW i \in 0 .. L - 2 PROVE f[i + 1] = f[i] \o ss[i + 2]
    <3> HIDE DEF L
    <3>1. i \in Nat /\ i \in 0 .. L - 1 /\ i \in 0 .. (L - 1) - 1 /\ i + 2 \in 1 .. L
      BY <1>1
    <3>2. f[i] \in Seq(C)
      BY <3>1
    <3>3. step[<<i, f[i]>>] = f[i] \o ss[i + 2]
      BY <3>1, <3>2
    <3> QED BY <2>2, <3>1, <3>3
  <2> DEFINE t == [k \in 1 .. L |-> f[k - 1]]
  <2>4. ASSUME NEW k \in 1 .. L
        PROVE  t[k] = IF k = 1 THEN ss[k] ELSE t[k - 1] \o ss[k]
    <3>1. CASE k = 1
      BY <3>1, <2>2
    <3>2. CASE k # 1
      <4> HIDE DEF L
      <4>1. k - 2 \in 0 .. L - 2 /\ k - 1 \in 1 .. L /\ (k - 2) + 1 = k - 1 /\ (k - 1) - 1 = k - 2
            /\ (k - 2) + 2 = k
        BY <1>1, <3>2
      <4>2. f[k - 1] = f[k - 2] \o ss[k]
        BY <4>1, <2>3
      <4> QED BY <4>1, <4>2, <3>2
    <3> QED BY <3>1, <3>2
  <2>5. Is(t)
    <3>1. t = [k \in 1 .. L |-> t[k]]
      OBVIOUS
    <3> HIDE DEF t
    <3> QED BY <3>1, <2>4
  <2> QED BY <2>5
<1> DEFINE c == CHOOSE t : Is(t)
<1>3. Is(c)
  BY <1>2
<1>4. FlattenSeq(ss) = c[L]
  BY <1>1 DEF FlattenSeq
<1> HIDE DEF c, u, L
<1>5. c[1] = ss[1] /\ \A k \in 1 .. L : k # 1 => c[k] = c[k - 1] \o ss[k]
  <2>1. \A k \in 1 .. L : c[k] = IF k = 1 THEN ss[k] ELSE c[k - 1] \o ss[k]
    BY <1>3, Zenon
  <2>2. 1 \in 1 .. L
    BY <1>1
  <2> QED BY <2>1, <2>2
<1> DEFINE Holds(n) == /\ c[n] \in Seq(C) /\ Len(c[n]) = u[n + 1]
                       /\ \A k \in 1 .. n : \A j \in 1 .. Len(ss[k]) : ss[k][j] = c[n][u[k] + j]
           G == {n \in Nat : n + 1 <= L => Holds(n + 1)}
<1>6. 0 \in G
  <2>1. Len(ss[1]) = u[2] /\ ss[1] \in Seq(C)
    BY <1>1, <1>u
  <2>2. ASSUME NEW j \in 1 .. Len(ss[1]) PROVE ss[1][j] = c[1][u[1] + j]
    <3>1. u[1] + j = j
      BY <1>u
    <3> QED BY <3>1, <1>5
  <2>3. Holds(1)
    BY <2>1, <2>2, <1>5
  <2> QED BY <2>3
<1>7. ASSUME NEW n \in G PROVE n + 1 \in G
  <2>1. SUFFICES ASSUME n + 2 <= L PROVE Holds(n + 2)
    <3>1. (n + 1) + 1 = n + 2 /\ n + 1 \in Nat
      OBVIOUS
    <3> HIDE DEF Holds
    <3> QED BY <3>1
  <2>2. /\ n + 1 \in 1 .. L /\ n + 2 \in 1 .. L /\ n + 2 # 1 /\ (n + 2) - 1 = n + 1
        /\ (n + 1) + 1 = n + 2 /\ (n + 2) + 1 = n + 3
    BY <1>1, <2>1
  <2>3. Holds(n + 1)
    BY <2>2
  <2>4. c[n + 2] = c[n + 1] \o ss[n + 2]
    BY <2>2, <1>5
  <2>5. ss[n + 2] \in Seq(C) /\ c[n + 1] \in Seq(C)
    BY <2>2, <2>3, <1>1
  <2>c. /\ (c[n + 1] \o ss[n + 2]) \in Seq(C)
        /\ Len(c[n + 1] \o ss[n + 2]) = Len(c[n + 1]) + Len(ss[n + 2])
        /\ \A i \in 1 .. Len(c[n + 1]) + Len(ss[n + 2]) :
             (c[n + 1] \o ss[n + 2])[i]
               = IF i <= Len(c[n + 1]) THEN c[n + 1][i] ELSE ss[n + 2][i - Len(c[n + 1])]
    BY <2>5, ConcatProperties
  <2>d. Len(c[n + 1]) \in Nat /\ Len(ss[n + 2]) \in Nat /\ Len(c[n + 1]) = u[n + 2]
    BY <2>2, <2>3, <2>5
  <2>6. c[n + 2] \in Seq(C) /\ Len(c[n + 2]) = u[n + 3]
    <3>1. u[n + 3] = u[n + 2] + Len(ss[n + 2])
      BY <2>2, <1>u
    <3> QED BY <2>4, <2>c, <2>d, <3>1
  <2>7. ASSUME NEW k \in 1 .. n + 2, NEW j \in 1 .. Len(ss[k])
        PROVE  ss[k][j] = c[n + 2][u[k] + j]
    <3>1. CASE k = n + 2
      <4>1. j \in 1 .. Len(ss[n + 2]) /\ Len(c[n + 1]) = u[n + 2]
        BY <2>2, <2>3, <3>1
      <4>2. (c[n + 1] \o ss[n + 2])[Len(c[n + 1]) + j] = ss[n + 2][j]
        <5>1. PICK a \in Nat : a = Len(c[n + 1])
          BY <2>d
        <5>2. PICK m \in Nat : m = Len(ss[n + 2])
          BY <2>d
        <5>3. j \in 1 .. m
          BY <4>1, <5>2
        <5>4. a + j \in 1 .. a + m /\ ~(a + j <= a) /\ (a + j) - a = j
          BY <5>3
        <5> QED BY <5>1, <5>2, <5>4, <2>c
      <4> QED BY <4>1, <4>2, <2>4, <3>1
    <3>2. CASE k \in 1 .. n + 1
      <4>1. ss[k][j] = c[n + 1][u[k] + j]
        BY <2>3, <3>2
      <4>2. u[k] + j \in 1 .. Len(c[n + 1])
        <5>1. k + 1 \in 1 .. L + 1 /\ n + 2 \in k + 1 .. L + 1 /\ k \in 1 .. L
          BY <3>2, <2>2, <1>1
        <5>2. u[k + 1] <= u[n + 2]
          BY <5>1, StartsIncrease DEF u, L
        <5>3. u[k + 1] = u[k] + Len(ss[k])
          BY <5>1, <1>u
        <5>5. k \in 1 .. L + 1 /\ n + 2 \in 1 .. L + 1
          BY <5>1, <2>2, <1>1
        <5>6. PICK x, z \in Nat : x = u[k] /\ z = u[n + 2]
          BY <5>5, <1>u
        <5>4. Len(ss[k]) \in Nat /\ Len(c[n + 1]) = u[n + 2]
          BY <5>1, <1>1, <2>d
        <5>7. PICK m \in Nat : m = Len(ss[k]) /\ x + m <= z
          BY <5>2, <5>3, <5>4, <5>6
        <5>8. j \in 1 .. m
          BY <5>7
        <5>9. x + j \in 1 .. z
          BY <5>7, <5>8
        <5> QED BY <5>4, <5>6, <5>9
      <4>3. (c[n + 1] \o ss[n + 2])[u[k] + j] = c[n + 1][u[k] + j]
        <5>1. PICK p \in 1 .. Len(c[n + 1]) : p = u[k] + j
          BY <4>2
        <5>2. p \in 1 .. Len(c[n + 1]) + Len(ss[n + 2]) /\ p <= Len(c[n + 1])
          BY <2>d
        <5> QED BY <5>1, <5>2, <2>c
      <4> QED BY <4>1, <4>3, <2>4
    <3> QED BY <3>1, <3>2
  <2> QED BY <2>6, <2>7, <2>2
<1>8. G = Nat
  <2>1. G \in SUBSET Nat
    OBVIOUS
  <2> HIDE DEF G
  <2> QED BY <1>6, <1>7, <2>1, Induction
<1>9. Holds(L)
  <2>1. L - 1 \in Nat /\ (L - 1) + 1 = L
    BY <1>1
  <2>2. L - 1 \in G
    BY <1>8, <2>1
  <2> HIDE DEF Holds
  <2> QED BY <2>1, <2>2
<1> QED BY <1>9, <1>4 DEF Joins, u, L
------------------------------------------------------------------------------

(* Packing puts the chunks into buckets in their order.                    *)
ChunkRecords == [weight : Nat, offset : Nat, size : Int]

(* The number of chunks of a weight, rounded up.                           *)
LEMMA Division ==
  ASSUME NEW a \in Nat \ {0}, NEW b \in Nat \ {0}
  PROVE  /\ (a + b - 1) \div b \in Nat \ {0}
         /\ a <= ((a + b - 1) \div b) * b
         /\ ((a + b - 1) \div b - 1) * b < a
OBVIOUS

(* The chunks of a weight: only the last one completes it, and no two of   *)
(* them have the same offset.                                              *)
LEMMA ChunksRule ==
  ASSUME NEW m \in Seq(Nat \ {0}), NEW w \in DOMAIN m
  PROVE  /\ Chunks(m, w) \in Seq(ChunkRecords)
         /\ Len(Chunks(m, w)) >= 1
         /\ \A c \in 1 .. Len(Chunks(m, w)) :
              /\ Chunks(m, w)[c].weight = w
              /\ Chunks(m, w)[c].offset + Chunks(m, w)[c].size = m[w] <=> c = Len(Chunks(m, w))
         /\ \A c, d \in 1 .. Len(Chunks(m, w)) :
              Chunks(m, w)[c].offset = Chunks(m, w)[d].offset => c = d
<1> DEFINE L == (m[w] + Bucket - 1) \div Bucket
           size(c) == IF m[w] < c * Bucket THEN m[w] - (c - 1) * Bucket ELSE Bucket
<1>1. w \in Nat /\ m[w] \in Nat \ {0} /\ Bucket \in Nat \ {0}
  BY TransferAssumption
<1>2. L \in Nat \ {0} /\ m[w] <= L * Bucket /\ (L - 1) * Bucket < m[w]
  BY <1>1, Division
<1> HIDE DEF L
<1>3. ASSUME NEW c \in 1 .. L
      PROVE  /\ (c - 1) * Bucket \in Nat /\ size(c) \in Int
             /\ (c - 1) * Bucket + size(c) = m[w] <=> c = L
  <2>1. c * Bucket = (c - 1) * Bucket + Bucket /\ (c - 1) * Bucket \in Nat /\ c * Bucket \in Nat
    BY <1>1, <1>2
  <2>2. CASE c = L
    BY <1>1, <1>2, <2>1, <2>2
  <2>3. CASE c # L
    <3>1. c <= L - 1
      BY <1>2, <2>3
    <3>2. c * Bucket <= (L - 1) * Bucket
      <4>1. PICK k \in Nat : L - 1 = c + k
        BY <1>2, <3>1
      <4>2. (L - 1) * Bucket = c * Bucket + k * Bucket /\ k * Bucket \in Nat
        BY <1>1, <1>2, <4>1
      <4> QED BY <4>2, <2>1
    <3>3. (L - 1) * Bucket \in Int
      BY <1>1, <1>2
    <3>4. c * Bucket < m[w]
      BY <1>1, <1>2, <2>1, <3>2, <3>3
    <3> QED BY <1>1, <2>1, <2>3, <3>4
  <2> QED BY <2>2, <2>3
<1>4. ASSUME NEW c \in 1 .. L, NEW d \in 1 .. L, (c - 1) * Bucket = (d - 1) * Bucket
      PROVE  c = d
  <2>1. ASSUME NEW x \in Nat, NEW y \in Nat, x < y PROVE x * Bucket # y * Bucket
    <3>1. PICK k \in Nat : y = x + 1 + k
      BY <2>1
    <3>2. y * Bucket = x * Bucket + Bucket + k * Bucket /\ k * Bucket \in Nat /\ x * Bucket \in Nat
      BY <1>1, <3>1
    <3> QED BY <3>2, <1>1
  <2>2. c - 1 \in Nat /\ d - 1 \in Nat
    BY <1>2
  <2>3. ~(c - 1 < d - 1) /\ ~(d - 1 < c - 1)
    BY <2>1, <2>2, <1>4
  <2> QED BY <2>3, <1>2
<1> DEFINE s == Chunks(m, w)
<1>5. s = [c \in 1 .. L |-> [weight |-> w, offset |-> (c - 1) * Bucket, size |-> size(c)]]
  BY DEF Chunks, L
<1>6. s \in Seq(ChunkRecords) /\ Len(s) = L
  BY <1>1, <1>2, <1>3, <1>5 DEF ChunkRecords
<1>7. \A c \in 1 .. L : s[c].weight = w /\ s[c].offset = (c - 1) * Bucket /\ s[c].size = size(c)
  BY <1>5
<1> HIDE DEF s, size
<1>8. L >= 1
  BY <1>2
<1>9. \A c \in 1 .. L : s[c].weight = w /\ (s[c].offset + s[c].size = m[w] <=> c = L)
  BY <1>3, <1>7
<1>10. \A c, d \in 1 .. L : s[c].offset = s[d].offset => c = d
  BY <1>4, <1>7
<1> QED BY <1>6, <1>8, <1>9, <1>10 DEF s

ByWeight(m) == [w \in DOMAIN m |-> Chunks(m, w)]

(* The chunks of all weights, one weight after the other.                  *)
LEMMA AllChunksRule ==
  ASSUME NEW m \in Seq(Nat \ {0}), m # <<>>
  PROVE  /\ ByWeight(m) \in Seq(Seq(ChunkRecords)) /\ Len(ByWeight(m)) = Len(m)
         /\ AllChunks(m) \in Seq(ChunkRecords)
         /\ Joins(ByWeight(m), AllChunks(m))
<1>1. ByWeight(m) \in Seq(Seq(ChunkRecords)) /\ Len(ByWeight(m)) = Len(m)
  <2>1. Len(m) \in Nat /\ DOMAIN m = 1 .. Len(m)
    OBVIOUS
  <2>2. \A w \in DOMAIN m : Chunks(m, w) \in Seq(ChunkRecords)
    BY ChunksRule
  <2> QED BY <2>1, <2>2 DEF ByWeight
<1>2. ByWeight(m) # <<>>
  BY <1>1
<1>3. AllChunks(m) = FlattenSeq(ByWeight(m))
  BY DEF AllChunks, ByWeight
<1> QED BY <1>1, <1>2, <1>3, FlattenRule

Packings == {bs \in Seq(Seq(ChunkRecords)) : bs # <<>>}

(* A chunk is added to the last bucket or begins a new one.                *)
LEMMA PackNextRule ==
  ASSUME NEW bs \in Packings, NEW c \in ChunkRecords
  PROVE  /\ PackNext(bs, c) \in Packings
         /\ \/ PackNext(bs, c) = Append(bs, <<c>>)
            \/ PackNext(bs, c) = [bs EXCEPT ![Len(bs)] = Append(bs[Len(bs)], c)]
<1>1. bs \in Seq(Seq(ChunkRecords)) /\ Len(bs) \in Nat \ {0} /\ Len(bs) \in DOMAIN bs
  BY DEF Packings
<1>2. \/ PackNext(bs, c) = Append(bs, <<c>>)
      \/ PackNext(bs, c) = [bs EXCEPT ![Len(bs)] = Append(bs[Len(bs)], c)]
  BY DEF PackNext
<1>3. Append(bs, <<c>>) \in Packings
  <2>1. <<c>> \in Seq(ChunkRecords)
    OBVIOUS
  <2>2. Append(bs, <<c>>) \in Seq(Seq(ChunkRecords)) /\ Append(bs, <<c>>) # <<>>
    BY <2>1, <1>1, AppendProperties
  <2> QED BY <2>2 DEF Packings
<1>4. [bs EXCEPT ![Len(bs)] = Append(bs[Len(bs)], c)] \in Packings
  <2>1. Append(bs[Len(bs)], c) \in Seq(ChunkRecords)
    BY <1>1, AppendProperties
  <2>2. [bs EXCEPT ![Len(bs)] = Append(bs[Len(bs)], c)] \in Seq(Seq(ChunkRecords))
    BY <1>1, <2>1, ExceptSeq
  <2>3. [bs EXCEPT ![Len(bs)] = Append(bs[Len(bs)], c)] # <<>>
    BY <1>1, <2>1, ExceptSeq
  <2> QED BY <2>2, <2>3 DEF Packings
<1> QED BY <1>2, <1>3, <1>4

(* The buckets after n chunks, as a recursion.                             *)
LEMMA PackedRule ==
  ASSUME NEW cs \in Seq(ChunkRecords)
  PROVE  /\ Packed(cs)[0] = <<<<>>>>
         /\ \A n \in 1 .. Len(cs) : Packed(cs)[n] = PackNext(Packed(cs)[n - 1], cs[n])
<1> DEFINE L == Len(cs)
           Is(t) == t = [n \in 0 .. L |-> IF n = 0 THEN <<<<>>>> ELSE PackNext(t[n - 1], cs[n])]
           step == [p \in Nat \X Packings |->
                      IF p[1] + 1 \in 1 .. L THEN PackNext(p[2], cs[p[1] + 1]) ELSE p[2]]
<1>1. L \in Nat /\ \A n \in 1 .. L : cs[n] \in ChunkRecords
  OBVIOUS
<1>2. \E t : Is(t)
  <2>1. step \in [Nat \X Packings -> Packings]
    BY <1>1, PackNextRule
  <2>2. PICK f \in [0 .. L -> Packings] :
          f[0] = <<<<>>>> /\ \A i \in 0 .. L - 1 : f[i + 1] = step[<<i, f[i]>>]
    <3> HIDE DEF step, L
    <3>1. <<<<>>>> \in Packings
      BY DEF Packings
    <3>2. \E f : Follows(Packings, <<<<>>>>, step, L, f)
      BY <2>1, <3>1, <1>1, Recursion
    <3> QED BY <3>2 DEF Follows
  <2>3. ASSUME NEW n \in 0 .. L
        PROVE  f[n] = IF n = 0 THEN <<<<>>>> ELSE PackNext(f[n - 1], cs[n])
    <3> HIDE DEF L
    <3>1. CASE n = 0
      BY <3>1, <2>2
    <3>2. CASE n # 0
      <4>1. n - 1 \in Nat /\ n - 1 \in 0 .. L - 1 /\ n - 1 \in 0 .. L /\ (n - 1) + 1 = n /\ n \in 1 .. L
        BY <1>1, <3>2
      <4>2. f[n - 1] \in Packings /\ f[n] = step[<<n - 1, f[n - 1]>>]
        BY <4>1, <2>2
      <4>3. step[<<n - 1, f[n - 1]>>] = PackNext(f[n - 1], cs[n])
        BY <4>1, <4>2
      <4> QED BY <4>2, <4>3, <3>2
    <3> QED BY <3>1, <3>2
  <2>4. f = [n \in 0 .. L |-> IF n = 0 THEN <<<<>>>> ELSE PackNext(f[n - 1], cs[n])]
    <3> HIDE DEF L
    <3>1. f = [n \in 0 .. L |-> f[n]]
      OBVIOUS
    <3> QED BY <3>1, <2>3, Zenon
  <2>5. Is(f)
    BY <2>4
  <2> QED BY <2>5
<1> DEFINE c == Packed(cs)
<1>3. Is(c)
  BY <1>2 DEF Packed
<1> HIDE DEF c
<1>4. \A n \in 0 .. L : c[n] = IF n = 0 THEN <<<<>>>> ELSE PackNext(c[n - 1], cs[n])
  BY <1>3, Zenon
<1> HIDE DEF L
<1>5. 0 \in 0 .. L /\ \A n \in 1 .. L : n \in 0 .. L /\ n # 0
  BY <1>1
<1> QED BY <1>4, <1>5 DEF c, L

(* The buckets joined are the chunks in order: packing loses, doubles and  *)
(* reorders none of them.                                                  *)
LEMMA PackJoins ==
  ASSUME NEW cs \in Seq(ChunkRecords)
  PROVE  Packed(cs)[Len(cs)] \in Packings /\ Joins(Packed(cs)[Len(cs)], cs)
<1> DEFINE L == Len(cs)
           c == Packed(cs)
           Holds(n) == /\ c[n] \in Packings
                       /\ Starts(c[n])[Len(c[n]) + 1] = n
                       /\ \A k \in 1 .. Len(c[n]) : \A j \in 1 .. Len(c[n][k]) :
                            c[n][k][j] = cs[Starts(c[n])[k] + j]
           G == {n \in Nat : n <= L => Holds(n)}
<1>1. L \in Nat /\ \A n \in 1 .. L : cs[n] \in ChunkRecords
  OBVIOUS
<1>2. c[0] = <<<<>>>> /\ \A n \in 1 .. L : c[n] = PackNext(c[n - 1], cs[n])
  BY PackedRule
<1> HIDE DEF L, c
<1>3. 0 \in G
  <2>1. <<<<>>>> \in Packings /\ Len(<<<<>>>>) = 1 /\ Len(<<<<>>>>[1]) = 0
    BY DEF Packings
  <2>2. Starts(<<<<>>>>)[2] = 0
    <3>1. <<<<>>>> \in Seq(Seq(ChunkRecords)) /\ 1 \in 1 .. Len(<<<<>>>>)
      BY <2>1
    <3>2. Starts(<<<<>>>>)[1 + 1] = Starts(<<<<>>>>)[1] + Len(<<<<>>>>[1]) /\ Starts(<<<<>>>>)[1] = 0
      BY <3>1, StartsRule
    <3> QED BY <3>2, <2>1
  <2>3. Holds(0)
    BY <2>1, <2>2, <1>2
  <2> QED BY <2>3
<1>4. ASSUME NEW n \in G PROVE n + 1 \in G
  <2>1. SUFFICES ASSUME n + 1 <= L PROVE Holds(n + 1)
    OBVIOUS
  <2> DEFINE b == c[n]
             d == c[n + 1]
             x == cs[n + 1]
             K == Len(b)
  <2>2. n + 1 \in 1 .. L /\ (n + 1) - 1 = n /\ n <= L
    BY <1>1, <2>1
  <2>3. Holds(n)
    BY <2>2
  <2>4. x \in ChunkRecords /\ d = PackNext(b, x)
    BY <2>2, <1>1, <1>2
  <2>5. b \in Packings /\ Starts(b)[K + 1] = n
        /\ \A k \in 1 .. K : \A j \in 1 .. Len(b[k]) : b[k][j] = cs[Starts(b)[k] + j]
    BY <2>3
  <2> HIDE DEF b, d, x, G, Holds
  <2>6. b \in Seq(Seq(ChunkRecords)) /\ K \in Nat \ {0} /\ \A k \in 1 .. K : b[k] \in Seq(ChunkRecords)
    BY <2>5 DEF Packings
  <2>7. d \in Packings /\ d \in Seq(Seq(ChunkRecords)) /\ Len(d) \in Nat
    BY <2>4, <2>5, PackNextRule DEF Packings
  <2>b. Starts(b)[K + 1] = Starts(b)[K] + Len(b[K]) /\ Starts(b)[K] \in Nat
    <3>1. K \in 1 .. Len(b) /\ K \in 1 .. Len(b) + 1
      BY <2>6
    <3> QED BY <2>6, <3>1, StartsRule
  <2>8. CASE d = Append(b, <<x>>)
    <3>1. Len(d) = K + 1 /\ d[K + 1] = <<x>> /\ \A k \in 1 .. K : d[k] = b[k]
      BY <2>8, <2>6
    <3>2. \A k \in 1 .. K + 1 : Starts(d)[k] = Starts(b)[k]
      <4>1. K \in Nat /\ K <= Len(d) /\ K <= Len(b)
        BY <2>6, <3>1
      <4>2. \A k \in 1 .. K : Len(d[k]) = Len(b[k])
        BY <3>1
      <4> HIDE DEF K
      <4> QED BY <2>6, <2>7, <4>1, <4>2, StartsPrefix
    <3>3. Starts(d)[(K + 1) + 1] = Starts(d)[K + 1] + 1
      <4>1. K + 1 \in 1 .. Len(d) /\ Len(<<x>>) = 1
        BY <2>6, <3>1
      <4> QED BY <2>7, <4>1, <3>1, StartsRule
    <3>4. Starts(d)[K + 1] = n
      BY <3>2, <2>5, <2>6
    <3>5. ASSUME NEW k \in 1 .. Len(d), NEW j \in 1 .. Len(d[k])
          PROVE  d[k][j] = cs[Starts(d)[k] + j]
      <4>1. CASE k = K + 1
        <5>1. j = 1 /\ d[k][j] = x
          <6>1. d[k] = <<x>> /\ j \in 1 .. Len(<<x>>)
            BY <3>1, <4>1
          <6>2. j = 1
            BY <6>1
          <6> QED BY <6>1, <6>2
        <5> QED BY <5>1, <4>1, <3>4 DEF x
      <4>2. CASE k \in 1 .. K
        BY <4>2, <3>1, <3>2, <2>5, <2>6
      <4> QED BY <4>1, <4>2, <3>1, <2>6
    <3>6. Starts(d)[Len(d) + 1] = n + 1
      BY <3>1, <3>3, <3>4
    <3> QED BY <2>7, <3>5, <3>6 DEF Holds, d
  <2>9. CASE d = [b EXCEPT ![Len(b)] = Append(b[Len(b)], x)]
    <3>1. Len(d) = K /\ d[K] = Append(b[K], x) /\ \A k \in 1 .. K - 1 : d[k] = b[k]
      <4>1. K \in 1 .. Len(b) /\ Append(b[K], x) \in Seq(ChunkRecords)
        BY <2>4, <2>6, AppendProperties
      <4>2. Len(d) = K /\ \A k \in 1 .. Len(b) : d[k] = IF k = K THEN Append(b[K], x) ELSE b[k]
        BY <2>9, <4>1, <2>6, ExceptSeq
      <4>3. \A k \in 1 .. K - 1 : k \in 1 .. Len(b) /\ k # K
        BY <2>6
      <4> QED BY <4>1, <4>2, <4>3
    <3>0. K - 1 \in Nat /\ K - 1 <= Len(b) /\ K - 1 <= Len(d) /\ (K - 1) + 1 = K
      BY <2>6, <3>1
    <3>2. \A k \in 1 .. K : Starts(d)[k] = Starts(b)[k]
      <4>1. \A k \in 1 .. K - 1 : Len(d[k]) = Len(b[k])
        BY <3>1
      <4>2. \A k \in 1 .. (K - 1) + 1 : Starts(d)[k] = Starts(b)[k]
        BY <2>6, <2>7, <3>0, <4>1, StartsPrefix
      <4> QED BY <4>2, <3>0
    <3>3. Len(d[K]) = Len(b[K]) + 1 /\ Len(b[K]) \in Nat
          /\ d[K][Len(b[K]) + 1] = x /\ \A j \in 1 .. Len(b[K]) : d[K][j] = b[K][j]
      BY <2>4, <2>6, <3>1, AppendProperties
    <3>4. Starts(d)[K + 1] = n + 1
      <4>1. K \in 1 .. Len(d) /\ K \in 1 .. K
        BY <2>6, <3>1
      <4>2. Starts(d)[K + 1] = Starts(d)[K] + Len(d[K])
        BY <2>7, <4>1, StartsRule
      <4>3. Starts(d)[K] = Starts(b)[K]
        BY <3>2, <4>1
      <4> QED BY <4>2, <4>3, <3>3, <2>b, <2>5
    <3>5. ASSUME NEW k \in 1 .. Len(d), NEW j \in 1 .. Len(d[k])
          PROVE  d[k][j] = cs[Starts(d)[k] + j]
      <4>1. CASE k = K
        <5>1. K \in 1 .. K
          BY <2>6
        <5>2. Starts(d)[K] = Starts(b)[K]
          BY <3>2, <5>1
        <5>3. CASE j = Len(b[K]) + 1
          <6>1. Starts(d)[K] + j = n + 1
            BY <5>2, <5>3, <2>b, <2>5, <3>3
          <6> QED BY <6>1, <5>3, <4>1, <3>3 DEF x
        <5>4. CASE j \in 1 .. Len(b[K])
          BY <5>4, <5>1, <5>2, <4>1, <3>3, <2>5
        <5> QED BY <5>3, <5>4, <3>3, <4>1
      <4>2. CASE k \in 1 .. K - 1
        <5>1. k \in 1 .. K /\ d[k] = b[k]
          BY <4>2, <3>1, <2>6
        <5>2. Starts(d)[k] = Starts(b)[k]
          BY <5>1, <3>2
        <5> QED BY <5>1, <5>2, <2>5
      <4> QED BY <4>1, <4>2, <3>1, <2>6
    <3> QED BY <2>7, <3>1, <3>4, <3>5 DEF Holds, d
  <2> QED BY <2>4, <2>5, <2>8, <2>9, PackNextRule
<1>5. G = Nat
  <2>1. G \in SUBSET Nat
    OBVIOUS
  <2> HIDE DEF G
  <2> QED BY <1>3, <1>4, <2>1, Induction
<1>6. Holds(L)
  <2>1. L \in G
    BY <1>1, <1>5
  <2>2. L <= L
    BY <1>1
  <2> HIDE DEF Holds
  <2> QED BY <2>1, <2>2
<1> QED BY <1>6 DEF Joins, c, L
------------------------------------------------------------------------------

(* What was configured.                                                    *)
JobInv ==
  /\ job.weights \in Models
  /\ job.buckets = Pack(job.weights)

N == Len(job.buckets)
BucketStarts == Starts(job.buckets)
WeightStarts == Starts(ByWeight(job.weights))

(* What is configured, and stays so.                                       *)
LEMMA JobFacts ==
  ASSUME JobInv
  PROVE  /\ job.weights \in Seq(Nat \ {0}) /\ Len(job.weights) \in Nat \ {0}
         /\ job.buckets \in Seq(Seq(ChunkRecords)) /\ N \in Nat \ {0}
         /\ DOMAIN job.buckets = 1 .. N
         /\ AllChunks(job.weights) \in Seq(ChunkRecords)
         /\ ByWeight(job.weights) \in Seq(Seq(ChunkRecords))
         /\ Len(ByWeight(job.weights)) = Len(job.weights)
         /\ Joins(job.buckets, AllChunks(job.weights))
         /\ Joins(ByWeight(job.weights), AllChunks(job.weights))
<1>1. job.weights \in Seq(Nat \ {0}) /\ job.weights # <<>>
  BY TransferAssumption DEF JobInv
<1>2. Len(job.weights) \in Nat \ {0}
  BY <1>1
<1>3. /\ AllChunks(job.weights) \in Seq(ChunkRecords)
      /\ ByWeight(job.weights) \in Seq(Seq(ChunkRecords))
      /\ Len(ByWeight(job.weights)) = Len(job.weights)
      /\ Joins(ByWeight(job.weights), AllChunks(job.weights))
  BY <1>1, AllChunksRule
<1>4. job.buckets \in Packings /\ Joins(job.buckets, AllChunks(job.weights))
  BY <1>3, PackJoins DEF JobInv, Pack
<1>5. N \in Nat \ {0} /\ job.buckets \in Seq(Seq(ChunkRecords)) /\ DOMAIN job.buckets = 1 .. N
  BY <1>4 DEF Packings, N
<1> QED BY <1>1, <1>2, <1>3, <1>4, <1>5

LEMMA BucketType ==
  ASSUME JobInv, NEW k \in 1 .. N
  PROVE  job.buckets[k] \in Seq(ChunkRecords) /\ Len(job.buckets[k]) \in Nat
<1>1. job.buckets \in Seq(Seq(ChunkRecords)) /\ Len(job.buckets) = N
  BY JobFacts DEF N
<1>2. job.buckets[k] \in Seq(ChunkRecords)
  BY <1>1
<1> QED BY <1>2

(* A place of the joined chunks, by bucket and by weight.                  *)
LEMMA PlaceInBucket ==
  ASSUME JobInv, NEW k \in 1 .. N, NEW i \in 1 .. Len(job.buckets[k])
  PROVE  /\ BucketStarts[k] \in Nat /\ BucketStarts[k + 1] \in Nat
         /\ BucketStarts[k] + i \in 1 .. Len(AllChunks(job.weights))
         /\ BucketStarts[k] + i <= BucketStarts[k + 1]
         /\ job.buckets[k][i] = AllChunks(job.weights)[BucketStarts[k] + i]
<1> DEFINE ss == job.buckets
           u == BucketStarts
<1>1. /\ ss \in Seq(Seq(ChunkRecords)) /\ Len(ss) = N /\ N \in Nat
      /\ Joins(ss, AllChunks(job.weights))
  BY JobFacts DEF N
<1>2. /\ u \in [1 .. N + 1 -> Nat] /\ u[k + 1] = u[k] + Len(ss[k])
  BY <1>1, StartsRule DEF BucketStarts
<1>3. Len(ss[k]) \in Nat
  BY <1>1
<1>4. k \in 1 .. N + 1 /\ k + 1 \in 1 .. N + 1 /\ N + 1 \in k + 1 .. N + 1
  BY <1>1
<1>5. u[k + 1] <= u[N + 1]
  BY <1>1, <1>4, StartsIncrease DEF BucketStarts
<1>6. Len(AllChunks(job.weights)) = u[N + 1] /\ ss[k][i] = AllChunks(job.weights)[u[k] + i]
  BY <1>1 DEF Joins, BucketStarts
<1>7. PICK x, y, z \in Nat : x = u[k] /\ y = u[k + 1] /\ z = u[N + 1]
  <2>1. N + 1 \in 1 .. N + 1
    BY <1>1
  <2> QED BY <1>2, <1>4, <2>1
<1> HIDE DEF u, ss
<1>8. x + i \in 1 .. z /\ x + i <= y
  BY <1>2, <1>3, <1>5, <1>7 DEF ss
<1> QED BY <1>6, <1>7, <1>8 DEF u, ss

(* Where a chunk of a weight is in the stream of chunks.                   *)
LEMMA PlaceInWeight ==
  ASSUME JobInv, NEW w \in 1 .. Len(job.weights), NEW j \in 1 .. Len(Chunks(job.weights, w))
  PROVE  /\ WeightStarts[w] \in Nat /\ WeightStarts[w + 1] \in Nat
         /\ WeightStarts[w + 1] = WeightStarts[w] + Len(Chunks(job.weights, w))
         /\ WeightStarts[w] + j \in 1 .. Len(AllChunks(job.weights))
         /\ WeightStarts[w] + j <= WeightStarts[w + 1]
         /\ Chunks(job.weights, w)[j] = AllChunks(job.weights)[WeightStarts[w] + j]
<1> DEFINE ss == ByWeight(job.weights)
           u == WeightStarts
           M == Len(job.weights)
<1>1. /\ ss \in Seq(Seq(ChunkRecords)) /\ Len(ss) = M /\ M \in Nat
      /\ Joins(ss, AllChunks(job.weights)) /\ DOMAIN job.weights = 1 .. M
  BY JobFacts
<1>2. /\ u \in [1 .. M + 1 -> Nat] /\ u[w + 1] = u[w] + Len(ss[w])
  BY <1>1, StartsRule DEF WeightStarts
<1>0. ss[w] = Chunks(job.weights, w)
  BY <1>1 DEF ByWeight
<1>3. Len(ss[w]) \in Nat
  BY <1>1
<1>4. w \in 1 .. M + 1 /\ w + 1 \in 1 .. M + 1 /\ M + 1 \in w + 1 .. M + 1
  BY <1>1
<1>5. u[w + 1] <= u[M + 1]
  BY <1>1, <1>4, StartsIncrease DEF WeightStarts
<1>6. Len(AllChunks(job.weights)) = u[M + 1] /\ ss[w][j] = AllChunks(job.weights)[u[w] + j]
  BY <1>0, <1>1 DEF Joins, WeightStarts
<1>7. PICK x, y, z \in Nat : x = u[w] /\ y = u[w + 1] /\ z = u[M + 1]
  <2>1. M + 1 \in 1 .. M + 1
    BY <1>1
  <2> QED BY <1>2, <1>4, <2>1
<1> HIDE DEF u, ss, M
<1>8. x + j \in 1 .. z /\ x + j <= y
  BY <1>0, <1>2, <1>3, <1>5, <1>7
<1> QED BY <1>0, <1>2, <1>6, <1>7, <1>8 DEF u

(* The joined chunks are all different, so that each is in one bucket.     *)
LEMMA ChunksDiffer ==
  ASSUME JobInv, NEW p \in 1 .. Len(AllChunks(job.weights)), NEW q \in 1 .. Len(AllChunks(job.weights)),
         AllChunks(job.weights)[p] = AllChunks(job.weights)[q]
  PROVE  p = q
<1> DEFINE ss == ByWeight(job.weights)
           u == WeightStarts
           M == Len(job.weights)
           cs == AllChunks(job.weights)
<1>1. /\ ss \in Seq(Seq(ChunkRecords)) /\ Len(ss) = M /\ M \in Nat /\ Len(cs) = u[M + 1]
      /\ DOMAIN job.weights = 1 .. M /\ job.weights \in Seq(Nat \ {0})
  <2>1. job.weights \in Seq(Nat \ {0}) /\ DOMAIN job.weights = 1 .. M /\ M \in Nat
    BY JobFacts
  <2>2. ss \in Seq(Seq(ChunkRecords)) /\ Len(ss) = M /\ Joins(ss, cs)
    BY JobFacts
  <2>3. Len(cs) = u[Len(ss) + 1]
    BY <2>2 DEF Joins, WeightStarts
  <2> QED BY <2>1, <2>2, <2>3
<1>2. ASSUME NEW r \in 1 .. Len(cs)
      PROVE  \E w \in 1 .. M : \E j \in 1 .. Len(Chunks(job.weights, w)) :
               r = u[w] + j /\ cs[r] = Chunks(job.weights, w)[j]
  <2>1. PICK w \in 1 .. M : u[w] < r /\ r <= u[w + 1]
    BY <1>1, StartsCover DEF WeightStarts
  <2>2. u \in [1 .. M + 1 -> Nat] /\ u[w + 1] = u[w] + Len(ss[w])
    BY <1>1, StartsRule DEF WeightStarts
  <2>3. ss[w] = Chunks(job.weights, w) /\ Len(ss[w]) \in Nat
    BY <1>1 DEF ByWeight
  <2>4. w \in 1 .. M + 1 /\ w + 1 \in 1 .. M + 1
    BY <1>1
  <2>5. PICK x \in Nat, y \in Nat : x = u[w] /\ y = u[w + 1]
    BY <2>2, <2>4
  <2>6. r - x \in 1 .. Len(Chunks(job.weights, w)) /\ r = x + (r - x)
    BY <2>1, <2>2, <2>3, <2>5
  <2> HIDE DEF u, M, cs, ss
  <2>7. PICK j \in 1 .. Len(Chunks(job.weights, w)) : r = u[w] + j
    BY <2>5, <2>6
  <2>8. cs[r] = Chunks(job.weights, w)[j]
    BY <2>7, PlaceInWeight DEF u, M, cs
  <2> QED BY <2>7, <2>8
<1> HIDE DEF u, M, cs, ss
<1>3. PICK w \in 1 .. M : \E j \in 1 .. Len(Chunks(job.weights, w)) :
        p = u[w] + j /\ cs[p] = Chunks(job.weights, w)[j]
  BY <1>2 DEF cs
<1>4. PICK j \in 1 .. Len(Chunks(job.weights, w)) : p = u[w] + j /\ cs[p] = Chunks(job.weights, w)[j]
  BY <1>3
<1>5. PICK v \in 1 .. M : \E i \in 1 .. Len(Chunks(job.weights, v)) :
        q = u[v] + i /\ cs[q] = Chunks(job.weights, v)[i]
  BY <1>2 DEF cs
<1>6. PICK i \in 1 .. Len(Chunks(job.weights, v)) : q = u[v] + i /\ cs[q] = Chunks(job.weights, v)[i]
  BY <1>5
<1>7. Chunks(job.weights, w)[j] = Chunks(job.weights, v)[i]
  BY <1>4, <1>6 DEF cs
<1>8. w = v
  <2>1. w \in DOMAIN job.weights /\ v \in DOMAIN job.weights
    BY <1>1
  <2>3. \A x \in DOMAIN job.weights : \A c \in 1 .. Len(Chunks(job.weights, x)) :
          Chunks(job.weights, x)[c].weight = x
    BY <1>1, ChunksRule
  <2>2. Chunks(job.weights, w)[j].weight = w /\ Chunks(job.weights, v)[i].weight = v
    BY <2>1, <2>3
  <2> QED BY <2>2, <1>7
<1>9. i = j
  BY <1>1, <1>7, <1>8, ChunksRule
<1> QED BY <1>4, <1>6, <1>8, <1>9

(* BucketOf is the one bucket that a chunk is in.                          *)
LEMMA BucketOfRule ==
  ASSUME JobInv, NEW k \in 1 .. N, NEW c \in Range(job.buckets[k])
  PROVE  BucketOf(c) = k
<1>1. job.buckets \in Seq(Seq(ChunkRecords)) /\ DOMAIN job.buckets = 1 .. N /\ Len(job.buckets) = N
  BY JobFacts DEF N
<1>2. PICK i \in 1 .. Len(job.buckets[k]) : c = job.buckets[k][i]
  BY <1>1 DEF Range
<1>3. ASSUME NEW l \in 1 .. N, c \in Range(job.buckets[l])
      PROVE  l = k
  <2>1. PICK j \in 1 .. Len(job.buckets[l]) : c = job.buckets[l][j]
    BY <1>1, <1>3 DEF Range
  <2>2. BucketStarts[k] + i = BucketStarts[l] + j
    <3>1. /\ BucketStarts[k] + i \in 1 .. Len(AllChunks(job.weights))
          /\ c = AllChunks(job.weights)[BucketStarts[k] + i]
      BY <1>2, PlaceInBucket
    <3>2. /\ BucketStarts[l] + j \in 1 .. Len(AllChunks(job.weights))
          /\ c = AllChunks(job.weights)[BucketStarts[l] + j]
      BY <2>1, PlaceInBucket
    <3> QED BY <3>1, <3>2, ChunksDiffer
  <2>3. PICK x, y \in Nat : x = BucketStarts[k] /\ y = BucketStarts[k + 1]
    BY PlaceInBucket
  <2>4. PICK z, t \in Nat : z = BucketStarts[l] /\ t = BucketStarts[l + 1]
    BY PlaceInBucket
  <2>5. PICK p \in Nat : p = x + i
    BY <2>3
  <2>6. x < p /\ p <= y
    <3>1. BucketStarts[k] + i <= BucketStarts[k + 1] /\ i >= 1
      BY PlaceInBucket
    <3> QED BY <3>1, <2>3, <2>5
  <2>7. z < p /\ p <= t
    <3>1. BucketStarts[l] + j <= BucketStarts[l + 1] /\ j >= 1
      BY PlaceInBucket
    <3>2. p = z + j
      BY <2>2, <2>3, <2>4, <2>5
    <3> QED BY <3>1, <3>2, <2>4
  <2> DEFINE ss == job.buckets
  <2>8. /\ ss \in Seq(Seq(ChunkRecords)) /\ k \in 1 .. Len(ss) /\ l \in 1 .. Len(ss) /\ p \in Int
        /\ Starts(ss)[k] < p /\ p <= Starts(ss)[k + 1] /\ Starts(ss)[l] < p /\ p <= Starts(ss)[l + 1]
    BY <1>1, <2>3, <2>4, <2>6, <2>7 DEF BucketStarts
  <2> HIDE DEF ss
  <2> QED BY <2>8, StartsOrder
<1> QED BY <1>1, <1>3 DEF BucketOf

(* The next chunk of a bucket belongs to the next weight to be finished.   *)
LEMMA NextChunk ==
  ASSUME JobInv, NEW k \in 1 .. N, NEW i \in 1 .. Len(job.buckets[k]), NEW f \in 0 .. Len(job.weights),
         WeightStarts[f + 1] <= BucketStarts[k] + i - 1,
         f < Len(job.weights) => BucketStarts[k] + i - 1 < WeightStarts[f + 2]
  PROVE  /\ f < Len(job.weights)
         /\ \E j \in 1 .. Len(Chunks(job.weights, f + 1)) :
              /\ job.buckets[k][i] = Chunks(job.weights, f + 1)[j]
              /\ BucketStarts[k] + i = WeightStarts[f + 1] + j
              /\ Whole(job.buckets[k][i]) <=> j = Len(Chunks(job.weights, f + 1))
<1> DEFINE M == Len(job.weights)
           cs == AllChunks(job.weights)
           u == WeightStarts
<1>1. /\ M \in Nat \ {0} /\ DOMAIN job.weights = 1 .. M /\ job.weights \in Seq(Nat \ {0})
      /\ u \in [1 .. M + 1 -> Nat] /\ Len(cs) = u[M + 1]
  <2>1. job.weights \in Seq(Nat \ {0}) /\ DOMAIN job.weights = 1 .. M /\ M \in Nat \ {0}
    BY JobFacts
  <2>2. /\ ByWeight(job.weights) \in Seq(Seq(ChunkRecords)) /\ Len(ByWeight(job.weights)) = M
        /\ Joins(ByWeight(job.weights), cs)
    BY JobFacts
  <2>3. Len(cs) = u[Len(ByWeight(job.weights)) + 1]
    BY <2>2 DEF Joins, WeightStarts
  <2>4. u \in [1 .. Len(ByWeight(job.weights)) + 1 -> Nat]
    BY <2>2, StartsRule DEF WeightStarts
  <2> QED BY <2>1, <2>2, <2>3, <2>4
<1>2. PICK x \in Nat : x = BucketStarts[k]
  BY PlaceInBucket
<1>3. x + i \in 1 .. Len(cs) /\ job.buckets[k][i] = cs[x + i]
  BY <1>2, PlaceInBucket
<1> HIDE DEF M, cs, u
<1>4. u[f + 1] <= x + i - 1 /\ (f < M => x + i - 1 < u[f + 2]) /\ f \in 0 .. M
  BY <1>2 DEF M, u
<1>5. f < M
  <2>1. SUFFICES ASSUME f = M PROVE FALSE
    BY <1>1, <1>4
  <2>2. x + i <= u[M + 1]
    BY <1>1, <1>3
  <2>3. u[M + 1] <= x + i - 1
    BY <1>4, <2>1
  <2>4. u[M + 1] \in Nat
    BY <1>1
  <2> QED BY <2>2, <2>3, <2>4, <1>3
<1>6. f + 1 \in 1 .. M
  BY <1>1, <1>4, <1>5
<1> DEFINE w == f + 1
           L == Len(Chunks(job.weights, w))
<1>7. /\ L \in Nat /\ L >= 1
      /\ \A c \in 1 .. L :
           /\ Chunks(job.weights, w)[c].weight = w
           /\ Chunks(job.weights, w)[c].offset + Chunks(job.weights, w)[c].size = job.weights[w] <=> c = L
  <2>1. w \in DOMAIN job.weights
    BY <1>1, <1>6
  <2>2. \A v \in DOMAIN job.weights :
          /\ Chunks(job.weights, v) \in Seq(ChunkRecords)
          /\ Len(Chunks(job.weights, v)) >= 1
          /\ \A c \in 1 .. Len(Chunks(job.weights, v)) :
               /\ Chunks(job.weights, v)[c].weight = v
               /\ Chunks(job.weights, v)[c].offset + Chunks(job.weights, v)[c].size = job.weights[v]
                    <=> c = Len(Chunks(job.weights, v))
    BY <1>1, ChunksRule
  <2> HIDE DEF w
  <2>3. Chunks(job.weights, w) \in Seq(ChunkRecords) /\ L >= 1
    BY <2>1, <2>2
  <2>4. L \in Nat
    BY <2>3
  <2> QED BY <2>1, <2>2, <2>3, <2>4
<1>8. u[w + 1] = u[w] + L
  <2>1. 1 \in 1 .. L
    BY <1>7
  <2> QED BY <2>1, <1>6, PlaceInWeight DEF u, M
<1>9. w + 1 = f + 2 /\ u[w] \in Nat
  BY <1>1, <1>6
<1>10. PICK a \in Nat : a = u[w]
  BY <1>9
<1>11. x + i - a \in 1 .. L /\ a + (x + i - a) = x + i
  <2>1. a <= x + i - 1
    BY <1>4, <1>10
  <2>2. x + i - 1 < a + L
    BY <1>4, <1>5, <1>8, <1>9, <1>10
  <2> HIDE DEF L
  <2>3. PICK y, z \in Nat : y = i /\ z = L
    BY <1>7, JobFacts
  <2> QED BY <2>1, <2>2, <2>3
<1>12. PICK j \in 1 .. L : x + i = a + j
  BY <1>11
<1>13. Chunks(job.weights, w)[j] = cs[a + j]
  BY <1>6, <1>10, PlaceInWeight DEF u, M, cs
<1>14. job.buckets[k][i] = Chunks(job.weights, w)[j]
  BY <1>3, <1>12, <1>13
<1>15. Whole(job.buckets[k][i]) <=> j = L
  <2> DEFINE c == Chunks(job.weights, w)[j]
  <2>1. c.weight = w /\ (c.offset + c.size = job.weights[w] <=> j = L)
    BY <1>7
  <2> HIDE DEF c
  <2>2. Whole(c) <=> j = L
    BY <2>1 DEF Whole, Size
  <2> QED BY <2>2, <1>14 DEF c
<1> QED BY <1>2, <1>5, <1>10, <1>12, <1>14, <1>15 DEF M, u

------------------------------------------------------------------------------

(* Every bucket has the same place of two buffers on every rank.           *)
Slot(k) == (k - 1) % 2

NodeRecords ==
  [pc   : {"fill", "send", "reuse", "drain", "done", "receive", "forward", "yield", "flush"},
   at   : 0 .. N, slot : {0, 1}, item : Nat,
   op   : {"none", "open", "meta", "done"},
   from : (0 .. N) \X {0, 1}]

TypeInv ==
  /\ version \in 1 .. Updates
  /\ node \in [Ranks -> NodeRecords]
  /\ buf \in [Ranks -> [{0, 1} -> Nat \X Nat]]
  /\ inbox \in [Ranks -> Seq((1 .. N) \X {0, 1})]
  /\ unread \subseteq Ranks
  /\ signal \in [Ranks -> [{0, 1} -> 0 .. version]]
  /\ stale \in BOOLEAN /\ missed \in BOOLEAN
  /\ joined \subseteq 1 .. Receivers

(* Where the sender and the receivers stand.                               *)
SenderInv ==
  /\ node[0].pc \in {"fill", "send", "reuse", "drain", "done"}
  /\ node[0].op = "none" /\ node[0].at >= 1 /\ node[0].slot = Slot(node[0].at)
  /\ node[0].pc = "reuse" => Mooncake /\ node[0].at >= 3
  /\ node[0].pc \in {"drain", "done"} => node[0].at = N
  /\ node[0].pc = "done" /\ ~Mooncake => 0 \notin unread

ReceiverAt(r) ==
  /\ node[r].pc \in {"receive", "forward", "yield", "flush", "done"}
  /\ node[r].slot = node[r].at % 2
  /\ node[r].pc = "receive" => node[r].op # "none" /\ node[r].at < N /\ (~Mooncake => node[r].at = 0)
  /\ node[r].pc = "forward" => node[r].op = "none" /\ node[r].at >= 1
  /\ node[r].pc = "yield" =>
       /\ node[r].at >= 1 /\ node[r].item \in 1 .. Len(job.buckets[node[r].at]) + 1
       /\ node[r].op = "none" <=> Mooncake \/ node[r].at = N
  /\ node[r].pc \in {"flush", "done"} => node[r].op = "none" /\ node[r].at = N
  /\ node[r].op \in {"meta", "done"} => node[r].from = <<node[r].at + 1, Slot(node[r].at + 1)>>
  /\ Mooncake /\ node[r].pc \in {"forward", "yield"} => node[r].from = <<node[r].at, Slot(node[r].at)>>
  /\ node[r].pc # "yield" => r \notin unread

ReceiverInv == \A r \in 1 .. Receivers : ReceiverAt(r)

(* How many buckets a receiver has the metadata of, has read and has done  *)
(* with, and how many a rank has posted.                                   *)
Got(r)   == IF node[r].op \in {"meta", "done"} THEN node[r].at + 1 ELSE node[r].at
Have(r)  == IF node[r].op = "done" THEN node[r].at + 1 ELSE node[r].at
Ended(r) == IF node[r].pc \in {"forward", "yield"} THEN node[r].at - 1 ELSE node[r].at
Sent(r)  == IF node[r].pc \in {"fill", "send", "reuse", "forward"} THEN node[r].at - 1 ELSE node[r].at

Up(r) == IF Chain THEN r - 1 ELSE 0

(* The buckets arrive in order; all but mooncake have at most one that is  *)
(* not read yet.                                                           *)
LinkAt(r) ==
  /\ \A j \in 1 .. Len(inbox[r]) : inbox[r][j] = <<Got(r) + j, Slot(Got(r) + j)>>
  /\ Got(r) + Len(inbox[r]) <= Sent(Up(r))
  /\ Chain => Got(r) + Len(inbox[r]) = Sent(Up(r))
  /\ ~Mooncake /\ Up(r) \notin unread => node[r].op # "meta" /\ Got(r) = Sent(Up(r))
  /\ ~Mooncake /\ Up(r) \in unread =>
       Got(r) = IF node[r].op = "meta" THEN Sent(Up(r)) ELSE Sent(Up(r)) - 1

LinkInv ==
  /\ \A q \in unread : \E r \in 1 .. Receivers : q = Up(r)
  /\ Mooncake => unread = {}
  /\ \A r \in 1 .. Receivers : LinkAt(r)

(* No step changes the job.                                                *)
LEMMA JobStep ==
  ASSUME JobInv, [Next]_vars
  PROVE  job' = job /\ JobInv' /\ N' = N /\ BucketStarts' = BucketStarts /\ WeightStarts' = WeightStarts
<1>1. job' = job
  BY DEF Next, vars, Fill, Send, Reuse, Drain, Broadcast, NextUpdate, ReceiveWeights, Subscribe,
         ReadMetadata, Read, Received, Forward, Yield, Copy, SendLarge, YieldEnd, FinalFlush
<1> QED BY <1>1 DEF JobInv, N, BucketStarts, WeightStarts

(* The invariant at the start.                                             *)
LEMMA InitType == Init => JobInv /\ TypeInv
<1> SUFFICES ASSUME Init PROVE JobInv /\ TypeInv
  OBVIOUS
<1>1. JobInv
  BY DEF Init, JobInv
<1>2. N \in Nat \ {0} /\ Receivers \in Nat \ {0} /\ Updates \in Nat \ {0}
  BY <1>1, JobFacts, TransferAssumption
<1>3. node \in [Ranks -> NodeRecords]
  BY <1>2 DEF Init, Fresh, NodeRecords, Ranks
<1>4. buf \in [Ranks -> [{0, 1} -> Nat \X Nat]] /\ signal \in [Ranks -> [{0, 1} -> 0 .. version]]
  BY <1>2 DEF Init, Zeroed
<1>5. inbox \in [Ranks -> Seq((1 .. N) \X {0, 1})]
  <2>1. <<>> \in Seq((1 .. N) \X {0, 1})
    OBVIOUS
  <2> QED BY <2>1 DEF Init
<1>6. version \in 1 .. Updates
  BY <1>2 DEF Init
<1>7. unread \subseteq Ranks /\ stale \in BOOLEAN /\ missed \in BOOLEAN /\ joined \subseteq 1 .. Receivers
  BY DEF Init
<1> QED BY <1>1, <1>3, <1>4, <1>5, <1>6, <1>7 DEF TypeInv

LEMMA InitControl == Init => SenderInv /\ ReceiverInv /\ LinkInv
<1> SUFFICES ASSUME Init PROVE SenderInv /\ ReceiverInv /\ LinkInv
  OBVIOUS
<1>1. JobInv
  BY DEF Init, JobInv
<1>2. N \in Nat \ {0} /\ Receivers \in Nat \ {0} /\ Ranks = 0 .. Receivers
  BY <1>1, JobFacts, TransferAssumption DEF Ranks
<1>3. SenderInv
  BY <1>2 DEF Init, Fresh, SenderInv, Slot
<1>4. ReceiverInv
  BY <1>2 DEF Init, Fresh, ReceiverInv, ReceiverAt
<1>5. Sent(0) = 0
  BY <1>2 DEF Init, Fresh, Sent
<1>6. \A r \in 1 .. Receivers : Sent(r) = 0 /\ Got(r) = 0 /\ node[r].op = "open" /\ inbox[r] = <<>>
  BY <1>2 DEF Init, Fresh, Sent, Got
<1>7. ASSUME NEW r \in 1 .. Receivers PROVE Sent(Up(r)) = 0
  <2>1. Up(r) = 0 \/ Up(r) \in 1 .. Receivers
    BY <1>2 DEF Up
  <2> QED BY <2>1, <1>5, <1>6
<1>8. unread = {}
  BY DEF Init
<1>9. ASSUME NEW r \in 1 .. Receivers PROVE LinkAt(r)
  BY <1>6, <1>7, <1>8 DEF LinkAt
<1> QED BY <1>3, <1>4, <1>8, <1>9 DEF LinkInv

(* The two buffers are used in turn.                                       *)
LEMMA Parity ==
  /\ \A k \in Nat \ {0} : Slot(k) \in {0, 1} /\ k % 2 = Slot(k + 1) /\ Slot(k + 1) = 1 - Slot(k)
  /\ \A k \in Nat : k % 2 \in {0, 1} /\ (k + 1) % 2 = 1 - (k % 2) /\ Slot(k + 1) = k % 2
  /\ \A k, l \in Nat \ {0} : Slot(k) = Slot(l) /\ k < l => k + 2 <= l
  /\ Slot(1) = 0
BY DEF Slot

(* The actions that move neither a rank nor a message.                     *)
Still == UNCHANGED <<job, version, node, buf, inbox, unread, signal, stale>>

(* The steps, those that change nothing but the adapters taken together.   *)
LEMMA Cases ==
  ASSUME [Next]_vars
  PROVE  \/ Fill \/ Send \/ Reuse \/ Drain \/ Broadcast \/ NextUpdate
         \/ \E r \in 1 .. Receivers :
              \/ ReadMetadata(r) \/ Read(r) \/ Received(r) \/ Forward(r)
              \/ Yield(r) \/ YieldEnd(r) \/ FinalFlush(r)
         \/ /\ Still /\ joined' = joined /\ missed' = missed
            /\ out' = out \/ \E r \in 1 .. Receivers : Copy(r) \/ SendLarge(r)
         \/ Still /\ missed' = missed /\ out' = out /\ \E r \in 1 .. Receivers : Subscribe(r)
<1>1. CASE UNCHANGED vars
  BY <1>1 DEF vars, Still
<1>2. ASSUME NEW r \in 1 .. Receivers, Subscribe(r)
      PROVE  Still /\ missed' = missed /\ out' = out
  BY <1>2 DEF Subscribe, Still
<1>3. ASSUME NEW r \in 1 .. Receivers, Copy(r) \/ SendLarge(r)
      PROVE  Still /\ joined' = joined /\ missed' = missed
  BY <1>3 DEF Copy, SendLarge, Still
<1> QED BY <1>1, <1>2, <1>3 DEF Next, ReceiveWeights

Control == JobInv /\ TypeInv /\ SenderInv /\ ReceiverInv /\ LinkInv

(* The conjuncts of the invariant that are used most.                      *)
LEMMA ControlFacts ==
  ASSUME Control
  PROVE  /\ N \in Nat \ {0} /\ Receivers \in Nat \ {0} /\ Ranks = 0 .. Receivers
         /\ node \in [Ranks -> NodeRecords]
         /\ node[0].at \in 1 .. N /\ node[0].slot \in {0, 1} /\ 1 - node[0].slot \in {0, 1}
         /\ \A r \in 1 .. Receivers : r \in Ranks /\ r - 1 \in Ranks /\ ReceiverAt(r) /\ LinkAt(r)
         /\ \A r \in Ranks :
              /\ node[r].at \in 0 .. N /\ node[r].slot \in {0, 1} /\ 1 - node[r].slot \in {0, 1}
              /\ node[r].from[1] \in 0 .. N /\ node[r].from[2] \in {0, 1} /\ node[r].item \in Nat
         /\ 0 \in Ranks /\ ~(0 \in 1 .. Receivers)
<1>1. N \in Nat \ {0} /\ Receivers \in Nat \ {0} /\ Ranks = 0 .. Receivers
  BY JobFacts, TransferAssumption DEF Control, Ranks
<1>2. \A r \in 1 .. Receivers : r \in Ranks /\ r - 1 \in Ranks
  BY <1>1
<1>3. \A r \in 1 .. Receivers : ReceiverAt(r) /\ LinkAt(r)
  BY DEF Control, ReceiverInv, LinkInv
<1>4. node \in [Ranks -> NodeRecords]
  BY DEF Control, TypeInv
<1>5. \A n \in NodeRecords :
        /\ n.at \in 0 .. N /\ n.slot \in {0, 1} /\ 1 - n.slot \in {0, 1}
        /\ n.from[1] \in 0 .. N /\ n.from[2] \in {0, 1} /\ n.item \in Nat
  BY DEF NodeRecords
<1>6. \A r \in Ranks :
        /\ node[r].at \in 0 .. N /\ node[r].slot \in {0, 1} /\ 1 - node[r].slot \in {0, 1}
        /\ node[r].from[1] \in 0 .. N /\ node[r].from[2] \in {0, 1} /\ node[r].item \in Nat
  <2> HIDE DEF NodeRecords
  <2> QED BY <1>4, <1>5
<1>7. 0 \in Ranks /\ ~(0 \in 1 .. Receivers)
  BY <1>1
<1>8. node[0].at \in 1 .. N
  <2>1. node[0].at \in 0 .. N /\ node[0].at >= 1
    BY <1>6, <1>7 DEF Control, SenderInv
  <2> QED BY <2>1, <1>1
<1> QED BY <1>1, <1>2, <1>3, <1>4, <1>6, <1>7, <1>8

(* What may become of a record of a rank.                                  *)
LEMMA RecordRule ==
  /\ \A n \in NodeRecords, a \in 0 .. N, s \in {0, 1}, p \in {"fill", "reuse"} :
       [n EXCEPT !.pc = p, !.at = a, !.slot = s] \in NodeRecords
  /\ \A n \in NodeRecords, f \in (0 .. N) \X {0, 1} :
       [n EXCEPT !.op = "meta", !.from = f] \in NodeRecords
  /\ \A n \in NodeRecords, o \in {"none", "open"} :
       [n EXCEPT !.pc = "yield", !.item = 1, !.op = o] \in NodeRecords
  /\ \A n \in NodeRecords, a \in 0 .. N, s \in {0, 1} :
       [n EXCEPT !.pc = "forward", !.at = a, !.slot = s, !.op = "none"] \in NodeRecords
  /\ \A n \in NodeRecords :
       /\ [n EXCEPT !.pc = "flush"] \in NodeRecords
       /\ [n EXCEPT !.pc = "flush", !.op = "none"] \in NodeRecords
       /\ [n EXCEPT !.pc = "receive", !.op = "open"] \in NodeRecords
BY DEF NodeRecords

(* How each rank moves.                                                    *)
LEMMA NodeStep ==
  ASSUME Control, [Next]_vars
  PROVE  node' \in [Ranks -> NodeRecords]
<1>1. node \in [Ranks -> NodeRecords] /\ 0 \in Ranks /\ \A r \in 1 .. Receivers : r \in Ranks
  BY ControlFacts
<1>2. ASSUME NEW r \in Ranks, NEW x \in NodeRecords, node' = [node EXCEPT ![r] = x]
      PROVE  node' \in [Ranks -> NodeRecords]
  BY <1>1, <1>2
<1>3. CASE Fill \/ Reuse \/ Drain
  <2>1. PICK p \in {"send", "fill", "done"} : node' = [node EXCEPT ![0] = [node[0] EXCEPT !.pc = p]]
    BY <1>3 DEF Fill, Reuse, Drain
  <2>2. [node[0] EXCEPT !.pc = p] \in NodeRecords
    BY <1>1 DEF NodeRecords
  <2> QED BY <1>1, <1>2, <2>1, <2>2
<1>4. CASE Send
  <2>1. CASE IsLast(node[0].at)
    <3>1. node' = [node EXCEPT ![0] = [node[0] EXCEPT !.pc = "drain"]]
      BY <1>4, <2>1 DEF Send
    <3>2. [node[0] EXCEPT !.pc = "drain"] \in NodeRecords
      BY <1>1 DEF NodeRecords
    <3> QED BY <1>1, <1>2, <3>1, <3>2
  <2>2. CASE ~IsLast(node[0].at)
    <3> DEFINE p == IF Mooncake /\ node[0].at >= 2 THEN "reuse" ELSE "fill"
    <3>1. node' = [node EXCEPT ![0] = [node[0] EXCEPT !.pc = p, !.at = node[0].at + 1, !.slot = 1 - node[0].slot]]
      BY <1>4, <2>2 DEF Send
    <3>2. node[0].at + 1 \in 0 .. N /\ 1 - node[0].slot \in {0, 1}
      BY <2>2, ControlFacts DEF IsLast, N
    <3>3. [node[0] EXCEPT !.pc = p, !.at = node[0].at + 1, !.slot = 1 - node[0].slot] \in NodeRecords
      BY <1>1, <3>2, RecordRule
    <3> QED BY <1>1, <1>2, <3>1, <3>3
  <2> QED BY <2>1, <2>2
<1>5. CASE Broadcast
  <2>1. \A r \in Ranks : [node[r] EXCEPT !.op = "done"] \in NodeRecords
    BY <1>1 DEF NodeRecords
  <2> QED BY <1>1, <1>5, <2>1 DEF Broadcast
<1>6. CASE NextUpdate
  <2>1. N \in Nat \ {0}
    BY ControlFacts
  <2>2. Fresh \in [Ranks -> NodeRecords]
    BY <2>1 DEF Fresh, NodeRecords
  <2> QED BY <1>6, <2>2 DEF NextUpdate
<1>7. ASSUME NEW r \in 1 .. Receivers, ReadMetadata(r)
      PROVE  node' \in [Ranks -> NodeRecords]
  <2>1. Head(inbox[r]) \in (0 .. N) \X {0, 1}
    <3>1. inbox[r] \in Seq((1 .. N) \X {0, 1}) /\ inbox[r] # <<>>
      BY <1>1, <1>7 DEF Control, TypeInv, ReadMetadata
    <3>2. Head(inbox[r]) \in (1 .. N) \X {0, 1}
      BY <3>1
    <3>3. N \in Nat
      BY ControlFacts
    <3> QED BY <3>2, <3>3
  <2>2. [node[r] EXCEPT !.op = "meta", !.from = Head(inbox[r])] \in NodeRecords
    BY <1>1, <2>1, RecordRule
  <2> QED BY <1>1, <1>2, <1>7, <2>2 DEF ReadMetadata
<1>8. ASSUME NEW r \in 1 .. Receivers, Read(r) \/ FinalFlush(r)
      PROVE  node' \in [Ranks -> NodeRecords]
  <2>1. [node[r] EXCEPT !.op = "done"] \in NodeRecords /\ [node[r] EXCEPT !.pc = "done"] \in NodeRecords
    BY <1>1 DEF NodeRecords
  <2>2. \/ node' = [node EXCEPT ![r] = [node[r] EXCEPT !.op = "done"]]
        \/ node' = [node EXCEPT ![r] = [node[r] EXCEPT !.pc = "done"]]
    BY <1>8 DEF Read, FinalFlush
  <2> QED BY <1>1, <1>2, <2>1, <2>2
<1>9. ASSUME NEW r \in 1 .. Receivers, Yield(r)
      PROVE  node' \in [Ranks -> NodeRecords]
  <2>1. node[r].item + 1 \in Nat
    BY <1>1, ControlFacts
  <2>2. [node[r] EXCEPT !.item = node[r].item + 1] \in NodeRecords
    BY <1>1, <2>1 DEF NodeRecords
  <2>3. node' = [node EXCEPT ![r] = [node[r] EXCEPT !.item = node[r].item + 1]]
    BY <1>9 DEF Yield
  <2> QED BY <1>1, <1>2, <2>2, <2>3
<1>10. ASSUME NEW r \in 1 .. Receivers, Forward(r)
       PROVE  node' \in [Ranks -> NodeRecords]
  <2>1. PICK o \in {"none", "open"} :
          node' = [node EXCEPT ![r] = [node[r] EXCEPT !.pc = "yield", !.item = 1, !.op = o]]
    BY <1>10 DEF Forward
  <2>2. [node[r] EXCEPT !.pc = "yield", !.item = 1, !.op = o] \in NodeRecords
    BY <1>1, RecordRule
  <2> QED BY <1>1, <1>2, <2>1, <2>2
<1>11. ASSUME NEW r \in 1 .. Receivers, Received(r) \/ YieldEnd(r)
       PROVE  node' \in [Ranks -> NodeRecords]
  <2>1. node[r].from[1] \in 0 .. N /\ 1 - node[r].slot \in {0, 1}
    BY <1>1, ControlFacts
  <2>2. \/ node' = [node EXCEPT ![r] = [node[r] EXCEPT !.pc = "forward", !.at = node[r].from[1],
                                                     !.slot = 1 - node[r].slot, !.op = "none"]]
        \/ node' = [node EXCEPT ![r] = [node[r] EXCEPT !.pc = "flush"]]
        \/ node' = [node EXCEPT ![r] = [node[r] EXCEPT !.pc = "flush", !.op = "none"]]
        \/ node' = [node EXCEPT ![r] = [node[r] EXCEPT !.pc = "receive", !.op = "open"]]
    BY <1>11 DEF Received, YieldEnd
  <2>3. /\ [node[r] EXCEPT !.pc = "forward", !.at = node[r].from[1],
                           !.slot = 1 - node[r].slot, !.op = "none"] \in NodeRecords
        /\ [node[r] EXCEPT !.pc = "flush"] \in NodeRecords
        /\ [node[r] EXCEPT !.pc = "flush", !.op = "none"] \in NodeRecords
        /\ [node[r] EXCEPT !.pc = "receive", !.op = "open"] \in NodeRecords
    BY <1>1, <2>1, RecordRule
  <2> QED BY <1>1, <1>2, <2>2, <2>3
<1>12. CASE Still
  BY <1>1, <1>12 DEF Still
<1> QED BY Cases, <1>3, <1>4, <1>5, <1>6, <1>7, <1>8, <1>9, <1>10, <1>11, <1>12

(* Every step keeps the types.                                             *)
LEMMA PostType ==
  ASSUME Control, NEW r \in Ranks, NEW k \in 1 .. N, NEW s \in {0, 1}, Post(r, k, s)
  PROVE  /\ inbox' \in [Ranks -> Seq((1 .. N) \X {0, 1})]
         /\ unread' \subseteq Ranks /\ missed' \in BOOLEAN
<1>1. inbox \in [Ranks -> Seq((1 .. N) \X {0, 1})] /\ unread \subseteq Ranks /\ missed \in BOOLEAN
  BY DEF Control, TypeInv
<1>2. \A n \in Ranks : Append(inbox[n], <<k, s>>) \in Seq((1 .. N) \X {0, 1})
  BY <1>1, AppendProperties
<1>3. inbox' \in [Ranks -> Seq((1 .. N) \X {0, 1})]
  BY <1>1, <1>2 DEF Post
<1> QED BY <1>1, <1>3 DEF Post

LEMMA MessageTypes ==
  ASSUME Control, [Next]_vars
  PROVE  inbox' \in [Ranks -> Seq((1 .. N) \X {0, 1})] /\ unread' \subseteq Ranks /\ missed' \in BOOLEAN
<1> DEFINE Messages == inbox' \in [Ranks -> Seq((1 .. N) \X {0, 1})] /\ unread' \subseteq Ranks /\ missed' \in BOOLEAN
<1>1. inbox \in [Ranks -> Seq((1 .. N) \X {0, 1})] /\ unread \subseteq Ranks /\ missed \in BOOLEAN
  BY DEF Control, TypeInv
<1>2. ASSUME UNCHANGED <<inbox, unread, missed>>
      PROVE  Messages
  BY <1>1, <1>2
<1>3. CASE Fill \/ Reuse \/ Drain \/ NextUpdate \/ (Still /\ missed' = missed)
  BY <1>2, <1>3 DEF Fill, Reuse, Drain, NextUpdate, Still
<1>4. CASE Send
  <2>1. 0 \in Ranks /\ node[0].at \in 1 .. N /\ node[0].slot \in {0, 1}
    BY ControlFacts
  <2> QED BY <2>1, <1>4, PostType DEF Send
<1>5. CASE Broadcast
  BY <1>1, <1>5 DEF Broadcast
<1>6. ASSUME NEW r \in 1 .. Receivers, ReadMetadata(r)
      PROVE  Messages
  <2>1. r \in Ranks
    BY ControlFacts
  <2>2. inbox[r] \in Seq((1 .. N) \X {0, 1}) /\ inbox[r] # <<>>
    BY <1>1, <1>6, <2>1 DEF ReadMetadata
  <2>3. Tail(inbox[r]) \in Seq((1 .. N) \X {0, 1})
    BY <2>2
  <2> QED BY <1>1, <1>6, <2>1, <2>3 DEF ReadMetadata
<1>7. ASSUME NEW r \in 1 .. Receivers, Read(r)
      PROVE  Messages
  BY <1>1, <1>7 DEF Read
<1>8. ASSUME NEW r \in 1 .. Receivers, Received(r) \/ Yield(r) \/ YieldEnd(r) \/ FinalFlush(r)
      PROVE  Messages
  BY <1>2, <1>8 DEF Received, Yield, YieldEnd, FinalFlush
<1>9. ASSUME NEW r \in 1 .. Receivers, Forward(r)
      PROVE  Messages
  <2>1. CASE Forwards(r)
    <3>1. r \in Ranks /\ node[r].at \in 0 .. N /\ 1 - node[r].slot \in {0, 1} /\ ReceiverAt(r) /\ N \in Nat
      BY ControlFacts
    <3>2. node[r].at \in 1 .. N
      BY <3>1, <1>9 DEF Forward, ReceiverAt
    <3>3. Post(r, node[r].at, 1 - node[r].slot)
      BY <1>9, <2>1 DEF Forward
    <3> QED BY <3>1, <3>2, <3>3, PostType
  <2>2. CASE ~Forwards(r)
    BY <1>2, <1>9, <2>2 DEF Forward
  <2> QED BY <2>1, <2>2
<1> QED BY Cases, <1>3, <1>4, <1>5, <1>6, <1>7, <1>8, <1>9

LEMMA SignalTypes ==
  ASSUME Control, [Next]_vars
  PROVE  /\ signal' \in [Ranks -> [{0, 1} -> 0 .. version']]
         /\ stale' \in BOOLEAN /\ version' \in 1 .. Updates
<1> DEFINE Signals == /\ signal' \in [Ranks -> [{0, 1} -> 0 .. version']]
                      /\ stale' \in BOOLEAN /\ version' \in 1 .. Updates
<1>1. /\ signal \in [Ranks -> [{0, 1} -> 0 .. version]]
      /\ stale \in BOOLEAN /\ version \in 1 .. Updates /\ Updates \in Nat
      /\ \A x \in 1 .. Updates : x \in 0 .. x /\ 0 \in 0 .. x
  BY TransferAssumption DEF Control, TypeInv
<1>2. ASSUME UNCHANGED <<signal, stale, version>>
      PROVE  Signals
  BY <1>1, <1>2
<1>3. ASSUME NEW r \in Ranks, NEW s \in {0, 1}, AwaitSignal(r, s), version' = version
      PROVE  Signals
  <2>1. signal' \in [Ranks -> [{0, 1} -> 0 .. version']]
    BY <1>1, <1>3 DEF AwaitSignal
  <2> QED BY <1>1, <1>3, <2>1 DEF AwaitSignal
<1>4. CASE Fill \/ Send \/ Broadcast \/ Still
  BY <1>2, <1>4 DEF Fill, Send, Broadcast, Still
<1>5. CASE Reuse \/ Drain
  <2>1. 0 \in Ranks /\ node[0].slot \in {0, 1}
    BY ControlFacts
  <2>2. version' = version /\ (AwaitSignal(0, node[0].slot) \/ UNCHANGED <<signal, stale>>)
    BY <1>5 DEF Reuse, Drain
  <2> QED BY <1>2, <1>3, <2>1, <2>2
<1>6. CASE NextUpdate
  <2>1. version' \in 1 .. Updates /\ \A x \in 0 .. version : x \in 0 .. version'
    BY <1>1, <1>6 DEF NextUpdate
  <2>2. signal' = signal /\ stale' = stale
    BY <1>6 DEF NextUpdate
  <2> QED BY <1>1, <2>1, <2>2
<1>7. ASSUME NEW r \in 1 .. Receivers, Read(r)
      PROVE  Signals
  <2>1. r \in Ranks /\ node[r].slot \in {0, 1}
    BY ControlFacts
  <2>2. version' = version /\ (AwaitSignal(r, node[r].slot) \/ UNCHANGED <<signal, stale>>)
    BY <1>7 DEF Read
  <2> QED BY <1>2, <1>3, <2>1, <2>2
<1>8. ASSUME NEW r \in 1 .. Receivers,
             ReadMetadata(r) \/ Received(r) \/ Forward(r) \/ Yield(r) \/ FinalFlush(r)
      PROVE  Signals
  BY <1>2, <1>8 DEF ReadMetadata, Received, Forward, Yield, FinalFlush
<1>9. ASSUME NEW r \in 1 .. Receivers, YieldEnd(r)
      PROVE  Signals
  <2>1. r - 1 \in Ranks /\ r \in Ranks /\ node[r].from[2] \in {0, 1}
    BY ControlFacts
  <2>2. version' = version /\ stale' = stale
        /\ (signal' = signal \/ signal' = [signal EXCEPT ![r - 1][node[r].from[2]] = version])
    BY <1>9 DEF YieldEnd
  <2>3. version \in 0 .. version
    BY <1>1
  <2> QED BY <1>1, <1>2, <2>1, <2>2, <2>3
<1> QED BY Cases, <1>4, <1>5, <1>6, <1>7, <1>8, <1>9

LEMMA BufferTypes ==
  ASSUME Control, [Next]_vars
  PROVE  buf' \in [Ranks -> [{0, 1} -> Nat \X Nat]]
<1>1. buf \in [Ranks -> [{0, 1} -> Nat \X Nat]] /\ 0 \in Ranks /\ version \in Nat
  BY ControlFacts, TransferAssumption DEF Control, TypeInv
<1>2. ASSUME NEW r \in Ranks, NEW s \in {0, 1}, NEW x \in Nat \X Nat, buf' = [buf EXCEPT ![r][s] = x]
      PROVE  buf' \in [Ranks -> [{0, 1} -> Nat \X Nat]]
  BY <1>1, <1>2
<1>3. CASE Fill
  <2>1. node[0].at \in Nat /\ node[0].slot \in {0, 1}
    BY ControlFacts
  <2>2. <<version, node[0].at>> \in Nat \X Nat
    BY <1>1, <2>1
  <2>3. buf' = [buf EXCEPT ![0][node[0].slot] = <<version, node[0].at>>]
    BY <1>3 DEF Fill
  <2> QED BY <1>1, <1>2, <2>1, <2>2, <2>3
<1>4. CASE Broadcast
  <2>1. 1 \in Ranks /\ node[1].from[2] \in {0, 1}
    <3>1. Receivers \in Nat \ {0} /\ Ranks = 0 .. Receivers
      BY ControlFacts
    <3>2. 1 \in Ranks
      BY <3>1
    <3> QED BY <3>2, ControlFacts
  <2>2. buf[0][node[1].from[2]] \in Nat \X Nat
    BY <1>1, <2>1
  <2>3. \A r \in Ranks : [buf[r] EXCEPT ![node[r].slot] = buf[0][node[1].from[2]]] \in [{0, 1} -> Nat \X Nat]
    BY <1>1, <2>2
  <2> QED BY <1>1, <1>4, <2>3 DEF Broadcast
<1>5. CASE NextUpdate
  BY <1>1, <1>5 DEF NextUpdate, Zeroed
<1>6. ASSUME NEW r \in 1 .. Receivers, Read(r)
      PROVE  buf' \in [Ranks -> [{0, 1} -> Nat \X Nat]]
  <2>1. r \in Ranks /\ r - 1 \in Ranks /\ node[r].slot \in {0, 1} /\ node[r].from[2] \in {0, 1}
    BY ControlFacts
  <2>2. buf[r - 1][node[r].from[2]] \in Nat \X Nat
    BY <1>1, <2>1
  <2>3. buf' = [buf EXCEPT ![r][node[r].slot] = buf[r - 1][node[r].from[2]]]
    BY <1>6 DEF Read
  <2> QED BY <1>2, <2>1, <2>2, <2>3
<1>7. CASE Send \/ Reuse \/ Drain \/ Still
  BY <1>1, <1>7 DEF Send, Reuse, Drain, Still
<1>8. ASSUME NEW r \in 1 .. Receivers,
             ReadMetadata(r) \/ Received(r) \/ Forward(r) \/ Yield(r) \/ YieldEnd(r) \/ FinalFlush(r)
      PROVE  buf' \in [Ranks -> [{0, 1} -> Nat \X Nat]]
  BY <1>1, <1>8 DEF ReadMetadata, Received, Forward, Yield, YieldEnd, FinalFlush
<1> QED BY Cases, <1>3, <1>4, <1>5, <1>6, <1>7, <1>8

LEMMA JoinedTypes ==
  ASSUME Control, [Next]_vars
  PROVE  joined' \subseteq 1 .. Receivers
<1>1. joined \subseteq 1 .. Receivers
  BY DEF Control, TypeInv
<1>2. joined' = joined \/ joined' = {} \/ \E r \in 1 .. Receivers : joined' = joined \cup {r}
  BY DEF Next, vars, Fill, Send, Reuse, Drain, Broadcast, NextUpdate, ReceiveWeights, Subscribe,
         ReadMetadata, Read, Received, Forward, Yield, Copy, SendLarge, YieldEnd, FinalFlush
<1> QED BY <1>1, <1>2

LEMMA TypeStep ==
  ASSUME Control, [Next]_vars
  PROVE  TypeInv'
<1>1. N' = N /\ NodeRecords' = NodeRecords
  BY JobStep DEF Control, NodeRecords
<1>2. node' \in [Ranks -> NodeRecords']
  BY <1>1, NodeStep
<1>3. inbox' \in [Ranks -> Seq((1 .. N') \X {0, 1})] /\ unread' \subseteq Ranks /\ missed' \in BOOLEAN
  BY <1>1, MessageTypes
<1>4. /\ signal' \in [Ranks -> [{0, 1} -> 0 .. version']]
      /\ stale' \in BOOLEAN /\ version' \in 1 .. Updates
  BY SignalTypes
<1> QED BY <1>2, <1>3, <1>4, BufferTypes, JoinedTypes DEF TypeInv
Rest(r) == \A q \in Ranks \ {r} : node'[q] = node[q]
Goes(r, pc, at, slot) == node'[r].pc = pc /\ node'[r].at = at /\ node'[r].slot = slot
Keeps(r) == node'[r].from = node[r].from /\ node'[r].item = node[r].item

(* Where each step takes the rank that takes it.                           *)
LEMMA SenderMoves ==
  ASSUME Control
  PROVE  /\ Fill => Rest(0) /\ Goes(0, "send", node[0].at, node[0].slot) /\ node'[0].op = node[0].op
         /\ Reuse => Rest(0) /\ Goes(0, "fill", node[0].at, node[0].slot) /\ node'[0].op = node[0].op
         /\ Drain => Rest(0) /\ Goes(0, "done", node[0].at, node[0].slot) /\ node'[0].op = node[0].op
         /\ Send /\ IsLast(node[0].at) =>
              Rest(0) /\ Goes(0, "drain", node[0].at, node[0].slot) /\ node'[0].op = node[0].op
         /\ Send /\ ~IsLast(node[0].at) =>
              /\ Rest(0) /\ node'[0].op = node[0].op
              /\ Goes(0, IF Mooncake /\ node[0].at >= 2 THEN "reuse" ELSE "fill",
                      node[0].at + 1, 1 - node[0].slot)
<1>1. node \in [Ranks -> NodeRecords] /\ 0 \in Ranks
  BY ControlFacts
<1>2. ASSUME NEW p, node' = [node EXCEPT ![0].pc = p]
      PROVE  Rest(0) /\ Goes(0, p, node[0].at, node[0].slot) /\ node'[0].op = node[0].op
  BY <1>1, <1>2 DEF NodeRecords, Rest, Goes
<1>3. ASSUME NEW p, NEW a, NEW s, node' = [node EXCEPT ![0].pc = p, ![0].at = a, ![0].slot = s]
      PROVE  Rest(0) /\ Goes(0, p, a, s) /\ node'[0].op = node[0].op
  BY <1>1, <1>3 DEF NodeRecords, Rest, Goes
<1>4. Fill => node' = [node EXCEPT ![0].pc = "send"]
  BY DEF Fill
<1>5. Reuse => node' = [node EXCEPT ![0].pc = "fill"]
  BY DEF Reuse
<1>6. Drain => node' = [node EXCEPT ![0].pc = "done"]
  BY DEF Drain
<1>7. Send /\ IsLast(node[0].at) => node' = [node EXCEPT ![0].pc = "drain"]
  BY DEF Send
<1>8. Send /\ ~IsLast(node[0].at) =>
        node' = [node EXCEPT ![0].pc = IF Mooncake /\ node[0].at >= 2 THEN "reuse" ELSE "fill",
                             ![0].at = node[0].at + 1, ![0].slot = 1 - node[0].slot]
  BY DEF Send
<1> QED BY <1>2, <1>3, <1>4, <1>5, <1>6, <1>7, <1>8

LEMMA ReceiverMoves ==
  ASSUME Control, NEW r \in 1 .. Receivers
  PROVE  /\ ReadMetadata(r) =>
              /\ Rest(r) /\ Goes(r, node[r].pc, node[r].at, node[r].slot)
              /\ node'[r].op = "meta" /\ node'[r].from = Head(inbox[r]) /\ node'[r].item = node[r].item
         /\ Read(r) =>
              Rest(r) /\ Goes(r, node[r].pc, node[r].at, node[r].slot) /\ node'[r].op = "done" /\ Keeps(r)
         /\ FinalFlush(r) =>
              Rest(r) /\ Goes(r, "done", node[r].at, node[r].slot) /\ node'[r].op = node[r].op /\ Keeps(r)
         /\ Yield(r) =>
              /\ Rest(r) /\ Goes(r, node[r].pc, node[r].at, node[r].slot) /\ node'[r].op = node[r].op
              /\ node'[r].item = node[r].item + 1 /\ node'[r].from = node[r].from
         /\ Forward(r) =>
              /\ Rest(r) /\ Goes(r, "yield", node[r].at, node[r].slot)
              /\ node'[r].op = (IF Mooncake \/ IsLast(node[r].at) THEN "none" ELSE "open")
              /\ node'[r].item = 1 /\ node'[r].from = node[r].from
         /\ Received(r) =>
              Rest(r) /\ Goes(r, "forward", node[r].from[1], 1 - node[r].slot) /\ node'[r].op = "none" /\ Keeps(r)
<1>1. node \in [Ranks -> NodeRecords] /\ r \in Ranks
  BY ControlFacts
<1>2. ReadMetadata(r) => node' = [node EXCEPT ![r].op = "meta", ![r].from = Head(inbox[r])]
  BY DEF ReadMetadata
<1>3. Read(r) => node' = [node EXCEPT ![r].op = "done"]
  BY DEF Read
<1>4. FinalFlush(r) => node' = [node EXCEPT ![r].pc = "done"]
  BY DEF FinalFlush
<1>5. Yield(r) => node' = [node EXCEPT ![r].item = node[r].item + 1]
  BY DEF Yield
<1>6. Forward(r) => node' = [node EXCEPT ![r].pc = "yield", ![r].item = 1,
       ![r].op = IF Mooncake \/ IsLast(node[r].at) THEN "none" ELSE "open"]
  BY DEF Forward
<1>7. Received(r) => node' = [node EXCEPT ![r].pc = "forward", ![r].at = node[r].from[1],
                                          ![r].slot = 1 - node[r].slot, ![r].op = "none"]
  BY DEF Received
<1>8. ASSUME NEW f, node' = [node EXCEPT ![r].op = "meta", ![r].from = f]
      PROVE  /\ Rest(r) /\ Goes(r, node[r].pc, node[r].at, node[r].slot)
             /\ node'[r].op = "meta" /\ node'[r].from = f /\ node'[r].item = node[r].item
  BY <1>1, <1>8 DEF NodeRecords, Rest, Goes
<1>9. ASSUME node' = [node EXCEPT ![r].op = "done"]
      PROVE  Rest(r) /\ Goes(r, node[r].pc, node[r].at, node[r].slot) /\ node'[r].op = "done" /\ Keeps(r)
  BY <1>1, <1>9 DEF NodeRecords, Rest, Goes, Keeps
<1>10. ASSUME node' = [node EXCEPT ![r].pc = "done"]
       PROVE  Rest(r) /\ Goes(r, "done", node[r].at, node[r].slot) /\ node'[r].op = node[r].op /\ Keeps(r)
  BY <1>1, <1>10 DEF NodeRecords, Rest, Goes, Keeps
<1>11. ASSUME NEW i, node' = [node EXCEPT ![r].item = i]
       PROVE  /\ Rest(r) /\ Goes(r, node[r].pc, node[r].at, node[r].slot) /\ node'[r].op = node[r].op
              /\ node'[r].item = i /\ node'[r].from = node[r].from
  BY <1>1, <1>11 DEF NodeRecords, Rest, Goes
<1>12. ASSUME NEW o, node' = [node EXCEPT ![r].pc = "yield", ![r].item = 1, ![r].op = o]
       PROVE  /\ Rest(r) /\ Goes(r, "yield", node[r].at, node[r].slot) /\ node'[r].op = o
              /\ node'[r].item = 1 /\ node'[r].from = node[r].from
  BY <1>1, <1>12 DEF NodeRecords, Rest, Goes
<1>13. ASSUME NEW a, NEW s, node' = [node EXCEPT ![r].pc = "forward", ![r].at = a, ![r].slot = s, ![r].op = "none"]
       PROVE  Rest(r) /\ Goes(r, "forward", a, s) /\ node'[r].op = "none" /\ Keeps(r)
  BY <1>1, <1>13 DEF NodeRecords, Rest, Goes, Keeps
<1>14. ReadMetadata(r) =>
         /\ Rest(r) /\ Goes(r, node[r].pc, node[r].at, node[r].slot)
         /\ node'[r].op = "meta" /\ node'[r].from = Head(inbox[r]) /\ node'[r].item = node[r].item
  BY <1>2, <1>8
<1>15. Yield(r) =>
         /\ Rest(r) /\ Goes(r, node[r].pc, node[r].at, node[r].slot) /\ node'[r].op = node[r].op
         /\ node'[r].item = node[r].item + 1 /\ node'[r].from = node[r].from
  BY <1>5, <1>11
<1>16. Forward(r) =>
         /\ Rest(r) /\ Goes(r, "yield", node[r].at, node[r].slot)
         /\ node'[r].op = (IF Mooncake \/ IsLast(node[r].at) THEN "none" ELSE "open")
         /\ node'[r].item = 1 /\ node'[r].from = node[r].from
  BY <1>6, <1>12
<1>17. Received(r) =>
         Rest(r) /\ Goes(r, "forward", node[r].from[1], 1 - node[r].slot) /\ node'[r].op = "none" /\ Keeps(r)
  BY <1>7, <1>13
<1> QED BY <1>3, <1>4, <1>9, <1>10, <1>14, <1>15, <1>16, <1>17

LEMMA EndMoves ==
  ASSUME Control, NEW r \in 1 .. Receivers, YieldEnd(r)
  PROVE  /\ Rest(r) /\ Keeps(r)
         /\ node[r].pc = "yield" /\ r \notin unread
         /\ \/ /\ IsLast(node[r].at) /\ Goes(r, "flush", node[r].at, node[r].slot)
               /\ node'[r].op = (IF Mooncake THEN "none" ELSE node[r].op)
            \/ /\ ~IsLast(node[r].at) /\ Mooncake /\ Goes(r, "receive", node[r].at, node[r].slot)
               /\ node'[r].op = "open" /\ Synchronized(r)
            \/ /\ ~IsLast(node[r].at) /\ ~Mooncake /\ node[r].op = "done" /\ Synchronized(r)
               /\ Goes(r, "forward", node[r].from[1], 1 - node[r].slot) /\ node'[r].op = "none"
<1>1. node \in [Ranks -> NodeRecords] /\ r \in Ranks
  BY ControlFacts
<1>2. ASSUME node' = [node EXCEPT ![r].pc = "flush"]
      PROVE  Rest(r) /\ Keeps(r) /\ Goes(r, "flush", node[r].at, node[r].slot) /\ node'[r].op = node[r].op
  BY <1>1, <1>2 DEF NodeRecords, Rest, Goes, Keeps
<1>3. ASSUME NEW p, NEW o, node' = [node EXCEPT ![r].pc = p, ![r].op = o]
      PROVE  Rest(r) /\ Keeps(r) /\ Goes(r, p, node[r].at, node[r].slot) /\ node'[r].op = o
  BY <1>1, <1>3 DEF NodeRecords, Rest, Goes, Keeps
<1>4. ASSUME NEW a, NEW s, node' = [node EXCEPT ![r].pc = "forward", ![r].at = a, ![r].slot = s, ![r].op = "none"]
      PROVE  Rest(r) /\ Goes(r, "forward", a, s) /\ node'[r].op = "none" /\ Keeps(r)
  BY <1>1, <1>4 DEF NodeRecords, Rest, Goes, Keeps
<1>5. node[r].pc = "yield" /\ r \notin unread
  BY DEF YieldEnd
<1>6. CASE IsLast(node[r].at) /\ ~Mooncake
  <2>1. node' = [node EXCEPT ![r].pc = "flush"]
    BY <1>6 DEF YieldEnd
  <2> QED BY <2>1, <1>2, <1>5, <1>6
<1>7. CASE Mooncake
  <2>1. /\ node' = [node EXCEPT ![r].pc = IF IsLast(node[r].at) THEN "flush" ELSE "receive",
                                ![r].op = IF IsLast(node[r].at) THEN "none" ELSE "open"]
        /\ Synchronized(r)
    BY <1>7 DEF YieldEnd
  <2> QED BY <2>1, <1>3, <1>5, <1>7
<1>8. CASE ~IsLast(node[r].at) /\ ~Mooncake
  <2>1. /\ node' = [node EXCEPT ![r].pc = "forward", ![r].at = node[r].from[1],
                                ![r].slot = 1 - node[r].slot, ![r].op = "none"]
        /\ node[r].op = "done" /\ Synchronized(r)
    BY <1>8 DEF YieldEnd
  <2> QED BY <2>1, <1>4, <1>5, <1>8
<1> QED BY <1>6, <1>7, <1>8

LEMMA BroadcastMoves ==
  ASSUME Control, Broadcast
  PROVE  /\ node'[0] = node[0]
         /\ \A r \in 1 .. Receivers :
              Goes(r, node[r].pc, node[r].at, node[r].slot) /\ node'[r].op = "done" /\ Keeps(r)
<1>1. /\ node \in [Ranks -> NodeRecords] /\ 0 \in Ranks /\ ~(0 \in 1 .. Receivers)
      /\ \A r \in 1 .. Receivers : r \in Ranks
  BY ControlFacts
<1>2. \A r \in 1 .. Receivers : node'[r] = [node[r] EXCEPT !.op = "done"]
  BY <1>1 DEF Broadcast
<1>3. \A r \in 1 .. Receivers :
        /\ node'[r].op = "done" /\ node'[r].pc = node[r].pc /\ node'[r].at = node[r].at
        /\ node'[r].slot = node[r].slot /\ node'[r].from = node[r].from /\ node'[r].item = node[r].item
  <2> TAKE r \in 1 .. Receivers
  <2>1. node[r] \in NodeRecords /\ node'[r] = [node[r] EXCEPT !.op = "done"]
    BY <1>1, <1>2
  <2> QED BY <2>1 DEF NodeRecords
<1>4. node'[0] = node[0]
  BY <1>1 DEF Broadcast
<1> QED BY <1>3, <1>4 DEF Goes, Keeps

LEMMA NextMoves ==
  ASSUME Control, NextUpdate
  PROVE  /\ Goes(0, "fill", 1, 0) /\ node'[0].op = "none" /\ node[0].pc = "done"
         /\ \A r \in 1 .. Receivers : /\ Goes(r, "receive", 0, 0) /\ node'[r].op = "open"
                                      /\ node[r].pc = "done"
<1>1. 0 \in Ranks /\ ~(0 \in 1 .. Receivers) /\ \A r \in 1 .. Receivers : r \in Ranks
  BY ControlFacts
<1>2. ~ \E r \in 1 .. Receivers : r = 0
  BY <1>1
<1> QED BY <1>1, <1>2 DEF NextUpdate, Fresh, Goes

(* A bucket is posted by Send and by Forward only.                         *)
LEMMA UnreadStep ==
  ASSUME Control, [Next]_vars, NEW q, q \in unread', q \notin unread
  PROVE  ~Mooncake /\ ((q = 0 /\ Send) \/ (q \in 1 .. Receivers /\ Forward(q) /\ Forwards(q)))
<1>1. CASE Send
  <2>1. q = 0 /\ ~Mooncake
    BY <1>1 DEF Send, Post
  <2> QED BY <1>1, <2>1
<1>2. ASSUME NEW r \in 1 .. Receivers, Forward(r)
      PROVE  ~Mooncake /\ q = r /\ Forwards(r)
  BY <1>2 DEF Forward, Post
<1>3. CASE Fill \/ Reuse \/ Drain \/ Broadcast \/ NextUpdate \/ Still
  BY <1>3 DEF Fill, Reuse, Drain, Broadcast, NextUpdate, Still
<1>4. ASSUME NEW r \in 1 .. Receivers,
             ReadMetadata(r) \/ Read(r) \/ Received(r) \/ Yield(r) \/ YieldEnd(r) \/ FinalFlush(r)
      PROVE  FALSE
  BY <1>4 DEF ReadMetadata, Read, Received, Yield, YieldEnd, FinalFlush
<1> QED BY Cases, <1>1, <1>2, <1>3, <1>4

(* The configuration does not change.                                      *)
LEMMA ConfigStep ==
  ASSUME Control, [Next]_vars
  PROVE  /\ Mooncake' <=> Mooncake
         /\ Chain' <=> Chain
         /\ N' = N /\ job' = job
         /\ \A k : IsLast(k)' <=> IsLast(k)
BY JobStep DEF Control, Mooncake, Chain, IsLast, N

(* Every step keeps where the sender may stand.                            *)
LEMMA SenderStep ==
  ASSUME Control, [Next]_vars
  PROVE  SenderInv'
<1>1. /\ N \in Nat \ {0} /\ node[0].at \in 1 .. N /\ 0 \in Ranks /\ ~(0 \in 1 .. Receivers)
      /\ \A k : IsLast(k) <=> k = N
  BY ControlFacts DEF IsLast, N
<1>2. SenderInv /\ (Mooncake' <=> Mooncake) /\ N' = N
  BY ConfigStep DEF Control
<1>3. 0 \in unread' => 0 \in unread \/ Send
  BY <1>1, UnreadStep
<1>4. Slot(node[0].at + 1) = 1 - Slot(node[0].at) /\ Slot(1) = 0
  BY <1>1, Parity
<1>5. CASE node'[0] = node[0] /\ ~Send
  BY <1>2, <1>3, <1>5 DEF SenderInv
<1>6. CASE Fill
  <2>1. Goes(0, "send", node[0].at, node[0].slot) /\ node'[0].op = node[0].op /\ node[0].pc = "fill"
    BY <1>6, SenderMoves DEF Fill
  <2> QED BY <1>2, <2>1 DEF SenderInv, Goes
<1>7. CASE Reuse
  <2>1. Goes(0, "fill", node[0].at, node[0].slot) /\ node'[0].op = node[0].op
    BY <1>7, SenderMoves
  <2> QED BY <1>2, <2>1 DEF SenderInv, Goes
<1>8. CASE Drain
  <2>1. Goes(0, "done", node[0].at, node[0].slot) /\ node'[0].op = node[0].op /\ node[0].pc = "drain"
        /\ 0 \notin unread /\ unread' = unread
    BY <1>8, SenderMoves DEF Drain
  <2> QED BY <1>2, <2>1 DEF SenderInv, Goes
<1>9. CASE Send
  <2>1. CASE IsLast(node[0].at)
    <3>1. Goes(0, "drain", node[0].at, node[0].slot) /\ node'[0].op = node[0].op
      BY <1>9, <2>1, SenderMoves
    <3> QED BY <1>1, <1>2, <2>1, <3>1 DEF SenderInv, Goes
  <2>2. CASE ~IsLast(node[0].at)
    <3>1. /\ Goes(0, IF Mooncake /\ node[0].at >= 2 THEN "reuse" ELSE "fill",
                  node[0].at + 1, 1 - node[0].slot)
          /\ node'[0].op = node[0].op
      BY <1>9, <2>2, SenderMoves
    <3>2. node'[0].pc \in {"reuse", "fill"} /\ (node'[0].pc = "reuse" => Mooncake /\ node[0].at >= 2)
          /\ node'[0].at = node[0].at + 1 /\ node'[0].slot = 1 - node[0].slot
      BY <3>1 DEF Goes
    <3>3. node'[0].slot = Slot(node'[0].at) /\ node'[0].at >= 1 /\ (node[0].at >= 2 => node'[0].at >= 3)
      BY <1>1, <1>2, <1>4, <3>2 DEF SenderInv
    <3> QED BY <1>2, <3>1, <3>2, <3>3 DEF SenderInv
  <2> QED BY <2>1, <2>2
<1>10. CASE NextUpdate
  <2>1. Goes(0, "fill", 1, 0) /\ node'[0].op = "none"
    BY <1>10, NextMoves
  <2> QED BY <1>2, <1>4, <2>1 DEF SenderInv, Goes
<1>11. CASE Broadcast \/ Still
  BY <1>5, <1>9, <1>11, BroadcastMoves DEF Still
<1>12. ASSUME NEW r \in 1 .. Receivers,
              \/ ReadMetadata(r) \/ Read(r) \/ Received(r) \/ Forward(r)
              \/ Yield(r) \/ YieldEnd(r) \/ FinalFlush(r)
       PROVE  SenderInv'
  <2>1. Rest(r)
    BY <1>12, ReceiverMoves, EndMoves
  <2>2. node'[0] = node[0]
    BY <1>1, <2>1 DEF Rest
  <2> QED BY <1>5, <1>9, <2>2
<1> QED BY Cases, <1>6, <1>7, <1>8, <1>9, <1>10, <1>11, <1>12

(* Every step keeps where a receiver may stand.                            *)
LEMMA ReceiverStep ==
  ASSUME Control, [Next]_vars
  PROVE  ReceiverInv'
<1> SUFFICES ASSUME NEW r \in 1 .. Receivers PROVE ReceiverAt(r)'
  BY DEF ReceiverInv
<1>1. /\ N \in Nat \ {0} /\ node[r].at \in 0 .. N /\ r \in Ranks /\ r # 0
      /\ \A k : IsLast(k) <=> k = N
  BY ControlFacts DEF IsLast, N
<1>2. ReceiverAt(r) /\ LinkAt(r) /\ (Mooncake' <=> Mooncake) /\ N' = N /\ job' = job
  BY ConfigStep, ControlFacts
<1>3. r \in unread' => r \in unread \/ Forward(r)
  BY <1>1, UnreadStep
<1>4. /\ node[r].at % 2 \in {0, 1} /\ (node[r].at + 1) % 2 = 1 - (node[r].at % 2)
      /\ Slot(node[r].at + 1) = node[r].at % 2
  BY <1>1, Parity
<1>5. CASE node'[r] = node[r] /\ ~Forward(r)
  BY <1>2, <1>3, <1>5 DEF ReceiverAt
<1>6. CASE ReadMetadata(r)
  <2>1. Head(inbox[r]) = <<node[r].at + 1, Slot(node[r].at + 1)>>
    <3>1. inbox[r] \in Seq((1 .. N) \X {0, 1}) /\ inbox[r] # <<>> /\ node[r].op = "open"
      BY <1>1, <1>6 DEF Control, TypeInv, ReadMetadata
    <3>2. Head(inbox[r]) = inbox[r][1] /\ 1 \in 1 .. Len(inbox[r]) /\ Got(r) = node[r].at
      BY <3>1 DEF Got
    <3> QED BY <1>2, <3>2 DEF LinkAt
  <2>2. /\ Goes(r, node[r].pc, node[r].at, node[r].slot) /\ node[r].op = "open"
        /\ node'[r].op = "meta" /\ node'[r].from = Head(inbox[r]) /\ node'[r].item = node[r].item
        /\ unread' = unread
    BY <1>6, ReceiverMoves DEF ReadMetadata
  <2> QED BY <1>1, <1>2, <2>1, <2>2 DEF ReceiverAt, Goes
<1>7. CASE Read(r)
  <2>1. /\ Goes(r, node[r].pc, node[r].at, node[r].slot) /\ node'[r].op = "done" /\ Keeps(r)
        /\ node[r].op = "meta"
    BY <1>7, ReceiverMoves DEF Read
  <2>2. r \in unread' => r \in unread
    BY <1>7 DEF Read
  <2> QED BY <1>2, <2>1, <2>2 DEF ReceiverAt, Goes, Keeps
<1>8. CASE FinalFlush(r)
  <2>1. /\ Goes(r, "done", node[r].at, node[r].slot) /\ node'[r].op = node[r].op /\ Keeps(r)
        /\ node[r].pc = "flush" /\ unread' = unread
    BY <1>8, ReceiverMoves DEF FinalFlush
  <2> QED BY <1>2, <2>1 DEF ReceiverAt, Goes, Keeps
<1>9. CASE Yield(r)
  <2>1. /\ Goes(r, node[r].pc, node[r].at, node[r].slot) /\ node'[r].op = node[r].op
        /\ node'[r].item = node[r].item + 1 /\ node'[r].from = node[r].from
        /\ node[r].pc = "yield" /\ node[r].item <= Len(job.buckets[node[r].at]) /\ unread' = unread
    BY <1>9, ReceiverMoves DEF Yield
  <2>2. node[r].item + 1 \in 1 .. Len(job.buckets[node[r].at]) + 1
    <3>1. node[r].at \in 1 .. N
      BY <1>1, <1>2, <2>1 DEF ReceiverAt
    <3>2. Len(job.buckets[node[r].at]) \in Nat /\ node[r].item \in Nat
      BY <3>1, <1>1, ControlFacts, BucketType DEF Control
    <3> QED BY <3>2, <2>1
  <2> QED BY <1>2, <2>1, <2>2 DEF ReceiverAt, Goes
<1>10. CASE Forward(r)
  <2>1. /\ Goes(r, "yield", node[r].at, node[r].slot)
        /\ node'[r].op = (IF Mooncake \/ IsLast(node[r].at) THEN "none" ELSE "open")
        /\ node'[r].item = 1 /\ node'[r].from = node[r].from /\ node[r].pc = "forward"
    BY <1>10, ReceiverMoves DEF Forward
  <2>2. 1 \in 1 .. Len(job.buckets[node[r].at]) + 1
    <3>1. node[r].at \in 1 .. N
      BY <1>1, <1>2, <2>1 DEF ReceiverAt
    <3>2. Len(job.buckets[node[r].at]) \in Nat
      BY <3>1, BucketType DEF Control
    <3> QED BY <3>2
  <2>3. /\ node[r].at >= 1 /\ node[r].slot = node[r].at % 2
        /\ Mooncake => node[r].from = <<node[r].at, Slot(node[r].at)>>
    BY <1>2, <2>1 DEF ReceiverAt
  <2> QED BY <1>1, <1>2, <2>1, <2>2, <2>3 DEF ReceiverAt, Goes
<1>11. ASSUME node[r].op = "done", Goes(r, "forward", node[r].from[1], 1 - node[r].slot),
              node'[r].op = "none", Keeps(r), ~Forward(r), node[r].at < N, r \notin unread
       PROVE  ReceiverAt(r)'
  <2>1. node[r].from = <<node[r].at + 1, Slot(node[r].at + 1)>> /\ node[r].slot = node[r].at % 2
    BY <1>2, <1>11 DEF ReceiverAt
  <2>2. /\ node'[r].at = node[r].at + 1 /\ node'[r].slot = node'[r].at % 2
        /\ node'[r].from = <<node'[r].at, Slot(node'[r].at)>>
        /\ node'[r].pc = "forward"
    BY <1>4, <1>11, <2>1 DEF Goes, Keeps
  <2>3. node'[r].at >= 1
    BY <1>1, <2>2
  <2> QED BY <1>2, <1>3, <1>11, <2>2, <2>3 DEF ReceiverAt
<1>12. CASE Received(r)
  <2>1. Goes(r, "forward", node[r].from[1], 1 - node[r].slot) /\ node'[r].op = "none" /\ Keeps(r)
        /\ node[r].pc = "receive" /\ node[r].op = "done" /\ ~Forward(r)
    BY <1>12, ReceiverMoves DEF Received, Forward
  <2> QED BY <1>2, <1>11, <2>1 DEF ReceiverAt
<1>13. CASE YieldEnd(r)
  <2>1. node[r].pc = "yield" /\ r \notin unread /\ ~Forward(r) /\ Keeps(r)
    BY <1>13, EndMoves DEF Forward
  <2>2. CASE /\ IsLast(node[r].at) /\ Goes(r, "flush", node[r].at, node[r].slot)
             /\ node'[r].op = (IF Mooncake THEN "none" ELSE node[r].op)
    BY <1>1, <1>2, <1>3, <2>1, <2>2 DEF ReceiverAt, Goes, Keeps
  <2>3. CASE /\ ~IsLast(node[r].at) /\ Mooncake /\ Goes(r, "receive", node[r].at, node[r].slot)
             /\ node'[r].op = "open"
    BY <1>1, <1>2, <1>3, <2>1, <2>3 DEF ReceiverAt, Goes, Keeps
  <2>4. CASE /\ ~IsLast(node[r].at) /\ ~Mooncake /\ node[r].op = "done"
             /\ Goes(r, "forward", node[r].from[1], 1 - node[r].slot) /\ node'[r].op = "none"
    BY <1>1, <1>11, <2>1, <2>4
  <2> QED BY <1>13, <2>2, <2>3, <2>4, EndMoves
<1>14. CASE NextUpdate
  <2>1. Goes(r, "receive", 0, 0) /\ node'[r].op = "open" /\ ~Forward(r) /\ node[r].pc = "done"
    BY <1>14, NextMoves DEF Forward
  <2>2. 0 % 2 = 0
    OBVIOUS
  <2> QED BY <1>1, <1>2, <1>3, <2>1, <2>2 DEF ReceiverAt, Goes
<1>15. CASE Broadcast
  <2>1. /\ Goes(r, node[r].pc, node[r].at, node[r].slot) /\ node'[r].op = "done" /\ Keeps(r)
        /\ node[r].op = "meta" /\ (r \in unread' => r \in unread)
    BY <1>15, BroadcastMoves DEF Broadcast
  <2> QED BY <1>2, <2>1 DEF ReceiverAt, Goes, Keeps
<1>16. CASE (Fill \/ Send \/ Reuse \/ Drain) /\ ~Forward(r)
  <2>1. Rest(0)
    BY <1>16, SenderMoves
  <2> QED BY <1>1, <1>5, <1>16, <2>1 DEF Rest
<1>17. CASE Still /\ ~Forward(r)
  BY <1>5, <1>17 DEF Still
<1>18. ASSUME NEW q \in 1 .. Receivers, q # r, ~Forward(r),
              \/ ReadMetadata(q) \/ Read(q) \/ Received(q) \/ Forward(q)
              \/ Yield(q) \/ YieldEnd(q) \/ FinalFlush(q)
       PROVE  ReceiverAt(r)'
  <2>1. Rest(q)
    BY <1>18, ReceiverMoves, EndMoves
  <2> QED BY <1>1, <1>5, <1>18, <2>1 DEF Rest
<1> QED BY Cases, <1>6, <1>7, <1>8, <1>9, <1>10, <1>12, <1>13, <1>14, <1>15, <1>16, <1>17, <1>18
Same(q) == Got(q)' = Got(q) /\ Have(q)' = Have(q) /\ Ended(q)' = Ended(q) /\ Sent(q)' = Sent(q)

(* The actions count as their names say.                                   *)
LEMMA SenderCounts ==
  ASSUME Control
  PROVE  /\ Sent(0) \in Nat
         /\ Fill \/ Reuse \/ Drain \/ Broadcast => Sent(0)' = Sent(0)
         /\ Send => Sent(0)' = Sent(0) + 1 /\ Sent(0)' = node[0].at
         /\ NextUpdate => Sent(0)' = 0 /\ Sent(0) = N
<1>1. node[0].at \in 1 .. N /\ N \in Nat /\ SenderInv
  BY ControlFacts DEF Control
<1>2. Fill => Sent(0)' = Sent(0)
  BY SenderMoves DEF Fill, Goes, Sent
<1>3. Reuse => Sent(0)' = Sent(0)
  BY SenderMoves DEF Reuse, Goes, Sent
<1>4. Drain => Sent(0)' = Sent(0)
  BY SenderMoves DEF Drain, Goes, Sent
<1>5. Broadcast => Sent(0)' = Sent(0)
  BY BroadcastMoves DEF Sent
<1>6. ASSUME Send PROVE Sent(0)' = Sent(0) + 1 /\ Sent(0)' = node[0].at
  <2>1. node[0].pc = "send"
    BY <1>6 DEF Send
  <2>2. CASE IsLast(node[0].at)
    BY <1>1, <1>6, <2>1, <2>2, SenderMoves DEF Goes, Sent
  <2>3. CASE ~IsLast(node[0].at)
    <3>1. node'[0].pc \in {"reuse", "fill"} /\ node'[0].at = node[0].at + 1
      BY <1>6, <2>3, SenderMoves DEF Goes
    <3> QED BY <1>1, <2>1, <3>1 DEF Sent
  <2> QED BY <2>2, <2>3
<1>7. ASSUME NextUpdate PROVE Sent(0)' = 0 /\ Sent(0) = N
  <2>1. node'[0].pc = "fill" /\ node'[0].at = 1 /\ node[0].pc = "done"
    BY <1>7, NextMoves DEF Goes
  <2>2. node[0].at = N
    BY <1>1, <2>1 DEF SenderInv
  <2> QED BY <2>1, <2>2 DEF Sent
<1>8. Sent(0) \in Nat
  BY <1>1 DEF Sent
<1> QED BY <1>2, <1>3, <1>4, <1>5, <1>6, <1>7, <1>8

(* A receiver has read what it passed on, and passed on what it has done   *)
(* with.                                                                   *)
LEMMA CountTypes ==
  ASSUME Control, NEW r \in 1 .. Receivers
  PROVE  /\ Got(r) \in Nat /\ Have(r) \in Nat /\ Ended(r) \in Nat /\ Sent(r) \in Nat
         /\ Have(r) <= Got(r) /\ Ended(r) <= Have(r) /\ Ended(r) <= Sent(r) /\ Sent(r) <= Have(r)
<1>1. node[r].at \in Nat /\ ReceiverAt(r)
  BY ControlFacts
<1> QED BY <1>1 DEF Got, Have, Ended, Sent, ReceiverAt

(* How the steps of a receiver change its counts.                          *)
LEMMA ReceiverCounts ==
  ASSUME Control, NEW r \in 1 .. Receivers
  PROVE  /\ ReadMetadata(r) =>
              Got(r)' = Got(r) + 1 /\ Have(r)' = Have(r) /\ Ended(r)' = Ended(r) /\ Sent(r)' = Sent(r)
         /\ Read(r) \/ Broadcast =>
              Got(r)' = Got(r) /\ Have(r)' = Have(r) + 1 /\ Ended(r)' = Ended(r) /\ Sent(r)' = Sent(r)
         /\ Forward(r) =>
              Got(r)' = Got(r) /\ Have(r)' = Have(r) /\ Ended(r)' = Ended(r) /\ Sent(r)' = Sent(r) + 1
         /\ YieldEnd(r) =>
              Got(r)' = Got(r) /\ Have(r)' = Have(r) /\ Ended(r)' = Ended(r) + 1 /\ Sent(r)' = Sent(r)
         /\ Received(r) \/ Yield(r) \/ FinalFlush(r) => Same(r)
         /\ NextUpdate =>
              /\ Got(r)' = 0 /\ Have(r)' = 0 /\ Ended(r)' = 0 /\ Sent(r)' = 0
              /\ Got(r) = N /\ Sent(r) = N
<1>1. node[r].at \in Nat /\ ReceiverAt(r)
  BY ControlFacts
<1>2. ASSUME ReadMetadata(r)
      PROVE  Got(r)' = Got(r) + 1 /\ Have(r)' = Have(r) /\ Ended(r)' = Ended(r) /\ Sent(r)' = Sent(r)
  <2>1. node[r].op = "open" /\ node'[r].op = "meta" /\ node'[r].pc = node[r].pc /\ node'[r].at = node[r].at
    BY <1>2, ReceiverMoves DEF ReadMetadata, Goes
  <2> QED BY <1>1, <2>1 DEF Got, Have, Ended, Sent
<1>3. ASSUME Read(r) \/ Broadcast
      PROVE  Got(r)' = Got(r) /\ Have(r)' = Have(r) + 1 /\ Ended(r)' = Ended(r) /\ Sent(r)' = Sent(r)
  <2>1. node[r].op = "meta"
    BY <1>3 DEF Read, Broadcast
  <2>2. node'[r].op = "done" /\ node'[r].pc = node[r].pc /\ node'[r].at = node[r].at
    BY <1>3, ReceiverMoves, BroadcastMoves DEF Goes
  <2> QED BY <1>1, <2>1, <2>2 DEF Got, Have, Ended, Sent
<1>4. ASSUME Forward(r)
      PROVE  Got(r)' = Got(r) /\ Have(r)' = Have(r) /\ Ended(r)' = Ended(r) /\ Sent(r)' = Sent(r) + 1
  <2>1. node[r].pc = "forward" /\ node[r].op = "none"
    BY <1>1, <1>4 DEF Forward, ReceiverAt
  <2>2. node'[r].op \in {"none", "open"} /\ node'[r].pc = "yield" /\ node'[r].at = node[r].at
    BY <1>4, ReceiverMoves DEF Goes
  <2> QED BY <1>1, <2>1, <2>2 DEF Got, Have, Ended, Sent
<1>5. ASSUME YieldEnd(r)
      PROVE  Got(r)' = Got(r) /\ Have(r)' = Have(r) /\ Ended(r)' = Ended(r) + 1 /\ Sent(r)' = Sent(r)
  <2>1. node[r].pc = "yield"
    BY <1>5, EndMoves
  <2>2. CASE /\ IsLast(node[r].at) /\ Goes(r, "flush", node[r].at, node[r].slot)
             /\ node'[r].op = (IF Mooncake THEN "none" ELSE node[r].op)
    <3>1. node[r].op = "none"
      BY <1>1, <2>1, <2>2 DEF ReceiverAt, IsLast, N
    <3> QED BY <1>1, <2>1, <2>2, <3>1 DEF Got, Have, Ended, Sent, Goes
  <2>3. CASE /\ Mooncake /\ Goes(r, "receive", node[r].at, node[r].slot)
             /\ node'[r].op = "open"
    <3>1. node[r].op = "none"
      BY <1>1, <2>1, <2>3 DEF ReceiverAt
    <3> QED BY <1>1, <2>1, <2>3, <3>1 DEF Got, Have, Ended, Sent, Goes
  <2>4. CASE /\ node[r].op = "done"
             /\ Goes(r, "forward", node[r].from[1], 1 - node[r].slot) /\ node'[r].op = "none"
    <3>1. node[r].from[1] = node[r].at + 1
      BY <1>1, <2>4 DEF ReceiverAt
    <3> QED BY <1>1, <2>1, <2>4, <3>1 DEF Got, Have, Ended, Sent, Goes
  <2> QED BY <1>5, <2>2, <2>3, <2>4, EndMoves
<1>6. ASSUME Received(r) PROVE Same(r)
  <2>1. node[r].pc = "receive" /\ node[r].op = "done"
    BY <1>6 DEF Received
  <2>2. node[r].from[1] = node[r].at + 1
    BY <1>1, <2>1 DEF ReceiverAt
  <2>3. node'[r].op = "none" /\ node'[r].pc = "forward" /\ node'[r].at = node[r].at + 1
    BY <1>6, <2>2, ReceiverMoves DEF Goes
  <2> QED BY <1>1, <2>1, <2>3 DEF Got, Have, Ended, Sent, Same
<1>7. ASSUME Yield(r) PROVE Same(r)
  <2>1. node'[r].op = node[r].op /\ node'[r].pc = node[r].pc /\ node'[r].at = node[r].at
    BY <1>7, ReceiverMoves DEF Goes
  <2> QED BY <2>1 DEF Got, Have, Ended, Sent, Same
<1>8. ASSUME FinalFlush(r) PROVE Same(r)
  <2>1. node[r].pc = "flush"
    BY <1>8 DEF FinalFlush
  <2>2. node'[r].op = node[r].op /\ node'[r].pc = "done" /\ node'[r].at = node[r].at
    BY <1>8, ReceiverMoves DEF Goes
  <2> QED BY <2>1, <2>2 DEF Got, Have, Ended, Sent, Same
<1>9. ASSUME NextUpdate
      PROVE  /\ Got(r)' = 0 /\ Have(r)' = 0 /\ Ended(r)' = 0 /\ Sent(r)' = 0
             /\ Got(r) = N /\ Sent(r) = N
  <2>1. node'[r].op = "open" /\ node'[r].pc = "receive" /\ node'[r].at = 0 /\ node[r].pc = "done"
    BY <1>9, NextMoves DEF Goes
  <2>2. node[r].op = "none" /\ node[r].at = N
    BY <1>1, <2>1 DEF ReceiverAt
  <2> QED BY <2>1, <2>2 DEF Got, Have, Ended, Sent
<1> QED BY <1>2, <1>3, <1>4, <1>5, <1>6, <1>7, <1>8, <1>9

(* The counts of a rank that does not move stay as they are.               *)
LEMMA OthersCount ==
  ASSUME Control, NEW q \in Ranks
  PROVE  /\ node'[q] = node[q] => Same(q)
         /\ Still => Same(q)
         /\ \A r \in Ranks \ {q} : Rest(r) => Same(q)
<1>1. node'[q] = node[q] => Same(q)
  BY DEF Same, Got, Have, Ended, Sent
<1> QED BY <1>1 DEF Still, Rest

(* A count changes by its own action only, and begins anew.                *)
LEMMA CountChanges ==
  ASSUME Control, [Next]_vars, NEW q \in Ranks
  PROVE  /\ Sent(q)' = Sent(q) \/ (Send /\ q = 0) \/ (Forward(q) /\ q # 0) \/ NextUpdate
         /\ q # 0 => /\ Got(q)' = Got(q) \/ ReadMetadata(q) \/ NextUpdate
                     /\ Have(q)' = Have(q) \/ Read(q) \/ Broadcast \/ NextUpdate
                     /\ Ended(q)' = Ended(q) \/ YieldEnd(q) \/ NextUpdate
<1>1. q # 0 => q \in 1 .. Receivers
  BY ControlFacts
<1>2. 0 \in Ranks /\ \A r \in 1 .. Receivers : r \in Ranks /\ r # 0
  BY ControlFacts
<1>3. CASE Fill \/ Send \/ Reuse \/ Drain
  <2>1. Rest(0)
    BY <1>3, SenderMoves
  <2>2. q # 0 => Same(q)
    BY <1>2, <2>1, OthersCount
  <2>3. q = 0 => Sent(q)' = Sent(q) \/ (Send /\ q = 0)
    BY <1>3, SenderCounts
  <2> QED BY <2>2, <2>3 DEF Same
<1>4. CASE Broadcast \/ NextUpdate
  <2>1. q = 0 => Sent(q)' = Sent(q) \/ NextUpdate
    BY <1>4, SenderCounts
  <2>2. q # 0 /\ Broadcast => Got(q)' = Got(q) /\ Ended(q)' = Ended(q) /\ Sent(q)' = Sent(q)
    BY <1>1, ReceiverCounts
  <2> QED BY <1>4, <2>1, <2>2
<1>5. CASE Still
  BY <1>5, OthersCount DEF Same
<1>6. ASSUME NEW r \in 1 .. Receivers, r # q,
             \/ ReadMetadata(r) \/ Read(r) \/ Received(r) \/ Forward(r)
             \/ Yield(r) \/ YieldEnd(r) \/ FinalFlush(r)
      PROVE  Same(q)
  <2>1. Rest(r)
    BY <1>6, ReceiverMoves, EndMoves
  <2> QED BY <1>2, <1>6, <2>1, OthersCount
<1>7. ASSUME q \in 1 .. Receivers,
             \/ ReadMetadata(q) \/ Read(q) \/ Received(q) \/ Forward(q)
             \/ Yield(q) \/ YieldEnd(q) \/ FinalFlush(q)
      PROVE  /\ Sent(q)' = Sent(q) \/ Forward(q)
             /\ Got(q)' = Got(q) \/ ReadMetadata(q)
             /\ Have(q)' = Have(q) \/ Read(q)
             /\ Ended(q)' = Ended(q) \/ YieldEnd(q)
  BY <1>7, ReceiverCounts DEF Same
<1> QED BY Cases, <1>2, <1>3, <1>4, <1>5, <1>6, <1>7 DEF Same

(* The rank a receiver reads from.                                         *)
LEMMA UpRule ==
  ASSUME Control, [Next]_vars, NEW q \in 1 .. Receivers
  PROVE  /\ Up(q) \in Ranks /\ Up(q) # q /\ Up(q)' = Up(q)
         /\ Up(q) # 0 => Chain /\ Up(q) = q - 1 /\ Up(q) \in 1 .. Receivers
         /\ Chain => Up(q) = q - 1
         /\ ~Chain => Up(q) = 0
<1>1. Ranks = 0 .. Receivers /\ Receivers \in Nat
  BY ControlFacts
<1>2. Chain' <=> Chain
  BY ConfigStep
<1> QED BY <1>1, <1>2 DEF Up

(* A link whose two ends count the same as before is right as before.      *)
LEMMA LinkFrame ==
  ASSUME Control, [Next]_vars, NEW q \in 1 .. Receivers,
         inbox'[q] = inbox[q], Got(q)' = Got(q), node'[q].op = "meta" <=> node[q].op = "meta",
         Sent(Up(q))' = Sent(Up(q)), Up(q) \in unread' <=> Up(q) \in unread
  PROVE  LinkAt(q)'
<1>1. LinkAt(q) /\ Up(q)' = Up(q) /\ (Mooncake' <=> Mooncake) /\ (Chain' <=> Chain)
  BY ConfigStep, UpRule, ControlFacts
<1> QED BY <1>1 DEF LinkAt

(* What a message adds.                                                    *)
LEMMA PostLink ==
  ASSUME Control, [Next]_vars, NEW q \in 1 .. Receivers, NEW k \in Nat,
         Up(q) \notin unread, Sent(Up(q)) \in Nat, Sent(Up(q)) + 1 = k, Sent(Up(q))' = k,
         Got(q)' = Got(q), node'[q].op = node[q].op,
         inbox'[q] = (IF Chain \/ q \in joined THEN Append(inbox[q], <<k, Slot(k)>>) ELSE inbox[q]),
         unread' = IF Mooncake THEN unread ELSE unread \cup {Up(q)}
  PROVE  LinkAt(q)'
<1>1. LinkAt(q) /\ Up(q)' = Up(q) /\ (Mooncake' <=> Mooncake) /\ (Chain' <=> Chain)
  BY ConfigStep, UpRule, ControlFacts
<1>2. q \in Ranks /\ inbox[q] \in Seq((1 .. N) \X {0, 1}) /\ Got(q) \in Nat
  BY ControlFacts, CountTypes DEF Control, TypeInv
<1>3. PICK g, s, n \in Nat : g = Got(q) /\ s = Sent(Up(q)) /\ n = Len(inbox[q])
  BY <1>2
<1>4. Got(q)' = g /\ Sent(Up(q))' = s + 1 /\ k = s + 1
  BY <1>3
<1>5. g + n <= s /\ (Chain => g + n = s) /\ \A j \in 1 .. n : inbox[q][j] = <<g + j, Slot(g + j)>>
  BY <1>1, <1>3 DEF LinkAt
<1>6. ~Mooncake => g = s /\ node[q].op # "meta"
  BY <1>1, <1>3 DEF LinkAt
<1>7. ~Chain => n = 0 /\ ~Mooncake
  BY <1>5, <1>6 DEF Mooncake, Chain
<1>8. CASE Chain \/ q \in joined
  <2>1. inbox'[q] = Append(inbox[q], <<k, Slot(k)>>)
    BY <1>8
  <2>2. Len(inbox'[q]) = n + 1 /\ inbox'[q][n + 1] = <<k, Slot(k)>> /\ \A j \in 1 .. n : inbox'[q][j] = inbox[q][j]
    BY <1>2, <1>3, <2>1
  <2>3. g + n = s
    BY <1>5, <1>6, <1>7
  <2>4. ASSUME NEW j \in 1 .. n + 1 PROVE inbox'[q][j] = <<g + j, Slot(g + j)>>
    <3>1. CASE j = n + 1
      <4>1. g + j = k
        BY <1>4, <2>3, <3>1
      <4> QED BY <2>2, <3>1, <4>1
    <3>2. CASE j \in 1 .. n
      BY <3>2, <2>2, <1>5
    <3> QED BY <3>1, <3>2, <1>3
  <2>5. g + (n + 1) = s + 1
    BY <2>3
  <2>6. ~Mooncake => Up(q) \in unread' /\ g = (s + 1) - 1 /\ node'[q].op # "meta"
    BY <1>6
  <2>7. \A j \in 1 .. Len(inbox'[q]) : inbox'[q][j] = <<Got(q)' + j, Slot(Got(q)' + j)>>
    BY <1>4, <2>2, <2>4
  <2>8. Got(q)' + Len(inbox'[q]) = Sent(Up(q))' /\ Got(q)' + Len(inbox'[q]) <= Sent(Up(q))'
    BY <1>3, <1>4, <2>2, <2>5
  <2>9. ~Mooncake => Got(q)' = Sent(Up(q))' - 1
    BY <1>4, <2>6
  <2> HIDE DEF LinkAt
  <2>10. /\ (~Mooncake /\ Up(q) \notin unread' => node'[q].op # "meta" /\ Got(q)' = Sent(Up(q))')
         /\ (~Mooncake /\ Up(q) \in unread' =>
              Got(q)' = IF node'[q].op = "meta" THEN Sent(Up(q))' ELSE Sent(Up(q))' - 1)
    BY <2>6, <2>9
  <2> QED BY <1>1, <2>7, <2>8, <2>10 DEF LinkAt
<1>9. CASE ~(Chain \/ q \in joined)
  <2>1. inbox'[q] = inbox[q] /\ Len(inbox'[q]) = 0
    BY <1>9, <1>3, <1>7
  <2>2. ~Mooncake /\ Up(q) \in unread' /\ g = (s + 1) - 1 /\ node'[q].op # "meta" /\ g + 0 <= s + 1
    BY <1>6, <1>7, <1>9, <1>5
  <2> QED BY <1>1, <1>4, <1>9, <2>1, <2>2 DEF LinkAt
<1> QED BY <1>8, <1>9

(* Where messages come from.                                               *)
LEMMA MessageChanges ==
  ASSUME Control, [Next]_vars, NEW q \in 1 .. Receivers
  PROVE  /\ inbox'[q] = inbox[q] \/ ReadMetadata(q) \/ Send
              \/ (\E r \in 1 .. Receivers : Forward(r) /\ Forwards(r))
         /\ (Up(q) \in unread' <=> Up(q) \in unread) \/ Broadcast \/ Read(q)
              \/ (Send /\ Up(q) = 0) \/ (Up(q) # 0 /\ Forward(Up(q)) /\ Forwards(Up(q)))
         /\ (node'[q].op = "meta" <=> node[q].op = "meta")
              \/ ReadMetadata(q) \/ Read(q) \/ Broadcast \/ NextUpdate
<1>1. /\ q \in Ranks /\ q # 0 /\ 0 \in Ranks /\ ReceiverAt(q) /\ Up(q) \in Ranks
      /\ \A r \in 1 .. Receivers : r \in Ranks /\ r # 0
      /\ inbox \in [Ranks -> Seq((1 .. N) \X {0, 1})]
  BY ControlFacts, UpRule DEF Control, TypeInv
<1>2. inbox'[q] = inbox[q] \/ ReadMetadata(q) \/ Send
        \/ (\E r \in 1 .. Receivers : Forward(r) /\ Forwards(r))
  <2>1. ASSUME NEW r \in 1 .. Receivers, r # q, ReadMetadata(r)
        PROVE  inbox'[q] = inbox[q]
    BY <1>1, <2>1 DEF ReadMetadata
  <2>2. CASE Fill \/ Reuse \/ Drain \/ Broadcast \/ NextUpdate \/ Still
    BY <2>2 DEF Fill, Reuse, Drain, Broadcast, NextUpdate, Still
  <2>3. ASSUME NEW r \in 1 .. Receivers,
               \/ Read(r) \/ Received(r) \/ Yield(r) \/ YieldEnd(r) \/ FinalFlush(r)
               \/ (Forward(r) /\ ~Forwards(r))
        PROVE  inbox'[q] = inbox[q]
    BY <2>3 DEF Read, Received, Yield, YieldEnd, FinalFlush, Forward
  <2> QED BY Cases, <2>1, <2>2, <2>3
<1>3. (Up(q) \in unread' <=> Up(q) \in unread) \/ Broadcast \/ Read(q)
        \/ (Send /\ Up(q) = 0) \/ (Up(q) # 0 /\ Forward(Up(q)) /\ Forwards(Up(q)))
  <2>1. CASE Send
    BY <2>1 DEF Send, Post
  <2>2. ASSUME NEW r \in 1 .. Receivers, Forward(r)
        PROVE  (Up(q) \in unread' <=> Up(q) \in unread) \/ (Up(q) = r /\ Forwards(r))
    BY <2>2 DEF Forward, Post
  <2>3. ASSUME NEW r \in 1 .. Receivers, r # q, Read(r)
        PROVE  Up(q) \in unread' <=> Up(q) \in unread
    <3>1. Up(q) = q - 1 /\ unread' = unread \ {r - 1}
      BY <2>3, UpRule DEF Read
    <3>2. q - 1 # r - 1
      BY <2>3
    <3> QED BY <3>1, <3>2
  <2>4. CASE Fill \/ Reuse \/ Drain \/ NextUpdate \/ Still
    BY <2>4 DEF Fill, Reuse, Drain, NextUpdate, Still
  <2>5. ASSUME NEW r \in 1 .. Receivers,
               \/ ReadMetadata(r) \/ Received(r) \/ Yield(r) \/ YieldEnd(r) \/ FinalFlush(r)
        PROVE  unread' = unread
    BY <2>5 DEF ReadMetadata, Received, Yield, YieldEnd, FinalFlush
  <2> QED BY Cases, <1>1, <2>1, <2>2, <2>3, <2>4, <2>5
<1>4. (node'[q].op = "meta" <=> node[q].op = "meta")
        \/ ReadMetadata(q) \/ Read(q) \/ Broadcast \/ NextUpdate
  <2>1. CASE node'[q] = node[q]
    BY <2>1
  <2>2. CASE Received(q) \/ Forward(q)
    <3>1. node[q].op # "meta" /\ node'[q].op # "meta"
      BY <1>1, <2>2, ReceiverMoves DEF Received, Forward, ReceiverAt
    <3> QED BY <3>1
  <2>3. CASE Yield(q) \/ FinalFlush(q)
    BY <2>3, ReceiverMoves
  <2>4. CASE YieldEnd(q)
    <3>1. node[q].pc = "yield" /\ (node[q].op = "none" <=> Mooncake \/ IsLast(node[q].at))
      BY <1>1, <2>4, EndMoves DEF ReceiverAt, IsLast, N
    <3> QED BY <2>4, <3>1, EndMoves
  <2>5. CASE Fill \/ Send \/ Reuse \/ Drain
    <3>1. Rest(0)
      BY <2>5, SenderMoves
    <3> QED BY <1>1, <2>1, <3>1 DEF Rest
  <2>6. CASE Still
    BY <2>1, <2>6 DEF Still
  <2>7. ASSUME NEW r \in 1 .. Receivers, r # q,
               \/ ReadMetadata(r) \/ Read(r) \/ Received(r) \/ Forward(r)
               \/ Yield(r) \/ YieldEnd(r) \/ FinalFlush(r)
        PROVE  node'[q] = node[q]
    <3>1. Rest(r)
      BY <2>7, ReceiverMoves, EndMoves
    <3> QED BY <1>1, <2>7, <3>1 DEF Rest
  <2> QED BY Cases, <2>1, <2>2, <2>3, <2>4, <2>5, <2>6, <2>7
<1> QED BY <1>2, <1>3, <1>4

(* Every step keeps what is on its way in order.                           *)
LEMMA LinkStep ==
  ASSUME Control, [Next]_vars, NEW q \in 1 .. Receivers
  PROVE  LinkAt(q)'
<1>1. /\ q \in Ranks /\ q # 0 /\ 0 \in Ranks /\ ReceiverAt(q) /\ LinkAt(q)
      /\ \A r \in 1 .. Receivers : r \in Ranks /\ r # 0
      /\ inbox \in [Ranks -> Seq((1 .. N) \X {0, 1})] /\ inbox[q] \in Seq((1 .. N) \X {0, 1})
      /\ N \in Nat /\ Receivers \in Nat
  BY ControlFacts DEF Control, TypeInv
<1>2. /\ Up(q) \in Ranks /\ Up(q) # q /\ Up(q)' = Up(q)
      /\ Up(q) # 0 => Chain /\ Up(q) = q - 1 /\ Up(q) \in 1 .. Receivers
      /\ Chain => Up(q) = q - 1
      /\ ~Chain => Up(q) = 0
      /\ (Mooncake' <=> Mooncake) /\ (Chain' <=> Chain) /\ (Mooncake => Chain)
  BY UpRule, ConfigStep DEF Mooncake, Chain
<1>3. Got(q) \in Nat /\ Sent(Up(q)) \in Nat
  BY <1>2, CountTypes, SenderCounts
<1>4. Sent(Up(q))' = Sent(Up(q)) \/ (Send /\ Up(q) = 0) \/ (Forward(Up(q)) /\ Up(q) # 0) \/ NextUpdate
  BY <1>2, CountChanges
<1>5. Got(q)' = Got(q) \/ ReadMetadata(q) \/ NextUpdate
  BY <1>1, CountChanges
<1>6. CASE Send /\ Up(q) = 0
  <2>1. Sent(0)' = Sent(0) + 1 /\ Sent(0)' = node[0].at /\ Rest(0) /\ node[0].slot = Slot(node[0].at)
    BY <1>6, SenderCounts, SenderMoves DEF Control, SenderInv
  <2>2. node'[q] = node[q] /\ Got(q)' = Got(q)
    BY <1>1, <2>1, OthersCount DEF Rest, Same
  <2>3. Post(0, node[0].at, node[0].slot) /\ 0 \notin unread
    BY <1>6 DEF Send
  <2>4. Chain <=> Chain /\ q = 0 + 1
    BY <1>2, <1>6
  <2>5. inbox'[q] = (IF Chain \/ q \in joined THEN Append(inbox[q], <<node[0].at, Slot(node[0].at)>>) ELSE inbox[q])
        /\ unread' = IF Mooncake THEN unread ELSE unread \cup {Up(q)}
    BY <1>1, <1>2, <1>6, <2>1, <2>3, <2>4, CountTypes DEF Post
  <2>6. node[0].at \in Nat
    BY <1>1, ControlFacts
  <2>7. Sent(Up(q))' = Sent(0)' /\ Sent(Up(q)) = Sent(0)
    BY <1>2, <1>6 DEF Sent
  <2>8. PICK k \in Nat : k = node[0].at
    BY <2>6
  <2>9. Up(q) \notin unread /\ Sent(Up(q)) + 1 = k /\ Sent(Up(q))' = k
    BY <1>6, <2>1, <2>3, <2>7, <2>8
  <2>10. inbox'[q] = (IF Chain \/ q \in joined THEN Append(inbox[q], <<k, Slot(k)>>) ELSE inbox[q])
         /\ unread' = IF Mooncake THEN unread ELSE unread \cup {Up(q)}
    BY <2>5, <2>8
  <2> QED BY <1>3, <2>2, <2>9, <2>10, PostLink
<1>7. CASE Up(q) # 0 /\ Forward(Up(q))
  <2>1. PICK r \in 1 .. Receivers : r = Up(q) /\ r = q - 1 /\ Chain /\ Forwards(r) /\ Forward(r)
    BY <1>1, <1>2, <1>7 DEF Forwards
  <2>2. Sent(r)' = Sent(r) + 1 /\ Rest(r) /\ ReceiverAt(r)
    BY <2>1, ReceiverCounts, ReceiverMoves, ControlFacts
  <2>3. node'[q] = node[q] /\ Got(q)' = Got(q)
    BY <1>1, <1>2, <2>1, <2>2, OthersCount DEF Rest, Same
  <2>4. Post(r, node[r].at, 1 - node[r].slot) /\ node[r].pc = "forward"
    BY <2>1 DEF Forward
  <2>5. node[r].at \in Nat /\ node[r].at >= 1 /\ node[r].slot = node[r].at % 2 /\ r \notin unread
        /\ Sent(r) = node[r].at - 1
    <3>1. node[r].at \in Nat
      BY <1>1, <2>1, ControlFacts
    <3> QED BY <3>1, <2>2, <2>4 DEF ReceiverAt, Sent
  <2>6. 1 - node[r].slot = Slot(node[r].at) /\ Sent(r) + 1 = node[r].at /\ Sent(r) \in Nat
    <3>1. node[r].at \in Nat \ {0}
      BY <2>5
    <3>2. node[r].at % 2 = Slot(node[r].at + 1) /\ Slot(node[r].at + 1) = 1 - Slot(node[r].at)
          /\ Slot(node[r].at) \in {0, 1}
      BY <3>1, Parity
    <3> QED BY <3>1, <3>2, <2>5
  <2>7. PICK k \in Nat : k = node[r].at
    BY <2>5
  <2>8. inbox'[q] = Append(inbox[q], <<k, Slot(k)>>)
        /\ unread' = IF Mooncake THEN unread ELSE unread \cup {Up(q)}
    <3>1. q = r + 1
      BY <2>1
    <3> QED BY <1>1, <2>1, <2>4, <2>6, <2>7, <3>1 DEF Post
  <2>9. Sent(Up(q))' = Sent(r)' /\ Sent(Up(q)) = Sent(r)
    BY <1>2, <2>1 DEF Sent
  <2>10. Up(q) \notin unread /\ Sent(Up(q)) + 1 = k /\ Sent(Up(q))' = k
    BY <2>1, <2>2, <2>5, <2>6, <2>7, <2>9
  <2>11. node'[q].op = node[q].op
         /\ inbox'[q] = (IF Chain \/ q \in joined THEN Append(inbox[q], <<k, Slot(k)>>) ELSE inbox[q])
    BY <2>1, <2>3, <2>8
  <2> QED BY <1>3, <2>3, <2>8, <2>10, <2>11, PostLink
<1>8. CASE ReadMetadata(q)
  <2>1. /\ node[q].op = "open" /\ node'[q].op = "meta" /\ inbox[q] # <<>> /\ inbox'[q] = Tail(inbox[q])
        /\ Rest(q) /\ Got(q)' = Got(q) + 1 /\ unread' = unread
    BY <1>1, <1>8, ReceiverMoves, ReceiverCounts DEF ReadMetadata
  <2>2. Sent(Up(q))' = Sent(Up(q))
    BY <1>1, <1>2, <2>1, OthersCount DEF Same
  <2>3. PICK g, s, n \in Nat : g = Got(q) /\ s = Sent(Up(q)) /\ n = Len(inbox[q])
    BY <1>1, <1>3
  <2>4. /\ n >= 1 /\ Len(Tail(inbox[q])) = n - 1 /\ \A j \in 1 .. n - 1 : Tail(inbox[q])[j] = inbox[q][j + 1]
    BY <1>1, <2>1, <2>3
  <2>5. g + n <= s /\ (Chain => g + n = s) /\ \A j \in 1 .. n : inbox[q][j] = <<g + j, Slot(g + j)>>
    BY <1>1, <2>3 DEF LinkAt
  <2>6. ~Mooncake => Up(q) \in unread /\ g = s - 1
    BY <1>1, <2>1, <2>3, <2>4, <2>5 DEF LinkAt
  <2>7. \A j \in 1 .. Len(inbox'[q]) : inbox'[q][j] = <<Got(q)' + j, Slot(Got(q)' + j)>>
    <3> TAKE j \in 1 .. Len(inbox'[q])
    <3>0. Len(inbox'[q]) = n - 1
      BY <2>1, <2>4
    <3>1. j \in 1 .. n - 1 /\ j + 1 \in 1 .. n /\ g + (j + 1) = (g + 1) + j
      BY <3>0, <2>3
    <3> QED BY <3>1, <2>1, <2>3, <2>4, <2>5
  <2>8. Got(q)' + Len(inbox'[q]) <= Sent(Up(q))' /\ (Chain => Got(q)' + Len(inbox'[q]) = Sent(Up(q))')
    BY <2>1, <2>2, <2>3, <2>4, <2>5
  <2>9. ~Mooncake => Up(q) \in unread' /\ Got(q)' = Sent(Up(q))'
    BY <2>1, <2>2, <2>3, <2>6
  <2> QED BY <1>2, <2>1, <2>7, <2>8, <2>9 DEF LinkAt
<1>9. CASE Read(q) \/ Broadcast
  <2>1. /\ node[q].op = "meta" /\ node'[q].op = "done" /\ inbox'[q] = inbox[q] /\ Got(q)' = Got(q)
        /\ (Up(q) \in unread' => Mooncake)
    <3>1. node[q].op = "meta" /\ inbox'[q] = inbox[q]
      BY <1>9 DEF Read, Broadcast
    <3>2. node'[q].op = "done" /\ Got(q)' = Got(q)
      BY <1>9, ReceiverMoves, ReceiverCounts, BroadcastMoves
    <3>3. Up(q) \notin unread'
      BY <1>2, <1>9 DEF Read, Broadcast
    <3> QED BY <3>1, <3>2, <3>3
  <2>2. Sent(Up(q))' = Sent(Up(q))
    <3>1. CASE Broadcast
      <4>1. Up(q) = 0 /\ Up(q)' = 0
        BY <1>2, <3>1 DEF Broadcast
      <4>2. Sent(Up(q))' = Sent(0)' /\ Sent(Up(q)) = Sent(0)
        BY <4>1 DEF Sent
      <4> QED BY <3>1, <4>2, SenderCounts
    <3>2. CASE Read(q)
      <4>1. Rest(q)
        BY <3>2, ReceiverMoves
      <4> QED BY <1>1, <1>2, <4>1, OthersCount DEF Same
    <3> QED BY <1>9, <3>1, <3>2
  <2>3. ~Mooncake => Got(q) = Sent(Up(q))
    BY <1>1, <2>1 DEF LinkAt
  <2> QED BY <1>1, <1>2, <2>1, <2>2, <2>3 DEF LinkAt
<1>10. CASE NextUpdate
  <2>1. Got(q)' = 0 /\ Got(q) = N /\ node'[q].op = "open" /\ inbox' = inbox /\ unread' = unread
    BY <1>10, ReceiverCounts, NextMoves DEF NextUpdate
  <2>2. Sent(Up(q))' = 0 /\ Sent(Up(q)) = N
    BY <1>2, <1>10, SenderCounts, ReceiverCounts
  <2>3. Len(inbox[q]) = 0
    <3>1. Len(inbox[q]) \in Nat /\ Got(q) + Len(inbox[q]) <= Sent(Up(q))
      BY <1>1 DEF LinkAt
    <3> QED BY <1>1, <2>1, <2>2, <3>1
  <2>4. Up(q) \notin unread \/ Mooncake
    <3>1. CASE Up(q) = 0
      BY <1>10, <3>1, NextMoves DEF Control, SenderInv
    <3>2. CASE Up(q) # 0
      <4>1. ReceiverAt(Up(q)) /\ node[Up(q)].pc = "done"
        BY <1>2, <1>10, <3>2, NextMoves, ControlFacts
      <4> QED BY <4>1 DEF ReceiverAt
    <3> QED BY <3>1, <3>2
  <2> QED BY <1>2, <2>1, <2>2, <2>3, <2>4 DEF LinkAt
<1>11. CASE ~(Send /\ Up(q) = 0) /\ ~(Up(q) # 0 /\ Forward(Up(q))) /\ ~ReadMetadata(q)
            /\ ~Read(q) /\ ~Broadcast /\ ~NextUpdate
  <2>1. Sent(Up(q))' = Sent(Up(q)) /\ Got(q)' = Got(q)
    BY <1>4, <1>5, <1>11
  <2>2. /\ Up(q) \in unread' <=> Up(q) \in unread
        /\ node'[q].op = "meta" <=> node[q].op = "meta"
    BY <1>11, MessageChanges
  <2>3. inbox'[q] = inbox[q]
    <3>1. CASE Send
      <4>1. Chain /\ q - 1 # 0
        BY <1>2, <1>11, <3>1
      <4>2. Post(0, node[0].at, node[0].slot)
        BY <3>1 DEF Send
      <4>3. q # 0 + 1
        BY <4>1
      <4> QED BY <1>1, <4>1, <4>2, <4>3 DEF Post
    <3>2. ASSUME NEW r \in 1 .. Receivers, Forward(r), Forwards(r)
          PROVE  inbox'[q] = inbox[q]
      <4>1. Chain /\ Post(r, node[r].at, 1 - node[r].slot)
        BY <3>2 DEF Forward, Forwards
      <4>2. q # r + 1
        BY <1>1, <1>2, <1>11, <3>2, <4>1
      <4> QED BY <1>1, <4>1, <4>2 DEF Post
    <3> QED BY <1>11, <3>1, <3>2, MessageChanges
  <2> QED BY <2>1, <2>2, <2>3, LinkFrame
<1> QED BY <1>6, <1>7, <1>8, <1>9, <1>10, <1>11

(* Every step keeps the control invariant.                                 *)
LEMMA ControlStep ==
  ASSUME Control, [Next]_vars
  PROVE  Control'
<1>1. LinkInv'
  <2>1. \A q \in 1 .. Receivers : LinkAt(q)'
    BY LinkStep
  <2>2. (Mooncake' <=> Mooncake) /\ (Chain' <=> Chain) /\ Receivers \in Nat \ {0} /\ LinkInv
    BY ConfigStep, ControlFacts DEF Control
  <2>3. Mooncake' => unread' = {}
    <3>1. ASSUME Mooncake, NEW q \in unread' PROVE FALSE
      <4>1. q \notin unread
        BY <2>2, <3>1 DEF LinkInv
      <4> QED BY <3>1, <4>1, UnreadStep
    <3> QED BY <2>2, <3>1
  <2>4. ASSUME NEW q \in unread' PROVE \E r \in 1 .. Receivers : q = Up(r)'
    <3>1. \A r \in 1 .. Receivers : Up(r)' = Up(r)
      BY UpRule
    <3>2. CASE q \in unread
      BY <2>2, <3>1, <3>2 DEF LinkInv
    <3>3. CASE q \notin unread
      <4>1. CASE q = 0
        <5>1. 1 \in 1 .. Receivers /\ Up(1) = 0
          BY <2>2 DEF Up
        <5> QED BY <3>1, <4>1, <5>1
      <4>2. CASE q \in 1 .. Receivers /\ Forwards(q)
        <5>1. q + 1 \in 1 .. Receivers /\ Up(q + 1) = q
          BY <2>2, <4>2 DEF Up, Forwards
        <5> QED BY <3>1, <5>1
      <4> QED BY <3>3, <4>1, <4>2, UnreadStep
    <3> QED BY <3>2, <3>3
  <2> QED BY <2>1, <2>3, <2>4 DEF LinkInv
<1>2. JobInv'
  BY JobStep DEF Control
<1> QED BY <1>1, <1>2, TypeStep, SenderStep, ReceiverStep DEF Control
------------------------------------------------------------------------------

(* When rank r has a bucket to write that its buffer may not yet be free    *)
(* for, or has written one that it has not posted.                         *)
Writes(r) ==
  IF r = 0 THEN node[r].pc \in {"fill", "send"} ELSE node[r].op = "done" \/ node[r].pc = "forward"

(* What the magic of mooncake says: a signal of this update means that the *)
(* next rank has ended with every bucket that was posted from that buffer. *)
SignalAt(q) ==
  /\ \A s \in {0, 1} : signal[q - 1][s] = version =>
       /\ \A k \in 1 .. Sent(q - 1) : Slot(k) = s => k <= Ended(q)
       /\ \E k \in 1 .. Ended(q) : Slot(k) = s
  /\ Sent(q - 1) <= Ended(q) + 2
  /\ Writes(q - 1) => /\ Sent(q - 1) <= Ended(q) + 1
                      /\ signal[q - 1][Slot(Sent(q - 1) + 1)] # version

SignalInv == Mooncake /\ ~stale => \A q \in 1 .. Receivers : SignalAt(q)

(* While no wait was ended by an older signal, a wait ends by one of this  *)
(* update.                                                                 *)
LEMMA StaleStep ==
  ASSUME Control, [Next]_vars, ~stale'
  PROVE  ~stale /\ \A r \in Ranks, s \in {0, 1} : AwaitSignal(r, s) => signal[r][s] = version
<1>1. ~stale
  BY DEF Next, vars, Fill, Send, Reuse, Drain, Broadcast, NextUpdate, ReceiveWeights, Subscribe,
         ReadMetadata, Read, Received, Forward, Yield, Copy, SendLarge, YieldEnd, FinalFlush, AwaitSignal
<1> QED BY <1>1 DEF AwaitSignal

(* Only a new update changes the version.                                  *)
LEMMA VersionStep ==
  ASSUME Control, [Next]_vars
  PROVE  version' = version \/ NextUpdate
BY DEF Next, vars, Fill, Send, Reuse, Drain, Broadcast, NextUpdate, ReceiveWeights, Subscribe,
       ReadMetadata, Read, Received, Forward, Yield, Copy, SendLarge, YieldEnd, FinalFlush

(* Only the next rank sets a signal.                                       *)
LEMMA SignalChanges ==
  ASSUME Control, [Next]_vars, NEW q \in 1 .. Receivers, NEW s \in {0, 1}, signal'[q - 1][s] = version'
  PROVE  signal[q - 1][s] = version \/ (YieldEnd(q) /\ Mooncake /\ s = node[q].from[2])
<1>1. /\ q - 1 \in Ranks /\ 0 \in Ranks
      /\ signal \in [Ranks -> [{0, 1} -> 0 .. version]] /\ version \in 1 .. Updates
      /\ \A r \in 1 .. Receivers : /\ r \in Ranks /\ r - 1 \in Ranks
                                   /\ node[r].slot \in {0, 1} /\ node[r].from[2] \in {0, 1}
      /\ node[0].slot \in {0, 1}
  BY ControlFacts DEF Control, TypeInv
<1>2. signal[q - 1][s] \in 0 .. version
  BY <1>1
<1>3. CASE NextUpdate
  <2>1. signal' = signal /\ version' = version + 1 /\ version \in Nat
    BY <1>1, <1>3, TransferAssumption DEF NextUpdate
  <2> QED BY <1>2, <2>1
<1>4. ASSUME NEW r \in Ranks, NEW t \in {0, 1}, signal' = [signal EXCEPT ![r][t] = 0], version' = version
      PROVE  signal[q - 1][s] = version
  <2>1. signal'[q - 1][s] = signal[q - 1][s] \/ signal'[q - 1][s] = 0
    BY <1>1, <1>4
  <2>2. version # 0
    BY <1>1
  <2> QED BY <1>4, <2>1, <2>2
<1>5. ASSUME UNCHANGED <<signal, version>>
      PROVE  signal[q - 1][s] = version
  BY <1>5
<1>6. CASE Fill \/ Send \/ Broadcast \/ Still
  BY <1>5, <1>6 DEF Fill, Send, Broadcast, Still
<1>7. CASE Reuse \/ Drain
  BY <1>1, <1>4, <1>5, <1>7 DEF Reuse, Drain, AwaitSignal
<1>8. ASSUME NEW r \in 1 .. Receivers, Read(r)
      PROVE  signal[q - 1][s] = version
  BY <1>1, <1>4, <1>5, <1>8 DEF Read, AwaitSignal
<1>9. ASSUME NEW r \in 1 .. Receivers,
             ReadMetadata(r) \/ Received(r) \/ Forward(r) \/ Yield(r) \/ FinalFlush(r)
      PROVE  signal[q - 1][s] = version
  BY <1>5, <1>9 DEF ReadMetadata, Received, Forward, Yield, FinalFlush
<1>10. ASSUME NEW r \in 1 .. Receivers, YieldEnd(r)
       PROVE  signal[q - 1][s] = version \/ (r = q /\ Mooncake /\ s = node[q].from[2])
  <2>1. /\ version' = version
        /\ \/ signal' = signal
           \/ Mooncake /\ signal' = [signal EXCEPT ![r - 1][node[r].from[2]] = version]
    BY <1>10 DEF YieldEnd
  <2>2. r # q => r - 1 # q - 1
    OBVIOUS
  <2> QED BY <1>1, <2>1, <2>2
<1> QED BY Cases, <1>3, <1>6, <1>7, <1>8, <1>9, <1>10

(* How a rank comes to the point where it may fill its next buffer.        *)
LEMMA WritesChanges ==
  ASSUME Control, [Next]_vars, Mooncake, NEW r \in Ranks, Writes(r)'
  PROVE  \/ Writes(r) \/ NextUpdate
         \/ r = 0 /\ Send /\ node[0].at < 2 /\ node'[0].at = node[0].at + 1
         \/ r = 0 /\ Reuse
         \/ r # 0 /\ Read(r)
<1>1. /\ 0 \in Ranks /\ (r # 0 => r \in 1 .. Receivers) /\ node[0].at \in Nat
      /\ \A q \in 1 .. Receivers : q \in Ranks /\ q # 0 /\ ReceiverAt(q)
  BY ControlFacts
<1>2. CASE node'[r] = node[r]
  BY <1>2 DEF Writes
<1>3. CASE r = 0
  <2>1. CASE Fill
    BY <1>3, <2>1 DEF Fill, Writes
  <2>2. CASE Send
    <3>1. CASE IsLast(node[0].at)
      BY <1>3, <2>2, <3>1, SenderMoves DEF Goes, Writes
    <3>2. CASE ~IsLast(node[0].at)
      BY <1>1, <1>3, <2>2, <3>2, SenderMoves DEF Goes, Writes
    <3> QED BY <3>1, <3>2
  <2>3. CASE Drain
    BY <1>3, <2>3, SenderMoves DEF Goes, Writes
  <2>4. CASE Broadcast \/ Still
    BY <1>2, <1>3, <2>4, BroadcastMoves DEF Still
  <2>5. ASSUME NEW q \in 1 .. Receivers,
               \/ ReadMetadata(q) \/ Read(q) \/ Received(q) \/ Forward(q)
               \/ Yield(q) \/ YieldEnd(q) \/ FinalFlush(q)
        PROVE  node'[r] = node[r]
    <3>1. Rest(q)
      BY <2>5, ReceiverMoves, EndMoves
    <3> QED BY <1>1, <1>3, <3>1 DEF Rest
  <2> QED BY Cases, <1>2, <1>3, <2>1, <2>2, <2>3, <2>4, <2>5
<1>4. CASE r # 0
  <2>1. CASE ReadMetadata(r)
    BY <1>1, <1>4, <2>1, ReceiverMoves DEF Goes, Writes
  <2>2. CASE Received(r)
    BY <1>4, <2>2 DEF Received, Writes
  <2>3. CASE Forward(r)
    BY <1>4, <2>3 DEF Forward, Writes
  <2>4. CASE Yield(r)
    BY <1>1, <1>4, <2>4, ReceiverMoves DEF Goes, Writes
  <2>5. CASE FinalFlush(r)
    BY <1>1, <1>4, <2>5, ReceiverMoves DEF Goes, Writes
  <2>6. CASE YieldEnd(r)
    BY <1>1, <1>4, <2>6, EndMoves DEF Goes, Writes
  <2>7. CASE Fill \/ Send \/ Reuse \/ Drain
    <3>1. Rest(0)
      BY <2>7, SenderMoves
    <3> QED BY <1>2, <1>4, <3>1 DEF Rest
  <2>8. ASSUME NEW q \in 1 .. Receivers, q # r,
               \/ ReadMetadata(q) \/ Read(q) \/ Received(q) \/ Forward(q)
               \/ Yield(q) \/ YieldEnd(q) \/ FinalFlush(q)
        PROVE  node'[r] = node[r]
    <3>1. Rest(q)
      BY <2>8, ReceiverMoves, EndMoves
    <3> QED BY <2>8, <3>1 DEF Rest
  <2>9. CASE Still
    BY <1>2, <2>9 DEF Still
  <2>10. ~Broadcast
    BY DEF Broadcast, Chain, Mooncake
  <2> QED BY Cases, <1>2, <1>4, <2>1, <2>2, <2>3, <2>4, <2>5, <2>6, <2>7, <2>8, <2>9, <2>10
<1> QED BY <1>3, <1>4

(* A step that disturbs neither the counts nor the signals keeps what a    *)
(* signal means.                                                           *)
LEMMA SignalFrame ==
  ASSUME Control, [Next]_vars, NEW q \in 1 .. Receivers, SignalAt(q),
         Sent(q - 1)' = Sent(q - 1), Ended(q)' = Ended(q),
         \A s \in {0, 1} : signal'[q - 1][s] = version' => signal[q - 1][s] = version,
         Writes(q - 1)' => Writes(q - 1)
  PROVE  SignalAt(q)'
<1>1. PICK t \in Nat : t = Sent(q - 1)
  <2>1. q - 1 = 0 \/ q - 1 \in 1 .. Receivers
    BY ControlFacts
  <2> QED BY <2>1, CountTypes, SenderCounts
<1>2. Slot(t + 1) \in {0, 1}
  BY <1>1, Parity
<1>3. SignalAt(q) <=>
        /\ \A s \in {0, 1} : signal[q - 1][s] = version =>
             /\ \A k \in 1 .. t : Slot(k) = s => k <= Ended(q)
             /\ \E k \in 1 .. Ended(q) : Slot(k) = s
        /\ t <= Ended(q) + 2
        /\ Writes(q - 1) => t <= Ended(q) + 1 /\ signal[q - 1][Slot(t + 1)] # version
  BY <1>1 DEF SignalAt
<1>4. SignalAt(q)' <=>
        /\ \A s \in {0, 1} : signal'[q - 1][s] = version' =>
             /\ \A k \in 1 .. t : Slot(k) = s => k <= Ended(q)
             /\ \E k \in 1 .. Ended(q) : Slot(k) = s
        /\ t <= Ended(q) + 2
        /\ Writes(q - 1)' => t <= Ended(q) + 1 /\ signal'[q - 1][Slot(t + 1)] # version'
  BY <1>1 DEF SignalAt
<1> QED BY <1>2, <1>3, <1>4

(* Every step keeps what the signals mean.                                 *)
LEMMA SignalStep ==
  ASSUME Control, SignalInv, [Next]_vars
  PROVE  SignalInv'
<1> SUFFICES ASSUME Mooncake, ~stale', NEW q \in 1 .. Receivers
             PROVE  SignalAt(q)'
  BY ConfigStep DEF SignalInv
<1> DEFINE r == q - 1
<1>1. /\ SignalAt(q) /\ Chain /\ ~stale
      /\ r \in Ranks /\ q \in Ranks /\ q # 0 /\ r # q /\ Receivers \in Nat
      /\ (r # 0 => r \in 1 .. Receivers /\ ReceiverAt(r) /\ node[r].at \in Nat)
      /\ ReceiverAt(q) /\ LinkAt(q) /\ node[q].at \in Nat
      /\ node[0].at \in Nat \ {0} /\ version \in Nat \ {0}
  <2>1. Chain /\ ~stale
    BY StaleStep DEF Mooncake, Chain
  <2>2. SignalAt(q)
    BY <2>1 DEF SignalInv
  <2>3. /\ Receivers \in Nat /\ Ranks = 0 .. Receivers /\ N \in Nat
        /\ ReceiverAt(q) /\ LinkAt(q) /\ node[q].at \in 0 .. N /\ node[0].at \in 1 .. N
        /\ \A x \in 1 .. Receivers : ReceiverAt(x) /\ node[x].at \in 0 .. N
    <3>1. \A x \in 1 .. Receivers : x \in Ranks
      BY ControlFacts
    <3> QED BY <3>1, ControlFacts
  <2>4. /\ r \in Ranks /\ q \in Ranks /\ q # 0 /\ r # q
        /\ (r # 0 => r \in 1 .. Receivers)
    BY <2>3
  <2>5. version \in Nat \ {0}
    BY TransferAssumption DEF Control, TypeInv
  <2>6. node[0].at \in Nat \ {0} /\ node[q].at \in Nat /\ (r # 0 => ReceiverAt(r) /\ node[r].at \in Nat)
    BY <2>3, <2>4
  <2> QED BY <2>1, <2>2, <2>3, <2>4, <2>5, <2>6
<1>2. Up(q) = r /\ Up(q)' = r
  BY <1>1, UpRule
<1>3. Sent(r) \in Nat /\ Ended(q) \in Nat /\ Got(q) \in Nat /\ Ended(q) <= Got(q) /\ Got(q) <= Sent(r)
  <2>1. Sent(r) \in Nat
    BY <1>1, CountTypes, SenderCounts
  <2>2. Ended(q) \in Nat /\ Got(q) \in Nat /\ Ended(q) <= Got(q)
    BY CountTypes
  <2>3. inbox[q] \in Seq((1 .. N) \X {0, 1})
    BY <1>1 DEF Control, TypeInv
  <2>4. Len(inbox[q]) \in Nat /\ Got(q) + Len(inbox[q]) <= Sent(r)
    BY <1>1, <1>2, <2>3 DEF LinkAt
  <2> QED BY <2>1, <2>2, <2>4
<1>4. PICK t, e \in Nat : t = Sent(r) /\ e = Ended(q)
  BY <1>3
<1>5. /\ \A s \in {0, 1} : signal[r][s] = version =>
           /\ \A k \in 1 .. t : Slot(k) = s => k <= e
           /\ \E k \in 1 .. e : Slot(k) = s
      /\ t <= e + 2 /\ e <= t
      /\ Writes(r) => t <= e + 1 /\ signal[r][Slot(t + 1)] # version
  BY <1>1, <1>3, <1>4 DEF SignalAt
<1>6. \A u, f \in Nat : u = Sent(r)' /\ f = Ended(q)' /\
        (/\ \A s \in {0, 1} : signal'[r][s] = version' =>
             /\ \A k \in 1 .. u : Slot(k) = s => k <= f
             /\ \E k \in 1 .. f : Slot(k) = s
         /\ u <= f + 2
         /\ Writes(r)' => u <= f + 1 /\ signal'[r][Slot(u + 1)] # version')
        => SignalAt(q)'
  BY DEF SignalAt
<1>7. \A s \in {0, 1} : signal'[r][s] = version' => signal[r][s] = version \/ YieldEnd(q)
  BY SignalChanges
<1>8. Slot(t + 1) \in {0, 1} /\ Slot(t + 2) \in {0, 1} /\ Slot(t + 1) # Slot(t + 2)
  BY <1>4, Parity
<1> HIDE DEF r

(* Posting: the signal of the buffer is not set, so the new bucket is not  *)
(* yet ended with.                                                         *)
<1>9. ASSUME Writes(r), Sent(r)' = t + 1, Ended(q)' = e, ~YieldEnd(q),
             Writes(r)' => t = 0
      PROVE  SignalAt(q)'
  <2>1. t <= e + 1 /\ signal[r][Slot(t + 1)] # version
    BY <1>5, <1>9
  <2>2. ASSUME NEW s \in {0, 1}, signal'[r][s] = version'
        PROVE  /\ \A k \in 1 .. t + 1 : Slot(k) = s => k <= e
               /\ \E k \in 1 .. e : Slot(k) = s
    <3>1. signal[r][s] = version
      BY <1>7, <1>9, <2>2
    <3>2. s # Slot(t + 1)
      BY <2>1, <3>1
    <3>3. \A k \in 1 .. t + 1 : k = t + 1 \/ k \in 1 .. t
      BY <1>4
    <3> QED BY <1>5, <3>1, <3>2, <3>3
  <2>3. ASSUME Writes(r)' PROVE t + 1 <= e + 1 /\ signal'[r][Slot(t + 2)] # version'
    <3>1. t = 0 /\ e = 0
      BY <1>4, <1>5, <1>9, <2>3
    <3>2. signal[r][Slot(t + 2)] # version
      BY <1>5, <1>8, <3>1
    <3> QED BY <1>7, <1>8, <1>9, <3>1, <3>2
  <2>4. t + 1 \in Nat /\ t + 1 <= e + 2 /\ (t + 1) + 1 = t + 2
    BY <2>1
  <2> QED BY <1>4, <1>6, <1>9, <2>2, <2>3, <2>4

(* Waiting for the buffer to be free, or having never used it.             *)
<1>10. ASSUME Sent(r)' = t, Ended(q)' = e, version' = version, ~YieldEnd(q),
              \/ t <= 1
              \/ t >= 2 /\ signal[r][Slot(t + 1)] = version /\ signal'[r][Slot(t + 1)] = 0
       PROVE  SignalAt(q)'
  <2>1. t <= e + 1 /\ signal'[r][Slot(t + 1)] # version'
    <3>1. CASE t <= 1
      <4>1. signal[r][Slot(t + 1)] # version
        <5>1. \A k \in 1 .. e : k = 1 /\ t = 1
          BY <1>4, <1>5, <3>1
        <5>2. t = 1 => Slot(1) # Slot(t + 1)
          BY Parity
        <5> QED BY <1>5, <1>8, <5>1, <5>2
      <4> QED BY <1>4, <1>7, <1>8, <1>10, <3>1, <4>1
    <3>2. CASE t >= 2 /\ signal[r][Slot(t + 1)] = version /\ signal'[r][Slot(t + 1)] = 0
      <4>1. t - 1 \in 1 .. t /\ t - 1 \in Nat \ {0} /\ t \in Nat \ {0} /\ (t - 1) + 1 = t
        BY <1>4, <3>2
      <4>2. Slot(t - 1) = Slot(t + 1)
        <5>1. Slot(t) = 1 - Slot(t - 1) /\ Slot(t + 1) = 1 - Slot(t) /\ Slot(t - 1) \in {0, 1}
          BY <4>1, Parity
        <5> QED BY <5>1
      <4>3. t - 1 <= e
        BY <1>5, <1>8, <3>2, <4>1, <4>2
      <4> QED BY <1>1, <1>4, <1>10, <3>2, <4>3
    <3> QED BY <1>10, <3>1, <3>2
  <2>2. \A s \in {0, 1} : signal'[r][s] = version' => signal[r][s] = version
    BY <1>7, <1>10
  <2> QED BY <1>4, <1>5, <1>6, <1>10, <2>1, <2>2
<1>11. CASE r = 0 /\ Send
  <2>2. Rest(0)
    BY <1>11, SenderMoves
  <2>3. Ended(q)' = e
    BY <1>1, <1>4, <2>2, <1>11, OthersCount DEF Same
  <2>1. Writes(r) /\ Sent(r)' = t + 1 /\ ~YieldEnd(q)
    <3>1. YieldEnd(q) => Ended(q)' = Ended(q) + 1
      BY ReceiverCounts
    <3>2. Writes(r) /\ Sent(r)' = t + 1
      BY <1>4, <1>11, SenderCounts DEF Send, Writes
    <3> QED BY <1>4, <2>3, <3>1, <3>2
  <2>4. Writes(r)' => t = 0
    <3>1. Sent(0)' = node[0].at
      BY <1>11, SenderCounts
    <3>2. node[0].at = t + 1
      BY <1>11, <2>1, <3>1
    <3>3. Writes(r)' => node[0].at < 2
      <4>1. CASE IsLast(node[0].at)
        BY <1>11, <4>1, SenderMoves DEF Goes, Writes
      <4>2. CASE ~IsLast(node[0].at)
        BY <1>1, <1>11, <4>2, SenderMoves DEF Goes, Writes
      <4> QED BY <4>1, <4>2
    <3> QED BY <1>4, <3>2, <3>3
  <2> QED BY <1>9, <2>1, <2>3, <2>4
<1>12. CASE r # 0 /\ Forward(r)
  <2>1. Writes(r) /\ Sent(r)' = t + 1 /\ Rest(r)
    BY <1>1, <1>4, <1>12, ReceiverCounts, ReceiverMoves DEF Forward, Writes
  <2>2. Ended(q)' = e /\ node'[q] = node[q]
    BY <1>1, <1>4, <2>1, OthersCount DEF Same, Rest
  <2>3. ~YieldEnd(q)
    <3>1. YieldEnd(q) => Ended(q)' = Ended(q) + 1
      BY ReceiverCounts
    <3> QED BY <1>4, <2>2, <3>1
  <2>4. ~(Writes(r)')
    BY <1>1, <1>12, ReceiverMoves DEF Goes, Writes
  <2> QED BY <1>9, <2>1, <2>2, <2>3, <2>4
<1>13. CASE r = 0 /\ Reuse
  <2>0. Sent(r)' = t /\ Rest(0) /\ version' = version
    BY <1>4, <1>13, SenderCounts, SenderMoves DEF Reuse
  <2>2. Ended(q)' = e
    BY <1>1, <1>4, <1>13, <2>0, OthersCount DEF Same
  <2>1. Sent(r)' = t /\ ~YieldEnd(q) /\ version' = version
    <3>1. YieldEnd(q) => Ended(q)' = Ended(q) + 1
      BY ReceiverCounts
    <3> QED BY <1>4, <2>0, <2>2, <3>1
  <2>3. node[0].at >= 3 /\ t = node[0].at - 1 /\ node[0].slot = Slot(node[0].at)
    BY <1>4, <1>13 DEF Reuse, Sent, Control, SenderInv
  <2>4. node[0].at = t + 1 /\ t >= 2
    BY <1>1, <1>4, <2>3
  <2>5. AwaitSignal(0, Slot(t + 1))
    BY <1>13, <2>3, <2>4 DEF Reuse
  <2>6. signal[0][Slot(t + 1)] = version
    BY <1>1, <1>8, <1>13, <2>5, StaleStep
  <2>7. signal'[0][Slot(t + 1)] = 0
    BY <1>1, <1>8, <1>13, <2>5 DEF AwaitSignal, Control, TypeInv
  <2> QED BY <1>10, <1>13, <2>1, <2>2, <2>4, <2>6, <2>7
<1>14. CASE r # 0 /\ Read(r)
  <2>1. Sent(r)' = t /\ Rest(r) /\ version' = version /\ r \in 1 .. Receivers
    BY <1>1, <1>4, <1>14, ReceiverCounts, ReceiverMoves DEF Read
  <2>2. Ended(q)' = e /\ node'[q] = node[q]
    BY <1>1, <1>4, <2>1, OthersCount DEF Same, Rest
  <2>3. ~YieldEnd(q)
    <3>1. YieldEnd(q) => Ended(q)' = Ended(q) + 1
      BY ReceiverCounts
    <3> QED BY <1>4, <2>2, <3>1
  <2>4. node[r].op = "meta" /\ node[r].pc = "receive" /\ node[r].slot = node[r].at % 2
    BY <1>1, <1>14 DEF Read, ReceiverAt
  <2>5. t = node[r].at /\ node[r].slot = Slot(t + 1)
    BY <1>1, <1>4, <2>4, Parity DEF Sent
  <2>6. ASSUME t >= 2 PROVE signal[r][Slot(t + 1)] = version /\ signal'[r][Slot(t + 1)] = 0
    <3>1. r < Receivers
      BY <1>1 DEF r
    <3>2. AwaitSignal(r, Slot(t + 1))
      BY <1>14, <2>5, <2>6, <3>1 DEF Read
    <3>3. signal[r][Slot(t + 1)] = version
      BY <1>1, <1>8, <3>2, StaleStep
    <3>4. signal'[r][Slot(t + 1)] = 0
      BY <1>1, <1>8, <3>2 DEF AwaitSignal, Control, TypeInv
    <3> QED BY <3>3, <3>4
  <2>7. t <= 1 \/ t >= 2
    BY <1>4
  <2> QED BY <1>10, <2>1, <2>2, <2>3, <2>6, <2>7

(* The signal: the rank has not posted the next bucket of that buffer.     *)
<1>15. CASE YieldEnd(q)
  <2>1. /\ node[q].pc = "yield" /\ Rest(q) /\ Ended(q)' = e + 1 /\ version' = version
        /\ signal' = [signal EXCEPT ![r][node[q].from[2]] = version]
    BY <1>4, <1>15, EndMoves, ReceiverCounts DEF YieldEnd, r
  <2>2. Sent(r)' = t /\ node'[r] = node[r]
    BY <1>1, <1>4, <2>1, OthersCount DEF Same, Rest
  <2>3. node[q].at >= 1 /\ node[q].from[2] = Slot(node[q].at) /\ e = node[q].at - 1 /\ Got(q) >= node[q].at
    BY <1>1, <1>4, <2>1 DEF ReceiverAt, Ended, Got
  <2>4. PICK a \in Nat \ {0} : a = node[q].at /\ a = e + 1 /\ a <= t
    BY <1>1, <1>3, <1>4, <2>3
  <2>5. Slot(a) \in {0, 1} /\ signal'[r][Slot(a)] = version
        /\ \A s \in {0, 1} : s # Slot(a) => signal'[r][s] = signal[r][s]
    BY <1>1, <2>1, <2>3, <2>4, Parity DEF Control, TypeInv
  <2>6. ASSUME NEW s \in {0, 1}, signal'[r][s] = version'
        PROVE  /\ \A k \in 1 .. t : Slot(k) = s => k <= a
               /\ \E k \in 1 .. a : Slot(k) = s
    <3>1. CASE s = Slot(a)
      <4>1. ASSUME NEW k \in 1 .. t, Slot(k) = s, a < k PROVE FALSE
        <5>0. k \in Nat \ {0} /\ Slot(a) = Slot(k)
          BY <1>4, <3>1, <4>1
        <5>1. k \in Nat \ {0} /\ a + 2 <= k
          BY <5>0, <4>1, Parity
        <5> QED BY <1>5, <2>4, <4>1, <5>1
      <4>2. a \in 1 .. a
        BY <2>4
      <4> QED BY <1>4, <2>4, <3>1, <4>1, <4>2
    <3>2. CASE s # Slot(a)
      <4>1. signal[r][s] = version
        BY <2>1, <2>5, <2>6, <3>2
      <4>2. \A k \in 1 .. e : k \in 1 .. a
        BY <1>4, <2>4
      <4>3. \A k \in 1 .. t : k <= e => k <= a
        BY <1>4, <2>4
      <4> QED BY <1>5, <4>1, <4>2, <4>3
    <3> QED BY <3>1, <3>2
  <2>7. ASSUME Writes(r)' PROVE t <= a + 1 /\ signal'[r][Slot(t + 1)] # version'
    <3>1. Writes(r)
      BY <2>2, <2>7 DEF Writes
    <3>2. t = a
      BY <1>4, <1>5, <2>4, <3>1
    <3>3. Slot(t + 1) # Slot(a)
      BY <1>8, <2>4, <3>2, Parity
    <3> QED BY <1>5, <1>8, <2>1, <2>5, <3>1, <3>2, <3>3
  <2>8. t <= a + 2 /\ Ended(q)' = a
    BY <1>5, <2>1, <2>4
  <2> QED BY <1>4, <1>6, <2>2, <2>4, <2>6, <2>7, <2>8
<1>16. CASE NextUpdate
  <2>1. Sent(r)' = 0 /\ Ended(q)' = 0 /\ version' = version + 1 /\ signal' = signal
    BY <1>1, <1>16, SenderCounts, ReceiverCounts DEF NextUpdate
  <2>2. ASSUME NEW s \in {0, 1} PROVE signal'[r][s] # version'
    <3>1. signal[r][s] \in 0 .. version
      BY <1>1 DEF Control, TypeInv
    <3> QED BY <1>1, <2>1, <3>1
  <2>3. Slot(0 + 1) \in {0, 1}
    BY Parity
  <2> QED BY <1>6, <2>1, <2>2, <2>3
<1>17. CASE ~(r = 0 /\ Send) /\ ~(r # 0 /\ Forward(r)) /\ ~(r = 0 /\ Reuse) /\ ~(r # 0 /\ Read(r))
            /\ ~YieldEnd(q) /\ ~NextUpdate
  <2>1. Sent(r)' = Sent(r) /\ Ended(q)' = Ended(q)
    BY <1>1, <1>17, CountChanges
  <2>2. Writes(r)' => Writes(r)
    BY <1>1, <1>17, WritesChanges
  <2>3. \A s \in {0, 1} : signal'[r][s] = version' => signal[r][s] = version
    BY <1>7, <1>17
  <2> QED BY <1>1, <2>1, <2>2, <2>3, SignalFrame DEF r
<1> QED BY <1>11, <1>12, <1>13, <1>14, <1>15, <1>16, <1>17
------------------------------------------------------------------------------

(* What the buffers hold: what was posted and not yet read, what a receiver *)
(* has read and not yet swapped in, and what it works on.                  *)
BufferAt(q) ==
  /\ \A k \in Have(q) + 1 .. Sent(Up(q)) : buf[Up(q)][Slot(k)] = <<version, k>>
  /\ node[q].op = "done" => buf[q][Slot(node[q].at + 1)] = <<version, node[q].at + 1>>
  /\ node[q].at >= 1 =>
       node[q].pc = "receive" \/ buf[q][Slot(node[q].at)] = <<version, node[q].at>>
FilledRight == node[0].pc = "send" => buf[0][Slot(node[0].at)] = <<version, node[0].at>>
BufferInv == ~stale => FilledRight /\ \A q \in 1 .. Receivers : BufferAt(q)

(* A rank fills a buffer only when the next one has read what it held.     *)
LEMMA FreeToWrite ==
  ASSUME Control, SignalInv, ~stale, NEW q \in 1 .. Receivers, NEW u \in Ranks, u = Up(q),
         ~Mooncake \/ Writes(u)
  PROVE  Sent(u) <= Have(q) + 1
<1>1. Have(q) \in Nat /\ Ended(q) \in Nat /\ Ended(q) <= Have(q) /\ LinkAt(q) /\ node[q].at \in Nat
  <2>1. q \in Ranks
    BY ControlFacts
  <2> QED BY <2>1, ControlFacts, CountTypes
<1>2. Sent(u) \in Nat
  <2>1. u = 0 \/ u \in 1 .. Receivers
    BY ControlFacts
  <2> QED BY <2>1, CountTypes, SenderCounts
<1>3. CASE ~Mooncake
  <2>1. Got(q) = Sent(u) \/ Got(q) = Sent(u) - 1
    BY <1>1, <1>3 DEF LinkAt
  <2>2. node[q].op = "meta" => Got(q) = Sent(u)
    BY <1>1, <1>3 DEF LinkAt
  <2>3. (node[q].op = "meta" => Have(q) = Got(q) - 1) /\ (node[q].op # "meta" => Have(q) = Got(q))
    BY <1>1 DEF Have, Got
  <2> QED BY <1>1, <1>2, <2>1, <2>2, <2>3
<1>4. CASE Mooncake /\ Writes(u)
  <2>1. SignalAt(q) /\ u = q - 1
    BY <1>4 DEF SignalInv, Up, Mooncake, Chain
  <2>2. Sent(u) <= Ended(q) + 1
    BY <1>4, <2>1 DEF SignalAt
  <2> QED BY <1>1, <1>2, <2>2
<1> QED BY <1>3, <1>4

(* Only four actions change a buffer, and only the one in turn.            *)
LEMMA BufferChanges ==
  ASSUME Control, [Next]_vars, NEW x \in Ranks, NEW s \in {0, 1}
  PROVE  \/ buf'[x][s] = buf[x][s]
         \/ NextUpdate
         \/ x = 0 /\ Fill /\ s = node[0].slot
         \/ x # 0 /\ (Read(x) \/ Broadcast) /\ s = node[x].slot
<1>1. /\ buf \in [Ranks -> [{0, 1} -> Nat \X Nat]] /\ 0 \in Ranks /\ node[x].slot \in {0, 1}
      /\ node[0].slot \in {0, 1} /\ (x # 0 => x \in 1 .. Receivers)
      /\ \A r \in 1 .. Receivers : r \in Ranks /\ r # 0
  <2>1. buf \in [Ranks -> [{0, 1} -> Nat \X Nat]]
    BY DEF Control, TypeInv
  <2>2. /\ 0 \in Ranks /\ node[x].slot \in {0, 1} /\ node[0].slot \in {0, 1}
        /\ \A r \in 1 .. Receivers : r \in Ranks
    BY ControlFacts
  <2>3. Ranks = 0 .. Receivers /\ Receivers \in Nat
    BY ControlFacts
  <2>4. (x # 0 => x \in 1 .. Receivers) /\ \A r \in 1 .. Receivers : r # 0
    BY <2>3
  <2> QED BY <2>1, <2>2, <2>4
<1>2. CASE Fill
  BY <1>1, <1>2 DEF Fill
<1>3. CASE Broadcast
  BY <1>1, <1>3 DEF Broadcast
<1>4. ASSUME NEW r \in 1 .. Receivers, Read(r)
      PROVE  buf'[x][s] = buf[x][s] \/ (x = r /\ s = node[x].slot)
  BY <1>1, <1>4 DEF Read
<1>5. CASE Send \/ Reuse \/ Drain \/ Still
  BY <1>5 DEF Send, Reuse, Drain, Still
<1>6. ASSUME NEW r \in 1 .. Receivers,
             ReadMetadata(r) \/ Received(r) \/ Forward(r) \/ Yield(r) \/ YieldEnd(r) \/ FinalFlush(r)
      PROVE  buf' = buf
  BY <1>6 DEF ReadMetadata, Received, Forward, Yield, YieldEnd, FinalFlush
<1> QED BY Cases, <1>1, <1>2, <1>3, <1>4, <1>5, <1>6

(* What these actions write.                                               *)
LEMMA Written ==
  ASSUME Control
  PROVE  /\ Fill => buf'[0][node[0].slot] = <<version, node[0].at>>
         /\ \A r \in 1 .. Receivers : Read(r) => buf'[r][node[r].slot] = buf[r - 1][node[r].from[2]]
         /\ \A r \in 1 .. Receivers : Broadcast => buf'[r][node[r].slot] = buf[0][node[1].from[2]]
<1>1. /\ buf \in [Ranks -> [{0, 1} -> Nat \X Nat]] /\ 0 \in Ranks
      /\ node[0].slot \in {0, 1}
  BY ControlFacts DEF Control, TypeInv
<1>2. \A r \in 1 .. Receivers : r \in Ranks /\ r # 0 /\ node[r].slot \in {0, 1}
  <2>1. \A r \in 1 .. Receivers : r \in Ranks /\ r # 0
    BY ControlFacts
  <2> QED BY <2>1, ControlFacts
<1>3. Fill => buf'[0][node[0].slot] = <<version, node[0].at>>
  BY <1>1 DEF Fill
<1>4. ASSUME NEW r \in 1 .. Receivers, Read(r)
      PROVE  buf'[r][node[r].slot] = buf[r - 1][node[r].from[2]]
  BY <1>1, <1>2, <1>4 DEF Read
<1>5. ASSUME NEW r \in 1 .. Receivers, Broadcast
      PROVE  buf'[r][node[r].slot] = buf[0][node[1].from[2]]
  BY <1>1, <1>2, <1>5 DEF Broadcast
<1> QED BY <1>3, <1>4, <1>5

(* What is on its way stays in the buffer.                                 *)
LEMMA WaitingStays ==
  ASSUME Control, SignalInv, BufferInv, [Next]_vars, ~stale', NEW q \in 1 .. Receivers,
         NEW u \in Ranks, u = Up(q), ~NextUpdate, NEW k \in Have(q)' + 1 .. Sent(u)'
  PROVE  buf'[u][Slot(k)] = <<version, k>>
<1>1. /\ ~stale /\ BufferAt(q) /\ FilledRight
      /\ \A r \in 1 .. Receivers : BufferAt(r)
  BY StaleStep DEF BufferInv
<1>2. /\ q \in Ranks /\ q # 0 /\ 0 \in Ranks /\ u # q /\ (u # 0 => u \in 1 .. Receivers /\ u = q - 1 /\ Chain)
      /\ node[0].at \in Nat \ {0} /\ node[0].slot = Slot(node[0].at) /\ node[u].at \in Nat
      /\ (u # 0 => ReceiverAt(u)) /\ LinkAt(q) /\ Receivers \in Nat
  <2>1. Up(q) \in Ranks /\ Up(q) # q /\ (Up(q) # 0 => Chain /\ Up(q) = q - 1 /\ Up(q) \in 1 .. Receivers)
    BY UpRule
  <2>2. /\ N \in Nat /\ node[0].at \in 1 .. N /\ node[u].at \in 0 .. N
        /\ 0 \in Ranks /\ Receivers \in Nat /\ Ranks = 0 .. Receivers
    BY ControlFacts
  <2>3. \A r \in 1 .. Receivers : ReceiverAt(r) /\ LinkAt(r)
    BY ControlFacts
  <2>4. node[0].slot = Slot(node[0].at)
    BY DEF Control, SenderInv
  <2> QED BY <2>1, <2>2, <2>3, <2>4
<1>3. PICK h, t \in Nat : h = Have(q) /\ t = Sent(u)
  BY <1>2, CountTypes, SenderCounts
<1>4. Have(q)' = h \/ Have(q)' = h + 1
  BY <1>2, <1>3, CountChanges, ReceiverCounts
<1>5. k >= h + 1 /\ k \in Nat /\ k # 0
  BY <1>3, <1>4
<1>6. Slot(k) \in {0, 1}
  BY <1>5, Parity
<1>7. Sent(u)' = t \/ (u = 0 /\ Send) \/ (u # 0 /\ Forward(u))
  BY <1>3, CountChanges
<1>8. buf[u][Slot(k)] = <<version, k>>
  <2>1. \A j \in h + 1 .. t : buf[u][Slot(j)] = <<version, j>>
    BY <1>1, <1>3 DEF BufferAt
  <2>2. CASE Sent(u)' = t
    <3>1. k \in h + 1 .. t
      BY <1>3, <1>4, <2>2
    <3> QED BY <2>1, <3>1
  <2>3. CASE u = 0 /\ Send
    <3>1. Sent(u)' = t + 1 /\ t + 1 = node[0].at /\ node[0].pc = "send"
      BY <1>3, <2>3, SenderCounts DEF Send
    <3>2. k \in h + 1 .. t \/ k = t + 1
      BY <1>3, <1>4, <3>1
    <3>3. buf[u][Slot(t + 1)] = <<version, t + 1>>
      BY <1>1, <2>3, <3>1 DEF FilledRight
    <3> QED BY <2>1, <3>2, <3>3
  <2>4. CASE u # 0 /\ Forward(u)
    <3>1. Sent(u)' = t + 1 /\ node[u].pc = "forward" /\ t = node[u].at - 1 /\ node[u].at >= 1
      BY <1>2, <1>3, <2>4, ReceiverCounts DEF Forward, Sent, ReceiverAt
    <3>2. k \in h + 1 .. t \/ k = t + 1
      BY <1>3, <1>4, <3>1
    <3>3. t + 1 = node[u].at
      BY <1>2, <3>1
    <3>4. BufferAt(u)
      BY <1>1, <1>2, <2>4
    <3>5. buf[u][Slot(t + 1)] = <<version, t + 1>>
      BY <3>1, <3>3, <3>4 DEF BufferAt
    <3> QED BY <2>1, <3>2, <3>5
  <2> QED BY <1>7, <2>2, <2>3, <2>4
<1>9. CASE u = 0 /\ Fill /\ Slot(k) = node[0].slot
  <2>1. Sent(u)' = t /\ node[0].pc = "fill"
    BY <1>3, <1>9, SenderCounts DEF Fill
  <2>2. node[0].at = t + 1
    BY <1>2, <1>3, <1>9, <2>1 DEF Sent
  <2>3. t <= h + 1
    BY <1>1, <1>3, <1>9, <2>1, FreeToWrite DEF Writes
  <2>4. k <= t
    BY <1>3, <2>1
  <2>0. Slot(k) = Slot(t + 1)
    BY <1>2, <1>9, <2>2
  <2>5. t + 1 \in Nat \ {0} /\ k \in Nat \ {0} /\ Slot(k) = Slot(t + 1) /\ k < t + 1
    BY <1>3, <1>5, <2>0, <2>4
  <2>6. k + 2 <= t + 1
    BY <2>5, Parity
  <2> QED BY <1>3, <1>5, <2>3, <2>6
<1>10. CASE u # 0 /\ (Read(u) \/ Broadcast) /\ Slot(k) = node[u].slot
  <2>1. Read(u) /\ u \in 1 .. Receivers /\ ReceiverAt(u) /\ u = q - 1
    BY <1>2, <1>10 DEF Broadcast
  <2>2. /\ node[u].op = "meta" /\ node[u].pc \in {"receive", "yield"} /\ node[u].slot = node[u].at % 2
        /\ Sent(u)' = t /\ t = node[u].at
    BY <1>2, <1>3, <2>1, ReceiverCounts DEF Read, ReceiverAt, Sent
  <2>3. Slot(k) = Slot(t + 1) /\ k <= t
    BY <1>2, <1>3, <1>10, <2>2, Parity
  <2>4. t + 1 \in Nat \ {0} /\ k \in Nat \ {0} /\ k < t + 1
    BY <1>3, <1>5, <2>3
  <2>5. k + 2 <= t + 1
    BY <2>3, <2>4, Parity
  <2>6. CASE ~Mooncake
    <3>1. t <= h + 1
      BY <1>1, <1>3, <2>6, FreeToWrite
    <3> QED BY <1>3, <1>5, <2>5, <3>1
  <2>7. CASE Mooncake
    <3>1. node[u].at >= 2 /\ u < Receivers
      BY <1>2, <1>3, <1>5, <2>1, <2>2, <2>5
    <3>2. AwaitSignal(u, node[u].slot)
      BY <2>1, <2>7, <3>1 DEF Read
    <3>3. signal[u][Slot(k)] = version
      BY <1>6, <1>10, <3>2, StaleStep
    <3>4. SignalAt(q)
      BY <1>1, <2>7 DEF SignalInv
    <3>5. k \in 1 .. t
      BY <1>3, <1>5, <2>3
    <3>6. k <= Ended(q)
      BY <1>3, <1>6, <2>1, <3>3, <3>4, <3>5 DEF SignalAt
    <3>7. Ended(q) \in Nat /\ Ended(q) <= h
      BY <1>3, CountTypes
    <3> QED BY <1>3, <1>5, <3>6, <3>7
  <2> QED BY <2>6, <2>7
<1> QED BY <1>6, <1>8, <1>9, <1>10, BufferChanges

(* The buffers at the start.                                               *)
LEMMA InitBuffers == Init => SignalInv /\ BufferInv
<1> SUFFICES ASSUME Init PROVE SignalInv /\ BufferInv
  OBVIOUS
<1>1. /\ JobInv /\ TypeInv /\ SenderInv /\ ReceiverInv /\ LinkInv
  BY InitType, InitControl
<1>2. Control
  BY <1>1 DEF Control
<1>3. /\ Ranks = 0 .. Receivers /\ Receivers \in Nat \ {0} /\ version = 1
      /\ \A r \in Ranks, s \in {0, 1} : signal[r][s] = 0
  BY <1>2, ControlFacts DEF Init
<1>4. Sent(0) = 0 /\ node[0].pc = "fill" /\ node[0].at = 1
  BY <1>3 DEF Init, Fresh, Sent
<1>5. \A r \in 1 .. Receivers :
        /\ Sent(r) = 0 /\ Have(r) = 0 /\ Ended(r) = 0 /\ node[r].op = "open" /\ node[r].at = 0
        /\ node[r].pc = "receive"
  BY <1>3 DEF Init, Fresh, Sent, Have, Ended
<1>6. Slot(1) = 0
  BY Parity
<1>7. ASSUME NEW q \in 1 .. Receivers PROVE SignalAt(q) /\ BufferAt(q)
  <2>1. q - 1 \in Ranks /\ (q - 1 = 0 \/ q - 1 \in 1 .. Receivers) /\ (Up(q) = 0 \/ Up(q) \in 1 .. Receivers)
    BY <1>3 DEF Up
  <2>2. Sent(q - 1) = 0 /\ Sent(Up(q)) = 0
    BY <2>1, <1>4, <1>5
  <2>3. SignalAt(q)
    BY <1>3, <1>5, <1>6, <2>1, <2>2 DEF SignalAt
  <2>4. BufferAt(q)
    BY <1>5, <2>2 DEF BufferAt
  <2> QED BY <2>3, <2>4
<1> QED BY <1>4, <1>7 DEF SignalInv, BufferInv, FilledRight

(* What a receiver has read and works on stays in its buffer.              *)
LEMMA OwnStays ==
  ASSUME Control, BufferInv, [Next]_vars, ~stale', NEW q \in 1 .. Receivers, ~NextUpdate
  PROVE  /\ node'[q].op = "done" => buf'[q][Slot(node'[q].at + 1)] = <<version, node'[q].at + 1>>
         /\ node'[q].at >= 1 =>
              node'[q].pc = "receive" \/ buf'[q][Slot(node'[q].at)] = <<version, node'[q].at>>
<1>1. ~stale /\ BufferAt(q) /\ q \in Ranks /\ q # 0
  BY StaleStep, ControlFacts DEF BufferInv
<1>2. ReceiverAt(q) /\ LinkAt(q) /\ node[q].at \in Nat
  <2>1. node[q].at \in 0 .. N /\ N \in Nat
    BY <1>1, ControlFacts
  <2> QED BY <2>1, ControlFacts
<1>3. PICK a \in Nat : a = node[q].at
  BY <1>2
<1>4. /\ node[q].op = "done" => buf[q][Slot(a + 1)] = <<version, a + 1>>
      /\ a >= 1 => node[q].pc = "receive" \/ buf[q][Slot(a)] = <<version, a>>
  BY <1>1, <1>3 DEF BufferAt
<1>5. Slot(a + 1) \in {0, 1} /\ node[q].slot = Slot(a + 1)
      /\ (a >= 1 => Slot(a) \in {0, 1} /\ Slot(a) # Slot(a + 1))
  <2>1. Slot(a + 1) \in {0, 1} /\ a % 2 = Slot(a + 1)
    BY Parity
  <2>2. a >= 1 => Slot(a) \in {0, 1} /\ Slot(a) # Slot(a + 1)
    BY Parity
  <2> QED BY <1>2, <1>3, <2>1, <2>2 DEF ReceiverAt
<1>6. \A s \in {0, 1} : buf'[q][s] = buf[q][s] \/ ((Read(q) \/ Broadcast) /\ s = Slot(a + 1))
  BY <1>1, <1>5, BufferChanges
<1>7. CASE Read(q) \/ Broadcast
  <2>1. /\ node[q].op = "meta" /\ node'[q].op = "done" /\ node'[q].at = a /\ node'[q].pc = node[q].pc
        /\ Have(q) = a /\ Got(q) = a + 1
    BY <1>3, <1>7, ReceiverMoves, BroadcastMoves DEF Read, Broadcast, Goes, Have, Got
  <2>2. \A k \in a + 1 .. Sent(Up(q)) : buf[Up(q)][Slot(k)] = <<version, k>>
    BY <1>1, <2>1 DEF BufferAt
  <2>3. Sent(Up(q)) \in Nat /\ a + 1 <= Sent(Up(q))
    <3>1. Sent(Up(q)) \in Nat
      BY UpRule, CountTypes, SenderCounts
    <3>2. Len(inbox[q]) \in Nat
      BY <1>1 DEF Control, TypeInv
    <3>3. Got(q) + Len(inbox[q]) <= Sent(Up(q))
      BY <1>2 DEF LinkAt
    <3>4. PICK n \in Nat : n = Len(inbox[q])
      BY <3>2
    <3>5. PICK k \in Nat : k = Sent(Up(q))
      BY <3>1
    <3>6. a + 1 + n <= k
      BY <2>1, <3>3, <3>4, <3>5
    <3> QED BY <3>5, <3>6
  <2>4. buf[Up(q)][Slot(a + 1)] = <<version, a + 1>>
    BY <2>2, <2>3
  <2>5. buf'[q][Slot(a + 1)] = <<version, a + 1>>
    <3>1. CASE Read(q)
      <4>1. node[q].from[2] = Slot(a + 1) /\ Up(q) = q - 1
        BY <1>2, <1>3, <2>1, <3>1, UpRule DEF ReceiverAt, Read
      <4> QED BY <1>5, <2>4, <3>1, <4>1, Written
    <3>2. CASE Broadcast
      <4>1. 1 \in 1 .. Receivers /\ Receivers \in Nat
        BY TransferAssumption
      <4>2. Up(q) = 0 /\ Up(1) = 0 /\ 0 \in unread /\ ~Mooncake /\ node[1].op = "meta"
        BY <3>2, <4>1 DEF Broadcast, Up, Chain, Mooncake
      <4>3. Got(q) = Sent(0) /\ Got(1) = Sent(0)
        <5>1. LinkAt(1)
          BY <4>1, ControlFacts
        <5> QED BY <1>2, <2>1, <4>2, <5>1 DEF LinkAt
      <4>4. node[1].at + 1 = a + 1
        BY <2>1, <4>2, <4>3 DEF Got
      <4>5. node[1].from[2] = Slot(a + 1)
        <5>1. ReceiverAt(1)
          BY <4>1, ControlFacts
        <5> QED BY <4>2, <4>4, <5>1 DEF ReceiverAt
      <4> QED BY <1>5, <2>4, <3>2, <4>2, <4>5, Written
    <3> QED BY <1>7, <3>1, <3>2
  <2>6. a >= 1 => buf'[q][Slot(a)] = buf[q][Slot(a)]
    BY <1>5, <1>6
  <2> QED BY <1>4, <2>1, <2>5, <2>6
<1>8. CASE ~(Read(q) \/ Broadcast)
  <2>1. /\ buf'[q][Slot(a + 1)] = buf[q][Slot(a + 1)]
        /\ a >= 1 => buf'[q][Slot(a)] = buf[q][Slot(a)]
    BY <1>5, <1>6, <1>8
  <2>2. ASSUME node'[q].at = a, node'[q].op = "done" => node[q].op = "done",
               node'[q].pc = "receive" \/ node[q].pc # "receive"
        PROVE  /\ node'[q].op = "done" => buf'[q][Slot(node'[q].at + 1)] = <<version, node'[q].at + 1>>
               /\ node'[q].at >= 1 =>
                    node'[q].pc = "receive" \/ buf'[q][Slot(node'[q].at)] = <<version, node'[q].at>>
    BY <1>4, <2>1, <2>2
  <2>3. ASSUME node'[q].at = node[q].from[1], node[q].op = "done", node'[q].op = "none"
        PROVE  /\ node'[q].op = "done" => buf'[q][Slot(node'[q].at + 1)] = <<version, node'[q].at + 1>>
               /\ node'[q].at >= 1 =>
                    node'[q].pc = "receive" \/ buf'[q][Slot(node'[q].at)] = <<version, node'[q].at>>
    <3>1. node'[q].at = a + 1
      BY <1>2, <1>3, <2>3 DEF ReceiverAt
    <3> QED BY <1>4, <2>1, <2>3, <3>1
  <2>4. CASE node'[q] = node[q]
    BY <1>3, <2>2, <2>4
  <2>5. CASE ReadMetadata(q) \/ Yield(q)
    BY <1>3, <2>2, <2>5, ReceiverMoves DEF Goes
  <2>6. CASE FinalFlush(q)
    BY <1>3, <2>2, <2>6, ReceiverMoves DEF Goes, FinalFlush
  <2>7. CASE Forward(q)
    <3>1. Goes(q, "yield", node[q].at, node[q].slot) /\ node[q].pc = "forward"
      BY <2>7, ReceiverMoves DEF Forward
    <3>2. node'[q].op # "done"
      <4>1. node'[q].op = (IF Mooncake \/ IsLast(node[q].at) THEN "none" ELSE "open")
        BY <2>7, ReceiverMoves
      <4> QED BY <4>1
    <3> QED BY <1>3, <2>2, <3>1, <3>2 DEF Goes
  <2>8. CASE Received(q)
    BY <2>3, <2>8, ReceiverMoves DEF Goes, Received
  <2>9. CASE YieldEnd(q)
    <3>1. CASE Goes(q, "flush", node[q].at, node[q].slot) /\ node[q].pc = "yield"
               /\ node'[q].op = (IF Mooncake THEN "none" ELSE node[q].op)
      BY <1>3, <2>2, <3>1 DEF Goes
    <3>2. CASE Goes(q, "receive", node[q].at, node[q].slot) /\ node'[q].op = "open"
      BY <1>3, <2>2, <3>2 DEF Goes
    <3>3. CASE node[q].op = "done" /\ Goes(q, "forward", node[q].from[1], 1 - node[q].slot)
               /\ node'[q].op = "none"
      BY <2>3, <3>3 DEF Goes
    <3> QED BY <2>9, <3>1, <3>2, <3>3, EndMoves
  <2>10. CASE Fill \/ Send \/ Reuse \/ Drain
    <3>1. Rest(0)
      BY <2>10, SenderMoves
    <3> QED BY <1>1, <2>4, <3>1 DEF Rest
  <2>11. ASSUME NEW r \in 1 .. Receivers, r # q,
               \/ ReadMetadata(r) \/ Read(r) \/ Received(r) \/ Forward(r)
               \/ Yield(r) \/ YieldEnd(r) \/ FinalFlush(r)
        PROVE  node'[q] = node[q]
    <3>1. Rest(r)
      BY <2>11, ReceiverMoves, EndMoves
    <3> QED BY <1>1, <2>11, <3>1 DEF Rest
  <2>12. CASE Still
    BY <2>4, <2>12 DEF Still
  <2> QED BY Cases, <1>8, <2>4, <2>5, <2>6, <2>7, <2>8, <2>9, <2>10, <2>11, <2>12
<1> QED BY <1>7, <1>8

(* Every step keeps what the buffers hold.                                 *)
LEMMA BufferStep ==
  ASSUME Control, SignalInv, BufferInv, [Next]_vars
  PROVE  BufferInv'
<1> SUFFICES ASSUME ~stale' PROVE FilledRight' /\ \A q \in 1 .. Receivers : BufferAt(q)'
  BY DEF BufferInv
<1>1. /\ FilledRight /\ 0 \in Ranks /\ ~(0 \in 1 .. Receivers)
      /\ node[0].slot = Slot(node[0].at) /\ node[0].slot \in {0, 1}
  BY StaleStep, ControlFacts DEF BufferInv, Control, SenderInv
<1>2. FilledRight'
  <2>1. CASE Fill
    <3>1. node'[0].at = node[0].at /\ version' = version
      BY <2>1, SenderMoves DEF Goes, Fill
    <3>2. buf'[0][Slot(node[0].at)] = <<version, node[0].at>>
      BY <1>1, <2>1, Written
    <3> QED BY <3>1, <3>2 DEF FilledRight
  <2>2. CASE node'[0] = node[0] /\ ~Fill /\ ~NextUpdate
    <3>1. buf'[0][Slot(node[0].at)] = buf[0][Slot(node[0].at)]
      BY <1>1, <2>2, BufferChanges
    <3> QED BY <1>1, <2>2, <3>1, VersionStep DEF FilledRight
  <2>3. CASE Send
    <3>1. node'[0].pc # "send"
      <4>1. CASE IsLast(node[0].at)
        BY <2>3, <4>1, SenderMoves DEF Goes
      <4>2. CASE ~IsLast(node[0].at)
        BY <2>3, <4>2, SenderMoves DEF Goes
      <4> QED BY <4>1, <4>2
    <3> QED BY <3>1 DEF FilledRight
  <2>4. CASE Reuse \/ Drain \/ NextUpdate
    <3>1. node'[0].pc # "send"
      BY <2>4, SenderMoves, NextMoves DEF Goes
    <3> QED BY <3>1 DEF FilledRight
  <2>5. CASE (Broadcast \/ Still) /\ ~Fill /\ ~NextUpdate
    BY <2>2, <2>5, BroadcastMoves DEF Still
  <2>6. ASSUME NEW r \in 1 .. Receivers, ~Fill, ~NextUpdate,
               \/ ReadMetadata(r) \/ Read(r) \/ Received(r) \/ Forward(r)
               \/ Yield(r) \/ YieldEnd(r) \/ FinalFlush(r)
        PROVE  FilledRight'
    <3>1. Rest(r)
      BY <2>6, ReceiverMoves, EndMoves
    <3>2. node'[0] = node[0]
      BY <1>1, <3>1 DEF Rest
    <3> QED BY <2>2, <2>6, <3>2
  <2> QED BY Cases, <2>1, <2>3, <2>4, <2>5, <2>6
<1>3. ASSUME NEW q \in 1 .. Receivers PROVE BufferAt(q)'
  <2>1. CASE NextUpdate
    <3>1. Up(q)' = Up(q) /\ (Up(q) = 0 \/ Up(q) \in 1 .. Receivers)
      BY UpRule
    <3>2. Have(q)' = 0 /\ Sent(Up(q))' = 0 /\ node'[q].op = "open" /\ node'[q].at = 0
      BY <2>1, <3>1, ReceiverCounts, SenderCounts, NextMoves DEF Goes
    <3> QED BY <3>1, <3>2 DEF BufferAt
  <2>2. CASE ~NextUpdate
    <3>1. PICK u \in Ranks : u = Up(q) /\ Up(q)' = u
      BY UpRule
    <3>2. \A k \in Have(q)' + 1 .. Sent(u)' : buf'[u][Slot(k)] = <<version, k>>
      BY <2>2, <3>1, WaitingStays
    <3>3. version' = version
      BY <2>2, VersionStep
    <3>4. Sent(Up(q))' = Sent(u)'
      BY <3>1 DEF Sent
    <3> QED BY <2>2, <3>1, <3>2, <3>3, <3>4, OwnStays DEF BufferAt
  <2> QED BY <2>1, <2>2
<1> QED BY <1>2, <1>3

(* How many chunks a receiver has taken from its buckets.                  *)
Seen(r) ==
  IF node[r].pc = "yield" THEN BucketStarts[node[r].at] + node[r].item - 1
  ELSE IF node[r].pc = "forward" THEN BucketStarts[node[r].at] ELSE BucketStarts[node[r].at + 1]

(* The starts of the buckets and of the weights in the stream of chunks.   *)
LEMMA StartFacts ==
  ASSUME JobInv
  PROVE  /\ \A k \in 1 .. N : /\ BucketStarts[k] \in Nat /\ BucketStarts[k + 1] \in Nat
                              /\ BucketStarts[k + 1] = BucketStarts[k] + Len(job.buckets[k])
         /\ BucketStarts[1] = 0 /\ WeightStarts[1] = 0
         /\ \A w \in 1 .. Len(job.weights) :
              /\ WeightStarts[w] \in Nat /\ WeightStarts[w + 1] \in Nat
              /\ WeightStarts[w + 1] = WeightStarts[w] + Len(Chunks(job.weights, w))
              /\ Len(Chunks(job.weights, w)) \in Nat \ {0}
         /\ BucketStarts[N + 1] = WeightStarts[Len(job.weights) + 1]
<1>1. /\ job.weights \in Seq(Nat \ {0}) /\ Len(job.weights) \in Nat \ {0}
      /\ job.buckets \in Seq(Seq(ChunkRecords)) /\ N \in Nat \ {0}
      /\ ByWeight(job.weights) \in Seq(Seq(ChunkRecords))
      /\ Len(ByWeight(job.weights)) = Len(job.weights)
      /\ Joins(job.buckets, AllChunks(job.weights))
      /\ Joins(ByWeight(job.weights), AllChunks(job.weights))
  BY JobFacts
<1>2. /\ BucketStarts \in [1 .. N + 1 -> Nat] /\ BucketStarts[1] = 0
      /\ \A k \in 1 .. N : BucketStarts[k + 1] = BucketStarts[k] + Len(job.buckets[k])
  BY <1>1, StartsRule DEF BucketStarts, N
<1>3. /\ WeightStarts \in [1 .. Len(job.weights) + 1 -> Nat] /\ WeightStarts[1] = 0
      /\ \A w \in 1 .. Len(job.weights) :
           WeightStarts[w + 1] = WeightStarts[w] + Len(ByWeight(job.weights)[w])
  BY <1>1, StartsRule DEF WeightStarts
<1>4. \A w \in 1 .. Len(job.weights) : ByWeight(job.weights)[w] = Chunks(job.weights, w)
  BY <1>1 DEF ByWeight
<1>5. \A w \in 1 .. Len(job.weights) : Len(Chunks(job.weights, w)) \in Nat \ {0}
  <2> SUFFICES ASSUME NEW w \in 1 .. Len(job.weights) PROVE Len(Chunks(job.weights, w)) \in Nat \ {0}
    OBVIOUS
  <2>1. w \in DOMAIN job.weights
    BY <1>1
  <2>2. Chunks(job.weights, w) \in Seq(ChunkRecords) /\ Len(Chunks(job.weights, w)) >= 1
    BY <1>1, <2>1, ChunksRule
  <2>3. Len(Chunks(job.weights, w)) \in Nat
    BY <2>2
  <2> QED BY <2>2, <2>3
<1>6. BucketStarts[N + 1] = WeightStarts[Len(job.weights) + 1]
  BY <1>1 DEF Joins, BucketStarts, WeightStarts, N
<1>7. \A k \in 1 .. N : BucketStarts[k] \in Nat /\ BucketStarts[k + 1] \in Nat
  BY <1>1, <1>2
<1>8. \A w \in 1 .. Len(job.weights) : WeightStarts[w] \in Nat /\ WeightStarts[w + 1] \in Nat
  <2>1. PICK l \in Nat : l = Len(job.weights)
    BY <1>1
  <2>2. WeightStarts \in [1 .. l + 1 -> Nat]
    BY <1>3, <2>1
  <2>3. \A w \in 1 .. l : WeightStarts[w] \in Nat /\ WeightStarts[w + 1] \in Nat
    BY <2>2
  <2> QED BY <2>1, <2>3
<1> QED BY <1>2, <1>3, <1>4, <1>5, <1>6, <1>7, <1>8

(* The chunks seen while a bucket is handed out.                           *)
LEMMA SeenType ==
  ASSUME Control, NEW r \in 1 .. Receivers
  PROVE  /\ Seen(r) \in Nat
         /\ node[r].pc = "yield" =>
              /\ node[r].at \in 1 .. N /\ Len(job.buckets[node[r].at]) \in Nat
              /\ Seen(r) = BucketStarts[node[r].at] + node[r].item - 1
              /\ node[r].item \in 1 .. Len(job.buckets[node[r].at]) + 1
<1>1. r \in Ranks /\ ReceiverAt(r) /\ node[r].at \in 0 .. N /\ node[r].item \in Nat /\ N \in Nat \ {0}
  BY ControlFacts
<1>2. JobInv
  BY DEF Control
<1>3. PICK a \in 0 .. N : a = node[r].at
  BY <1>1
<1>4. CASE node[r].pc = "yield"
  <2>1. a \in 1 .. N /\ node[r].item \in 1 .. Len(job.buckets[a]) + 1
    BY <1>1, <1>3, <1>4 DEF ReceiverAt
  <2>2. BucketStarts[a] \in Nat /\ Len(job.buckets[a]) \in Nat
    BY <1>2, <2>1, StartFacts, BucketType
  <2>3. Seen(r) = BucketStarts[a] + node[r].item - 1
    BY <1>3, <1>4 DEF Seen
  <2>4. Seen(r) \in Nat
    BY <2>1, <2>2, <2>3
  <2> QED BY <1>3, <2>1, <2>2, <2>3, <2>4
<1>5. CASE node[r].pc = "forward"
  <2>1. a \in 1 .. N
    BY <1>1, <1>3, <1>5 DEF ReceiverAt
  <2> QED BY <1>2, <1>3, <1>5, <2>1, StartFacts DEF Seen
<1>6. CASE node[r].pc \notin {"yield", "forward"}
  <2>1. BucketStarts[a + 1] \in Nat
    <3>1. CASE a = 0
      BY <1>2, <3>1, StartFacts
    <3>2. CASE a # 0
      <4>1. a \in 1 .. N
        BY <1>1, <3>2
      <4> QED BY <1>2, <4>1, StartFacts
    <3> QED BY <3>1, <3>2
  <2> QED BY <1>3, <1>6, <2>1 DEF Seen
<1> QED BY <1>4, <1>5, <1>6

(* Only handing out a chunk changes how many were seen.                    *)
LEMMA SeenSame ==
  ASSUME Control, [Next]_vars, NEW r \in 1 .. Receivers, ~Yield(r), ~NextUpdate
  PROVE  Seen(r)' = Seen(r)
<1>1. BucketStarts' = BucketStarts
  BY JobStep DEF Control
<1>2. r \in Ranks /\ ReceiverAt(r) /\ node[r].at \in 0 .. N /\ N \in Nat \ {0} /\ r # 0
  BY ControlFacts
<1>3. PICK a \in 0 .. N : a = node[r].at
  BY <1>2
<1>4. ASSUME node'[r].pc = node[r].pc, node'[r].at = node[r].at, node'[r].item = node[r].item
      PROVE  Seen(r)' = Seen(r)
  BY <1>1, <1>4 DEF Seen
<1>5. CASE node'[r] = node[r]
  BY <1>4, <1>5
<1>6. CASE ReadMetadata(r) \/ Read(r)
  BY <1>4, <1>6, ReceiverMoves DEF Goes, Keeps
<1>7. CASE Received(r)
  <2>1. node[r].pc = "receive" /\ node[r].op = "done" /\ Goes(r, "forward", node[r].from[1], 1 - node[r].slot)
    BY <1>7, ReceiverMoves DEF Received
  <2>2. node[r].from[1] = node[r].at + 1
    BY <1>2, <2>1 DEF ReceiverAt
  <2> QED BY <1>1, <2>1, <2>2 DEF Seen, Goes
<1>8. CASE Forward(r)
  <2>1. node[r].pc = "forward" /\ Goes(r, "yield", node[r].at, node[r].slot) /\ node'[r].item = 1
    BY <1>8, ReceiverMoves DEF Forward
  <2>2. a \in 1 .. N
    BY <1>2, <1>3, <2>1 DEF ReceiverAt
  <2>3. PICK b \in Nat : b = BucketStarts[a]
    BY <2>2, StartFacts DEF Control
  <2>4. Seen(r) = b /\ Seen(r)' = b + 1 - 1
    BY <1>1, <1>3, <2>1, <2>3 DEF Seen, Goes
  <2> QED BY <2>4
<1>9. CASE YieldEnd(r)
  <2>1. node[r].pc = "yield" /\ node[r].item > Len(job.buckets[node[r].at])
    BY <1>9 DEF YieldEnd
  <2>2. /\ a \in 1 .. N /\ Len(job.buckets[a]) \in Nat
        /\ Seen(r) = BucketStarts[a] + node[r].item - 1
        /\ node[r].item \in 1 .. Len(job.buckets[a]) + 1
    BY <1>3, <2>1, SeenType
  <2>3. BucketStarts[a + 1] = BucketStarts[a] + Len(job.buckets[a]) /\ BucketStarts[a] \in Nat
    BY <2>2, StartFacts DEF Control
  <2>4. Seen(r) = BucketStarts[a + 1]
    <3>1. PICK b \in Nat : b = BucketStarts[a]
      BY <2>3
    <3>2. PICK l \in Nat : l = Len(job.buckets[a])
      BY <2>2
    <3>3. node[r].item = l + 1
      BY <1>3, <2>1, <2>2, <3>2
    <3>4. Seen(r) = b + (l + 1) - 1 /\ BucketStarts[a + 1] = b + l
      BY <2>2, <2>3, <3>1, <3>2, <3>3
    <3> QED BY <3>4
  <2>5. CASE (Goes(r, "flush", node[r].at, node[r].slot) \/ Goes(r, "receive", node[r].at, node[r].slot))
    BY <1>1, <1>3, <2>4, <2>5 DEF Seen, Goes
  <2>6. CASE node[r].op = "done" /\ Goes(r, "forward", node[r].from[1], 1 - node[r].slot)
    <3>1. node[r].from[1] = a + 1
      BY <1>2, <1>3, <2>6 DEF ReceiverAt
    <3> QED BY <1>1, <2>4, <2>6, <3>1 DEF Seen, Goes
  <2> QED BY <1>9, <2>5, <2>6, EndMoves
<1>10. CASE FinalFlush(r)
  <2>1. node[r].pc = "flush" /\ Goes(r, "done", node[r].at, node[r].slot)
    BY <1>10, ReceiverMoves DEF FinalFlush
  <2> QED BY <1>1, <2>1 DEF Seen, Goes
<1>11. CASE Fill \/ Send \/ Reuse \/ Drain
  <2>1. Rest(0)
    BY <1>11, SenderMoves
  <2> QED BY <1>2, <1>5, <2>1 DEF Rest
<1>12. CASE Broadcast
  BY <1>4, <1>12, BroadcastMoves DEF Goes, Keeps
<1>13. ASSUME NEW q \in 1 .. Receivers, q # r,
              \/ ReadMetadata(q) \/ Read(q) \/ Received(q) \/ Forward(q)
              \/ Yield(q) \/ YieldEnd(q) \/ FinalFlush(q)
       PROVE  Seen(r)' = Seen(r)
  <2>1. Rest(q)
    BY <1>13, ReceiverMoves, EndMoves
  <2> QED BY <1>2, <1>5, <1>13, <2>1 DEF Rest
<1>14. CASE Still
  BY <1>5, <1>14 DEF Still
<1> QED BY Cases, <1>6, <1>7, <1>8, <1>9, <1>10, <1>11, <1>12, <1>13, <1>14

LEMMA SeenMoves ==
  ASSUME Control, [Next]_vars, NEW r \in 1 .. Receivers
  PROVE  /\ Yield(r) => Seen(r)' = Seen(r) + 1 /\ node[r].item \in 1 .. Len(job.buckets[node[r].at])
         /\ NextUpdate => Seen(r)' = 0
<1>1. BucketStarts' = BucketStarts
  BY JobStep DEF Control
<1>2. ASSUME Yield(r)
      PROVE  Seen(r)' = Seen(r) + 1 /\ node[r].item \in 1 .. Len(job.buckets[node[r].at])
  <2>1. /\ node[r].pc = "yield" /\ Goes(r, node[r].pc, node[r].at, node[r].slot)
        /\ node'[r].item = node[r].item + 1 /\ node[r].item <= Len(job.buckets[node[r].at])
    BY <1>2, ReceiverMoves DEF Yield
  <2>2. PICK a \in 1 .. N : a = node[r].at
    BY <2>1, SeenType
  <2>3. /\ Len(job.buckets[a]) \in Nat /\ Seen(r) = BucketStarts[a] + node[r].item - 1
        /\ node[r].item \in 1 .. Len(job.buckets[a]) + 1
    BY <2>1, <2>2, SeenType
  <2>4. Seen(r)' = BucketStarts[a] + (node[r].item + 1) - 1
    BY <1>1, <2>1, <2>2 DEF Seen, Goes
  <2>5. BucketStarts[a] \in Nat
    BY <2>2, StartFacts DEF Control
  <2> QED BY <2>1, <2>2, <2>3, <2>4, <2>5
<1>3. ASSUME NextUpdate PROVE Seen(r)' = 0
  <2>1. Goes(r, "receive", 0, 0)
    BY <1>3, NextMoves
  <2>2. BucketStarts[1] = 0
    BY StartFacts DEF Control
  <2> QED BY <1>1, <2>1, <2>2 DEF Seen, Goes
<1> QED BY <1>2, <1>3

(* ------------------------- what the adapter holds ---------------------- *)
Pieces == [weight : Nat, offset : Nat, value : Nat \X Nat]
OutRecords ==
  [copying : SUBSET [weight : Nat, offset : Nat, slot : {0, 1}], got : SUBSET Pieces,
   held : Seq(Nat), loaded : Seq([weight : Nat, parts : SUBSET Pieces])]
OutInv == out \in [1 .. Receivers -> OutRecords]

(* The types of what is copied and loaded.                                 *)
LEMMA ReadingType ==
  ASSUME Control, NEW r \in 1 .. Receivers, NEW c \in [weight : Nat, offset : Nat, slot : {0, 1}]
  PROVE  Reading(r, c, c.slot) \in Pieces
<1>1. buf[r][c.slot] \in Nat \X Nat
  <2>1. r \in Ranks /\ buf \in [Ranks -> [{0, 1} -> Nat \X Nat]] /\ c.slot \in {0, 1}
    BY ControlFacts DEF Control, TypeInv
  <2> QED BY <2>1
<1> QED BY <1>1 DEF Reading, Pieces

LEMMA LoadsType ==
  ASSUME Control, OutInv, NEW r \in 1 .. Receivers
  PROVE  /\ Loads(r, out[r].held) \in Seq([weight : Nat, parts : SUBSET Pieces])
         /\ Len(Loads(r, out[r].held)) = Len(out[r].held)
         /\ \A i \in 1 .. Len(out[r].held) :
              Loads(r, out[r].held)[i] = [weight |-> out[r].held[i], parts |-> Parts(r, out[r].held[i])]
<1>1. out[r] \in OutRecords
  BY DEF OutInv
<1>2. /\ out[r].held \in Seq(Nat) /\ out[r].got \in SUBSET Pieces
      /\ out[r].copying \in SUBSET [weight : Nat, offset : Nat, slot : {0, 1}]
  BY <1>1 DEF OutRecords
<1>3. ASSUME NEW w PROVE Parts(r, w) \in SUBSET Pieces
  <2>1. ASSUME NEW p \in Parts(r, w) PROVE p \in Pieces
    <3>1. CASE p \in out[r].got
      BY <1>2, <3>1
    <3>2. CASE p \notin out[r].got
      <4>1. PICK c \in out[r].copying : p = Reading(r, c, c.slot)
        BY <2>1, <3>2 DEF Parts
      <4> QED BY <1>2, <4>1, ReadingType
    <3> QED BY <3>1, <3>2
  <2> QED BY <2>1
<1>4. PICK l \in Nat : l = Len(out[r].held) /\ DOMAIN out[r].held = 1 .. l
  BY <1>2
<1>5. \A i \in 1 .. l : [weight |-> out[r].held[i], parts |-> Parts(r, out[r].held[i])]
                          \in [weight : Nat, parts : SUBSET Pieces]
  BY <1>2, <1>3, <1>4
<1>6. Loads(r, out[r].held) =
        [i \in 1 .. l |-> [weight |-> out[r].held[i], parts |-> Parts(r, out[r].held[i])]]
  BY <1>4 DEF Loads
<1>7. Loads(r, out[r].held) \in [1 .. l -> [weight : Nat, parts : SUBSET Pieces]]
  BY <1>5, <1>6
<1>8. Loads(r, out[r].held) \in Seq([weight : Nat, parts : SUBSET Pieces]) /\ Len(Loads(r, out[r].held)) = l
  <2> DEFINE L == Loads(r, out[r].held)
             T == [weight : Nat, parts : SUBSET Pieces]
  <2>1. L \in [1 .. l -> T]
    BY <1>7
  <2> HIDE DEF L, T
  <2>2. L \in Seq(T) /\ Len(L) = l
    BY <2>1, SeqDef, LenProperties
  <2> QED BY <2>2 DEF L, T
<1> QED BY <1>4, <1>6, <1>8

(* A flush loads the batch after what was loaded before.                   *)
LEMMA FlushedRule ==
  ASSUME Control, OutInv, NEW r \in 1 .. Receivers
  PROVE  /\ Flushed(r) \in OutRecords
         /\ Flushed(r).held = <<>>
         /\ Len(Flushed(r).loaded) = Len(out[r].loaded) + Len(out[r].held)
         /\ \A i \in 1 .. Len(out[r].loaded) : Flushed(r).loaded[i] = out[r].loaded[i]
         /\ \A i \in 1 .. Len(out[r].held) :
              Flushed(r).loaded[Len(out[r].loaded) + i] =
                [weight |-> out[r].held[i], parts |-> Parts(r, out[r].held[i])]
<1>1. out[r] \in OutRecords
  BY DEF OutInv
<1>2. /\ out[r].got \in SUBSET Pieces
      /\ out[r].copying \in SUBSET [weight : Nat, offset : Nat, slot : {0, 1}]
      /\ out[r].loaded \in Seq([weight : Nat, parts : SUBSET Pieces])
      /\ Len(out[r].held) \in Nat
  BY <1>1 DEF OutRecords
<1> DEFINE L == Loads(r, out[r].held)
           o == out[r].loaded
           T == [weight : Nat, parts : SUBSET Pieces]
<1>3. /\ L \in Seq(T) /\ Len(L) = Len(out[r].held)
      /\ \A i \in 1 .. Len(out[r].held) :
           L[i] = [weight |-> out[r].held[i], parts |-> Parts(r, out[r].held[i])]
  BY LoadsType
<1>4. o \in Seq(T)
  BY <1>2
<1>5. Flushed(r).loaded = o \o L /\ Flushed(r).held = <<>>
  BY DEF Flushed
<1>6. Flushed(r) \in OutRecords
  <2>1. o \o L \in Seq(T)
    <3> HIDE DEF o, L, T
    <3> QED BY <1>3, <1>4
  <2>2. {c \in out[r].copying : c.weight \notin Range(out[r].held)}
          \in SUBSET [weight : Nat, offset : Nat, slot : {0, 1}]
    BY <1>2
  <2>3. {p \in out[r].got : p.weight \notin Range(out[r].held)} \in SUBSET Pieces
    BY <1>2
  <2>4. <<>> \in Seq(Nat)
    OBVIOUS
  <2> QED BY <2>1, <2>2, <2>3, <2>4 DEF Flushed, OutRecords
<1>7. /\ Len(o \o L) = Len(o) + Len(L)
      /\ \A i \in 1 .. Len(o) : (o \o L)[i] = o[i]
      /\ \A i \in 1 .. Len(L) : (o \o L)[Len(o) + i] = L[i]
  <2> HIDE DEF o, L, T
  <2>1. Len(o) \in Nat /\ Len(L) \in Nat
    BY <1>3, <1>4
  <2>2. /\ Len(o \o L) = Len(o) + Len(L)
        /\ \A i \in 1 .. Len(o) + Len(L) : (o \o L)[i] = IF i <= Len(o) THEN o[i] ELSE L[i - Len(o)]
    BY <1>3, <1>4, ConcatProperties
  <2>3. ASSUME NEW i \in 1 .. Len(L) PROVE (o \o L)[Len(o) + i] = L[i]
    <3>1. Len(o) + i \in 1 .. Len(o) + Len(L) /\ ~(Len(o) + i <= Len(o)) /\ Len(o) + i - Len(o) = i
      BY <2>1
    <3> QED BY <2>2, <3>1
  <2>4. ASSUME NEW i \in 1 .. Len(o) PROVE (o \o L)[i] = o[i]
    <3>1. i \in 1 .. Len(o) + Len(L) /\ i <= Len(o)
      BY <2>1
    <3> QED BY <2>2, <3>1
  <2> QED BY <2>2, <2>3, <2>4
<1> QED BY <1>3, <1>5, <1>6, <1>7

(* The steps that change what an adapter holds.                            *)
LEMMA OutChanges ==
  ASSUME Control, OutInv, [Next]_vars, NEW r \in 1 .. Receivers
  PROVE  \/ out'[r] = out[r] \/ NextUpdate \/ Yield(r) \/ Copy(r) \/ SendLarge(r) \/ FinalFlush(r)
<1>1. CASE Fill \/ Send \/ Reuse \/ Drain \/ Broadcast
  BY <1>1 DEF Fill, Send, Reuse, Drain, Broadcast
<1>2. ASSUME NEW q \in 1 .. Receivers, ReadMetadata(q) \/ Read(q) \/ Received(q) \/ Forward(q) \/ YieldEnd(q)
      PROVE  out' = out
  BY <1>2 DEF ReadMetadata, Read, Received, Forward, YieldEnd
<1>3. ASSUME NEW q \in 1 .. Receivers, q # r, Yield(q) \/ FinalFlush(q) \/ SendLarge(q) \/ Copy(q)
      PROVE  out'[r] = out[r]
  <2>1. CASE Yield(q)
    BY <1>3, <2>1 DEF Yield, OutInv
  <2>2. CASE FinalFlush(q) \/ SendLarge(q)
    BY <1>3, <2>2 DEF FinalFlush, SendLarge, OutInv
  <2>3. CASE Copy(q)
    BY <1>3, <2>3 DEF Copy, OutInv
  <2> QED BY <1>3, <2>1, <2>2, <2>3
<1> QED BY Cases, <1>1, <1>2, <1>3

(* A chunk is added to what is there once the batch it does not fit in has *)
(* been loaded.                                                            *)
Base(r) == IF Whole(Chunk(r)) /\ MustFlush(r, Chunk(r).weight) THEN Flushed(r) ELSE out[r]
NewCopy(r) == [weight |-> Chunk(r).weight, offset |-> Chunk(r).offset, slot |-> 1 - node[r].slot]

(* The chunk that is handed out.                                           *)
LEMMA ChunkType ==
  ASSUME Control, NEW r \in 1 .. Receivers, Yield(r)
  PROVE  Chunk(r) \in ChunkRecords /\ NewCopy(r) \in [weight : Nat, offset : Nat, slot : {0, 1}]
<1>1. node[r].pc = "yield" /\ node[r].item <= Len(job.buckets[node[r].at])
  BY DEF Yield
<1>2. /\ node[r].at \in 1 .. N /\ Len(job.buckets[node[r].at]) \in Nat
      /\ node[r].item \in 1 .. Len(job.buckets[node[r].at]) + 1
  BY <1>1, SeenType
<1>3. node[r].item \in 1 .. Len(job.buckets[node[r].at])
  BY <1>1, <1>2
<1>4. job.buckets[node[r].at] \in Seq(ChunkRecords)
  BY <1>2, BucketType DEF Control
<1>5. Chunk(r) \in ChunkRecords
  <2> DEFINE b == job.buckets[node[r].at]
  <2> HIDE DEF b
  <2>1. b[node[r].item] \in ChunkRecords
    BY <1>3, <1>4 DEF b
  <2> QED BY <2>1 DEF Chunk, b
<1>6. 1 - node[r].slot \in {0, 1}
  BY ControlFacts
<1> QED BY <1>5, <1>6 DEF NewCopy, ChunkRecords

(* What handing out a chunk does to the adapter.                           *)
LEMMA YieldEffect ==
  ASSUME Control, OutInv, NEW r \in 1 .. Receivers, Yield(r)
  PROVE  /\ out' = [out EXCEPT ![r] = out'[r]] /\ out'[r] \in OutRecords
         /\ out'[r].copying = Base(r).copying \cup {NewCopy(r)}
         /\ out'[r].got = Base(r).got /\ out'[r].loaded = Base(r).loaded
         /\ out'[r].held =
              (IF Whole(Chunk(r)) THEN Append(Base(r).held, Chunk(r).weight) ELSE Base(r).held)
         /\ Base(r) \in OutRecords
         /\ Base(r) = out[r] \/ (Base(r) = Flushed(r) /\ Copies(r) = {})
<1>1. out[r] \in OutRecords /\ Flushed(r) \in OutRecords
  BY FlushedRule DEF OutInv
<1>2. PICK b \in OutRecords : b = Base(r)
  BY <1>1 DEF Base
<1>3. Base(r) = out[r] \/ (Base(r) = Flushed(r) /\ Copies(r) = {})
  BY DEF Base, Yield
<1>4. PICK c \in ChunkRecords : c = Chunk(r)
  BY ChunkType
<1>5. PICK d \in [weight : Nat, offset : Nat, slot : {0, 1}] : d = NewCopy(r)
  BY ChunkType
<1>6. PICK x : /\ out' = [out EXCEPT ![r] = x]
               /\ x = (IF Whole(c) THEN [b EXCEPT !.copying = b.copying \cup {d}, !.held = Append(b.held, c.weight)]
                       ELSE [b EXCEPT !.copying = b.copying \cup {d}])
  <2>1. Whole(c) => b = (IF MustFlush(r, c.weight) THEN Flushed(r) ELSE out[r])
    BY <1>2, <1>4 DEF Base
  <2>2. ~Whole(c) => b = out[r]
    BY <1>2, <1>4 DEF Base
  <2>3. d = [weight |-> c.weight, offset |-> c.offset, slot |-> 1 - node[r].slot]
    BY <1>4, <1>5 DEF NewCopy
  <2>4. CASE Whole(c)
    <3>1. out' = [out EXCEPT ![r] = [b EXCEPT !.copying = b.copying \cup {d}, !.held = Append(b.held, c.weight)]]
      BY <2>1, <2>3, <2>4, <1>4 DEF Yield
    <3> QED BY <2>4, <3>1
  <2>5. CASE ~Whole(c)
    <3>1. out' = [out EXCEPT ![r] = [b EXCEPT !.copying = b.copying \cup {d}]]
      BY <2>2, <2>3, <2>5, <1>4 DEF Yield
    <3> QED BY <2>5, <3>1
  <2> QED BY <2>4, <2>5
<1>7. out'[r] = x
  BY <1>6 DEF OutInv
<1>8. Append(b.held, c.weight) \in Seq(Nat)
  <2>1. b.held \in Seq(Nat) /\ c.weight \in Nat
    BY <1>2, <1>4 DEF OutRecords, ChunkRecords
  <2> QED BY <2>1, AppendProperties
<1>9. b.copying \cup {d} \in SUBSET [weight : Nat, offset : Nat, slot : {0, 1}]
  BY <1>2, <1>5 DEF OutRecords
<1>10. /\ x \in OutRecords /\ x.copying = b.copying \cup {d} /\ x.got = b.got /\ x.loaded = b.loaded
       /\ x.held = (IF Whole(c) THEN Append(b.held, c.weight) ELSE b.held)
  <2>1. CASE Whole(c)
    <3>1. x = [b EXCEPT !.copying = b.copying \cup {d}, !.held = Append(b.held, c.weight)]
      BY <1>6, <2>1
    <3> QED BY <1>2, <1>8, <1>9, <2>1, <3>1 DEF OutRecords
  <2>2. CASE ~Whole(c)
    <3>1. x = [b EXCEPT !.copying = b.copying \cup {d}]
      BY <1>6, <2>2
    <3> QED BY <1>2, <1>9, <2>2, <3>1 DEF OutRecords
  <2> QED BY <2>1, <2>2
<1> QED BY <1>2, <1>3, <1>4, <1>5, <1>6, <1>7, <1>10

(* A copy that is carried out turns into a part of its weight.             *)
LEMMA CopyEffect ==
  ASSUME Control, OutInv, NEW r \in 1 .. Receivers, Copy(r)
  PROVE  /\ out' = [out EXCEPT ![r] = out'[r]] /\ out'[r] \in OutRecords
         /\ out'[r].held = out[r].held /\ out'[r].loaded = out[r].loaded
         /\ \E c \in Copies(r) : /\ out'[r].copying = out[r].copying \ {c}
                                 /\ out'[r].got = out[r].got \cup {Reading(r, c, c.slot)}
<1>1. PICK c \in Copies(r) :
        out' = [out EXCEPT ![r].copying = @ \ {c}, ![r].got = @ \cup {Reading(r, c, c.slot)}]
  BY DEF Copy
<1>2. out[r] \in OutRecords
  BY DEF OutInv
<1>3. PICK o \in OutRecords : o = out[r]
  BY <1>2
<1>4. Reading(r, c, c.slot) \in Pieces
  <2>1. c \in [weight : Nat, offset : Nat, slot : {0, 1}]
    BY <1>2 DEF Copies, OutRecords
  <2> QED BY <2>1, ReadingType
<1>5. PICK p \in Pieces : p = Reading(r, c, c.slot)
  BY <1>4
<1>6. out'[r] = [o EXCEPT !.copying = o.copying \ {c}, !.got = o.got \cup {p}]
      /\ out' = [out EXCEPT ![r] = out'[r]]
  BY <1>1, <1>3, <1>5 DEF OutInv
<1>7. PICK x : x = [o EXCEPT !.copying = o.copying \ {c}, !.got = o.got \cup {p}]
  OBVIOUS
<1>8. /\ x \in OutRecords /\ x.held = o.held /\ x.loaded = o.loaded
      /\ x.copying = o.copying \ {c} /\ x.got = o.got \cup {p}
  BY <1>3, <1>5, <1>7 DEF OutRecords
<1> QED BY <1>3, <1>5, <1>6, <1>7, <1>8

(* A batch is loaded only once the copies are done.                        *)
LEMMA FlushEffect ==
  ASSUME Control, OutInv, NEW r \in 1 .. Receivers, SendLarge(r) \/ FinalFlush(r)
  PROVE  out' = [out EXCEPT ![r] = out'[r]] /\ out'[r] = Flushed(r) /\ Copies(r) = {}
BY DEF SendLarge, FinalFlush, OutInv

LEMMA NextEffect ==
  ASSUME NextUpdate, NEW r \in 1 .. Receivers
  PROVE  out'[r] = [copying |-> {}, got |-> {}, held |-> <<>>, loaded |-> <<>>]
BY DEF NextUpdate, NothingOut

(* Every step keeps the types of what the adapters hold.                   *)
LEMMA OutStep ==
  ASSUME Control, OutInv, [Next]_vars
  PROVE  OutInv'
<1>1. CASE Fill \/ Send \/ Reuse \/ Drain \/ Broadcast
  <2>1. out' = out
    BY <1>1 DEF Fill, Send, Reuse, Drain, Broadcast
  <2> QED BY <2>1 DEF OutInv
<1>2. ASSUME NEW q \in 1 .. Receivers, ReadMetadata(q) \/ Read(q) \/ Received(q) \/ Forward(q) \/ YieldEnd(q)
      PROVE  OutInv'
  <2>1. out' = out
    BY <1>2 DEF ReadMetadata, Read, Received, Forward, YieldEnd
  <2> QED BY <2>1 DEF OutInv
<1>3. ASSUME NEW q \in 1 .. Receivers, Yield(q) \/ FinalFlush(q) \/ SendLarge(q) \/ Copy(q)
      PROVE  OutInv'
  <2>1. out' = [out EXCEPT ![q] = out'[q]] /\ out'[q] \in OutRecords
    BY <1>3, YieldEffect, CopyEffect, FlushEffect, FlushedRule
  <2>2. PICK x \in OutRecords : out' = [out EXCEPT ![q] = x]
    BY <2>1
  <2> QED BY <2>2 DEF OutInv
<1>4. CASE NextUpdate
  <2>1. out' = NothingOut
    BY <1>4 DEF NextUpdate
  <2>2. [copying |-> {}, got |-> {}, held |-> <<>>, loaded |-> <<>>] \in OutRecords
    BY DEF OutRecords
  <2> QED BY <2>1, <2>2 DEF OutInv, NothingOut
<1>5. CASE out' = out
  BY <1>5 DEF OutInv
<1> QED BY Cases, <1>1, <1>2, <1>3, <1>4, <1>5

(* The bucket at hand is left only when the copies are done.               *)
LEMMA PlaceStep ==
  ASSUME Control, [Next]_vars, NEW r \in 1 .. Receivers
  PROVE  /\ node'[r].pc = "done" => node[r].pc = "done" \/ FinalFlush(r)
         /\ node[r].pc \in {"yield", "flush"} =>
              Copies(r) = {} \/ (node'[r].pc \in {"yield", "flush"} /\ node'[r].at = node[r].at)
<1> DEFINE Right == /\ node'[r].pc = "done" => node[r].pc = "done" \/ FinalFlush(r)
                    /\ node[r].pc \in {"yield", "flush"} =>
                         Copies(r) = {} \/ (node'[r].pc \in {"yield", "flush"} /\ node'[r].at = node[r].at)
<1>1. r \in Ranks /\ r # 0 /\ ReceiverAt(r)
  BY ControlFacts
<1>2. CASE node'[r].pc = node[r].pc /\ node'[r].at = node[r].at
  BY <1>2
<1>3. CASE ReadMetadata(r) \/ Read(r) \/ Yield(r)
  BY <1>2, <1>3, ReceiverMoves DEF Goes
<1>4. CASE Received(r)
  BY <1>4, ReceiverMoves DEF Goes, Received
<1>5. CASE Forward(r)
  BY <1>5, ReceiverMoves DEF Goes, Forward
<1>6. CASE YieldEnd(r)
  <2>1. CASE Goes(r, "flush", node[r].at, node[r].slot)
    BY <2>1 DEF Goes
  <2>2. CASE Synchronized(r) /\ (node'[r].pc = "receive" \/ node'[r].pc = "forward")
    BY <2>2 DEF Synchronized
  <2> QED BY <1>6, <2>1, <2>2, EndMoves DEF Goes
<1>7. CASE FinalFlush(r)
  BY <1>7 DEF FinalFlush
<1>8. CASE Fill \/ Send \/ Reuse \/ Drain
  <2>1. Rest(0)
    BY <1>8, SenderMoves
  <2> QED BY <1>1, <1>2, <2>1 DEF Rest
<1>9. CASE Broadcast
  BY <1>2, <1>9, BroadcastMoves DEF Goes
<1>10. CASE NextUpdate
  BY <1>10, NextMoves DEF Goes
<1>11. ASSUME NEW q \in 1 .. Receivers, q # r,
              \/ ReadMetadata(q) \/ Read(q) \/ Received(q) \/ Forward(q)
              \/ Yield(q) \/ YieldEnd(q) \/ FinalFlush(q)
       PROVE  Right
  <2>1. Rest(q)
    BY <1>11, ReceiverMoves, EndMoves
  <2>2. node'[r] = node[r]
    BY <1>1, <1>11, <2>1 DEF Rest
  <2> QED BY <1>2, <2>2
<1>12. CASE Still
  BY <1>2, <1>12 DEF Still
<1> QED BY Cases, <1>3, <1>4, <1>5, <1>6, <1>7, <1>8, <1>9, <1>10, <1>11, <1>12

(* Weights are batched and loaded in order: the next one is the weight     *)
(* whose chunks are being received.                                        *)
Count(o) == Len(o.loaded) + Len(o.held)
Orders(o) ==
  /\ \A i \in 1 .. Len(o.loaded) : o.loaded[i].weight = i
  /\ \A i \in 1 .. Len(o.held) : o.held[i] = Len(o.loaded) + i
Ahead(f, seen) ==
  /\ f \in 0 .. Len(job.weights)
  /\ WeightStarts[f + 1] <= seen
  /\ f < Len(job.weights) => seen < WeightStarts[f + 2]
OrderAt(r) ==
  /\ Orders(out[r]) /\ Ahead(Count(out[r]), Seen(r))
  /\ node[r].pc = "done" => out[r].held = <<>> /\ Copies(r) = {}
OrderInv == \A r \in 1 .. Receivers : OrderAt(r)

(* A flush keeps the order.                                                *)
LEMMA FlushedOrders ==
  ASSUME Control, OutInv, NEW r \in 1 .. Receivers, Orders(out[r])
  PROVE  Orders(Flushed(r)) /\ Count(Flushed(r)) = Count(out[r]) /\ Flushed(r).held = <<>>
<1>1. out[r] \in OutRecords /\ Flushed(r) \in OutRecords
  BY FlushedRule DEF OutInv
<1>2. PICK l \in Nat : l = Len(out[r].loaded)
  BY <1>1 DEF OutRecords
<1>3. PICK h \in Nat : h = Len(out[r].held)
  BY <1>1 DEF OutRecords
<1>4. /\ Flushed(r).held = <<>>
      /\ Len(Flushed(r).loaded) = l + h
      /\ \A i \in 1 .. l : Flushed(r).loaded[i] = out[r].loaded[i]
      /\ \A i \in 1 .. h : Flushed(r).loaded[l + i] =
           [weight |-> out[r].held[i], parts |-> Parts(r, out[r].held[i])]
  BY <1>2, <1>3, FlushedRule
<1>5. ASSUME NEW i \in 1 .. l + h PROVE Flushed(r).loaded[i].weight = i
  <2>1. CASE i <= l
    BY <1>2, <1>4, <2>1 DEF Orders
  <2>2. CASE ~(i <= l)
    <3>1. PICK k \in 1 .. h : l + k = i
      <4>1. i - l \in 1 .. h /\ l + (i - l) = i
        BY <2>2
      <4> QED BY <4>1
    <3>2. Flushed(r).loaded[l + k].weight = out[r].held[k]
      <4>1. Flushed(r).loaded[l + k] = [weight |-> out[r].held[k], parts |-> Parts(r, out[r].held[k])]
        BY <1>4
      <4> QED BY <4>1
    <3>3. out[r].held[k] = l + k
      BY <1>2, <1>3 DEF Orders
    <3> QED BY <3>1, <3>2, <3>3
  <2> QED BY <2>1, <2>2
<1>6. Len(Flushed(r).held) = 0
  BY <1>4
<1>7. Orders(Flushed(r))
  BY <1>4, <1>5, <1>6 DEF Orders
<1>8. Count(Flushed(r)) = l + h
  BY <1>4, <1>6 DEF Count
<1>9. Count(out[r]) = l + h
  BY <1>2, <1>3 DEF Count
<1> QED BY <1>4, <1>7, <1>8, <1>9

(* The chunk handed out next is of the weight after those batched or       *)
(* loaded.                                                                 *)
LEMMA YieldChunk ==
  ASSUME Control, OutInv, NEW r \in 1 .. Receivers, OrderAt(r), [Next]_vars, Yield(r)
  PROVE  \E f \in Nat : \E j \in Nat \ {0} :
           /\ f = Count(out[r]) /\ f + 1 \in 1 .. Len(job.weights)
           /\ j \in 1 .. Len(Chunks(job.weights, f + 1))
           /\ Chunk(r) = Chunks(job.weights, f + 1)[j] /\ Chunk(r).weight = f + 1
           /\ Seen(r) + 1 = WeightStarts[f + 1] + j /\ Seen(r)' = Seen(r) + 1
           /\ Whole(Chunk(r)) <=> j = Len(Chunks(job.weights, f + 1))
<1>1. JobInv
  BY DEF Control
<1>2. node[r].pc = "yield" /\ Seen(r)' = Seen(r) + 1
      /\ node[r].item \in 1 .. Len(job.buckets[node[r].at])
  BY SeenMoves DEF Yield
<1>3. PICK k \in 1 .. N : k = node[r].at
  BY <1>2, SeenType
<1>4. PICK i \in 1 .. Len(job.buckets[k]) : i = node[r].item
  BY <1>2, <1>3
<1>5. Seen(r) = BucketStarts[k] + i - 1
  BY <1>2, <1>3, <1>4, SeenType
<1>6. PICK f \in 0 .. Len(job.weights) : f = Count(out[r])
  BY DEF OrderAt, Ahead
<1>7. /\ WeightStarts[f + 1] <= BucketStarts[k] + i - 1
      /\ f < Len(job.weights) => BucketStarts[k] + i - 1 < WeightStarts[f + 2]
  BY <1>5, <1>6 DEF OrderAt, Ahead
<1>8. /\ f < Len(job.weights)
      /\ \E j \in 1 .. Len(Chunks(job.weights, f + 1)) :
           /\ job.buckets[k][i] = Chunks(job.weights, f + 1)[j]
           /\ BucketStarts[k] + i = WeightStarts[f + 1] + j
           /\ Whole(job.buckets[k][i]) <=> j = Len(Chunks(job.weights, f + 1))
  BY <1>1, <1>7, NextChunk
<1>9. PICK j \in 1 .. Len(Chunks(job.weights, f + 1)) :
           /\ job.buckets[k][i] = Chunks(job.weights, f + 1)[j]
           /\ BucketStarts[k] + i = WeightStarts[f + 1] + j
           /\ Whole(job.buckets[k][i]) <=> j = Len(Chunks(job.weights, f + 1))
  BY <1>8
<1>10. Chunk(r) = job.buckets[k][i]
  BY <1>3, <1>4 DEF Chunk
<1>11. f \in Nat /\ Len(job.weights) \in Nat /\ f + 1 \in 1 .. Len(job.weights) /\ j \in Nat \ {0}
  <2>1. Len(job.weights) \in Nat
    BY <1>1, JobFacts
  <2> QED BY <1>8, <1>9, <2>1
<1>12. Chunks(job.weights, f + 1)[j].weight = f + 1
  <2>1. job.weights \in Seq(Nat \ {0}) /\ f + 1 \in DOMAIN job.weights
    BY <1>1, <1>11, JobFacts
  <2> QED BY <1>9, <2>1, ChunksRule
<1>13. Seen(r) + 1 = BucketStarts[k] + i
  <2>1. BucketStarts[k] \in Nat /\ i \in Nat
    BY <1>1, <1>3, <1>4, StartFacts
  <2> QED BY <1>5, <2>1
<1> QED BY <1>2, <1>6, <1>9, <1>10, <1>11, <1>12, <1>13

(* A chunk that completes a weight makes the next weight the one at hand.  *)
LEMMA AheadMoves ==
  ASSUME JobInv, NEW f \in Nat, NEW j \in Nat \ {0}, NEW seen \in Nat,
         f + 1 \in 1 .. Len(job.weights), j \in 1 .. Len(Chunks(job.weights, f + 1)),
         seen = WeightStarts[f + 1] + j
  PROVE  Ahead(IF j = Len(Chunks(job.weights, f + 1)) THEN f + 1 ELSE f, seen)
<1>1. PICK l \in Nat : l = Len(job.weights)
  BY JobFacts
<1>2. PICK n \in Nat : n = Len(Chunks(job.weights, f + 1))
  BY StartFacts
<1>3. PICK a \in Nat, b \in Nat : a = WeightStarts[f + 1] /\ b = WeightStarts[f + 2] /\ b = a + n
  <2>1. (f + 1) + 1 = f + 2
    OBVIOUS
  <2> QED BY <1>2, <2>1, StartFacts
<1>4. seen = a + j /\ f + 1 \in 1 .. l /\ j \in 1 .. n
  BY <1>1, <1>2, <1>3
<1>5. CASE j = n
  <2>1. f + 1 \in 0 .. l /\ (f + 1) + 1 = f + 2 /\ WeightStarts[f + 2] <= seen
    BY <1>3, <1>4, <1>5
  <2>2. ASSUME f + 1 < l PROVE seen < WeightStarts[(f + 1) + 2]
    <3>1. f + 2 \in 1 .. Len(job.weights) /\ (f + 2) + 1 = (f + 1) + 2
      BY <1>1, <1>4, <2>2
    <3>2. PICK m \in Nat \ {0} : m = Len(Chunks(job.weights, f + 2))
      BY <3>1, StartFacts
    <3>3. WeightStarts[(f + 1) + 2] = b + m
      BY <1>3, <3>1, <3>2, StartFacts
    <3> QED BY <1>3, <1>4, <1>5, <3>3
  <2> QED BY <1>1, <1>2, <1>5, <2>1, <2>2 DEF Ahead
<1>6. CASE j # n
  <2>1. f \in 0 .. l /\ WeightStarts[f + 1] <= seen /\ seen < WeightStarts[f + 2]
    BY <1>3, <1>4, <1>6
  <2> QED BY <1>1, <1>2, <1>6, <2>1 DEF Ahead
<1> QED BY <1>5, <1>6

LEMMA AheadAtFirst ==
  ASSUME JobInv
  PROVE  Ahead(0, 0)
<1>1. PICK l \in Nat \ {0} : l = Len(job.weights)
  BY JobFacts
<1>2. WeightStarts[0 + 1] = 0
  BY StartFacts
<1>3. 1 \in 1 .. Len(job.weights) /\ 1 + 1 = 0 + 2
  BY <1>1
<1>4. PICK n \in Nat \ {0} : n = Len(Chunks(job.weights, 1))
  BY <1>3, StartFacts
<1>5. WeightStarts[0 + 2] = 0 + n
  BY <1>2, <1>3, <1>4, StartFacts
<1> QED BY <1>1, <1>2, <1>5 DEF Ahead

(* Handing out a chunk keeps the order.                                    *)
LEMMA YieldOrder ==
  ASSUME Control, OutInv, NEW r \in 1 .. Receivers, OrderAt(r), [Next]_vars, Yield(r)
  PROVE  Orders(out'[r]) /\ Ahead(Count(out'[r]), Seen(r)')
<1>1. PICK f \in Nat, j \in Nat \ {0} :
           /\ f = Count(out[r]) /\ f + 1 \in 1 .. Len(job.weights)
           /\ j \in 1 .. Len(Chunks(job.weights, f + 1))
           /\ Chunk(r) = Chunks(job.weights, f + 1)[j] /\ Chunk(r).weight = f + 1
           /\ Seen(r) + 1 = WeightStarts[f + 1] + j /\ Seen(r)' = Seen(r) + 1
           /\ Whole(Chunk(r)) <=> j = Len(Chunks(job.weights, f + 1))
  BY YieldChunk
<1>2. PICK seen \in Nat : seen = Seen(r)'
  BY <1>1, SeenType
<1>3. Ahead(IF j = Len(Chunks(job.weights, f + 1)) THEN f + 1 ELSE f, seen)
  BY <1>1, <1>2, AheadMoves DEF Control
<1>4. PICK b \in OutRecords : b = Base(r)
  BY YieldEffect
<1>5. Orders(b) /\ Count(b) = f
  <2>1. CASE b = out[r]
    BY <1>1, <2>1 DEF OrderAt
  <2>2. CASE b = Flushed(r)
    BY <1>1, <2>2, FlushedOrders DEF OrderAt
  <2> QED BY <1>4, <2>1, <2>2, YieldEffect
<1>6. PICK o \in OutRecords : o = out'[r]
  BY YieldEffect
<1>7. o.loaded = b.loaded /\ o.held = (IF Whole(Chunk(r)) THEN Append(b.held, f + 1) ELSE b.held)
  BY <1>1, <1>4, <1>6, YieldEffect
<1>8. PICK l \in Nat, h \in Nat : l = Len(b.loaded) /\ h = Len(b.held)
  BY <1>4 DEF OutRecords
<1>9. f = l + h
  BY <1>5, <1>8 DEF Count
<1>10. CASE Whole(Chunk(r))
  <2>1. b.held \in Seq(Nat)
    BY <1>4 DEF OutRecords
  <2>2. /\ Len(o.held) = h + 1 /\ o.held[h + 1] = f + 1
        /\ \A i \in 1 .. h : o.held[i] = b.held[i]
    BY <1>7, <1>8, <1>10, <2>1, AppendProperties
  <2>3. \A i \in 1 .. h + 1 : o.held[i] = l + i
    <3>1. \A i \in 1 .. h : o.held[i] = l + i
      BY <1>5, <1>8, <2>2 DEF Orders
    <3>2. o.held[h + 1] = l + (h + 1)
      BY <1>9, <2>2
    <3>3. \A i \in 1 .. h + 1 : i = h + 1 \/ i \in 1 .. h
      OBVIOUS
    <3> QED BY <3>1, <3>2, <3>3
  <2>4. Orders(o)
    BY <1>5, <1>7, <1>8, <2>2, <2>3 DEF Orders
  <2>5. Count(o) = f + 1
    <3>1. Count(o) = l + (h + 1)
      BY <1>7, <1>8, <2>2 DEF Count
    <3> QED BY <1>9, <3>1
  <2> QED BY <1>1, <1>2, <1>3, <1>6, <1>10, <2>4, <2>5
<1>11. CASE ~Whole(Chunk(r))
  <2>1. Orders(o) /\ Count(o) = f
    BY <1>5, <1>7, <1>11 DEF Orders, Count
  <2> QED BY <1>1, <1>2, <1>3, <1>6, <1>11, <2>1
<1> QED BY <1>10, <1>11

(* Every step keeps the order in which weights are batched and loaded.     *)
LEMMA OrderStep ==
  ASSUME Control, OutInv, OrderInv, [Next]_vars
  PROVE  OrderInv'
<1> SUFFICES ASSUME NEW r \in 1 .. Receivers PROVE OrderAt(r)'
  BY DEF OrderInv
<1>1. OrderAt(r) /\ job' = job /\ JobInv /\ WeightStarts' = WeightStarts
  BY JobStep DEF OrderInv, Control
<1>2. \A f, seen : Ahead(f, seen)' <=> Ahead(f, seen')
  BY <1>1 DEF Ahead
<1>3. ASSUME Orders(out'[r]), Ahead(Count(out'[r]), Seen(r)'),
             node'[r].pc = "done" => out'[r].held = <<>> /\ Copies(r)' = {}
      PROVE  OrderAt(r)'
  <2>1. Orders(out[r])'
    BY <1>3 DEF Orders
  <2>2. Count(out[r])' = Count(out'[r])
    BY DEF Count
  <2>3. Ahead(Count(out[r]), Seen(r))'
    BY <1>1, <1>3, <2>2 DEF Ahead
  <2> QED BY <1>3, <2>1, <2>3 DEF OrderAt
<1>4. Copies(r)' = {c \in out'[r].copying : ~KeptAsView(c.weight)}
  BY <1>1 DEF Copies, KeptAsView, Size, Mooncake
<1>5. CASE Yield(r)
  <2>1. node'[r].pc = "yield"
    BY <1>5, ReceiverMoves DEF Yield, Goes
  <2> QED BY <1>1, <1>3, <1>5, <2>1, YieldOrder
<1>6. CASE NextUpdate
  <2>1. out'[r].loaded = <<>> /\ out'[r].held = <<>> /\ out'[r].copying = {}
    BY <1>6, NextEffect
  <2>2. Orders(out'[r]) /\ Count(out'[r]) = 0
    BY <2>1 DEF Orders, Count
  <2>3. Seen(r)' = 0
    BY <1>6, SeenMoves
  <2>4. Ahead(0, 0)
    BY <1>1, AheadAtFirst
  <2>5. Copies(r)' = {}
    BY <1>4, <2>1
  <2> QED BY <1>3, <2>1, <2>2, <2>3, <2>4, <2>5
<1>7. CASE ~Yield(r) /\ ~NextUpdate
  <2>1. Seen(r)' = Seen(r)
    BY <1>7, SeenSame
  <2>2. CASE SendLarge(r) \/ FinalFlush(r)
    <3>1. out'[r] = Flushed(r) /\ Copies(r) = {}
      BY <2>2, FlushEffect
    <3>2. Orders(out'[r]) /\ Count(out'[r]) = Count(out[r]) /\ out'[r].held = <<>>
      BY <1>1, <3>1, FlushedOrders DEF OrderAt
    <3>3. Copies(r)' = {}
      BY <1>4, <3>1 DEF Flushed, Copies
    <3> QED BY <1>1, <1>3, <2>1, <3>2, <3>3 DEF OrderAt
  <2>3. CASE ~(SendLarge(r) \/ FinalFlush(r)) /\ (out'[r] = out[r] \/ Copy(r))
    <3>1. out'[r].held = out[r].held /\ out'[r].loaded = out[r].loaded /\ out'[r].copying \subseteq out[r].copying
      BY <2>3, CopyEffect
    <3>2. Orders(out'[r]) /\ Count(out'[r]) = Count(out[r])
      BY <1>1, <3>1 DEF OrderAt, Orders, Count
    <3>3. node'[r].pc = "done" => node[r].pc = "done"
      BY <2>3, PlaceStep
    <3>4. Copies(r)' \subseteq Copies(r)
      BY <1>4, <3>1 DEF Copies
    <3> QED BY <1>1, <1>3, <2>1, <3>1, <3>2, <3>3, <3>4 DEF OrderAt
  <2> QED BY <1>7, <2>2, <2>3, OutChanges
<1> QED BY <1>5, <1>6, <1>7

LEMMA InitOut == Init => OutInv /\ OrderInv
<1> SUFFICES ASSUME Init PROVE OutInv /\ OrderInv
  OBVIOUS
<1>1. JobInv /\ N \in Nat \ {0}
  <2>1. JobInv
    BY InitType
  <2> QED BY <2>1, JobFacts
<1>2. out = NothingOut
  BY DEF Init
<1>3. \A r \in 1 .. Receivers : out[r] = [copying |-> {}, got |-> {}, held |-> <<>>, loaded |-> <<>>]
  BY <1>2 DEF NothingOut
<1>4. OutInv
  <2>1. [copying |-> {}, got |-> {}, held |-> <<>>, loaded |-> <<>>] \in OutRecords
    BY DEF OutRecords
  <2> QED BY <1>2, <2>1 DEF OutInv, NothingOut
<1>5. ASSUME NEW r \in 1 .. Receivers PROVE OrderAt(r)
  <2>1. node[r].pc = "receive" /\ node[r].at = 0
    <3>1. r \in Ranks /\ r # 0
      BY TransferAssumption DEF Ranks
    <3> QED BY <3>1 DEF Init, Fresh
  <2>2. Seen(r) = 0
    BY <1>1, <2>1, StartFacts DEF Seen
  <2>3. Orders(out[r]) /\ Count(out[r]) = 0
    <3>1. out[r].loaded = <<>> /\ out[r].held = <<>>
      BY <1>3
    <3> QED BY <3>1 DEF Orders, Count
  <2>4. Ahead(0, 0)
    BY <1>1, AheadAtFirst
  <2> QED BY <2>1, <2>2, <2>3, <2>4 DEF OrderAt
<1> QED BY <1>4, <1>5 DEF OrderInv

(* ------------------------- what the engines load ----------------------- *)
(* A copy not done yet is of a chunk of the bucket at hand; every chunk    *)
(* seen of a weight not loaded yet is being copied or has been; and what   *)
(* has been copied or loaded are the bytes of the weight.                  *)
InBucket(k, w, offset) ==
  \E c \in Range(Chunks(job.weights, w)) : c.offset = offset /\ c \in Range(job.buckets[k])
Placed(r) ==
  \A d \in Copies(r) :
    /\ node[r].pc \in {"yield", "flush"} /\ d.slot = Slot(node[r].at)
    /\ d.weight \in 1 .. Len(job.weights) /\ InBucket(node[r].at, d.weight, d.offset)
Covered(o, seen) ==
  \A w \in 1 .. Len(job.weights) : \A j \in 1 .. Len(Chunks(job.weights, w)) :
    w > Len(o.loaded) /\ ~KeptAsView(w) /\ WeightStarts[w] + j <= seen =>
      \/ \E d \in o.copying : d.weight = w /\ d.offset = Chunks(job.weights, w)[j].offset
      \/ \E x \in o.got : x.weight = w /\ x.offset = Chunks(job.weights, w)[j].offset
Sound(o) == \A x \in o.got : x.weight \in 1 .. Len(job.weights) /\ x \in PartsOf(x.weight)
Right(o) ==
  \A i \in 1 .. Len(o.loaded) :
    KeptAsView(o.loaded[i].weight) \/ o.loaded[i].parts = PartsOf(o.loaded[i].weight)
CopyInv ==
  \A r \in 1 .. Receivers :
    /\ Placed(r) /\ Covered(out[r], Seen(r))
    /\ ~stale => Sound(out[r]) /\ Right(out[r])

(* Weights follow one another in the stream of chunks.                     *)
LEMMA WeightOrder ==
  ASSUME JobInv, NEW f \in 0 .. Len(job.weights), NEW w \in 1 .. f
  PROVE  WeightStarts[w + 1] <= WeightStarts[f + 1]
<1>1. PICK l \in Nat : l = Len(job.weights) /\ l = Len(ByWeight(job.weights))
  BY JobFacts
<1>2. w + 1 \in 1 .. Len(ByWeight(job.weights)) + 1 /\ f + 1 \in w + 1 .. Len(ByWeight(job.weights)) + 1
  BY <1>1
<1> QED BY <1>2, JobFacts, StartsIncrease DEF WeightStarts

(* A place in the stream is of one weight and one chunk of it.             *)
LEMMA WeightPlace ==
  ASSUME JobInv, NEW v \in 1 .. Len(job.weights), NEW w \in 1 .. Len(job.weights),
         NEW i \in 1 .. Len(Chunks(job.weights, v)), NEW j \in 1 .. Len(Chunks(job.weights, w)),
         WeightStarts[v] + i = WeightStarts[w] + j
  PROVE  v = w /\ i = j
<1>1. PICK a \in Nat, b \in Nat : a = WeightStarts[v] /\ b = WeightStarts[w]
  BY StartFacts
<1>2. PICK m \in Nat, n \in Nat : m = Len(Chunks(job.weights, v)) /\ n = Len(Chunks(job.weights, w))
  BY StartFacts
<1>3. WeightStarts[v + 1] = a + m /\ WeightStarts[w + 1] = b + n
  BY <1>1, <1>2, StartFacts
<1>4. a + i = b + j /\ i \in 1 .. m /\ j \in 1 .. n
  BY <1>1, <1>2
<1>5. PICK p \in Int : p = a + i /\ p = b + j /\ a < p /\ p <= a + m /\ b < p /\ p <= b + n
  BY <1>4
<1>6. v \in 1 .. Len(ByWeight(job.weights)) /\ w \in 1 .. Len(ByWeight(job.weights))
  BY JobFacts
<1>7. v = w
  BY <1>1, <1>3, <1>5, <1>6, JobFacts, StartsOrder DEF WeightStarts
<1> QED BY <1>1, <1>4, <1>7

(* The parts of a weight have different offsets.                           *)
LEMMA PartsDiffer ==
  ASSUME JobInv, NEW w \in 1 .. Len(job.weights), NEW x \in PartsOf(w), NEW y \in PartsOf(w),
         x.offset = y.offset
  PROVE  x = y
<1>1. PICK c \in Range(Chunks(job.weights, w)) :
        x = [weight |-> w, offset |-> c.offset, value |-> <<version, BucketOf(c)>>]
  BY DEF PartsOf
<1>2. PICK d \in Range(Chunks(job.weights, w)) :
        y = [weight |-> w, offset |-> d.offset, value |-> <<version, BucketOf(d)>>]
  BY DEF PartsOf
<1>3. job.weights \in Seq(Nat \ {0}) /\ w \in DOMAIN job.weights
  BY JobFacts
<1>4. Chunks(job.weights, w) \in Seq(ChunkRecords)
  BY <1>3, ChunksRule
<1>5. DOMAIN Chunks(job.weights, w) = 1 .. Len(Chunks(job.weights, w))
  BY <1>4
<1>6. PICK i \in 1 .. Len(Chunks(job.weights, w)) : c = Chunks(job.weights, w)[i]
  BY <1>1, <1>5 DEF Range
<1>7. PICK j \in 1 .. Len(Chunks(job.weights, w)) : d = Chunks(job.weights, w)[j]
  BY <1>2, <1>5 DEF Range
<1>8. c.offset = d.offset
  BY <1>1, <1>2
<1>9. i = j
  BY <1>3, <1>6, <1>7, <1>8, ChunksRule
<1> QED BY <1>1, <1>2, <1>6, <1>7, <1>9

(* The batch holds no weight beyond those counted.                         *)
LEMMA HeldRange ==
  ASSUME Control, OutInv, NEW r \in 1 .. Receivers, OrderAt(r)
  PROVE  \A w \in Range(out[r].held) : w <= Count(out[r])
<1>1. out[r].held \in Seq(Nat) /\ Len(out[r].loaded) \in Nat
  BY DEF OutInv, OutRecords
<1>2. PICK l \in Nat, h \in Nat : l = Len(out[r].loaded) /\ h = Len(out[r].held) /\ DOMAIN out[r].held = 1 .. h
  BY <1>1
<1>3. \A k \in 1 .. h : out[r].held[k] = l + k
  BY <1>2 DEF OrderAt, Orders
<1>4. Count(out[r]) = l + h
  BY <1>2 DEF Count
<1>5. ASSUME NEW w \in Range(out[r].held) PROVE w <= l + h
  <2>1. PICK k \in 1 .. h : w = out[r].held[k]
    BY <1>2 DEF Range
  <2>2. w = l + k
    BY <1>3, <2>1
  <2> QED BY <2>2
<1> QED BY <1>4, <1>5

LEMMA OutLengths ==
  ASSUME OutInv, NEW r \in 1 .. Receivers
  PROVE  Len(out[r].loaded) \in Nat /\ Len(out[r].held) \in Nat
<1>1. out[r] \in OutRecords
  BY DEF OutInv
<1>2. out[r].loaded \in Seq([weight : Nat, parts : SUBSET Pieces]) /\ out[r].held \in Seq(Nat)
  BY <1>1 DEF OutRecords
<1> QED BY <1>2, LenProperties

(* A flush leaves the parts of the weights not loaded yet.                 *)
LEMMA FlushedCovered ==
  ASSUME Control, OutInv, NEW r \in 1 .. Receivers, OrderAt(r), Covered(out[r], Seen(r)), Copies(r) = {}
  PROVE  Covered(Flushed(r), Seen(r))
<1> SUFFICES ASSUME NEW w \in 1 .. Len(job.weights), NEW j \in 1 .. Len(Chunks(job.weights, w)),
                    w > Len(Flushed(r).loaded), ~KeptAsView(w), WeightStarts[w] + j <= Seen(r)
             PROVE  \E x \in Flushed(r).got : x.weight = w /\ x.offset = Chunks(job.weights, w)[j].offset
  BY DEF Covered
<1>1. PICK l \in Nat, h \in Nat : l = Len(out[r].loaded) /\ h = Len(out[r].held)
  BY OutLengths
<1>2. Len(Flushed(r).loaded) = l + h /\ Count(out[r]) = l + h
  BY <1>1, FlushedRule DEF Count
<1>3. w > l /\ ~(w <= l + h)
  <2>1. Len(job.weights) \in Nat
    BY JobFacts DEF Control
  <2>2. w \in Nat /\ w > l + h
    BY <1>2, <2>1
  <2> QED BY <2>2
<1>4. ~ \E d \in out[r].copying : d.weight = w
  BY DEF Copies
<1>5. PICK x \in out[r].got : x.weight = w /\ x.offset = Chunks(job.weights, w)[j].offset
  BY <1>1, <1>3, <1>4 DEF Covered
<1>6. w \notin Range(out[r].held)
  BY <1>2, <1>3, HeldRange
<1> QED BY <1>5, <1>6 DEF Flushed

(* Once the copies are done, what a flush loads of a weight is all of it.  *)
LEMMA LoadsAll ==
  ASSUME Control, OutInv, NEW r \in 1 .. Receivers, OrderAt(r), Covered(out[r], Seen(r)), Sound(out[r]),
         Copies(r) = {}, NEW w \in 1 .. Count(out[r]), w > Len(out[r].loaded), ~KeptAsView(w)
  PROVE  Parts(r, w) = PartsOf(w)
<1>1. PICK f \in 0 .. Len(job.weights) : f = Count(out[r]) /\ WeightStarts[f + 1] <= Seen(r)
  BY DEF OrderAt, Ahead
<1>2. w \in 1 .. f /\ w \in 1 .. Len(job.weights) /\ JobInv
  <2>1. Len(job.weights) \in Nat /\ JobInv
    BY JobFacts DEF Control
  <2> QED BY <1>1, <2>1
<1>3. Parts(r, w) = {p \in out[r].got : p.weight = w}
  BY DEF Parts
<1>4. ASSUME NEW p \in out[r].got, p.weight = w PROVE p \in PartsOf(w)
  BY <1>4 DEF Sound
<1>5. ASSUME NEW y \in PartsOf(w) PROVE y \in out[r].got /\ y.weight = w
  <2>1. PICK c \in Range(Chunks(job.weights, w)) :
          y = [weight |-> w, offset |-> c.offset, value |-> <<version, BucketOf(c)>>]
    BY <1>5 DEF PartsOf
  <2>2. DOMAIN Chunks(job.weights, w) = 1 .. Len(Chunks(job.weights, w))
    <3>1. job.weights \in Seq(Nat \ {0}) /\ w \in DOMAIN job.weights
      BY <1>2, JobFacts
    <3>2. Chunks(job.weights, w) \in Seq(ChunkRecords)
      BY <3>1, ChunksRule
    <3> QED BY <3>2
  <2>3. PICK j \in 1 .. Len(Chunks(job.weights, w)) : c = Chunks(job.weights, w)[j]
    BY <2>1, <2>2 DEF Range
  <2>4. WeightStarts[w] + j <= Seen(r)
    <3>1. PICK a \in Nat, b \in Nat : a = WeightStarts[w] /\ b = WeightStarts[w + 1]
      BY <1>2, StartFacts
    <3>2. PICK n \in Nat : n = Len(Chunks(job.weights, w)) /\ b = a + n
      BY <1>2, <3>1, StartFacts
    <3>3. PICK s \in Nat : s = Seen(r)
      BY SeenType
    <3>4. PICK e \in Nat : e = WeightStarts[f + 1]
      <4>1. f \in 1 .. Len(job.weights)
        BY <1>1, <1>2
      <4> QED BY <1>2, <4>1, StartFacts
    <3>5. b <= e /\ e <= s
      BY <1>1, <1>2, <3>1, <3>3, <3>4, WeightOrder
    <3>6. j \in 1 .. n
      BY <3>2
    <3>7. a + j <= s
      BY <3>2, <3>5, <3>6
    <3> QED BY <3>1, <3>3, <3>7
  <2>5. ~ \E d \in out[r].copying : d.weight = w
    BY DEF Copies
  <2>6. PICK x \in out[r].got : x.weight = w /\ x.offset = c.offset
    BY <1>2, <2>3, <2>4, <2>5 DEF Covered
  <2>7. x \in PartsOf(w)
    BY <1>4, <2>6
  <2>8. x = y
    BY <1>2, <1>5, <2>1, <2>6, <2>7, PartsDiffer
  <2> QED BY <2>6, <2>8
<1> QED BY <1>3, <1>4, <1>5

(* What a flush loads are the bytes of the weights.                        *)
LEMMA FlushedRight ==
  ASSUME Control, OutInv, NEW r \in 1 .. Receivers, OrderAt(r), Covered(out[r], Seen(r)),
         Sound(out[r]), Right(out[r]), Copies(r) = {}
  PROVE  Sound(Flushed(r)) /\ Right(Flushed(r))
<1>1. PICK l \in Nat, h \in Nat : l = Len(out[r].loaded) /\ h = Len(out[r].held)
  BY OutLengths
<1>2. Count(out[r]) = l + h
  BY <1>1 DEF Count
<1>3. /\ Len(Flushed(r).loaded) = l + h
      /\ \A i \in 1 .. l : Flushed(r).loaded[i] = out[r].loaded[i]
      /\ \A i \in 1 .. h : Flushed(r).loaded[l + i] =
           [weight |-> out[r].held[i], parts |-> Parts(r, out[r].held[i])]
  BY <1>1, FlushedRule
<1>4. Sound(Flushed(r))
  BY DEF Sound, Flushed
<1>5. ASSUME NEW i \in 1 .. l + h, ~KeptAsView(Flushed(r).loaded[i].weight)
      PROVE  Flushed(r).loaded[i].parts = PartsOf(Flushed(r).loaded[i].weight)
  <2>1. CASE i <= l
    <3>1. i \in 1 .. l /\ i \in 1 .. Len(out[r].loaded)
      BY <1>1, <2>1
    <3>2. Flushed(r).loaded[i] = out[r].loaded[i]
      BY <1>3, <3>1
    <3> QED BY <1>5, <3>1, <3>2 DEF Right
  <2>2. CASE ~(i <= l)
    <3>1. PICK k \in 1 .. h : l + k = i
      <4>1. i - l \in 1 .. h /\ l + (i - l) = i
        BY <2>2
      <4> QED BY <4>1
    <3>2. out[r].held[k] = i
      BY <1>1, <3>1 DEF OrderAt, Orders
    <3>3. Flushed(r).loaded[i] = [weight |-> i, parts |-> Parts(r, i)]
      BY <1>3, <3>1, <3>2
    <3>4. Flushed(r).loaded[i].weight = i /\ Flushed(r).loaded[i].parts = Parts(r, i)
      BY <3>3
    <3>5. i \in 1 .. Count(out[r]) /\ i > Len(out[r].loaded)
      <4>1. i > l
        BY <2>2
      <4> QED BY <1>1, <1>2, <4>1
    <3> QED BY <1>5, <3>4, <3>5, LoadsAll
  <2> QED BY <2>1, <2>2
<1> QED BY <1>3, <1>4, <1>5 DEF Right

(* A chunk that is handed out is being copied.                             *)
LEMMA YieldCovered ==
  ASSUME Control, OutInv, NEW r \in 1 .. Receivers, OrderAt(r), Covered(out[r], Seen(r)),
         [Next]_vars, Yield(r)
  PROVE  Covered(out'[r], Seen(r)')
<1>1. PICK f \in Nat, j0 \in Nat \ {0} :
           /\ f = Count(out[r]) /\ f + 1 \in 1 .. Len(job.weights)
           /\ j0 \in 1 .. Len(Chunks(job.weights, f + 1))
           /\ Chunk(r) = Chunks(job.weights, f + 1)[j0] /\ Chunk(r).weight = f + 1
           /\ Seen(r) + 1 = WeightStarts[f + 1] + j0 /\ Seen(r)' = Seen(r) + 1
  BY YieldChunk
<1>2. PICK b \in OutRecords : b = Base(r)
  BY YieldEffect
<1>3. Covered(b, Seen(r))
  <2>1. CASE b = out[r]
    BY <2>1
  <2>2. CASE b = Flushed(r) /\ Copies(r) = {}
    BY <2>2, FlushedCovered
  <2> QED BY <1>2, <2>1, <2>2, YieldEffect
<1>4. PICK o \in OutRecords : o = out'[r]
  BY YieldEffect
<1>5. o.copying = b.copying \cup {NewCopy(r)} /\ o.got = b.got /\ o.loaded = b.loaded
  BY <1>2, <1>4, YieldEffect
<1>6. PICK s \in Nat : s = Seen(r) /\ s + 1 = Seen(r)'
  BY <1>1, SeenType
<1>7. ASSUME NEW w \in 1 .. Len(job.weights), NEW j \in 1 .. Len(Chunks(job.weights, w)),
             w > Len(o.loaded), ~KeptAsView(w), WeightStarts[w] + j <= s + 1
      PROVE  \/ \E d \in o.copying : d.weight = w /\ d.offset = Chunks(job.weights, w)[j].offset
             \/ \E x \in o.got : x.weight = w /\ x.offset = Chunks(job.weights, w)[j].offset
  <2>1. CASE WeightStarts[w] + j <= s
    <3>1. \/ \E d \in b.copying : d.weight = w /\ d.offset = Chunks(job.weights, w)[j].offset
          \/ \E x \in b.got : x.weight = w /\ x.offset = Chunks(job.weights, w)[j].offset
      BY <1>3, <1>5, <1>6, <1>7, <2>1 DEF Covered
    <3> QED BY <1>5, <3>1
  <2>2. CASE ~(WeightStarts[w] + j <= s)
    <3>1. PICK a \in Nat : a = WeightStarts[w]
      BY StartFacts DEF Control
    <3>2. j \in Int
      OBVIOUS
    <3>3. a + j = s + 1
      BY <1>7, <2>2, <3>1, <3>2
    <3>4. w = f + 1 /\ j = j0
      BY <1>1, <1>6, <3>1, <3>3, WeightPlace DEF Control
    <3>5. NewCopy(r).weight = w /\ NewCopy(r).offset = Chunks(job.weights, w)[j].offset
      BY <1>1, <3>4 DEF NewCopy
    <3> QED BY <1>5, <3>5
  <2> QED BY <2>1, <2>2
<1>8. Covered(o, s + 1)
  BY <1>7 DEF Covered
<1> QED BY <1>4, <1>6, <1>8

(* And its copy reads from the bucket at hand.                             *)
LEMMA YieldPlaced ==
  ASSUME Control, OutInv, NEW r \in 1 .. Receivers, OrderAt(r), Placed(r), [Next]_vars, Yield(r)
  PROVE  \A d \in out'[r].copying : ~KeptAsView(d.weight) =>
           /\ d.slot = Slot(node[r].at)
           /\ d.weight \in 1 .. Len(job.weights) /\ InBucket(node[r].at, d.weight, d.offset)
<1>1. PICK f \in Nat, j \in Nat \ {0} :
           /\ f + 1 \in 1 .. Len(job.weights)
           /\ j \in 1 .. Len(Chunks(job.weights, f + 1))
           /\ Chunk(r) = Chunks(job.weights, f + 1)[j] /\ Chunk(r).weight = f + 1
  BY YieldChunk
<1>2. Base(r).copying \subseteq out[r].copying
  <2>1. Flushed(r).copying \subseteq out[r].copying
    BY DEF Flushed
  <2>2. Base(r) = out[r] \/ Base(r) = Flushed(r)
    BY YieldEffect
  <2> QED BY <2>1, <2>2
<1>3. out'[r].copying = Base(r).copying \cup {NewCopy(r)}
  BY YieldEffect
<1>4. ASSUME NEW d \in Base(r).copying, ~KeptAsView(d.weight)
      PROVE  /\ d.slot = Slot(node[r].at)
             /\ d.weight \in 1 .. Len(job.weights) /\ InBucket(node[r].at, d.weight, d.offset)
  BY <1>2, <1>4 DEF Placed, Copies
<1>5. node[r].pc = "yield" /\ node[r].item \in 1 .. Len(job.buckets[node[r].at])
  BY SeenMoves DEF Yield
<1>6. PICK k \in 1 .. N : k = node[r].at
  BY <1>5, SeenType
<1>7. NewCopy(r).slot = Slot(k)
  <2>1. k \in Nat \ {0} /\ node[r].slot = k % 2
    <3>1. ReceiverAt(r) /\ N \in Nat \ {0}
      BY ControlFacts
    <3> QED BY <1>6, <3>1 DEF ReceiverAt
  <2>2. Slot(k) \in {0, 1} /\ k % 2 = Slot(k + 1) /\ Slot(k + 1) = 1 - Slot(k)
    BY <2>1, Parity
  <2>3. 1 - node[r].slot = Slot(k)
    BY <2>1, <2>2
  <2> QED BY <2>3 DEF NewCopy
<1>8. InBucket(k, f + 1, Chunk(r).offset)
  <2>1. Chunk(r) \in Range(Chunks(job.weights, f + 1))
    <3>1. job.weights \in Seq(Nat \ {0}) /\ f + 1 \in DOMAIN job.weights
      BY <1>1, JobFacts DEF Control
    <3>2. Chunks(job.weights, f + 1) \in Seq(ChunkRecords)
      BY <3>1, ChunksRule
    <3>3. j \in DOMAIN Chunks(job.weights, f + 1)
      BY <1>1, <3>2
    <3> QED BY <1>1, <3>3 DEF Range
  <2>2. Chunk(r) \in Range(job.buckets[k])
    <3>1. job.buckets[k] \in Seq(ChunkRecords)
      BY BucketType DEF Control
    <3>2. node[r].item \in DOMAIN job.buckets[k]
      BY <1>5, <1>6, <3>1
    <3> QED BY <1>6, <3>2 DEF Range, Chunk
  <2> QED BY <2>1, <2>2 DEF InBucket
<1>9. NewCopy(r).weight = f + 1 /\ NewCopy(r).offset = Chunk(r).offset
  BY <1>1 DEF NewCopy
<1> QED BY <1>1, <1>3, <1>4, <1>6, <1>7, <1>8, <1>9

(* A copy reads the bucket its chunk came in, in this version.             *)
LEMMA CopyReads ==
  ASSUME Control, BufferInv, ~stale, OutInv, NEW r \in 1 .. Receivers, Placed(r), NEW d \in Copies(r)
  PROVE  /\ d.weight \in 1 .. Len(job.weights) /\ Reading(r, d, d.slot).weight = d.weight
         /\ Reading(r, d, d.slot).offset = d.offset
         /\ Reading(r, d, d.slot) \in PartsOf(d.weight)
<1>1. /\ node[r].pc \in {"yield", "flush"} /\ d.slot = Slot(node[r].at)
      /\ d.weight \in 1 .. Len(job.weights) /\ InBucket(node[r].at, d.weight, d.offset)
  BY DEF Placed
<1>2. PICK k \in 1 .. N : k = node[r].at
  <2>1. ReceiverAt(r) /\ N \in Nat \ {0} /\ node[r].at \in 0 .. N
    BY ControlFacts
  <2>2. node[r].pc = "yield" => node[r].at \in 1 .. N
    BY SeenType
  <2>3. node[r].pc = "flush" => node[r].at = N
    BY <2>1 DEF ReceiverAt
  <2> QED BY <1>1, <2>1, <2>2, <2>3
<1>3. buf[r][d.slot] = <<version, k>>
  <2>1. BufferAt(r) /\ N \in Nat
    BY ControlFacts DEF BufferInv
  <2>2. node[r].at >= 1 /\ node[r].pc # "receive"
    BY <1>1, <1>2, <2>1
  <2> QED BY <1>1, <1>2, <2>1, <2>2 DEF BufferAt
<1>4. PICK c \in Range(Chunks(job.weights, d.weight)) : c.offset = d.offset /\ c \in Range(job.buckets[k])
  BY <1>1, <1>2 DEF InBucket
<1>5. BucketOf(c) = k
  BY <1>4, BucketOfRule DEF Control
<1>6. Reading(r, d, d.slot) = [weight |-> d.weight, offset |-> d.offset, value |-> <<version, k>>]
  BY <1>3 DEF Reading
<1>7. [weight |-> d.weight, offset |-> c.offset, value |-> <<version, BucketOf(c)>>] \in PartsOf(d.weight)
  BY <1>4 DEF PartsOf
<1> QED BY <1>1, <1>4, <1>5, <1>6, <1>7

(* No step loses a chunk that was seen.                                    *)
LEMMA CoveredStep ==
  ASSUME Control, OutInv, OrderInv, CopyInv, [Next]_vars, NEW r \in 1 .. Receivers
  PROVE  Covered(out[r], Seen(r))'
<1>1. OrderAt(r) /\ Covered(out[r], Seen(r)) /\ Placed(r)
  BY DEF OrderInv, CopyInv
<1>2. job' = job /\ WeightStarts' = WeightStarts
  BY JobStep DEF Control
<1>3. SUFFICES Covered(out'[r], Seen(r)')
  BY <1>2 DEF Covered, KeptAsView, Size, Mooncake
<1>4. CASE Yield(r)
  BY <1>1, <1>4, YieldCovered
<1>5. CASE NextUpdate
  <2>1. Seen(r)' = 0
    BY <1>5, SeenMoves
  <2>2. ASSUME NEW w \in 1 .. Len(job.weights), NEW j \in 1 .. Len(Chunks(job.weights, w))
        PROVE  ~(WeightStarts[w] + j <= 0)
    <3>1. PICK a \in Nat, n \in Nat : a = WeightStarts[w] /\ n = Len(Chunks(job.weights, w))
      BY StartFacts DEF Control
    <3>2. j \in 1 .. n
      BY <3>1
    <3> QED BY <3>1, <3>2
  <2> QED BY <2>1, <2>2 DEF Covered
<1>6. CASE ~Yield(r) /\ ~NextUpdate
  <2>1. Seen(r)' = Seen(r)
    BY <1>6, SeenSame
  <2>2. CASE SendLarge(r) \/ FinalFlush(r)
    BY <1>1, <2>1, <2>2, FlushEffect, FlushedCovered
  <2>3. CASE Copy(r)
    <3>1. PICK c \in Copies(r) : /\ out'[r].copying = out[r].copying \ {c}
                                 /\ out'[r].got = out[r].got \cup {Reading(r, c, c.slot)}
      BY <2>3, CopyEffect
    <3>2. out'[r].loaded = out[r].loaded
      BY <2>3, CopyEffect
    <3>3. Reading(r, c, c.slot).weight = c.weight /\ Reading(r, c, c.slot).offset = c.offset
      BY DEF Reading
    <3>4. ASSUME NEW w \in 1 .. Len(job.weights), NEW j \in 1 .. Len(Chunks(job.weights, w)),
                 w > Len(out'[r].loaded), ~KeptAsView(w), WeightStarts[w] + j <= Seen(r)
          PROVE  \/ \E d \in out'[r].copying : d.weight = w /\ d.offset = Chunks(job.weights, w)[j].offset
                 \/ \E x \in out'[r].got : x.weight = w /\ x.offset = Chunks(job.weights, w)[j].offset
      <4>1. \/ \E d \in out[r].copying : d.weight = w /\ d.offset = Chunks(job.weights, w)[j].offset
            \/ \E x \in out[r].got : x.weight = w /\ x.offset = Chunks(job.weights, w)[j].offset
        BY <1>1, <3>2, <3>4 DEF Covered
      <4> QED BY <3>1, <3>3, <4>1
    <3> QED BY <2>1, <3>4 DEF Covered
  <2>4. CASE out'[r] = out[r]
    BY <1>1, <2>1, <2>4
  <2> QED BY <1>6, <2>2, <2>3, <2>4, OutChanges
<1> QED BY <1>4, <1>5, <1>6

(* No step leaves a copy behind that would read a buffer in use again.     *)
LEMMA PlacedStep ==
  ASSUME Control, OutInv, OrderInv, CopyInv, [Next]_vars, NEW r \in 1 .. Receivers
  PROVE  Placed(r)'
<1>1. OrderAt(r) /\ Placed(r)
  BY DEF OrderInv, CopyInv
<1>2. job' = job
  BY JobStep DEF Control
<1>3. Copies(r)' = {c \in out'[r].copying : ~KeptAsView(c.weight)}
  BY <1>2 DEF Copies, KeptAsView, Size, Mooncake
<1>4. ASSUME \A d \in out'[r].copying : ~KeptAsView(d.weight) =>
               /\ node'[r].pc \in {"yield", "flush"} /\ d.slot = Slot(node'[r].at)
               /\ d.weight \in 1 .. Len(job.weights) /\ InBucket(node'[r].at, d.weight, d.offset)
      PROVE  Placed(r)'
  BY <1>2, <1>3, <1>4 DEF Placed, InBucket
<1>5. CASE Yield(r)
  <2>1. node'[r].pc = "yield" /\ node'[r].at = node[r].at
    BY <1>5, ReceiverMoves DEF Yield, Goes
  <2> QED BY <1>1, <1>4, <1>5, <2>1, YieldPlaced
<1>6. CASE NextUpdate
  BY <1>4, <1>6, NextEffect
<1>7. CASE ~Yield(r) /\ ~NextUpdate
  <2>1. out'[r].copying \subseteq out[r].copying
    <3>1. CASE SendLarge(r) \/ FinalFlush(r)
      <4>1. out'[r] = Flushed(r)
        BY <3>1, FlushEffect
      <4> QED BY <4>1 DEF Flushed
    <3>2. CASE Copy(r)
      BY <3>2, CopyEffect
    <3> QED BY <1>7, <3>1, <3>2, OutChanges
  <2>2. CASE Copies(r) = {}
    BY <1>4, <2>1, <2>2 DEF Copies
  <2>3. CASE Copies(r) # {}
    <3>1. node[r].pc \in {"yield", "flush"}
      BY <1>1, <2>3 DEF Placed
    <3>2. node'[r].pc \in {"yield", "flush"} /\ node'[r].at = node[r].at
      BY <2>3, <3>1, PlaceStep
    <3> QED BY <1>1, <1>4, <2>1, <3>2 DEF Placed, Copies
  <2> QED BY <2>2, <2>3
<1> QED BY <1>5, <1>6, <1>7

(* Every step keeps what is copied and loaded right.                       *)
LEMMA RightStep ==
  ASSUME Control, BufferInv, OutInv, OrderInv, CopyInv, [Next]_vars, ~stale', NEW r \in 1 .. Receivers
  PROVE  (Sound(out[r]) /\ Right(out[r]))'
<1>1. OrderAt(r) /\ Placed(r) /\ Covered(out[r], Seen(r)) /\ ~stale /\ Sound(out[r]) /\ Right(out[r])
  BY StaleStep DEF OrderInv, CopyInv
<1>2. job' = job
  BY JobStep DEF Control
<1>3. CASE NextUpdate
  <2>1. out'[r].got = {} /\ out'[r].loaded = <<>>
    BY <1>3, NextEffect
  <2> QED BY <2>1 DEF Sound, Right
<1>4. CASE ~NextUpdate
  <2>1. version' = version
    BY <1>4, VersionStep
  <2>2. ASSUME Sound(out'[r]), Right(out'[r]) PROVE (Sound(out[r]) /\ Right(out[r]))'
    <3>1. \A w : PartsOf(w)' = PartsOf(w)
      BY <1>2, <2>1 DEF PartsOf, BucketOf
    <3>2. \A w : KeptAsView(w)' <=> KeptAsView(w)
      BY <1>2 DEF KeptAsView, Size, Mooncake
    <3> QED BY <1>2, <2>2, <3>1, <3>2 DEF Sound, Right
  <2>3. CASE Yield(r)
    <3>1. Sound(Base(r)) /\ Right(Base(r))
      BY <1>1, <2>3, YieldEffect, FlushedRight
    <3>2. out'[r].got = Base(r).got /\ out'[r].loaded = Base(r).loaded
      BY <2>3, YieldEffect
    <3> QED BY <2>2, <3>1, <3>2 DEF Sound, Right
  <2>4. CASE SendLarge(r) \/ FinalFlush(r)
    BY <1>1, <2>2, <2>4, FlushEffect, FlushedRight
  <2>5. CASE Copy(r)
    <3>1. PICK c \in Copies(r) : out'[r].got = out[r].got \cup {Reading(r, c, c.slot)}
      BY <2>5, CopyEffect
    <3>2. out'[r].loaded = out[r].loaded
      BY <2>5, CopyEffect
    <3>3. /\ Reading(r, c, c.slot).weight \in 1 .. Len(job.weights)
          /\ Reading(r, c, c.slot) \in PartsOf(Reading(r, c, c.slot).weight)
      BY <1>1, CopyReads
    <3> QED BY <1>1, <2>2, <3>1, <3>2, <3>3 DEF Sound, Right
  <2>6. CASE out'[r] = out[r]
    BY <1>1, <2>2, <2>6
  <2> QED BY <1>4, <2>3, <2>4, <2>5, <2>6, OutChanges
<1> QED BY <1>3, <1>4

LEMMA CopyStep ==
  ASSUME Control, BufferInv, OutInv, OrderInv, CopyInv, [Next]_vars
  PROVE  CopyInv'
BY CoveredStep, PlacedStep, RightStep, JobStep DEF CopyInv

(* Nothing is copied or loaded at the start.                               *)
LEMMA InitCopies == Init => CopyInv
<1> SUFFICES ASSUME Init, NEW r \in 1 .. Receivers
             PROVE  Placed(r) /\ Covered(out[r], Seen(r)) /\ Sound(out[r]) /\ Right(out[r])
  BY DEF CopyInv
<1>1. out[r] = [copying |-> {}, got |-> {}, held |-> <<>>, loaded |-> <<>>]
  BY DEF Init, NothingOut
<1>2. JobInv /\ N \in Nat \ {0}
  <2>1. JobInv
    BY InitType
  <2> QED BY <2>1, JobFacts
<1>3. Seen(r) = 0
  <2>1. r \in Ranks /\ r # 0
    BY TransferAssumption DEF Ranks
  <2>2. node[r].pc = "receive" /\ node[r].at = 0
    BY <2>1 DEF Init, Fresh
  <2> QED BY <1>2, <2>2, StartFacts DEF Seen
<1>4. ASSUME NEW w \in 1 .. Len(job.weights), NEW j \in 1 .. Len(Chunks(job.weights, w))
      PROVE  ~(WeightStarts[w] + j <= 0)
  <2>1. PICK a \in Nat, n \in Nat : a = WeightStarts[w] /\ n = Len(Chunks(job.weights, w))
    BY <1>2, StartFacts
  <2>2. j \in 1 .. n
    BY <2>1
  <2> QED BY <2>1, <2>2
<1>5. Covered(out[r], Seen(r))
  BY <1>3, <1>4 DEF Covered
<1>6. out[r].got = {} /\ out[r].loaded = <<>> /\ out[r].copying = {}
  BY <1>1
<1> QED BY <1>5, <1>6 DEF Placed, Copies, Sound, Right

(* ------------------------------- theorems ------------------------------ *)
(* A bucket that was posted stays in the buffer it was posted from until   *)
(* the next rank has read it, and what a rank works on stays in its own,   *)
(* although the two buffers of a rank are filled, read by the next rank    *)
(* and copied from at the same time: the collective or the notification of *)
(* a read (nixl, nccl, hccl) and the signal of the receiver (mooncake) are *)
(* enough, whatever the order of the steps.                                *)
THEOREM BuffersHold == Spec => [](Control /\ SignalInv /\ BufferInv)
<1>1. Init => Control /\ SignalInv /\ BufferInv
  BY InitType, InitControl, InitBuffers DEF Control
<1>2. (Control /\ SignalInv /\ BufferInv) /\ [Next]_vars => (Control /\ SignalInv /\ BufferInv)'
  BY ControlStep, SignalStep, BufferStep
<1> QED BY <1>1, <1>2, PTL DEF Spec

(* The invariant of the adapters, which rests on that of the buffers.      *)
LEMMA AdapterHolds == Spec => [](OutInv /\ OrderInv /\ CopyInv)
<1> DEFINE Inv == Control /\ SignalInv /\ BufferInv
           Adapter == OutInv /\ OrderInv /\ CopyInv
<1>1. Init => Adapter
  BY InitOut, InitCopies
<1>2. Inv /\ Adapter /\ [Next]_vars => Adapter'
  BY OutStep, OrderStep, CopyStep
<1>3. Spec => []Inv
  BY BuffersHold
<1> HIDE DEF Inv, Adapter
<1>4. Spec => []Adapter
  BY <1>1, <1>2, <1>3, PTL DEF Spec
<1> QED BY <1>4 DEF Adapter

(* Every engine loads of every weight exactly the bytes of this version,   *)
(* each chunk from the bucket it was sent in, but for a weight that sglang *)
(* keeps as a view and an update after a wait that an older signal ended.  *)
THEOREM LoadsWholeWeights == Spec => []LoadedWhole
<1>1. OutInv /\ CopyInv => LoadedWhole
  <2> SUFFICES ASSUME OutInv, CopyInv, ~stale, NEW r \in 1 .. Receivers, NEW i \in DOMAIN out[r].loaded
               PROVE  \/ KeptAsView(out[r].loaded[i].weight)
                      \/ out[r].loaded[i].parts = PartsOf(out[r].loaded[i].weight)
    BY DEF LoadedWhole
  <2>1. out[r] \in OutRecords
    BY DEF OutInv
  <2>2. out[r].loaded \in Seq([weight : Nat, parts : SUBSET Pieces])
    BY <2>1 DEF OutRecords
  <2>3. DOMAIN out[r].loaded = 1 .. Len(out[r].loaded)
    BY <2>2, LenProperties
  <2> QED BY <2>3 DEF CopyInv, Right
<1> QED BY <1>1, AdapterHolds, PTL

(* When an update has ended, every receiver has loaded every weight of the *)
(* model, each once and in the model's order, and no batch is left over.   *)
THEOREM UpdatesComplete == Spec => []UpdateComplete
<1>1. Control /\ OutInv /\ OrderInv => UpdateComplete
  <2> SUFFICES ASSUME Control, OutInv, OrderInv, NEW r \in 1 .. Receivers, node[r].pc = "done"
               PROVE  [i \in DOMAIN out[r].loaded |-> out[r].loaded[i].weight]
                        = [w \in DOMAIN job.weights |-> w]
    <3>1. \A r \in 1 .. Receivers : r \in Ranks
      BY TransferAssumption DEF Ranks
    <3> QED BY <3>1 DEF UpdateComplete
  <2>1. PICK m \in Nat \ {0} : m = Len(job.weights) /\ DOMAIN job.weights = 1 .. m
    <3>1. job.weights \in Seq(Nat \ {0}) /\ Len(job.weights) \in Nat \ {0}
      BY JobFacts DEF Control
    <3> QED BY <3>1
  <2>2. PICK l \in Nat : l = Len(out[r].loaded) /\ DOMAIN out[r].loaded = 1 .. l
    <3>1. out[r] \in OutRecords
      BY DEF OutInv
    <3>2. out[r].loaded \in Seq([weight : Nat, parts : SUBSET Pieces])
      BY <3>1 DEF OutRecords
    <3> QED BY <3>2, LenProperties
  <2>3. Orders(out[r]) /\ Ahead(l, Seen(r))
    <3>1. OrderAt(r) /\ out[r].held = <<>>
      BY DEF OrderInv, OrderAt
    <3>2. Count(out[r]) = l
      BY <2>2, <3>1 DEF Count
    <3> QED BY <3>1, <3>2 DEF OrderAt
  <2>4. Seen(r) = WeightStarts[m + 1]
    <3>1. ReceiverAt(r)
      BY ControlFacts
    <3>2. node[r].at = N
      BY <3>1 DEF ReceiverAt
    <3>3. Seen(r) = BucketStarts[N + 1]
      BY <3>2 DEF Seen
    <3> QED BY <2>1, <3>3, StartFacts DEF Control
  <2>5. l = m
    <3>1. l \in 0 .. m /\ (l < m => Seen(r) < WeightStarts[l + 2])
      BY <2>1, <2>3 DEF Ahead
    <3>2. ASSUME l < m PROVE FALSE
      <4>1. l + 1 \in 1 .. m /\ (l + 1) + 1 = l + 2 /\ m \in 0 .. m
        BY <3>2
      <4>2. WeightStarts[l + 2] <= WeightStarts[m + 1]
        BY <2>1, <4>1, WeightOrder DEF Control
      <4>3. PICK a \in Nat, b \in Nat : a = WeightStarts[l + 2] /\ b = WeightStarts[m + 1]
        <5>1. WeightStarts[(l + 1) + 1] \in Nat
          BY <2>1, <4>1, StartFacts DEF Control
        <5>2. m \in 1 .. m
          OBVIOUS
        <5>3. WeightStarts[m + 1] \in Nat
          BY <2>1, <5>2, StartFacts DEF Control
        <5> QED BY <4>1, <5>1, <5>3
      <4> QED BY <2>4, <3>1, <3>2, <4>2, <4>3
    <3> QED BY <3>1, <3>2
  <2> QED BY <2>1, <2>2, <2>3, <2>5 DEF Orders
<1> QED BY <1>1, BuffersHold, AdapterHolds, PTL
=============================================================================
