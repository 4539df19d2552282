---------------------------- MODULE DeliveryProofs ----------------------------
(***************************************************************************)
(* Proofs about Delivery: the texts, from the daemon that publishes them   *)
(* to the clipboard, the acknowledgement and the Not copied list           *)
(* (app/companion/delivery.py, app/daemon/delivery.py and the controller). *)
(*                                                                         *)
(* The queue is Good between two handlers: no result has two automatic     *)
(* jobs, or one while it is acknowledged or listed (Apart), and those      *)
(* waiting are in order (Ordered).  Handled says where a handler may put   *)
(* a result, and each handler is Proper: its queue is good again and no    *)
(* result is lost on the way.  DeliveryInv adds what the queue has to do   *)
(* with the rest: the results published (AllPublished), those restored     *)
(* and not told to the daemon (Synced), those acknowledged (Settled), the  *)
(* file (Saved) and the phases of a run (Phases).                          *)
(***************************************************************************)
EXTENDS Delivery, TLAPS, FiniteSetTheorems, WellFoundedInduction

-----------------------------------------------------------------------------
(* Numbers.                                                                 *)

\* A set of numbers that is not empty has a least one.
LEMMA LeastIsThere ==
  ASSUME NEW S, S \subseteq Nat, S # {}
  PROVE  \E n \in S : \A m \in S : n <= m
<1>1. IsWellFoundedOn(OpToRel(<, Nat), Nat)
  BY NatLessThanWellFounded, Zenon DEF OpToRel
<1>2. PICK n \in S : \A m \in S : ~(<<m, n>> \in OpToRel(<, Nat))
  BY <1>1, WFMin, Zenon
<1>3. \A m \in S : ~(m < n)
  BY <1>2 DEF OpToRel
<1> QED
  BY <1>3

\* What holds of no number, and of the next whenever of one, holds of all: stated of sets.
LEMMA UpTo ==
  ASSUME NEW n \in Nat, NEW S, 0 \in S, \A i \in 1..n : i - 1 \in S => i \in S
  PROVE  \A i \in 0..n : i \in S
<1> DEFINE out == {i \in 0..n : i \notin S}
<1>1. SUFFICES ASSUME out # {} PROVE FALSE
  OBVIOUS
<1>a. out \subseteq Nat
  OBVIOUS
<1>2. PICK i \in out : \A m \in out : i <= m
  <2> HIDE DEF out
  <2> QED BY <1>1, <1>a, LeastIsThere
<1>3. i \in 1..n /\ i - 1 \in 0..n /\ ~(i <= i - 1)
  BY <1>2
<1>4. i - 1 \in S
  BY <1>2, <1>3
<1> QED
  BY <1>2, <1>3, <1>4

\* The least and the greatest of finitely many numbers.
LEMMA MinOf ==
  ASSUME NEW S, S \subseteq Nat, S # {}
  PROVE  Min(S) \in S /\ \A m \in S : Min(S) <= m
<1>1. \E n \in S : \A m \in S : n =< m
  BY LeastIsThere
<1> QED
  BY <1>1 DEF Min

LEMMA MaxOf ==
  ASSUME NEW n \in Nat, NEW S, S \subseteq 0..n, S # {}
  PROVE  Max(S) \in S /\ \A m \in S : Max(S) >= m
<1> DEFINE above == {i \in 0..n : \A m \in S : m <= i}
<1>1. n \in above /\ above \subseteq Nat
  OBVIOUS
<1>2. PICK b \in above : \A m \in above : b <= m
  BY <1>1, LeastIsThere
<1>3. b \in S
  <2>1. SUFFICES ASSUME b \notin S PROVE FALSE
    OBVIOUS
  <2>2. PICK m \in S : TRUE
    OBVIOUS
  <2>3. b \in 0..n /\ m \in 0..n /\ m <= b /\ m # b
    BY <1>2, <2>1, <2>2
  <2>4. b - 1 \in 0..n
    BY <2>3
  <2>5. \A i \in S : i <= b - 1
    BY <1>2, <2>1, <2>3
  <2>6. b - 1 \in above
    BY <2>4, <2>5
  <2> QED
    BY <1>2, <2>3, <2>6
<1>4. \E x \in S : \A y \in S : x >= y
  BY <1>2, <1>3
<1> QED
  BY <1>4 DEF Max

-----------------------------------------------------------------------------
(* Folds.                                                                   *)

\* F, applied to what it made of the smaller elements of a set and to the greatest one.
Iterates(g, n, base, F, X) ==
  /\ g \in [SUBSET (1..n) -> X]
  /\ \A u \in SUBSET (1..n) : g[u] = IF u = {} THEN base ELSE F[<<g[u \ {Max(u)}], Max(u)>>]

LEMMA OneMore ==
  ASSUME NEW n \in Nat, NEW X, NEW base \in X, NEW F \in [X \X Nat -> X],
         NEW g, Iterates(g, n, base, F, X)
  PROVE  \E h : Iterates(h, n + 1, base, F, X)
<1> DEFINE h == [u \in SUBSET (1..n + 1) |->
                   IF n + 1 \in u THEN F[<<g[u \ {n + 1}], n + 1>>] ELSE g[u]]
<1>1. \A u \in SUBSET (1..n + 1) : n + 1 \notin u => u \in SUBSET (1..n)
  OBVIOUS
<1>2. \A u \in SUBSET (1..n + 1) : u \ {n + 1} \in SUBSET (1..n)
  OBVIOUS
<1>3. h \in [SUBSET (1..n + 1) -> X]
  BY <1>1, <1>2 DEF Iterates
<1>4. ASSUME NEW u \in SUBSET (1..n + 1)
      PROVE  h[u] = IF u = {} THEN base ELSE F[<<h[u \ {Max(u)}], Max(u)>>]
  <2>1. CASE n + 1 \in u
    <3>a. n + 1 \in Nat /\ u \subseteq 0..n + 1 /\ u # {}
      BY <2>1
    <3>1. Max(u) \in u /\ Max(u) >= n + 1 /\ Max(u) \in 1..n + 1
      BY <2>1, <3>a, MaxOf
    <3>2. Max(u) = n + 1
      BY <3>1
    <3>3. h[u] = F[<<g[u \ {n + 1}], n + 1>>]
      BY <2>1
    <3>4. u \ {n + 1} \in SUBSET (1..n + 1) /\ n + 1 \notin u \ {n + 1}
      OBVIOUS
    <3>5. h[u \ {n + 1}] = g[u \ {n + 1}]
      BY <3>4
    <3> QED
      BY <2>1, <3>2, <3>3, <3>5
  <2>2. CASE n + 1 \notin u
    <3>1. u \in SUBSET (1..n) /\ h[u] = g[u]
      BY <1>1, <2>2
    <3>2. CASE u = {}
      BY <3>1, <3>2 DEF Iterates
    <3>3. CASE u # {}
      <4>1. u \ {Max(u)} \in SUBSET (1..n + 1) /\ n + 1 \notin u \ {Max(u)}
        BY <2>2
      <4>2. h[u \ {Max(u)}] = g[u \ {Max(u)}]
        BY <4>1
      <4> QED
        BY <3>1, <3>3, <4>2 DEF Iterates
    <3> QED
      BY <3>2, <3>3
  <2> QED
    BY <2>1, <2>2
<1> QED
  BY <1>3, <1>4 DEF Iterates

LEMMA IterationExists ==
  ASSUME NEW n \in Nat, NEW X, NEW base \in X, NEW F \in [X \X Nat -> X]
  PROVE  \E g : Iterates(g, n, base, F, X)
<1> DEFINE S == {i \in Nat : \E g : Iterates(g, i, base, F, X)}
<1>1. 0 \in S
  <2> DEFINE g == [u \in SUBSET (1..0) |-> base]
  <2>1. 1..0 = {}
    OBVIOUS
  <2>2. Iterates(g, 0, base, F, X)
    BY <2>1 DEF Iterates
  <2> QED
    BY <2>2
<1>2. ASSUME NEW i \in 1..n, i - 1 \in S PROVE i \in S
  <2>1. i - 1 \in Nat /\ (i - 1) + 1 = i /\ i \in Nat
    OBVIOUS
  <2>2. PICK g : Iterates(g, i - 1, base, F, X)
    BY <1>2
  <2>3. \E h : Iterates(h, (i - 1) + 1, base, F, X)
    BY <2>1, <2>2, OneMore
  <2> QED
    BY <2>1, <2>3
<1>3. n \in S
  <2> HIDE DEF S
  <2> QED BY <1>1, <1>2, UpTo
<1> QED
  BY <1>3

\* The sets that such an iteration goes through.
PrefixesTo(n) ==
  /\ 1..0 = {} /\ 0 \in 0..n
  /\ \A i \in 0..n : 1..i \in SUBSET (1..n)
  /\ \A i \in 1..n : i \in 0..n /\ i - 1 \in 0..n /\ 1..i # {} /\ Max(1..i) = i /\ (1..i) \ {i} = 1..i - 1
LEMMA PrefixFacts == ASSUME NEW n \in Nat PROVE PrefixesTo(n)
<1>1. 1..0 = {} /\ \A i \in 0..n : 1..i \in SUBSET (1..n)
  OBVIOUS
<1>2. ASSUME NEW i \in 1..n PROVE 1..i # {} /\ Max(1..i) = i /\ (1..i) \ {i} = 1..i - 1
  <2>1. i \in Nat /\ 1..i \subseteq 0..i /\ 1..i # {} /\ i \in 1..i
    OBVIOUS
  <2>2. Max(1..i) \in 1..i /\ Max(1..i) >= i
    BY <2>1, MaxOf
  <2> QED
    BY <2>1, <2>2
<1>3. 0 \in 0..n /\ \A i \in 1..n : i \in 0..n /\ i - 1 \in 0..n
  OBVIOUS
<1> QED
  BY <1>1, <1>2, <1>3 DEF PrefixesTo

\* The iteration over the numbers up to n, when what is iterated is F on X.
IteratesOn(it, n, base, F, X) ==
  /\ it[{}] = base
  /\ \A u \in SUBSET (1..n) : u # {} /\ it[u \ {Max(u)}] \in X => it[u] = F[<<it[u \ {Max(u)}], Max(u)>>]
Chain(c, n, base, F, X) ==
  c \in [0..n -> X] /\ c[0] = base /\ \A i \in 1..n : c[i] = F[<<c[i - 1], i>>]

HasChain(it, n, base, F, X) == \E c : Chain(c, n, base, F, X) /\ c[n] = it[1..n]
Foldable(n, base, F, X) == n \in Nat /\ base \in X /\ F \in [X \X Nat -> X]

LEMMA ChainOf ==
  ASSUME NEW n, NEW X, NEW base, NEW F, NEW it, Foldable(n, base, F, X), IteratesOn(it, n, base, F, X)
  PROVE  HasChain(it, n, base, F, X)
<1> n \in Nat /\ base \in X /\ F \in [X \X Nat -> X]
  BY DEF Foldable
<1> DEFINE c == [i \in 0..n |-> it[1..i]]
           P == {j \in 0..n : c[j] \in X}
<1>1. PrefixesTo(n)
  BY PrefixFacts
<1>2. c[0] = base /\ c[n] = it[1..n] /\ n \in 0..n
  BY <1>1 DEF PrefixesTo, IteratesOn
<1>3. ASSUME NEW i \in 1..n, c[i - 1] \in X PROVE c[i] = F[<<c[i - 1], i>>] /\ c[i] \in X
  <2>1. /\ 1..i \in SUBSET (1..n) /\ 1..i # {} /\ Max(1..i) = i /\ (1..i) \ {i} = 1..i - 1
        /\ i \in 0..n /\ i - 1 \in 0..n
    BY <1>1 DEF PrefixesTo
  <2>2. c[i] = it[1..i] /\ c[i - 1] = it[1..i - 1]
    BY <2>1
  <2>3. it[1..i] = F[<<it[1..i - 1], i>>]
    BY <1>3, <2>1, <2>2 DEF IteratesOn
  <2>4. F[<<c[i - 1], i>>] \in X
    BY <1>3
  <2> QED BY <2>2, <2>3, <2>4
<1>4. \A i \in 0..n : i \in P
  <2> HIDE DEF c
  <2>1. 0 \in P
    BY <1>1, <1>2 DEF PrefixesTo
  <2>2. \A i \in 1..n : i - 1 \in P => i \in P
    BY <1>1, <1>3 DEF PrefixesTo
  <2> HIDE DEF P
  <2> QED BY <2>1, <2>2, UpTo
<1>5. c \in [0..n -> X] /\ \A i \in 1..n : c[i - 1] \in X
  BY <1>1, <1>4 DEF PrefixesTo
<1> HIDE DEF c, P
<1>6. Chain(c, n, base, F, X)
  BY <1>2, <1>3, <1>5 DEF Chain
<1> QED BY <1>2, <1>6 DEF HasChain

\* Only, element by element.
OnlySteps(c, s, S, T) ==
  /\ c \in [0..Len(s) -> Seq(T)] /\ c[0] = <<>> /\ Only(s, S) = c[Len(s)]
  /\ \A i \in 1..Len(s) : c[i] = IF s[i] \in S THEN Append(c[i - 1], s[i]) ELSE c[i - 1]
LEMMA OnlyChain ==
  ASSUME NEW T, NEW s \in Seq(T), NEW S
  PROVE  \E c : OnlySteps(c, s, S, T)
<1> DEFINE X == Seq(T)
           n == Len(s)
           With(t, i) == IF s[i] \in S THEN Append(t, s[i]) ELSE t
           F == [z \in X \X Nat |-> IF z[2] \in 1..n THEN With(z[1], z[2]) ELSE z[1]]
           Rec(g) == [u \in SUBSET (1..n) |-> IF u = {} THEN <<>> ELSE With(g[u \ {Max(u)}], Max(u))]
           it == CHOOSE g : g = Rec(g)
<1>1. n \in Nat /\ DOMAIN s = 1..n /\ <<>> \in X
  OBVIOUS
<1>2. \A t \in X : \A i \in 1..n : With(t, i) \in X
  OBVIOUS
<1>3. Only(s, S) = it[1..n]
  BY <1>1 DEF Only, FoldLeft, MapThenFoldSet
<1> HIDE DEF With, X, n
<1>4. F \in [X \X Nat -> X]
  BY <1>2
<1>5. \A t \in X : \A i \in 1..n : i \in Nat /\ With(t, i) = F[<<t, i>>]
  BY <1>1
<1> HIDE DEF F
<1>6. PICK g : Iterates(g, n, <<>>, F, X)
  BY <1>1, <1>4, IterationExists
<1>7. \A u \in SUBSET (1..n) : u # {} => Max(u) \in 1..n
  <2>1. \A u \in SUBSET (1..n) : u \subseteq 0..n
    OBVIOUS
  <2> QED BY <1>1, <2>1, MaxOf
<1>8. g = Rec(g)
  <2>1. ASSUME NEW u \in SUBSET (1..n), u # {} PROVE g[u] = With(g[u \ {Max(u)}], Max(u))
    BY <1>5, <1>6, <1>7, <2>1 DEF Iterates
  <2> QED BY <1>6, <2>1 DEF Iterates
<1>9. it = Rec(it)
  <2> HIDE DEF Rec
  <2> QED BY <1>8
<1> HIDE DEF it
<1>10. it[{}] = <<>> /\ \A u \in SUBSET (1..n) : u # {} => it[u] = With(it[u \ {Max(u)}], Max(u))
  BY <1>9
<1>11. IteratesOn(it, n, <<>>, F, X)
  BY <1>5, <1>7, <1>10 DEF IteratesOn
<1>12. PICK c : Chain(c, n, <<>>, F, X) /\ c[n] = it[1..n]
  <2>1. Foldable(n, <<>>, F, X)
    BY <1>1, <1>4 DEF Foldable
  <2>2. HasChain(it, n, <<>>, F, X)
    BY <2>1, <1>11, ChainOf, Zenon
  <2> QED BY <2>2 DEF HasChain
<1>13. \A i \in 1..n : c[i - 1] \in X
  BY <1>1, <1>12 DEF Chain
<1>14. \A i \in 1..n : c[i] = With(c[i - 1], i)
  BY <1>5, <1>12, <1>13 DEF Chain
<1> QED
  BY <1>3, <1>12, <1>14 DEF Chain, OnlySteps, With, n, X

-----------------------------------------------------------------------------
(* Sequences and their elements.                                            *)

\* A sequence and the set of its elements.
LEMMA Elements ==
  ASSUME NEW T, NEW s \in Seq(T)
  PROVE  /\ ToSet(s) \subseteq T
         /\ Len(s) \in Nat /\ DOMAIN s = 1..Len(s) /\ \A i \in 1..Len(s) : s[i] \in T /\ s[i] \in ToSet(s)
         /\ \A x \in ToSet(s) : \E i \in 1..Len(s) : s[i] = x
         /\ s = <<>> <=> Len(s) = 0
         /\ \A x : Contains(s, x) <=> x \in ToSet(s)
BY DEF ToSet, Contains

\* What is appended is one more element, and leaves the others where they are.
LEMMA ElementsAppended ==
  ASSUME NEW T, NEW s \in Seq(T), NEW x \in T
  PROVE  /\ Append(s, x) \in Seq(T) /\ ToSet(Append(s, x)) = ToSet(s) \cup {x}
         /\ Len(Append(s, x)) = Len(s) + 1 /\ Append(s, x)[Len(s) + 1] = x
         /\ \A i \in 1..Len(s) : Append(s, x)[i] = s[i]
<1>1. /\ Append(s, x) \in Seq(T) /\ Len(s) \in Nat /\ DOMAIN s = 1..Len(s)
      /\ DOMAIN Append(s, x) = 1..Len(s) + 1 /\ Len(Append(s, x)) = Len(s) + 1
      /\ Append(s, x)[Len(s) + 1] = x /\ \A i \in 1..Len(s) : Append(s, x)[i] = s[i]
  OBVIOUS
<1>2. ToSet(Append(s, x)) \subseteq ToSet(s) \cup {x}
  BY <1>1 DEF ToSet
<1>3. ToSet(s) \subseteq ToSet(Append(s, x))
  BY <1>1 DEF ToSet
<1>4. x \in ToSet(Append(s, x))
  BY <1>1 DEF ToSet
<1> QED BY <1>1, <1>2, <1>3, <1>4

\* Joined sequences, element by element.
LEMMA Joined ==
  ASSUME NEW T, NEW s \in Seq(T), NEW t \in Seq(T)
  PROVE  /\ s \o t \in Seq(T) /\ Len(s \o t) = Len(s) + Len(t)
         /\ \A i \in 1..Len(s) : (s \o t)[i] = s[i]
         /\ \A i \in Len(s) + 1..Len(s) + Len(t) : (s \o t)[i] = t[i - Len(s)]
OBVIOUS

\* A sequence split at its head.
LEMMA Split ==
  ASSUME NEW T, NEW s \in Seq(T), s # <<>>
  PROVE  /\ Head(s) \in T /\ Head(s) = s[1] /\ Tail(s) \in Seq(T) /\ Len(Tail(s)) = Len(s) - 1
         /\ 1 \in 1..Len(s) /\ \A i \in 1..Len(s) - 1 : Tail(s)[i] = s[i + 1]
         /\ <<Head(s)>> \o Tail(s) = s
<1>1. /\ Head(s) \in T /\ Head(s) = s[1] /\ Tail(s) \in Seq(T) /\ Len(Tail(s)) = Len(s) - 1
      /\ Len(s) \in Nat /\ Len(s) # 0 /\ DOMAIN s = 1..Len(s)
  OBVIOUS
<1>2. \A i \in 1..Len(s) - 1 : Tail(s)[i] = s[i + 1]
  BY <1>1
<1>3. <<Head(s)>> \o Tail(s) = s
  BY <1>1, <1>2
<1> QED BY <1>1, <1>2, <1>3

\* The last elements of a sequence, and the first.
LEMMA LastOnes ==
  ASSUME NEW T, NEW s \in Seq(T), NEW n \in Nat \ {0}
  PROVE  /\ LastOf(s, n) \in Seq(T) /\ Len(LastOf(s, n)) <= n /\ ToSet(LastOf(s, n)) \subseteq ToSet(s)
         /\ Len(s) <= n => LastOf(s, n) = s
<1> DEFINE a == Len(s) - n + 1
           m == Max({1, a})
<1>1. Len(s) \in Nat /\ n \in Nat /\ n >= 1 /\ a \in Int
  OBVIOUS
<1>2. m = IF a <= 1 THEN 1 ELSE a
  <2>1. \E x \in {1, a} : \A y \in {1, a} : x >= y
    BY <1>1
  <2>2. m \in {1, a} /\ \A y \in {1, a} : m >= y
    BY <2>1 DEF Max
  <2> HIDE DEF m
  <2> QED BY <1>1, <2>2
<1>3. LastOf(s, n) = SubSeq(s, m, Len(s))
  BY DEF LastOf
<1>4. m \in Nat /\ m >= 1 /\ Len(s) - m + 1 <= n /\ (Len(s) <= n => m = 1)
  BY <1>1, <1>2
<1> HIDE DEF m, a
<1>5. LastOf(s, n) \in Seq(T) /\ Len(LastOf(s, n)) = IF m <= Len(s) THEN Len(s) - m + 1 ELSE 0
  BY <1>1, <1>3, <1>4
<1>6. \A i \in 1..Len(s) - m + 1 : LastOf(s, n)[i] = s[m + i - 1] /\ m + i - 1 \in 1..Len(s)
  BY <1>1, <1>3, <1>4
<1>7. ToSet(LastOf(s, n)) \subseteq ToSet(s)
  <2>1. SUFFICES ASSUME NEW x \in ToSet(LastOf(s, n)) PROVE x \in ToSet(s)
    OBVIOUS
  <2>2. PICK i \in 1..Len(LastOf(s, n)) : LastOf(s, n)[i] = x
    BY <1>5, <2>1, Elements
  <2>3. i \in 1..Len(s) - m + 1
    BY <1>1, <1>4, <1>5, <2>2
  <2> QED BY <1>6, <2>2, <2>3, Elements
<1>8. ASSUME Len(s) <= n PROVE LastOf(s, n) = s
  <2>1. m = 1 /\ Len(LastOf(s, n)) = Len(s) /\ \A i \in 1..Len(s) : LastOf(s, n)[i] = s[i]
    BY <1>1, <1>4, <1>5, <1>6, <1>8
  <2> QED BY <1>1, <1>5, <2>1
<1> QED BY <1>1, <1>4, <1>5, <1>7, <1>8

LEMMA FirstOnes ==
  ASSUME NEW T, NEW s \in Seq(T), NEW n \in Nat \ {0}
  PROVE  Take(s, n) \in Seq(T)
<1> DEFINE m == Min({n, Len(s)})
<1>1. {n, Len(s)} \subseteq Nat /\ {n, Len(s)} # {}
  OBVIOUS
<1>2. m \in {n, Len(s)} /\ m <= Len(s)
  BY <1>1, MinOf
<1>3. m \in Nat /\ m <= Len(s) /\ Take(s, n) = SubSeq(s, 1, m)
  BY <1>1, <1>2 DEF Take
<1> HIDE DEF m
<1> QED BY <1>3

\* An element put into a sequence at a place, before what was there.
LEMMA PutIn ==
  ASSUME NEW T, NEW s \in Seq(T), NEW e \in T, NEW p \in 1..Len(s) + 1
  PROVE  /\ InsertAt(s, p, e) \in Seq(T) /\ Len(InsertAt(s, p, e)) = Len(s) + 1
         /\ InsertAt(s, p, e)[p] = e
         /\ \A i \in 1..Len(s) : i < p => InsertAt(s, p, e)[i] = s[i]
         /\ \A i \in 2..Len(s) + 1 : i > p => InsertAt(s, p, e)[i] = s[i - 1]
<1> DEFINE a == SubSeq(s, 1, p - 1)
           b == SubSeq(s, p, Len(s))
           m == <<e>>
<1>1. Len(s) \in Nat /\ p \in Nat /\ 1 <= p /\ p <= Len(s) + 1
  OBVIOUS
<1>2. /\ a \in Seq(T) /\ Len(a) = p - 1 /\ \A i \in 1..p - 1 : a[i] = s[i]
      /\ b \in Seq(T) /\ Len(b) = Len(s) - p + 1 /\ \A i \in 1..Len(s) - p + 1 : b[i] = s[p + i - 1]
      /\ m \in Seq(T) /\ Len(m) = 1 /\ m[1] = e
  BY <1>1
<1>3. InsertAt(s, p, e) = (a \o m) \o b
  BY DEF InsertAt
<1> HIDE DEF a, b, m
<1>4. /\ a \o m \in Seq(T) /\ Len(a \o m) = p /\ (a \o m)[p] = e
      /\ \A i \in 1..p - 1 : (a \o m)[i] = s[i]
  <2>1. /\ a \o m \in Seq(T) /\ Len(a \o m) = Len(a) + Len(m) /\ \A i \in 1..Len(a) : (a \o m)[i] = a[i]
        /\ \A i \in Len(a) + 1..Len(a) + Len(m) : (a \o m)[i] = m[i - Len(a)]
    BY <1>2, Joined
  <2>2. Len(a) + Len(m) = p /\ Len(a) + 1 = p /\ p - Len(a) = 1 /\ p \in Len(a) + 1..Len(a) + Len(m)
    BY <1>1, <1>2
  <2> QED BY <1>1, <1>2, <2>1, <2>2
<1>5. /\ InsertAt(s, p, e) \in Seq(T) /\ Len(InsertAt(s, p, e)) = Len(s) + 1
      /\ \A i \in 1..p : InsertAt(s, p, e)[i] = (a \o m)[i]
      /\ \A i \in p + 1..Len(s) + 1 : InsertAt(s, p, e)[i] = b[i - p]
  <2>1. /\ (a \o m) \o b \in Seq(T) /\ Len((a \o m) \o b) = Len(a \o m) + Len(b)
        /\ \A i \in 1..Len(a \o m) : ((a \o m) \o b)[i] = (a \o m)[i]
        /\ \A i \in Len(a \o m) + 1..Len(a \o m) + Len(b) : ((a \o m) \o b)[i] = b[i - Len(a \o m)]
    BY <1>2, <1>4, Joined
  <2>2. Len(a \o m) + Len(b) = Len(s) + 1
    BY <1>1, <1>2, <1>4
  <2> HIDE DEF a, b, m
  <2> QED BY <1>3, <1>4, <2>1, <2>2
<1>6. ASSUME NEW i \in 2..Len(s) + 1, i > p PROVE InsertAt(s, p, e)[i] = s[i - 1]
  <2>1. i \in p + 1..Len(s) + 1 /\ i - p \in 1..Len(s) - p + 1 /\ p + (i - p) - 1 = i - 1
    BY <1>1, <1>6
  <2> QED BY <1>2, <1>5, <2>1
<1>7. ASSUME NEW i \in 1..Len(s), i < p PROVE InsertAt(s, p, e)[i] = s[i]
  <2>1. i \in 1..p - 1 /\ i \in 1..p
    BY <1>1, <1>7
  <2> QED BY <1>4, <1>5, <2>1
<1>8. p \in 1..p
  BY <1>1
<1> QED BY <1>4, <1>5, <1>6, <1>7, <1>8

\* t is what a set keeps of the first n elements of s: f tells where they were.
Keeps(f, t, s, n, S) ==
  /\ f \in [1..Len(t) -> 1..n]
  /\ \A j \in 1..Len(t) : t[j] = s[f[j]] /\ t[j] \in S
  /\ \A i, j \in 1..Len(t) : i < j => f[i] < f[j]
  /\ \A k \in 1..n : s[k] \in S => \E j \in 1..Len(t) : f[j] = k
KeptOf(t, s, n, S) == \E f : Keeps(f, t, s, n, S)

LEMMA OneMoreKept ==
  ASSUME NEW T, NEW s \in Seq(T), NEW S, NEW i \in 1..Len(s), NEW t \in Seq(T), KeptOf(t, s, i - 1, S)
  PROVE  KeptOf(IF s[i] \in S THEN Append(t, s[i]) ELSE t, s, i, S)
<1>1. i \in Nat /\ i >= 1 /\ s[i] \in T /\ Len(t) \in Nat
  OBVIOUS
<1>2. PICK f : Keeps(f, t, s, i - 1, S)
  BY DEF KeptOf
<1>3. CASE s[i] \notin S
  <2>1. f \in [1..Len(t) -> 1..i]
    BY <1>1, <1>2 DEF Keeps
  <2>2. \A k \in 1..i : s[k] \in S => k \in 1..i - 1
    BY <1>1, <1>3
  <2>3. Keeps(f, t, s, i, S)
    BY <1>2, <2>1, <2>2 DEF Keeps
  <2> QED BY <1>3, <2>3 DEF KeptOf
<1>4. CASE s[i] \in S
  <2> DEFINE u == Append(t, s[i])
             g == [j \in 1..Len(t) + 1 |-> IF j \in 1..Len(t) THEN f[j] ELSE i]
  <2>1. Len(u) = Len(t) + 1 /\ u[Len(t) + 1] = s[i] /\ \A j \in 1..Len(t) : u[j] = t[j]
    BY <1>1, ElementsAppended
  <2>2. \A j \in 1..Len(t) + 1 : j \in 1..Len(t) \/ (j = Len(t) + 1 /\ j \notin 1..Len(t))
    BY <1>1
  <2>3. \A j \in 1..Len(t) : f[j] \in 1..i - 1 /\ f[j] \in 1..i /\ f[j] < i
    BY <1>1, <1>2 DEF Keeps
  <2>a. /\ \A j \in 1..Len(t) : g[j] = f[j] /\ j \in 1..Len(t) + 1
        /\ g[Len(t) + 1] = i /\ Len(t) + 1 \in 1..Len(t) + 1
    BY <1>1, <2>2
  <2>4. g \in [1..Len(t) + 1 -> 1..i]
    BY <1>1, <2>2, <2>3
  <2> HIDE DEF u, g
  <2>5. \A j \in 1..Len(t) + 1 : u[j] = s[g[j]] /\ u[j] \in S
    BY <1>2, <1>4, <2>1, <2>2, <2>a DEF Keeps
  <2>6. ASSUME NEW j \in 1..Len(t) + 1, NEW k \in 1..Len(t) + 1, j < k PROVE g[j] < g[k]
    <3>1. j \in 1..Len(t)
      BY <1>1, <2>6
    <3>2. CASE k \in 1..Len(t)
      BY <1>2, <2>6, <2>a, <3>1, <3>2 DEF Keeps
    <3>3. CASE k \notin 1..Len(t)
      BY <2>2, <2>3, <2>a, <3>1, <3>3
    <3> QED BY <3>2, <3>3
  <2>7. ASSUME NEW k \in 1..i, s[k] \in S PROVE \E j \in 1..Len(t) + 1 : g[j] = k
    <3>1. CASE k = i
      BY <2>a, <3>1
    <3>2. CASE k # i
      <4>1. k \in 1..i - 1
        BY <1>1, <3>2
      <4>2. PICK j \in 1..Len(t) : f[j] = k
        BY <1>2, <2>7, <4>1 DEF Keeps
      <4> QED BY <2>a, <4>2
    <3> QED BY <3>1, <3>2
  <2>8. Keeps(g, u, s, i, S)
    BY <2>1, <2>4, <2>5, <2>6, <2>7 DEF Keeps
  <2> QED BY <1>4, <2>8 DEF KeptOf, u
<1> QED BY <1>3, <1>4

\* What Only leaves of a sequence is a part of it, in its order, and all that is in the set.
LEMMA OnlyKeeps ==
  ASSUME NEW T, NEW s \in Seq(T), NEW S
  PROVE  Only(s, S) \in Seq(T) /\ KeptOf(Only(s, S), s, Len(s), S)
<1> DEFINE n == Len(s)
<1>0. PICK c : OnlySteps(c, s, S, T)
  BY OnlyChain
<1>1. /\ c \in [0..n -> Seq(T)] /\ c[0] = <<>> /\ Only(s, S) = c[n]
      /\ \A i \in 1..n : c[i] = IF s[i] \in S THEN Append(c[i - 1], s[i]) ELSE c[i - 1]
  BY <1>0 DEF OnlySteps
<1> DEFINE P == {i \in 0..n : KeptOf(c[i], s, i, S)}
<1>2. n \in Nat /\ 0 \in 0..n /\ n \in 0..n
  OBVIOUS
<1>3. 0 \in P
  <2> DEFINE f == [j \in 1..0 |-> 0]
  <2>1. Keeps(f, <<>>, s, 0, S)
    BY DEF Keeps
  <2> QED BY <1>1, <1>2, <2>1 DEF KeptOf
<1>4. ASSUME NEW i \in 1..n, i - 1 \in P PROVE i \in P
  <2>1. i \in 0..n /\ i - 1 \in 0..n
    BY <1>2
  <2>2. c[i - 1] \in Seq(T) /\ KeptOf(c[i - 1], s, i - 1, S)
    BY <1>1, <1>4, <2>1
  <2>3. KeptOf(c[i], s, i, S)
    BY <1>1, <2>2, OneMoreKept
  <2> QED BY <2>1, <2>3
<1>5. n \in P
  <2> HIDE DEF P, n
  <2> QED BY <1>2, <1>3, <1>4, UpTo
<1> QED BY <1>1, <1>2, <1>5

\* The elements that Only leaves.
LEMMA OnlyElements ==
  ASSUME NEW T, NEW s \in Seq(T), NEW S
  PROVE  /\ Only(s, S) \in Seq(T) /\ ToSet(Only(s, S)) = ToSet(s) \cap S /\ Len(Only(s, S)) <= Len(s)
         /\ \A i, j \in 1..Len(Only(s, S)) : i < j =>
              \E k, l \in 1..Len(s) : k < l /\ s[k] = Only(s, S)[i] /\ s[l] = Only(s, S)[j]
<1> DEFINE t == Only(s, S)
<1>1. t \in Seq(T) /\ Len(t) \in Nat /\ Len(s) \in Nat
  BY OnlyKeeps, Elements
<1>2. PICK f : Keeps(f, t, s, Len(s), S)
  BY OnlyKeeps DEF KeptOf
<1> HIDE DEF t
<1>3. ToSet(t) \subseteq ToSet(s) \cap S
  <2>1. SUFFICES ASSUME NEW x \in ToSet(t) PROVE x \in ToSet(s) \cap S
    OBVIOUS
  <2>2. PICK j \in 1..Len(t) : t[j] = x
    BY <1>1, <2>1, Elements
  <2>3. f[j] \in 1..Len(s) /\ x = s[f[j]] /\ x \in S
    BY <1>2, <2>2 DEF Keeps
  <2> QED BY <2>3, Elements
<1>4. ToSet(s) \cap S \subseteq ToSet(t)
  <2>1. SUFFICES ASSUME NEW x \in ToSet(s) \cap S PROVE x \in ToSet(t)
    OBVIOUS
  <2>2. PICK k \in 1..Len(s) : s[k] = x
    BY <2>1, Elements
  <2>3. PICK j \in 1..Len(t) : f[j] = k
    BY <1>2, <2>1, <2>2 DEF Keeps
  <2>4. t[j] = x
    BY <1>2, <2>2, <2>3 DEF Keeps
  <2> QED BY <1>1, <2>4, Elements
<1>5. ASSUME NEW i \in 1..Len(t), NEW j \in 1..Len(t), i < j
      PROVE  \E k, l \in 1..Len(s) : k < l /\ s[k] = t[i] /\ s[l] = t[j]
  <2>1. f[i] \in 1..Len(s) /\ f[j] \in 1..Len(s) /\ f[i] < f[j] /\ s[f[i]] = t[i] /\ s[f[j]] = t[j]
    BY <1>2, <1>5 DEF Keeps
  <2> QED BY <2>1
<1>6. Len(t) <= Len(s)
  <2> DEFINE P == {j \in 0..Len(t) : j = 0 \/ j <= f[j]}
  <2>1. 0 \in P
    BY <1>1
  <2>2. ASSUME NEW j \in 1..Len(t), j - 1 \in P PROVE j \in P
    <3>1. f[j] \in Nat /\ f[j] >= 1
      BY <1>2 DEF Keeps
    <3>2. CASE j = 1
      BY <1>1, <3>1, <3>2
    <3>3. CASE j # 1
      <4>1. j - 1 \in 1..Len(t) /\ j - 1 < j
        BY <1>1, <3>3
      <4>2. f[j - 1] < f[j] /\ j - 1 <= f[j - 1] /\ f[j - 1] \in Nat
        BY <1>2, <2>2, <4>1 DEF Keeps
      <4> QED BY <1>1, <3>1, <4>1, <4>2
    <3> QED BY <3>2, <3>3
  <2>3. Len(t) \in P
    <3>1. Len(t) \in 0..Len(t)
      BY <1>1
    <3> HIDE DEF P
    <3> QED BY <1>1, <2>1, <2>2, <3>1, UpTo
  <2>4. CASE Len(t) = 0
    BY <1>1, <2>4
  <2>5. CASE Len(t) # 0
    <3>1. Len(t) \in 1..Len(t)
      BY <1>1, <2>5
    <3>2. f[Len(t)] \in 1..Len(s)
      BY <1>2, <3>1 DEF Keeps
    <3> QED BY <1>1, <2>3, <2>5, <3>2
  <2> QED BY <2>4, <2>5
<1> QED BY <1>1, <1>3, <1>4, <1>5, <1>6 DEF t

-----------------------------------------------------------------------------
(* The queue, with the effects of the handler in progress.                  *)

QueueRec ==
  [ instance : 0..Instances, queue : Seq(Entry), flight : Seq(Entry), acked : [Key -> AckStatus \cup {"none"}],
    recent : Seq(Key), pending : Seq(Key), unsynced : SUBSET Key, suspect : SUBSET Key,
    out : SUBSET Ack, begun : SUBSET Entry, shed : SUBSET Key ]
Queues == {s \in QueueRec : Len(s.flight) <= 1 /\ Len(s.pending) <= PendingLimit /\ IsFiniteSet(s.begun)}

\* From s to t the Not copied list took the keys, and lost for good what is in t.shed.
Listed(s, t, keys) ==
  /\ t \in Queues
  /\ t.instance = s.instance /\ t.queue = s.queue /\ t.flight = s.flight /\ t.acked = s.acked
  /\ t.recent = s.recent /\ t.unsynced = s.unsynced /\ t.suspect = s.suspect
  /\ t.out = s.out /\ t.begun = s.begun
  /\ ToSet(t.pending) \subseteq ToSet(s.pending) \cup keys
  /\ ToSet(s.pending) \cup s.shed \cup keys \subseteq ToSet(t.pending) \cup t.shed
  /\ keys = {} => t.pending = s.pending /\ t.shed = s.shed

\* add_pending of the list.
LEMMA AddPendingLists ==
  ASSUME NEW s \in Queues, NEW key \in Key
  PROVE  Listed(s, AddPending(s, key), {key})
<1>1. s \in QueueRec /\ s.pending \in Seq(Key) /\ s.shed \subseteq Key /\ PendingLimit \in Nat \ {0}
  BY DeliveryAssumption DEF Queues, QueueRec
<1>2. Contains(s.pending, key) <=> key \in ToSet(s.pending)
  BY <1>1, Elements
<1>3. CASE Contains(s.pending, key)
  BY <1>2, <1>3 DEF AddPending, Listed, Queues
<1>4. CASE ~Contains(s.pending, key)
  <2> DEFINE all == Append(s.pending, key)
             kept == LastOf(all, PendingLimit)
             lost == s.shed \cup (ToSet(all) \ ToSet(kept))
             t == [s EXCEPT !.pending = kept, !.shed = lost]
  <2>1. all \in Seq(Key) /\ ToSet(all) = ToSet(s.pending) \cup {key} /\ ToSet(all) \subseteq Key
    BY <1>1, ElementsAppended, Elements
  <2>2. AddPending(s, key) = t
    BY <1>4 DEF AddPending
  <2> HIDE DEF all
  <2>3. kept \in Seq(Key) /\ Len(kept) <= PendingLimit /\ ToSet(kept) \subseteq ToSet(all)
    BY <1>1, <2>1, LastOnes
  <2> HIDE DEF kept
  <2>4. lost \subseteq Key
    BY <1>1, <2>1
  <2>5. s.shed \subseteq lost /\ ToSet(all) \subseteq ToSet(kept) \cup lost
    OBVIOUS
  <2> HIDE DEF lost
  <2>6. /\ t \in QueueRec /\ t.pending = kept /\ t.shed = lost
        /\ t.instance = s.instance /\ t.queue = s.queue /\ t.flight = s.flight /\ t.acked = s.acked
        /\ t.recent = s.recent /\ t.unsynced = s.unsynced /\ t.suspect = s.suspect
        /\ t.out = s.out /\ t.begun = s.begun
    BY <1>1, <2>3, <2>4 DEF QueueRec
  <2> HIDE DEF t
  <2>7. t \in Queues
    BY <2>3, <2>6 DEF Queues
  <2> QED BY <2>1, <2>2, <2>3, <2>5, <2>6, <2>7 DEF Listed
<1> QED BY <1>3, <1>4

\* What is remembered are keys.
LEMMA RememberType ==
  ASSUME NEW recent \in Seq(Key), NEW key \in Key
  PROVE  Remember(recent, key) \in Seq(Key)
<1>1. Only(recent, Key \ {key}) \in Seq(Key)
  BY OnlyElements
<1>2. <<key>> \o Only(recent, Key \ {key}) \in Seq(Key)
  BY <1>1
<1>3. RecentLimit \in Nat \ {0}
  BY DeliveryAssumption
<1> QED BY <1>2, <1>3, FirstOnes DEF Remember

LEMMA NewJobType ==
  ASSUME NEW key \in Key, NEW manual \in BOOLEAN
  PROVE  NewJob(key, manual) \in Entry
BY DeliveryAssumption DEF NewJob, Entry

LEMMA FreshEntries ==
  ASSUME NEW keys \in Seq(Key)
  PROVE  \A i \in 1..Len(keys) : NewJob(keys[i], FALSE) \in Entry
<1> SUFFICES ASSUME NEW i \in 1..Len(keys) PROVE NewJob(keys[i], FALSE) \in Entry
  OBVIOUS
<1>1. keys[i] \in Key /\ FALSE \in BOOLEAN
  OBVIOUS
<1> QED BY <1>1, NewJobType

\* The place of an entry: before the first that gives way to it.
PlaceIn(p, queue, e) ==
  /\ p \in 1..Len(queue) + 1
  /\ \A i \in 1..Len(queue) : i < p => ~GoesBefore(e, queue[i])
  /\ p <= Len(queue) => GoesBefore(e, queue[p])
LEMMA InsertPlace ==
  ASSUME NEW queue \in Seq(Entry), NEW e \in Entry
  PROVE  \E p : PlaceIn(p, queue, e) /\ Insert(queue, e) = InsertAt(queue, p, e)
<1> DEFINE S == {i \in DOMAIN queue : GoesBefore(e, queue[i])} \cup {Len(queue) + 1}
<1>1. Len(queue) \in Nat /\ DOMAIN queue = 1..Len(queue) /\ S \subseteq 1..Len(queue) + 1
  OBVIOUS
<1>2. S \subseteq Nat /\ S # {}
  BY <1>1
<1>3. Insert(queue, e) = InsertAt(queue, Min(S), e)
  BY DEF Insert
<1>4. \A i : i \in S <=> i = Len(queue) + 1 \/ (i \in 1..Len(queue) /\ GoesBefore(e, queue[i]))
  BY <1>1
<1> HIDE DEF S
<1>5. Min(S) \in S /\ \A i \in S : Min(S) <= i
  BY <1>2, MinOf
<1>6. PlaceIn(Min(S), queue, e)
  BY <1>1, <1>4, <1>5 DEF PlaceIn
<1> QED BY <1>3, <1>6

LEMMA InsertType ==
  ASSUME NEW queue \in Seq(Entry), NEW e \in Entry
  PROVE  Insert(queue, e) \in Seq(Entry)
BY InsertPlace, PutIn DEF PlaceIn

\* AddAllPending, key by key.
ListSteps(c, s, keys) ==
  /\ c \in [0..Len(keys) -> Queues] /\ c[0] = s /\ AddAllPending(s, keys) = c[Len(keys)]
  /\ \A i \in 1..Len(keys) : c[i] = AddPending(c[i - 1], keys[i])
LEMMA ListChain ==
  ASSUME NEW s \in Queues, NEW keys \in Seq(Key)
  PROVE  \E c : ListSteps(c, s, keys)
<1> DEFINE X == Queues
           n == Len(keys)
           With(t, i) == AddPending(t, keys[i])
           F == [z \in X \X Nat |-> IF z[2] \in 1..n THEN With(z[1], z[2]) ELSE z[1]]
           Rec(g) == [u \in SUBSET (1..n) |-> IF u = {} THEN s ELSE With(g[u \ {Max(u)}], Max(u))]
           it == CHOOSE g : g = Rec(g)
<1>1. n \in Nat /\ DOMAIN keys = 1..n /\ s \in X
  OBVIOUS
<1>2. \A t \in X : \A i \in 1..n : With(t, i) \in X
  BY AddPendingLists DEF Listed
<1>3. AddAllPending(s, keys) = it[1..n]
  BY <1>1 DEF AddAllPending, FoldLeft, MapThenFoldSet
<1> HIDE DEF With, X, n
<1>4. F \in [X \X Nat -> X]
  BY <1>2
<1>5. \A t \in X : \A i \in 1..n : i \in Nat /\ With(t, i) = F[<<t, i>>]
  BY <1>1
<1> HIDE DEF F
<1>6. PICK g : Iterates(g, n, s, F, X)
  BY <1>1, <1>4, IterationExists
<1>7. \A u \in SUBSET (1..n) : u # {} => Max(u) \in 1..n
  <2>1. \A u \in SUBSET (1..n) : u \subseteq 0..n
    OBVIOUS
  <2> QED BY <1>1, <2>1, MaxOf
<1>8. g = Rec(g)
  <2>1. ASSUME NEW u \in SUBSET (1..n), u # {} PROVE g[u] = With(g[u \ {Max(u)}], Max(u))
    BY <1>5, <1>6, <1>7, <2>1 DEF Iterates
  <2> QED BY <1>6, <2>1 DEF Iterates
<1>9. it = Rec(it)
  <2> HIDE DEF Rec
  <2> QED BY <1>8
<1> HIDE DEF it
<1>10. it[{}] = s /\ \A u \in SUBSET (1..n) : u # {} => it[u] = With(it[u \ {Max(u)}], Max(u))
  BY <1>9
<1>11. IteratesOn(it, n, s, F, X)
  BY <1>5, <1>7, <1>10 DEF IteratesOn
<1>12. PICK c : Chain(c, n, s, F, X) /\ c[n] = it[1..n]
  <2>1. Foldable(n, s, F, X)
    BY <1>1, <1>4 DEF Foldable
  <2>2. HasChain(it, n, s, F, X)
    BY <2>1, <1>11, ChainOf, Zenon
  <2> QED BY <2>2 DEF HasChain
<1>13. \A i \in 1..n : c[i - 1] \in X
  BY <1>1, <1>12 DEF Chain
<1>14. \A i \in 1..n : c[i] = With(c[i - 1], i)
  BY <1>5, <1>12, <1>13 DEF Chain
<1> QED
  BY <1>3, <1>12, <1>14 DEF Chain, ListSteps, With, n, X

\* RememberAll, key by key.
RememberSteps(c, recent, keys) ==
  /\ c \in [0..Len(keys) -> Seq(Key)] /\ c[0] = recent /\ RememberAll(recent, keys) = c[Len(keys)]
  /\ \A i \in 1..Len(keys) : c[i] = Remember(c[i - 1], keys[i])
LEMMA RememberChain ==
  ASSUME NEW recent \in Seq(Key), NEW keys \in Seq(Key)
  PROVE  \E c : RememberSteps(c, recent, keys)
<1> DEFINE X == Seq(Key)
           n == Len(keys)
           With(t, i) == Remember(t, keys[i])
           F == [z \in X \X Nat |-> IF z[2] \in 1..n THEN With(z[1], z[2]) ELSE z[1]]
           Rec(g) == [u \in SUBSET (1..n) |-> IF u = {} THEN recent ELSE With(g[u \ {Max(u)}], Max(u))]
           it == CHOOSE g : g = Rec(g)
<1>1. n \in Nat /\ DOMAIN keys = 1..n /\ recent \in X
  OBVIOUS
<1>2. \A t \in X : \A i \in 1..n : With(t, i) \in X
  BY RememberType
<1>3. RememberAll(recent, keys) = it[1..n]
  BY <1>1 DEF RememberAll, FoldLeft, MapThenFoldSet
<1> HIDE DEF With, X, n
<1>4. F \in [X \X Nat -> X]
  BY <1>2
<1>5. \A t \in X : \A i \in 1..n : i \in Nat /\ With(t, i) = F[<<t, i>>]
  BY <1>1
<1> HIDE DEF F
<1>6. PICK g : Iterates(g, n, recent, F, X)
  BY <1>1, <1>4, IterationExists
<1>7. \A u \in SUBSET (1..n) : u # {} => Max(u) \in 1..n
  <2>1. \A u \in SUBSET (1..n) : u \subseteq 0..n
    OBVIOUS
  <2> QED BY <1>1, <2>1, MaxOf
<1>8. g = Rec(g)
  <2>1. ASSUME NEW u \in SUBSET (1..n), u # {} PROVE g[u] = With(g[u \ {Max(u)}], Max(u))
    BY <1>5, <1>6, <1>7, <2>1 DEF Iterates
  <2> QED BY <1>6, <2>1 DEF Iterates
<1>9. it = Rec(it)
  <2> HIDE DEF Rec
  <2> QED BY <1>8
<1> HIDE DEF it
<1>10. it[{}] = recent /\ \A u \in SUBSET (1..n) : u # {} => it[u] = With(it[u \ {Max(u)}], Max(u))
  BY <1>9
<1>11. IteratesOn(it, n, recent, F, X)
  BY <1>5, <1>7, <1>10 DEF IteratesOn
<1>12. PICK c : Chain(c, n, recent, F, X) /\ c[n] = it[1..n]
  <2>1. Foldable(n, recent, F, X)
    BY <1>1, <1>4 DEF Foldable
  <2>2. HasChain(it, n, recent, F, X)
    BY <2>1, <1>11, ChainOf, Zenon
  <2> QED BY <2>2 DEF HasChain
<1>13. \A i \in 1..n : c[i - 1] \in X
  BY <1>1, <1>12 DEF Chain
<1>14. \A i \in 1..n : c[i] = With(c[i - 1], i)
  BY <1>5, <1>12, <1>13 DEF Chain
<1> QED
  BY <1>3, <1>12, <1>14 DEF Chain, RememberSteps, With, n, X

\* InsertAll, key by key.
InsertSteps(c, queue, keys) ==
  /\ c \in [0..Len(keys) -> Seq(Entry)] /\ c[0] = queue /\ InsertAll(queue, keys) = c[Len(keys)]
  /\ \A i \in 1..Len(keys) : c[i] = Insert(c[i - 1], NewJob(keys[i], FALSE))
LEMMA InsertChain ==
  ASSUME NEW queue \in Seq(Entry), NEW keys \in Seq(Key)
  PROVE  \E c : InsertSteps(c, queue, keys)
<1> DEFINE X == Seq(Entry)
           n == Len(keys)
           With(t, i) == Insert(t, NewJob(keys[i], FALSE))
           F == [z \in X \X Nat |-> IF z[2] \in 1..n THEN With(z[1], z[2]) ELSE z[1]]
           Rec(g) == [u \in SUBSET (1..n) |-> IF u = {} THEN queue ELSE With(g[u \ {Max(u)}], Max(u))]
           it == CHOOSE g : g = Rec(g)
<1>1. n \in Nat /\ DOMAIN keys = 1..n /\ queue \in X
  OBVIOUS
<1>2. \A t \in X : \A i \in 1..n : With(t, i) \in X
  BY FreshEntries, InsertType
<1>3. InsertAll(queue, keys) = it[1..n]
  BY <1>1 DEF InsertAll, FoldLeft, MapThenFoldSet
<1> HIDE DEF With, X, n
<1>4. F \in [X \X Nat -> X]
  BY <1>2
<1>5. \A t \in X : \A i \in 1..n : i \in Nat /\ With(t, i) = F[<<t, i>>]
  BY <1>1
<1> HIDE DEF F
<1>6. PICK g : Iterates(g, n, queue, F, X)
  BY <1>1, <1>4, IterationExists
<1>7. \A u \in SUBSET (1..n) : u # {} => Max(u) \in 1..n
  <2>1. \A u \in SUBSET (1..n) : u \subseteq 0..n
    OBVIOUS
  <2> QED BY <1>1, <2>1, MaxOf
<1>8. g = Rec(g)
  <2>1. ASSUME NEW u \in SUBSET (1..n), u # {} PROVE g[u] = With(g[u \ {Max(u)}], Max(u))
    BY <1>5, <1>6, <1>7, <2>1 DEF Iterates
  <2> QED BY <1>6, <2>1 DEF Iterates
<1>9. it = Rec(it)
  <2> HIDE DEF Rec
  <2> QED BY <1>8
<1> HIDE DEF it
<1>10. it[{}] = queue /\ \A u \in SUBSET (1..n) : u # {} => it[u] = With(it[u \ {Max(u)}], Max(u))
  BY <1>9
<1>11. IteratesOn(it, n, queue, F, X)
  BY <1>5, <1>7, <1>10 DEF IteratesOn
<1>12. PICK c : Chain(c, n, queue, F, X) /\ c[n] = it[1..n]
  <2>1. Foldable(n, queue, F, X)
    BY <1>1, <1>4 DEF Foldable
  <2>2. HasChain(it, n, queue, F, X)
    BY <2>1, <1>11, ChainOf, Zenon
  <2> QED BY <2>2 DEF HasChain
<1>13. \A i \in 1..n : c[i - 1] \in X
  BY <1>1, <1>12 DEF Chain
<1>14. \A i \in 1..n : c[i] = With(c[i - 1], i)
  BY <1>5, <1>12, <1>13 DEF Chain
<1> QED
  BY <1>3, <1>12, <1>14 DEF Chain, InsertSteps, With, n, X

\* All of a sequence of keys listed.
LEMMA AddAllPendingLists ==
  ASSUME NEW s \in Queues, NEW keys \in Seq(Key)
  PROVE  Listed(s, AddAllPending(s, keys), ToSet(keys))
<1> DEFINE n == Len(keys)
           K(i) == {keys[j] : j \in 1..i}
<1>1. PICK c : ListSteps(c, s, keys)
  BY ListChain
<1>2. n \in Nat /\ 0 \in 0..n /\ n \in 0..n /\ K(n) = ToSet(keys) /\ K(0) = {}
  BY DEF ToSet
<1>3. \A i \in 1..n : K(i) = K(i - 1) \cup {keys[i]} /\ K(i) # {} /\ keys[i] \in Key
  OBVIOUS
<1> HIDE DEF K
<1> DEFINE P == {i \in 0..n : Listed(s, c[i], K(i))}
<1>4. 0 \in P
  BY <1>1, <1>2 DEF ListSteps, Listed
<1>5. ASSUME NEW i \in 1..n, i - 1 \in P PROVE i \in P
  <2>1. i \in 0..n /\ i - 1 \in 0..n
    BY <1>2
  <2>2. Listed(s, c[i - 1], K(i - 1)) /\ c[i - 1] \in Queues
    BY <1>5, <2>1 DEF Listed
  <2>3. Listed(c[i - 1], c[i], {keys[i]})
    BY <1>1, <1>3, <2>2, AddPendingLists DEF ListSteps
  <2>4. Listed(s, c[i], K(i))
    BY <1>3, <2>2, <2>3 DEF Listed
  <2> QED BY <2>1, <2>4
<1>6. n \in P
  <2> HIDE DEF P, n
  <2> QED BY <1>2, <1>4, <1>5, UpTo
<1> QED BY <1>1, <1>2, <1>6 DEF ListSteps

LEMMA RememberAllType ==
  ASSUME NEW recent \in Seq(Key), NEW keys \in Seq(Key)
  PROVE  RememberAll(recent, keys) \in Seq(Key)
<1>1. PICK c : RememberSteps(c, recent, keys)
  BY RememberChain
<1>2. Len(keys) \in 0..Len(keys)
  OBVIOUS
<1> QED BY <1>1, <1>2 DEF RememberSteps

\* The results of an instance, in their order.
LEMMA InOrderKeys ==
  ASSUME NEW i \in 1..Instances, NEW keys \in SUBSET Key
  PROVE  /\ InOrder(i, keys) \in Seq(Key)
         /\ ToSet(InOrder(i, keys)) = {k \in keys : k[1] = i}
         /\ \A a, b \in 1..Len(InOrder(i, keys)) : a < b => InOrder(i, keys)[a] # InOrder(i, keys)[b]
<1> DEFINE s == [n \in 1..Results |-> <<i, n>>]
<1>1. Results \in Nat
  BY DeliveryAssumption
<1>2. s \in Seq(Key) /\ Len(s) = Results /\ \A n \in 1..Results : s[n] = <<i, n>>
  BY <1>1 DEF Key
<1>3. ToSet(s) = {k \in Key : k[1] = i}
  <2>1. \A k \in Key : k[1] = i => k[2] \in 1..Results /\ k = <<i, k[2]>>
    BY DEF Key
  <2>2. DOMAIN s = 1..Results /\ \A n \in 1..Results : <<i, n>> \in Key /\ <<i, n>>[1] = i
    BY DEF Key
  <2> QED BY <1>2, <2>1, <2>2 DEF ToSet
<1>4. InOrder(i, keys) = Only(s, keys)
  BY DEF InOrder
<1> HIDE DEF s
<1>5. /\ Only(s, keys) \in Seq(Key) /\ ToSet(Only(s, keys)) = ToSet(s) \cap keys
      /\ \A a, b \in 1..Len(Only(s, keys)) : a < b =>
           \E k, l \in 1..Len(s) : k < l /\ s[k] = Only(s, keys)[a] /\ s[l] = Only(s, keys)[b]
  BY <1>2, OnlyElements
<1>6. \A k, l \in 1..Len(s) : k < l => s[k] # s[l]
  BY <1>1, <1>2
<1> QED BY <1>3, <1>4, <1>5, <1>6

-----------------------------------------------------------------------------
(* Jobs.                                                                    *)

Keys(w) == {w[i].key : i \in 1..Len(w)}
Autos(w) == {w[i].key : i \in {j \in 1..Len(w) : ~w[j].manual}}

\* A result has one automatic job at most, and nothing of it goes before that one.
Distinct(w) == \A i, j \in 1..Len(w) : i < j /\ ~w[j].manual => w[i].key # w[j].key
\* Only the first automatic job may have been tried before.
Ahead(w) == \A i, j \in 1..Len(w) : i < j /\ ~w[i].manual /\ ~w[j].manual => w[j].attempts = 0
\* Automatic jobs are in result order, but for one that is tried again.
Sorted(w) ==
  \A i, j \in 1..Len(w) :
    i < j /\ ~w[i].manual /\ ~w[j].manual => w[i].attempts > 0 \/ w[i].key[2] < w[j].key[2]

\* w has jobs of v, in their order.
Part(w, v) ==
  /\ w \in Seq(Entry)
  /\ \A i \in 1..Len(w) : \E k \in 1..Len(v) : v[k] = w[i]
  /\ \A i, j \in 1..Len(w) : i < j => \E k, l \in 1..Len(v) : k < l /\ v[k] = w[i] /\ v[l] = w[j]

\* Part of the jobs keep what all of them have.
LEMMA PartKeeps ==
  ASSUME NEW w, NEW v, Part(w, v)
  PROVE  /\ Distinct(v) => Distinct(w)
         /\ Ahead(v) => Ahead(w)
         /\ Sorted(v) => Sorted(w)
         /\ Autos(w) \subseteq Autos(v) /\ Keys(w) \subseteq Keys(v)
<1>1. ASSUME Distinct(v) PROVE Distinct(w)
  <2>1. SUFFICES ASSUME NEW i \in 1..Len(w), NEW j \in 1..Len(w), i < j, ~w[j].manual
                 PROVE  w[i].key # w[j].key
    BY DEF Distinct
  <2>2. PICK k, l \in 1..Len(v) : k < l /\ v[k] = w[i] /\ v[l] = w[j]
    BY <2>1 DEF Part
  <2> QED BY <1>1, <2>1, <2>2 DEF Distinct
<1>2. ASSUME Ahead(v) PROVE Ahead(w)
  <2>1. SUFFICES ASSUME NEW i \in 1..Len(w), NEW j \in 1..Len(w), i < j, ~w[i].manual, ~w[j].manual
                 PROVE  w[j].attempts = 0
    BY DEF Ahead
  <2>2. PICK k, l \in 1..Len(v) : k < l /\ v[k] = w[i] /\ v[l] = w[j]
    BY <2>1 DEF Part
  <2> QED BY <1>2, <2>1, <2>2 DEF Ahead
<1>3. ASSUME Sorted(v) PROVE Sorted(w)
  <2>1. SUFFICES ASSUME NEW i \in 1..Len(w), NEW j \in 1..Len(w), i < j, ~w[i].manual, ~w[j].manual
                 PROVE  w[i].attempts > 0 \/ w[i].key[2] < w[j].key[2]
    BY DEF Sorted
  <2>2. PICK k, l \in 1..Len(v) : k < l /\ v[k] = w[i] /\ v[l] = w[j]
    BY <2>1 DEF Part
  <2> QED BY <1>3, <2>1, <2>2 DEF Sorted
<1>4. \A i \in 1..Len(w) : \E k \in 1..Len(v) : v[k] = w[i]
  BY DEF Part
<1>5. Keys(w) \subseteq Keys(v)
  BY <1>4 DEF Keys
<1>6. ASSUME NEW x \in Autos(w) PROVE x \in Autos(v)
  <2>1. PICK i \in 1..Len(w) : ~w[i].manual /\ w[i].key = x
    BY DEF Autos
  <2>2. PICK k \in 1..Len(v) : v[k] = w[i]
    BY <1>4
  <2> QED BY <2>1, <2>2 DEF Autos
<1> QED BY <1>1, <1>2, <1>3, <1>5, <1>6

LEMMA OnlyIsPart ==
  ASSUME NEW v \in Seq(Entry), NEW S
  PROVE  Part(Only(v, S), v) /\ ToSet(Only(v, S)) = ToSet(v) \cap S
<1> DEFINE w == Only(v, S)
<1>1. /\ w \in Seq(Entry) /\ ToSet(w) = ToSet(v) \cap S
      /\ \A i, j \in 1..Len(w) : i < j => \E k, l \in 1..Len(v) : k < l /\ v[k] = w[i] /\ v[l] = w[j]
  BY OnlyElements
<1> HIDE DEF w
<1>2. ASSUME NEW i \in 1..Len(w) PROVE \E k \in 1..Len(v) : v[k] = w[i]
  <2>1. w[i] \in ToSet(w)
    BY <1>1, Elements
  <2>2. w[i] \in ToSet(v)
    BY <1>1, <2>1
  <2> QED BY <2>2, Elements
<1>3. Part(w, v)
  BY <1>1, <1>2 DEF Part
<1> QED BY <1>1, <1>3 DEF w

\* The same before both.
LEMMA PartJoined ==
  ASSUME NEW f \in Seq(Entry), NEW v \in Seq(Entry), NEW w, Part(w, v)
  PROVE  Part(f \o w, f \o v)
<1> DEFINE n == Len(f)
           a == f \o w
           b == f \o v
<1>1. /\ n \in Nat /\ w \in Seq(Entry) /\ Len(w) \in Nat /\ Len(v) \in Nat
      /\ a \in Seq(Entry) /\ Len(a) = n + Len(w) /\ Len(b) = n + Len(v)
      /\ \A i \in 1..n : a[i] = f[i] /\ b[i] = f[i]
      /\ \A i \in n + 1..n + Len(w) : a[i] = w[i - n]
      /\ \A i \in n + 1..n + Len(v) : b[i] = v[i - n]
  BY Joined DEF Part
<1> HIDE DEF a, b, n
<1>2. \A i \in 1..n + Len(w) : i \in 1..n \/ (i \in n + 1..n + Len(w) /\ i - n \in 1..Len(w) /\ i > n)
  BY <1>1
<1>3. \A k \in 1..Len(v) : n + k \in 1..n + Len(v) /\ n + k > n /\ b[n + k] = v[k]
  BY <1>1
<1>4. \A i \in 1..n : i \in 1..n + Len(v) /\ i <= n
  BY <1>1
<1>5. ASSUME NEW i \in 1..n + Len(w) PROVE \E k \in 1..n + Len(v) : b[k] = a[i]
  <2>1. CASE i \in 1..n
    BY <1>1, <1>4, <2>1
  <2>2. CASE i \in n + 1..n + Len(w) /\ i - n \in 1..Len(w)
    <3>1. PICK k \in 1..Len(v) : v[k] = w[i - n]
      BY <2>2 DEF Part
    <3> QED BY <1>1, <1>3, <2>2, <3>1
  <2> QED BY <1>2, <2>1, <2>2
<1>6. ASSUME NEW i \in 1..n + Len(w), NEW j \in 1..n + Len(w), i < j
      PROVE  \E k, l \in 1..n + Len(v) : k < l /\ b[k] = a[i] /\ b[l] = a[j]
  <2>1. CASE j \in 1..n
    <3>1. i \in 1..n
      BY <1>1, <1>6, <2>1
    <3> QED BY <1>1, <1>4, <1>6, <2>1, <3>1
  <2>2. CASE i \in 1..n /\ j \in n + 1..n + Len(w) /\ j - n \in 1..Len(w)
    <3>1. PICK l \in 1..Len(v) : v[l] = w[j - n]
      BY <2>2 DEF Part
    <3>2. b[n + l] = a[j] /\ n + l \in 1..n + Len(v) /\ n + l > n
      BY <1>1, <1>3, <2>2, <3>1
    <3>3. b[i] = a[i] /\ i \in 1..n + Len(v) /\ i <= n
      BY <1>1, <1>4, <2>2
    <3>4. i < n + l
      BY <1>1, <3>2, <3>3
    <3> QED BY <3>2, <3>3, <3>4
  <2>3. CASE i \in n + 1..n + Len(w) /\ j \in n + 1..n + Len(w)
    <3>1. i - n \in 1..Len(w) /\ j - n \in 1..Len(w) /\ i - n < j - n
      BY <1>1, <1>6, <2>3
    <3>2. PICK k, l \in 1..Len(v) : k < l /\ v[k] = w[i - n] /\ v[l] = w[j - n]
      BY <3>1 DEF Part
    <3>3. n + k < n + l
      BY <1>1, <3>2
    <3> QED BY <1>1, <1>3, <2>3, <3>2, <3>3
  <2>4. /\ i \in 1..n \/ i \in n + 1..n + Len(w)
        /\ j \in 1..n \/ (j \in n + 1..n + Len(w) /\ j - n \in 1..Len(w))
    BY <1>2
  <2> QED BY <2>1, <2>2, <2>3, <2>4
<1>7. Part(a, b)
  BY <1>1, <1>5, <1>6 DEF Part
<1> QED BY <1>7 DEF a, b

\* What is left of joined jobs without the first of them.
LEMMA RestIsPart ==
  ASSUME NEW f \in Seq(Entry), NEW v \in Seq(Entry)
  PROVE  Part(v, f \o v)
<1>1. /\ Len(f) \in Nat /\ Len(v) \in Nat /\ Len(f \o v) = Len(f) + Len(v)
      /\ \A i \in Len(f) + 1..Len(f) + Len(v) : (f \o v)[i] = v[i - Len(f)]
  BY Joined
<1>2. ASSUME NEW k \in 1..Len(v)
      PROVE  Len(f) + k \in 1..Len(f) + Len(v) /\ (f \o v)[Len(f) + k] = v[k]
  <2>1. Len(f) + k \in Len(f) + 1..Len(f) + Len(v) /\ (Len(f) + k) - Len(f) = k
    BY <1>1
  <2> QED BY <1>1, <2>1
<1>3. \A i, j \in 1..Len(v) : i < j => Len(f) + i < Len(f) + j
  BY <1>1
<1> HIDE DEF Part
<1>4. /\ \A i \in 1..Len(v) : \E k \in 1..Len(f \o v) : (f \o v)[k] = v[i]
      /\ \A i, j \in 1..Len(v) : i < j =>
           \E k, l \in 1..Len(f \o v) : k < l /\ (f \o v)[k] = v[i] /\ (f \o v)[l] = v[j]
  BY <1>1, <1>2, <1>3
<1> QED BY <1>4 DEF Part

\* w is v with e put in at p.
Put(w, v, p, e) ==
  /\ w \in Seq(Entry) /\ v \in Seq(Entry) /\ e \in Entry /\ p \in 1..Len(w) /\ Len(w) = Len(v) + 1
  /\ w[p] = e
  /\ \A i \in 1..Len(v) : i < p => w[i] = v[i]
  /\ \A i \in 2..Len(w) : i > p => w[i] = v[i - 1]

LEMMA InsertPuts ==
  ASSUME NEW v \in Seq(Entry), NEW e \in Entry
  PROVE  \E p : PlaceIn(p, v, e) /\ Put(Insert(v, e), v, p, e)
<1>1. PICK p : PlaceIn(p, v, e) /\ Insert(v, e) = InsertAt(v, p, e)
  BY InsertPlace
<1>2. p \in 1..Len(v) + 1
  BY <1>1 DEF PlaceIn
<1>3. Put(InsertAt(v, p, e), v, p, e)
  BY <1>2, PutIn DEF Put
<1> QED BY <1>1, <1>3

LEMMA PutJoined ==
  ASSUME NEW f \in Seq(Entry), NEW w, NEW v, NEW p, NEW e, Put(w, v, p, e)
  PROVE  Put(f \o w, f \o v, Len(f) + p, e)
<1> DEFINE n == Len(f)
           a == f \o w
           b == f \o v
<1>1. /\ w \in Seq(Entry) /\ v \in Seq(Entry) /\ e \in Entry /\ p \in 1..Len(w) /\ Len(w) = Len(v) + 1
      /\ w[p] = e
      /\ \A i \in 1..Len(v) : i < p => w[i] = v[i]
      /\ \A i \in 2..Len(w) : i > p => w[i] = v[i - 1]
  BY DEF Put
<1>2. /\ n \in Nat /\ Len(w) \in Nat /\ Len(v) \in Nat
      /\ a \in Seq(Entry) /\ Len(a) = n + Len(w) /\ b \in Seq(Entry) /\ Len(b) = n + Len(v)
      /\ \A i \in 1..n : a[i] = f[i] /\ b[i] = f[i]
      /\ \A i \in n + 1..n + Len(w) : a[i] = w[i - n]
      /\ \A i \in n + 1..n + Len(v) : b[i] = v[i - n]
  <2>1. w \in Seq(Entry) /\ v \in Seq(Entry)
    BY <1>1
  <2>2. /\ a \in Seq(Entry) /\ Len(a) = n + Len(w) /\ \A i \in 1..n : a[i] = f[i]
        /\ \A i \in n + 1..n + Len(w) : a[i] = w[i - n]
    BY <2>1, Joined
  <2>3. /\ b \in Seq(Entry) /\ Len(b) = n + Len(v) /\ \A i \in 1..n : b[i] = f[i]
        /\ \A i \in n + 1..n + Len(v) : b[i] = v[i - n]
    BY <2>1, Joined
  <2>4. n \in Nat /\ Len(w) \in Nat /\ Len(v) \in Nat
    BY <2>1
  <2> HIDE DEF a, b, n
  <2> QED BY <2>2, <2>3, <2>4
<1> HIDE DEF a, b, n
<1>3. n + p \in 1..Len(a) /\ Len(a) = Len(b) + 1 /\ a[n + p] = e
  <2>1. n + p \in n + 1..n + Len(w) /\ (n + p) - n = p
    <3>1. p \in 1..Len(w) /\ n \in Nat /\ Len(w) \in Nat
      BY <1>1, <1>2
    <3> QED BY <3>1
  <2>2. a[n + p] = w[p] /\ n + p \in 1..n + Len(w)
    BY <1>2, <2>1
  <2> QED BY <1>1, <1>2, <2>2
<1>4. ASSUME NEW i \in 1..Len(b), i < n + p PROVE a[i] = b[i]
  <2>1. CASE i \in 1..n
    BY <1>2, <2>1
  <2>2. CASE i \notin 1..n
    <3>1. i \in n + 1..n + Len(w) /\ i \in n + 1..n + Len(v) /\ i - n \in 1..Len(v) /\ i - n < p
      BY <1>1, <1>2, <1>4, <2>2
    <3> QED BY <1>1, <1>2, <3>1
  <2> QED BY <2>1, <2>2
<1>5. ASSUME NEW i \in 2..Len(a), i > n + p PROVE a[i] = b[i - 1]
  <2>1. /\ i \in n + 1..n + Len(w) /\ i - 1 \in n + 1..n + Len(v) /\ i - n \in 2..Len(w) /\ i - n > p
        /\ (i - n) - 1 = (i - 1) - n
    BY <1>1, <1>2, <1>5
  <2>2. a[i] = w[i - n] /\ w[i - n] = v[(i - n) - 1] /\ b[i - 1] = v[(i - 1) - n]
    BY <1>1, <1>2, <2>1
  <2> QED BY <2>1, <2>2
<1> QED BY <1>1, <1>2, <1>3, <1>4, <1>5 DEF Put, a, b, n

\* The places of w, by those of v.
Places(w, v, p, e) ==
  /\ \A i \in 1..Len(w) : \/ i = p /\ w[i] = e
                          \/ i < p /\ i \in 1..Len(v) /\ w[i] = v[i]
                          \/ i > p /\ i - 1 \in 1..Len(v) /\ w[i] = v[i - 1]
  /\ \A i \in 1..Len(v) : \E j \in 1..Len(w) : w[j] = v[i]
  /\ p \in Nat /\ Len(v) \in Nat /\ p \in 1..Len(w)
LEMMA PutPlaces ==
  ASSUME NEW w, NEW v, NEW p, NEW e, Put(w, v, p, e)
  PROVE  Places(w, v, p, e)
<1>1. /\ Len(w) \in Nat /\ Len(v) \in Nat /\ p \in 1..Len(w) /\ Len(w) = Len(v) + 1 /\ w[p] = e
      /\ \A i \in 1..Len(v) : i < p => w[i] = v[i]
      /\ \A i \in 2..Len(w) : i > p => w[i] = v[i - 1]
  BY DEF Put
<1>2. ASSUME NEW i \in 1..Len(w)
      PROVE  \/ i = p /\ w[i] = e
             \/ i < p /\ i \in 1..Len(v) /\ w[i] = v[i]
             \/ i > p /\ i - 1 \in 1..Len(v) /\ w[i] = v[i - 1]
  <2>1. CASE i = p
    BY <1>1, <2>1
  <2>2. CASE i < p
    <3>1. i \in 1..Len(v)
      BY <1>1, <2>2
    <3> QED BY <1>1, <2>2, <3>1
  <2>3. CASE i > p
    <3>1. i \in 2..Len(w) /\ i - 1 \in 1..Len(v)
      BY <1>1, <2>3
    <3> QED BY <1>1, <2>3, <3>1
  <2> QED BY <1>1, <2>1, <2>2, <2>3
<1>3. ASSUME NEW i \in 1..Len(v) PROVE \E j \in 1..Len(w) : w[j] = v[i]
  <2>1. CASE i < p
    BY <1>1, <2>1
  <2>2. CASE i >= p
    <3>1. i + 1 \in 2..Len(w) /\ i + 1 > p /\ (i + 1) - 1 = i /\ i + 1 \in 1..Len(w)
      BY <1>1, <2>2
    <3>2. w[i + 1] = v[i]
      BY <1>1, <3>1
    <3> QED BY <3>1, <3>2
  <2> QED BY <1>1, <2>1, <2>2
<1> QED BY <1>1, <1>2, <1>3 DEF Places

LEMMA PutKeys ==
  ASSUME NEW w, NEW v, NEW p, NEW e, Put(w, v, p, e)
  PROVE  /\ Keys(w) = Keys(v) \cup {e.key}
         /\ e.manual => Autos(w) = Autos(v)
         /\ ~e.manual => Autos(w) = Autos(v) \cup {e.key}
<1>1. /\ \A i \in 1..Len(w) : w[i] = e \/ \E j \in 1..Len(v) : w[i] = v[j]
      /\ \A i \in 1..Len(v) : \E j \in 1..Len(w) : w[j] = v[i]
      /\ \E j \in 1..Len(w) : w[j] = e
  <2>1. Places(w, v, p, e) /\ w[p] = e
    BY PutPlaces DEF Put
  <2> QED BY <2>1 DEF Places
<1>2. Keys(w) = Keys(v) \cup {e.key}
  BY <1>1 DEF Keys
<1>3. ASSUME e.manual PROVE Autos(w) = Autos(v)
  <2>1. Autos(w) \subseteq Autos(v)
    BY <1>1, <1>3 DEF Autos
  <2>2. Autos(v) \subseteq Autos(w)
    BY <1>1 DEF Autos
  <2> QED BY <2>1, <2>2
<1>4. ASSUME ~e.manual PROVE Autos(w) = Autos(v) \cup {e.key}
  <2>1. Autos(w) \subseteq Autos(v) \cup {e.key}
    BY <1>1 DEF Autos
  <2>2. Autos(v) \subseteq Autos(w)
    BY <1>1 DEF Autos
  <2>3. e.key \in Autos(w)
    BY <1>1, <1>4 DEF Autos
  <2> QED BY <2>1, <2>2, <2>3
<1> QED BY <1>2, <1>3, <1>4

\* Two places of w are two of v in the same order, or one of them is p.
LEMMA PutPairs ==
  ASSUME NEW w, NEW v, NEW p, NEW e, Put(w, v, p, e), NEW i \in 1..Len(w), NEW j \in 1..Len(w), i < j
  PROVE  \/ i = p /\ w[i] = e /\ \E b \in 1..Len(v) : b >= p /\ w[j] = v[b]
         \/ j = p /\ w[j] = e /\ \E a \in 1..Len(v) : a < p /\ w[i] = v[a]
         \/ \E a, b \in 1..Len(v) : a < b /\ w[i] = v[a] /\ w[j] = v[b]
<1>2. /\ \A a \in 1..Len(w) : \/ a = p /\ w[a] = e
                              \/ a < p /\ a \in 1..Len(v) /\ w[a] = v[a]
                              \/ a > p /\ a - 1 \in 1..Len(v) /\ w[a] = v[a - 1]
      /\ p \in Nat /\ Len(v) \in Nat
  BY PutPlaces DEF Places
<1>3. CASE i = p
  <2>1. j > p /\ j - 1 \in 1..Len(v) /\ w[j] = v[j - 1] /\ j - 1 >= p /\ w[i] = e
    BY <1>2, <1>3
  <2> QED BY <1>3, <2>1
<1>4. CASE j = p
  <2>1. i < p /\ i \in 1..Len(v) /\ w[i] = v[i] /\ w[j] = e
    BY <1>2, <1>4
  <2> QED BY <1>4, <2>1
<1>5. CASE i # p /\ j # p
  <2>1. \E a, b \in 1..Len(v) : a < b /\ w[i] = v[a] /\ w[j] = v[b]
    <3>1. CASE i < p /\ j < p
      BY <1>2, <3>1
    <3>2. CASE i < p /\ j > p
      <4>1. i \in 1..Len(v) /\ w[i] = v[i] /\ j - 1 \in 1..Len(v) /\ w[j] = v[j - 1]
        BY <1>2, <3>2
      <4>2. i < j - 1
        BY <1>2, <3>2
      <4> QED BY <4>1, <4>2
    <3>3. CASE i > p /\ j > p
      <4>1. i - 1 \in 1..Len(v) /\ w[i] = v[i - 1] /\ j - 1 \in 1..Len(v) /\ w[j] = v[j - 1]
        BY <1>2, <3>3
      <4>2. i - 1 < j - 1
        OBVIOUS
      <4> QED BY <4>1, <4>2
    <3> QED BY <1>2, <1>5, <3>1, <3>2, <3>3
  <2> QED BY <2>1
<1> QED BY <1>3, <1>4, <1>5

LEMMA PutDistinct ==
  ASSUME NEW w, NEW v, NEW p, NEW e, Put(w, v, p, e), Distinct(v),
         \A j \in 1..Len(v) : j >= p /\ ~v[j].manual => v[j].key # e.key,
         ~e.manual => \A j \in 1..Len(v) : j < p => v[j].key # e.key
  PROVE  Distinct(w)
<1>1. SUFFICES ASSUME NEW i \in 1..Len(w), NEW j \in 1..Len(w), i < j, ~w[j].manual
               PROVE  w[i].key # w[j].key
  BY DEF Distinct
<1>2. \/ i = p /\ w[i] = e /\ \E b \in 1..Len(v) : b >= p /\ w[j] = v[b]
      \/ j = p /\ w[j] = e /\ \E a \in 1..Len(v) : a < p /\ w[i] = v[a]
      \/ \E a, b \in 1..Len(v) : a < b /\ w[i] = v[a] /\ w[j] = v[b]
  BY <1>1, PutPairs
<1> QED BY <1>1, <1>2 DEF Distinct

LEMMA PutAhead ==
  ASSUME NEW w, NEW v, NEW p, NEW e, Put(w, v, p, e), Ahead(v),
         ~e.manual => e.attempts = 0 /\ \A j \in 1..Len(v) : j >= p /\ ~v[j].manual => v[j].attempts = 0
  PROVE  Ahead(w)
<1>1. SUFFICES ASSUME NEW i \in 1..Len(w), NEW j \in 1..Len(w), i < j, ~w[i].manual, ~w[j].manual
               PROVE  w[j].attempts = 0
  BY DEF Ahead
<1>2. \/ i = p /\ w[i] = e /\ \E b \in 1..Len(v) : b >= p /\ w[j] = v[b]
      \/ j = p /\ w[j] = e /\ \E a \in 1..Len(v) : a < p /\ w[i] = v[a]
      \/ \E a, b \in 1..Len(v) : a < b /\ w[i] = v[a] /\ w[j] = v[b]
  BY <1>1, PutPairs
<1> QED BY <1>1, <1>2 DEF Ahead

LEMMA PutSorted ==
  ASSUME NEW w, NEW v, NEW p, NEW e, Put(w, v, p, e), Sorted(v),
         ~e.manual => /\ \A j \in 1..Len(v) : j >= p /\ ~v[j].manual => e.key[2] < v[j].key[2]
                      /\ \A j \in 1..Len(v) : j < p /\ ~v[j].manual => v[j].attempts > 0 \/ v[j].key[2] < e.key[2]
  PROVE  Sorted(w)
<1>1. SUFFICES ASSUME NEW i \in 1..Len(w), NEW j \in 1..Len(w), i < j, ~w[i].manual, ~w[j].manual
               PROVE  w[i].attempts > 0 \/ w[i].key[2] < w[j].key[2]
  BY DEF Sorted
<1>2. \/ i = p /\ w[i] = e /\ \E b \in 1..Len(v) : b >= p /\ w[j] = v[b]
      \/ j = p /\ w[j] = e /\ \E a \in 1..Len(v) : a < p /\ w[i] = v[a]
      \/ \E a, b \in 1..Len(v) : a < b /\ w[i] = v[a] /\ w[j] = v[b]
  BY <1>1, PutPairs
<1> QED BY <1>1, <1>2 DEF Sorted

-----------------------------------------------------------------------------
(* The queue between two handlers, and what a handler does to it.           *)

AutoKeys(s) == Autos(Jobs(s))

\* No result with an automatic job is acknowledged or in the Not copied list.
Apart(s) ==
  /\ Distinct(Jobs(s))
  /\ \A k \in AutoKeys(s) : s.acked[k] = "none" /\ k \notin ToSet(s.pending)
Ordered(s) ==
  /\ Ahead(Jobs(s)) /\ Sorted(s.queue)
  /\ \A k \in Autos(s.queue) : k[1] = s.instance
Good(s) == s \in Queues /\ Apart(s) /\ Ordered(s)

\* Where a result may go without being lost: the list, what the user or the limit takes from
\* it, and the results a verdict says are on the clipboard.
Safe(t, told) == ToSet(t.pending) \cup t.shed \cup told

\* From s to t, with the results in `new` taken in and those in `told` on the clipboard.
Handled(s, t, new, told) ==
  /\ \A k \in Key : t.acked[k] = "delivered" => s.acked[k] = "delivered" \/ k \in told
  /\ \A k \in Key : s.acked[k] # "none" => t.acked[k] # "none"
  /\ \A k \in Key : t.acked[k] # "none" => s.acked[k] # "none" \/ k \in Safe(t, told)
  /\ ToSet(s.pending) \cup s.shed \subseteq Safe(t, told)
  /\ AutoKeys(s) \subseteq QueuedKeys(t) \cup Safe(t, told)
  /\ AutoKeys(t) \subseteq AutoKeys(s) \cup new
  /\ ToSet(t.pending) \subseteq ToSet(s.pending) \cup AutoKeys(s) \cup new
  /\ AutoKeys(s) = {} /\ new = {} =>
       \A k \in ToSet(s.pending) : k \in ToSet(t.pending) \/ t.acked[k] # "none"

\* What it says to the daemon it has noted.
Outs(s, t) ==
  \A o \in t.out : \/ o \in s.out
                   \/ t.acked[o.key] # "none" /\ (o.status = "delivered" => t.acked[o.key] = "delivered")

LEMMA QueueTypes ==
  ASSUME NEW s \in Queues
  PROVE  /\ s \in QueueRec /\ Len(s.flight) <= 1 /\ Len(s.pending) <= PendingLimit /\ IsFiniteSet(s.begun)
         /\ s.instance \in 0..Instances /\ s.queue \in Seq(Entry) /\ s.flight \in Seq(Entry)
         /\ s.acked \in [Key -> AckStatus \cup {"none"}] /\ s.recent \in Seq(Key) /\ s.pending \in Seq(Key)
         /\ s.unsynced \subseteq Key /\ s.suspect \subseteq Key /\ s.out \subseteq Ack
         /\ s.begun \subseteq Entry /\ s.shed \subseteq Key
         /\ ToSet(s.pending) \subseteq Key
<1>1. s \in QueueRec /\ s.pending \in Seq(Key)
  BY DEF Queues, QueueRec
<1>2. ToSet(s.pending) \subseteq Key
  BY <1>1, Elements
<1> QED BY <1>1, <1>2 DEF Queues, QueueRec

LEMMA JoinedKeys ==
  ASSUME NEW f \in Seq(Entry), NEW v \in Seq(Entry)
  PROVE  Autos(f \o v) = Autos(f) \cup Autos(v) /\ Keys(f \o v) = Keys(f) \cup Keys(v)
<1>1. /\ Len(f) \in Nat /\ Len(v) \in Nat /\ Len(f \o v) = Len(f) + Len(v)
      /\ \A i \in 1..Len(f) : (f \o v)[i] = f[i]
      /\ \A i \in Len(f) + 1..Len(f) + Len(v) : (f \o v)[i] = v[i - Len(f)]
  BY Joined
<1>2. Part(v, f \o v)
  BY RestIsPart
<1>3. Autos(v) \subseteq Autos(f \o v) /\ Keys(v) \subseteq Keys(f \o v)
  BY <1>2, PartKeeps
<1>4. \A i \in 1..Len(f) : i \in 1..Len(f \o v)
  BY <1>1
<1>5. Autos(f) \subseteq Autos(f \o v) /\ Keys(f) \subseteq Keys(f \o v)
  BY <1>1, <1>4 DEF Autos, Keys
<1>6. \A i \in 1..Len(f \o v) : \/ i \in 1..Len(f)
                                \/ i \in Len(f) + 1..Len(f) + Len(v) /\ i - Len(f) \in 1..Len(v)
  BY <1>1
<1>7. \A i \in 1..Len(f \o v) : \/ \E j \in 1..Len(f) : (f \o v)[i] = f[j]
                                \/ \E j \in 1..Len(v) : (f \o v)[i] = v[j]
  BY <1>1, <1>6
<1>8. Autos(f \o v) \subseteq Autos(f) \cup Autos(v) /\ Keys(f \o v) \subseteq Keys(f) \cup Keys(v)
  BY <1>7 DEF Autos, Keys
<1> QED BY <1>3, <1>5, <1>8

LEMMA EntryKeys ==
  ASSUME NEW w \in Seq(Entry)
  PROVE  Autos(w) \subseteq Keys(w) /\ Keys(w) \subseteq Key /\ Autos(<<>>) = {} /\ Keys(<<>>) = {}
<1>0. \A i \in 1..Len(w) : w[i] \in Entry
  OBVIOUS
<1>1. \A i \in 1..Len(w) : w[i] \in Entry /\ w[i].key \in Key
  BY <1>0 DEF Entry
<1>2. Keys(w) \subseteq Key /\ Autos(w) \subseteq Keys(w)
  BY <1>1 DEF Keys, Autos
<1>3. Len(<<>>) = 0 /\ 1..0 = {}
  OBVIOUS
<1>4. Autos(<<>>) = {} /\ Keys(<<>>) = {}
  BY <1>3 DEF Keys, Autos
<1> QED BY <1>2, <1>4

LEMMA JobKeys ==
  ASSUME NEW s \in Queues
  PROVE  /\ Jobs(s) \in Seq(Entry) /\ QueuedKeys(s) = Keys(Jobs(s))
         /\ AutoKeys(s) \subseteq QueuedKeys(s) /\ QueuedKeys(s) \subseteq Key
         /\ AutoKeys(s) = Autos(s.flight) \cup Autos(s.queue)
         /\ QueuedKeys(s) = Keys(s.flight) \cup Keys(s.queue)
<1>1. s.flight \in Seq(Entry) /\ s.queue \in Seq(Entry)
  BY QueueTypes
<1>2. Jobs(s) \in Seq(Entry) /\ DOMAIN Jobs(s) = 1..Len(Jobs(s))
  BY <1>1 DEF Jobs
<1>3. QueuedKeys(s) = Keys(Jobs(s))
  BY <1>2 DEF QueuedKeys, Keys
<1> QED BY <1>1, <1>2, <1>3, EntryKeys, JoinedKeys DEF AutoKeys, Jobs

\* The job in flight is the only one there.
LEMMA FlightJob ==
  ASSUME NEW s \in Queues, s.flight # <<>>
  PROVE  /\ s.flight[1] \in Entry /\ s.flight[1].key \in Key /\ Len(s.flight) = 1 /\ s.flight = <<s.flight[1]>>
         /\ Keys(s.flight) = {s.flight[1].key}
         /\ s.flight[1].manual => Autos(s.flight) = {}
         /\ ~s.flight[1].manual => Autos(s.flight) = {s.flight[1].key}
<1>0. s.flight \in Seq(Entry) /\ Len(s.flight) <= 1
  BY QueueTypes
<1>1. s.flight \in Seq(Entry) /\ Len(s.flight) = 1 /\ 1..1 = {1}
  <2>1. Len(s.flight) \in Nat /\ Len(s.flight) # 0
    BY <1>0
  <2>2. Len(s.flight) = 1
    <3> DEFINE n == Len(s.flight)
    <3>1. n \in Nat /\ n # 0 /\ n <= 1
      BY <1>0, <2>1
    <3> HIDE DEF n
    <3>2. n = 1
      BY <3>1
    <3> QED BY <3>2 DEF n
  <2>3. 1..1 = {1}
    OBVIOUS
  <2> QED BY <1>0, <2>2, <2>3
<1>2. s.flight[1] \in Entry /\ s.flight[1].key \in Key
  <2>1. s.flight[1] \in Entry
    BY <1>1
  <2> QED BY <2>1 DEF Entry
<1>3. s.flight = <<s.flight[1]>>
  BY <1>1
<1>4. Keys(s.flight) = {s.flight[1].key}
  BY <1>1 DEF Keys
<1>5. ASSUME s.flight[1].manual PROVE Autos(s.flight) = {}
  BY <1>1, <1>5 DEF Autos
<1>6. ASSUME ~s.flight[1].manual PROVE Autos(s.flight) = {s.flight[1].key}
  BY <1>1, <1>6 DEF Autos
<1> QED BY <1>1, <1>2, <1>3, <1>4, <1>5, <1>6

\* Advance moves the first of the queue to the flight: the jobs stay the same.
Advanced(s, t) ==
  /\ t \in Queues /\ Jobs(t) = Jobs(s) /\ Part(t.queue, s.queue)
  /\ t.instance = s.instance /\ t.acked = s.acked /\ t.pending = s.pending /\ t.shed = s.shed
  /\ t.unsynced = s.unsynced /\ t.out = s.out

LEMMA Advances ==
  ASSUME NEW s \in Queues
  PROVE  Advanced(s, Advance(s))
<1>1. s \in QueueRec /\ s.queue \in Seq(Entry) /\ s.flight \in Seq(Entry) /\ s.begun \subseteq Entry
  BY QueueTypes
<1>2. CASE s.flight # <<>> \/ s.queue = <<>> \/ ~Head(s.queue).due
  <2>1. Advance(s) = s
    BY <1>2 DEF Advance
  <2>2. Part(s.queue, s.queue)
    BY <1>1 DEF Part
  <2> QED BY <2>1, <2>2 DEF Advanced
<1>3. CASE ~(s.flight # <<>> \/ s.queue = <<>> \/ ~Head(s.queue).due)
  <2> DEFINE h == Head(s.queue)
             v == Tail(s.queue)
             b == s.begun \cup {h}
             f == <<h>>
             t == [s EXCEPT !.queue = v, !.flight = f, !.begun = b]
  <2>1. Advance(s) = t
    BY <1>3 DEF Advance
  <2>2. h \in Entry /\ v \in Seq(Entry) /\ f \o v = s.queue /\ f \in Seq(Entry) /\ Len(f) = 1
    BY <1>1, <1>3, Split
  <2> HIDE DEF h, v
  <2>3. b \subseteq Entry /\ IsFiniteSet(b)
    BY <1>1, <2>2, QueueTypes, FS_AddElement
  <2> HIDE DEF b, f
  <2>4. /\ t \in QueueRec /\ t.queue = v /\ t.flight = f /\ t.begun = b /\ t.pending = s.pending
        /\ t.instance = s.instance /\ t.acked = s.acked /\ t.shed = s.shed
        /\ t.unsynced = s.unsynced /\ t.out = s.out
    BY <1>1, <2>2, <2>3 DEF QueueRec
  <2> HIDE DEF t
  <2>5. t \in Queues
    <3>1. Len(s.pending) <= PendingLimit
      BY QueueTypes
    <3>2. Len(t.flight) <= 1 /\ Len(t.pending) <= PendingLimit /\ IsFiniteSet(t.begun)
      <4>1. Len(t.flight) = 1
        BY <2>2, <2>4
      <4> QED BY <2>3, <2>4, <3>1, <4>1
    <3> QED BY <2>4, <3>2 DEF Queues
  <2>6. Jobs(t) = s.queue
    BY <2>2, <2>4 DEF Jobs
  <2>7. Jobs(s) = s.queue
    <3>1. s.flight = <<>>
      BY <1>3
    <3> QED BY <1>1, <3>1 DEF Jobs
  <2>8. Part(v, s.queue)
    BY <2>2, RestIsPart
  <2> QED BY <2>1, <2>4, <2>5, <2>6, <2>7, <2>8 DEF Advanced
<1> QED BY <1>2, <1>3

LEMMA AdvanceGood ==
  ASSUME NEW s, Good(s)
  PROVE  Good(Advance(s)) /\ Advanced(s, Advance(s))
<1> DEFINE t == Advance(s)
<1>1. Advanced(s, t)
  BY Advances DEF Good
<1> HIDE DEF t
<1>2. Apart(t)
  BY <1>1 DEF Advanced, Good, Apart, AutoKeys
<1>3. Sorted(t.queue) /\ Autos(t.queue) \subseteq Autos(s.queue)
  BY <1>1, PartKeeps DEF Advanced, Good, Ordered
<1>4. Ordered(t)
  BY <1>1, <1>3 DEF Advanced, Good, Ordered
<1> QED BY <1>1, <1>2, <1>4 DEF Good, Advanced, t

\* Handled depends on the jobs, the list and the statuses only.
LEMMA HandledAdvanced ==
  ASSUME NEW s, NEW t, NEW u, NEW new, NEW told, Handled(s, t, new, told), Advanced(t, u)
  PROVE  Handled(s, u, new, told)
<1>1. AutoKeys(u) = AutoKeys(t) /\ QueuedKeys(u) = QueuedKeys(t) /\ Safe(u, told) = Safe(t, told)
  BY DEF Advanced, AutoKeys, QueuedKeys, Safe
<1> QED BY <1>1 DEF Handled, Advanced

LEMMA HandledItself ==
  ASSUME NEW s \in Queues, NEW new, NEW told
  PROVE  Handled(s, s, new, told)
<1>1. AutoKeys(s) \subseteq QueuedKeys(s)
  BY JobKeys
<1> QED BY <1>1 DEF Handled, Safe

LEMMA HandledTwice ==
  ASSUME NEW s, NEW t, NEW u, NEW new, NEW told, s \in Queues, t \in Queues, u \in Queues,
         Handled(s, t, {}, {}), Handled(t, u, new, told),
         AutoKeys(s) \subseteq AutoKeys(t) \cup Safe(t, {})
  PROVE  Handled(s, u, new, told)
<1>1. ToSet(t.pending) \cup t.shed \subseteq Safe(u, told) /\ Safe(t, {}) = ToSet(t.pending) \cup t.shed
  BY DEF Handled, Safe
<1>2. \A k \in Key : u.acked[k] = "delivered" => s.acked[k] = "delivered" \/ k \in told
  BY DEF Handled
<1>3. \A k \in Key : s.acked[k] # "none" => u.acked[k] # "none"
  BY DEF Handled
<1>4. \A k \in Key : u.acked[k] # "none" => s.acked[k] # "none" \/ k \in Safe(u, told)
  BY <1>1 DEF Handled
<1>5. ToSet(s.pending) \cup s.shed \subseteq Safe(u, told)
  BY <1>1 DEF Handled
<1>6. AutoKeys(s) \subseteq QueuedKeys(u) \cup Safe(u, told)
  BY <1>1 DEF Handled
<1>7. AutoKeys(u) \subseteq AutoKeys(s) \cup new
  BY DEF Handled
<1>8. ToSet(u.pending) \subseteq ToSet(s.pending) \cup AutoKeys(s) \cup new
  BY DEF Handled
<1>9. ASSUME AutoKeys(s) = {}, new = {}, NEW k \in ToSet(s.pending)
      PROVE  k \in ToSet(u.pending) \/ u.acked[k] # "none"
  <2>1. AutoKeys(t) = {} /\ k \in Key
    BY <1>9, QueueTypes DEF Handled
  <2>2. k \in ToSet(t.pending) \/ t.acked[k] # "none"
    BY <1>9 DEF Handled
  <2> QED BY <1>9, <2>1, <2>2 DEF Handled
<1> QED BY <1>2, <1>3, <1>4, <1>5, <1>6, <1>7, <1>8, <1>9 DEF Handled

-----------------------------------------------------------------------------
(* What may wait behind a flight.                                           *)

QueueFits(f, v, i) ==
  /\ v \in Seq(Entry) /\ Distinct(f \o v) /\ Ahead(f \o v) /\ Sorted(v)
  /\ \A k \in Autos(v) : k[1] = i

LEMMA GoodFits ==
  ASSUME NEW s \in Queues
  PROVE  Good(s) <=> /\ QueueFits(s.flight, s.queue, s.instance)
                     /\ \A k \in AutoKeys(s) : s.acked[k] = "none" /\ k \notin ToSet(s.pending)
<1>1. s.queue \in Seq(Entry)
  BY QueueTypes
<1> QED BY <1>1 DEF Good, Apart, Ordered, QueueFits, Jobs

LEMMA PartFits ==
  ASSUME NEW f \in Seq(Entry), NEW v, NEW w, NEW i, QueueFits(f, v, i), Part(w, v)
  PROVE  QueueFits(f, w, i) /\ QueueFits(<<>>, w, i) /\ Autos(w) \subseteq Autos(v) /\ Keys(w) \subseteq Keys(v)
<1>1. v \in Seq(Entry) /\ w \in Seq(Entry)
  BY DEF QueueFits, Part
<1>2. Part(f \o w, f \o v)
  BY <1>1, PartJoined
<1>3. Part(w, f \o w)
  BY <1>1, RestIsPart
<1>4. /\ Sorted(w) /\ Autos(w) \subseteq Autos(v) /\ Keys(w) \subseteq Keys(v)
      /\ \A k \in Autos(w) : k[1] = i
  BY PartKeeps DEF QueueFits
<1>5. Distinct(f \o w) /\ Ahead(f \o w)
  BY <1>2, PartKeeps DEF QueueFits
<1>6. Distinct(w) /\ Ahead(w)
  BY <1>3, <1>5, PartKeeps
<1>7. <<>> \o w = w
  BY <1>1
<1> QED BY <1>1, <1>4, <1>5, <1>6, <1>7 DEF QueueFits

\* w has the jobs of v, and automatic ones of the keys.
TakesIn(f, v, w, i, keys) ==
  QueueFits(f, w, i) /\ Autos(w) = Autos(v) \cup keys /\ Keys(w) = Keys(v) \cup keys

\* A new automatic job, of a result that has none.
LEMMA InsertAuto ==
  ASSUME NEW f \in Seq(Entry), NEW v, NEW i, QueueFits(f, v, i), NEW key \in Key, key[1] = i,
         key \notin Keys(f) \cup Keys(v)
  PROVE  TakesIn(f, v, Insert(v, NewJob(key, FALSE)), i, {key})
<1> DEFINE e == NewJob(key, FALSE)
           w == Insert(v, e)
<1>1. v \in Seq(Entry) /\ e.key = key /\ ~e.manual /\ e.attempts = 0
  BY DEF QueueFits, NewJob
<1>2. e \in Entry
  <2>1. FALSE \in BOOLEAN
    OBVIOUS
  <2> QED BY <2>1, NewJobType
<1> HIDE DEF e
<1>3. PICK p : PlaceIn(p, v, e) /\ Put(w, v, p, e)
  BY <1>1, <1>2, InsertPuts
<1> HIDE DEF w
<1>4. Put(f \o w, f \o v, Len(f) + p, e)
  BY <1>3, PutJoined
<1>5. Autos(w) = Autos(v) \cup {key} /\ Keys(w) = Keys(v) \cup {key}
  BY <1>1, <1>3, PutKeys
<1>6. \A j \in 1..Len(f \o v) : (f \o v)[j].key # key
  <2>1. key \notin Keys(f \o v)
    BY <1>1, JoinedKeys
  <2> QED BY <2>1 DEF Keys
<1>7. Distinct(f \o w)
  BY <1>1, <1>4, <1>6, PutDistinct DEF QueueFits
<1>8. \A j \in 1..Len(v) : j < p => ~GoesBefore(e, v[j])
  BY <1>3 DEF PlaceIn
<1>9. /\ p \in 1..Len(v) + 1 /\ Len(v) \in Nat
      /\ p \in 1..Len(v) => ~v[p].manual /\ v[p].attempts = 0 /\ v[p].key[2] > key[2]
  BY <1>1, <1>3 DEF PlaceIn, GoesBefore
<1>10. ASSUME NEW j \in 1..Len(v)
       PROVE  /\ v[j] \in Entry /\ v[j].attempts \in Nat /\ v[j].key[2] \in Int /\ key[2] \in Int
              /\ ~v[j].manual => v[j].key \in Autos(v)
  <2>1. v[j] \in Entry
    BY <1>1
  <2>2. v[j].attempts \in 0..(Retries + 1) /\ v[j].key \in Key
    BY <2>1 DEF Entry
  <2>3. \A k \in Key : k[2] \in Int
    BY DEF Key
  <2>4. v[j].attempts \in Nat
    BY <2>2
  <2> QED BY <2>1, <2>2, <2>3, <2>4 DEF Autos
<1>11. ASSUME NEW j \in 1..Len(v), j >= p, ~v[j].manual PROVE v[j].attempts = 0 /\ key[2] < v[j].key[2]
  <2>1. p \in 1..Len(v)
    BY <1>9, <1>11
  <2>2. CASE j = p
    BY <1>9, <1>10, <2>1, <2>2
  <2>3. CASE j # p
    <3>1. p < j
      BY <1>9, <1>11, <2>3
    <3>2. v[p].key[2] < v[j].key[2]
      <4>1. v[p].attempts > 0 \/ v[p].key[2] < v[j].key[2]
        BY <1>9, <1>11, <2>1, <3>1 DEF QueueFits, Sorted
      <4> QED BY <1>9, <2>1, <4>1
    <3>3. v[j].attempts = 0
      <4>1. Part(v, f \o v)
        BY <1>1, RestIsPart
      <4>2. Ahead(v)
        BY <4>1, PartKeeps DEF QueueFits
      <4> QED BY <1>9, <1>11, <2>1, <3>1, <4>2 DEF Ahead
    <3> QED BY <1>9, <1>10, <2>1, <3>2, <3>3
  <2> QED BY <2>2, <2>3
<1>12. ASSUME NEW j \in 1..Len(v), j < p, ~v[j].manual PROVE v[j].attempts > 0 \/ v[j].key[2] < key[2]
  <2>1. ~(v[j].attempts = 0 /\ v[j].key[2] > key[2])
    BY <1>1, <1>8, <1>12 DEF GoesBefore
  <2>2. v[j].key[2] # key[2]
    <3>1. v[j].key[1] = i /\ v[j].key \in Key /\ v[j].key # key
      <4>1. v[j].key \in Autos(v) /\ v[j].key \in Keys(v)
        BY <1>10, <1>12 DEF Keys
      <4> QED BY <1>1, <4>1, EntryKeys DEF QueueFits
    <3> QED BY <3>1 DEF Key
  <2> QED BY <1>10, <2>1, <2>2
<1>13. Sorted(w)
  BY <1>1, <1>3, <1>11, <1>12, PutSorted DEF QueueFits
<1>14. Ahead(f \o w)
  <2>1. ASSUME NEW j \in 1..Len(f \o v), j >= Len(f) + p, ~(f \o v)[j].manual PROVE (f \o v)[j].attempts = 0
    <3>1. j - Len(f) \in 1..Len(v) /\ (f \o v)[j] = v[j - Len(f)] /\ j - Len(f) >= p
      <4>1. Len(f) \in Nat /\ Len(f \o v) = Len(f) + Len(v)
        BY <1>1, Joined
      <4>2. j \in Len(f) + 1..Len(f) + Len(v)
        BY <1>9, <2>1, <4>1
      <4>3. (f \o v)[j] = v[j - Len(f)]
        BY <1>1, <4>2, Joined
      <4> QED BY <1>9, <2>1, <4>1, <4>2, <4>3
    <3> QED BY <1>11, <2>1, <3>1
  <2> QED BY <1>1, <1>4, <2>1, PutAhead DEF QueueFits
<1>15. w \in Seq(Entry)
  BY <1>3 DEF Put
<1>16. \A k \in Autos(w) : k[1] = i
  BY <1>5 DEF QueueFits
<1> QED BY <1>5, <1>7, <1>13, <1>14, <1>15, <1>16 DEF TakesIn, QueueFits, w, e

\* All the fresh results of an answer.
LEMMA InsertAllAutos ==
  ASSUME NEW f \in Seq(Entry), NEW v, NEW i, QueueFits(f, v, i), NEW keys \in Seq(Key),
         \A k \in ToSet(keys) : k[1] = i /\ k \notin Keys(f) \cup Keys(v),
         \A a, b \in 1..Len(keys) : a < b => keys[a] # keys[b]
  PROVE  TakesIn(f, v, InsertAll(v, keys), i, ToSet(keys))
<1> DEFINE n == Len(keys)
           K(m) == {keys[j] : j \in 1..m}
<1>0. v \in Seq(Entry)
  BY DEF QueueFits
<1>1. PICK c : InsertSteps(c, v, keys)
  BY <1>0, InsertChain
<1>2. n \in Nat /\ 0 \in 0..n /\ n \in 0..n /\ K(n) = ToSet(keys) /\ K(0) = {}
  BY DEF ToSet
<1>3. \A m \in 1..n : /\ K(m) = K(m - 1) \cup {keys[m]} /\ keys[m] \in Key /\ keys[m] \in ToSet(keys)
                      /\ keys[m] \notin K(m - 1)
  BY DEF ToSet
<1> HIDE DEF K
<1> DEFINE P == {m \in 0..n : TakesIn(f, v, c[m], i, K(m))}
<1>4. 0 \in P
  BY <1>1, <1>2 DEF InsertSteps, TakesIn
<1>5. ASSUME NEW m \in 1..n, m - 1 \in P PROVE m \in P
  <2>1. m \in 0..n /\ m - 1 \in 0..n
    BY <1>2
  <2>2. TakesIn(f, v, c[m - 1], i, K(m - 1))
    BY <1>5
  <2>3. c[m] = Insert(c[m - 1], NewJob(keys[m], FALSE))
    BY <1>1 DEF InsertSteps
  <2> DEFINE x == c[m - 1]
             k == keys[m]
  <2>4. QueueFits(f, x, i) /\ k \in Key /\ k[1] = i /\ k \notin Keys(f) \cup Keys(x)
    BY <1>3, <2>2 DEF TakesIn
  <2> HIDE DEF x, k
  <2>5. TakesIn(f, x, Insert(x, NewJob(k, FALSE)), i, {k})
    BY <2>4, InsertAuto
  <2>6. TakesIn(f, v, c[m], i, K(m))
    BY <1>3, <2>2, <2>3, <2>5 DEF TakesIn, x, k
  <2> QED BY <2>1, <2>6
<1>6. n \in P
  <2> HIDE DEF P, n
  <2> QED BY <1>2, <1>4, <1>5, UpTo
<1> QED BY <1>1, <1>2, <1>6 DEF InsertSteps

\* w has the jobs of v, and a manual one.
TakesManual(f, v, w, i, key) == QueueFits(f, w, i) /\ Autos(w) = Autos(v) /\ Keys(w) = Keys(v) \cup {key}

\* A manual job goes before every automatic one, and none of its result is behind it.
LEMMA InsertManual ==
  ASSUME NEW f \in Seq(Entry), NEW v, NEW i, QueueFits(f, v, i), NEW key \in Key, key \notin Keys(v)
  PROVE  TakesManual(f, v, Insert(v, NewJob(key, TRUE)), i, key)
<1> DEFINE e == NewJob(key, TRUE)
           w == Insert(v, e)
<1>1. v \in Seq(Entry) /\ e.key = key /\ e.manual
  BY DEF QueueFits, NewJob
<1>2. e \in Entry
  <2>1. TRUE \in BOOLEAN
    OBVIOUS
  <2> QED BY <2>1, NewJobType
<1> HIDE DEF e
<1>3. PICK p : PlaceIn(p, v, e) /\ Put(w, v, p, e)
  BY <1>1, <1>2, InsertPuts
<1> HIDE DEF w
<1>4. Put(f \o w, f \o v, Len(f) + p, e)
  BY <1>3, PutJoined
<1>5. Autos(w) = Autos(v) /\ Keys(w) = Keys(v) \cup {key}
  BY <1>1, <1>3, PutKeys
<1>6. ASSUME NEW j \in 1..Len(f \o v), j >= Len(f) + p, ~(f \o v)[j].manual PROVE (f \o v)[j].key # e.key
  <2>1. Len(f) \in Nat /\ Len(v) \in Nat /\ Len(f \o v) = Len(f) + Len(v) /\ p \in 1..Len(v) + 1
    BY <1>1, <1>3, Joined DEF PlaceIn
  <2>2. j \in Len(f) + 1..Len(f) + Len(v)
    BY <1>6, <2>1
  <2>3. (f \o v)[j] = v[j - Len(f)] /\ j - Len(f) \in 1..Len(v)
    BY <1>1, <2>1, <2>2, Joined
  <2>4. v[j - Len(f)].key \in Keys(v)
    BY <2>3 DEF Keys
  <2> QED BY <1>1, <2>3, <2>4
<1>7. Distinct(f \o w)
  BY <1>1, <1>4, <1>6, PutDistinct DEF QueueFits
<1>8. Ahead(f \o w)
  BY <1>1, <1>4, PutAhead DEF QueueFits
<1>9. Sorted(w)
  BY <1>1, <1>3, PutSorted DEF QueueFits
<1>10. w \in Seq(Entry) /\ \A k \in Autos(w) : k[1] = i
  BY <1>3, <1>5 DEF Put, QueueFits
<1> QED BY <1>5, <1>7, <1>8, <1>9, <1>10 DEF TakesManual, QueueFits, w, e

-----------------------------------------------------------------------------
(* The handlers.                                                            *)

\* What every handler does but SetInstance and the quit.
Proper(s, t, new, told) ==
  /\ Good(t) /\ Handled(s, t, new, told) /\ t.instance = s.instance
  /\ t.unsynced \subseteq s.unsynced /\ Outs(s, t)

LEMMA ProperAdvanced ==
  ASSUME NEW s, NEW t, NEW new, NEW told, Proper(s, t, new, told)
  PROVE  Proper(s, Advance(t), new, told)
<1>1. Good(Advance(t)) /\ Advanced(t, Advance(t))
  BY AdvanceGood DEF Proper
<1>2. Handled(s, Advance(t), new, told)
  BY <1>1, HandledAdvanced DEF Proper
<1> QED BY <1>1, <1>2 DEF Proper, Advanced, Outs

LEMMA GoodFrom ==
  ASSUME NEW t \in Queues, QueueFits(t.flight, t.queue, t.instance),
         \A k \in Autos(t.flight) \cup Autos(t.queue) : t.acked[k] = "none" /\ k \notin ToSet(t.pending)
  PROVE  Good(t)
<1>1. AutoKeys(t) = Autos(t.flight) \cup Autos(t.queue)
  BY JobKeys
<1> QED BY <1>1, GoodFits

LEMMA GoodGives ==
  ASSUME NEW s, Good(s)
  PROVE  /\ s \in Queues /\ s.flight \in Seq(Entry) /\ s.queue \in Seq(Entry)
         /\ QueueFits(s.flight, s.queue, s.instance)
         /\ \A k \in AutoKeys(s) : s.acked[k] = "none" /\ k \notin ToSet(s.pending)
         /\ AutoKeys(s) = Autos(s.flight) \cup Autos(s.queue)
         /\ QueuedKeys(s) = Keys(s.flight) \cup Keys(s.queue)
         /\ AutoKeys(s) \subseteq QueuedKeys(s) /\ QueuedKeys(s) \subseteq Key
<1>1. s \in Queues
  BY DEF Good
<1>2. s.flight \in Seq(Entry) /\ s.queue \in Seq(Entry)
  BY <1>1, QueueTypes
<1> QED BY <1>1, <1>2, GoodFits, JobKeys

\* No automatic job waits behind a job of its result.
LEMMA Behind ==
  ASSUME NEW f \in Seq(Entry), NEW v \in Seq(Entry), Distinct(f \o v)
  PROVE  Keys(f) \cap Autos(v) = {}
<1>1. SUFFICES ASSUME NEW i \in 1..Len(f), NEW j \in 1..Len(v), ~v[j].manual PROVE f[i].key # v[j].key
  BY DEF Keys, Autos
<1>2. /\ Len(f) \in Nat /\ Len(v) \in Nat /\ Len(f \o v) = Len(f) + Len(v)
      /\ \A a \in 1..Len(f) : (f \o v)[a] = f[a]
      /\ \A a \in Len(f) + 1..Len(f) + Len(v) : (f \o v)[a] = v[a - Len(f)]
  BY Joined
<1>3. /\ Len(f) + j \in Len(f) + 1..Len(f) + Len(v) /\ (Len(f) + j) - Len(f) = j
      /\ i \in 1..Len(f \o v) /\ Len(f) + j \in 1..Len(f \o v) /\ i < Len(f) + j
  BY <1>2
<1>4. (f \o v)[Len(f) + j] = v[j] /\ (f \o v)[i] = f[i]
  BY <1>2, <1>3
<1> QED BY <1>1, <1>3, <1>4 DEF Distinct

\* Jobs moved to the Not copied list.
LEMMA MoveLists ==
  ASSUME NEW s \in Queues, NEW m \in Seq(Entry)
  PROVE  Listed(s, MoveToPending(s, m), Keys(m))
<1> DEFINE ks == [j \in DOMAIN m |-> m[j].key]
<1>1. DOMAIN m = 1..Len(m) /\ Len(m) \in Nat /\ \A j \in 1..Len(m) : m[j] \in Entry
  OBVIOUS
<1>2. \A j \in 1..Len(m) : m[j].key \in Key
  BY <1>1 DEF Entry
<1>3. ks \in Seq(Key)
  BY <1>1, <1>2
<1>4. ToSet(ks) = Keys(m)
  BY <1>1 DEF ToSet, Keys
<1>5. MoveToPending(s, m) = AddAllPending(s, ks)
  BY DEF MoveToPending
<1> HIDE DEF ks
<1> QED BY <1>3, <1>4, <1>5, AddAllPendingLists

\* What a set of entries keeps of the jobs, by their keys.
LEMMA OnlyKeys ==
  ASSUME NEW v \in Seq(Entry), NEW S
  PROVE  Keys(Only(v, S)) = {e.key : e \in ToSet(v) \cap S}
<1> DEFINE w == Only(v, S)
<1>1. w \in Seq(Entry) /\ ToSet(w) = ToSet(v) \cap S
  BY OnlyIsPart DEF Part
<1>2. DOMAIN w = 1..Len(w)
  BY <1>1
<1>3. Keys(w) = {e.key : e \in ToSet(w)}
  BY <1>2 DEF Keys, ToSet
<1> HIDE DEF w
<1> QED BY <1>1, <1>3 DEF w

LEMMA AutosAre ==
  ASSUME NEW v \in Seq(Entry)
  PROVE  Autos(v) = {e.key : e \in {x \in ToSet(v) : ~x.manual}}
<1>1. DOMAIN v = 1..Len(v)
  OBVIOUS
<1> QED BY <1>1 DEF Autos, ToSet

\* SetInstance: the automatic jobs of another instance go to the list.
InstanceSet(s, t, i) ==
  /\ Good(t) /\ Handled(s, t, {}, {}) /\ t.instance = i /\ t.unsynced = s.unsynced /\ t.out = s.out
  /\ t.acked = s.acked /\ AutoKeys(s) \subseteq AutoKeys(t) \cup Safe(t, {})
  /\ AutoKeys(s) = {} => t.pending = s.pending

LEMMA SetInstanceHandles ==
  ASSUME NEW s, Good(s), NEW i \in 1..Instances
  PROVE  InstanceSet(s, SetInstance(s, i), i)
<1>g. /\ s \in Queues /\ s.flight \in Seq(Entry) /\ s.queue \in Seq(Entry)
      /\ QueueFits(s.flight, s.queue, s.instance)
      /\ \A k \in AutoKeys(s) : s.acked[k] = "none" /\ k \notin ToSet(s.pending)
      /\ AutoKeys(s) = Autos(s.flight) \cup Autos(s.queue)
  BY GoodGives
<1>1. CASE i = s.instance
  <2>1. SetInstance(s, i) = s
    BY <1>1 DEF SetInstance
  <2>2. Handled(s, s, {}, {})
    BY <1>g, HandledItself
  <2> QED BY <1>1, <2>1, <2>2 DEF InstanceSet
<1>2. CASE i # s.instance
  <2> DEFINE moved == {e \in ToSet(s.queue) : e.key[1] # i /\ ~e.manual}
             m == Only(s.queue, moved)
             w == Only(s.queue, ToSet(s.queue) \ moved)
             u == MoveToPending(s, m)
             t == [u EXCEPT !.instance = i, !.queue = w]
  <2>1. Listed(s, u, Keys(m)) /\ m \in Seq(Entry)
    <3>1. m \in Seq(Entry)
      BY <1>g, OnlyElements
    <3> HIDE DEF m
    <3> QED BY <1>g, <3>1, MoveLists
  <2>2. SetInstance(s, i) = Advance(t)
    <3>1. u.queue = s.queue
      BY <2>1 DEF Listed
    <3>2. SetInstance(s, i) = Advance([u EXCEPT !.instance = i, !.queue = Only(@, ToSet(@) \ moved)])
      BY <1>2 DEF SetInstance
    <3> HIDE DEF u, moved
    <3> QED BY <3>1, <3>2
  <2>3. Part(w, s.queue) /\ ToSet(w) = ToSet(s.queue) \ moved
    BY <1>g, OnlyIsPart
  <2>4. Keys(m) = {e.key : e \in moved}
    BY <1>g, OnlyKeys
  <2>5. Autos(s.queue) = {e.key : e \in {x \in ToSet(s.queue) : ~x.manual}}
    BY <1>g, AutosAre
  <2>6. Autos(w) = {e.key : e \in {x \in ToSet(w) : ~x.manual}} /\ w \in Seq(Entry)
    BY <2>3, AutosAre DEF Part
  <2>7. \A e \in ToSet(w) : ~e.manual => e.key[1] = i
    BY <2>3
  <2>8. Keys(m) \subseteq Autos(s.queue) /\ Autos(s.queue) = Autos(w) \cup Keys(m)
    <3>1. \A e \in moved : e \in ToSet(s.queue) /\ ~e.manual
      OBVIOUS
    <3>2. \A e \in ToSet(s.queue) : e \in ToSet(w) \/ e \in moved
      BY <2>3
    <3>3. \A e \in ToSet(w) : e \in ToSet(s.queue)
      BY <2>3
    <3> HIDE DEF moved, m, w
    <3>4. Keys(m) \subseteq Autos(s.queue)
      BY <2>4, <2>5, <3>1
    <3>5. Autos(s.queue) \subseteq Autos(w) \cup Keys(m)
      BY <2>4, <2>5, <2>6, <3>2
    <3>6. Autos(w) \subseteq Autos(s.queue)
      BY <2>5, <2>6, <3>3
    <3> QED BY <3>4, <3>5, <3>6
  <2>9. \A k \in Autos(w) : k[1] = i
    BY <2>6, <2>7
  <2>10. \A k \in Keys(m) : k[1] # i
    BY <2>4
  <2> HIDE DEF moved, m, w
  <2>11. QueueFits(s.flight, w, i)
    <3>1. QueueFits(s.flight, w, s.instance)
      BY <1>g, <2>3, PartFits
    <3> QED BY <2>9, <3>1 DEF QueueFits
  <2>12. Keys(s.flight) \cap Autos(s.queue) = {} /\ Autos(s.flight) \subseteq Keys(s.flight)
    BY <1>g, Behind, EntryKeys DEF QueueFits
  <2>13. /\ u \in Queues /\ u \in QueueRec /\ u.flight = s.flight /\ u.acked = s.acked /\ u.unsynced = s.unsynced
         /\ u.out = s.out /\ ToSet(u.pending) \subseteq ToSet(s.pending) \cup Keys(m)
         /\ ToSet(s.pending) \cup s.shed \cup Keys(m) \subseteq ToSet(u.pending) \cup u.shed
         /\ Keys(m) = {} => u.pending = s.pending
    BY <2>1, QueueTypes DEF Listed
  <2> HIDE DEF u
  <2>14. /\ t \in QueueRec /\ t.instance = i /\ t.queue = w /\ t.flight = s.flight /\ t.acked = s.acked
         /\ t.unsynced = s.unsynced /\ t.out = s.out /\ t.pending = u.pending /\ t.shed = u.shed /\ t.begun = u.begun
    <3>1. i \in 0..Instances
      BY DeliveryAssumption
    <3> QED BY <2>6, <2>13, <3>1 DEF QueueRec
  <2> HIDE DEF t
  <2>15. t \in Queues
    <3>1. Len(u.flight) <= 1 /\ Len(u.pending) <= PendingLimit /\ IsFiniteSet(u.begun)
      BY <2>13, QueueTypes
    <3> QED BY <2>13, <2>14, <3>1 DEF Queues
  <2>16. AutoKeys(t) = Autos(s.flight) \cup Autos(w) /\ AutoKeys(t) \subseteq QueuedKeys(t)
    BY <2>14, <2>15, JobKeys
  <2>17. Good(t)
    <3>1. ASSUME NEW k \in Autos(s.flight) \cup Autos(w) PROVE s.acked[k] = "none" /\ k \notin ToSet(u.pending)
      <4>1. k \in AutoKeys(s)
        BY <1>g, <2>8
      <4>2. k \notin Keys(m)
        BY <2>8, <2>9, <2>10, <2>12
      <4> QED BY <1>g, <2>13, <4>1, <4>2
    <3> QED BY <2>11, <2>14, <2>15, <3>1, GoodFrom
  <2>18. AutoKeys(s) \subseteq AutoKeys(t) \cup Safe(t, {})
    BY <1>g, <2>8, <2>13, <2>14, <2>16 DEF Safe
  <2>19. Handled(s, t, {}, {})
    <3>1. ToSet(s.pending) \cup s.shed \subseteq Safe(t, {})
      BY <2>13, <2>14 DEF Safe
    <3>2. AutoKeys(s) \subseteq QueuedKeys(t) \cup Safe(t, {})
      BY <2>16, <2>18
    <3>3. AutoKeys(t) \subseteq AutoKeys(s) /\ Keys(m) \subseteq AutoKeys(s)
      BY <1>g, <2>8, <2>16
    <3>4. ToSet(t.pending) \subseteq ToSet(s.pending) \cup AutoKeys(s)
      BY <2>13, <2>14, <3>3
    <3>5. AutoKeys(s) = {} => t.pending = s.pending
      BY <2>13, <2>14, <3>3
    <3> QED BY <2>14, <3>1, <3>2, <3>3, <3>4, <3>5 DEF Handled
  <2>20. Good(Advance(t)) /\ Advanced(t, Advance(t))
    BY <2>17, AdvanceGood
  <2>21. Handled(s, Advance(t), {}, {})
    BY <2>19, <2>20, HandledAdvanced
  <2>22. AutoKeys(Advance(t)) = AutoKeys(t) /\ Safe(Advance(t), {}) = Safe(t, {})
    BY <2>20 DEF Advanced, AutoKeys, Safe
  <2>23. AutoKeys(s) = {} => t.pending = s.pending
    BY <1>g, <2>8, <2>13, <2>14
  <2> QED BY <2>2, <2>14, <2>18, <2>20, <2>21, <2>22, <2>23 DEF Advanced, InstanceSet
<1> QED BY <1>1, <1>2

\* A result announced: queued, remembered or known already.
LEMMA OnResultHandles ==
  ASSUME NEW s, Good(s), NEW key \in Key, key[1] = s.instance, NEW needs \in BOOLEAN
  PROVE  Proper(s, OnResult(s, key, needs), {key}, {})
<1>g. /\ s \in Queues /\ s.flight \in Seq(Entry) /\ s.queue \in Seq(Entry)
      /\ QueueFits(s.flight, s.queue, s.instance)
      /\ \A k \in AutoKeys(s) : s.acked[k] = "none" /\ k \notin ToSet(s.pending)
      /\ AutoKeys(s) = Autos(s.flight) \cup Autos(s.queue)
      /\ QueuedKeys(s) = Keys(s.flight) \cup Keys(s.queue)
  BY GoodGives
<1>h. s \in QueueRec /\ Len(s.flight) <= 1 /\ Len(s.pending) <= PendingLimit /\ IsFiniteSet(s.begun)
  BY <1>g, QueueTypes
<1> DEFINE r == Remember(s.recent, key)
<1>r. r \in Seq(Key)
  BY <1>g, QueueTypes, RememberType
<1>1. CASE IsKnown(s, key)
  <2>1. OnResult(s, key, needs) = s
    BY <1>1 DEF OnResult
  <2> QED BY <1>g, <2>1, HandledItself DEF Proper, Outs
<1>2. CASE ~IsKnown(s, key) /\ ~needs
  <2> DEFINE t == [s EXCEPT !.recent = r]
  <2>1. OnResult(s, key, needs) = t
    BY <1>2 DEF OnResult
  <2> HIDE DEF r
  <2>2. /\ t \in QueueRec /\ t.instance = s.instance /\ t.queue = s.queue /\ t.flight = s.flight
        /\ t.acked = s.acked /\ t.pending = s.pending /\ t.unsynced = s.unsynced /\ t.out = s.out
        /\ t.shed = s.shed /\ t.begun = s.begun
    BY <1>h, <1>r DEF QueueRec
  <2> HIDE DEF t
  <2>3. t \in Queues
    BY <1>h, <2>2 DEF Queues
  <2>4. Jobs(t) = Jobs(s)
    BY <2>2 DEF Jobs
  <2>5. Good(t)
    BY <1>g, <2>2, <2>3, GoodFrom
  <2>6. Handled(s, s, {key}, {})
    BY <1>g, HandledItself
  <2>7. Handled(s, t, {key}, {})
    <3>1. AutoKeys(t) = AutoKeys(s) /\ QueuedKeys(t) = QueuedKeys(s) /\ Safe(t, {}) = Safe(s, {})
      BY <2>2, <2>4 DEF AutoKeys, QueuedKeys, Safe
    <3> QED BY <2>2, <2>6, <3>1 DEF Handled
  <2> QED BY <2>1, <2>2, <2>5, <2>7 DEF Proper, Outs
<1>3. CASE ~IsKnown(s, key) /\ needs
  <2> DEFINE w == Insert(s.queue, NewJob(key, FALSE))
             t == [s EXCEPT !.recent = r, !.queue = w]
  <2>1. OnResult(s, key, needs) = Advance(t)
    BY <1>3 DEF OnResult
  <2>2. s.acked[key] = "none" /\ key \notin ToSet(s.pending) /\ key \notin Keys(s.flight) \cup Keys(s.queue)
    BY <1>g, <1>3 DEF IsKnown
  <2>3. TakesIn(s.flight, s.queue, w, s.instance, {key})
    BY <1>g, <2>2, InsertAuto
  <2>4. QueueFits(s.flight, w, s.instance) /\ Autos(w) = Autos(s.queue) \cup {key} /\ w \in Seq(Entry)
    BY <2>3 DEF TakesIn, QueueFits
  <2> HIDE DEF r, w
  <2>5. /\ t \in QueueRec /\ t.instance = s.instance /\ t.queue = w /\ t.flight = s.flight
        /\ t.acked = s.acked /\ t.pending = s.pending /\ t.unsynced = s.unsynced /\ t.out = s.out
        /\ t.shed = s.shed /\ t.begun = s.begun
    BY <1>h, <1>r, <2>4 DEF QueueRec
  <2> HIDE DEF t
  <2>6. t \in Queues
    BY <1>h, <2>5 DEF Queues
  <2>7. Good(t)
    BY <1>g, <2>2, <2>4, <2>5, <2>6, GoodFrom
  <2>8. AutoKeys(t) = AutoKeys(s) \cup {key} /\ AutoKeys(t) \subseteq QueuedKeys(t)
    BY <1>g, <2>4, <2>5, <2>6, JobKeys
  <2>9. Handled(s, t, {key}, {})
    <3>1. ToSet(s.pending) \cup s.shed = Safe(t, {})
      BY <2>5 DEF Safe
    <3> QED BY <2>5, <2>8, <3>1 DEF Handled
  <2>10. Proper(s, t, {key}, {})
    BY <2>5, <2>7, <2>9 DEF Proper, Outs
  <2> QED BY <2>1, <2>10, ProperAdvanced
<1> QED BY <1>1, <1>2, <1>3

LEMMA KnownOrNot ==
  ASSUME NEW s, Good(s), NEW k \in Key
  PROVE  /\ IsKnown(s, k) <=> s.acked[k] # "none" \/ k \in ToSet(s.pending) \/ k \in QueuedKeys(s)
         /\ k \in AutoKeys(s) => IsKnown(s, k) /\ s.acked[k] = "none" /\ k \notin ToSet(s.pending)
BY GoodGives DEF IsKnown

\* What the daemon lists as unacknowledged: results known already, late ones and fresh ones.
\* Those it lists that are `unsynced` are in the Not copied list or acknowledged here.
LEMMA OnUnackedHandles ==
  ASSUME NEW s, Good(s), NEW i \in 1..Instances, NEW unacked \in SUBSET Key, NEW stale \in SUBSET unacked,
         \A k \in unacked : k[1] = i,
         \A k \in unacked \cap s.unsynced : k \in ToSet(s.pending) \/ s.acked[k] # "none"
  PROVE  /\ Proper(s, OnUnacked(s, i, unacked, stale), unacked, {})
         /\ i = s.instance => OnUnacked(s, i, unacked, stale).unsynced \cap unacked = {}
<1>g. /\ s \in Queues /\ s.flight \in Seq(Entry) /\ s.queue \in Seq(Entry)
      /\ QueueFits(s.flight, s.queue, s.instance)
      /\ \A k \in AutoKeys(s) : s.acked[k] = "none" /\ k \notin ToSet(s.pending)
      /\ AutoKeys(s) = Autos(s.flight) \cup Autos(s.queue)
      /\ QueuedKeys(s) = Keys(s.flight) \cup Keys(s.queue)
  BY GoodGives
<1>h. /\ s \in QueueRec /\ Len(s.flight) <= 1 /\ Len(s.pending) <= PendingLimit /\ IsFiniteSet(s.begun)
      /\ s.acked \in [Key -> AckStatus \cup {"none"}] /\ s.out \subseteq Ack /\ s.unsynced \subseteq Key
      /\ s.recent \in Seq(Key)
  BY <1>g, QueueTypes
<1>1. CASE i # s.instance
  <2>1. OnUnacked(s, i, unacked, stale) = s
    BY <1>1 DEF OnUnacked
  <2>2. Handled(s, s, unacked, {})
    BY <1>g, HandledItself
  <2>3. Outs(s, s)
    BY DEF Outs
  <2> QED BY <1>1, <2>1, <2>2, <2>3 DEF Proper
<1>2. CASE i = s.instance
  <2> DEFINE known == {k \in unacked : IsKnown(s, k)}
             resync == known \cap s.unsynced
             again == {k \in known \ resync : s.acked[k] # "none" /\ k \notin QueuedKeys(s)}
             resend == Resend(s, again)
             late == (unacked \ known) \cap stale
             fresh == (unacked \ known) \ stale
             acked == [k \in Key |-> IF k \in resync \cup late THEN "dismissed" ELSE s.acked[k]]
             recent == RememberAll(s.recent, InOrder(i, late \cup fresh))
             queue == InsertAll(s.queue, InOrder(i, fresh))
             out == s.out \cup {[key |-> k, status |-> s.acked[k]] : k \in resend}
             noted == [s EXCEPT !.unsynced = s.unsynced \ resync, !.suspect = again, !.acked = acked,
                                !.recent = recent, !.queue = queue, !.out = out]
             listed == AddAllPending(noted, InOrder(i, late))
             sent == Send(listed, resync \cup late, "dismissed")
  <2>1. OnUnacked(s, i, unacked, stale) = Advance(sent)
    BY <1>2 DEF OnUnacked
  <2>2. /\ known \subseteq Key /\ resync \subseteq Key /\ again \subseteq Key /\ late \subseteq Key /\ fresh \subseteq Key
        /\ late \cap fresh = {} /\ late \cup fresh = unacked \ known /\ late \cup fresh \subseteq Key
    OBVIOUS
  <2>3. \A k \in resync : k \in known /\ (k \in ToSet(s.pending) \/ s.acked[k] # "none")
    OBVIOUS
  <2>4. \A k \in late \cup fresh : s.acked[k] = "none" /\ k \notin ToSet(s.pending) /\ k \notin QueuedKeys(s)
    <3>1. \A k \in late \cup fresh : k \in Key /\ ~IsKnown(s, k)
      BY <2>2
    <3> HIDE DEF late, fresh
    <3> QED BY <3>1, KnownOrNot
  <2>5. /\ InOrder(i, late) \in Seq(Key) /\ ToSet(InOrder(i, late)) = late
        /\ InOrder(i, fresh) \in Seq(Key) /\ ToSet(InOrder(i, fresh)) = fresh
        /\ InOrder(i, late \cup fresh) \in Seq(Key)
        /\ \A a, b \in 1..Len(InOrder(i, fresh)) : a < b => InOrder(i, fresh)[a] # InOrder(i, fresh)[b]
    <3>1. \A k \in late \cup fresh : k[1] = i
      OBVIOUS
    <3> HIDE DEF late, fresh
    <3>2. {k \in late : k[1] = i} = late /\ {k \in fresh : k[1] = i} = fresh
      BY <3>1
    <3>3. InOrder(i, late) \in Seq(Key) /\ ToSet(InOrder(i, late)) = {k \in late : k[1] = i}
      BY <2>2, InOrderKeys
    <3>4. /\ InOrder(i, fresh) \in Seq(Key) /\ ToSet(InOrder(i, fresh)) = {k \in fresh : k[1] = i}
          /\ \A a, b \in 1..Len(InOrder(i, fresh)) : a < b => InOrder(i, fresh)[a] # InOrder(i, fresh)[b]
      BY <2>2, InOrderKeys
    <3>5. InOrder(i, late \cup fresh) \in Seq(Key)
      BY <2>2, InOrderKeys
    <3> QED BY <3>2, <3>3, <3>4, <3>5
  <2>6. recent \in Seq(Key)
    <3> HIDE DEF late, fresh
    <3> QED BY <1>h, <2>5, RememberAllType
  <2>7. TakesIn(s.flight, s.queue, queue, s.instance, fresh)
    <3>1. \A k \in fresh : k[1] = s.instance
      BY <1>2
    <3> HIDE DEF late, fresh
    <3> DEFINE ks == InOrder(i, fresh)
    <3>2. \A k \in ToSet(ks) : k[1] = s.instance /\ k \notin Keys(s.flight) \cup Keys(s.queue)
      BY <1>g, <2>4, <2>5, <3>1
    <3>3. ks \in Seq(Key) /\ ToSet(ks) = fresh /\ \A a, b \in 1..Len(ks) : a < b => ks[a] # ks[b]
      BY <2>5
    <3>4. queue = InsertAll(s.queue, ks)
      OBVIOUS
    <3> HIDE DEF ks, queue
    <3>5. TakesIn(s.flight, s.queue, InsertAll(s.queue, ks), s.instance, ToSet(ks))
      BY <1>g, <3>2, <3>3, InsertAllAutos
    <3> QED BY <3>3, <3>4, <3>5
  <2>8. /\ QueueFits(s.flight, queue, s.instance) /\ queue \in Seq(Entry)
        /\ Autos(queue) = Autos(s.queue) \cup fresh /\ Keys(queue) = Keys(s.queue) \cup fresh
    BY <2>7 DEF TakesIn, QueueFits
  <2>9. /\ acked \in [Key -> AckStatus \cup {"none"}]
        /\ \A k \in Key : acked[k] = IF k \in resync \cup late THEN "dismissed" ELSE s.acked[k]
    <3>1. "dismissed" \in AckStatus
      BY DEF AckStatus
    <3> HIDE DEF resync, late
    <3> QED BY <1>h, <3>1
  <2>10. /\ out \subseteq Ack
         /\ \A o \in out : \/ o \in s.out
                           \/ o.key \in Key /\ s.acked[o.key] # "none" /\ o.status = s.acked[o.key]
                              /\ o.key \notin resync \cup late
    <3>1. resend \subseteq again
      BY DEF Resend
    <3>2. \A k \in again : k \in Key /\ s.acked[k] # "none" /\ k \notin resync \cup late /\ s.acked[k] \in AckStatus
      <4>1. \A k \in again : k \in Key /\ k \in known /\ s.acked[k] # "none" /\ k \notin resync
        BY <2>2
      <4>2. \A k \in again : k \notin late
        OBVIOUS
      <4>3. \A k \in Key : s.acked[k] \in AckStatus \cup {"none"}
        BY <1>h
      <4> QED BY <4>1, <4>2, <4>3
    <3> HIDE DEF again, resync, late, resend
    <3>3. \A k \in resend : [key |-> k, status |-> s.acked[k]] \in Ack
      BY <3>1, <3>2 DEF Ack
    <3>4. out \subseteq Ack
      BY <1>h, <3>3
    <3>5. ASSUME NEW o \in out, o \notin s.out
          PROVE  o.key \in Key /\ s.acked[o.key] # "none" /\ o.status = s.acked[o.key] /\ o.key \notin resync \cup late
      <4>1. PICK k \in resend : o = [key |-> k, status |-> s.acked[k]]
        BY <3>5
      <4>2. o.key = k /\ o.status = s.acked[k]
        BY <4>1
      <4> QED BY <3>1, <3>2, <4>1, <4>2
    <3> QED BY <3>4, <3>5
  <2>11. resync \subseteq unacked /\ late \subseteq unacked /\ fresh \subseteq unacked
         /\ (s.unsynced \ resync) \cap unacked = (s.unsynced \cap unacked) \ known
    OBVIOUS
  <2>12. \A k \in s.unsynced \cap unacked : k \in known
    <3>1. \A k \in s.unsynced \cap unacked : IsKnown(s, k)
      BY <1>h, KnownOrNot
    <3> QED BY <3>1
  <2> DEFINE us == s.unsynced \ resync
  <2>13. us \subseteq s.unsynced /\ us \cap unacked = {}
    BY <2>11, <2>12
  <2>14. noted = [s EXCEPT !.unsynced = us, !.suspect = again, !.acked = acked,
                           !.recent = recent, !.queue = queue, !.out = out]
    OBVIOUS
  <2> HIDE DEF known, resync, again, resend, late, fresh, acked, recent, queue, out, us
  <2>15. /\ noted \in QueueRec /\ noted.instance = s.instance /\ noted.queue = queue /\ noted.flight = s.flight
         /\ noted.acked = acked /\ noted.pending = s.pending /\ noted.unsynced = us /\ noted.out = out
         /\ noted.shed = s.shed /\ noted.begun = s.begun
    <3>1. us \subseteq Key
      BY <1>h, <2>13
    <3> QED BY <1>h, <2>2, <2>6, <2>8, <2>9, <2>10, <2>14, <3>1 DEF QueueRec
  <2> HIDE DEF noted
  <2>16. noted \in Queues
    BY <1>h, <2>15 DEF Queues
  <2>17. Listed(noted, listed, late)
    <3>1. Listed(noted, listed, ToSet(InOrder(i, late)))
      BY <2>5, <2>16, AddAllPendingLists
    <3> QED BY <2>5, <3>1
  <2> HIDE DEF listed
  <2> DEFINE told == {[key |-> k, status |-> "dismissed"] : k \in resync \cup late}
             all == listed.out \cup told
  <2>18. sent = [listed EXCEPT !.out = all]
    BY DEF Send
  <2>19. told \subseteq Ack /\ \A o \in told : o.key \in resync \cup late /\ o.status = "dismissed"
    <3>1. \A k \in resync \cup late : [key |-> k, status |-> "dismissed"] \in Ack
      BY <2>2 DEF Ack, AckStatus
    <3> QED BY <3>1
  <2>20. listed \in Queues /\ listed \in QueueRec /\ listed.out = out /\ Len(listed.flight) <= 1
         /\ Len(listed.pending) <= PendingLimit /\ IsFiniteSet(listed.begun)
    BY <2>15, <2>17, QueueTypes DEF Listed
  <2>21. all \subseteq Ack /\ \A o \in all : o \in out \/ o \in told
    BY <2>10, <2>19, <2>20
  <2> HIDE DEF told, all, sent
  <2>22. /\ sent \in QueueRec /\ sent.instance = s.instance /\ sent.queue = queue /\ sent.flight = s.flight
         /\ sent.acked = acked /\ sent.pending = listed.pending /\ sent.shed = listed.shed
         /\ sent.unsynced = us /\ sent.out = all /\ sent.begun = listed.begun
    <3>1. /\ sent \in QueueRec /\ sent.instance = listed.instance /\ sent.queue = listed.queue
          /\ sent.flight = listed.flight
          /\ sent.acked = listed.acked /\ sent.pending = listed.pending /\ sent.shed = listed.shed
          /\ sent.unsynced = listed.unsynced /\ sent.out = all /\ sent.begun = listed.begun
      BY <2>18, <2>20, <2>21 DEF QueueRec
    <3> QED BY <2>15, <2>17, <3>1 DEF Listed
  <2>23. sent \in Queues
    BY <1>h, <2>20, <2>22 DEF Queues
  <2>24. /\ ToSet(sent.pending) \subseteq ToSet(s.pending) \cup late
         /\ ToSet(s.pending) \cup s.shed \cup late \subseteq Safe(sent, {})
         /\ late = {} => sent.pending = s.pending
    BY <2>15, <2>17, <2>22 DEF Listed, Safe
  <2>25. AutoKeys(sent) = AutoKeys(s) \cup fresh /\ AutoKeys(sent) \subseteq QueuedKeys(sent)
    BY <1>g, <2>8, <2>22, <2>23, JobKeys
  <2>26. \A k \in AutoKeys(s) : k \in Key /\ k \notin resync /\ k \notin late
    <3>1. \A k \in AutoKeys(s) : k \in Key /\ k \in QueuedKeys(s)
      BY GoodGives
    <3> QED BY <1>g, <2>3, <2>4, <3>1
  <2>27. Good(sent)
    <3>1. ASSUME NEW k \in Autos(s.flight) \cup Autos(queue)
          PROVE  acked[k] = "none" /\ k \notin ToSet(sent.pending)
      <4>1. CASE k \in AutoKeys(s)
        BY <1>g, <2>9, <2>24, <2>26, <4>1
      <4>2. CASE k \in fresh
        <5>1. k \in Key /\ k \notin resync
          <6>1. k \in Key /\ k \notin known
            BY <2>2, <4>2
          <6> QED BY <2>3, <6>1
        <5> QED BY <2>2, <2>4, <2>9, <2>24, <4>2, <5>1
      <4> QED BY <1>g, <2>8, <4>1, <4>2
    <3> QED BY <2>8, <2>22, <2>23, <3>1, GoodFrom
  <2>28. Handled(s, sent, unacked, {})
    <3>1. \A k \in Key : sent.acked[k] = "delivered" => s.acked[k] = "delivered"
      BY <2>9, <2>22
    <3>2. \A k \in Key : s.acked[k] # "none" => sent.acked[k] # "none"
      BY <2>9, <2>22
    <3>3. \A k \in Key : sent.acked[k] # "none" => s.acked[k] # "none" \/ k \in Safe(sent, {})
      BY <2>3, <2>9, <2>22, <2>24
    <3>4. AutoKeys(s) \subseteq QueuedKeys(sent)
      BY <2>25
    <3>5. AutoKeys(sent) \subseteq AutoKeys(s) \cup unacked
      BY <2>11, <2>25
    <3>6. ToSet(sent.pending) \subseteq ToSet(s.pending) \cup unacked
      BY <2>11, <2>24
    <3>7. unacked = {} => sent.pending = s.pending
      BY <2>11, <2>24
    <3> QED BY <2>24, <3>1, <3>2, <3>3, <3>4, <3>5, <3>6, <3>7 DEF Handled
  <2>29. Outs(s, sent)
    <3>1. ASSUME NEW o \in all, o \notin s.out
          PROVE  acked[o.key] # "none" /\ (o.status = "delivered" => acked[o.key] = "delivered")
      <4>1. CASE o \in told
        BY <2>2, <2>9, <2>19, <4>1
      <4>2. CASE o \in out
        BY <2>9, <2>10, <3>1, <4>2
      <4> QED BY <2>21, <4>1, <4>2
    <3> QED BY <2>22, <3>1 DEF Outs
  <2>30. Proper(s, sent, unacked, {})
    BY <2>13, <2>22, <2>27, <2>28, <2>29 DEF Proper
  <2>31. Advance(sent).unsynced = us
    BY <2>22, <2>23, Advances DEF Advanced
  <2> QED BY <2>1, <2>13, <2>30, <2>31, ProperAdvanced
<1> QED BY <1>1, <1>2

\* A manual copy takes the place of what is queued for its result.
LEMMA CopyHandles ==
  ASSUME NEW s, Good(s), NEW key \in Key
  PROVE  Proper(s, Copy(s, key), {}, {})
<1>g. /\ s \in Queues /\ s.flight \in Seq(Entry) /\ s.queue \in Seq(Entry)
      /\ QueueFits(s.flight, s.queue, s.instance)
      /\ \A k \in AutoKeys(s) : s.acked[k] = "none" /\ k \notin ToSet(s.pending)
      /\ AutoKeys(s) = Autos(s.flight) \cup Autos(s.queue)
  BY GoodGives
<1>h. s \in QueueRec /\ Len(s.flight) <= 1 /\ Len(s.pending) <= PendingLimit /\ IsFiniteSet(s.begun)
  BY <1>g, QueueTypes
<1> DEFINE others == {e \in ToSet(s.queue) : e.key # key}
           v == Only(s.queue, others)
           w == Insert(v, NewJob(key, TRUE))
           t == [s EXCEPT !.queue = w]
<1>1. Copy(s, key) = Advance(t)
  BY DEF Copy
<1>2. Part(v, s.queue) /\ ToSet(v) = others /\ v \in Seq(Entry)
  <2>1. ToSet(s.queue) \cap others = others
    OBVIOUS
  <2> HIDE DEF others
  <2>2. Part(v, s.queue) /\ ToSet(v) = ToSet(s.queue) \cap others
    BY <1>g, OnlyIsPart
  <2> QED BY <2>1, <2>2 DEF Part
<1>3. Autos(s.queue) \subseteq Autos(v) \cup {key} /\ key \notin Keys(v)
  <2>1. Keys(v) = {e.key : e \in ToSet(s.queue) \cap others}
    BY <1>g, OnlyKeys
  <2>2. key \notin Keys(v)
    BY <2>1
  <2>3. Autos(v) = {e.key : e \in {x \in ToSet(v) : ~x.manual}}
    BY <1>2, AutosAre
  <2>4. Autos(s.queue) = {e.key : e \in {x \in ToSet(s.queue) : ~x.manual}}
    BY <1>g, AutosAre
  <2>5. \A e \in ToSet(s.queue) : e \in ToSet(v) \/ e.key = key
    BY <1>2
  <2> HIDE DEF v, others
  <2> QED BY <2>2, <2>3, <2>4, <2>5
<1> HIDE DEF others, v
<1>4. QueueFits(s.flight, v, s.instance) /\ Autos(v) \subseteq Autos(s.queue)
  BY <1>g, <1>2, PartFits
<1>5. QueueFits(s.flight, w, s.instance) /\ Autos(w) = Autos(v) /\ Keys(w) = Keys(v) \cup {key}
  <2>1. TakesManual(s.flight, v, w, s.instance, key)
    BY <1>g, <1>3, <1>4, InsertManual
  <2> QED BY <2>1 DEF TakesManual
<1>6. w \in Seq(Entry)
  BY <1>5 DEF QueueFits
<1> HIDE DEF w
<1>7. /\ t \in QueueRec /\ t.instance = s.instance /\ t.queue = w /\ t.flight = s.flight
      /\ t.acked = s.acked /\ t.pending = s.pending /\ t.unsynced = s.unsynced /\ t.out = s.out
      /\ t.shed = s.shed /\ t.begun = s.begun
  BY <1>h, <1>6 DEF QueueRec
<1> HIDE DEF t
<1>8. t \in Queues
  BY <1>h, <1>7 DEF Queues
<1>9. /\ AutoKeys(t) = Autos(s.flight) \cup Autos(w) /\ QueuedKeys(t) = Keys(s.flight) \cup Keys(w)
      /\ AutoKeys(t) \subseteq QueuedKeys(t)
  BY <1>7, <1>8, JobKeys
<1>10. Good(t)
  BY <1>g, <1>4, <1>5, <1>7, <1>8, GoodFrom
<1>11. Handled(s, t, {}, {})
  <2>1. ToSet(s.pending) \cup s.shed = Safe(t, {})
    BY <1>7 DEF Safe
  <2>2. AutoKeys(s) \subseteq QueuedKeys(t) /\ AutoKeys(t) \subseteq AutoKeys(s)
    BY <1>g, <1>3, <1>4, <1>5, <1>9
  <2> QED BY <1>7, <2>1, <2>2 DEF Handled
<1>12. Proper(s, t, {}, {})
  BY <1>7, <1>10, <1>11 DEF Proper, Outs
<1> QED BY <1>1, <1>12, ProperAdvanced

\* The list cleared of results that were shown.
LEMMA ClearHandles ==
  ASSUME NEW s, Good(s), NEW keys, keys \subseteq ToSet(s.pending)
  PROVE  Proper(s, ClearPending(s, keys), {}, {})
<1>g. /\ s \in Queues /\ s.flight \in Seq(Entry) /\ s.queue \in Seq(Entry)
      /\ QueueFits(s.flight, s.queue, s.instance)
      /\ \A k \in AutoKeys(s) : s.acked[k] = "none" /\ k \notin ToSet(s.pending)
      /\ AutoKeys(s) = Autos(s.flight) \cup Autos(s.queue)
      /\ AutoKeys(s) \subseteq QueuedKeys(s) /\ QueuedKeys(s) \subseteq Key
  BY GoodGives
<1>h. /\ s \in QueueRec /\ Len(s.flight) <= 1 /\ Len(s.pending) <= PendingLimit /\ IsFiniteSet(s.begun)
      /\ s.acked \in [Key -> AckStatus \cup {"none"}] /\ s.out \subseteq Ack /\ s.unsynced \subseteq Key
      /\ s.pending \in Seq(Key) /\ ToSet(s.pending) \subseteq Key /\ s.shed \subseteq Key
  BY <1>g, QueueTypes
<1> DEFINE resync == {k \in keys : k \in s.unsynced /\ k[1] = s.instance}
           acked == [k \in Key |-> IF k \in keys /\ s.acked[k] = "none" THEN "dismissed" ELSE s.acked[k]]
           pending == Only(s.pending, Key \ keys)
           told == {[key |-> k, status |-> "dismissed"] : k \in resync}
           out == s.out \cup told
           t == [s EXCEPT !.acked = acked, !.pending = pending, !.unsynced = s.unsynced \ resync,
                          !.shed = s.shed \cup keys, !.out = out]
<1>1. ClearPending(s, keys) = t
  <2>1. ClearPending(s, keys) =
          Send([s EXCEPT !.acked = acked, !.pending = pending, !.unsynced = s.unsynced \ resync,
                         !.shed = s.shed \cup keys], resync, "dismissed")
    BY DEF ClearPending
  <2> HIDE DEF resync, acked, pending
  <2> QED BY <2>1 DEF Send
<1>2. acked \in [Key -> AckStatus \cup {"none"}]
      /\ \A k \in Key : acked[k] = IF k \in keys /\ s.acked[k] = "none" THEN "dismissed" ELSE s.acked[k]
  BY <1>h DEF AckStatus
<1>3. /\ pending \in Seq(Key) /\ ToSet(pending) = ToSet(s.pending) \cap (Key \ keys) /\ Len(pending) <= PendingLimit
  <2>1. pending \in Seq(Key) /\ ToSet(pending) = ToSet(s.pending) \cap (Key \ keys) /\ Len(pending) <= Len(s.pending)
    BY <1>h, OnlyElements
  <2>2. PendingLimit \in Nat /\ Len(pending) \in Nat /\ Len(s.pending) \in Nat
    BY <1>h, <2>1, DeliveryAssumption
  <2> HIDE DEF pending
  <2> QED BY <1>h, <2>1, <2>2
<1>4. out \subseteq Ack /\ \A o \in out : o \in s.out \/ (o.key \in keys /\ o.key \in Key /\ o.status = "dismissed")
  <2>1. \A k \in resync : k \in keys /\ k \in Key
    BY <1>h
  <2> HIDE DEF resync
  <2>2. \A k \in resync : [key |-> k, status |-> "dismissed"] \in Ack
    BY <2>1 DEF Ack, AckStatus
  <2> QED BY <1>h, <2>1, <2>2
<1> HIDE DEF acked, pending, out
<1>5. s.unsynced \ resync \subseteq s.unsynced /\ s.unsynced \ resync \subseteq Key /\ s.shed \cup keys \subseteq Key
  BY <1>h
<1> DEFINE us == s.unsynced \ resync
           sh == s.shed \cup keys
<1>6. t = [s EXCEPT !.acked = acked, !.pending = pending, !.unsynced = us, !.shed = sh, !.out = out]
      /\ us \subseteq s.unsynced /\ us \subseteq Key /\ sh \subseteq Key
  BY <1>5
<1> HIDE DEF us, t
<1>7. /\ t \in QueueRec /\ t.instance = s.instance /\ t.queue = s.queue /\ t.flight = s.flight
      /\ t.acked = acked /\ t.pending = pending /\ t.unsynced = us /\ t.out = out
      /\ t.shed = sh /\ t.begun = s.begun
  <2> HIDE DEF sh
  <2> QED BY <1>h, <1>2, <1>3, <1>4, <1>6 DEF QueueRec
<1>8. t \in Queues
  BY <1>h, <1>3, <1>7 DEF Queues
<1>9. AutoKeys(t) = AutoKeys(s) /\ QueuedKeys(t) = QueuedKeys(s)
  BY <1>7 DEF AutoKeys, QueuedKeys, Jobs
<1>10. Good(t)
  <2>1. ASSUME NEW k \in Autos(s.flight) \cup Autos(s.queue) PROVE acked[k] = "none" /\ k \notin ToSet(pending)
    <3>1. k \in AutoKeys(s) /\ k \in Key
      BY <1>g
    <3>2. k \notin keys
      BY <1>g, <3>1
    <3> QED BY <1>g, <1>2, <1>3, <3>1, <3>2
  <2> QED BY <1>g, <1>7, <1>8, <2>1, GoodFrom
<1>11. Handled(s, t, {}, {})
  <2>1. ToSet(s.pending) \cup s.shed \subseteq Safe(t, {}) /\ keys \subseteq Safe(t, {})
    BY <1>3, <1>7, <1>h DEF Safe
  <2>2. \A k \in Key : acked[k] # "none" => s.acked[k] # "none" \/ k \in keys
    BY <1>2
  <2>3. \A k \in Key : /\ acked[k] = "delivered" => s.acked[k] = "delivered"
                       /\ s.acked[k] # "none" => acked[k] # "none"
    BY <1>2
  <2>4. \A k \in ToSet(s.pending) : k \in ToSet(pending) \/ acked[k] # "none"
    BY <1>2, <1>3, <1>h
  <2>5. ToSet(t.pending) \subseteq ToSet(s.pending)
    BY <1>3, <1>7
  <2> QED BY <1>g, <1>7, <1>9, <2>1, <2>2, <2>3, <2>4, <2>5 DEF Handled
<1>12. Outs(s, t)
  <2>1. \A k \in Key : k \in keys => acked[k] # "none"
    BY <1>2
  <2> QED BY <1>4, <1>7, <2>1 DEF Outs
<1> QED BY <1>1, <1>6, <1>7, <1>10, <1>11, <1>12 DEF Proper

\* Quit: every automatic job goes to the list, and no job is left.
LeftBehind(s, t) ==
  /\ Good(t) /\ Handled(s, t, {}, {}) /\ t.instance = s.instance /\ AutoKeys(t) = {}
  /\ t.unsynced \subseteq s.unsynced \cup AutoKeys(s) /\ t.out = s.out
LEMMA AbandonHandles ==
  ASSUME NEW s, Good(s)
  PROVE  LeftBehind(s, AbandonQueue(s))
<1>g. /\ s \in Queues /\ s.flight \in Seq(Entry) /\ s.queue \in Seq(Entry)
      /\ \A k \in AutoKeys(s) : s.acked[k] = "none" /\ k \notin ToSet(s.pending)
      /\ AutoKeys(s) \subseteq QueuedKeys(s) /\ QueuedKeys(s) \subseteq Key
  BY GoodGives
<1>h. s.unsynced \subseteq Key /\ Jobs(s) \in Seq(Entry)
  BY <1>g, QueueTypes, JobKeys
<1> DEFINE js == Jobs(s)
           autos == {e \in ToSet(js) : ~e.manual /\ s.acked[e.key] = "none"}
           m == Only(js, autos)
           u == MoveToPending(s, m)
           us == u.unsynced \cup Keys(m)
           t == [u EXCEPT !.flight = <<>>, !.queue = <<>>, !.unsynced = us]
<1>1. m \in Seq(Entry) /\ Keys(m) = AutoKeys(s)
  <2>1. m \in Seq(Entry) /\ Keys(m) = {e.key : e \in ToSet(js) \cap autos}
    BY <1>h, OnlyKeys, OnlyElements
  <2>2. AutoKeys(s) = {e.key : e \in {x \in ToSet(js) : ~x.manual}}
    BY <1>h, AutosAre DEF AutoKeys
  <2>3. \A e \in ToSet(js) : ~e.manual => s.acked[e.key] = "none"
    BY <1>g, <2>2
  <2>4. ToSet(js) \cap autos = {x \in ToSet(js) : ~x.manual}
    BY <2>3
  <2> HIDE DEF m, js, autos
  <2> QED BY <2>1, <2>2, <2>4
<1>2. Listed(s, u, AutoKeys(s))
  <2> HIDE DEF m
  <2> QED BY <1>g, <1>1, MoveLists
<1>3. AbandonQueue(s) = t
  <2>1. {m[i].key : i \in DOMAIN m} = Keys(m)
    <3>1. DOMAIN m = 1..Len(m)
      BY <1>1
    <3> HIDE DEF m
    <3> QED BY <3>1 DEF Keys
  <2>2. AbandonQueue(s) = [u EXCEPT !.flight = <<>>, !.queue = <<>>, !.unsynced = @ \cup {m[i].key : i \in DOMAIN m}]
    BY DEF AbandonQueue, Abandoned
  <2> HIDE DEF u, m
  <2> QED BY <2>1, <2>2
<1> HIDE DEF m, js, autos, u
<1>4. /\ u \in Queues /\ u \in QueueRec /\ u.acked = s.acked /\ u.unsynced = s.unsynced /\ u.out = s.out
      /\ u.instance = s.instance /\ us = s.unsynced \cup AutoKeys(s) /\ us \subseteq Key
      /\ Len(u.pending) <= PendingLimit /\ IsFiniteSet(u.begun)
  BY <1>g, <1>h, <1>1, <1>2, QueueTypes DEF Listed
<1> HIDE DEF us
<1>5. /\ t \in QueueRec /\ t.instance = s.instance /\ t.queue = <<>> /\ t.flight = <<>> /\ t.acked = s.acked
      /\ t.pending = u.pending /\ t.unsynced = us /\ t.out = s.out /\ t.shed = u.shed /\ t.begun = u.begun
  <2>1. <<>> \in Seq(Entry)
    OBVIOUS
  <2> QED BY <1>4, <2>1 DEF QueueRec
<1> HIDE DEF t
<1>6. t \in Queues
  BY <1>4, <1>5 DEF Queues
<1>7. Autos(t.flight) = {} /\ Autos(t.queue) = {} /\ AutoKeys(t) = {}
  <2>1. <<>> \in Seq(Entry)
    OBVIOUS
  <2>2. Autos(t.flight) = {} /\ Autos(t.queue) = {}
    BY <1>5, <2>1, EntryKeys
  <2> QED BY <1>6, <2>2, JobKeys
<1>8. QueueFits(<<>>, <<>>, s.instance)
  <2>1. <<>> \in Seq(Entry) /\ <<>> \o <<>> = <<>> /\ Len(<<>>) = 0 /\ 1..0 = {}
    OBVIOUS
  <2>2. Distinct(<<>>) /\ Ahead(<<>>) /\ Sorted(<<>>)
    BY <2>1 DEF Distinct, Ahead, Sorted
  <2> QED BY <1>5, <1>7, <2>1, <2>2 DEF QueueFits
<1>9. Good(t)
  BY <1>5, <1>6, <1>7, <1>8, GoodFrom
<1>10. Handled(s, t, {}, {})
  <2>1. ToSet(s.pending) \cup s.shed \cup AutoKeys(s) \subseteq Safe(t, {})
    BY <1>2, <1>5 DEF Listed, Safe
  <2>2. ToSet(t.pending) \subseteq ToSet(s.pending) \cup AutoKeys(s) /\ (AutoKeys(s) = {} => t.pending = s.pending)
    BY <1>2, <1>5 DEF Listed
  <2> QED BY <1>5, <1>7, <2>1, <2>2 DEF Handled
<1> QED BY <1>3, <1>4, <1>5, <1>7, <1>9, <1>10 DEF LeftBehind

\* The queue once the job in flight is answered.
Idle(s) == [s EXCEPT !.flight = <<>>]
IdleFacts(s, r, key) ==
  /\ r \in Queues /\ r \in QueueRec /\ r.instance = s.instance /\ r.queue = s.queue /\ r.flight = <<>>
  /\ r.acked = s.acked /\ r.pending = s.pending /\ r.unsynced = s.unsynced /\ r.out = s.out /\ r.shed = s.shed
  /\ r.begun = s.begun
  /\ key \in Key /\ key \notin Autos(s.queue) /\ QueueFits(<<>>, s.queue, s.instance)
  /\ \A k \in Autos(s.queue) : k \in Key /\ s.acked[k] = "none" /\ k \notin ToSet(s.pending)
  /\ AutoKeys(s) \subseteq Autos(s.queue) \cup {key} /\ Autos(s.queue) \subseteq AutoKeys(s)
  /\ s.flight[1].manual => AutoKeys(s) = Autos(s.queue)
  /\ ~s.flight[1].manual => key \in AutoKeys(s)

LEMMA IdleIs ==
  ASSUME NEW s, Good(s), s.flight # <<>>
  PROVE  IdleFacts(s, Idle(s), s.flight[1].key)
<1> DEFINE key == s.flight[1].key
           r == Idle(s)
<1>g. /\ s \in Queues /\ s.flight \in Seq(Entry) /\ s.queue \in Seq(Entry)
      /\ QueueFits(s.flight, s.queue, s.instance)
      /\ \A k \in AutoKeys(s) : s.acked[k] = "none" /\ k \notin ToSet(s.pending)
      /\ AutoKeys(s) = Autos(s.flight) \cup Autos(s.queue)
      /\ AutoKeys(s) \subseteq QueuedKeys(s) /\ QueuedKeys(s) \subseteq Key
  BY GoodGives
<1>h. s \in QueueRec /\ Len(s.pending) <= PendingLimit /\ IsFiniteSet(s.begun)
  BY <1>g, QueueTypes
<1>1. /\ key \in Key /\ Keys(s.flight) = {key}
      /\ s.flight[1].manual => Autos(s.flight) = {}
      /\ ~s.flight[1].manual => Autos(s.flight) = {key}
  BY <1>g, FlightJob
<1>2. Keys(s.flight) \cap Autos(s.queue) = {}
  BY <1>g, Behind DEF QueueFits
<1>3. QueueFits(<<>>, s.queue, s.instance)
  <2>1. Part(s.queue, s.queue)
    BY <1>g DEF Part
  <2> QED BY <1>g, <2>1, PartFits
<1>4. /\ r \in QueueRec /\ r.instance = s.instance /\ r.queue = s.queue /\ r.flight = <<>>
      /\ r.acked = s.acked /\ r.pending = s.pending /\ r.unsynced = s.unsynced /\ r.out = s.out /\ r.shed = s.shed
      /\ r.begun = s.begun
  <2>1. <<>> \in Seq(Entry)
    OBVIOUS
  <2> QED BY <1>h, <2>1 DEF QueueRec, Idle
<1> HIDE DEF r, key
<1>5. r \in Queues
  <2>1. Len(<<>>) <= 1
    OBVIOUS
  <2> QED BY <1>h, <1>4, <2>1 DEF Queues
<1>6. IdleFacts(s, r, key)
  <2>1. CASE s.flight[1].manual
    BY <1>g, <1>1, <1>2, <1>3, <1>4, <1>5, <2>1 DEF IdleFacts
  <2>2. CASE ~s.flight[1].manual
    BY <1>g, <1>1, <1>2, <1>3, <1>4, <1>5, <2>2 DEF IdleFacts
  <2> QED BY <2>1, <2>2
<1> QED BY <1>6 DEF r, key

\* An ACK noted in the statuses may be sent.
LEMMA SendOuts ==
  ASSUME NEW s, NEW t \in Queues, t.out = s.out, NEW key \in Key, NEW status \in AckStatus, t.acked[key] = status
  PROVE  LET u == SendIfCurrent(t, key, status)
         IN  /\ u \in Queues /\ Outs(s, u) /\ u.instance = t.instance /\ u.queue = t.queue /\ u.flight = t.flight
             /\ u.acked = t.acked /\ u.pending = t.pending /\ u.unsynced = t.unsynced /\ u.shed = t.shed
<1>h. t \in QueueRec /\ Len(t.flight) <= 1 /\ Len(t.pending) <= PendingLimit /\ IsFiniteSet(t.begun) /\ t.out \subseteq Ack
  BY QueueTypes
<1>1. CASE key[1] # t.instance
  <2>1. SendIfCurrent(t, key, status) = t
    BY <1>1 DEF SendIfCurrent
  <2> QED BY <2>1 DEF Outs
<1>2. CASE key[1] = t.instance
  <2> DEFINE a == [key |-> key, status |-> status]
             out == t.out \cup {[key |-> k, status |-> status] : k \in {key}}
             u == [t EXCEPT !.out = out]
  <2>1. SendIfCurrent(t, key, status) = u
    BY <1>2 DEF SendIfCurrent, Send
  <2>2. out = t.out \cup {a} /\ a \in Ack /\ a.key = key /\ a.status = status
    BY DEF Ack
  <2> HIDE DEF a, out
  <2>3. out \subseteq Ack
    BY <1>h, <2>2
  <2>4. /\ u \in QueueRec /\ u.instance = t.instance /\ u.queue = t.queue /\ u.flight = t.flight
        /\ u.acked = t.acked /\ u.pending = t.pending /\ u.unsynced = t.unsynced /\ u.shed = t.shed
        /\ u.out = out /\ u.begun = t.begun
    BY <1>h, <2>3 DEF QueueRec
  <2> HIDE DEF u
  <2>5. u \in Queues
    BY <1>h, <2>4 DEF Queues
  <2>6. status # "none"
    BY DEF AckStatus
  <2>7. Outs(s, u)
    BY <2>2, <2>4, <2>6 DEF Outs
  <2> QED BY <2>1, <2>4, <2>5, <2>7
<1> QED BY <1>1, <1>2

\* The write succeeded.
LEMMA DeliveredHandles ==
  ASSUME NEW s, Good(s), s.flight # <<>>
  PROVE  Proper(s, SendIfCurrent(SetStatus(Idle(s), s.flight[1].key, "delivered"), s.flight[1].key, "delivered"),
                {}, {s.flight[1].key})
<1> DEFINE key == s.flight[1].key
           idle == Idle(s)
           acked == [idle.acked EXCEPT ![key] = "delivered"]
           pending == Only(idle.pending, Key \ {key})
           us == idle.unsynced \ {key}
           t == [idle EXCEPT !.acked = acked, !.pending = pending, !.unsynced = us]
           u == SendIfCurrent(t, key, "delivered")
<1>1. IdleFacts(s, idle, key)
  BY IdleIs
<1>2. SetStatus(idle, key, "delivered") = t
  <2>1. SetStatus(idle, key, "delivered") =
          [[idle EXCEPT !.acked[key] = "delivered"] EXCEPT !.pending = Only(@, Key \ {key}), !.unsynced = @ \ {key}]
    BY DEF SetStatus
  <2>2. idle \in QueueRec
    BY <1>1 DEF IdleFacts
  <2> HIDE DEF idle, key
  <2> QED BY <2>1, <2>2 DEF QueueRec
<1> HIDE DEF idle, key
<1>h. /\ idle \in QueueRec /\ Len(idle.flight) <= 1 /\ Len(idle.pending) <= PendingLimit /\ IsFiniteSet(idle.begun)
      /\ idle.acked \in [Key -> AckStatus \cup {"none"}] /\ idle.unsynced \subseteq Key /\ idle.pending \in Seq(Key)
      /\ ToSet(idle.pending) \subseteq Key /\ key \in Key
  BY <1>1, QueueTypes DEF IdleFacts
<1>3. /\ acked \in [Key -> AckStatus \cup {"none"}]
      /\ \A k \in Key : acked[k] = IF k = key THEN "delivered" ELSE idle.acked[k]
  BY <1>h DEF AckStatus
<1>4. pending \in Seq(Key) /\ ToSet(pending) = ToSet(idle.pending) \ {key} /\ Len(pending) <= PendingLimit
  <2>1. pending \in Seq(Key) /\ ToSet(pending) = ToSet(idle.pending) \cap (Key \ {key}) /\ Len(pending) <= Len(idle.pending)
    BY <1>h, OnlyElements
  <2>2. PendingLimit \in Nat /\ Len(pending) \in Nat /\ Len(idle.pending) \in Nat
    BY <1>h, <2>1, DeliveryAssumption
  <2> HIDE DEF pending
  <2> QED BY <1>h, <2>1, <2>2
<1>5. us \subseteq Key /\ us \subseteq idle.unsynced
  BY <1>h
<1> HIDE DEF acked, pending, us
<1>6. /\ t \in QueueRec /\ t.instance = idle.instance /\ t.queue = idle.queue /\ t.flight = idle.flight
      /\ t.acked = acked /\ t.pending = pending /\ t.unsynced = us /\ t.out = idle.out /\ t.shed = idle.shed
      /\ t.begun = idle.begun
  BY <1>h, <1>3, <1>4, <1>5 DEF QueueRec
<1> HIDE DEF t
<1>7. t \in Queues
  BY <1>h, <1>4, <1>6 DEF Queues
<1>8. /\ u \in Queues /\ Outs(s, u) /\ u.instance = t.instance /\ u.queue = t.queue /\ u.flight = t.flight
      /\ u.acked = t.acked /\ u.pending = t.pending /\ u.unsynced = t.unsynced /\ u.shed = t.shed
  <2>1. t.out = s.out /\ t.acked[key] = "delivered" /\ "delivered" \in AckStatus
    BY <1>1, <1>h, <1>3, <1>6 DEF IdleFacts, AckStatus
  <2> QED BY <1>7, <1>h, <2>1, SendOuts
<1> HIDE DEF u
<1>9. u.flight = <<>> /\ u.queue = s.queue /\ u.instance = s.instance /\ u.acked = acked /\ u.pending = pending
      /\ u.unsynced = us /\ u.shed = s.shed
  BY <1>1, <1>6, <1>8 DEF IdleFacts
<1>10. Autos(u.flight) = {} /\ AutoKeys(u) = Autos(s.queue) /\ AutoKeys(u) \subseteq QueuedKeys(u)
  <2>1. Autos(<<>>) = {}
    BY EntryKeys, <1>1 DEF IdleFacts, QueueFits
  <2> QED BY <1>8, <1>9, <2>1, JobKeys
<1>11. Good(u)
  <2>1. \A k \in Autos(s.queue) : acked[k] = "none" /\ k \notin ToSet(pending)
    BY <1>1, <1>3, <1>4 DEF IdleFacts
  <2>2. QueueFits(u.flight, u.queue, u.instance)
    BY <1>1, <1>9 DEF IdleFacts
  <2> QED BY <1>8, <1>9, <1>10, <2>1, <2>2, GoodFrom
<1>12. Handled(s, u, {}, {key})
  <2>1. Safe(u, {key}) = ToSet(s.pending) \cup s.shed \cup {key}
    BY <1>1, <1>4, <1>9 DEF Safe, IdleFacts
  <2>2. ToSet(u.pending) \subseteq ToSet(s.pending)
    BY <1>1, <1>4, <1>9 DEF IdleFacts
  <2>3. \A k \in Key : u.acked[k] = IF k = key THEN "delivered" ELSE s.acked[k]
    BY <1>1, <1>3, <1>9 DEF IdleFacts
  <2>4. AutoKeys(s) \subseteq AutoKeys(u) \cup {key} /\ AutoKeys(u) \subseteq AutoKeys(s)
    BY <1>1, <1>10 DEF IdleFacts
  <2>5. \A k \in ToSet(s.pending) : k \in ToSet(u.pending) \/ u.acked[k] # "none"
    <3>1. \A k \in ToSet(s.pending) : k \in Key /\ (k = key \/ k \in ToSet(u.pending))
      BY <1>1, <1>h, <1>4, <1>9 DEF IdleFacts
    <3> QED BY <2>3, <3>1
  <2> QED BY <1>10, <2>1, <2>2, <2>3, <2>4, <2>5 DEF Handled
<1>13. u.unsynced \subseteq s.unsynced
  BY <1>1, <1>5, <1>9 DEF IdleFacts
<1>14. Proper(s, u, {}, {key})
  BY <1>8, <1>9, <1>11, <1>12, <1>13 DEF Proper
<1> QED BY <1>2, <1>14 DEF u, key, idle

\* A manual write failed.
LEMMA DroppedHandles ==
  ASSUME NEW s, Good(s), s.flight # <<>>, s.flight[1].manual
  PROVE  Proper(s, Idle(s), {}, {})
<1> DEFINE key == s.flight[1].key
           u == Idle(s)
<1>1. IdleFacts(s, u, key)
  BY IdleIs
<1> HIDE DEF u, key
<1>2. Autos(u.flight) = {} /\ AutoKeys(u) = Autos(s.queue) /\ AutoKeys(u) \subseteq QueuedKeys(u)
  <2>1. Autos(<<>>) = {}
    BY EntryKeys, <1>1 DEF IdleFacts, QueueFits
  <2> QED BY <1>1, <2>1, JobKeys DEF IdleFacts
<1>3. Good(u)
  BY <1>1, <1>2, GoodFrom DEF IdleFacts
<1>4. Handled(s, u, {}, {})
  BY <1>1, <1>2 DEF Handled, Safe, IdleFacts
<1>5. Proper(s, u, {}, {})
  BY <1>1, <1>3, <1>4 DEF Proper, Outs, IdleFacts
<1> QED BY <1>5 DEF u

\* An automatic write failed after its daemon was gone: its result goes to the list.
LEMMA MovedHandles ==
  ASSUME NEW s, Good(s), s.flight # <<>>, ~s.flight[1].manual
  PROVE  Proper(s, MoveToPending(Idle(s), <<s.flight[1]>>), {}, {})
<1> DEFINE key == s.flight[1].key
           idle == Idle(s)
           m == <<s.flight[1]>>
           u == MoveToPending(idle, m)
<1>1. IdleFacts(s, idle, key)
  BY IdleIs
<1>2. m \in Seq(Entry) /\ Keys(m) = {key}
  BY FlightJob, QueueTypes DEF Good
<1> HIDE DEF idle, key, m
<1>3. Listed(idle, u, {key})
  BY <1>1, <1>2, MoveLists DEF IdleFacts
<1> HIDE DEF u
<1>4. /\ u \in Queues /\ u.flight = <<>> /\ u.queue = s.queue /\ u.instance = s.instance /\ u.acked = s.acked
      /\ u.unsynced = s.unsynced /\ u.out = s.out
      /\ ToSet(u.pending) \subseteq ToSet(s.pending) \cup {key}
      /\ ToSet(s.pending) \cup s.shed \cup {key} \subseteq Safe(u, {})
  BY <1>1, <1>3 DEF IdleFacts, Listed, Safe
<1>5. Autos(u.flight) = {} /\ AutoKeys(u) = Autos(s.queue) /\ AutoKeys(u) \subseteq QueuedKeys(u)
  <2>1. Autos(<<>>) = {}
    BY EntryKeys, <1>1 DEF IdleFacts, QueueFits
  <2> QED BY <1>4, <2>1, JobKeys
<1>6. Good(u)
  <2>1. \A k \in Autos(s.queue) : u.acked[k] = "none" /\ k \notin ToSet(u.pending)
    BY <1>1, <1>4 DEF IdleFacts
  <2>2. QueueFits(u.flight, u.queue, u.instance)
    BY <1>1, <1>4 DEF IdleFacts
  <2> QED BY <1>4, <1>5, <2>1, <2>2, GoodFrom
<1>7. Handled(s, u, {}, {})
  <2>1. key \in AutoKeys(s) /\ AutoKeys(s) \subseteq AutoKeys(u) \cup {key} /\ AutoKeys(u) \subseteq AutoKeys(s)
    BY <1>1, <1>5 DEF IdleFacts
  <2>2. ToSet(u.pending) \subseteq ToSet(s.pending) \cup AutoKeys(s)
    BY <1>4, <2>1
  <2> QED BY <1>4, <1>5, <2>1, <2>2 DEF Handled
<1>8. Proper(s, u, {}, {})
  BY <1>4, <1>6, <1>7 DEF Proper, Outs
<1> QED BY <1>8 DEF u, idle, m

\* The last attempt failed.
LEMMA FailedHandles ==
  ASSUME NEW s, Good(s), s.flight # <<>>, ~s.flight[1].manual
  PROVE  Proper(s, SendIfCurrent(SetStatus(Idle(s), s.flight[1].key, "failed"), s.flight[1].key, "failed"), {}, {})
<1> DEFINE key == s.flight[1].key
           idle == Idle(s)
           acked == [idle.acked EXCEPT ![key] = "failed"]
           told == [idle EXCEPT !.acked = acked]
           t == AddPending(told, key)
           u == SendIfCurrent(t, key, "failed")
<1>1. IdleFacts(s, idle, key)
  BY IdleIs
<1>2. SetStatus(idle, key, "failed") = t
  <2>1. SetStatus(idle, key, "failed") = AddPending([idle EXCEPT !.acked[key] = "failed"], key)
    BY DEF SetStatus
  <2>2. idle \in QueueRec
    BY <1>1 DEF IdleFacts
  <2>3. [idle EXCEPT !.acked[key] = "failed"] = told
    <3> HIDE DEF idle, key
    <3> QED BY <2>2 DEF QueueRec
  <2> QED BY <2>1, <2>3
<1> HIDE DEF idle, key
<1>h. /\ idle \in QueueRec /\ Len(idle.flight) <= 1 /\ Len(idle.pending) <= PendingLimit /\ IsFiniteSet(idle.begun)
      /\ idle.acked \in [Key -> AckStatus \cup {"none"}] /\ key \in Key
  BY <1>1, QueueTypes DEF IdleFacts
<1>3. /\ acked \in [Key -> AckStatus \cup {"none"}]
      /\ \A k \in Key : acked[k] = IF k = key THEN "failed" ELSE idle.acked[k]
  BY <1>h DEF AckStatus
<1> HIDE DEF acked
<1>4. /\ told \in QueueRec /\ told.instance = idle.instance /\ told.queue = idle.queue /\ told.flight = idle.flight
      /\ told.acked = acked /\ told.pending = idle.pending /\ told.unsynced = idle.unsynced /\ told.out = idle.out
      /\ told.shed = idle.shed /\ told.begun = idle.begun
  BY <1>h, <1>3 DEF QueueRec
<1> HIDE DEF told
<1>5. told \in Queues
  BY <1>h, <1>4 DEF Queues
<1>6. Listed(told, t, {key})
  BY <1>5, <1>h, AddPendingLists
<1> HIDE DEF t
<1>7. t \in Queues /\ t.out = s.out /\ t.acked = acked
  BY <1>1, <1>4, <1>6 DEF Listed, IdleFacts
<1>8. /\ u \in Queues /\ Outs(s, u) /\ u.instance = t.instance /\ u.queue = t.queue /\ u.flight = t.flight
      /\ u.acked = t.acked /\ u.pending = t.pending /\ u.unsynced = t.unsynced /\ u.shed = t.shed
  <2>1. t.acked[key] = "failed" /\ "failed" \in AckStatus
    BY <1>h, <1>3, <1>7 DEF AckStatus
  <2> QED BY <1>7, <1>h, <2>1, SendOuts
<1> HIDE DEF u
<1>9. /\ u.flight = <<>> /\ u.queue = s.queue /\ u.instance = s.instance /\ u.acked = acked /\ u.unsynced = s.unsynced
      /\ ToSet(u.pending) \subseteq ToSet(s.pending) \cup {key}
      /\ ToSet(s.pending) \cup s.shed \cup {key} \subseteq Safe(u, {})
  BY <1>1, <1>4, <1>6, <1>8 DEF IdleFacts, Listed, Safe
<1>10. Autos(u.flight) = {} /\ AutoKeys(u) = Autos(s.queue) /\ AutoKeys(u) \subseteq QueuedKeys(u)
  <2>1. Autos(<<>>) = {}
    BY EntryKeys, <1>1 DEF IdleFacts, QueueFits
  <2> QED BY <1>8, <1>9, <2>1, JobKeys
<1>11. Good(u)
  <2>1. \A k \in Autos(s.queue) : u.acked[k] = "none" /\ k \notin ToSet(u.pending)
    BY <1>1, <1>3, <1>9 DEF IdleFacts
  <2>2. QueueFits(u.flight, u.queue, u.instance)
    BY <1>1, <1>9 DEF IdleFacts
  <2> QED BY <1>8, <1>9, <1>10, <2>1, <2>2, GoodFrom
<1>12. Handled(s, u, {}, {})
  <2>1. key \in AutoKeys(s) /\ AutoKeys(s) \subseteq AutoKeys(u) \cup {key} /\ AutoKeys(u) \subseteq AutoKeys(s)
    BY <1>1, <1>10 DEF IdleFacts
  <2>2. ToSet(u.pending) \subseteq ToSet(s.pending) \cup AutoKeys(s)
    BY <1>9, <2>1
  <2>3. \A k \in Key : u.acked[k] = IF k = key THEN "failed" ELSE s.acked[k]
    BY <1>1, <1>3, <1>9 DEF IdleFacts
  <2> QED BY <1>9, <1>10, <2>1, <2>2, <2>3 DEF Handled
<1>13. Proper(s, u, {}, {})
  BY <1>8, <1>9, <1>11, <1>12 DEF Proper
<1> QED BY <1>2, <1>13 DEF u, key, idle

\* A failed automatic write that is tried again blocks the others.
LEMMA RetryFits ==
  ASSUME NEW e \in Entry, NEW x \in Entry, x.key = e.key, ~e.manual, ~x.manual, x.attempts > 0,
         NEW v, NEW i, QueueFits(<<e>>, v, i), e.key[1] = i
  PROVE  QueueFits(<<>>, <<x>> \o v, i)
<1> DEFINE f == <<e>>
           g == <<x>>
           b == f \o v
           w == g \o v
<1>1. /\ v \in Seq(Entry) /\ f \in Seq(Entry) /\ g \in Seq(Entry) /\ Len(f) = 1 /\ Len(g) = 1
      /\ f[1] = e /\ g[1] = x /\ Len(v) \in Nat /\ 1..1 = {1}
  BY DEF QueueFits
<1> HIDE DEF f, g
<1>2. /\ b \in Seq(Entry) /\ Len(b) = 1 + Len(v) /\ b[1] = e
      /\ \A a \in 2..1 + Len(v) : b[a] = v[a - 1]
  <2>1. /\ f \o v \in Seq(Entry) /\ Len(f \o v) = Len(f) + Len(v) /\ \A a \in 1..Len(f) : (f \o v)[a] = f[a]
        /\ \A a \in Len(f) + 1..Len(f) + Len(v) : (f \o v)[a] = v[a - Len(f)]
    <3>1. f \in Seq(Entry) /\ v \in Seq(Entry)
      BY <1>1
    <3> QED BY <3>1, Joined
  <2> QED BY <1>1, <2>1
<1>3. /\ w \in Seq(Entry) /\ Len(w) = 1 + Len(v) /\ w[1] = x
      /\ \A a \in 2..1 + Len(v) : w[a] = v[a - 1]
  <2>1. /\ g \o v \in Seq(Entry) /\ Len(g \o v) = Len(g) + Len(v) /\ \A a \in 1..Len(g) : (g \o v)[a] = g[a]
        /\ \A a \in Len(g) + 1..Len(g) + Len(v) : (g \o v)[a] = v[a - Len(g)]
    <3>1. g \in Seq(Entry) /\ v \in Seq(Entry)
      BY <1>1
    <3> QED BY <3>1, Joined
  <2> QED BY <1>1, <2>1
<1>4. Distinct(b) /\ Ahead(b) /\ Sorted(v) /\ \A k \in Autos(v) : k[1] = i
  BY DEF QueueFits, f, b
<1>5. Autos(w) = Autos(v) \cup {e.key}
  <2>1. Autos(g \o v) = Autos(g) \cup Autos(v)
    BY <1>1, JoinedKeys
  <2>2. Autos(g) = {x.key}
    BY <1>1 DEF Autos
  <2> QED BY <2>1, <2>2
<1> HIDE DEF b, w
<1>6. \A a \in 1..Len(w) : a = 1 \/ (a \in 2..1 + Len(v) /\ a - 1 \in 1..Len(v) /\ w[a] = b[a] /\ w[a] = v[a - 1])
  <2>1. \A a \in 1..Len(w) : a = 1 \/ (a \in 2..1 + Len(v) /\ a - 1 \in 1..Len(v))
    BY <1>1, <1>3
  <2> QED BY <1>2, <1>3, <2>1
<1>7. ASSUME NEW a \in 1..Len(w), NEW c \in 1..Len(w), a < c
      PROVE  /\ c \in 1..Len(b) /\ w[c] = b[c] /\ w[c] = v[c - 1] /\ c - 1 \in 1..Len(v)
             /\ a \in 1..Len(b) /\ w[a].key = b[a].key /\ w[a].manual = b[a].manual
             /\ a # 1 => w[a] = v[a - 1] /\ a - 1 \in 1..Len(v) /\ a - 1 < c - 1
  <2>1. c # 1 /\ a \in 1..Len(b) /\ c \in 1..Len(b)
    BY <1>1, <1>2, <1>3, <1>7
  <2>2. w[a].key = b[a].key /\ w[a].manual = b[a].manual
    <3>1. CASE a = 1
      <4>1. e.manual \in BOOLEAN /\ x.manual \in BOOLEAN
        BY DEF Entry
      <4> QED BY <1>2, <1>3, <3>1, <4>1
    <3>2. CASE a # 1
      BY <1>6, <3>2
    <3> QED BY <3>1, <3>2
  <2>3. a - 1 < c - 1
    BY <1>7
  <2> QED BY <1>6, <2>1, <2>2, <2>3
<1>8. Distinct(w)
  BY <1>4, <1>7 DEF Distinct
<1>9. Ahead(w)
  BY <1>4, <1>7 DEF Ahead
<1>10. Sorted(w)
  <2>1. SUFFICES ASSUME NEW a \in 1..Len(w), NEW c \in 1..Len(w), a < c, ~w[a].manual, ~w[c].manual
                 PROVE  w[a].attempts > 0 \/ w[a].key[2] < w[c].key[2]
    BY DEF Sorted
  <2>2. CASE a = 1
    BY <1>3, <2>2
  <2>3. CASE a # 1
    BY <1>4, <1>7, <2>1, <2>3 DEF Sorted
  <2> QED BY <2>2, <2>3
<1>11. <<>> \o w = w
  BY <1>3
<1>12. \A k \in Autos(w) : k[1] = i
  BY <1>4, <1>5
<1>13. QueueFits(<<>>, w, i)
  BY <1>3, <1>8, <1>9, <1>10, <1>11, <1>12 DEF QueueFits
<1> QED BY <1>13 DEF w, g

Retried(s) ==
  LET e == s.flight[1]
  IN  [Idle(s) EXCEPT !.queue = <<[e EXCEPT !.attempts = @ + 1, !.due = FALSE]>> \o @]
LEMMA RetryHandles ==
  ASSUME NEW s, Good(s), s.flight # <<>>, ~s.flight[1].manual, s.flight[1].key[1] = s.instance,
         RetriesLeft(s.flight[1])
  PROVE  Proper(s, Retried(s), {}, {})
<1> DEFINE e == s.flight[1]
           key == e.key
           idle == Idle(s)
           x == [e EXCEPT !.attempts = e.attempts + 1, !.due = FALSE]
           w == <<x>> \o s.queue
           u == [idle EXCEPT !.queue = w]
<1>1. IdleFacts(s, idle, key)
  BY IdleIs
<1>2. e \in Entry /\ s.flight = <<e>> /\ s.queue \in Seq(Entry) /\ QueueFits(s.flight, s.queue, s.instance)
  BY FlightJob, GoodGives
<1>3. Retried(s) = u
  <2>1. idle.queue = s.queue
    BY <1>1 DEF IdleFacts
  <2>2. Retried(s) = [idle EXCEPT !.queue = <<[e EXCEPT !.attempts = @ + 1, !.due = FALSE]>> \o @]
    BY DEF Retried
  <2>3. [e EXCEPT !.attempts = @ + 1, !.due = FALSE] = x
    OBVIOUS
  <2> HIDE DEF idle, e, x
  <2> QED BY <2>1, <2>2, <2>3
<1>4. ~e.manual /\ key[1] = s.instance /\ e.attempts + 1 <= Retries
  BY DEF RetriesLeft
<1> HIDE DEF idle, e
<1>5. x \in Entry /\ x.key = key /\ ~x.manual /\ x.attempts > 0
  <2>1. e.attempts \in 0..(Retries + 1) /\ Retries \in Int
    <3>1. e.attempts \in 0..(Retries + 1)
      BY <1>2 DEF Entry
    <3>2. e.attempts + 1 <= Retries
      BY <1>4
    <3>3. Retries \in Nat
      BY DeliveryAssumption
    <3> QED BY <3>1, <3>3
  <2>2. e.attempts + 1 \in 0..(Retries + 1) /\ e.attempts + 1 > 0
    BY <1>4, <2>1
  <2> DEFINE n == e.attempts + 1
  <2> HIDE DEF n
  <2>3. n \in 0..(Retries + 1) /\ n > 0 /\ x = [e EXCEPT !.attempts = n, !.due = FALSE]
    BY <2>2 DEF n
  <2> HIDE DEF x
  <2> QED BY <1>2, <1>4, <2>3 DEF Entry
<1> HIDE DEF x
<1>6. QueueFits(<<>>, w, s.instance)
  BY <1>2, <1>4, <1>5, RetryFits
<1>7. Autos(w) = Autos(s.queue) \cup {key} /\ w \in Seq(Entry)
  <2>1. <<x>> \in Seq(Entry) /\ Len(<<x>>) = 1 /\ <<x>>[1] = x /\ 1..1 = {1}
    BY <1>5
  <2>2. Autos(<<x>>) = {key}
    BY <1>5, <2>1 DEF Autos
  <2>3. Autos(w) = Autos(<<x>>) \cup Autos(s.queue)
    BY <1>2, <2>1, JoinedKeys
  <2>4. w \in Seq(Entry)
    BY <1>2, <2>1, Joined
  <2> QED BY <2>2, <2>3, <2>4
<1> HIDE DEF w
<1>8. /\ u \in QueueRec /\ u.instance = idle.instance /\ u.queue = w /\ u.flight = idle.flight
      /\ u.acked = idle.acked /\ u.pending = idle.pending /\ u.unsynced = idle.unsynced /\ u.out = idle.out
      /\ u.shed = idle.shed /\ u.begun = idle.begun
  BY <1>1, <1>7 DEF IdleFacts, QueueRec
<1> HIDE DEF u
<1>9. u \in Queues
  <2>1. Len(idle.flight) <= 1 /\ Len(idle.pending) <= PendingLimit /\ IsFiniteSet(idle.begun)
    BY <1>1, QueueTypes DEF IdleFacts
  <2> QED BY <1>8, <2>1 DEF Queues
<1>10. /\ u.instance = s.instance /\ u.flight = <<>> /\ u.acked = s.acked /\ u.pending = s.pending
       /\ u.unsynced = s.unsynced /\ u.out = s.out /\ u.shed = s.shed
  BY <1>1, <1>8 DEF IdleFacts
<1>11. Autos(u.flight) = {} /\ AutoKeys(u) = Autos(w) /\ AutoKeys(u) \subseteq QueuedKeys(u)
  <2>1. Autos(<<>>) = {}
    BY EntryKeys, <1>2
  <2> QED BY <1>8, <1>9, <1>10, <2>1, JobKeys
<1>12. AutoKeys(s) = Autos(w) /\ \A k \in AutoKeys(s) : s.acked[k] = "none" /\ k \notin ToSet(s.pending)
  <2>1. AutoKeys(s) = Autos(w)
    BY <1>1, <1>4, <1>7 DEF IdleFacts, e
  <2> QED BY <2>1, GoodGives
<1>13. Good(u)
  BY <1>6, <1>8, <1>9, <1>10, <1>11, <1>12, GoodFrom
<1>14. Handled(s, u, {}, {})
  BY <1>10, <1>11, <1>12 DEF Handled, Safe
<1>15. Proper(s, u, {}, {})
  BY <1>10, <1>13, <1>14 DEF Proper, Outs
<1> QED BY <1>3, <1>15

\* A verdict, whichever write it answers.
LEMMA DoneHandles ==
  ASSUME NEW s, Good(s), NEW key, NEW ok \in BOOLEAN
  PROVE  Proper(s, OnDeliveryDone(s, key, ok), {}, IF ok THEN {key} ELSE {})
<1>1. CASE s.flight = <<>> \/ s.flight[1].key # key
  <2>1. OnDeliveryDone(s, key, ok) = s
    BY <1>1 DEF OnDeliveryDone
  <2>2. Handled(s, s, {}, IF ok THEN {key} ELSE {})
    BY HandledItself DEF Good
  <2> QED BY <2>1, <2>2 DEF Proper, Outs
<1>2. CASE s.flight # <<>> /\ s.flight[1].key = key
  <2> DEFINE e == s.flight[1]
  <2>1. e.manual \in BOOLEAN
    BY <1>2, FlightJob DEF Good, Entry
  <2>2. CASE ok
    <3>1. OnDeliveryDone(s, key, ok) = Advance(SendIfCurrent(SetStatus(Idle(s), key, "delivered"), key, "delivered"))
      BY <1>2, <2>2 DEF OnDeliveryDone, Idle
    <3>2. Proper(s, SendIfCurrent(SetStatus(Idle(s), key, "delivered"), key, "delivered"), {}, {key})
      BY <1>2, DeliveredHandles
    <3> QED BY <2>2, <3>1, <3>2, ProperAdvanced
  <2>3. CASE ~ok /\ e.manual
    <3>1. OnDeliveryDone(s, key, ok) = Advance(Idle(s))
      BY <1>2, <2>3 DEF OnDeliveryDone, Idle
    <3>2. Proper(s, Idle(s), {}, {})
      BY <1>2, <2>3, DroppedHandles
    <3> QED BY <2>3, <3>1, <3>2, ProperAdvanced
  <2>4. CASE ~ok /\ ~e.manual /\ key[1] # s.instance
    <3>1. OnDeliveryDone(s, key, ok) = Advance(MoveToPending(Idle(s), <<e>>))
      BY <1>2, <2>4 DEF OnDeliveryDone, Idle
    <3>2. Proper(s, MoveToPending(Idle(s), <<e>>), {}, {})
      BY <1>2, <2>4, MovedHandles
    <3> QED BY <2>4, <3>1, <3>2, ProperAdvanced
  <2>5. CASE ~ok /\ ~e.manual /\ key[1] = s.instance /\ RetriesLeft(e)
    <3>1. OnDeliveryDone(s, key, ok) = Advance(Retried(s))
      BY <1>2, <2>5 DEF OnDeliveryDone, Idle, Retried
    <3>2. Proper(s, Retried(s), {}, {})
      BY <1>2, <2>5, RetryHandles
    <3> QED BY <2>5, <3>1, <3>2, ProperAdvanced
  <2>6. CASE ~ok /\ ~e.manual /\ key[1] = s.instance /\ ~RetriesLeft(e)
    <3>1. OnDeliveryDone(s, key, ok) = Advance(SendIfCurrent(SetStatus(Idle(s), key, "failed"), key, "failed"))
      BY <1>2, <2>6 DEF OnDeliveryDone, Idle
    <3>2. Proper(s, SendIfCurrent(SetStatus(Idle(s), key, "failed"), key, "failed"), {}, {})
      BY <1>2, <2>6, FailedHandles
    <3> QED BY <2>6, <3>1, <3>2, ProperAdvanced
  <2> QED BY <2>2, <2>3, <2>4, <2>5, <2>6
<1> QED BY <1>1, <1>2

\* tick writes what is due.
LEMMA TickHandles ==
  ASSUME NEW s, Good(s)
  PROVE  Proper(s, Advance(s), {}, {})
<1>1. Handled(s, s, {}, {})
  BY HandledItself DEF Good
<1>2. Proper(s, s, {}, {})
  BY <1>1 DEF Proper, Outs
<1> QED BY <1>2, ProperAdvanced

\* The head of the queue becomes due: nothing else changes.
LEMMA DueHandles ==
  ASSUME NEW s, Good(s), s.queue # <<>>
  PROVE  LET t == [s EXCEPT !.queue[1].due = TRUE]
         IN  Proper(s, t, {}, {}) /\ QueuedKeys(t) = QueuedKeys(s) /\ t.pending = s.pending /\ t.acked = s.acked
             /\ t.shed = s.shed /\ t.out = s.out /\ t.begun = s.begun /\ AutoKeys(t) = AutoKeys(s)
             /\ t.unsynced = s.unsynced
<1>g. /\ s \in Queues /\ s.flight \in Seq(Entry) /\ s.queue \in Seq(Entry)
      /\ QueueFits(s.flight, s.queue, s.instance)
      /\ \A k \in AutoKeys(s) : s.acked[k] = "none" /\ k \notin ToSet(s.pending)
      /\ AutoKeys(s) = Autos(s.flight) \cup Autos(s.queue)
      /\ QueuedKeys(s) = Keys(s.flight) \cup Keys(s.queue)
      /\ AutoKeys(s) \subseteq QueuedKeys(s)
  BY GoodGives
<1>h. s \in QueueRec /\ Len(s.flight) <= 1 /\ Len(s.pending) <= PendingLimit /\ IsFiniteSet(s.begun)
  BY <1>g, QueueTypes
<1> DEFINE v == s.queue
           x == [v[1] EXCEPT !.due = TRUE]
           w == [v EXCEPT ![1] = x]
           t == [s EXCEPT !.queue = w]
<1>1. [s EXCEPT !.queue[1].due = TRUE] = t
  BY <1>h DEF QueueRec
<1>2. v \in Seq(Entry) /\ Len(v) \in Nat /\ 1 \in 1..Len(v) /\ v[1] \in Entry
  BY <1>g, Split
<1>3. x \in Entry /\ x.key = v[1].key /\ x.manual = v[1].manual /\ x.attempts = v[1].attempts
  <2>1. v[1] \in Entry
    BY <1>2
  <2> DEFINE e == v[1]
  <2> HIDE DEF e
  <2>2. e \in Entry /\ x = [e EXCEPT !.due = TRUE]
    BY <2>1 DEF e
  <2>3. x \in Entry /\ x.key = e.key /\ x.manual = e.manual /\ x.attempts = e.attempts
    <3> HIDE DEF x
    <3> QED BY <2>2 DEF Entry
  <2> QED BY <2>3 DEF e
<1> HIDE DEF x
<1>4. /\ w \in Seq(Entry) /\ Len(w) = Len(v)
      /\ \A i \in 1..Len(v) : w[i].key = v[i].key /\ w[i].manual = v[i].manual /\ w[i].attempts = v[i].attempts
  <2>1. w \in Seq(Entry) /\ Len(w) = Len(v) /\ \A i \in 1..Len(v) : w[i] = IF i = 1 THEN x ELSE v[i]
    BY <1>2, <1>3
  <2> QED BY <1>3, <2>1
<1> HIDE DEF w
<1>5. Autos(w) = Autos(v) /\ Keys(w) = Keys(v) /\ (Sorted(v) => Sorted(w))
  BY <1>4 DEF Autos, Keys, Sorted
<1>6. (Distinct(s.flight \o v) => Distinct(s.flight \o w)) /\ (Ahead(s.flight \o v) => Ahead(s.flight \o w))
  <2> DEFINE n == Len(s.flight)
             a == s.flight \o w
             b == s.flight \o v
  <2>1. /\ n \in Nat /\ Len(a) = n + Len(v) /\ Len(b) = n + Len(v)
        /\ \A i \in 1..n : a[i] = s.flight[i] /\ b[i] = s.flight[i]
        /\ \A i \in n + 1..n + Len(v) : a[i] = w[i - n] /\ b[i] = v[i - n]
    <3>1. /\ Len(a) = n + Len(w) /\ \A i \in 1..n : a[i] = s.flight[i]
          /\ \A i \in n + 1..n + Len(w) : a[i] = w[i - n]
      <4>1. s.flight \in Seq(Entry) /\ w \in Seq(Entry)
        BY <1>g, <1>4
      <4> QED BY <4>1, Joined
    <3>2. /\ Len(b) = n + Len(v) /\ \A i \in 1..n : b[i] = s.flight[i]
          /\ \A i \in n + 1..n + Len(v) : b[i] = v[i - n]
      <4>1. s.flight \in Seq(Entry) /\ v \in Seq(Entry)
        BY <1>g, <1>2
      <4> HIDE DEF v
      <4> QED BY <4>1, Joined
    <3>3. n \in Nat
      BY <1>g
    <3> HIDE DEF a, b, n, v
    <3> QED BY <1>4, <3>1, <3>2, <3>3
  <2> HIDE DEF a, b, n, v
  <2>2. \A i \in 1..n + Len(v) : i \in 1..n \/ (i \in n + 1..n + Len(v) /\ i - n \in 1..Len(v))
    BY <1>2, <2>1
  <2>3. \A i \in 1..n + Len(v) : a[i].key = b[i].key /\ a[i].manual = b[i].manual /\ a[i].attempts = b[i].attempts
    BY <1>4, <2>1, <2>2
  <2>4. ASSUME Distinct(b) PROVE Distinct(a)
    <3>1. \A i, j \in 1..n + Len(v) : i < j /\ ~b[j].manual => b[i].key # b[j].key
      BY <2>1, <2>4 DEF Distinct
    <3>2. \A i, j \in 1..n + Len(v) : i < j /\ ~a[j].manual => a[i].key # a[j].key
      BY <2>3, <3>1
    <3> QED BY <2>1, <3>2 DEF Distinct
  <2>5. ASSUME Ahead(b) PROVE Ahead(a)
    BY <2>1, <2>3, <2>5 DEF Ahead
  <2> QED BY <2>4, <2>5 DEF a, b
<1>7. QueueFits(s.flight, w, s.instance)
  BY <1>g, <1>4, <1>5, <1>6 DEF QueueFits
<1>8. /\ t \in QueueRec /\ t.instance = s.instance /\ t.queue = w /\ t.flight = s.flight
      /\ t.acked = s.acked /\ t.pending = s.pending /\ t.unsynced = s.unsynced /\ t.out = s.out
      /\ t.shed = s.shed /\ t.begun = s.begun
  BY <1>h, <1>4 DEF QueueRec
<1> HIDE DEF t
<1>9. t \in Queues
  BY <1>h, <1>8 DEF Queues
<1>10. AutoKeys(t) = AutoKeys(s) /\ QueuedKeys(t) = QueuedKeys(s)
  BY <1>g, <1>5, <1>8, <1>9, JobKeys
<1>11. Good(t)
  BY <1>g, <1>5, <1>7, <1>8, <1>9, GoodFrom
<1>12. Proper(s, t, {}, {})
  BY <1>g, <1>8, <1>10, <1>11 DEF Proper, Outs, Handled, Safe
<1> QED BY <1>1, <1>8, <1>10, <1>12

\* Settle only forgets the effects that were carried out.
LEMMA Settles ==
  ASSUME NEW s, Good(s)
  PROVE  LET t == Settle(s)
         IN  /\ Good(t) /\ Jobs(t) = Jobs(s) /\ t.instance = s.instance /\ t.acked = s.acked
             /\ t.pending = s.pending /\ t.unsynced = s.unsynced /\ t.out = {} /\ t.begun = {} /\ t.shed = {}
             /\ AutoKeys(t) = AutoKeys(s) /\ QueuedKeys(t) = QueuedKeys(s)
<1> DEFINE t == Settle(s)
<1>h. s \in QueueRec /\ Len(s.flight) <= 1 /\ Len(s.pending) <= PendingLimit
  BY QueueTypes DEF Good
<1>1. /\ t \in QueueRec /\ t.instance = s.instance /\ t.queue = s.queue /\ t.flight = s.flight
      /\ t.acked = s.acked /\ t.pending = s.pending /\ t.unsynced = s.unsynced
      /\ t.out = {} /\ t.begun = {} /\ t.shed = {}
  BY <1>h DEF Settle, QueueRec
<1> HIDE DEF t
<1>2. t \in Queues
  BY <1>h, <1>1, FS_EmptySet DEF Queues
<1>3. Jobs(t) = Jobs(s)
  BY <1>1 DEF Jobs
<1>4. AutoKeys(t) = AutoKeys(s) /\ QueuedKeys(t) = QueuedKeys(s)
  BY <1>3 DEF AutoKeys, QueuedKeys
<1>5. Good(t)
  BY <1>1, <1>2, <1>3, <1>4 DEF Good, Apart, Ordered
<1> QED BY <1>1, <1>3, <1>4, <1>5 DEF t

\* A queue without a job.
LEMMA UnusedGood ==
  ASSUME NEW s \in Queues, s.queue = <<>>, s.flight = <<>>
  PROVE  Good(s) /\ AutoKeys(s) = {} /\ QueuedKeys(s) = {}
<1>1. <<>> \in Seq(Entry) /\ <<>> \o <<>> = <<>> /\ Len(<<>>) = 0 /\ 1..0 = {}
  OBVIOUS
<1>2. Autos(<<>>) = {} /\ Keys(<<>>) = {}
  BY <1>1, EntryKeys
<1>3. Distinct(<<>>) /\ Ahead(<<>>) /\ Sorted(<<>>)
  BY <1>1 DEF Distinct, Ahead, Sorted
<1>4. QueueFits(<<>>, <<>>, s.instance)
  BY <1>1, <1>2, <1>3 DEF QueueFits
<1> QED BY <1>2, <1>4, GoodFrom, JobKeys

\* A new run has the saved list, and nothing else.
LEMMA RestoreIs ==
  ASSUME NEW keys \in Seq(Key), Len(keys) <= PendingLimit
  PROVE  LET t == RestorePending(EmptyQueue, keys)
         IN  /\ t \in Queues /\ t.queue = <<>> /\ t.flight = <<>> /\ t.acked = [k \in Key |-> "none"]
             /\ t.instance = 0 /\ t.pending = keys /\ t.unsynced = ToSet(keys)
             /\ t.out = {} /\ t.begun = {} /\ t.shed = {}
<1>1. LastOf(keys, PendingLimit) = keys
  BY LastOnes, DeliveryAssumption
<1>2. ToSet(keys) \subseteq Key
  BY Elements
<1> DEFINE u == ToSet(keys)
<1>3. u \subseteq Key
  BY <1>2
<1> HIDE DEF u
<1> DEFINE t == [EmptyQueue EXCEPT !.pending = keys, !.unsynced = u]
<1>4. RestorePending(EmptyQueue, keys) = t
  BY <1>1 DEF RestorePending, u
<1>5. [k \in Key |-> "none"] \in [Key -> AckStatus \cup {"none"}]
  OBVIOUS
<1>6. 0 \in 0..Instances
  BY DeliveryAssumption
<1>7. /\ t \in QueueRec /\ t.queue = <<>> /\ t.flight = <<>> /\ t.acked = [k \in Key |-> "none"]
      /\ t.instance = 0 /\ t.pending = keys /\ t.unsynced = u /\ t.out = {} /\ t.begun = {} /\ t.shed = {}
  <2> DEFINE a == [k \in Key |-> "none"]
  <2>1. a \in [Key -> AckStatus \cup {"none"}] /\ <<>> \in Seq(Entry) /\ <<>> \in Seq(Key)
    BY <1>5
  <2>2. EmptyQueue = [ instance |-> 0, queue |-> <<>>, flight |-> <<>>, acked |-> a, recent |-> <<>>, pending |-> <<>>,
                       unsynced |-> {}, suspect |-> {}, out |-> {}, begun |-> {}, shed |-> {} ]
    BY DEF EmptyQueue
  <2> HIDE DEF a
  <2>3. EmptyQueue \in QueueRec
    BY <1>6, <2>1, <2>2 DEF QueueRec
  <2>4. /\ EmptyQueue.queue = <<>> /\ EmptyQueue.flight = <<>> /\ EmptyQueue.acked = a /\ EmptyQueue.instance = 0
        /\ EmptyQueue.out = {} /\ EmptyQueue.begun = {} /\ EmptyQueue.shed = {}
    BY <2>2
  <2>5. /\ t \in QueueRec /\ t.queue = <<>> /\ t.flight = <<>> /\ t.acked = a
        /\ t.instance = 0 /\ t.pending = keys /\ t.unsynced = u /\ t.out = {} /\ t.begun = {} /\ t.shed = {}
    BY <1>3, <2>3, <2>4 DEF QueueRec
  <2> QED BY <2>5 DEF a
<1> HIDE DEF t
<1>8. t \in Queues
  <2>1. Len(t.flight) <= 1
    BY <1>7
  <2> QED BY <1>7, <2>1, FS_EmptySet DEF Queues
<1> QED BY <1>4, <1>7, <1>8 DEF u

-----------------------------------------------------------------------------
(* The invariant.                                                           *)

Listing == [instance : 1..Instances, unacked : SUBSET Key]

DaemonTypes ==
  /\ inst \in 1..Instances
  /\ tracker \in Seq(AckStatus \cup {"pending", "daemon"}) /\ Len(tracker) <= Results
  /\ holder \in BOOLEAN
LinkTypes ==
  /\ phase \in {"up", "quitting", "down"} /\ session \in 0..Instances
  /\ feed \in Seq((1..Results) \X BOOLEAN) /\ listing \in Seq(Listing)
StoreTypes ==
  /\ acks \subseteq Ack /\ running \in [Key -> Nat] /\ landed \subseteq Key /\ gone \subseteq Key
  /\ writer \in Seq(Seq(Key)) /\ disk \in Seq(Key)

\* Between two handlers the queue is good and no effect is left.
Quiet == Good(q) /\ q.out = {} /\ q.begun = {} /\ q.shed = {}

\* The results the daemons have published so far.
Published == {k \in Key : k[1] < inst \/ (k[1] = inst /\ k[2] \in DOMAIN tracker)}

\* The lists in the file and on their way to it.
Lists == {disk} \cup {writer[i] : i \in 1..Len(writer)}
LastSaved == IF writer = <<>> THEN disk ELSE writer[Len(writer)]
Saved ==
  /\ phase # "down" => LastSaved = q.pending
  /\ \A l \in Lists : Len(l) <= PendingLimit

\* No part of the companion speaks of a result that no daemon has published.
Fed == {<<session, feed[i][1]>> : i \in 1..Len(feed)}
Fetched == {k \in Key : \E i \in 1..Len(listing) : k \in listing[i].unacked}
Filed == {k \in Key : \E l \in Lists : k \in ToSet(l)}
Named == ToSet(q.pending) \cup q.unsynced \cup AutoKeys(q) \cup Filed
AllPublished ==
  /\ Named \subseteq Published /\ Fed \subseteq Published /\ Fetched \subseteq Published
  /\ \A i \in 1..Len(listing) : \A k \in listing[i].unacked : k[1] = listing[i].instance
  /\ session <= inst /\ q.instance = session

\* What was restored is not told to the daemon yet; once a listing is handled, no result it
\* holds as unacknowledged is among it.
Synced ==
  phase = "up" =>
    /\ session = 0 => /\ AutoKeys(q) = {} /\ listing = <<>>
                      /\ \A k \in q.unsynced : k \in ToSet(q.pending) \/ q.acked[k] # "none"
    /\ session # 0 => q.unsynced \cap Unacked = {}
    /\ Fetched \cap q.unsynced = {}

\* What is acknowledged is on the clipboard's record, in the list, or was taken from it.
Placed == ToSet(q.pending) \cup gone \cup landed
Settled ==
  /\ \A k \in Key : q.acked[k] = "delivered" => k \in landed
  /\ \A k \in Key : q.acked[k] # "none" => k \in Placed
  /\ \A a \in acks : (a.status = "delivered" => a.key \in landed) /\ a.key \in Placed

Phases ==
  /\ phase = "down" => session = 0 /\ listing = <<>> /\ acks = {} /\ writer = <<>>
  /\ phase = "quitting" => AutoKeys(q) = {}

DeliveryInv ==
  /\ DaemonTypes /\ LinkTypes /\ StoreTypes /\ Quiet /\ AllPublished /\ Synced /\ Settled /\ Saved
  /\ Phases /\ DeliveredHasLanded

-----------------------------------------------------------------------------
(* What carrying out a handler's effects does.                              *)

\* From q the handler made t: the effects of t are carried out, `told` have landed.
Handler(t, new, told) ==
  /\ Good(t) /\ Handled(q, t, new, told) /\ Outs(q, t) /\ Effects(t)
  /\ told \subseteq Key /\ landed' = landed \cup told

Stepped(new) ==
  /\ Quiet'
  /\ acks' \subseteq Ack /\ gone' \subseteq Key /\ writer' \in Seq(Seq(Key)) /\ disk' \in Seq(Key)
  /\ landed \subseteq landed' /\ landed' \subseteq Key /\ gone \subseteq gone'
  /\ Lists' \subseteq Lists \cup {q'.pending} /\ LastSaved' = q'.pending
  /\ Settled'
  /\ AutoKeys(q') \subseteq AutoKeys(q) \cup new
  /\ ToSet(q'.pending) \subseteq ToSet(q.pending) \cup AutoKeys(q) \cup new
  /\ ToSet(q.pending) \subseteq Placed'
  /\ AutoKeys(q) \subseteq QueuedKeys(q') \cup Placed'
  /\ AutoKeys(q) = {} /\ new = {} =>
       \A k \in ToSet(q.pending) : k \in ToSet(q'.pending) \/ q'.acked[k] # "none"
  /\ \A k \in Key : q.acked[k] # "none" => q'.acked[k] # "none"

\* The last list on its way to the file is the one the queue has.
LEMMA SavesList ==
  ASSUME NEW s, s.pending \in Seq(Key), writer \in Seq(Seq(Key)), disk \in Seq(Key),
         LastSaved = q.pending, Save(s), UNCHANGED disk
  PROVE  writer' \in Seq(Seq(Key)) /\ Lists' \subseteq Lists \cup {s.pending} /\ LastSaved' = s.pending
<1>1. CASE s.pending = q.pending
  <2>1. writer' = writer
    BY <1>1 DEF Save
  <2> QED BY <1>1, <2>1 DEF Lists, LastSaved
<1>2. CASE s.pending # q.pending
  <2>1. writer' = Append(writer, s.pending)
    BY <1>2 DEF Save
  <2>2. /\ writer' \in Seq(Seq(Key)) /\ Len(writer) \in Nat /\ Len(writer') = Len(writer) + 1
        /\ writer'[Len(writer) + 1] = s.pending /\ \A i \in 1..Len(writer) : writer'[i] = writer[i]
    BY <2>1
  <2>3. writer' # <<>> /\ LastSaved' = s.pending
    BY <2>2 DEF LastSaved
  <2>4. \A i \in 1..Len(writer') : i \in 1..Len(writer) \/ i = Len(writer) + 1
    BY <2>2
  <2>5. Lists' \subseteq Lists \cup {s.pending}
    BY <2>2, <2>4 DEF Lists
  <2> QED BY <2>2, <2>3, <2>5
<1> QED BY <1>1, <1>2

\* What the new queue is, once the effects are carried out.
LEMMA EffectsDone ==
  ASSUME NEW t, NEW new, NEW told, Handler(t, new, told)
  PROVE  /\ Quiet' /\ AutoKeys(q') = AutoKeys(t) /\ QueuedKeys(q') = QueuedKeys(t)
         /\ q'.pending = t.pending /\ q'.acked = t.acked /\ q'.unsynced = t.unsynced /\ q'.instance = t.instance
         /\ acks' = acks \cup t.out /\ gone' = gone \cup t.shed /\ Save(t) /\ UNCHANGED disk
<1>1. Good(t) /\ q' = Settle(t) /\ acks' = acks \cup t.out /\ gone' = gone \cup t.shed /\ Save(t) /\ UNCHANGED disk
  BY DEF Handler, Effects
<1>2. /\ Good(Settle(t)) /\ Settle(t).instance = t.instance /\ Settle(t).acked = t.acked
      /\ Settle(t).pending = t.pending /\ Settle(t).unsynced = t.unsynced
      /\ Settle(t).out = {} /\ Settle(t).begun = {} /\ Settle(t).shed = {}
      /\ AutoKeys(Settle(t)) = AutoKeys(t) /\ QueuedKeys(Settle(t)) = QueuedKeys(t)
  BY <1>1, Settles
<1>3. Quiet'
  BY <1>1, <1>2 DEF Quiet
<1> QED BY <1>1, <1>2, <1>3

LEMMA HandlerSteps ==
  ASSUME NEW t, NEW new, NEW told, Handler(t, new, told),
         StoreTypes, Quiet, Saved, Settled, phase # "down"
  PROVE  Stepped(new)
<1>1. /\ Quiet' /\ AutoKeys(q') = AutoKeys(t) /\ QueuedKeys(q') = QueuedKeys(t)
      /\ q'.pending = t.pending /\ q'.acked = t.acked
      /\ acks' = acks \cup t.out /\ gone' = gone \cup t.shed /\ Save(t) /\ UNCHANGED disk
  BY EffectsDone
<1>2. t \in Queues /\ q \in Queues /\ told \subseteq Key /\ landed' = landed \cup told
      /\ q.out = {} /\ q.shed = {}
  BY DEF Handler, Good, Quiet
<1>3. t.pending \in Seq(Key) /\ t.out \subseteq Ack /\ t.shed \subseteq Key /\ ToSet(t.pending) \subseteq Key
  BY <1>2, QueueTypes
<1>4. acks' \subseteq Ack /\ gone' \subseteq Key /\ landed' \subseteq Key /\ disk' \in Seq(Key)
  BY <1>1, <1>2, <1>3 DEF StoreTypes
<1>5. landed \subseteq landed' /\ gone \subseteq gone'
  BY <1>1, <1>2
<1>6. writer' \in Seq(Seq(Key)) /\ Lists' \subseteq Lists \cup {t.pending} /\ LastSaved' = t.pending
  <2>1. writer \in Seq(Seq(Key)) /\ disk \in Seq(Key) /\ LastSaved = q.pending
    BY DEF StoreTypes, Saved
  <2> QED BY <1>1, <1>3, <2>1, SavesList
<1>7. Safe(t, told) \subseteq Placed' /\ Placed' = ToSet(t.pending) \cup gone \cup t.shed \cup landed \cup told
  BY <1>1, <1>2 DEF Safe, Placed
<1>8. Handled(q, t, new, told)
  BY DEF Handler
<1>9. ToSet(q.pending) \subseteq Placed' /\ AutoKeys(q) \subseteq QueuedKeys(q') \cup Placed'
  BY <1>1, <1>7, <1>8 DEF Handled
<1>10. Placed \subseteq Placed'
  BY <1>5, <1>9 DEF Placed
<1>11. Settled'
  <2>1. \A k \in Key : q'.acked[k] = "delivered" => k \in landed'
    BY <1>1, <1>2, <1>8 DEF Handled, Settled
  <2>2. \A k \in Key : q'.acked[k] # "none" => k \in Placed'
    BY <1>1, <1>7, <1>8, <1>10 DEF Handled, Settled
  <2>3. ASSUME NEW a \in acks'
        PROVE  (a.status = "delivered" => a.key \in landed') /\ a.key \in Placed'
    <3>1. CASE a \in acks
      BY <1>5, <1>10, <3>1 DEF Settled
    <3>2. CASE a \in t.out
      <4>1. a.key \in Key
        BY <1>3, <3>2 DEF Ack
      <4>2. t.acked[a.key] # "none" /\ (a.status = "delivered" => t.acked[a.key] = "delivered")
        BY <1>2, <3>2 DEF Handler, Outs
      <4> QED BY <1>1, <2>1, <2>2, <4>1, <4>2
    <3> QED BY <1>1, <3>1, <3>2
  <2> QED BY <2>1, <2>2, <2>3 DEF Settled
<1>12. /\ AutoKeys(q') \subseteq AutoKeys(q) \cup new
       /\ ToSet(q'.pending) \subseteq ToSet(q.pending) \cup AutoKeys(q) \cup new
  BY <1>1, <1>8 DEF Handled
<1>13. /\ AutoKeys(q) = {} /\ new = {} =>
            \A k \in ToSet(q.pending) : k \in ToSet(q'.pending) \/ q'.acked[k] # "none"
       /\ \A k \in Key : q.acked[k] # "none" => q'.acked[k] # "none"
  BY <1>1, <1>8 DEF Handled
<1> QED BY <1>1, <1>4, <1>5, <1>6, <1>9, <1>11, <1>12, <1>13 DEF Stepped

\* The writes counted are natural numbers.
LEMMA RunningType ==
  ASSUME NEW t \in Queues, running \in [Key -> Nat]
  PROVE  [k \in Key |-> running[k] + Begun(t, k)] \in [Key -> Nat]
<1>1. ASSUME NEW k \in Key PROVE Begun(t, k) \in Nat
  <2>1. IsFiniteSet(t.begun)
    BY QueueTypes
  <2>2. {e \in t.begun : e.key = k} \subseteq t.begun
    OBVIOUS
  <2>3. IsFiniteSet({e \in t.begun : e.key = k})
    BY <2>1, <2>2, FS_Subset
  <2> QED BY <2>3, FS_CardinalityType DEF Begun
<1>2. ASSUME NEW k \in Key PROVE running[k] + Begun(t, k) \in Nat
  BY <1>1
<1> QED BY <1>2

LEMMA AnsweredType ==
  ASSUME NEW t \in Queues, running \in [Key -> Nat], NEW k \in Key, running[k] > 0
  PROVE  [j \in Key |-> running[j] + Begun(t, j) - (IF j = k THEN 1 ELSE 0)] \in [Key -> Nat]
<1>1. [j \in Key |-> running[j] + Begun(t, j)] \in [Key -> Nat]
  BY RunningType
<1>2. ASSUME NEW j \in Key PROVE Begun(t, j) \in Nat
  <2>1. IsFiniteSet(t.begun)
    BY QueueTypes
  <2>2. {e \in t.begun : e.key = j} \subseteq t.begun
    OBVIOUS
  <2>3. IsFiniteSet({e \in t.begun : e.key = j})
    BY <2>1, <2>2, FS_Subset
  <2> QED BY <2>3, FS_CardinalityType DEF Begun
<1>3. ASSUME NEW j \in Key PROVE running[j] + Begun(t, j) - (IF j = k THEN 1 ELSE 0) \in Nat
  <2> DEFINE b == Begun(t, j)
             r == running[j]
             n == r + b - (IF j = k THEN 1 ELSE 0)
  <2>1. b \in Nat /\ r \in Nat /\ (j = k => r > 0)
    BY <1>2
  <2> HIDE DEF b, r
  <2>2. n \in Nat
    <3>1. CASE j = k
      <4>1. n = r + b - 1
        BY <3>1
      <4> HIDE DEF n
      <4> QED BY <2>1, <3>1, <4>1
    <3>2. CASE j # k
      <4>1. n = r + b - 0
        BY <3>2
      <4> HIDE DEF n
      <4> QED BY <2>1, <4>1
    <3> QED BY <3>1, <3>2
  <2> QED BY <2>2 DEF n, b, r
<1> QED BY <1>3

\* Lists that get shorter, or the queue's own list, keep to the limit.
LEMMA SavedStays ==
  ASSUME NEW new, Stepped(new), Saved
  PROVE  Saved'
<1>1. q'.pending = LastSaved' /\ Len(q'.pending) <= PendingLimit
  <2>1. q' \in Queues
    BY DEF Stepped, Quiet, Good
  <2> QED BY <2>1, QueueTypes DEF Stepped
<1>2. \A l \in Lists' : Len(l) <= PendingLimit
  BY <1>1 DEF Stepped, Saved
<1> QED BY <1>1, <1>2 DEF Saved

LEMMA NamedStays ==
  ASSUME NEW new, Stepped(new), phase # "down", Saved, Named \subseteq Published, new \subseteq Published,
         q'.unsynced \subseteq q.unsynced \cup AutoKeys(q), Published \subseteq Published'
  PROVE  Named' \subseteq Published'
<1>1. ASSUME NEW k \in Filed' PROVE k \in Filed \cup ToSet(q'.pending)
  <2>1. PICK l \in Lists' : k \in ToSet(l)
    BY DEF Filed
  <2>2. l \in Lists \/ l = q'.pending
    BY <2>1 DEF Stepped
  <2> QED BY <2>1, <2>2 DEF Filed
<1>2. ToSet(q'.pending) \cup AutoKeys(q') \cup q'.unsynced \subseteq Named \cup new
  BY DEF Stepped, Named
<1>3. Filed' \subseteq Named \cup new
  BY <1>1, <1>2 DEF Named
<1> QED BY <1>2, <1>3 DEF Named

-----------------------------------------------------------------------------
(* The steps of the companion's dispatcher.                                 *)

\* What TextKept says of one step.
StepKeeps ==
  \A k \in Key : Kept(k) /\ ~Kept(k)' => k \in gone' \/ Crashed \/ inst' # inst \/ ManualOnly(k)

\* A result that is queued is queued for an automatic write, or for a manual one.
LEMMA QueuedSomehow ==
  ASSUME q \in Queues, NEW k \in QueuedKeys(q)
  PROVE  k \in AutoKeys(q) \/ ManualOnly(k)
<1>1. Jobs(q) \in Seq(Entry) /\ DOMAIN Jobs(q) = 1..Len(Jobs(q))
  BY JobKeys
<1>2. PICK i \in DOMAIN Jobs(q) : Jobs(q)[i].key = k
  BY DEF QueuedKeys
<1>3. CASE Jobs(q)[i].manual
  BY <1>2, <1>3 DEF ManualOnly
<1>4. CASE ~Jobs(q)[i].manual
  BY <1>1, <1>2, <1>4 DEF AutoKeys, Autos
<1> QED BY <1>3, <1>4

LEMMA InList ==
  ASSUME NEW s \in Queues, NEW k
  PROVE  Contains(s.pending, k) <=> k \in ToSet(s.pending)
<1>1. s.pending \in Seq(Key)
  BY QueueTypes
<1> QED BY <1>1, Elements

\* A handler loses no text.
LEMMA HandlerKeeps ==
  ASSUME NEW new, Stepped(new), Quiet, phase # "down", phase' # "down", UNCHANGED <<inst, tracker>>
  PROVE  StepKeeps
<1>1. SUFFICES ASSUME NEW k \in Key, Kept(k), ~Kept(k)' PROVE k \in gone' \/ ManualOnly(k)
  BY DEF StepKeeps
<1>2. q \in Queues /\ q' \in Queues
  BY DEF Stepped, Quiet, Good
<1>3. k \notin landed' /\ k \notin Unacked' /\ k \notin QueuedKeys(q') /\ k \notin ToSet(q'.pending)
  BY <1>1, <1>2, InList DEF Kept
<1>4. k \notin landed
  BY <1>3 DEF Stepped
<1>5. k \notin Unacked
  BY <1>3 DEF Unacked
<1>6. k \in QueuedKeys(q) \/ k \in ToSet(q.pending)
  BY <1>1, <1>2, <1>4, <1>5, InList DEF Kept
<1>7. Placed' \subseteq ToSet(q'.pending) \cup gone' \cup landed'
  BY DEF Placed
<1>8. CASE k \in ToSet(q.pending)
  BY <1>3, <1>7, <1>8 DEF Stepped
<1>9. CASE k \in AutoKeys(q)
  BY <1>3, <1>7, <1>9 DEF Stepped
<1>10. CASE k \in QueuedKeys(q) /\ k \notin AutoKeys(q)
  BY <1>2, <1>10, QueuedSomehow
<1> QED BY <1>6, <1>8, <1>9, <1>10

\* What a handler's step leaves of the daemon and of what the poller fetched.
HandlerLink(new) ==
  /\ phase # "down" /\ phase' = phase /\ UNCHANGED <<inst, tracker>> /\ holder' \in BOOLEAN
  /\ running' \in [Key -> Nat] /\ feed' \in Seq((1..Results) \X BOOLEAN) /\ listing' \in {listing, <<>>}
  /\ session' \in Nat /\ session' <= inst /\ q'.instance = session' /\ Fed' \subseteq Published
  /\ new \subseteq Published /\ (phase = "up" \/ new = {})
  /\ q'.unsynced \subseteq q.unsynced
  /\ session' = 0 => session = 0 /\ new = {}
  /\ phase = "up" /\ session' # 0 => q'.unsynced \cap Unacked = {}

LEMMA HandlerPreserves ==
  ASSUME NEW new, Stepped(new), HandlerLink(new), DeliveryInv
  PROVE  DeliveryInv' /\ StepKeeps
<1>1. /\ phase # "down" /\ phase' = phase /\ inst' = inst /\ tracker' = tracker
      /\ Unacked' = Unacked /\ Published' = Published
  BY DEF HandlerLink, Unacked, Published
<1>2. DaemonTypes'
  BY <1>1 DEF DeliveryInv, DaemonTypes, HandlerLink
<1>3. LinkTypes'
  <2>1. session' \in 0..Instances
    <3>1. session' \in Nat /\ session' <= inst /\ inst \in 1..Instances
      BY DEF HandlerLink, DeliveryInv, DaemonTypes
    <3>2. Instances \in Nat
      BY DeliveryAssumption
    <3> QED BY <3>1, <3>2
  <2>2. <<>> \in Seq(Listing)
    OBVIOUS
  <2> QED BY <1>1, <2>1, <2>2 DEF DeliveryInv, LinkTypes, HandlerLink
<1>4. StoreTypes'
  BY DEF Stepped, HandlerLink, StoreTypes
<1>5. Quiet' /\ Settled'
  BY DEF Stepped
<1>6. Saved'
  BY SavedStays DEF DeliveryInv
<1>7. Named' \subseteq Published'
  <2>1. /\ Named \subseteq Published /\ new \subseteq Published /\ Published \subseteq Published' /\ Saved
        /\ q'.unsynced \subseteq q.unsynced \cup AutoKeys(q)
    BY <1>1 DEF DeliveryInv, AllPublished, HandlerLink
  <2> QED BY <1>1, <2>1, NamedStays
<1>8. Fetched' \subseteq Fetched
  <2>1. CASE listing' = listing
    BY <2>1 DEF Fetched
  <2>2. CASE listing' = <<>>
    BY <2>2 DEF Fetched
  <2> QED BY <2>1, <2>2 DEF HandlerLink
<1>9. AllPublished'
  <2>1. \A i \in 1..Len(listing') : \A k \in listing'[i].unacked : k[1] = listing'[i].instance
    <3>1. CASE listing' = listing
      BY <3>1 DEF DeliveryInv, AllPublished
    <3>2. CASE listing' = <<>>
      BY <3>2
    <3> QED BY <3>1, <3>2 DEF HandlerLink
  <2>2. Fed' \subseteq Published' /\ Fetched' \subseteq Published'
    BY <1>1, <1>8 DEF HandlerLink, DeliveryInv, AllPublished
  <2>3. session' <= inst' /\ q'.instance = session'
    BY <1>1 DEF HandlerLink
  <2> QED BY <1>7, <2>1, <2>2, <2>3 DEF AllPublished
<1>10. Synced'
  <2>1. SUFFICES ASSUME phase = "up" PROVE Synced'
    BY <1>1 DEF Synced
  <2>2. Fetched' \cap q'.unsynced = {}
    BY <1>8, <2>1 DEF DeliveryInv, Synced, HandlerLink
  <2>3. session' # 0 => q'.unsynced \cap Unacked' = {}
    BY <1>1, <2>1 DEF HandlerLink
  <2>4. ASSUME session' = 0
        PROVE  /\ AutoKeys(q') = {} /\ listing' = <<>>
               /\ \A k \in q'.unsynced : k \in ToSet(q'.pending) \/ q'.acked[k] # "none"
    <3>1. session = 0 /\ new = {} /\ q'.unsynced \subseteq q.unsynced /\ listing' \in {listing, <<>>}
      BY <2>4 DEF HandlerLink
    <3>2. /\ AutoKeys(q) = {} /\ listing = <<>>
          /\ \A k \in q.unsynced : k \in ToSet(q.pending) \/ q.acked[k] # "none"
      BY <2>1, <3>1 DEF DeliveryInv, Synced
    <3>3. q.unsynced \subseteq Key
      BY QueueTypes DEF DeliveryInv, Quiet, Good
    <3>4. AutoKeys(q') = {}
      BY <3>1, <3>2 DEF Stepped
    <3>5. ASSUME NEW k \in q'.unsynced PROVE k \in ToSet(q'.pending) \/ q'.acked[k] # "none"
      <4>1. k \in q.unsynced /\ k \in Key
        BY <3>1, <3>3
      <4>2. CASE k \in ToSet(q.pending)
        BY <3>1, <3>2, <4>2 DEF Stepped
      <4>3. CASE q.acked[k] # "none"
        BY <4>1, <4>3 DEF Stepped
      <4> QED BY <3>2, <4>1, <4>2, <4>3
    <3> QED BY <3>1, <3>2, <3>4, <3>5
  <2> QED BY <2>2, <2>3, <2>4 DEF Synced
<1>11. Phases'
  <2>1. phase = "quitting" => AutoKeys(q') = {}
    <3>1. SUFFICES ASSUME phase = "quitting" PROVE AutoKeys(q') = {}
      OBVIOUS
    <3>2. new = {} /\ AutoKeys(q) = {}
      BY <3>1 DEF HandlerLink, DeliveryInv, Phases
    <3> QED BY <3>2 DEF Stepped
  <2> QED BY <1>1, <2>1 DEF Phases
<1>12. DeliveredHasLanded'
  <2>1. landed \subseteq landed'
    BY DEF Stepped
  <2> QED BY <1>1, <2>1 DEF DeliveryInv, DeliveredHasLanded
<1>13. StepKeeps
  BY <1>1, HandlerKeeps DEF DeliveryInv
<1> QED BY <1>2, <1>3, <1>4, <1>5, <1>6, <1>9, <1>10, <1>11, <1>12, <1>13 DEF DeliveryInv

-----------------------------------------------------------------------------
(* The dispatcher's actions, one by one.                                    *)

Preserved == DeliveryInv' /\ StepKeeps

\* A handler that keeps the link, takes nothing in and does not tell more.
LEMMA SameLink ==
  ASSUME DeliveryInv, Stepped({}), phase # "down", UNCHANGED <<daemon, phase, link>>,
         running' \in [Key -> Nat], q'.unsynced \subseteq q.unsynced, q'.instance = q.instance
  PROVE  Preserved
<1>1. /\ inst' = inst /\ tracker' = tracker /\ holder' = holder /\ phase' = phase /\ session' = session
      /\ feed' = feed /\ listing' = listing
  BY DEF daemon, link
<1>2. holder' \in BOOLEAN /\ feed' \in Seq((1..Results) \X BOOLEAN) /\ listing' \in {listing, <<>>}
      /\ session' \in Nat
  BY <1>1 DEF DeliveryInv, DaemonTypes, LinkTypes
<1>3. session' <= inst /\ q'.instance = session' /\ Fed' \subseteq Published
  BY <1>1 DEF DeliveryInv, AllPublished, Fed
<1>4. phase = "up" /\ session' # 0 => q'.unsynced \cap Unacked = {}
  BY <1>1 DEF DeliveryInv, Synced
<1>5. HandlerLink({})
  BY <1>1, <1>2, <1>3, <1>4 DEF HandlerLink
<1> QED BY <1>5, HandlerPreserves DEF Preserved

\* The handlers of the queue alone: the tick, a verdict, a manual copy, a clearing.
LEMMA ProperSteps ==
  ASSUME DeliveryInv, phase # "down", UNCHANGED <<daemon, phase, link>>, NEW t, NEW told \in SUBSET Key,
         Proper(q, t, {}, told), Effects(t), landed' = landed \cup told, running' \in [Key -> Nat]
  PROVE  Preserved
<1>1. Handler(t, {}, told)
  BY DEF Handler, Proper
<1>2. Stepped({})
  BY <1>1, HandlerSteps DEF DeliveryInv
<1>3. q'.unsynced = t.unsynced /\ q'.instance = t.instance
  BY <1>1, EffectsDone
<1>4. q'.unsynced \subseteq q.unsynced /\ q'.instance = q.instance
  BY <1>3 DEF Proper
<1> QED BY <1>2, <1>4, SameLink

LEMMA Applies ==
  ASSUME DeliveryInv, NEW t, Good(t), Apply(t)
  PROVE  Effects(t) /\ running' \in [Key -> Nat]
<1>1. t \in Queues /\ running \in [Key -> Nat]
  BY DEF Good, DeliveryInv, StoreTypes
<1> QED BY <1>1, RunningType DEF Apply

LEMMA TickPreserves ==
  ASSUME DeliveryInv, Tick
  PROVE  Preserved
<1>1. Good(q)
  BY DEF DeliveryInv, Quiet
<1>2. Proper(q, Advance(q), {}, {})
  BY <1>1, TickHandles
<1>3. Effects(Advance(q)) /\ running' \in [Key -> Nat]
  <2>1. Good(Advance(q)) /\ Apply(Advance(q))
    BY <1>2 DEF Proper, Tick
  <2> QED BY <2>1, Applies
<1>4. phase # "down" /\ UNCHANGED <<daemon, phase, link>> /\ landed' = landed \cup {} /\ {} \in SUBSET Key
  BY DEF Tick
<1> QED BY <1>2, <1>3, <1>4, ProperSteps

LEMMA TimeOutPreserves ==
  ASSUME DeliveryInv, TimeOut
  PROVE  Preserved
<1> DEFINE t == OnDeliveryDone(q, q.flight[1].key, FALSE)
<1>1. Good(q)
  BY DEF DeliveryInv, Quiet
<1>2. Proper(q, t, {}, {})
  <2>1. Proper(q, t, {}, IF FALSE THEN {q.flight[1].key} ELSE {})
    BY <1>1, DoneHandles
  <2> QED BY <2>1
<1>3. phase # "down" /\ UNCHANGED <<daemon, phase, link>> /\ landed' = landed \cup {} /\ {} \in SUBSET Key /\ Apply(t)
  BY DEF TimeOut
<1> HIDE DEF t
<1>4. Effects(t) /\ running' \in [Key -> Nat]
  <2>1. Good(t)
    BY <1>2 DEF Proper
  <2> QED BY <1>3, <2>1, Applies
<1> QED BY <1>2, <1>3, <1>4, ProperSteps

LEMMA VerdictPreserves ==
  ASSUME DeliveryInv, NEW k \in Key, NEW ok \in BOOLEAN, Verdict(k, ok)
  PROVE  Preserved
<1> DEFINE t == OnDeliveryDone(q, k, ok)
           told == IF ok THEN {k} ELSE {}
<1>1. Good(q)
  BY DEF DeliveryInv, Quiet
<1>2. Proper(q, t, {}, told)
  BY <1>1, DoneHandles
<1>3. /\ phase # "down" /\ UNCHANGED <<daemon, phase, link>> /\ Effects(t) /\ running[k] > 0
      /\ landed' = (IF ok THEN landed \cup {k} ELSE landed)
      /\ running' = [j \in Key |-> running[j] + Begun(t, j) - (IF j = k THEN 1 ELSE 0)]
  BY DEF Verdict
<1>4. landed' = landed \cup told /\ told \in SUBSET Key
  BY <1>3
<1> HIDE DEF t, told
<1>5. running' \in [Key -> Nat]
  <2>1. t \in Queues /\ running \in [Key -> Nat]
    BY <1>2 DEF Proper, Good, DeliveryInv, StoreTypes
  <2> QED BY <1>3, <2>1, AnsweredType
<1> QED BY <1>2, <1>3, <1>4, <1>5, ProperSteps

LEMMA UserCopiesPreserves ==
  ASSUME DeliveryInv, UserCopies
  PROVE  Preserved
<1>1. Good(q) /\ q \in Queues
  BY DEF DeliveryInv, Quiet, Good
<1>2. PICK k \in ToSet(q.pending) \cup ToSet(q.recent) : Apply(Copy(q, k))
  BY DEF UserCopies
<1>3. k \in Key
  <2>1. q.pending \in Seq(Key) /\ q.recent \in Seq(Key)
    BY <1>1, QueueTypes
  <2> QED BY <2>1, Elements
<1> DEFINE t == Copy(q, k)
<1>4. Proper(q, t, {}, {})
  BY <1>1, <1>3, CopyHandles
<1>5. phase # "down" /\ UNCHANGED <<daemon, phase, link>> /\ landed' = landed \cup {} /\ {} \in SUBSET Key /\ Apply(t)
  BY <1>2 DEF UserCopies
<1> HIDE DEF t
<1>6. Effects(t) /\ running' \in [Key -> Nat]
  <2>1. Good(t)
    BY <1>4 DEF Proper
  <2> QED BY <1>5, <2>1, Applies
<1> QED BY <1>4, <1>5, <1>6, ProperSteps

LEMMA UserClearsPreserves ==
  ASSUME DeliveryInv, UserClears
  PROVE  Preserved
<1>1. Good(q)
  BY DEF DeliveryInv, Quiet
<1>2. PICK shown \in SUBSET ToSet(q.pending) \ {{}} : Apply(ClearPending(q, shown))
  BY DEF UserClears
<1> DEFINE t == ClearPending(q, shown)
<1>3. shown \subseteq ToSet(q.pending)
  BY <1>2
<1>4. Proper(q, t, {}, {})
  BY <1>1, <1>3, ClearHandles
<1>5. phase # "down" /\ UNCHANGED <<daemon, phase, link>> /\ landed' = landed \cup {} /\ {} \in SUBSET Key /\ Apply(t)
  BY <1>2 DEF UserClears
<1> HIDE DEF t
<1>6. Effects(t) /\ running' \in [Key -> Nat]
  <2>1. Good(t)
    BY <1>4 DEF Proper
  <2> QED BY <1>5, <2>1, Applies
<1> QED BY <1>4, <1>5, <1>6, ProperSteps

\* The retry's time comes: only the first of the queue changes.
LEMMA RetryDuePreserves ==
  ASSUME DeliveryInv, RetryDue
  PROVE  Preserved
<1>1. /\ Good(q) /\ q.out = {} /\ q.begun = {} /\ q.shed = {} /\ q.queue # <<>>
      /\ q' = [q EXCEPT !.queue[1].due = TRUE]
  BY DEF DeliveryInv, Quiet, RetryDue
<1>2. /\ Proper(q, q', {}, {}) /\ QueuedKeys(q') = QueuedKeys(q) /\ q'.pending = q.pending /\ q'.acked = q.acked
      /\ q'.shed = q.shed /\ q'.out = q.out /\ q'.begun = q.begun /\ AutoKeys(q') = AutoKeys(q)
      /\ q'.unsynced = q.unsynced
  BY <1>1, DueHandles
<1>3. q'.instance = q.instance /\ Quiet'
  BY <1>1, <1>2 DEF Proper, Quiet
<1>4. /\ inst' = inst /\ tracker' = tracker /\ holder' = holder /\ phase' = phase /\ session' = session
      /\ feed' = feed /\ listing' = listing /\ acks' = acks /\ running' = running /\ landed' = landed
      /\ writer' = writer /\ disk' = disk /\ gone' = gone
  BY DEF RetryDue, daemon, link, store
<1>5. DaemonTypes' /\ LinkTypes' /\ StoreTypes' /\ DeliveredHasLanded'
  BY <1>4 DEF DeliveryInv, DaemonTypes, LinkTypes, StoreTypes, DeliveredHasLanded
<1>6. Published' = Published /\ Unacked' = Unacked /\ Fed' = Fed /\ Fetched' = Fetched /\ Lists' = Lists
      /\ LastSaved' = LastSaved /\ Filed' = Filed
  BY <1>4 DEF Published, Unacked, Fed, Fetched, Lists, LastSaved, Filed
<1>7. Named' = Named /\ Placed' = Placed
  BY <1>2, <1>4, <1>6 DEF Named, Placed
<1>8. AllPublished'
  BY <1>3, <1>4, <1>6, <1>7 DEF DeliveryInv, AllPublished
<1>9. Synced'
  BY <1>2, <1>4, <1>6 DEF DeliveryInv, Synced
<1>10. Settled'
  BY <1>2, <1>4, <1>7 DEF DeliveryInv, Settled
<1>11. Saved' /\ Phases'
  BY <1>2, <1>4, <1>6 DEF DeliveryInv, Saved, Phases
<1>12. StepKeeps
  BY <1>2, <1>4, <1>6 DEF StepKeeps, Kept
<1> QED BY <1>3, <1>5, <1>8, <1>9, <1>10, <1>11, <1>12 DEF Preserved, DeliveryInv

\* The handlers of events and of listings.
LEMMA NewsSteps ==
  ASSUME DeliveryInv, phase # "down", NEW t, NEW new, Good(t), Handled(q, t, new, {}), Outs(q, t), Apply(t),
         landed' = landed
  PROVE  Stepped(new) /\ running' \in [Key -> Nat] /\ q'.unsynced = t.unsynced /\ q'.instance = t.instance
<1>1. Effects(t) /\ running' \in [Key -> Nat]
  BY Applies
<1>2. Handler(t, new, {})
  BY <1>1 DEF Handler
<1>3. Stepped(new)
  BY <1>2, HandlerSteps DEF DeliveryInv
<1> QED BY <1>1, <1>2, <1>3, EffectsDone

\* The results fed are of the session's instance, which is a daemon's.
LEMMA FedFirst ==
  ASSUME DeliveryInv, feed # <<>>
  PROVE  /\ <<session, Head(feed)[1]>> \in Published /\ Head(feed)[2] \in BOOLEAN /\ session # 0
         /\ Tail(feed) \in Seq((1..Results) \X BOOLEAN)
         /\ {<<session, Tail(feed)[i][1]>> : i \in 1..Len(Tail(feed))} \subseteq Fed
<1>1. feed \in Seq((1..Results) \X BOOLEAN) /\ Fed \subseteq Published
  BY DEF DeliveryInv, LinkTypes, AllPublished
<1>2. /\ Len(feed) \in Nat /\ 1 \in 1..Len(feed) /\ Head(feed) = feed[1] /\ Head(feed) \in (1..Results) \X BOOLEAN
      /\ Tail(feed) \in Seq((1..Results) \X BOOLEAN)
      /\ Len(Tail(feed)) = Len(feed) - 1 /\ \A i \in 1..Len(feed) - 1 : Tail(feed)[i] = feed[i + 1]
  BY <1>1
<1>3. <<session, Head(feed)[1]>> \in Published
  BY <1>1, <1>2 DEF Fed
<1>4. Head(feed)[2] \in BOOLEAN
  BY <1>2
<1>5. session # 0
  <2>1. <<session, Head(feed)[1]>> \in Key
    BY <1>3 DEF Published
  <2>2. session \in 1..Instances
    BY <2>1 DEF Key
  <2> QED BY <2>2
<1>6. ASSUME NEW i \in 1..Len(Tail(feed)) PROVE <<session, Tail(feed)[i][1]>> \in Fed
  <2>1. i + 1 \in 1..Len(feed) /\ Tail(feed)[i] = feed[i + 1]
    BY <1>2
  <2> QED BY <2>1 DEF Fed
<1> QED BY <1>2, <1>3, <1>4, <1>5, <1>6

LEMMA OnEventPreserves ==
  ASSUME DeliveryInv, OnEvent
  PROVE  Preserved
<1> DEFINE key == <<session, Head(feed)[1]>>
           needs == Head(feed)[2]
           t == OnResult(q, key, needs)
<1>1. /\ phase = "up" /\ feed # <<>> /\ feed' = Tail(feed) /\ Apply(t) /\ inst' = inst /\ tracker' = tracker
      /\ holder' = holder /\ phase' = phase /\ session' = session /\ listing' = listing /\ landed' = landed
  BY DEF OnEvent, daemon
<1>2. /\ key \in Published /\ needs \in BOOLEAN /\ session # 0 /\ Tail(feed) \in Seq((1..Results) \X BOOLEAN)
      /\ {<<session, Tail(feed)[i][1]>> : i \in 1..Len(Tail(feed))} \subseteq Fed
  BY <1>1, FedFirst
<1>3. key[1] = session
  OBVIOUS
<1> HIDE DEF key, needs
<1>4. key \in Key /\ key[1] = q.instance /\ Good(q)
  BY <1>2, <1>3 DEF Published, DeliveryInv, AllPublished, Quiet
<1>5. Proper(q, t, {key}, {})
  BY <1>2, <1>4, OnResultHandles
<1> HIDE DEF t
<1>6. /\ Stepped({key}) /\ running' \in [Key -> Nat] /\ q'.unsynced = t.unsynced /\ q'.instance = t.instance
  BY <1>1, <1>5, NewsSteps DEF Proper
<1>7. q'.unsynced \subseteq q.unsynced /\ q'.instance = session'
  BY <1>1, <1>5, <1>6 DEF Proper, DeliveryInv, AllPublished
<1>8. Fed' \subseteq Published
  <2>1. Fed' \subseteq Fed
    BY <1>1, <1>2 DEF Fed
  <2> QED BY <2>1 DEF DeliveryInv, AllPublished
<1>9. session' \in Nat /\ session' <= inst /\ holder' \in BOOLEAN
  BY <1>1 DEF DeliveryInv, DaemonTypes, LinkTypes, AllPublished
<1>10. q.unsynced \cap Unacked = {}
  BY <1>1, <1>2 DEF DeliveryInv, Synced
<1>11. HandlerLink({key})
  BY <1>1, <1>2, <1>6, <1>7, <1>8, <1>9, <1>10 DEF HandlerLink
<1> QED BY <1>6, <1>11, HandlerPreserves DEF Preserved

LEMMA UnackedAre ==
  ASSUME DeliveryInv
  PROVE  Unacked \in SUBSET Key /\ Unacked \subseteq Published /\ \A k \in Unacked : k[1] = inst
BY DEF Unacked, Published

LEMMA MissEventsPreserves ==
  ASSUME DeliveryInv, MissEvents
  PROVE  Preserved
<1>1. /\ phase = "up" /\ session = inst /\ feed' = <<>> /\ inst' = inst /\ tracker' = tracker
      /\ holder' = holder /\ phase' = phase /\ session' = session /\ listing' = listing /\ landed' = landed
  BY DEF MissEvents, daemon
<1>2. PICK stale \in SUBSET Unacked : Apply(OnUnacked(q, inst, Unacked, stale))
  BY DEF MissEvents
<1>3. inst \in 1..Instances /\ session # 0 /\ Good(q) /\ q.instance = session
  BY <1>1 DEF DeliveryInv, DaemonTypes, Quiet, AllPublished
<1>4. q.unsynced \cap Unacked = {}
  BY <1>1, <1>3 DEF DeliveryInv, Synced
<1> DEFINE t == OnUnacked(q, inst, Unacked, stale)
<1>5. Proper(q, t, Unacked, {})
  <2>1. \A k \in Unacked \cap q.unsynced : k \in ToSet(q.pending) \/ q.acked[k] # "none"
    BY <1>4
  <2> QED BY <1>3, <2>1, UnackedAre, OnUnackedHandles
<1>6. Apply(t)
  BY <1>2
<1> HIDE DEF t
<1>7. /\ Stepped(Unacked) /\ running' \in [Key -> Nat] /\ q'.unsynced = t.unsynced /\ q'.instance = t.instance
  BY <1>1, <1>5, <1>6, NewsSteps DEF Proper
<1>8. q'.unsynced \subseteq q.unsynced /\ q'.instance = session'
  BY <1>1, <1>3, <1>5, <1>7 DEF Proper
<1>9. Fed' \subseteq Published
  BY <1>1 DEF Fed
<1>10. session' \in Nat /\ session' <= inst /\ holder' \in BOOLEAN /\ feed' \in Seq((1..Results) \X BOOLEAN)
  BY <1>1, <1>3 DEF DeliveryInv, DaemonTypes
<1>11. HandlerLink(Unacked)
  BY <1>1, <1>3, <1>4, <1>7, <1>8, <1>9, <1>10, UnackedAre DEF HandlerLink
<1> QED BY <1>7, <1>11, HandlerPreserves DEF Preserved

LEMMA ReconcilePreserves ==
  ASSUME DeliveryInv, Reconcile
  PROVE  Preserved
<1>1. /\ phase = "up" /\ listing # <<>> /\ listing' = <<>> /\ inst' = inst /\ tracker' = tracker
      /\ holder' = holder /\ phase' = phase /\ session' = session /\ feed' = feed /\ landed' = landed
  BY DEF Reconcile, daemon
<1> DEFINE i == listing[1].instance
           unacked == listing[1].unacked
<1>2. PICK stale \in SUBSET unacked : Apply(OnUnacked(q, i, unacked, stale))
  BY DEF Reconcile
<1>3. i \in 1..Instances /\ unacked \in SUBSET Key /\ 1 \in 1..Len(listing)
  <2>1. listing \in Seq(Listing)
    BY DEF DeliveryInv, LinkTypes
  <2>2. 1 \in 1..Len(listing) /\ listing[1] \in Listing
    BY <1>1, <2>1
  <2> QED BY <2>2 DEF Listing
<1>4. session # 0 /\ Good(q) /\ q.instance = session /\ session <= inst
  BY <1>1 DEF DeliveryInv, Quiet, AllPublished, Synced
<1>5. unacked \subseteq Fetched
  BY <1>3 DEF Fetched
<1>6. unacked \subseteq Published /\ unacked \cap q.unsynced = {} /\ \A k \in unacked : k[1] = i
  BY <1>1, <1>3, <1>5 DEF DeliveryInv, AllPublished, Synced
<1> HIDE DEF i, unacked
<1> DEFINE t == OnUnacked(q, i, unacked, stale)
<1>7. Proper(q, t, unacked, {})
  <2>1. \A k \in unacked \cap q.unsynced : k \in ToSet(q.pending) \/ q.acked[k] # "none"
    BY <1>6
  <2> QED BY <1>3, <1>4, <1>6, <2>1, OnUnackedHandles
<1>8. Apply(t)
  BY <1>2
<1> HIDE DEF t
<1>9. /\ Stepped(unacked) /\ running' \in [Key -> Nat] /\ q'.unsynced = t.unsynced /\ q'.instance = t.instance
  BY <1>1, <1>7, <1>8, NewsSteps DEF Proper
<1>10. q'.unsynced \subseteq q.unsynced /\ q'.instance = session'
  BY <1>1, <1>4, <1>7, <1>9 DEF Proper
<1>11. Fed' \subseteq Published
  BY <1>1 DEF Fed, DeliveryInv, AllPublished
<1>12. session' \in Nat /\ session' <= inst /\ holder' \in BOOLEAN /\ feed' \in Seq((1..Results) \X BOOLEAN)
  BY <1>1, <1>4 DEF DeliveryInv, DaemonTypes, LinkTypes
<1>13. q.unsynced \cap Unacked = {}
  BY <1>1, <1>4 DEF DeliveryInv, Synced
<1>14. HandlerLink(unacked)
  BY <1>1, <1>4, <1>6, <1>9, <1>10, <1>11, <1>12, <1>13 DEF HandlerLink
<1> QED BY <1>9, <1>14, HandlerPreserves DEF Preserved

\* A registration: the queue turns to the daemon's instance, then takes its listing.
LEMMA RegisterPreserves ==
  ASSUME DeliveryInv, Register
  PROVE  Preserved
<1>1. /\ phase = "up" /\ session' = inst /\ feed' = <<>> /\ holder' = TRUE /\ inst' = inst /\ tracker' = tracker
      /\ phase' = phase /\ listing' = listing /\ landed' = landed
  BY DEF Register
<1> DEFINE s == SetInstance(q, inst)
<1>2. PICK stale \in SUBSET Unacked : Apply(OnUnacked(s, inst, Unacked, stale))
  BY DEF Register
<1>3. inst \in 1..Instances /\ inst # 0 /\ Good(q) /\ q.out = {}
  BY DEF DeliveryInv, DaemonTypes, Quiet
<1>4. InstanceSet(q, s, inst)
  BY <1>3, SetInstanceHandles
<1> HIDE DEF s
<1>5. \A k \in Unacked \cap s.unsynced : k \in ToSet(s.pending) \/ s.acked[k] # "none"
  <2>1. s.unsynced = q.unsynced /\ s.acked = q.acked /\ (AutoKeys(q) = {} => s.pending = q.pending)
    BY <1>4 DEF InstanceSet
  <2>2. CASE session = 0
    BY <1>1, <2>1, <2>2 DEF DeliveryInv, Synced
  <2>3. CASE session # 0
    BY <1>1, <2>1, <2>3 DEF DeliveryInv, Synced
  <2> QED BY <2>2, <2>3
<1> DEFINE t == OnUnacked(s, inst, Unacked, stale)
<1>6. Good(s) /\ s.instance = inst
  BY <1>4 DEF InstanceSet
<1>7. Proper(s, t, Unacked, {}) /\ t.unsynced \cap Unacked = {}
  BY <1>3, <1>5, <1>6, UnackedAre, OnUnackedHandles
<1>8. Apply(t)
  BY <1>2
<1> HIDE DEF t
<1>9. Handled(q, t, Unacked, {})
  <2>1. /\ q \in Queues /\ s \in Queues /\ t \in Queues /\ Handled(q, s, {}, {}) /\ Handled(s, t, Unacked, {})
        /\ AutoKeys(q) \subseteq AutoKeys(s) \cup Safe(s, {})
    BY <1>3, <1>4, <1>7 DEF InstanceSet, Proper, Good
  <2> QED BY <2>1, HandledTwice
<1>10. Good(t) /\ Outs(q, t)
  BY <1>4, <1>7 DEF InstanceSet, Proper, Outs
<1>11. /\ Stepped(Unacked) /\ running' \in [Key -> Nat] /\ q'.unsynced = t.unsynced /\ q'.instance = t.instance
  BY <1>1, <1>8, <1>9, <1>10, NewsSteps
<1>12. q'.unsynced \subseteq q.unsynced /\ q'.instance = session' /\ q'.unsynced \cap Unacked = {}
  BY <1>1, <1>4, <1>6, <1>7, <1>11 DEF Proper, InstanceSet
<1>13. Fed' \subseteq Published
  BY <1>1 DEF Fed
<1>14. /\ session' \in Nat /\ session' <= inst /\ session' # 0 /\ holder' \in BOOLEAN
       /\ feed' \in Seq((1..Results) \X BOOLEAN)
  BY <1>1, <1>3
<1>15. HandlerLink(Unacked)
  BY <1>1, <1>11, <1>12, <1>13, <1>14, UnackedAre DEF HandlerLink
<1> QED BY <1>11, <1>15, HandlerPreserves DEF Preserved

\* The quit leaves what was queued behind, in the list.
LEMMA BeginQuitPreserves ==
  ASSUME DeliveryInv, BeginQuit
  PROVE  Preserved
<1> DEFINE t == AbandonQueue(q)
<1>1. /\ phase = "up" /\ phase' = "quitting" /\ Apply(t) /\ inst' = inst /\ tracker' = tracker
      /\ holder' = holder /\ session' = session /\ feed' = feed /\ listing' = listing /\ landed' = landed
  BY DEF BeginQuit, daemon, link
<1>2. Good(q) /\ q.instance = session
  BY DEF DeliveryInv, Quiet, AllPublished
<1>3. LeftBehind(q, t)
  BY <1>2, AbandonHandles
<1> HIDE DEF t
<1>4. Good(t) /\ Handled(q, t, {}, {}) /\ Outs(q, t) /\ phase # "down"
  BY <1>1, <1>3 DEF LeftBehind, Outs
<1>5. /\ Stepped({}) /\ running' \in [Key -> Nat] /\ q'.unsynced = t.unsynced /\ q'.instance = t.instance
  BY <1>1, <1>4, NewsSteps
<1>6. q'.unsynced \subseteq q.unsynced \cup AutoKeys(q) /\ q'.instance = session
  BY <1>2, <1>3, <1>5 DEF LeftBehind
<1>7. AutoKeys(q') = {}
  <2>1. Handler(t, {}, {})
    <3>1. Effects(t)
      BY <1>1, <1>4, Applies
    <3> QED BY <1>1, <1>4, <3>1 DEF Handler
  <2>2. AutoKeys(q') = AutoKeys(t)
    BY <2>1, EffectsDone
  <2> QED BY <1>3, <2>2 DEF LeftBehind
<1>8. Published' = Published /\ Fed' = Fed /\ Fetched' = Fetched
  BY <1>1 DEF Published, Fed, Fetched
<1>9. DaemonTypes' /\ LinkTypes' /\ StoreTypes'
  BY <1>1, <1>5 DEF DeliveryInv, DaemonTypes, LinkTypes, StoreTypes, Stepped
<1>10. Quiet' /\ Settled' /\ Saved'
  BY <1>5, SavedStays DEF DeliveryInv, Stepped
<1>11. AllPublished'
  <2>1. /\ Named \subseteq Published /\ {} \subseteq Published /\ Published \subseteq Published' /\ Saved
        /\ phase # "down"
    BY <1>1, <1>8 DEF DeliveryInv, AllPublished
  <2>2. Named' \subseteq Published'
    BY <1>5, <1>6, <2>1, NamedStays
  <2> QED BY <1>1, <1>6, <1>8, <2>2 DEF DeliveryInv, AllPublished
<1>12. Synced' /\ Phases' /\ DeliveredHasLanded'
  BY <1>1, <1>7 DEF DeliveryInv, Synced, Phases, DeliveredHasLanded
<1>13. StepKeeps
  BY <1>1, <1>5, HandlerKeeps DEF DeliveryInv
<1> QED BY <1>9, <1>10, <1>11, <1>12, <1>13 DEF Preserved, DeliveryInv

-----------------------------------------------------------------------------
(* The daemon's actions, and those of the companion's other threads.        *)

\* The queue and the store stay as they are, and no published result is forgotten.
LEMMA SameQueue ==
  ASSUME DeliveryInv, UNCHANGED <<q, landed, gone, store, phase>>, acks' \subseteq acks, running' = running,
         Published \subseteq Published'
  PROVE  /\ StoreTypes' /\ Quiet' /\ Saved' /\ Settled' /\ Named' \subseteq Published' /\ Named' = Named
<1>1. writer' = writer /\ disk' = disk /\ q' = q /\ landed' = landed /\ gone' = gone /\ phase' = phase
  BY DEF store
<1>2. StoreTypes' /\ Quiet'
  BY <1>1 DEF DeliveryInv, StoreTypes, Quiet
<1>3. Lists' = Lists /\ LastSaved' = LastSaved
  BY <1>1 DEF Lists, LastSaved
<1>4. Saved'
  BY <1>1, <1>3 DEF DeliveryInv, Saved
<1>5. Placed' = Placed
  BY <1>1 DEF Placed
<1>6. Settled'
  BY <1>1, <1>5 DEF DeliveryInv, Settled
<1>7. Filed' = Filed
  BY <1>3 DEF Filed
<1>8. Named' = Named
  BY <1>1, <1>7 DEF Named
<1>9. Named \subseteq Published
  BY DEF DeliveryInv, AllPublished
<1> QED BY <1>2, <1>4, <1>6, <1>8, <1>9

\* No text is lost while the queue and the store stay, and the daemon forgets nothing.
LEMMA SameQueueKeeps ==
  ASSUME UNCHANGED <<q, landed, gone, store, phase>>, Unacked \subseteq Unacked'
  PROVE  StepKeeps
<1>1. disk' = disk /\ q' = q /\ landed' = landed /\ phase' = phase
  BY DEF store
<1> QED BY <1>1 DEF StepKeeps, Kept

LEMMA PublishPreserves ==
  ASSUME DeliveryInv, Publish
  PROVE  Preserved
<1> DEFINE n == Len(tracker) + 1
           status == IF holder THEN "pending" ELSE "daemon"
           key == <<inst, n>>
<1>1. /\ Len(tracker) < Results /\ tracker' = Append(tracker, status)
      /\ feed' = IF session = inst THEN Append(feed, <<n, holder>>) ELSE feed
      /\ inst' = inst /\ holder' = holder /\ phase' = phase /\ session' = session /\ listing' = listing
      /\ q' = q /\ acks' = acks /\ running' = running /\ landed' = landed /\ gone' = gone
      /\ UNCHANGED <<q, landed, gone, store, phase>>
  BY DEF Publish
<1>2. /\ inst \in 1..Instances /\ tracker \in Seq(AckStatus \cup {"pending", "daemon"}) /\ Len(tracker) \in Nat
      /\ holder \in BOOLEAN /\ feed \in Seq((1..Results) \X BOOLEAN)
  BY DEF DeliveryInv, DaemonTypes, LinkTypes
<1>3. Results \in Nat /\ n \in 1..Results
  <2>1. Results \in Nat
    BY DeliveryAssumption
  <2> QED BY <1>1, <1>2, <2>1
<1>4. status \in {"pending", "daemon"}
  OBVIOUS
<1>5. status \in AckStatus \cup {"pending", "daemon"}
  BY <1>4
<1> HIDE DEF status
<1>6. /\ tracker' \in Seq(AckStatus \cup {"pending", "daemon"}) /\ Len(tracker') = n
      /\ DOMAIN tracker' = 1..n /\ DOMAIN tracker = 1..Len(tracker)
      /\ tracker'[n] = status /\ \A i \in 1..Len(tracker) : tracker'[i] = tracker[i]
  BY <1>1, <1>2, <1>5
<1>7. DaemonTypes'
  BY <1>1, <1>2, <1>3, <1>6 DEF DaemonTypes
<1>8. feed' \in Seq((1..Results) \X BOOLEAN)
  <2>1. <<n, holder>> \in (1..Results) \X BOOLEAN
    BY <1>2, <1>3
  <2> HIDE DEF n
  <2>2. CASE session = inst
    BY <1>1, <1>2, <2>1, <2>2
  <2>3. CASE session # inst
    BY <1>1, <1>2, <2>3
  <2> QED BY <2>2, <2>3
<1>9. LinkTypes'
  BY <1>1, <1>8 DEF DeliveryInv, LinkTypes
<1>10. 1..Len(tracker) \subseteq 1..n /\ n \in 1..n /\ n \notin 1..Len(tracker)
       /\ \A i \in 1..n : i \in 1..Len(tracker) \/ i = n
  BY <1>2
<1> HIDE DEF n
<1>11. key \in Key /\ key[1] = inst /\ key[2] = n
  BY <1>2, <1>3 DEF Key
<1>12. Published \subseteq Published' /\ key \in Published' /\ key \notin Published
  BY <1>1, <1>2, <1>6, <1>10, <1>11 DEF Published
<1>13. \A k \in Unacked' : k \in Unacked \/ k = key
  <2>1. SUFFICES ASSUME NEW k \in Unacked', k \notin Unacked PROVE k = key
    OBVIOUS
  <2>2. k \in Key /\ k[1] = inst /\ k[2] \in 1..n /\ tracker'[k[2]] = "pending"
    BY <1>1, <1>6, <2>1 DEF Unacked
  <2>3. k[2] \notin 1..Len(tracker)
    BY <1>6, <2>1, <2>2 DEF Unacked
  <2>4. k[2] = n
    BY <1>10, <2>2, <2>3
  <2> QED BY <2>2, <2>4 DEF Key
<1>14. Unacked \subseteq Unacked'
  BY <1>1, <1>6, <1>10 DEF Unacked
<1> HIDE DEF key
<1>15. StoreTypes' /\ Quiet' /\ Saved' /\ Settled' /\ Named' \subseteq Published' /\ Named' = Named
  BY <1>1, <1>12, SameQueue
<1>16. Fed' \subseteq Published'
  <2>1. Fed \subseteq Published
    BY DEF DeliveryInv, AllPublished
  <2>2. CASE session # inst
    BY <1>1, <1>12, <2>1, <2>2 DEF Fed
  <2>3. CASE session = inst
    <3>1. feed' = Append(feed, <<n, holder>>)
      BY <1>1, <2>3
    <3>2. /\ Len(feed') = Len(feed) + 1 /\ Len(feed) \in Nat /\ feed'[Len(feed) + 1] = <<n, holder>>
          /\ \A i \in 1..Len(feed) : feed'[i] = feed[i]
      BY <1>2, <3>1
    <3>3. \A i \in 1..Len(feed') : i \in 1..Len(feed) \/ i = Len(feed) + 1
      BY <3>2
    <3>4. ASSUME NEW i \in 1..Len(feed') PROVE <<session', feed'[i][1]>> \in Published'
      <4>1. CASE i \in 1..Len(feed)
        BY <1>1, <1>12, <2>1, <3>2, <4>1 DEF Fed
      <4>2. CASE i = Len(feed) + 1
        <5>1. feed'[i][1] = n
          BY <3>2, <4>2
        <5> QED BY <1>1, <1>12, <2>3, <5>1 DEF key
      <4> QED BY <3>3, <4>1, <4>2
    <3> QED BY <3>4 DEF Fed
  <2> QED BY <2>2, <2>3
<1>17. Fetched' = Fetched
  BY <1>1 DEF Fetched
<1>18. AllPublished'
  BY <1>1, <1>12, <1>15, <1>16, <1>17 DEF DeliveryInv, AllPublished
<1>19. Synced'
  <2>1. key \notin q.unsynced
    BY <1>12 DEF DeliveryInv, AllPublished, Named
  <2> QED BY <1>1, <1>13, <1>17, <2>1 DEF DeliveryInv, Synced
<1>20. Phases'
  BY <1>1, <1>15 DEF DeliveryInv, Phases, store
<1>21. DeliveredHasLanded'
  <2>1. ASSUME NEW i \in DOMAIN tracker', tracker'[i] = "delivered" PROVE <<inst', i>> \in landed'
    <3>1. i # n
      BY <1>4, <1>6, <2>1 DEF status
    <3>2. i \in DOMAIN tracker /\ tracker[i] = "delivered"
      BY <1>6, <1>10, <2>1, <3>1
    <3> QED BY <1>1, <3>2 DEF DeliveryInv, DeliveredHasLanded
  <2> QED BY <2>1 DEF DeliveredHasLanded
<1>22. StepKeeps
  BY <1>1, <1>14, SameQueueKeeps
<1> QED BY <1>7, <1>9, <1>15, <1>18, <1>19, <1>20, <1>21, <1>22 DEF Preserved, DeliveryInv

\* Steps that leave what the daemon published and what the poller fetched.
LEMMA SameNews ==
  ASSUME DeliveryInv, UNCHANGED <<inst, tracker, phase, session, feed, listing, q, landed, store, gone>>,
         holder' \in BOOLEAN, acks' \subseteq acks, running' = running
  PROVE  Preserved
<1>1. /\ inst' = inst /\ tracker' = tracker /\ phase' = phase /\ session' = session /\ feed' = feed
      /\ listing' = listing /\ q' = q /\ writer' = writer
  BY DEF store
<1>2. Published' = Published /\ Unacked' = Unacked /\ Fed' = Fed /\ Fetched' = Fetched
  BY <1>1 DEF Published, Unacked, Fed, Fetched
<1>3. StoreTypes' /\ Quiet' /\ Saved' /\ Settled' /\ Named' \subseteq Published' /\ Named' = Named
  BY <1>2, SameQueue
<1>4. DaemonTypes' /\ LinkTypes' /\ DeliveredHasLanded'
  BY <1>1 DEF DeliveryInv, DaemonTypes, LinkTypes, DeliveredHasLanded
<1>5. AllPublished'
  BY <1>1, <1>2, <1>3 DEF DeliveryInv, AllPublished
<1>6. Synced' /\ Phases'
  BY <1>1, <1>2 DEF DeliveryInv, Synced, Phases
<1>7. StepKeeps
  BY <1>2, SameQueueKeeps
<1> QED BY <1>3, <1>4, <1>5, <1>6, <1>7 DEF Preserved, DeliveryInv

LEMMA LeaseEndsPreserves ==
  ASSUME DeliveryInv, LeaseEnds
  PROVE  Preserved
BY SameNews DEF LeaseEnds, link

LEMMA AckDroppedPreserves ==
  ASSUME DeliveryInv, AckDropped
  PROVE  Preserved
<1>1. acks' \subseteq acks
  BY DEF AckDropped
<1>2. /\ UNCHANGED <<inst, tracker, phase, session, feed, listing, q, landed, store, gone>>
      /\ holder' = holder /\ running' = running
  BY DEF AckDropped, daemon, link
<1>3. holder' \in BOOLEAN
  BY <1>2 DEF DeliveryInv, DaemonTypes
<1> QED BY <1>1, <1>2, <1>3, SameNews

LEMMA DaemonRestartsPreserves ==
  ASSUME DeliveryInv, DaemonRestarts
  PROVE  Preserved
<1>1. /\ inst < Instances /\ inst' = inst + 1 /\ tracker' = <<>> /\ holder' = FALSE
      /\ phase' = phase /\ session' = session /\ feed' = feed /\ listing' = listing /\ q' = q /\ acks' = acks
      /\ running' = running /\ landed' = landed /\ writer' = writer
      /\ UNCHANGED <<q, landed, gone, store, phase>>
  BY DEF DaemonRestarts, link, store
<1>2. inst \in 1..Instances /\ Instances \in Nat
  BY DeliveryAssumption DEF DeliveryInv, DaemonTypes
<1>3. DaemonTypes'
  <2>1. inst' \in 1..Instances
    BY <1>1, <1>2
  <2>2. Len(tracker') <= Results
    <3>1. Results \in Nat
      BY DeliveryAssumption
    <3>2. Len(tracker') = 0
      BY <1>1
    <3> QED BY <3>1, <3>2
  <2>3. tracker' \in Seq(AckStatus \cup {"pending", "daemon"})
    BY <1>1
  <2> QED BY <1>1, <2>1, <2>2, <2>3 DEF DaemonTypes
<1>4. Published \subseteq Published'
  <2>1. SUFFICES ASSUME NEW k \in Published PROVE k \in Published'
    OBVIOUS
  <2>2. k \in Key /\ k[1] <= inst /\ k[1] \in Nat
    BY <1>2, <2>1 DEF Published, Key
  <2>3. k[1] < inst'
    BY <1>1, <1>2, <2>2
  <2> QED BY <2>2, <2>3 DEF Published
<1>5. StoreTypes' /\ Quiet' /\ Saved' /\ Settled' /\ Named' \subseteq Published' /\ Named' = Named
  BY <1>1, <1>4, SameQueue
<1>6. Unacked' = {} /\ Fed' = Fed /\ Fetched' = Fetched
  BY <1>1 DEF Unacked, Fed, Fetched
<1>7. session' <= inst'
  BY <1>1, <1>2 DEF DeliveryInv, AllPublished, LinkTypes
<1>8. AllPublished'
  BY <1>1, <1>4, <1>5, <1>6, <1>7 DEF DeliveryInv, AllPublished
<1>9. Synced' /\ Phases' /\ LinkTypes' /\ DeliveredHasLanded'
  BY <1>1, <1>6 DEF DeliveryInv, Synced, Phases, LinkTypes, DeliveredHasLanded
<1>10. StepKeeps
  <2>1. inst' # inst
    BY <1>1, <1>2
  <2> QED BY <2>1 DEF StepKeeps
<1> QED BY <1>3, <1>5, <1>8, <1>9, <1>10 DEF Preserved, DeliveryInv

LEMMA FetchPreserves ==
  ASSUME DeliveryInv, Fetch
  PROVE  Preserved
<1> DEFINE answer == [instance |-> inst, unacked |-> Unacked]
<1>1. /\ phase = "up" /\ session # 0 /\ listing' = <<answer>> /\ inst' = inst /\ tracker' = tracker
      /\ holder' = holder /\ phase' = phase /\ session' = session /\ feed' = feed /\ q' = q /\ acks' = acks
      /\ running' = running /\ landed' = landed /\ UNCHANGED <<q, landed, gone, store, phase>>
  BY DEF Fetch, daemon
<1>2. answer.instance = inst /\ answer.unacked = Unacked /\ answer \in Listing
  BY UnackedAre DEF DeliveryInv, DaemonTypes, Listing
<1> HIDE DEF answer
<1>3. Published' = Published /\ Unacked' = Unacked /\ Fed' = Fed
  BY <1>1 DEF Published, Unacked, Fed
<1>4. StoreTypes' /\ Quiet' /\ Saved' /\ Settled' /\ Named' \subseteq Published' /\ Named' = Named
  BY <1>1, <1>3, SameQueue
<1>5. /\ listing' \in Seq(Listing) /\ Len(listing') = 1 /\ listing'[1] = answer /\ 1..1 = {1}
  BY <1>1, <1>2
<1>6. Fetched' = Unacked
  <2>1. Fetched' = {k \in Key : k \in Unacked}
    BY <1>2, <1>5 DEF Fetched
  <2> QED BY <2>1, UnackedAre
<1>7. \A i \in 1..Len(listing') : \A k \in listing'[i].unacked : k[1] = listing'[i].instance
  BY <1>2, <1>5, UnackedAre
<1>8. DaemonTypes' /\ LinkTypes' /\ DeliveredHasLanded' /\ Phases'
  BY <1>1, <1>5 DEF DeliveryInv, DaemonTypes, LinkTypes, DeliveredHasLanded, Phases
<1>9. AllPublished'
  BY <1>1, <1>3, <1>4, <1>6, <1>7, UnackedAre DEF DeliveryInv, AllPublished
<1>10. Synced'
  BY <1>1, <1>3, <1>6 DEF DeliveryInv, Synced
<1>11. StepKeeps
  BY <1>1, <1>3, SameQueueKeeps
<1> QED BY <1>4, <1>8, <1>9, <1>10, <1>11 DEF Preserved, DeliveryInv

\* One element changed.
Change(s, n, x) == [s EXCEPT ![n] = x]
Changed(S, s, n, x, t) ==
  /\ t \in Seq(S) /\ Len(t) = Len(s) /\ DOMAIN t = DOMAIN s
  /\ \A i \in DOMAIN s : t[i] = IF i = n THEN x ELSE s[i]

LEMMA ChangedAt ==
  ASSUME NEW S, NEW s \in Seq(S), NEW n, NEW x \in S
  PROVE  Changed(S, s, n, x, Change(s, n, x))
<1> DEFINE t == Change(s, n, x)
<1>1. s \in [1..Len(s) -> S] /\ DOMAIN s = 1..Len(s) /\ Len(s) \in Nat
  OBVIOUS
<1>0. t = [s EXCEPT ![n] = x]
  BY DEF Change
<1> HIDE DEF t
<1>2. DOMAIN t = DOMAIN s /\ \A i \in DOMAIN s : t[i] = IF i = n THEN x ELSE s[i]
  BY <1>0, <1>1
<1>3. t = [i \in 1..Len(s) |-> t[i]] /\ \A i \in 1..Len(s) : t[i] \in S
  <2>1. t = [i \in DOMAIN s |-> IF i = n THEN x ELSE s[i]]
    BY <1>0, <1>1
  <2>2. \A i \in 1..Len(s) : t[i] \in S
    BY <1>1, <1>2
  <2> QED BY <1>1, <2>1, <2>2
<1>4. t \in Seq(S)
  <2> DEFINE m == Len(s)
             f == [i \in 1..m |-> t[i]]
  <2>1. m \in Nat /\ t = f /\ \A i \in 1..m : t[i] \in S
    BY <1>1, <1>3
  <2> HIDE DEF m
  <2>2. f \in Seq(S)
    BY <2>1
  <2> QED BY <2>1, <2>2
<1>5. Len(t) = Len(s)
  BY <1>1, <1>2, <1>4
<1> QED BY <1>2, <1>4, <1>5 DEF Changed, t

\* An acknowledgement arrives: what it says of the text is so.
LEMMA AckArrivesPreserves ==
  ASSUME DeliveryInv, AckArrives
  PROVE  Preserved
<1>1. PICK a \in acks :
        /\ acks' = acks \ {a}
        /\ tracker' = IF a.key[1] = inst THEN [tracker EXCEPT ![a.key[2]] = a.status] ELSE tracker
  BY DEF AckArrives
<1>2. /\ inst' = inst /\ holder' = holder /\ phase' = phase /\ session' = session /\ feed' = feed
      /\ listing' = listing /\ q' = q /\ running' = running /\ landed' = landed /\ gone' = gone /\ disk' = disk
      /\ writer' = writer /\ UNCHANGED <<q, landed, gone, store, phase>> /\ acks' \subseteq acks
  BY <1>1 DEF AckArrives, link, store
<1>3. /\ a.key \in Key /\ a.status \in AckStatus /\ (a.status = "delivered" => a.key \in landed)
      /\ a.key \in Placed
  BY DEF DeliveryInv, StoreTypes, Settled, Ack
<1>4. tracker \in Seq(AckStatus \cup {"pending", "daemon"}) /\ Len(tracker) <= Results
  BY DEF DeliveryInv, DaemonTypes
<1>5. /\ tracker' \in Seq(AckStatus \cup {"pending", "daemon"}) /\ Len(tracker') = Len(tracker)
      /\ DOMAIN tracker' = DOMAIN tracker
      /\ \A i \in DOMAIN tracker : tracker'[i] = tracker[i] \/ (<<inst, i>> = a.key /\ tracker'[i] = a.status)
  <2>1. CASE a.key[1] # inst
    BY <1>1, <1>4, <2>1
  <2>2. CASE a.key[1] = inst
    <3> DEFINE n == a.key[2]
    <3>1. a.key = <<inst, n>>
      BY <1>3, <2>2 DEF Key
    <3> HIDE DEF n
    <3>2. tracker' = [tracker EXCEPT ![n] = a.status]
      BY <1>1, <2>2 DEF n
    <3>3. a.status \in AckStatus \cup {"pending", "daemon"}
      BY <1>3
    <3> DEFINE S == AckStatus \cup {"pending", "daemon"}
    <3>4. tracker \in Seq(S) /\ a.status \in S
      BY <1>4, <3>3
    <3> HIDE DEF S
    <3>5. Changed(S, tracker, n, a.status, Change(tracker, n, a.status))
      BY <3>4, ChangedAt
    <3>6. Changed(S, tracker, n, a.status, tracker')
      BY <3>2, <3>5 DEF Change
    <3> QED BY <3>1, <3>6 DEF Changed, S
  <2> QED BY <2>1, <2>2
<1>6. Published' = Published
  BY <1>2, <1>5 DEF Published
<1>7. "pending" \notin AckStatus
  BY DEF AckStatus
<1>8. Unacked' \subseteq Unacked
  BY <1>2, <1>3, <1>5, <1>7 DEF Unacked
<1>9. \A k \in Unacked : k \in Unacked' \/ k = a.key
  <2>1. SUFFICES ASSUME NEW k \in Unacked, k \notin Unacked' PROVE k = a.key
    OBVIOUS
  <2>2. k \in Key /\ k[1] = inst /\ k[2] \in DOMAIN tracker /\ tracker[k[2]] = "pending"
    BY <2>1 DEF Unacked
  <2>3. tracker'[k[2]] # "pending"
    BY <1>2, <1>5, <2>1, <2>2 DEF Unacked
  <2>4. <<inst, k[2]>> = a.key
    BY <1>5, <2>2, <2>3
  <2> QED BY <2>2, <2>4 DEF Key
<1>10. StoreTypes' /\ Quiet' /\ Saved' /\ Settled' /\ Named' \subseteq Published' /\ Named' = Named
  BY <1>2, <1>6, SameQueue
<1>11. DaemonTypes' /\ LinkTypes'
  BY <1>2, <1>5 DEF DeliveryInv, DaemonTypes, LinkTypes
<1>12. Fed' = Fed /\ Fetched' = Fetched
  BY <1>2 DEF Fed, Fetched
<1>13. AllPublished'
  BY <1>2, <1>6, <1>10, <1>12 DEF DeliveryInv, AllPublished
<1>14. Synced'
  BY <1>2, <1>8, <1>12 DEF DeliveryInv, Synced
<1>15. Phases'
  BY <1>2 DEF DeliveryInv, Phases
<1>16. DeliveredHasLanded'
  <2>1. ASSUME NEW i \in DOMAIN tracker', tracker'[i] = "delivered" PROVE <<inst', i>> \in landed'
    <3>1. i \in DOMAIN tracker
      BY <1>5, <2>1
    <3>2. CASE tracker'[i] = tracker[i]
      BY <1>2, <2>1, <3>1, <3>2 DEF DeliveryInv, DeliveredHasLanded
    <3>3. CASE <<inst, i>> = a.key /\ tracker'[i] = a.status
      BY <1>2, <1>3, <2>1, <3>3
    <3> QED BY <1>5, <3>1, <3>2, <3>3
  <2> QED BY <2>1 DEF DeliveredHasLanded
<1>17. StepKeeps
  <2>1. SUFFICES ASSUME NEW k \in Key, Kept(k), ~Kept(k)' PROVE k \in gone'
    BY DEF StepKeeps
  <2>2. k \in Unacked /\ k \notin Unacked' /\ k \notin landed
    BY <1>2, <2>1 DEF Kept
  <2>3. k = a.key
    BY <1>9, <2>2
  <2>4. phase # "down"
    BY DEF DeliveryInv, Phases
  <2>5. k \notin ToSet(q.pending)
    <3>1. q \in Queues
      BY DEF DeliveryInv, Quiet, Good
    <3> QED BY <1>2, <2>1, <2>4, <3>1, InList DEF Kept
  <2> QED BY <1>2, <1>3, <2>2, <2>3, <2>5 DEF Placed
<1> QED BY <1>10, <1>11, <1>13, <1>14, <1>15, <1>16, <1>17 DEF Preserved, DeliveryInv

LEMMA WriterSavesPreserves ==
  ASSUME DeliveryInv, WriterSaves
  PROVE  Preserved
<1>1. /\ writer # <<>> /\ disk' = Head(writer) /\ writer' = Tail(writer) /\ inst' = inst /\ tracker' = tracker
      /\ holder' = holder /\ phase' = phase /\ session' = session /\ feed' = feed /\ listing' = listing
      /\ q' = q /\ acks' = acks /\ running' = running /\ landed' = landed /\ gone' = gone
  BY DEF WriterSaves, daemon, link
<1>2. writer \in Seq(Seq(Key)) /\ phase # "down"
  BY <1>1 DEF DeliveryInv, StoreTypes, Phases
<1>3. /\ Len(writer) \in Nat /\ Len(writer) >= 1 /\ Head(writer) = writer[1] /\ Head(writer) \in Seq(Key)
      /\ Tail(writer) \in Seq(Seq(Key)) /\ Len(Tail(writer)) = Len(writer) - 1
      /\ \A i \in 1..Len(writer) - 1 : Tail(writer)[i] = writer[i + 1]
  BY <1>1, <1>2
<1>4. writer' \in Seq(Seq(Key)) /\ disk' \in Seq(Key)
  BY <1>1, <1>3
<1>5. Lists' \subseteq Lists
  <2>1. disk' \in Lists
    BY <1>1, <1>3 DEF Lists
  <2>2. ASSUME NEW i \in 1..Len(writer') PROVE writer'[i] \in Lists
    <3>1. writer'[i] = writer[i + 1] /\ i + 1 \in 1..Len(writer)
      BY <1>1, <1>3
    <3> QED BY <3>1 DEF Lists
  <2> QED BY <2>1, <2>2 DEF Lists
<1>6. LastSaved' = LastSaved
  <2>1. CASE Len(writer) = 1
    <3>1. writer' = <<>>
      BY <1>1, <1>3, <1>4, <2>1
    <3> QED BY <1>1, <1>3, <2>1, <3>1 DEF LastSaved
  <2>2. CASE Len(writer) # 1
    <3> DEFINE m == Len(writer) - 1
    <3>1. m \in Nat /\ m >= 1 /\ m + 1 = Len(writer)
      BY <1>3, <2>2
    <3>2. Len(writer') = m
      BY <1>1, <1>3
    <3>3. writer'[m] = writer[m + 1]
      BY <1>1, <1>3, <3>1
    <3>4. writer' # <<>>
      BY <3>1, <3>2
    <3> HIDE DEF m
    <3> QED BY <1>1, <3>1, <3>2, <3>3, <3>4 DEF LastSaved
  <2> QED BY <2>1, <2>2
<1>7. Published' = Published /\ Unacked' = Unacked /\ Fed' = Fed /\ Fetched' = Fetched
  BY <1>1 DEF Published, Unacked, Fed, Fetched
<1>8. StoreTypes' /\ DaemonTypes' /\ LinkTypes' /\ Quiet' /\ DeliveredHasLanded'
  BY <1>1, <1>4 DEF DeliveryInv, StoreTypes, DaemonTypes, LinkTypes, Quiet, DeliveredHasLanded
<1>9. Saved'
  BY <1>1, <1>5, <1>6 DEF DeliveryInv, Saved
<1>10. Settled'
  BY <1>1 DEF DeliveryInv, Settled, Placed
<1>11. Named' \subseteq Named
  <2>1. Filed' \subseteq Filed
    BY <1>5 DEF Filed
  <2> QED BY <1>1, <2>1 DEF Named
<1>12. AllPublished'
  BY <1>1, <1>7, <1>11 DEF DeliveryInv, AllPublished
<1>13. Synced'
  BY <1>1, <1>7 DEF DeliveryInv, Synced
<1>14. Phases'
  BY <1>1, <1>2 DEF DeliveryInv, Phases
<1>15. StepKeeps
  BY <1>1, <1>2, <1>7 DEF StepKeeps, Kept
<1> QED BY <1>8, <1>9, <1>10, <1>12, <1>13, <1>14, <1>15 DEF Preserved, DeliveryInv

-----------------------------------------------------------------------------
(* A run's end and the next one's start.                                    *)

LEMMA EmptyIs ==
  /\ Good(EmptyQueue) /\ AutoKeys(EmptyQueue) = {} /\ EmptyQueue.pending = <<>> /\ EmptyQueue.unsynced = {}
  /\ EmptyQueue.out = {} /\ EmptyQueue.begun = {} /\ EmptyQueue.shed = {} /\ EmptyQueue.instance = 0
  /\ \A k \in Key : EmptyQueue.acked[k] = "none"
<1>1. /\ EmptyQueue.instance = 0 /\ EmptyQueue.queue = <<>> /\ EmptyQueue.flight = <<>>
      /\ EmptyQueue.acked = [k \in Key |-> "none"] /\ EmptyQueue.recent = <<>> /\ EmptyQueue.pending = <<>>
      /\ EmptyQueue.unsynced = {} /\ EmptyQueue.suspect = {} /\ EmptyQueue.out = {} /\ EmptyQueue.begun = {}
      /\ EmptyQueue.shed = {}
  BY DEF EmptyQueue
<1>2. EmptyQueue \in QueueRec
  <2>1. 0 \in 0..Instances
    BY DeliveryAssumption
  <2>2. [k \in Key |-> "none"] \in [Key -> AckStatus \cup {"none"}]
    OBVIOUS
  <2>3. <<>> \in Seq(Entry) /\ <<>> \in Seq(Key)
    OBVIOUS
  <2> QED BY <2>1, <2>2, <2>3 DEF EmptyQueue, QueueRec
<1>3. Len(<<>>) <= 1 /\ Len(<<>>) <= PendingLimit /\ IsFiniteSet({})
  <2>1. PendingLimit \in Nat
    BY DeliveryAssumption
  <2>2. Len(<<>>) = 0
    OBVIOUS
  <2> QED BY <2>1, <2>2, FS_EmptySet
<1>4. EmptyQueue \in Queues
  BY <1>1, <1>2, <1>3 DEF Queues
<1>5. Good(EmptyQueue) /\ AutoKeys(EmptyQueue) = {}
  BY <1>1, <1>4, UnusedGood
<1> QED BY <1>1, <1>5

LEMMA NothingListed == ToSet(<<>>) = {}
<1>1. DOMAIN <<>> = {}
  OBVIOUS
<1> QED BY <1>1 DEF ToSet

LEMMA InitEstablishes ==
  ASSUME Init
  PROVE  DeliveryInv
<1>1. /\ inst = 1 /\ tracker = <<>> /\ holder = FALSE /\ phase = "up" /\ session = 0 /\ feed = <<>>
      /\ listing = <<>> /\ q = EmptyQueue /\ acks = {} /\ running = [k \in Key |-> 0] /\ landed = {}
      /\ writer = <<>> /\ disk = <<>> /\ gone = {}
  BY DEF Init
<1>2. Instances \in Nat \ {0} /\ Results \in Nat /\ PendingLimit \in Nat
  BY DeliveryAssumption
<1>3. inst \in 1..Instances /\ session \in 0..Instances
  BY <1>1, <1>2
<1>4. Len(<<>>) = 0 /\ DOMAIN <<>> = {} /\ 1..0 = {}
  OBVIOUS
<1>5. DaemonTypes
  <2>1. tracker \in Seq(AckStatus \cup {"pending", "daemon"})
    BY <1>1
  <2>2. Len(tracker) <= Results
    <3>1. Len(tracker) = 0
      BY <1>1
    <3> QED BY <1>2, <3>1
  <2>3. holder \in BOOLEAN
    BY <1>1
  <2> QED BY <1>3, <2>1, <2>2, <2>3 DEF DaemonTypes
<1>6. LinkTypes
  <2>1. feed \in Seq((1..Results) \X BOOLEAN) /\ listing \in Seq(Listing)
    BY <1>1
  <2> QED BY <1>1, <1>3, <2>1 DEF LinkTypes
<1>7. StoreTypes
  <2>1. writer \in Seq(Seq(Key)) /\ disk \in Seq(Key)
    BY <1>1
  <2>2. running \in [Key -> Nat]
    BY <1>1
  <2> QED BY <1>1, <2>1, <2>2 DEF StoreTypes
<1>8. Quiet
  BY <1>1, EmptyIs DEF Quiet
<1>9. Lists = {<<>>} /\ LastSaved = <<>>
  BY <1>1, <1>4 DEF Lists, LastSaved
<1>10. Fed = {} /\ Fetched = {} /\ Filed = {}
  BY <1>1, <1>4, <1>9, NothingListed DEF Fed, Fetched, Filed
<1>11. Named = {}
  BY <1>1, <1>10, EmptyIs, NothingListed DEF Named
<1>12. AllPublished
  <2>1. \A i \in 1..Len(listing) : \A k \in listing[i].unacked : k[1] = listing[i].instance
    BY <1>1, <1>4
  <2> QED BY <1>1, <1>10, <1>11, <2>1, EmptyIs DEF AllPublished
<1>13. Synced
  BY <1>1, <1>10, EmptyIs DEF Synced
<1>14. Settled
  BY <1>1, EmptyIs DEF Settled
<1>15. Saved
  BY <1>1, <1>2, <1>4, <1>9, EmptyIs DEF Saved
<1>16. Phases /\ DeliveredHasLanded
  BY <1>1, <1>4 DEF Phases, DeliveredHasLanded
<1> QED BY <1>5, <1>6, <1>7, <1>8, <1>12, <1>13, <1>14, <1>15, <1>16 DEF DeliveryInv

\* The process is gone: what is left are the daemon and the file.
LEMMA EndedPreserves ==
  ASSUME DeliveryInv, Ended, UNCHANGED <<inst, tracker, landed, disk, gone>>, holder' \in BOOLEAN
  PROVE  DeliveryInv'
<1>1. /\ phase' = "down" /\ session' = 0 /\ feed' = <<>> /\ listing' = <<>> /\ q' = EmptyQueue /\ acks' = {}
      /\ running' = [k \in Key |-> 0] /\ writer' = <<>> /\ inst' = inst /\ tracker' = tracker
      /\ landed' = landed /\ disk' = disk /\ gone' = gone
  BY DEF Ended
<1>2. Len(<<>>) = 0 /\ 1..0 = {}
  OBVIOUS
<1>3. DaemonTypes' /\ DeliveredHasLanded'
  BY <1>1 DEF DeliveryInv, DaemonTypes, DeliveredHasLanded
<1>4. LinkTypes'
  <2>1. feed' \in Seq((1..Results) \X BOOLEAN) /\ listing' \in Seq(Listing)
    BY <1>1
  <2>2. session' \in 0..Instances
    BY <1>1, DeliveryAssumption
  <2> QED BY <1>1, <2>1, <2>2 DEF LinkTypes
<1>5. StoreTypes'
  <2>1. writer' \in Seq(Seq(Key)) /\ running' \in [Key -> Nat]
    BY <1>1
  <2> QED BY <1>1, <2>1 DEF DeliveryInv, StoreTypes
<1>6. Quiet'
  BY <1>1, EmptyIs DEF Quiet
<1>7. Lists' = {disk} /\ Lists' \subseteq Lists
  BY <1>1, <1>2 DEF Lists
<1>8. Fed' = {} /\ Fetched' = {} /\ Filed' \subseteq Filed /\ Published' = Published
  BY <1>1, <1>2, <1>7 DEF Fed, Fetched, Filed, Published
<1>9. Named' \subseteq Named
  BY <1>1, <1>8, EmptyIs, NothingListed DEF Named
<1>10. AllPublished'
  <2>1. \A i \in 1..Len(listing') : \A k \in listing'[i].unacked : k[1] = listing'[i].instance
    BY <1>1, <1>2
  <2>2. session' <= inst'
    BY <1>1 DEF DeliveryInv, DaemonTypes
  <2> QED BY <1>1, <1>8, <1>9, <2>1, <2>2, EmptyIs DEF DeliveryInv, AllPublished
<1>11. Synced' /\ Phases'
  BY <1>1 DEF Synced, Phases
<1>12. Settled'
  BY <1>1, EmptyIs DEF Settled
<1>13. Saved'
  BY <1>1, <1>7 DEF DeliveryInv, Saved
<1> QED BY <1>3, <1>4, <1>5, <1>6, <1>10, <1>11, <1>12, <1>13 DEF DeliveryInv

\* With everything saved and nothing queued to be written, the file keeps what is not on the
\* clipboard's record.
LEMMA EndedKeeps ==
  ASSUME DeliveryInv, Ended, phase = "quitting", writer = <<>>, UNCHANGED <<inst, tracker, landed, disk, gone>>
  PROVE  StepKeeps
<1>1. SUFFICES ASSUME NEW k \in Key, Kept(k), ~Kept(k)' PROVE ManualOnly(k)
  BY DEF StepKeeps
<1>2. q \in Queues
  BY DEF DeliveryInv, Quiet, Good
<1>3. disk = q.pending /\ disk' = disk /\ phase' = "down"
  BY DEF DeliveryInv, Saved, LastSaved, Ended
<1>4. k \notin landed /\ k \notin Unacked /\ ~Contains(q.pending, k)
  BY <1>1, <1>3 DEF Kept, Unacked
<1>5. k \in QueuedKeys(q)
  BY <1>1, <1>4 DEF Kept
<1>6. k \notin AutoKeys(q)
  BY DEF DeliveryInv, Phases
<1> QED BY <1>2, <1>5, <1>6, QueuedSomehow

LEMMA QuitPreserves ==
  ASSUME DeliveryInv, Quit
  PROVE  Preserved
<1>1. /\ phase = "quitting" /\ writer = <<>> /\ Ended /\ UNCHANGED <<inst, tracker, landed, disk, gone>>
      /\ holder' = (holder /\ session # inst)
  BY DEF Quit
<1>2. holder' \in BOOLEAN
  BY <1>1 DEF DeliveryInv, DaemonTypes
<1> QED BY <1>1, <1>2, EndedPreserves, EndedKeeps DEF Preserved

LEMMA CrashPreserves ==
  ASSUME DeliveryInv, Crash
  PROVE  Preserved
<1>1. phase # "down" /\ Ended /\ UNCHANGED <<inst, tracker, landed, disk, gone>> /\ holder' = holder
  BY DEF Crash, daemon
<1>2. DeliveryInv'
  <2>1. holder' \in BOOLEAN
    BY <1>1 DEF DeliveryInv, DaemonTypes
  <2> QED BY <1>1, <2>1, EndedPreserves
<1>3. StepKeeps
  <2>1. phase' = "down" /\ phase \in {"up", "quitting"}
    BY <1>1 DEF Ended, DeliveryInv, LinkTypes
  <2>2. CASE phase = "up" \/ writer # <<>>
    <3>1. Crashed
      BY <1>1, <2>1, <2>2 DEF Crashed
    <3> QED BY <3>1 DEF StepKeeps
  <2>3. CASE phase = "quitting" /\ writer = <<>>
    BY <1>1, <2>3, EndedKeeps
  <2> QED BY <2>1, <2>2, <2>3
<1> QED BY <1>2, <1>3 DEF Preserved

LEMMA StartPreserves ==
  ASSUME DeliveryInv, Start
  PROVE  Preserved
<1>1. /\ phase = "down" /\ phase' = "up" /\ q' = RestorePending(EmptyQueue, disk) /\ inst' = inst
      /\ tracker' = tracker /\ holder' = holder /\ session' = session /\ feed' = feed /\ listing' = listing
      /\ acks' = acks /\ running' = running /\ landed' = landed /\ writer' = writer /\ disk' = disk /\ gone' = gone
  BY DEF Start, daemon, link, store
<1>2. disk \in Seq(Key) /\ Len(disk) <= PendingLimit /\ disk \in Lists
  BY DEF DeliveryInv, StoreTypes, Saved, Lists
<1>3. /\ q' \in Queues /\ q'.queue = <<>> /\ q'.flight = <<>> /\ q'.acked = [k \in Key |-> "none"]
      /\ q'.instance = 0 /\ q'.pending = disk /\ q'.unsynced = ToSet(disk)
      /\ q'.out = {} /\ q'.begun = {} /\ q'.shed = {}
  BY <1>1, <1>2, RestoreIs
<1>4. Good(q') /\ AutoKeys(q') = {} /\ \A k \in Key : q'.acked[k] = "none"
  BY <1>3, UnusedGood
<1>5. session = 0 /\ listing = <<>> /\ acks = {} /\ writer = <<>>
  BY <1>1 DEF DeliveryInv, Phases
<1>6. DaemonTypes' /\ LinkTypes' /\ StoreTypes' /\ DeliveredHasLanded'
  BY <1>1 DEF DeliveryInv, DaemonTypes, LinkTypes, StoreTypes, DeliveredHasLanded
<1>7. Quiet'
  BY <1>3, <1>4 DEF Quiet
<1>8. Published' = Published /\ Unacked' = Unacked /\ Fed' = Fed /\ Fetched' = Fetched /\ Lists' = Lists
      /\ Filed' = Filed /\ LastSaved' = LastSaved
  BY <1>1 DEF Published, Unacked, Fed, Fetched, Lists, Filed, LastSaved
<1>9. ToSet(disk) \subseteq Filed
  <2>1. ToSet(disk) \subseteq Key
    BY <1>2, Elements
  <2> QED BY <1>2, <2>1 DEF Filed
<1>10. Named' \subseteq Named
  BY <1>3, <1>4, <1>8, <1>9 DEF Named
<1>11. AllPublished'
  BY <1>1, <1>3, <1>5, <1>8, <1>10 DEF DeliveryInv, AllPublished
<1>12. Synced'
  <2>1. Fetched = {}
    <3>1. Len(<<>>) = 0 /\ 1..0 = {}
      OBVIOUS
    <3> QED BY <1>5, <3>1 DEF Fetched
  <2> QED BY <1>1, <1>3, <1>4, <1>5, <1>8, <2>1 DEF Synced
<1>13. Settled'
  BY <1>1, <1>4, <1>5 DEF Settled
<1>14. Saved' /\ Phases'
  <2>1. LastSaved = disk
    BY <1>5 DEF LastSaved
  <2> QED BY <1>1, <1>3, <1>8, <2>1 DEF DeliveryInv, Saved, Phases
<1>15. StepKeeps
  <2>1. SUFFICES ASSUME NEW k \in Key, Kept(k) PROVE Kept(k)'
    BY DEF StepKeeps
  <2> QED BY <1>1, <1>3, <1>8, <2>1 DEF Kept
<1> QED BY <1>6, <1>7, <1>11, <1>12, <1>13, <1>14, <1>15 DEF Preserved, DeliveryInv

-----------------------------------------------------------------------------

LEMMA IdleStep ==
  ASSUME DeliveryInv, UNCHANGED vars
  PROVE  Preserved
<1>1. /\ UNCHANGED <<inst, tracker, phase, session, feed, listing, q, landed, store, gone>>
      /\ holder' = holder /\ acks' = acks /\ running' = running
  BY DEF vars, daemon, link
<1>2. holder' \in BOOLEAN /\ acks' \subseteq acks
  BY <1>1 DEF DeliveryInv, DaemonTypes
<1> QED BY <1>1, <1>2, SameNews

LEMMA StepPreserves ==
  ASSUME DeliveryInv, [Next]_vars
  PROVE  Preserved
<1>1. CASE Publish
  BY <1>1, PublishPreserves
<1>2. CASE LeaseEnds
  BY <1>2, LeaseEndsPreserves
<1>3. CASE DaemonRestarts
  BY <1>3, DaemonRestartsPreserves
<1>4. CASE Register
  BY <1>4, RegisterPreserves
<1>5. CASE OnEvent
  BY <1>5, OnEventPreserves
<1>6. CASE MissEvents
  BY <1>6, MissEventsPreserves
<1>7. CASE Fetch
  BY <1>7, FetchPreserves
<1>8. CASE Reconcile
  BY <1>8, ReconcilePreserves
<1>9. CASE RetryDue
  BY <1>9, RetryDuePreserves
<1>10. CASE Tick
  BY <1>10, TickPreserves
<1>11. CASE TimeOut
  BY <1>11, TimeOutPreserves
<1>12. CASE \E k \in Key, ok \in BOOLEAN : Verdict(k, ok)
  BY <1>12, VerdictPreserves
<1>13. CASE UserCopies
  BY <1>13, UserCopiesPreserves
<1>14. CASE UserClears
  BY <1>14, UserClearsPreserves
<1>15. CASE AckArrives
  BY <1>15, AckArrivesPreserves
<1>16. CASE AckDropped
  BY <1>16, AckDroppedPreserves
<1>17. CASE WriterSaves
  BY <1>17, WriterSavesPreserves
<1>18. CASE BeginQuit
  BY <1>18, BeginQuitPreserves
<1>19. CASE Quit
  BY <1>19, QuitPreserves
<1>20. CASE Crash
  BY <1>20, CrashPreserves
<1>21. CASE Start
  BY <1>21, StartPreserves
<1>22. CASE UNCHANGED vars
  BY <1>22, IdleStep
<1> QED BY <1>1, <1>2, <1>3, <1>4, <1>5, <1>6, <1>7, <1>8, <1>9, <1>10, <1>11, <1>12, <1>13, <1>14, <1>15,
           <1>16, <1>17, <1>18, <1>19, <1>20, <1>21, <1>22 DEF Next

-----------------------------------------------------------------------------
(* The theorems.                                                            *)

\* The invariant holds of every state the daemon and the companion reach.
THEOREM InvariantHolds == Spec => []DeliveryInv
<1>1. Init => DeliveryInv
  BY InitEstablishes
<1>2. DeliveryInv /\ [Next]_vars => DeliveryInv'
  BY StepPreserves DEF Preserved
<1> QED BY <1>1, <1>2, PTL DEF Spec

LEMMA TypesFollow ==
  ASSUME DeliveryInv
  PROVE  TypeOK
<1>1. q \in Queues /\ q.out = {} /\ q.begun = {} /\ q.shed = {}
  BY DEF DeliveryInv, Quiet, Good
<1>2. /\ q.instance \in 0..Instances /\ q.flight \in Seq(Entry) /\ Len(q.flight) <= 1 /\ q.queue \in Seq(Entry)
      /\ q.acked \in [Key -> AckStatus \cup {"none"}] /\ q.recent \in Seq(Key) /\ q.pending \in Seq(Key)
      /\ Len(q.pending) <= PendingLimit /\ q.unsynced \subseteq Key /\ q.suspect \subseteq Key
  BY <1>1, QueueTypes
<1>3. \A i \in DOMAIN listing : listing[i].unacked \subseteq Key
  <2>1. listing \in Seq(Listing)
    BY DEF DeliveryInv, LinkTypes
  <2>2. \A i \in DOMAIN listing : listing[i] \in Listing
    BY <2>1
  <2> QED BY <2>2 DEF Listing
<1>4. DaemonTypes /\ LinkTypes /\ StoreTypes
  BY DEF DeliveryInv
<1> QED BY <1>1, <1>2, <1>3, <1>4 DEF TypeOK, DaemonTypes, LinkTypes, StoreTypes

\* Every variable keeps its type: the queue's jobs are entries with at most one more attempt
\* than RETRIES, one at most is in flight, the list keeps to its limit, and no effect of a
\* handler is left undone.
THEOREM TypesCorrect == Spec => []TypeOK
<1>1. DeliveryInv => TypeOK
  BY TypesFollow
<1> QED BY <1>1, InvariantHolds, PTL

LEMMA OnceFollows ==
  ASSUME DeliveryInv
  PROVE  AutomaticOnce
<1>1. q \in Queues /\ Distinct(Jobs(q)) /\ \A k \in AutoKeys(q) : q.acked[k] = "none" /\ k \notin ToSet(q.pending)
  BY DEF DeliveryInv, Quiet, Good, Apart
<1>2. DOMAIN Jobs(q) = 1..Len(Jobs(q))
  <2>1. Jobs(q) \in Seq(Entry)
    BY <1>1, JobKeys
  <2> QED BY <2>1
<1>3. ASSUME NEW i \in Automatic(q)
      PROVE  /\ q.acked[Jobs(q)[i].key] = "none" /\ ~Contains(q.pending, Jobs(q)[i].key)
             /\ \A j \in Automatic(q) : Jobs(q)[j].key = Jobs(q)[i].key => i = j
  <2>1. i \in 1..Len(Jobs(q)) /\ ~Jobs(q)[i].manual
    BY <1>2 DEF Automatic
  <2>2. Jobs(q)[i].key \in AutoKeys(q)
    BY <2>1 DEF AutoKeys, Autos
  <2>3. q.acked[Jobs(q)[i].key] = "none" /\ ~Contains(q.pending, Jobs(q)[i].key)
    BY <1>1, <2>2, InList
  <2>4. ASSUME NEW j \in Automatic(q), Jobs(q)[j].key = Jobs(q)[i].key PROVE i = j
    <3>1. j \in 1..Len(Jobs(q)) /\ ~Jobs(q)[j].manual
      BY <1>2 DEF Automatic
    <3>2. ~(i < j) /\ ~(j < i)
      BY <1>1, <2>1, <2>4, <3>1 DEF Distinct
    <3> QED BY <2>1, <3>1, <3>2
  <2> QED BY <2>3, <2>4
<1> QED BY <1>3 DEF AutomaticOnce

\* A result is queued for an automatic write once at most, and never while it is acknowledged
\* or in the Not copied list.
THEOREM AutomaticWritesOnce == Spec => []AutomaticOnce
<1>1. DeliveryInv => AutomaticOnce
  BY OnceFollows
<1> QED BY <1>1, InvariantHolds, PTL

LEMMA OrderFollows ==
  ASSUME DeliveryInv
  PROVE  QueueInOrder
<1>1. q \in Queues /\ Ahead(Jobs(q)) /\ Sorted(q.queue) /\ \A k \in Autos(q.queue) : k[1] = q.instance
  BY DEF DeliveryInv, Quiet, Good, Ordered
<1>2. q.queue \in Seq(Entry) /\ q.flight \in Seq(Entry)
  BY <1>1, QueueTypes
<1>3. Ahead(q.queue)
  <2>1. Part(q.queue, Jobs(q))
    BY <1>2, RestIsPart DEF Jobs
  <2> QED BY <1>1, <2>1, PartKeeps
<1>4. DOMAIN q.queue = 1..Len(q.queue)
  BY <1>2
<1>5. ASSUME NEW i \in 1..Len(q.queue), NEW j \in 1..Len(q.queue), i < j, ~q.queue[i].manual, ~q.queue[j].manual
      PROVE  /\ q.queue[i].key[1] = q.queue[j].key[1] /\ q.queue[j].attempts = 0
             /\ (q.queue[i].attempts > 0 \/ q.queue[i].key[2] < q.queue[j].key[2])
  <2>1. q.queue[i].key \in Autos(q.queue) /\ q.queue[j].key \in Autos(q.queue)
    BY <1>5 DEF Autos
  <2>2. q.queue[j].attempts = 0
    BY <1>3, <1>5 DEF Ahead
  <2>3. q.queue[i].attempts > 0 \/ q.queue[i].key[2] < q.queue[j].key[2]
    BY <1>1, <1>5 DEF Sorted
  <2> QED BY <1>1, <2>1, <2>2, <2>3
<1> QED BY <1>4, <1>5 DEF QueueInOrder

\* Of two automatic writes waiting the earlier result is first, unless the first is tried again.
THEOREM QueueKeepsOrder == Spec => []QueueInOrder
<1>1. DeliveryInv => QueueInOrder
  BY OrderFollows
<1> QED BY <1>1, InvariantHolds, PTL

\* What the daemon records as delivered has reached the clipboard.
THEOREM DeliveredOnlyLanded == Spec => []DeliveredHasLanded
<1>1. DeliveryInv => DeliveredHasLanded
  BY DEF DeliveryInv
<1> QED BY <1>1, InvariantHolds, PTL

\* No step loses a text that was kept, but for the reasons TextKept names.
THEOREM TextIsKept == Spec => TextKept
<1>1. DeliveryInv /\ [Next]_vars =>
        [\A k \in Key : Kept(k) /\ ~Kept(k)' => k \in gone' \/ Crashed \/ inst' # inst \/ ManualOnly(k)]_vars
  BY StepPreserves DEF Preserved, StepKeeps
<1> QED BY <1>1, InvariantHolds, PTL DEF Spec, TextKept
===============================================================================
