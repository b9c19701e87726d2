-------------------------- MODULE SelectionProofs --------------------------
(***************************************************************************)
(* Lemmas on sequences that are made step by step: by a comprehension, by  *)
(* a loop, by a concatenation.  Induction is over sets of numbers, as that *)
(* the numbers are well-founded can be used of a set and not of a          *)
(* predicate: what holds is the set of the numbers it holds for.           *)
(***************************************************************************)
EXTENDS Selection, Integers, SequencesExt, SequenceTheorems, WellFoundedInduction, TLAPS

-----------------------------------------------------------------------------
(* Induction and recursion. *)

\* A set of numbers has a least one.
LEMMA LeastOf ==
  ASSUME NEW T \in SUBSET Nat, T # {}
  PROVE  \E n \in T : \A m \in T : n <= m
<1>1. PICK n \in T : \A m \in T : <<m, n>> \notin OpToRel(<, Nat)
  <2>1. IsWellFoundedOn(OpToRel(<, Nat), Nat)
    BY NatLessThanWellFounded, Zenon
  <2> QED
    BY <2>1, WFMin, Zenon
<1>2. \A m \in T : ~ (m < n)
  BY <1>1, Zenon DEF OpToRel
<1> QED
  BY <1>2

\* What holds of 0 and of the successor of what it holds for holds of all numbers.
LEMMA AllOfNat ==
  ASSUME NEW T, 0 \in T, \A n \in Nat : n \in T => n + 1 \in T
  PROVE  \A n \in Nat : n \in T
<1>1. SUFFICES ASSUME NEW k \in Nat, k \notin T PROVE FALSE
  OBVIOUS
<1>2. PICK n \in Nat \ T : \A m \in Nat \ T : n <= m
  BY <1>1, LeastOf
<1>3. n - 1 \in Nat /\ n - 1 \in T
  BY <1>2
<1> QED
  BY <1>3, <1>2

\* F[n] is what the n-th step makes of a member of S.
StepsIn(F, N, S) == \A c \in S, n \in 1 .. N : F[n][c] \in S
\* What N such steps make of base, one after the other.
Computed(F, N, S, base) ==
  {g \in [0 .. N -> S] : g[0] = base /\ \A n \in 1 .. N : g[n] = F[n][g[n - 1]]}

\* They make something.
LEMMA Recursion ==
  ASSUME NEW S, NEW base \in S, NEW N \in Nat, NEW F, StepsIn(F, N, S)
  PROVE  Computed(F, N, S, base) # {}
<1> USE DEF StepsIn, Computed
<1> DEFINE Upto(k) == Computed(F, k, S, base)
           T == {k \in Nat : k <= N => Upto(k) # {}}
<1>1. 0 \in T
  <2>1. [n \in 0 .. 0 |-> base] \in Upto(0)
    OBVIOUS
  <2> QED
    BY <2>1
<1>2. ASSUME NEW k \in Nat, k \in T
      PROVE  k + 1 \in T
  <2>1. CASE k + 1 <= N
    <3>1. PICK g : g \in Upto(k)
      BY <1>2, <2>1
    <3> DEFINE h == [n \in 0 .. k + 1 |-> IF n = k + 1 THEN F[k + 1][g[k]] ELSE g[n]]
    <3>2. F[k + 1][g[k]] \in S
      BY <2>1, <3>1
    <3>3. h \in [0 .. k + 1 -> S]
      BY <3>1, <3>2
    <3>4. h[0] = base
      BY <3>1
    <3>5. ASSUME NEW n \in 1 .. k + 1
          PROVE  h[n] = F[n][h[n - 1]]
      <4>1. n - 1 \in 0 .. k /\ h[n - 1] = g[n - 1]
        OBVIOUS
      <4>2. CASE n = k + 1
        <5>1. h[k + 1] = F[k + 1][g[k]] /\ h[n - 1] = g[k]
          BY <4>1, <4>2
        <5> QED
          BY <4>2, <5>1
      <4>3. CASE n \in 1 .. k
        <5>1. h[n] = g[n]
          BY <4>3
        <5> QED
          BY <3>1, <4>1, <4>3, <5>1
      <4> QED
        BY <4>2, <4>3
    <3>6. h \in Upto(k + 1)
      BY <3>3, <3>4, <3>5
    <3>7. Upto(k + 1) # {}
      BY <3>6
    <3> QED
      BY <3>7
  <2> QED
    BY <2>1
<1> HIDE DEF T
<1>3. N \in T
  BY <1>1, <1>2, AllOfNat
<1> QED
  BY <1>3 DEF T

\* The same up to a number.
LEMMA UpTo ==
  ASSUME NEW N \in Nat, NEW T, 0 \in T, \A n \in 1 .. N : n - 1 \in T => n \in T
  PROVE  \A n \in 0 .. N : n \in T
<1> DEFINE U == {n \in Nat : n <= N => n \in T}
<1>1. 0 \in U
  OBVIOUS
<1>2. ASSUME NEW n \in Nat, n \in U
      PROVE  n + 1 \in U
  <2>1. n + 1 <= N => n + 1 \in 1 .. N /\ (n + 1) - 1 = n
    OBVIOUS
  <2> QED
    BY <1>2, <2>1
<1> HIDE DEF U
<1>3. \A n \in Nat : n \in U
  BY <1>1, <1>2, AllOfNat
<1> QED
  BY <1>3 DEF U

\* A function whose values come from one another by such steps.
LEMMA Follows ==
  ASSUME NEW S, NEW base \in S, NEW N \in Nat, NEW F, StepsIn(F, N, S), NEW f,
         f[0] = base, \A n \in 1 .. N : f[n - 1] \in S => f[n] = F[n][f[n - 1]]
  PROVE  \A n \in 0 .. N : f[n] \in S
<1> DEFINE U == {m \in 0 .. N : f[m] \in S}
<1>1. 0 \in U
  OBVIOUS
<1>2. \A n \in 1 .. N : n - 1 \in U => n \in U
  BY DEF StepsIn
<1> HIDE DEF U
<1>3. \A n \in 0 .. N : n \in U
  BY <1>1, <1>2, UpTo
<1> QED
  BY <1>3 DEF U

-----------------------------------------------------------------------------
(* Selections. *)

\* How a selection grows.
Growth(s, T, X) ==
  {f \in [0 .. Len(s) -> Seq(X)] :
     /\ Chosen(s, T) = f[Len(s)]
     /\ f[0] = <<>>
     /\ \A n \in 1 .. Len(s) :
          f[n] = IF s[n] \in T THEN Append(f[n - 1], s[n]) ELSE f[n - 1]}

LEMMA ChosenGrows ==
  ASSUME NEW X, NEW s \in Seq(X), NEW T
  PROVE  Growth(s, T, X) # {}
<1> DEFINE N == Len(s)
           S == Seq(X)
           F == [n \in 1 .. N |-> [c \in S |-> IF s[n] \in T THEN Append(c, s[n]) ELSE c]]
           upto[n \in 0 .. N] ==
             IF n = 0 THEN <<>>
             ELSE IF s[n] \in T THEN Append(upto[n - 1], s[n]) ELSE upto[n - 1]
<1>1. Chosen(s, T) = upto[N]
  BY DEF Chosen
<1> HIDE DEF upto
<1>2. N \in Nat /\ <<>> \in S /\ \A n \in 1 .. N : s[n] \in X
  OBVIOUS
<1> HIDE DEF N
<1>3. \A n \in 1 .. N, c \in S :
        F[n][c] = IF s[n] \in T THEN Append(c, s[n]) ELSE c
  OBVIOUS
<1>4. StepsIn(F, N, S)
  BY <1>2, <1>3 DEF StepsIn
<1> HIDE DEF F
<1>5. PICK g : g \in Computed(F, N, S, <<>>)
  <2> HIDE DEF S
  <2> QED
    BY <1>2, <1>4, Recursion
<1>6. g = [n \in 0 .. N |->
             IF n = 0 THEN <<>>
             ELSE IF s[n] \in T THEN Append(g[n - 1], s[n]) ELSE g[n - 1]]
  <2>1. g \in [0 .. N -> S] /\ \A n \in 0 .. N : g[n] = IF n = 0 THEN <<>> ELSE F[n][g[n - 1]]
    <3> HIDE DEF S
    <3> QED
      BY <1>2, <1>5 DEF Computed
  <2>2. \A n \in 1 .. N : g[n - 1] \in S
    BY <1>2, <2>1
  <2>3. \A n \in 1 .. N : g[n] = IF s[n] \in T THEN Append(g[n - 1], s[n]) ELSE g[n - 1]
    BY <1>3, <2>1, <2>2
  <2>4. \A n \in 0 .. N : g[n] = IF n = 0 THEN <<>>
             ELSE IF s[n] \in T THEN Append(g[n - 1], s[n]) ELSE g[n - 1]
    <3>1. \A n \in 0 .. N : n = 0 \/ n \in 1 .. N
      BY <1>2
    <3>2. g[0] = <<>>
      BY <1>2, <2>1
    <3> QED
      BY <2>3, <3>1, <3>2, Zenon
  <2>5. g = [n \in 0 .. N |-> g[n]]
    BY <2>1
  <2> QED
    BY <2>4, <2>5, Zenon
<1>7. upto = [n \in 0 .. N |->
             IF n = 0 THEN <<>>
             ELSE IF s[n] \in T THEN Append(upto[n - 1], s[n]) ELSE upto[n - 1]]
  BY <1>6, Zenon DEF upto
<1>8. \A n \in 0 .. N : upto[n] = IF n = 0 THEN <<>>
             ELSE IF s[n] \in T THEN Append(upto[n - 1], s[n]) ELSE upto[n - 1]
  BY <1>7, Zenon
<1>9. \A n \in 0 .. N : upto[n] \in S
  <2> HIDE DEF S
  <2>1. upto[0] = <<>> /\ \A n \in 1 .. N : upto[n - 1] \in S => upto[n] = F[n][upto[n - 1]]
    BY <1>2, <1>3, <1>8
  <2> QED
    BY <1>2, <1>4, <2>1, Follows
<1>10. upto \in [0 .. N -> Seq(X)]
  BY <1>7, <1>9
<1>11. /\ upto[0] = <<>>
       /\ \A n \in 1 .. N :
            upto[n] = IF s[n] \in T THEN Append(upto[n - 1], s[n]) ELSE upto[n - 1]
  BY <1>2, <1>8
<1> QED
  BY <1>1, <1>10, <1>11, Zenon DEF N, Growth

\* Where the elements of a selection c come from, of s's first n.
Places(c, s, n, T) ==
  {e \in [1 .. Len(c) -> 1 .. n] :
     /\ \A i \in 1 .. Len(c) : c[i] = s[e[i]]
     /\ \A i, j \in 1 .. Len(c) : i < j => e[i] < e[j]
     /\ \A k \in 1 .. n : s[k] \in T <=> \E i \in 1 .. Len(c) : e[i] = k}

LEMMA ChosenPlaces ==
  ASSUME NEW X, NEW s \in Seq(X), NEW T
  PROVE  /\ Chosen(s, T) \in Seq(X)
         /\ Places(Chosen(s, T), s, Len(s), T) # {}
         /\ Len(Chosen(s, T)) <= Len(s)
<1> DEFINE N == Len(s)
<1>1. N \in Nat
  OBVIOUS
<1>2. PICK f \in [0 .. N -> Seq(X)] :
        /\ Chosen(s, T) = f[N]
        /\ f[0] = <<>>
        /\ \A n \in 1 .. N : f[n] = IF s[n] \in T THEN Append(f[n - 1], s[n]) ELSE f[n - 1]
  <2>1. PICK f : f \in Growth(s, T, X)
    BY ChosenGrows
  <2> QED
    BY <2>1 DEF Growth
<1> DEFINE U == {n \in 0 .. N : Places(f[n], s, n, T) # {} /\ Len(f[n]) <= n}
<1>3. 0 \in U
  <2>1. [i \in 1 .. 0 |-> 0] \in Places(<<>>, s, 0, T)
    BY DEF Places
  <2> QED
    BY <1>1, <1>2, <2>1
<1>4. ASSUME NEW n \in 1 .. N, n - 1 \in U
      PROVE  n \in U
  <2> DEFINE c == f[n - 1]
             m == Len(c)
  <2>1. c \in Seq(X) /\ m \in Nat /\ n - 1 \in 0 .. N /\ s[n] \in X
    BY <1>1, <1>2
  <2>0. m <= n - 1
    BY <1>4
  <2>2. PICK e : e \in Places(c, s, n - 1, T)
    BY <1>4
  <2>3. /\ e \in [1 .. m -> 1 .. n - 1]
        /\ \A i \in 1 .. m : c[i] = s[e[i]]
        /\ \A i, j \in 1 .. m : i < j => e[i] < e[j]
        /\ \A k \in 1 .. n - 1 : s[k] \in T <=> \E i \in 1 .. m : e[i] = k
    BY <2>2 DEF Places
  <2> HIDE DEF c, N
  <2>4. CASE s[n] \in T
    <3> DEFINE d == Append(c, s[n])
               h == [i \in 1 .. m + 1 |-> IF i = m + 1 THEN n ELSE e[i]]
    <3>1. f[n] = d
      BY <1>2, <2>4 DEF c
    <3>2. Len(d) = m + 1 /\ d[m + 1] = s[n] /\ \A i \in 1 .. m : d[i] = c[i]
      BY <2>1
    <3> HIDE DEF d, m
    <3>3. h \in [1 .. m + 1 -> 1 .. n]
      BY <1>1, <2>1, <2>3
    <3>4. \A i \in 1 .. m + 1 : d[i] = s[h[i]]
      BY <2>1, <2>3, <3>2
    <3>5. \A i, j \in 1 .. m + 1 : i < j => h[i] < h[j]
      BY <1>1, <2>1, <2>3
    <3>6. \A k \in 1 .. n : s[k] \in T <=> \E i \in 1 .. m + 1 : h[i] = k
      <4>1. h[m + 1] = n /\ m + 1 \in 1 .. m + 1
        BY <2>1
      <4>2. \A k \in 1 .. n - 1 : s[k] \in T <=> \E i \in 1 .. m + 1 : h[i] = k
        BY <1>1, <2>1, <2>3
      <4> QED
        BY <1>1, <2>4, <4>1, <4>2
    <3>7. h \in Places(d, s, n, T)
      BY <3>2, <3>3, <3>4, <3>5, <3>6 DEF Places
    <3>8. Places(f[n], s, n, T) # {} /\ n \in 0 .. N /\ Len(f[n]) <= n
      BY <1>1, <2>0, <2>1, <3>1, <3>2, <3>7
    <3> QED
      BY <3>8
  <2>5. CASE s[n] \notin T
    <3>1. f[n] = c
      BY <1>2, <2>5 DEF c
    <3>2. e \in [1 .. m -> 1 .. n]
      BY <1>1, <2>3
    <3>3. \A k \in 1 .. n : s[k] \in T <=> \E i \in 1 .. m : e[i] = k
      <4>1. \A i \in 1 .. m : e[i] # n
        <5> HIDE DEF m
        <5>1. \A i \in 1 .. m : e[i] \in 1 .. n - 1
          BY <2>3
        <5> QED
          BY <1>1, <5>1
      <4>2. \A k \in 1 .. n : k = n \/ k \in 1 .. n - 1
        BY <1>1
      <4> QED
        BY <2>3, <2>5, <4>1, <4>2
    <3>4. e \in Places(c, s, n, T)
      BY <2>3, <3>2, <3>3 DEF Places
    <3>5. Places(f[n], s, n, T) # {} /\ n \in 0 .. N /\ Len(f[n]) <= n
      BY <1>1, <2>0, <2>1, <3>1, <3>4
    <3> QED
      BY <3>5
  <2> QED
    BY <2>4, <2>5
<1> HIDE DEF U
<1>5. N \in U
  <2>1. \A n \in 1 .. N : n - 1 \in U => n \in U
    BY <1>4
  <2> HIDE DEF N
  <2>2. \A n \in 0 .. N : n \in U
    BY <1>1, <1>3, <2>1, UpTo
  <2> QED
    BY <1>1, <2>2
<1>6. Places(f[N], s, N, T) # {} /\ Len(f[N]) <= N
  BY <1>5 DEF U
<1> QED
  BY <1>1, <1>2, <1>6

\* A selection has just the elements that are to be selected, none twice that was
\* not there twice.
LEMMA ChosenIs ==
  ASSUME NEW X, NEW s \in Seq(X), NEW T
  PROVE  /\ Chosen(s, T) \in Seq(X)
         /\ Len(Chosen(s, T)) <= Len(s)
         /\ ToSet(Chosen(s, T)) = ToSet(s) \cap T
         /\ IsInjective(s) => IsInjective(Chosen(s, T))
<1> DEFINE c == Chosen(s, T)
<1>1. c \in Seq(X) /\ Len(c) <= Len(s) /\ Places(c, s, Len(s), T) # {}
  BY ChosenPlaces
<1> HIDE DEF c
<1>2. PICK e \in [1 .. Len(c) -> 1 .. Len(s)] :
        /\ \A i \in 1 .. Len(c) : c[i] = s[e[i]]
        /\ \A i, j \in 1 .. Len(c) : i < j => e[i] < e[j]
        /\ \A k \in 1 .. Len(s) : s[k] \in T <=> \E i \in 1 .. Len(c) : e[i] = k
  BY <1>1 DEF Places
<1>3. DOMAIN c = 1 .. Len(c) /\ DOMAIN s = 1 .. Len(s) /\ Len(c) \in Nat /\ Len(s) \in Nat
  BY <1>1
<1>4. ToSet(c) = ToSet(s) \cap T
  BY <1>2, <1>3 DEF ToSet
<1>5. ASSUME IsInjective(s)
      PROVE  IsInjective(c)
  <2>1. \A i, j \in 1 .. Len(c) : c[i] = c[j] => e[i] = e[j]
    BY <1>2, <1>3, <1>5 DEF IsInjective
  <2>2. \A i, j \in 1 .. Len(c) : e[i] = e[j] => i = j
    BY <1>2, <1>3
  <2> QED
    BY <1>3, <2>1, <2>2 DEF IsInjective
<1> QED
  BY <1>1, <1>4, <1>5 DEF c

\* One more element.
LEMMA OneMore ==
  ASSUME NEW X, NEW s \in Seq(X), NEW e \in X
  PROVE  /\ Append(s, e) \in Seq(X)
         /\ ToSet(Append(s, e)) = ToSet(s) \cup {e}
         /\ IsInjective(s) /\ e \notin ToSet(s) => IsInjective(Append(s, e))
<1> DEFINE u == Append(s, e)
           m == Len(s)
<1>1. /\ u \in Seq(X) /\ m \in Nat /\ DOMAIN u = 1 .. m + 1 /\ DOMAIN s = 1 .. m
      /\ u[m + 1] = e /\ \A i \in 1 .. m : u[i] = s[i]
  OBVIOUS
<1> HIDE DEF u, m
<1>2. \A i \in 1 .. m + 1 : i \in 1 .. m \/ i = m + 1
  BY <1>1
<1>3. m + 1 \in 1 .. m + 1 /\ \A i \in 1 .. m : i \in 1 .. m + 1
  BY <1>1
<1>4. ToSet(u) = ToSet(s) \cup {e}
  BY <1>1, <1>2, <1>3 DEF ToSet
<1>5. ASSUME IsInjective(s), e \notin ToSet(s)
      PROVE  IsInjective(u)
  <2>1. \A i \in 1 .. m : s[i] # e
    BY <1>1, <1>5 DEF ToSet
  <2>2. \A i, j \in 1 .. m + 1 : u[i] = u[j] => i = j
    BY <1>1, <1>2, <1>5, <2>1 DEF IsInjective
  <2> QED
    BY <1>1, <2>2 DEF IsInjective
<1> QED
  BY <1>1, <1>4, <1>5 DEF u

\* Two sequences with nothing in common, one after the other.
LEMMA BothOnce ==
  ASSUME NEW X, NEW s \in Seq(X), NEW t \in Seq(X)
  PROVE  /\ s \o t \in Seq(X)
         /\ ToSet(s \o t) = ToSet(s) \cup ToSet(t)
         /\ IsInjective(s) /\ IsInjective(t) /\ ToSet(s) \cap ToSet(t) = {}
              => IsInjective(s \o t)
<1> DEFINE u == s \o t
           m == Len(s)
           n == Len(t)
<1>1. /\ u \in Seq(X) /\ Len(u) = m + n /\ m \in Nat /\ n \in Nat
      /\ DOMAIN u = 1 .. m + n /\ DOMAIN s = 1 .. m /\ DOMAIN t = 1 .. n
      /\ \A i \in 1 .. m : u[i] = s[i]
      /\ \A i \in 1 .. n : u[m + i] = t[i]
  OBVIOUS
<1> HIDE DEF u, m, n
<1>2. \A i \in 1 .. m + n : i \in 1 .. m \/ \E j \in 1 .. n : i = m + j
  <2>1. \A i \in 1 .. m + n : i \notin 1 .. m => i - m \in 1 .. n /\ i = m + (i - m)
    BY <1>1
  <2> QED
    BY <2>1
<1>3. ToSet(u) = ToSet(s) \cup ToSet(t)
  <2>1. \A j \in 1 .. n : m + j \in 1 .. m + n
    BY <1>1
  <2>2. \A j \in 1 .. m : j \in 1 .. m + n
    BY <1>1
  <2>3. ASSUME NEW i \in 1 .. m + n
        PROVE  u[i] \in ToSet(s) \cup ToSet(t)
    <3>1. CASE i \in 1 .. m
      BY <1>1, <3>1 DEF ToSet
    <3>2. ASSUME NEW j \in 1 .. n, i = m + j
          PROVE  u[i] \in ToSet(t)
      BY <1>1, <3>2 DEF ToSet
    <3> QED
      BY <1>2, <3>1, <3>2
  <2>4. ToSet(s) \subseteq ToSet(u)
    BY <1>1, <2>2 DEF ToSet
  <2>5. ToSet(t) \subseteq ToSet(u)
    BY <1>1, <2>1 DEF ToSet
  <2>6. ToSet(u) \subseteq ToSet(s) \cup ToSet(t)
    BY <1>1, <2>3 DEF ToSet
  <2> QED
    BY <2>4, <2>5, <2>6
<1>4. ASSUME IsInjective(s), IsInjective(t), ToSet(s) \cap ToSet(t) = {}
      PROVE  IsInjective(u)
  <2>1. \A i \in 1 .. m, j \in 1 .. n : s[i] # t[j]
    BY <1>1, <1>4 DEF ToSet
  <2>2. ASSUME NEW i \in 1 .. m + n, NEW j \in 1 .. m + n, u[i] = u[j]
        PROVE  i = j
    <3>1. CASE i \in 1 .. m /\ j \in 1 .. m
      BY <1>1, <1>4, <2>2, <3>1 DEF IsInjective
    <3>2. ASSUME NEW k \in 1 .. n, NEW l \in 1 .. n, i = m + k, j = m + l
          PROVE  i = j
      BY <1>1, <1>4, <2>2, <3>2 DEF IsInjective
    <3>3. ASSUME NEW k \in 1 .. m, NEW l \in 1 .. n, u[k] = u[m + l]
          PROVE  FALSE
      BY <1>1, <2>1, <3>3
    <3> QED
      BY <1>2, <2>2, <3>1, <3>2, <3>3
  <2> QED
    BY <1>1, <2>2 DEF IsInjective
<1> QED
  BY <1>1, <1>3, <1>4 DEF u

-----------------------------------------------------------------------------
(* Sequences of sequences. *)

\* Kept together, as what is known of two levels of sequences is too much at once.
Parts(X) == Seq(Seq(X))

\* The parts of ss one after the other, up to each of them.
LaidOut(ss, X) ==
  {g \in [0 .. Len(ss) -> Seq(X)] :
     g[0] = <<>> /\ \A n \in 1 .. Len(ss) : g[n] = g[n - 1] \o ss[n]}

\* They can be laid out in one way, which is how they are flattened.
LEMMA Layout ==
  ASSUME NEW X, NEW ss \in Parts(X)
  PROVE  LaidOut(ss, X) # {}
<1> DEFINE N == Len(ss)
           S == Seq(X)
           F == [n \in 1 .. N |-> [c \in S |-> c \o ss[n]]]
<1>1. N \in Nat /\ <<>> \in S /\ \A n \in 1 .. N : ss[n] \in S
  BY DEF Parts
<1>2. \A c, d \in S : c \o d \in S
  OBVIOUS
<1> HIDE DEF N, S
<1>3. \A n \in 1 .. N, c \in S : F[n][c] = c \o ss[n]
  OBVIOUS
<1>4. StepsIn(F, N, S)
  BY <1>1, <1>2, <1>3 DEF StepsIn
<1> HIDE DEF F
<1>5. PICK g : g \in Computed(F, N, S, <<>>)
  BY <1>1, <1>4, Recursion
<1>6. g \in [0 .. N -> S] /\ g[0] = <<>> /\ \A n \in 1 .. N : g[n] = F[n][g[n - 1]]
  BY <1>5 DEF Computed
<1>7. \A n \in 1 .. N : g[n - 1] \in S
  BY <1>1, <1>6
<1>8. \A n \in 1 .. N : g[n] = g[n - 1] \o ss[n]
  BY <1>3, <1>6, <1>7
<1>9. g \in LaidOut(ss, X)
  BY <1>6, <1>8 DEF LaidOut, N, S
<1> QED
  BY <1>9

LEMMA Flattening ==
  ASSUME NEW X, NEW ss \in Parts(X), NEW g \in LaidOut(ss, X)
  PROVE  FlattenSeq(ss) = g[Len(ss)]
<1> DEFINE N == Len(ss)
           flatten[i \in 1 .. N] == IF i = 1 THEN ss[i] ELSE flatten[i - 1] \o ss[i]
<1>1. /\ N \in Nat /\ g \in [0 .. N -> Seq(X)] /\ \A n \in 1 .. N : ss[n] \in Seq(X)
      /\ g[0] = <<>> /\ \A n \in 1 .. N : g[n] = g[n - 1] \o ss[n]
  BY DEF LaidOut, Parts
<1>2. FlattenSeq(ss) = IF N = 0 THEN ss ELSE flatten[N]
  BY DEF FlattenSeq
<1> HIDE DEF flatten
<1>3. CASE N = 0
  <2>1. ss = <<>>
    BY <1>3 DEF Parts
  <2> QED
    BY <1>1, <1>2, <1>3, <2>1
<1>4. CASE N \in Nat \ {0}
  <2>1. FlattenSeq(ss) = flatten[N]
    BY <1>2, <1>4
  <2> HIDE DEF N
  <2>2. \A n \in 1 .. N : g[n] = IF n = 1 THEN ss[n] ELSE g[n - 1] \o ss[n]
    <3>1. 1 \in 1 .. N /\ 1 - 1 = 0
      BY <1>4
    <3>2. ss[1] \in Seq(X) /\ g[1] = <<>> \o ss[1]
      BY <1>1, <3>1
    <3>3. g[1] = ss[1]
      BY <3>2, ConcatEmptySeq
    <3> QED
      BY <1>1, <3>3, Zenon
  <2> DEFINE h == [n \in 1 .. N |-> g[n]]
  <2>3. \A n \in 1 .. N : h[n] = g[n] /\ (n # 1 => h[n - 1] = g[n - 1])
    <3>1. \A n \in 1 .. N : n # 1 => n - 1 \in 1 .. N
      BY <1>1
    <3> QED
      BY <3>1
  <2>4. h = [n \in 1 .. N |-> IF n = 1 THEN ss[n] ELSE h[n - 1] \o ss[n]]
    <3>1. \A n \in 1 .. N : h[n] = IF n = 1 THEN ss[n] ELSE h[n - 1] \o ss[n]
      BY <2>2, <2>3, Zenon
    <3>2. h = [n \in 1 .. N |-> h[n]]
      OBVIOUS
    <3> HIDE DEF h
    <3> QED
      BY <3>1, <3>2, Zenon
  <2> HIDE DEF h
  <2>5. flatten = [n \in 1 .. N |-> IF n = 1 THEN ss[n] ELSE flatten[n - 1] \o ss[n]]
    BY <2>4, Zenon DEF flatten
  <2>6. \A n \in 1 .. N : flatten[n] = IF n = 1 THEN ss[n] ELSE flatten[n - 1] \o ss[n]
    BY <2>5, Zenon
  <2> DEFINE T == {n \in 0 .. N : n = 0 \/ flatten[n] = g[n]}
  <2>7. 0 \in T
    BY <1>1
  <2>8. ASSUME NEW n \in 1 .. N, n - 1 \in T
        PROVE  n \in T
    <3>1. n = 1 \/ flatten[n - 1] = g[n - 1]
      BY <2>8
    <3>2. flatten[n] = g[n]
      BY <2>2, <2>6, <3>1, Zenon
    <3> QED
      BY <1>1, <3>2
  <2> HIDE DEF T
  <2>9. \A n \in 0 .. N : n \in T
    BY <1>1, <2>7, <2>8, UpTo
  <2>10. N \in 0 .. N /\ N # 0
    BY <1>4
  <2>11. flatten[N] = g[N]
    BY <2>9, <2>10 DEF T
  <2> QED
    BY <2>1, <2>11 DEF N
<1> QED
  BY <1>1, <1>3, <1>4

\* One more part goes last.
LEMMA FlattenMore ==
  ASSUME NEW X, NEW ss \in Parts(X), NEW s \in Seq(X)
  PROVE  /\ FlattenSeq(ss) \in Seq(X)
         /\ FlattenSeq(Append(ss, s)) = FlattenSeq(ss) \o s
<1> DEFINE N == Len(ss)
           tt == Append(ss, s)
<1>1. /\ N \in Nat /\ tt \in Parts(X) /\ Len(tt) = N + 1 /\ tt[N + 1] = s
      /\ \A n \in 1 .. N : tt[n] = ss[n]
  <2>1. s \in Seq(X)
    OBVIOUS
  <2> DEFINE S == Seq(X)
  <2> HIDE DEF S
  <2>2. s \in S /\ ss \in Seq(S)
    BY DEF S, Parts
  <2>3. /\ N \in Nat /\ tt \in Seq(S) /\ Len(tt) = N + 1 /\ tt[N + 1] = s
        /\ \A n \in 1 .. N : tt[n] = ss[n]
    BY <2>2
  <2> QED
    BY <2>3 DEF S, Parts
<1> HIDE DEF tt
<1>2. PICK g : g \in LaidOut(ss, X)
  BY Layout
<1>3. PICK h : h \in LaidOut(tt, X)
  BY <1>1, Layout
<1>4. FlattenSeq(ss) = g[N] /\ FlattenSeq(tt) = h[N + 1]
  BY <1>1, <1>2, <1>3, Flattening
<1>5. /\ g \in [0 .. N -> Seq(X)] /\ g[0] = <<>>
      /\ \A n \in 1 .. N : g[n] = g[n - 1] \o ss[n]
  BY <1>2 DEF LaidOut
<1>6. h[0] = <<>> /\ \A n \in 1 .. N + 1 : h[n] = h[n - 1] \o tt[n]
  BY <1>1, <1>3 DEF LaidOut
<1> DEFINE T == {n \in 0 .. N : h[n] = g[n]}
<1>7. 0 \in T
  BY <1>1, <1>5, <1>6
<1> HIDE DEF N
<1>8. ASSUME NEW n \in 1 .. N, n - 1 \in T
      PROVE  n \in T
  <2>1. n \in 1 .. N + 1 /\ n \in 0 .. N
    BY <1>1
  <2>2. h[n] = h[n - 1] \o tt[n] /\ g[n] = g[n - 1] \o ss[n] /\ tt[n] = ss[n]
    BY <1>1, <1>5, <1>6, <2>1, Zenon
  <2>3. h[n - 1] = g[n - 1]
    BY <1>8
  <2> QED
    BY <2>1, <2>2, <2>3
<1> HIDE DEF T
<1>9. N \in T
  <2>1. \A n \in 0 .. N : n \in T
    BY <1>1, <1>7, <1>8, UpTo
  <2> QED
    BY <1>1, <2>1
<1>10. h[N] = g[N]
  BY <1>9 DEF T
<1>11. N + 1 \in 1 .. N + 1 /\ (N + 1) - 1 = N /\ N \in 0 .. N
  BY <1>1
<1>12. h[N + 1] = g[N] \o s /\ g[N] \in Seq(X)
  BY <1>1, <1>5, <1>6, <1>10, <1>11
<1> QED
  BY <1>4, <1>12 DEF tt

\* Where the m-th of b places after the first a is.
LEMMA Within ==
  ASSUME NEW a \in Nat, NEW b \in Nat, NEW d \in Nat, a + b <= d, NEW m \in 1 .. b
  PROVE  a + m \in 1 .. d
OBVIOUS

LEMMA Between ==
  ASSUME NEW a \in Nat, NEW b \in Nat, NEW K \in Nat, NEW J \in Nat,
         NEW m \in 1 .. K, NEW n \in 1 .. J, a + m = b + n
  PROVE  ~ (a + K <= b) /\ ~ (b + J <= a)
OBVIOUS

\* Each part of ss stands in it behind the ones before.
InPlace(ss, g) ==
  /\ \A k \in 0 .. Len(ss) : Len(g[k]) \in Nat
  /\ \A k \in 1 .. Len(ss) : Len(g[k]) = Len(g[k - 1]) + Len(ss[k]) /\ Len(ss[k]) \in Nat
  /\ \A k, j \in 0 .. Len(ss) : k <= j => Len(g[k]) <= Len(g[j])
  /\ \A k \in 1 .. Len(ss) : \A m \in 1 .. Len(ss[k]) :
       FlattenSeq(ss)[Len(g[k - 1]) + m] = ss[k][m]

LEMMA PartsInPlace ==
  ASSUME NEW X, NEW ss \in Parts(X), NEW g \in LaidOut(ss, X)
  PROVE  InPlace(ss, g)
<1> DEFINE N == Len(ss)
<1>1. /\ N \in Nat /\ g \in [0 .. N -> Seq(X)] /\ \A n \in 1 .. N : ss[n] \in Seq(X)
      /\ g[0] = <<>> /\ \A n \in 1 .. N : g[n] = g[n - 1] \o ss[n]
  BY DEF LaidOut, Parts
<1>2. FlattenSeq(ss) = g[N]
  BY Flattening
<1> HIDE DEF N
<1>3. ASSUME NEW n \in 0 .. N
      PROVE  g[n] \in Seq(X) /\ Len(g[n]) \in Nat
  <2>1. g[n] \in Seq(X)
    BY <1>1
  <2> QED
    BY <2>1
<1>4. ASSUME NEW n \in 1 .. N
      PROVE  /\ Len(g[n]) = Len(g[n - 1]) + Len(ss[n]) /\ Len(ss[n]) \in Nat
             /\ \A m \in 1 .. Len(g[n - 1]) : g[n][m] = g[n - 1][m]
             /\ \A m \in 1 .. Len(ss[n]) : g[n][Len(g[n - 1]) + m] = ss[n][m]
  <2> DEFINE c == g[n - 1]
             d == ss[n]
  <2>1. c \in Seq(X) /\ d \in Seq(X) /\ g[n] = c \o d
    <3>1. n - 1 \in 0 .. N
      BY <1>1
    <3>2. g[n - 1] \in Seq(X)
      BY <1>3, <3>1
    <3>3. ss[n] \in Seq(X) /\ g[n] = g[n - 1] \o ss[n]
      BY <1>1
    <3> QED
      BY <3>2, <3>3
  <2> HIDE DEF c, d
  <2>2. /\ Len(c \o d) = Len(c) + Len(d) /\ Len(d) \in Nat
        /\ \A m \in 1 .. Len(c) : (c \o d)[m] = c[m]
        /\ \A m \in 1 .. Len(d) : (c \o d)[Len(c) + m] = d[m]
    BY <2>1
  <2> QED
    BY <2>1, <2>2 DEF c, d
<1>5. ASSUME NEW k \in 0 .. N
      PROVE  \A j \in 0 .. N : k <= j => /\ Len(g[k]) <= Len(g[j])
                                         /\ \A m \in 1 .. Len(g[k]) : g[j][m] = g[k][m]
  <2> DEFINE T == {j \in 0 .. N : k <= j => /\ Len(g[k]) <= Len(g[j])
                                            /\ \A m \in 1 .. Len(g[k]) : g[j][m] = g[k][m]}
  <2>1. 0 \in T
    <3>1. k <= 0 => k = 0
      OBVIOUS
    <3> QED
      BY <1>1, <1>3, <3>1
  <2>2. ASSUME NEW j \in 1 .. N, j - 1 \in T
        PROVE  j \in T
    <3>1. CASE k <= j - 1
      <4>1. /\ Len(g[k]) <= Len(g[j - 1]) /\ \A m \in 1 .. Len(g[k]) : g[j - 1][m] = g[k][m]
        BY <2>2, <3>1
      <4>2. j - 1 \in 0 .. N /\ j \in 0 .. N
        BY <1>1
      <4>3. Len(g[k]) \in Nat /\ Len(g[j - 1]) \in Nat
        BY <1>3, <4>2
      <4>4. Len(g[k]) <= Len(g[j])
        <5>1. Len(g[j]) = Len(g[j - 1]) + Len(ss[j]) /\ Len(ss[j]) \in Nat
          BY <1>4
        <5>2. \A a, b, c \in Nat : a <= b => a <= b + c
          OBVIOUS
        <5> QED
          BY <4>1, <4>3, <5>1, <5>2
      <4>5. \A m \in 1 .. Len(g[k]) : m \in 1 .. Len(g[j - 1])
        BY <4>1, <4>3
      <4>6. \A m \in 1 .. Len(g[k]) : g[j][m] = g[k][m]
        BY <1>4, <4>1, <4>5
      <4> QED
        BY <4>2, <4>4, <4>6
    <3>2. CASE k = j
      BY <1>1, <1>3, <3>2
    <3>3. CASE ~ (k <= j)
      BY <1>1, <3>3
    <3> QED
      BY <1>1, <3>1, <3>2, <3>3
  <2> HIDE DEF T
  <2>3. \A j \in 0 .. N : j \in T
    BY <1>1, <2>1, <2>2, UpTo
  <2> QED
    BY <2>3 DEF T
<1>6. ASSUME NEW k \in 1 .. N, NEW m \in 1 .. Len(ss[k])
      PROVE  FlattenSeq(ss)[Len(g[k - 1]) + m] = ss[k][m]
  <2>1. k \in 0 .. N /\ N \in 0 .. N /\ k <= N /\ k - 1 \in 0 .. N
    BY <1>1
  <2>2. \A l \in 1 .. Len(g[k]) : g[N][l] = g[k][l]
    BY <1>5, <2>1
  <2>3. Len(g[k - 1]) + m \in 1 .. Len(g[k])
    <3>1. Len(g[k - 1]) \in Nat
      BY <1>3, <2>1
    <3>2. Len(g[k]) = Len(g[k - 1]) + Len(ss[k]) /\ Len(ss[k]) \in Nat
      BY <1>4
    <3>3. Len(g[k]) \in Nat
      BY <1>3, <2>1
    <3>4. \A a \in Nat : a <= a
      OBVIOUS
    <3> HIDE DEF N
    <3>5. Len(g[k - 1]) + Len(ss[k]) <= Len(g[k])
      BY <3>2, <3>3, <3>4, Zenon
    <3> QED
      BY <3>1, <3>2, <3>3, <3>5, Within, Zenon
  <2>4. g[k][Len(g[k - 1]) + m] = ss[k][m]
    BY <1>4
  <2> QED
    BY <1>2, <2>2, <2>3, <2>4
<1> QED
  BY <1>3, <1>4, <1>5, <1>6 DEF N, InPlace

\* In an injective sequence every place of every part is one of its own.
LEMMA PartsApart ==
  ASSUME NEW X, NEW ss \in Parts(X), IsInjective(FlattenSeq(ss)),
         NEW k \in 1 .. Len(ss), NEW j \in 1 .. Len(ss),
         NEW m \in 1 .. Len(ss[k]), NEW n \in 1 .. Len(ss[j]), ss[k][m] = ss[j][n]
  PROVE  k = j /\ m = n
<1> DEFINE N == Len(ss)
           s == FlattenSeq(ss)
<1>1. PICK g : g \in LaidOut(ss, X)
  BY Layout
<1>2. N \in Nat /\ s = g[N] /\ g[N] \in Seq(X)
  <2>1. N \in Nat /\ N \in 0 .. N
    BY DEF Parts
  <2> QED
    BY <1>1, <2>1, Flattening DEF LaidOut
<1>3. /\ \A l \in 0 .. N : Len(g[l]) \in Nat
      /\ \A l \in 1 .. N : Len(g[l]) = Len(g[l - 1]) + Len(ss[l])
      /\ \A l, i \in 0 .. N : l <= i => Len(g[l]) <= Len(g[i])
      /\ \A l \in 1 .. N : \A i \in 1 .. Len(ss[l]) : s[Len(g[l - 1]) + i] = ss[l][i]
  <2>1. InPlace(ss, g)
    <3> HIDE DEF N, s
    <3> QED
      BY <1>1, PartsInPlace
  <2> QED
    BY <2>1, Zenon DEF InPlace
<1>4. k \in 1 .. N /\ j \in 1 .. N /\ DOMAIN s = 1 .. Len(g[N])
  BY <1>2
<1>5. Len(ss[k]) \in Nat /\ Len(ss[j]) \in Nat
  BY DEF Parts
<1>6. s[Len(g[k - 1]) + m] = s[Len(g[j - 1]) + n]
  BY <1>3, <1>4
<1>7. \A a, b \in DOMAIN s : s[a] = s[b] => a = b
  BY DEF IsInjective
<1> DEFINE at == [l \in 0 .. N |-> Len(g[l])]
           K == Len(ss[k])
           J == Len(ss[j])
<1> HIDE DEF N, s
<1>8. /\ k - 1 \in 0 .. N /\ k \in 0 .. N /\ j - 1 \in 0 .. N /\ j \in 0 .. N
      /\ N \in 0 .. N /\ k <= N /\ j <= N
  BY <1>2, <1>4
<1>9. /\ at \in [0 .. N -> Nat]
      /\ at[k] = at[k - 1] + K /\ at[j] = at[j - 1] + J
      /\ \A l, i \in 0 .. N : l <= i => at[l] <= at[i]
  BY <1>3, <1>4, <1>8
<1>10. s[at[k - 1] + m] = s[at[j - 1] + n] /\ DOMAIN s = 1 .. at[N]
  BY <1>4, <1>6, <1>8
<1>11. m \in 1 .. K /\ n \in 1 .. J /\ K \in Nat /\ J \in Nat
  BY <1>5
<1> HIDE DEF at, K, J
<1>12. /\ at[k - 1] \in Nat /\ at[j - 1] \in Nat /\ at[k] \in Nat /\ at[j] \in Nat /\ at[N] \in Nat
       /\ at[k] <= at[N] /\ at[j] <= at[N]
  BY <1>8, <1>9
<1>13. at[k - 1] + m = at[j - 1] + n
  <2>1. at[k - 1] + m \in 1 .. at[N] /\ at[j - 1] + n \in 1 .. at[N]
    <3>1. at[k - 1] + K <= at[N] /\ at[j - 1] + J <= at[N]
      BY <1>9, <1>12
    <3> QED
      BY <1>11, <1>12, <3>1, Within
  <2> QED
    BY <1>7, <1>10, <2>1
<1>14. k = j
  <2>1. k <= j - 1 => at[k] <= at[j - 1]
    BY <1>8, <1>9
  <2>2. j <= k - 1 => at[j] <= at[k - 1]
    BY <1>8, <1>9
  <2>3. ~ (k <= j - 1) /\ ~ (j <= k - 1)
    <3>1. ~ (at[k - 1] + K <= at[j - 1]) /\ ~ (at[j - 1] + J <= at[k - 1])
      BY <1>11, <1>12, <1>13, Between
    <3> QED
      BY <1>9, <2>1, <2>2, <3>1
  <2> QED
    BY <1>2, <1>4, <2>3
<1> QED
  BY <1>12, <1>11, <1>13, <1>14

\* One more part, and all but the last.
LEMMA PartsMore ==
  ASSUME NEW X, NEW ss \in Parts(X), NEW s \in Seq(X)
  PROVE  /\ Append(ss, s) \in Parts(X)
         /\ Len(ss) \in Nat /\ Len(Append(ss, s)) = Len(ss) + 1
         /\ Append(ss, s)[Len(ss) + 1] = s
         /\ \A k \in 1 .. Len(ss) : Append(ss, s)[k] = ss[k]
<1> DEFINE S == Seq(X)
<1>1. s \in S /\ ss \in Seq(S)
  BY DEF Parts
<1> HIDE DEF S
<1>2. /\ Append(ss, s) \in Seq(S)
      /\ Len(ss) \in Nat /\ Len(Append(ss, s)) = Len(ss) + 1
      /\ Append(ss, s)[Len(ss) + 1] = s
      /\ \A k \in 1 .. Len(ss) : Append(ss, s)[k] = ss[k]
  BY <1>1
<1> QED
  BY <1>2 DEF Parts, S

LEMMA PartsLast ==
  ASSUME NEW X, NEW ss \in Parts(X), ss # <<>>
  PROVE  /\ Front(ss) \in Parts(X) /\ Last(ss) \in Seq(X)
         /\ Append(Front(ss), Last(ss)) = ss
         /\ Len(ss) \in Nat /\ Len(Front(ss)) = Len(ss) - 1 /\ Len(ss) >= 1
         /\ Last(ss) = ss[Len(ss)]
         /\ \A k \in 1 .. Len(ss) - 1 : Front(ss)[k] = ss[k]
<1> DEFINE S == Seq(X)
<1>1. ss \in Seq(S)
  BY DEF Parts
<1> HIDE DEF S
<1>2. /\ Front(ss) \in Seq(S) /\ Last(ss) \in S
      /\ Len(ss) \in Nat /\ Len(Front(ss)) = Len(ss) - 1 /\ Len(ss) >= 1
      /\ Last(ss) = ss[Len(ss)]
      /\ \A k \in 1 .. Len(ss) - 1 : Front(ss)[k] = ss[k]
  <2>1. Len(ss) \in Nat /\ Len(ss) >= 1 /\ \A k \in 1 .. Len(ss) : ss[k] \in S
    BY <1>1
  <2>2. /\ SubSeq(ss, 1, Len(ss) - 1) \in Seq(S)
        /\ Len(SubSeq(ss, 1, Len(ss) - 1)) = Len(ss) - 1
        /\ \A k \in 1 .. Len(ss) - 1 : SubSeq(ss, 1, Len(ss) - 1)[k] = ss[k]
    <3> DEFINE m == Len(ss) - 1
    <3>1. m \in Nat /\ 1 \in Int /\ m \in Int /\ (\A i \in 1 .. m : ss[i] \in S)
      BY <2>1
    <3> HIDE DEF m
    <3>2. m - 1 + 1 = m /\ (\A k \in 1 .. m : 1 + k - 1 = k) /\ (IF 1 <= m THEN m - 1 + 1 ELSE 0) = m
      BY <3>1
    <3>3. /\ SubSeq(ss, 1, m) \in Seq(S) /\ Len(SubSeq(ss, 1, m)) = m
          /\ \A k \in 1 .. m : SubSeq(ss, 1, m)[k] = ss[k]
      BY <3>1, <3>2, SubSeqProperties
    <3> QED
      BY <3>3 DEF m
  <2> QED
    BY <2>1, <2>2 DEF Front, Last
<1>3. Append(Front(ss), Last(ss)) = ss
  <2> DEFINE f == Front(ss)
             l == Last(ss)
             t == Append(f, l)
  <2>1. /\ t \in Seq(S) /\ Len(t) = Len(f) + 1 /\ t[Len(f) + 1] = l
        /\ \A k \in 1 .. Len(f) : t[k] = f[k]
    <3> HIDE DEF f, l
    <3>1. f \in Seq(S) /\ l \in S
      BY <1>2 DEF f, l
    <3> QED
      BY <3>1
  <2>2. Len(t) = Len(ss) /\ \A k \in 1 .. Len(t) : t[k] = ss[k]
    <3> HIDE DEF t
    <3>1. \A k \in 1 .. Len(ss) : k \in 1 .. Len(ss) - 1 \/ k = Len(ss)
      BY <1>2
    <3>2. (Len(ss) - 1) + 1 = Len(ss)
      BY <1>2
    <3> QED
      BY <1>2, <2>1, <3>1, <3>2
  <2> HIDE DEF t
  <2>3. t = ss
    BY <1>1, <2>1, <2>2, SeqEqual
  <2> QED
    BY <2>3 DEF t
<1> QED
  BY <1>2, <1>3 DEF Parts, S

-----------------------------------------------------------------------------
(* Steps of two. *)

\* Of two numbers next to each other one is even.
LEMMA Halves == ASSUME NEW a \in Nat PROVE \E d \in Nat : a = 2 * d \/ a = 2 * d + 1
<1>1. a \div 2 \in Nat /\ (a = 2 * (a \div 2) \/ a = 2 * (a \div 2) + 1)
  OBVIOUS
<1> QED
  BY <1>1

\* Steps of at most two that get as far as steps of two are steps of two.
LEMMA AllTwos ==
  ASSUME NEW n \in Nat, NEW at \in [0 .. n -> Nat], at[0] = 0, at[n] = 2 * n,
         \A k \in 1 .. n : at[k] <= at[k - 1] + 2
  PROVE  \A k \in 0 .. n : at[k] = 2 * k
<1> DEFINE T == {k \in 0 .. n : at[k] <= 2 * k}
<1>1. 0 \in T
  OBVIOUS
<1>2. ASSUME NEW k \in 1 .. n, k - 1 \in T
      PROVE  k \in T
  <2>1. k \in 0 .. n /\ k - 1 \in 0 .. n /\ at[k - 1] <= 2 * (k - 1)
    BY <1>2
  <2>2. at[k] \in Nat /\ at[k - 1] \in Nat /\ at[k] <= at[k - 1] + 2
    BY <2>1
  <2> QED
    BY <2>1, <2>2
<1> HIDE DEF T
<1>3. \A k \in 0 .. n : k \in T
  BY <1>1, <1>2, UpTo
<1>4. ASSUME NEW k \in 0 .. n
      PROVE  at[k] >= 2 * k
  <2> DEFINE U == {j \in 0 .. n : k <= j => at[j] + 2 * k <= at[k] + 2 * j}
  <2>1. 0 \in U
    <3>1. k <= 0 => k = 0
      OBVIOUS
    <3> QED
      BY <3>1
  <2>2. ASSUME NEW j \in 1 .. n, j - 1 \in U
        PROVE  j \in U
    <3>1. /\ j \in 0 .. n /\ j - 1 \in 0 .. n
          /\ k <= j - 1 => at[j - 1] + 2 * k <= at[k] + 2 * (j - 1)
      BY <2>2
    <3>2. at[j] \in Nat /\ at[j - 1] \in Nat /\ at[k] \in Nat /\ at[j] <= at[j - 1] + 2
      BY <3>1
    <3>3. CASE k <= j - 1
      <4>1. at[j - 1] + 2 * k <= at[k] + 2 * (j - 1)
        BY <3>1, <3>3
      <4>2. at[j] + 2 * k <= at[k] + 2 * j
        BY <3>2, <4>1
      <4> QED
        BY <3>1, <4>2
    <3>4. CASE k = j
      BY <3>1, <3>2, <3>4
    <3>5. CASE ~ (k <= j)
      BY <3>1, <3>5
    <3> QED
      BY <3>3, <3>4, <3>5
  <2> HIDE DEF U
  <2>3. \A j \in 0 .. n : j \in U
    BY <2>1, <2>2, UpTo
  <2>4. n \in 0 .. n /\ k <= n
    OBVIOUS
  <2>5. at[n] + 2 * k <= at[k] + 2 * n
    BY <2>3, <2>4 DEF U
  <2> QED
    BY <2>5
<1>5. \A k \in 0 .. n : at[k] <= 2 * k
  BY <1>3 DEF T
<1> QED
  BY <1>4, <1>5
=============================================================================
