--------------------------- MODULE RuleEditor_proofs ---------------------------
(***************************************************************************)
(* What is proved of RuleEditor for any pages, rules, clicks and failures. *)
(* First what the helpers on lists compute, by induction over the lists;   *)
(* the induction is that of WellFoundedInduction, on sets.                 *)
(***************************************************************************)
EXTENDS RuleEditor, SequenceTheorems, WellFoundedInduction, TLAPS

-----------------------------------------------------------------------------
(* Induction.                                                              *)

LEMMA LeastIs ==
    ASSUME NEW T, T \subseteq Nat, T # {}
    PROVE  \E x \in T : \A y \in T : x <= y
  <1> DEFINE R == {ss \in Nat \X Nat : ss[1] < ss[2]}
  <1>1. IsWellFoundedOn(R, Nat)
    BY NatLessThanWellFounded DEF OpToRel
  <1>2. PICK x \in T : \A y \in T : ~(<<y, x>> \in R)
    <2> HIDE DEF R
    <2> QED
      BY <1>1, WFMin
  <1>3. ASSUME NEW y \in T PROVE x <= y
    <2>1. ~(y < x)
      BY <1>2
    <2> QED
      BY <2>1
  <1> QED
    BY <1>2, <1>3

LEMMA Induction ==
    ASSUME NEW T, 0 \in T, \A n \in Nat : n \in T => n + 1 \in T
    PROVE  Nat \subseteq T
  <1> SUFFICES ASSUME Nat \ T # {} PROVE FALSE
    OBVIOUS
  <1>1. PICK x \in Nat \ T : \A y \in Nat \ T : x <= y
    BY LeastIs
  <1>2. x # 0 /\ x - 1 \in Nat
    BY <1>1
  <1>3. x - 1 \in T
    BY <1>1, <1>2
  <1>4. (x - 1) + 1 \in T
    BY <1>2, <1>3
  <1> QED
    BY <1>1, <1>2, <1>4

LEMMA ListInduction ==
    ASSUME NEW S, NEW T, <<>> \in T, \A s \in Seq(S), e \in S : s \in T => Append(s, e) \in T
    PROVE  Seq(S) \subseteq T
  <1> DEFINE N == {n \in Nat : \A s \in Seq(S) : Len(s) = n => s \in T}
  <1>1. 0 \in N
    <2>1. ASSUME NEW s \in Seq(S), Len(s) = 0 PROVE s \in T
      BY <2>1, EmptySeq
    <2> QED
      BY <2>1
  <1>2. ASSUME NEW n \in Nat, n \in N PROVE n + 1 \in N
    <2>1. ASSUME NEW s \in Seq(S), Len(s) = n + 1 PROVE s \in T
      <3>1. s # <<>>
        BY <1>2, <2>1, EmptySeq
      <3>2. PICK t \in Seq(S), e \in S : s = Append(t, e)
        BY <3>1, SequenceEmptyOrAppend
      <3>3. Len(t) = n
        BY <1>2, <2>1, <3>2, AppendProperties, LenProperties
      <3> QED
        BY <1>2, <3>2, <3>3
    <2> QED
      BY <2>1
  <1>3. Nat \subseteq N
    <2> HIDE DEF N
    <2> QED
      BY <1>1, <1>2, Induction
  <1> QED
    BY <1>3, LenProperties

-----------------------------------------------------------------------------
(* Without.                                                                *)

IsKept(f, s, id) ==
    f = [i \in 0..Len(s) |-> IF i = 0 THEN <<>>
                             ELSE IF s[i].id = id THEN f[i - 1] ELSE Append(f[i - 1], s[i])]

LEMMA KeptStep ==
    ASSUME NEW S, NEW s \in Seq(S), NEW e \in S, NEW id, NEW f, IsKept(f, s, id),
           NEW g, g = [i \in 0..(Len(s) + 1) |-> IF i <= Len(s) THEN f[i]
                                                 ELSE IF e.id = id THEN f[Len(s)] ELSE Append(f[Len(s)], e)]
    PROVE  IsKept(g, Append(s, e), id)
  <1> DEFINE t == Append(s, e)
             n == Len(s)
  <1>1. n \in Nat /\ Len(t) = n + 1 /\ t[n + 1] = e /\ \A i \in 1..n : t[i] = s[i]
    BY LenProperties, AppendProperties
  <1>2. /\ f[0] = <<>>
        /\ \A i \in 1..n : f[i] = IF s[i].id = id THEN f[i - 1] ELSE Append(f[i - 1], s[i])
    <2>1. \A i \in 0..n : f[i] = IF i = 0 THEN <<>>
                                 ELSE IF s[i].id = id THEN f[i - 1] ELSE Append(f[i - 1], s[i])
      BY Zenon DEF IsKept
    <2> QED
      BY <1>1, <2>1
  <1> HIDE DEF t, n
  <1>3. g[0] = <<>> /\ g[n + 1] = (IF e.id = id THEN f[n] ELSE Append(f[n], e)) /\ \A i \in 0..n : g[i] = f[i]
    BY <1>1, <1>2 DEF n
  <1>4. ASSUME NEW i \in 0..(n + 1)
        PROVE  g[i] = IF i = 0 THEN <<>> ELSE IF t[i].id = id THEN g[i - 1] ELSE Append(g[i - 1], t[i])
    <2>1. CASE i = 0
      BY <1>3, <2>1
    <2>2. CASE i \in 1..n
      <3>1. i # 0 /\ i - 1 \in 0..n /\ i \in 0..n
        BY <1>1, <2>2
      <3> QED
        BY <1>1, <1>2, <1>3, <2>2, <3>1, Zenon
    <2>3. CASE i = n + 1
      <3>1. i # 0 /\ i - 1 = n /\ n \in 0..n
        BY <1>1, <2>3
      <3> QED
        BY <1>1, <1>3, <2>3, <3>1, Zenon
    <2> QED
      BY <1>1, <2>1, <2>2, <2>3
  <1>5. g = [i \in 0..(n + 1) |-> g[i]]
    BY DEF n
  <1>6. g = [i \in 0..(n + 1) |-> IF i = 0 THEN <<>>
                                  ELSE IF t[i].id = id THEN g[i - 1] ELSE Append(g[i - 1], t[i])]
    BY <1>4, <1>5, Zenon
  <1> QED
    BY <1>1, <1>6 DEF IsKept, t

LEMMA KeptExists ==
    ASSUME NEW S, NEW id
    PROVE  \A s \in Seq(S) : \E f : IsKept(f, s, id)
  <1> DEFINE T == {s \in Seq(S) : \E f : IsKept(f, s, id)}
  <1>1. <<>> \in T
    <2>1. Len(<<>>) = 0 /\ <<>> \in Seq(S)
      BY EmptySeq
    <2> DEFINE f == [i \in 0..0 |-> <<>>]
    <2>2. f = [i \in 0..0 |-> IF i = 0 THEN <<>>
                              ELSE IF <<>>[i].id = id THEN f[i - 1] ELSE Append(f[i - 1], <<>>[i])]
      <3>1. \A i \in 0..0 : i = 0
        OBVIOUS
      <3> QED
        BY <3>1, Zenon
    <2>3. IsKept(f, <<>>, id)
      BY <2>1, <2>2 DEF IsKept
    <2> QED
      BY <2>1, <2>3
  <1>2. ASSUME NEW s \in Seq(S), NEW e \in S, s \in T PROVE Append(s, e) \in T
    <2>1. PICK f : IsKept(f, s, id)
      BY <1>2
    <2>2. \E g : IsKept(g, Append(s, e), id)
      BY <2>1, KeptStep
    <2> QED
      BY <2>2, AppendProperties
  <1> HIDE DEF T
  <1>3. Seq(S) \subseteq T
    BY <1>1, <1>2, ListInduction
  <1> QED
    BY <1>3 DEF T

\* Two ways to keep agree on the prefix the lists share.
LEMMA KeptAgree ==
    ASSUME NEW s, NEW t, NEW id, NEW f, NEW g, IsKept(f, s, id), IsKept(g, t, id),
           Len(s) \in Nat, Len(t) \in Nat, NEW n \in Nat, n <= Len(s), n <= Len(t),
           \A i \in 1..n : s[i] = t[i]
    PROVE  f[n] = g[n]
  <1> DEFINE T == {k \in Nat : k <= n => f[k] = g[k]}
  <1>1. \A i \in 0..Len(s) : f[i] = IF i = 0 THEN <<>>
                                    ELSE IF s[i].id = id THEN f[i - 1] ELSE Append(f[i - 1], s[i])
    BY Zenon DEF IsKept
  <1>2. \A i \in 0..Len(t) : g[i] = IF i = 0 THEN <<>>
                                    ELSE IF t[i].id = id THEN g[i - 1] ELSE Append(g[i - 1], t[i])
    BY Zenon DEF IsKept
  <1>3. 0 \in T
    BY <1>1, <1>2
  <1>4. ASSUME NEW k \in Nat, k \in T PROVE k + 1 \in T
    <2> SUFFICES ASSUME k + 1 <= n PROVE f[k + 1] = g[k + 1]
      OBVIOUS
    <2>1. f[k] = g[k] /\ s[k + 1] = t[k + 1] /\ k + 1 # 0 /\ (k + 1) - 1 = k
      BY <1>4
    <2>2. k + 1 \in 0..Len(s) /\ k + 1 \in 0..Len(t)
      OBVIOUS
    <2>3. /\ f[k + 1] = IF s[k + 1].id = id THEN f[k] ELSE Append(f[k], s[k + 1])
          /\ g[k + 1] = IF t[k + 1].id = id THEN g[k] ELSE Append(g[k], t[k + 1])
      BY <1>1, <1>2, <2>1, <2>2
    <2> QED
      BY <2>1, <2>3, Zenon
  <1> HIDE DEF T
  <1>5. n \in T
    BY <1>3, <1>4, Induction
  <1> QED
    BY <1>5 DEF T

LEMMA WithoutIs ==
    ASSUME NEW S, NEW s \in Seq(S), NEW id
    PROVE  \E f : IsKept(f, s, id) /\ Without(s, id) = f[Len(s)]
  <1> DEFINE f == CHOOSE g : IsKept(g, s, id)
  <1>1. \E g : IsKept(g, s, id)
    BY KeptExists
  <1>2. IsKept(f, s, id)
    BY <1>1, Zenon
  <1>3. Without(s, id) = f[Len(s)]
    BY DEF Without, IsKept
  <1> QED
    BY <1>2, <1>3

LEMMA WithoutEmpty == \A id : Without(<<>>, id) = <<>>
  <1> SUFFICES ASSUME NEW id PROVE Without(<<>>, id) = <<>>
    OBVIOUS
  <1>1. <<>> \in Seq({}) /\ Len(<<>>) = 0
    BY EmptySeq
  <1>2. PICK f : IsKept(f, <<>>, id) /\ Without(<<>>, id) = f[0]
    BY <1>1, WithoutIs
  <1>3. \A i \in 0..0 : f[i] = IF i = 0 THEN <<>>
                               ELSE IF <<>>[i].id = id THEN f[i - 1] ELSE Append(f[i - 1], <<>>[i])
    BY <1>1, <1>2, Zenon DEF IsKept
  <1>4. f[0] = <<>>
    BY <1>3
  <1> QED
    BY <1>2, <1>4

LEMMA WithoutAppend ==
    ASSUME NEW S, NEW s \in Seq(S), NEW e \in S, NEW id
    PROVE  Without(Append(s, e), id) = IF e.id = id THEN Without(s, id) ELSE Append(Without(s, id), e)
  <1> DEFINE n == Len(s)
  <1>1. /\ n \in Nat /\ Append(s, e) \in Seq(S) /\ Len(Append(s, e)) = n + 1
        /\ Append(s, e)[n + 1] = e /\ \A i \in 1..n : Append(s, e)[i] = s[i]
    BY LenProperties, AppendProperties
  <1> DEFINE t == Append(s, e)
  <1>2. PICK f : IsKept(f, s, id) /\ Without(s, id) = f[n]
    BY WithoutIs
  <1>3. PICK g : IsKept(g, t, id) /\ Without(t, id) = g[n + 1]
    BY <1>1, WithoutIs
  <1> HIDE DEF t, n
  <1>4. f[n] = g[n]
    <2>1. Len(s) \in Nat /\ Len(t) \in Nat /\ n <= Len(s) /\ n <= Len(t) /\ \A i \in 1..n : s[i] = t[i]
      BY <1>1 DEF n, t
    <2> QED
      BY <1>1, <1>2, <1>3, <2>1, KeptAgree
  <1>5. \A i \in 0..Len(t) : g[i] = IF i = 0 THEN <<>>
                                    ELSE IF t[i].id = id THEN g[i - 1] ELSE Append(g[i - 1], t[i])
    BY <1>3, Zenon DEF IsKept
  <1>6. n + 1 \in 0..Len(t) /\ n + 1 # 0 /\ (n + 1) - 1 = n /\ t[n + 1] = e
    BY <1>1 DEF t
  <1>7. g[n + 1] = IF e.id = id THEN g[n] ELSE Append(g[n], e)
    BY <1>5, <1>6
  <1> QED
    BY <1>2, <1>3, <1>4, <1>7 DEF t

\* What is left is a list of the same things, and none of them has the id.
LEMMA WithoutType ==
    ASSUME NEW S, NEW id
    PROVE  \A s \in Seq(S) : /\ Without(s, id) \in Seq(S)
                            /\ \A i \in 1..Len(Without(s, id)) : Without(s, id)[i].id # id
  <1> DEFINE T == {s \in Seq(S) : /\ Without(s, id) \in Seq(S)
                                 /\ \A i \in 1..Len(Without(s, id)) : Without(s, id)[i].id # id}
  <1>1. <<>> \in T
    <2>1. <<>> \in Seq(S) /\ 1..Len(<<>>) = {} /\ Without(<<>>, id) = <<>>
      BY EmptySeq, WithoutEmpty
    <2> QED
      BY <2>1
  <1>2. ASSUME NEW s \in Seq(S), NEW e \in S, s \in T PROVE Append(s, e) \in T
    <2> DEFINE w == Without(s, id)
    <2>1. w \in Seq(S) /\ \A i \in 1..Len(w) : w[i].id # id
      BY <1>2
    <2>2. Append(s, e) \in Seq(S) /\ Without(Append(s, e), id) = IF e.id = id THEN w ELSE Append(w, e)
      BY WithoutAppend, AppendProperties
    <2> HIDE DEF w
    <2>3. CASE e.id = id
      BY <2>1, <2>2, <2>3
    <2>4. CASE e.id # id
      <3>1. /\ Append(w, e) \in Seq(S) /\ Len(w) \in Nat /\ Len(Append(w, e)) = Len(w) + 1
            /\ Append(w, e)[Len(w) + 1] = e /\ \A i \in 1..Len(w) : Append(w, e)[i] = w[i]
        BY <2>1, AppendProperties, LenProperties
      <3>2. \A i \in 1..Len(Append(w, e)) : Append(w, e)[i].id # id
        <4>1. \A i \in 1..Len(Append(w, e)) : i \in 1..Len(w) \/ i = Len(w) + 1
          BY <3>1
        <4> QED
          BY <2>1, <2>4, <3>1, <4>1, Zenon
      <3> QED
        BY <2>2, <2>4, <3>1, <3>2
    <2> QED
      BY <2>3, <2>4
  <1> HIDE DEF T
  <1>3. Seq(S) \subseteq T
    BY <1>1, <1>2, ListInduction
  <1> QED
    BY <1>3 DEF T

LEMMA WithoutNone ==
    ASSUME NEW S, NEW id
    PROVE  \A s \in Seq(S) : (\A i \in 1..Len(s) : s[i].id # id) => Without(s, id) = s
  <1> DEFINE T == {s \in Seq(S) : (\A i \in 1..Len(s) : s[i].id # id) => Without(s, id) = s}
  <1>1. <<>> \in T
    BY EmptySeq, WithoutEmpty
  <1>2. ASSUME NEW s \in Seq(S), NEW e \in S, s \in T PROVE Append(s, e) \in T
    <2>1. /\ Append(s, e) \in Seq(S) /\ Len(s) \in Nat /\ Len(Append(s, e)) = Len(s) + 1
          /\ Append(s, e)[Len(s) + 1] = e /\ \A i \in 1..Len(s) : Append(s, e)[i] = s[i]
      BY AppendProperties, LenProperties
    <2>2. ASSUME \A i \in 1..Len(Append(s, e)) : Append(s, e)[i].id # id
          PROVE  Without(Append(s, e), id) = Append(s, e)
      <3>1. e.id # id
        BY <2>1, <2>2
      <3>2. \A i \in 1..Len(s) : i \in 1..Len(Append(s, e)) /\ Append(s, e)[i] = s[i]
        BY <2>1
      <3>3. \A i \in 1..Len(s) : s[i].id # id
        BY <2>2, <3>2, Zenon
      <3>4. Without(s, id) = s
        BY <1>2, <3>3
      <3> QED
        BY <3>1, <3>4, WithoutAppend
    <2> QED
      BY <2>1, <2>2
  <1> HIDE DEF T
  <1>3. Seq(S) \subseteq T
    BY <1>1, <1>2, ListInduction
  <1> QED
    BY <1>3 DEF T

LEMMA AppendOfConcat ==
    ASSUME NEW S, NEW s \in Seq(S), NEW t \in Seq(S), NEW e \in S
    PROVE  s \o Append(t, e) = Append(s \o t, e)
  <1>1. <<e>> \in Seq(S) /\ s \o t \in Seq(S)
    BY ConcatProperties
  <1>2. Append(t, e) = t \o <<e>> /\ Append(s \o t, e) = (s \o t) \o <<e>>
    BY <1>1, AppendIsConcat
  <1> QED
    BY <1>1, <1>2, ConcatAssociative

LEMMA WithoutConcat ==
    ASSUME NEW S, NEW s \in Seq(S), NEW id
    PROVE  \A t \in Seq(S) : Without(s \o t, id) = Without(s, id) \o Without(t, id)
  <1> DEFINE T == {t \in Seq(S) : Without(s \o t, id) = Without(s, id) \o Without(t, id)}
  <1>1. Without(s, id) \in Seq(S)
    BY WithoutType
  <1>2. <<>> \in T
    <2>1. s \o <<>> = s /\ Without(s, id) \o <<>> = Without(s, id) /\ <<>> \in Seq(S)
      BY <1>1, ConcatEmptySeq, EmptySeq
    <2> QED
      BY <2>1, WithoutEmpty
  <1>3. ASSUME NEW t \in Seq(S), NEW e \in S, t \in T PROVE Append(t, e) \in T
    <2> DEFINE a == Without(s, id)
               b == Without(t, id)
    <2>1. Without(s \o t, id) = a \o b /\ a \in Seq(S) /\ b \in Seq(S) /\ s \o t \in Seq(S) /\ Append(t, e) \in Seq(S)
      BY <1>1, <1>3, WithoutType, ConcatProperties, AppendProperties
    <2>2. Without(Append(t, e), id) = IF e.id = id THEN b ELSE Append(b, e)
      BY WithoutAppend
    <2>3. Without(Append(s \o t, e), id) = IF e.id = id THEN Without(s \o t, id) ELSE Append(Without(s \o t, id), e)
      BY <2>1, WithoutAppend
    <2>4. s \o Append(t, e) = Append(s \o t, e) /\ a \o Append(b, e) = Append(a \o b, e)
      BY <2>1, AppendOfConcat
    <2> HIDE DEF a, b
    <2>5. Without(s \o Append(t, e), id) = a \o Without(Append(t, e), id)
      BY <2>1, <2>2, <2>3, <2>4, Zenon
    <2> QED
      BY <2>1, <2>5 DEF a
  <1> HIDE DEF T
  <1>4. Seq(S) \subseteq T
    BY <1>2, <1>3, ListInduction
  <1> QED
    BY <1>4 DEF T

\* What has the id makes no difference.
LEMMA WithoutAlike ==
    ASSUME NEW S, NEW id
    PROVE  \A s \in Seq(S) : \A t \in Seq(S) :
               /\ Len(t) = Len(s)
               /\ \A i \in 1..Len(s) : s[i] = t[i] \/ (s[i].id = id /\ t[i].id = id)
               => Without(s, id) = Without(t, id)
  <1> DEFINE Alike(s, t) == /\ Len(t) = Len(s)
                            /\ \A i \in 1..Len(s) : s[i] = t[i] \/ (s[i].id = id /\ t[i].id = id)
             T == {s \in Seq(S) : \A t \in Seq(S) : Alike(s, t) => Without(s, id) = Without(t, id)}
  <1>1. <<>> \in T
    BY EmptySeq
  <1>2. ASSUME NEW s \in Seq(S), NEW e \in S, s \in T PROVE Append(s, e) \in T
    <2>1. /\ Append(s, e) \in Seq(S) /\ Len(s) \in Nat /\ Len(Append(s, e)) = Len(s) + 1
          /\ Append(s, e)[Len(s) + 1] = e /\ \A i \in 1..Len(s) : Append(s, e)[i] = s[i]
      BY AppendProperties, LenProperties
    <2>2. ASSUME NEW t \in Seq(S), Alike(Append(s, e), t)
          PROVE  Without(Append(s, e), id) = Without(t, id)
      <3>1. t # <<>>
        BY <2>1, <2>2, EmptySeq
      <3>2. PICK u \in Seq(S), d \in S : t = Append(u, d)
        BY <3>1, SequenceEmptyOrAppend
      <3>3. /\ Len(u) \in Nat /\ Len(t) = Len(u) + 1 /\ t[Len(u) + 1] = d
            /\ \A i \in 1..Len(u) : t[i] = u[i]
        BY <3>2, AppendProperties, LenProperties
      <3>4. Len(u) = Len(s)
        BY <2>1, <2>2, <3>3
      <3>5. e = d \/ (e.id = id /\ d.id = id)
        <4>1. Len(s) + 1 \in 1..Len(Append(s, e))
          BY <2>1
        <4> QED
          BY <2>1, <2>2, <3>3, <3>4, <4>1
      <3>6. Alike(s, u)
        <4>1. \A i \in 1..Len(s) : i \in 1..Len(Append(s, e)) /\ Append(s, e)[i] = s[i] /\ t[i] = u[i]
          BY <2>1, <3>3, <3>4
        <4>2. \A i \in 1..Len(s) : s[i] = u[i] \/ (s[i].id = id /\ u[i].id = id)
          BY <2>2, <4>1, Zenon
        <4> QED
          BY <3>4, <4>2
      <3>7. Without(s, id) = Without(u, id)
        BY <1>2, <3>6
      <3>8. /\ Without(Append(s, e), id) = IF e.id = id THEN Without(s, id) ELSE Append(Without(s, id), e)
            /\ Without(t, id) = IF d.id = id THEN Without(u, id) ELSE Append(Without(u, id), d)
        BY <3>2, WithoutAppend
      <3>9. CASE e = d
        BY <3>7, <3>8, <3>9
      <3>10. CASE e.id = id /\ d.id = id
        BY <3>7, <3>8, <3>10
      <3> QED
        BY <3>5, <3>9, <3>10
    <2> QED
      BY <2>1, <2>2
  <1>3. Seq(S) \subseteq T
    <2> HIDE DEF T
    <2> QED
      BY <1>1, <1>2, ListInduction
  <1> QED
    BY <1>3

-----------------------------------------------------------------------------
(* The place of a rule.                                                    *)

LEMMA IndexIs ==
    ASSUME NEW S, NEW s \in Seq(S), NEW id
    PROVE  /\ IndexOf(s, id) \in 0..Len(s)
           /\ IndexOf(s, id) = 0 => \A i \in 1..Len(s) : s[i].id # id
           /\ IndexOf(s, id) # 0 => s[IndexOf(s, id)].id = id
  <1> DEFINE I == {i \in 1..Len(s) : s[i].id = id}
  <1>1. IndexOf(s, id) = IF I # {} THEN Min(I) ELSE 0
    BY DEF IndexOf, SelectInSeq
  <1>2. Len(s) \in Nat
    BY LenProperties
  <1>3. ASSUME I # {} PROVE Min(I) \in I
    <2>1. I \subseteq Nat
      OBVIOUS
    <2>2. \E x \in I : \A y \in I : x <= y
      BY <1>3, <2>1, LeastIs
    <2> HIDE DEF I
    <2> QED
      BY <2>2 DEF Min
  <1> QED
    BY <1>1, <1>2, <1>3

Joined(u, e, v) == u \o (<<e>> \o v)

LEMMA WithoutJoined ==
    ASSUME NEW S, NEW u \in Seq(S), NEW v \in Seq(S), NEW e \in S, NEW id, e.id = id,
           \A i \in 1..Len(u) : u[i].id # id, \A i \in 1..Len(v) : v[i].id # id
    PROVE  Without(Joined(u, e, v), id) = u \o v
  <1>1. PICK x : x = <<e>>
    OBVIOUS
  <1>2. x \in Seq(S) /\ Without(x, id) = <<>>
    <2>1. <<>> \in Seq(S) /\ x = Append(<<>>, e)
      BY <1>1, EmptySeq
    <2>2. Without(Append(<<>>, e), id) = Without(<<>>, id)
      BY <2>1, WithoutAppend
    <2> QED
      BY <2>1, <2>2, WithoutEmpty, AppendProperties
  <1>3. Without(u, id) = u /\ Without(v, id) = v
    BY WithoutNone
  <1>4. x \o v \in Seq(S) /\ <<>> \o v = v
    BY <1>2, ConcatProperties, ConcatEmptySeq
  <1>5. Without(x \o v, id) = Without(x, id) \o Without(v, id)
    <2>1. x \in Seq(S)
      BY <1>2
    <2> QED
      BY <2>1, WithoutConcat
  <1>6. PICK y : y = x \o v
    OBVIOUS
  <1>7. y \in Seq(S)
    BY <1>4, <1>6, Zenon
  <1>8. Without(u \o y, id) = Without(u, id) \o Without(y, id)
    BY <1>7, WithoutConcat
  <1> QED
    BY <1>1, <1>2, <1>3, <1>4, <1>5, <1>6, <1>8, Zenon DEF Joined

\* The list around the place k, and without it.
IsAround(u, v, s, k, n) ==
    /\ Len(u) = k - 1 /\ Len(v) = n - k
    /\ \A i \in 1..(k - 1) : u[i] = s[i]
    /\ \A i \in 1..(n - k) : v[i] = s[k + i]
    /\ s = Joined(u, s[k], v)

LEMMA Around ==
    ASSUME NEW S, NEW s \in Seq(S), NEW k \in 1..Len(s)
    PROVE  \E u \in Seq(S), v \in Seq(S) : IsAround(u, v, s, k, Len(s))
  <1> DEFINE u == SubSeq(s, 1, k - 1)
             v == SubSeq(s, k + 1, Len(s))
  <1>1. Len(s) \in Nat /\ k \in Nat /\ k >= 1 /\ k <= Len(s) /\ \A i \in 1..Len(s) : s[i] \in S
    BY LenProperties, ElementOfSeq
  <1>2. u \in Seq(S) /\ Len(u) = k - 1 /\ \A i \in 1..(k - 1) : u[i] = s[i]
    <2>1. 1 \in Int /\ k - 1 \in Int /\ \A i \in 1..(k - 1) : s[i] \in S
      BY <1>1
    <2>2. /\ SubSeq(s, 1, k - 1) \in Seq(S)
          /\ Len(SubSeq(s, 1, k - 1)) = IF 1 <= k - 1 THEN (k - 1) - 1 + 1 ELSE 0
          /\ \A i \in 1..((k - 1) - 1 + 1) : SubSeq(s, 1, k - 1)[i] = s[1 + i - 1]
      BY <2>1, SubSeqProperties
    <2>3. (IF 1 <= k - 1 THEN (k - 1) - 1 + 1 ELSE 0) = k - 1 /\ (k - 1) - 1 + 1 = k - 1
      BY <1>1
    <2>4. \A i \in 1..(k - 1) : 1 + i - 1 = i
      BY <1>1
    <2> QED
      BY <2>2, <2>3, <2>4, Zenon
  <1>3. v \in Seq(S) /\ Len(v) = Len(s) - k /\ \A i \in 1..(Len(s) - k) : v[i] = s[k + i]
    <2>1. k + 1 \in Int /\ Len(s) \in Int /\ \A i \in (k + 1)..Len(s) : s[i] \in S
      BY <1>1
    <2>2. /\ SubSeq(s, k + 1, Len(s)) \in Seq(S)
          /\ Len(SubSeq(s, k + 1, Len(s))) = IF k + 1 <= Len(s) THEN Len(s) - (k + 1) + 1 ELSE 0
          /\ \A i \in 1..(Len(s) - (k + 1) + 1) : SubSeq(s, k + 1, Len(s))[i] = s[(k + 1) + i - 1]
      BY <2>1, SubSeqProperties
    <2>3. (IF k + 1 <= Len(s) THEN Len(s) - (k + 1) + 1 ELSE 0) = Len(s) - k /\ Len(s) - (k + 1) + 1 = Len(s) - k
      BY <1>1
    <2>4. \A i \in 1..(Len(s) - k) : (k + 1) + i - 1 = k + i
      BY <1>1
    <2> QED
      BY <2>2, <2>3, <2>4, Zenon
  <1>4. s = Joined(u, s[k], v)
    <2>1. SubSeq(s, k, Len(s)) = <<s[k]>> \o v
      <3>1. Len(s) \in k..Len(s)
        BY <1>1
      <3> QED
        BY <3>1, SubSeqRecursiveFirst
    <2>2. SubSeq(s, 1, k - 1) \o SubSeq(s, (k - 1) + 1, Len(s)) = SubSeq(s, 1, Len(s))
      <3>1. 1 \in 1..(Len(s) + 1) /\ k - 1 \in (1 - 1)..Len(s) /\ Len(s) \in (k - 1)..Len(s)
        BY <1>1
      <3> QED
        BY <3>1, ConcatAdjacentSubSeq
    <2>3. SubSeq(s, 1, Len(s)) = s /\ (k - 1) + 1 = k
      BY <1>1, SubSeqFull
    <2> QED
      BY <2>1, <2>2, <2>3, Zenon DEF Joined
  <1> HIDE DEF u, v
  <1>5. IsAround(u, v, s, k, Len(s))
    BY <1>2, <1>3, <1>4, Zenon DEF IsAround
  <1> QED
    BY <1>2, <1>3, <1>5

\* One rule has the id: what is left is the list with its place taken out.
TakenOut(w, s, id, k, n) ==
    /\ s \in Seq(Rules) /\ n \in Nat /\ DOMAIN s = 1..n /\ k \in 1..n /\ s[k].id = id
    /\ w \in Seq(Rules) /\ Len(w) = n - 1
    /\ \A i \in 1..(n - 1) : w[i] = IF i < k THEN s[i] ELSE s[i + 1]

LEMMA WithoutPlace ==
    ASSUME NEW s \in Lists, NEW id, IndexOf(s, id) # 0
    PROVE  TakenOut(Without(s, id), s, id, IndexOf(s, id), Len(s))
  <1>1. PICK k, n, w : k = IndexOf(s, id) /\ n = Len(s) /\ w = Without(s, id)
    OBVIOUS
  <1>2. s \in Seq(Rules) /\ n \in Nat /\ k \in 0..n /\ DOMAIN s = 1..n
    BY <1>1, IndexIs, LenProperties DEF Lists
  <1>3. k \in 1..n /\ s[k].id = id
    BY <1>1, <1>2, IndexIs
  <1>4. \A i \in 1..n : s[i].id = id => i = k
    BY <1>2, <1>3 DEF Lists, IsInjective
  <1>5. PICK u \in Seq(Rules), v \in Seq(Rules) : IsAround(u, v, s, k, n)
    BY <1>1, <1>2, <1>3, Around
  <1>6. /\ Len(u) = k - 1 /\ Len(v) = n - k
        /\ \A i \in 1..(k - 1) : u[i] = s[i]
        /\ \A i \in 1..(n - k) : v[i] = s[k + i]
        /\ s = Joined(u, s[k], v)
    BY <1>5 DEF IsAround
  <1>7. w = u \o v
    <2>1. \A i \in 1..Len(u) : u[i].id # id
      <3>1. \A i \in 1..(k - 1) : i \in 1..n /\ i # k
        BY <1>2, <1>3
      <3> QED
        BY <1>4, <1>6, <3>1
    <2>2. \A i \in 1..Len(v) : v[i].id # id
      <3>1. \A i \in 1..(n - k) : k + i \in 1..n /\ k + i # k
        BY <1>2, <1>3
      <3> QED
        BY <1>4, <1>6, <3>1
    <2>3. u \in Seq(Rules) /\ v \in Seq(Rules) /\ s[k] \in Rules
      BY <1>1, <1>2, <1>3, <1>6, ElementOfSeq
    <2>4. Without(Joined(u, s[k], v), id) = u \o v
      BY <1>3, <2>1, <2>2, <2>3, WithoutJoined
    <2> QED
      BY <1>1, <1>6, <2>4, Zenon
  <1>8. /\ w \in Seq(Rules) /\ Len(w) = n - 1
        /\ \A i \in 1..(n - 1) : w[i] = IF i < k THEN s[i] ELSE s[i + 1]
    <2>1. /\ w \in Seq(Rules) /\ Len(w) = Len(u) + Len(v)
          /\ \A i \in 1..(Len(u) + Len(v)) : w[i] = IF i <= Len(u) THEN u[i] ELSE v[i - Len(u)]
      BY <1>6, <1>7, ConcatProperties
    <2>2. Len(u) + Len(v) = n - 1
      BY <1>2, <1>3, <1>6
    <2>3. ASSUME NEW i \in 1..(n - 1) PROVE w[i] = IF i < k THEN s[i] ELSE s[i + 1]
      <3>1. w[i] = IF i <= k - 1 THEN u[i] ELSE v[i - (k - 1)]
        BY <1>6, <2>1, <2>2
      <3>2. CASE i < k
        <4>1. i <= k - 1 /\ i \in 1..(k - 1)
          BY <1>2, <1>3, <3>2
        <4> QED
          BY <1>6, <3>1, <3>2, <4>1
      <3>3. CASE ~(i < k)
        <4>1. ~(i <= k - 1) /\ i - (k - 1) \in 1..(n - k) /\ k + (i - (k - 1)) = i + 1
          BY <1>2, <1>3, <3>3
        <4>2. v[i - (k - 1)] = s[k + (i - (k - 1))]
          BY <1>6, <4>1, Zenon
        <4> QED
          BY <3>1, <3>3, <4>1, <4>2
      <3> QED
        BY <3>2, <3>3
    <2> QED
      BY <2>1, <2>2, <2>3
  <1>9. TakenOut(w, s, id, k, n)
    BY <1>2, <1>3, <1>8 DEF TakenOut
  <1> QED
    BY <1>1, <1>9, Zenon

\* submitRule: the rule takes the place of the one with its id, or comes last.
LEMMA SplicedIs ==
    ASSUME NEW s \in Lists, NEW r \in Rules
    PROVE  Spliced(s, r) = IF IndexOf(s, r.id) = 0 THEN Append(s, r) ELSE [s EXCEPT ![IndexOf(s, r.id)] = r]
  <1>1. PICK k, n, w : k = IndexOf(s, r.id) /\ n = Len(s) /\ w = Without(s, r.id)
    OBVIOUS
  <1> SUFFICES ASSUME k # 0 PROVE InsertAt(w, k, r) = [s EXCEPT ![k] = r]
    BY <1>1 DEF Spliced
  <1>2. TakenOut(w, s, r.id, k, n)
    BY <1>1, WithoutPlace, Zenon
  <1>3. s \in Seq(Rules) /\ n \in Nat /\ DOMAIN s = 1..n
    BY <1>2 DEF TakenOut
  <1>4. k \in 1..n /\ s[k].id = r.id
    BY <1>2 DEF TakenOut
  <1>5. /\ w \in Seq(Rules) /\ Len(w) = n - 1
        /\ \A i \in 1..(n - 1) : w[i] = IF i < k THEN s[i] ELSE s[i + 1]
    BY <1>2 DEF TakenOut
  <1>6. PICK a, b : a = SubSeq(w, 1, k - 1) /\ b = SubSeq(w, k, Len(w))
    OBVIOUS
  <1>7. PICK c : c = a \o <<r>>
    OBVIOUS
  <1>8. PICK t : t = c \o b
    OBVIOUS
  <1>9. InsertAt(w, k, r) = t
    BY <1>6, <1>7, <1>8, Zenon DEF InsertAt
  <1>10. a \in Seq(Rules) /\ Len(a) = k - 1 /\ \A i \in 1..(k - 1) : a[i] = s[i]
    <2>1. 1 \in Int /\ k - 1 \in Int /\ \A i \in 1..(k - 1) : i \in 1..(n - 1) /\ i < k /\ w[i] \in Rules
      BY <1>3, <1>4, <1>5, ElementOfSeq
    <2>2. /\ a \in Seq(Rules)
          /\ Len(a) = IF 1 <= k - 1 THEN (k - 1) - 1 + 1 ELSE 0
          /\ \A i \in 1..((k - 1) - 1 + 1) : a[i] = w[1 + i - 1]
      BY <1>6, <2>1, SubSeqProperties
    <2>3. (IF 1 <= k - 1 THEN (k - 1) - 1 + 1 ELSE 0) = k - 1 /\ (k - 1) - 1 + 1 = k - 1
      BY <1>3, <1>4
    <2>4. \A i \in 1..(k - 1) : 1 + i - 1 = i
      BY <1>3, <1>4
    <2>5. \A i \in 1..(k - 1) : w[i] = s[i]
      BY <1>5, <2>1
    <2> QED
      BY <2>2, <2>3, <2>4, <2>5, Zenon
  <1>11. b \in Seq(Rules) /\ Len(b) = n - k /\ \A i \in 1..(n - k) : b[i] = s[k + i]
    <2>1. k \in Int /\ Len(w) \in Int /\ \A i \in k..Len(w) : w[i] \in Rules
      BY <1>3, <1>4, <1>5, ElementOfSeq
    <2>2. /\ b \in Seq(Rules)
          /\ Len(b) = IF k <= Len(w) THEN Len(w) - k + 1 ELSE 0
          /\ \A i \in 1..(Len(w) - k + 1) : b[i] = w[k + i - 1]
      BY <1>6, <2>1, SubSeqProperties
    <2>3. (IF k <= Len(w) THEN Len(w) - k + 1 ELSE 0) = n - k /\ Len(w) - k + 1 = n - k
      BY <1>3, <1>4, <1>5
    <2>4. \A i \in 1..(n - k) : k + i - 1 \in 1..(n - 1) /\ ~(k + i - 1 < k) /\ (k + i - 1) + 1 = k + i
      BY <1>3, <1>4
    <2>5. \A i \in 1..(n - k) : w[k + i - 1] = s[k + i]
      BY <1>5, <2>4
    <2> QED
      BY <2>2, <2>3, <2>5, Zenon
  <1>12. /\ a \o <<r>> \in Seq(Rules) /\ Len(a \o <<r>>) = k /\ (a \o <<r>>)[k] = r
         /\ \A i \in 1..(k - 1) : (a \o <<r>>)[i] = s[i]
    <2>1. a \o <<r>> = Append(a, r)
      BY <1>10, AppendIsConcat
    <2>2. /\ Append(a, r) \in Seq(Rules) /\ Len(Append(a, r)) = Len(a) + 1
          /\ \A i \in 1..Len(a) : Append(a, r)[i] = a[i]
          /\ Append(a, r)[Len(a) + 1] = r
      BY <1>10, AppendProperties
    <2>3. Len(a) + 1 = k
      BY <1>3, <1>4, <1>10
    <2> QED
      BY <1>10, <2>1, <2>2, <2>3, Zenon
  <1>13. /\ t \in Seq(Rules) /\ Len(t) = n
         /\ \A i \in 1..n : t[i] = IF i <= k THEN c[i] ELSE b[i - k]
    <2>1. c \in Seq(Rules) /\ Len(c) = k
      BY <1>12, <1>7
    <2>2. /\ t \in Seq(Rules) /\ Len(t) = Len(c) + Len(b)
          /\ \A i \in 1..(Len(c) + Len(b)) : t[i] = IF i <= Len(c) THEN c[i] ELSE b[i - Len(c)]
      BY <1>11, <1>8, <2>1, ConcatProperties
    <2>3. Len(c) + Len(b) = n
      BY <1>3, <1>4, <1>11, <2>1
    <2> QED
      BY <2>1, <2>2, <2>3
  <1>14. PICK e : e = [s EXCEPT ![k] = r]
    OBVIOUS
  <1>15. e \in Seq(Rules) /\ Len(e) = n /\ \A i \in 1..n : e[i] = IF i = k THEN r ELSE s[i]
    BY <1>1, <1>3, <1>4, <1>14, ExceptSeq
  <1>16. ASSUME NEW i \in 1..n PROVE t[i] = e[i]
    <2>1. CASE i < k
      <3>1. i <= k /\ i # k /\ i \in 1..(k - 1)
        BY <1>3, <1>4, <2>1
      <3> QED
        BY <1>12, <1>13, <1>15, <1>7, <3>1
    <2>2. CASE i = k
      <3>1. i <= k
        BY <1>3, <1>4, <2>2
      <3> QED
        BY <1>12, <1>13, <1>15, <1>7, <2>2, <3>1
    <2>3. CASE i > k
      <3>1. ~(i <= k) /\ i # k /\ i - k \in 1..(n - k) /\ k + (i - k) = i
        BY <1>3, <1>4, <2>3
      <3> QED
        BY <1>11, <1>13, <1>15, <3>1
    <2> QED
      BY <1>3, <1>4, <2>1, <2>2, <2>3
  <1>17. t = e
    BY <1>13, <1>15, <1>16, SeqEqual
  <1> QED
    BY <1>9, <1>17, <1>14, Zenon

-----------------------------------------------------------------------------
(* One rule has an id.                                                     *)

LEMMA ListIs ==
    ASSUME NEW s, s \in Seq(Rules), \A i, j \in 1..Len(s) : s[i].id = s[j].id => i = j
    PROVE  s \in Lists
  <1>1. DOMAIN s = 1..Len(s)
    BY LenProperties
  <1> QED
    BY <1>1 DEF Lists, IsInjective

LEMMA ListHas ==
    ASSUME NEW s \in Lists
    PROVE  /\ s \in Seq(Rules) /\ Len(s) \in Nat /\ DOMAIN s = 1..Len(s)
           /\ \A i \in 1..Len(s) : s[i] \in Rules
           /\ \A i, j \in 1..Len(s) : s[i].id = s[j].id => i = j
  <1>1. s \in Seq(Rules) /\ Len(s) \in Nat /\ DOMAIN s = 1..Len(s)
    BY LenProperties DEF Lists
  <1>2. \A i \in 1..Len(s) : s[i] \in Rules
    BY <1>1, ElementOfSeq
  <1>3. \A i, j \in 1..Len(s) : s[i].id = s[j].id => i = j
    BY <1>1 DEF Lists, IsInjective
  <1> QED
    BY <1>1, <1>2, <1>3

LEMMA WithoutList ==
    ASSUME NEW s \in Lists, NEW id
    PROVE  Without(s, id) \in Lists
  <1>1. CASE IndexOf(s, id) = 0
    <2>1. \A i \in 1..Len(s) : s[i].id # id
      BY <1>1, ListHas, IndexIs
    <2> QED
      BY <2>1, ListHas, WithoutNone
  <1>2. CASE IndexOf(s, id) # 0
    <2>1. PICK k, n, w : k = IndexOf(s, id) /\ n = Len(s) /\ w = Without(s, id)
      OBVIOUS
    <2>2. TakenOut(w, s, id, k, n)
      BY <1>2, <2>1, WithoutPlace, Zenon
    <2>3. /\ n \in Nat /\ k \in 1..n /\ w \in Seq(Rules) /\ Len(w) = n - 1
          /\ \A i \in 1..(n - 1) : w[i] = IF i < k THEN s[i] ELSE s[i + 1]
      BY <2>2 DEF TakenOut
    <2>4. \A i, j \in 1..n : s[i].id = s[j].id => i = j
      BY <2>1, ListHas
    <2>5. ASSUME NEW i \in 1..(n - 1), NEW j \in 1..(n - 1), w[i].id = w[j].id
          PROVE  i = j
      <3>1. PICK a \in 1..n : a = IF i < k THEN i ELSE i + 1
        BY <2>3
      <3>2. PICK b \in 1..n : b = IF j < k THEN j ELSE j + 1
        BY <2>3
      <3>3. w[i] = s[a] /\ w[j] = s[b]
        BY <2>3, <3>1, <3>2
      <3>4. a = b
        BY <2>4, <2>5, <3>3
      <3> QED
        BY <2>3, <3>1, <3>2, <3>4
    <2>6. w \in Lists
      BY <2>3, <2>5, ListIs
    <2> QED
      BY <2>1, <2>6
  <1> QED
    BY <1>1, <1>2

LEMMA SplicedList ==
    ASSUME NEW s \in Lists, NEW r \in Rules
    PROVE  Spliced(s, r) \in Lists
  <1>1. PICK k, n : k = IndexOf(s, r.id) /\ n = Len(s)
    OBVIOUS
  <1>2. /\ s \in Seq(Rules) /\ n \in Nat /\ k \in 0..n
        /\ \A i, j \in 1..n : s[i].id = s[j].id => i = j
        /\ k = 0 => \A i \in 1..n : s[i].id # r.id
        /\ k # 0 => s[k].id = r.id
    BY <1>1, ListHas, IndexIs
  <1>3. CASE k = 0
    <2>1. PICK t : t = Append(s, r)
      OBVIOUS
    <2>2. /\ t \in Seq(Rules) /\ Len(t) = n + 1 /\ t[n + 1] = r /\ \A i \in 1..n : t[i] = s[i]
      BY <1>1, <1>2, <2>1, AppendProperties
    <2>3. ASSUME NEW i \in 1..(n + 1), NEW j \in 1..(n + 1), t[i].id = t[j].id
          PROVE  i = j
      <3>1. CASE i \in 1..n /\ j \in 1..n
        BY <1>2, <2>2, <2>3, <3>1
      <3>2. CASE i = n + 1 /\ j \in 1..n
        BY <1>2, <1>3, <2>2, <2>3, <3>2
      <3>3. CASE i \in 1..n /\ j = n + 1
        BY <1>2, <1>3, <2>2, <2>3, <3>3
      <3> QED
        BY <1>2, <3>1, <3>2, <3>3
    <2>4. t \in Lists
      BY <2>2, <2>3, ListIs
    <2> QED
      BY <1>1, <1>3, <2>1, <2>4, SplicedIs
  <1>4. CASE k # 0
    <2>1. PICK t : t = [s EXCEPT ![k] = r]
      OBVIOUS
    <2>2. t \in Seq(Rules) /\ Len(t) = n /\ \A i \in 1..n : t[i] = IF i = k THEN r ELSE s[i]
      BY <1>1, <1>2, <1>4, <2>1, ExceptSeq
    <2>3. \A i \in 1..n : t[i].id = s[i].id
      BY <1>2, <1>4, <2>2
    <2>4. t \in Lists
      BY <1>2, <2>2, <2>3, ListIs
    <2> QED
      BY <1>1, <1>4, <2>1, <2>4, SplicedIs
  <1> QED
    BY <1>3, <1>4

LEMMA ToggledIs ==
    ASSUME NEW s \in Lists, NEW id, NEW on \in BOOLEAN, NEW t, t = Toggled(s, id, on)
    PROVE  /\ t \in Lists /\ Len(t) = Len(s)
           /\ \A i \in 1..Len(s) : t[i].id = s[i].id /\ (s[i] = t[i] \/ s[i].id = id)
  <1>1. /\ s \in Seq(Rules) /\ Len(s) \in Nat /\ DOMAIN s = 1..Len(s)
        /\ \A i \in 1..Len(s) : s[i] \in Rules
        /\ \A i, j \in 1..Len(s) : s[i].id = s[j].id => i = j
    BY ListHas
  <1>2. t = [i \in 1..Len(s) |-> IF s[i].id = id THEN [s[i] EXCEPT !.enabled = on] ELSE s[i]]
    BY <1>1 DEF Toggled
  <1>3. ASSUME NEW r \in Rules
        PROVE  [r EXCEPT !.enabled = on] \in Rules /\ [r EXCEPT !.enabled = on].id = r.id
    BY DEF Rules
  <1>4. \A i \in 1..Len(s) : t[i] \in Rules /\ t[i].id = s[i].id /\ (s[i] = t[i] \/ s[i].id = id)
    BY <1>1, <1>2, <1>3
  <1>5. t \in Seq(Rules) /\ Len(t) = Len(s)
    <2>1. t \in [1..Len(s) -> Rules]
      BY <1>2, <1>4
    <2> QED
      BY <1>1, <2>1
  <1>6. t \in Lists
    BY <1>1, <1>4, <1>5, ListIs
  <1> QED
    BY <1>4, <1>5, <1>6

-----------------------------------------------------------------------------
(* The invariant: lists are lists of rules wherever they are, on the       *)
(* server, on a page, in a request and in an answer under way.             *)

Deadlines == Nat \cup {None}
Views == [rules : Lists, deadline : Deadlines]
GoodLoad(l) == l = [waits |-> l.waits, view |-> l.view] /\ l.view \in Views \cup {None}
Orders == {"submit", "toggle", "delete", "confirm", "revert"}
GoodPost(j) == j.page \in Pages /\ j.by \in Orders /\ (IsList(j) => j.list \in Lists)

ServerInv == active \in Lists /\ saved \in Lists /\ trial \in Deadlines
DataInv == data \in [Pages -> Views]
EditInv == edit \in [Pages -> Ids \cup {None}]
TimerInv == timer \in [Pages -> BOOLEAN] /\ \A p \in Pages : timer[p] => Banner(p)
LoadsInv == loads = [p \in Pages |-> loads[p]] /\ \A p \in Pages : \A l \in DOMAIN loads[p] : GoodLoad(l)
PostsInv == \A j \in posts : GoodPost(j)
PageInv == ServerInv /\ DataInv /\ EditInv /\ TimerInv /\ LoadsInv /\ PostsInv

\* What a step leaves alone.
LEMMA PageSame ==
    ASSUME PageInv
    PROVE  /\ UNCHANGED server_vars => ServerInv'
           /\ UNCHANGED data => DataInv'
           /\ UNCHANGED edit => EditInv'
           /\ UNCHANGED <<data, timer>> => TimerInv'
           /\ UNCHANGED loads => LoadsInv'
           /\ UNCHANGED posts => PostsInv'
  BY DEF PageInv, server_vars, ServerInv, DataInv, EditInv, TimerInv, LoadsInv, PostsInv, Banner

LEMMA PostKept ==
    ASSUME PageInv, NEW j, GoodPost(j), posts' = posts \cup {j}
    PROVE  PostsInv'
  BY DEF PageInv, PostsInv

LEMMA ListPosted ==
    ASSUME NEW p \in Pages, NEW by \in Orders, NEW id, NEW list \in Lists
    PROVE  GoodPost(Post(p, by, id, list))
  BY DEF GoodPost, Post

LEMMA Asked ==
    ASSUME PageInv, NEW p \in Pages, NEW waits, loads' = Ask(p, waits)
    PROVE  LoadsInv'
  <1> DEFINE new == [waits |-> waits, view |-> None]
  <1>1. loads' = [loads EXCEPT ![p] = loads[p] (+) SetToBag({new})]
    BY DEF Ask
  <1>2. DOMAIN (loads[p] (+) SetToBag({new})) = DOMAIN loads[p] \cup {new}
    BY DEF (+), SetToBag
  <1>3. GoodLoad(new)
    BY DEF GoodLoad
  <1> HIDE DEF new
  <1> QED
    BY <1>1, <1>2, <1>3 DEF PageInv, LoadsInv

\* toggleRule sends the switch turned over.
LEMMA Switched ==
    ASSUME NEW p \in Pages, NEW id, ToggleRule(p, id)
    PROVE  \E on \in BOOLEAN : posts' = posts \cup {Post(p, "toggle", id, Toggled(data[p].rules, id, on))}
  <1> DEFINE was == data[p].rules[IndexOf(data[p].rules, id)].enabled
  <1>1. PICK on : on = ~was
    OBVIOUS
  <1>2. on \in BOOLEAN
    BY <1>1, Zenon
  <1>3. posts' = posts \cup {Post(p, "toggle", id, Toggled(data[p].rules, id, on))}
    BY <1>1, Zenon DEF ToggleRule
  <1> QED
    BY <1>2, <1>3, Zenon

LEMMA OperatorKeeps ==
    ASSUME PageInv, NEW p \in Pages, Operator(p)
    PROVE  PageInv'
  <1>1. /\ data[p].rules \in Lists /\ edit \in [Pages -> Ids \cup {None}]
    BY DEF PageInv, DataInv, EditInv, Views
  <1>2. ASSUME NEW id \in Ids \cup {None}, OpenRule(p, id)
        PROVE  PageInv'
    <2>1. EditInv'
      BY <1>1, <1>2 DEF OpenRule, EditInv
    <2> QED
      BY <1>2, <2>1, PageSame DEF OpenRule, PageInv, count_vars
  <1>3. CASE SubmitRule(p)
    <2>1. PICK says \in Says, id \in IF edit[p] # None THEN {edit[p]} ELSE NewIds :
              posts' = posts \cup {Post(p, "submit", id, Spliced(data[p].rules, [id |-> id, says |-> says, enabled |-> TRUE]))}
      BY <1>3 DEF SubmitRule
    <2>2. id \in Ids
      BY <1>1 DEF NewIds
    <2>3. [id |-> id, says |-> says, enabled |-> TRUE] \in Rules
      BY <2>2 DEF Rules
    <2>4. PostsInv'
      BY <1>1, <2>1, <2>3, SplicedList, ListPosted, PostKept DEF Orders
    <2> QED
      BY <1>3, <2>4, PageSame DEF SubmitRule, PageInv, count_vars
  <1>4. CASE AskDelete(p)
    BY <1>4, PageSame DEF AskDelete, PageInv, count_vars
  <1>5. CASE DeleteRule(p)
    <2>1. PostsInv'
      BY <1>1, <1>5, WithoutList, ListPosted, PostKept DEF DeleteRule, Orders
    <2> QED
      BY <1>5, <2>1, PageSame DEF DeleteRule, PageInv, count_vars
  <1>6. CASE Dismiss(p)
    BY <1>6, PageSame DEF Dismiss, PageInv, count_vars
  <1>7. ASSUME NEW id \in Ids, ToggleRule(p, id)
        PROVE  PageInv'
    <2>1. PICK on \in BOOLEAN : posts' = posts \cup {Post(p, "toggle", id, Toggled(data[p].rules, id, on))}
      BY <1>7, Switched
    <2>2. Toggled(data[p].rules, id, on) \in Lists
      BY <1>1, <2>1, ToggledIs
    <2>3. PostsInv'
      BY <2>1, <2>2, ListPosted, PostKept DEF Orders
    <2> QED
      BY <1>7, <2>3, PageSame DEF ToggleRule, PageInv, screen_vars, count_vars
  <1>8. ASSUME NEW what \in {"confirm", "revert"}, TrialAction(p, what)
        PROVE  PageInv'
    <2>1. GoodPost(Trial(p, what))
      BY DEF GoodPost, Trial, Post, IsList, Orders
    <2>2. PostsInv'
      BY <1>8, <2>1, PostKept DEF TrialAction
    <2> QED
      BY <1>8, <2>2, PageSame DEF TrialAction, PageInv, screen_vars, count_vars
  <1>9. CASE LoadPorts(p)
    <2>1. LoadsInv'
      BY <1>9, Asked DEF LoadPorts
    <2> QED
      BY <1>9, <2>1, PageSame DEF LoadPorts, PageInv, screen_vars, count_vars
  <1> QED
    BY <1>2, <1>3, <1>4, <1>5, <1>6, <1>7, <1>8, <1>9 DEF Operator

LEMMA ServeKeeps ==
    ASSUME PageInv, NEW j \in posts, Serve(j)
    PROVE  PageInv'
  <1>1. GoodPost(j)
    BY DEF PageInv, PostsInv
  <1>2. Answered(j, TRUE) \/ Answered(j, FALSE)
    BY DEF Serve
  <1>3. posts' = posts \ {j} /\ (UNCHANGED loads \/ loads' = Ask(j.page, j.by = "submit"))
        /\ UNCHANGED <<data, edit, timer>>
    BY <1>2 DEF Answered, count_vars
  <1>4. PostsInv'
    BY <1>3 DEF PageInv, PostsInv
  <1>5. LoadsInv'
    BY <1>1, <1>3, Asked, PageSame DEF GoodPost
  <1>6. ServerInv'
    <2>1. CASE UNCHANGED server_vars
      BY <2>1, PageSame
    <2>2. CASE Applied(j) /\ ~Refused(j)
      <3>1. TrialTime \in Deadlines /\ None \in Deadlines
        BY RuleEditorAssumption DEF Deadlines
      <3>2. CASE IsList(j) /\ Risky(saved, j.list)
        BY <1>1, <2>2, <3>1, <3>2 DEF Applied, GoodPost, PageInv, ServerInv
      <3>3. CASE IsList(j) /\ ~Risky(saved, j.list)
        BY <1>1, <2>2, <3>1, <3>3 DEF Applied, GoodPost, PageInv, ServerInv
      <3>4. CASE j.by = "confirm"
        <4>1. ~IsList(j) /\ j.by # "revert"
          BY <3>4 DEF IsList
        <4>2. saved' = active /\ trial' = None /\ UNCHANGED active
          BY <2>2, <3>4, <4>1 DEF Applied
        <4> QED
          BY <3>1, <4>2 DEF PageInv, ServerInv
      <3>5. CASE j.by = "revert"
        <4>1. ~IsList(j) /\ j.by # "confirm"
          BY <3>5 DEF IsList
        <4>2. active' = saved /\ trial' = None /\ UNCHANGED saved
          BY <2>2, <3>5, <4>1 DEF Applied
        <4> QED
          BY <3>1, <4>2 DEF PageInv, ServerInv
      <3>6. IsList(j) \/ j.by = "confirm" \/ j.by = "revert"
        BY <1>1 DEF GoodPost, Orders, IsList
      <3> QED
        BY <3>2, <3>3, <3>4, <3>5, <3>6
    <2> QED
      BY <2>1, <2>2 DEF Serve, server_vars
  <1> QED
    BY <1>3, <1>4, <1>5, <1>6, PageSame DEF PageInv

LEMMA ExpireKeeps ==
    ASSUME PageInv, Expire
    PROVE  PageInv'
  <1>1. ServerInv'
    BY DEF Expire, PageInv, ServerInv, Deadlines
  <1> QED
    BY <1>1, PageSame DEF Expire, PageInv, screen_vars, count_vars

\* An answer leaves the bag, or comes back to it with what the server shows.
LEMMA AnswersGood ==
    ASSUME PageInv, NEW p \in Pages, NEW l \in DOMAIN loads[p], NEW n, GoodLoad(n),
           \/ loads' = [loads EXCEPT ![p] = @ (-) SetToBag({l})]
           \/ loads' = [loads EXCEPT ![p] = @ (-) SetToBag({l}) (+) SetToBag({n})]
    PROVE  LoadsInv'
  <1>1. PICK less : less = loads[p] (-) SetToBag({l})
    OBVIOUS
  <1>2. PICK more : more = less (+) SetToBag({n})
    OBVIOUS
  <1>3. DOMAIN less \subseteq DOMAIN loads[p]
    BY <1>1 DEF (-)
  <1>4. DOMAIN more \subseteq DOMAIN loads[p] \cup {n}
    BY <1>2, <1>3 DEF (+), SetToBag
  <1>5. loads' = [loads EXCEPT ![p] = less] \/ loads' = [loads EXCEPT ![p] = more]
    BY <1>1, <1>2
  <1> QED
    BY <1>3, <1>4, <1>5 DEF PageInv, LoadsInv

LEMMA ServeLoadKeeps ==
    ASSUME PageInv, NEW p \in Pages, NEW l \in DOMAIN loads[p], ServeLoad(p, l)
    PROVE  PageInv'
  <1>1. PICK n : n = [l EXCEPT !.view = View]
    OBVIOUS
  <1>2. GoodLoad(l) /\ View \in Views
    BY DEF PageInv, LoadsInv, ServerInv, View, Views
  <1>3. n = [waits |-> l.waits, view |-> View]
    BY <1>1, <1>2 DEF GoodLoad
  <1>4. GoodLoad(n)
    BY <1>2, <1>3 DEF GoodLoad
  <1>5. LoadsInv'
    BY <1>1, <1>4, AnswersGood DEF ServeLoad
  <1> QED
    BY <1>5, PageSame DEF ServeLoad, PageInv, screen_vars, count_vars

LEMMA DeliverKeeps ==
    ASSUME PageInv, NEW p \in Pages, NEW l \in DOMAIN loads[p], Deliver(p, l)
    PROVE  PageInv'
  <1>1. GoodLoad(l)
    BY DEF PageInv, LoadsInv
  <1>2. LoadsInv'
    BY <1>1, AnswersGood DEF Deliver
  <1>3. DataInv' /\ TimerInv'
    <2>1. CASE UNCHANGED <<data, count_vars>>
      BY <2>1, PageSame DEF PageInv, count_vars
    <2>2. CASE l.view # None /\ data' = [data EXCEPT ![p] = l.view] /\ RenderTrial(p, l.view)
      <3>1. l.view \in Views
        BY <1>1, <2>2 DEF GoodLoad
      <3>2. PICK on \in BOOLEAN : on <=> (l.view.deadline # None)
        OBVIOUS
      <3>3. timer' = [timer EXCEPT ![p] = on]
        BY <2>2, <3>2 DEF RenderTrial
      <3> QED
        BY <2>2, <3>1, <3>2, <3>3 DEF PageInv, DataInv, TimerInv, Banner
    <2> QED
      BY <2>1, <2>2 DEF Deliver
  <1> QED
    BY <1>2, <1>3, PageSame DEF Deliver, PageInv

LEMMA TickKeeps ==
    ASSUME PageInv, NEW p \in Pages, Tick(p)
    PROVE  PageInv'
  <1>1. TimerInv'
    BY DEF Tick, PageInv, TimerInv, Banner
  <1> QED
    BY <1>1, PageSame DEF Tick, PageInv, screen_vars

LEMMA ReloadKeeps ==
    ASSUME PageInv, NEW p \in Pages, Reload(p)
    PROVE  PageInv'
  <1>1. LoadsInv'
    BY Asked DEF Reload
  <1> QED
    BY <1>1, PageSame DEF Reload, PageInv, screen_vars

LEMMA LaterIs ==
    ASSUME NEW t \in Deadlines
    PROVE  Later(t) \in Deadlines /\ (t # None => Later(t) # None)
  BY RuleEditorAssumption DEF Later, Deadlines

LEMMA AgedIs ==
    ASSUME NEW d \in Views
    PROVE  Aged(d) \in Views /\ (d.deadline # None => Aged(d).deadline # None)
  BY LaterIs DEF Aged, Views

LEMMA AdvanceKeeps ==
    ASSUME PageInv, Advance
    PROVE  PageInv'
  <1>1. ServerInv'
    BY LaterIs DEF Advance, PageInv, ServerInv
  <1>2. ASSUME NEW p \in Pages
        PROVE  data'[p] \in Views /\ (data[p].deadline # None => data'[p].deadline # None)
    BY AgedIs DEF Advance, PageInv, DataInv
  <1>3. DataInv'
    BY <1>2 DEF Advance, DataInv
  <1>4. TimerInv'
    BY <1>2 DEF Advance, PageInv, TimerInv, Banner
  <1>5. LoadsInv'
    <2>1. ASSUME NEW p \in Pages, NEW l \in DOMAIN loads'[p]
          PROVE  GoodLoad(l)
      <3>1. loads'[p] = BagOfAll(AgedLoad, loads[p])
        BY DEF Advance
      <3>2. PICK o \in DOMAIN loads[p] : l = AgedLoad(o)
        BY <2>1, <3>1 DEF BagOfAll, BagToSet
      <3>3. GoodLoad(o)
        BY DEF PageInv, LoadsInv
      <3>4. Aged(o.view) \in Views \cup {None}
        BY <3>3, AgedIs DEF GoodLoad, Aged
      <3> QED
        BY <3>2, <3>3, <3>4 DEF AgedLoad, GoodLoad
    <2>2. loads' = [p \in Pages |-> loads'[p]]
      BY DEF Advance
    <2> QED
      BY <2>1, <2>2 DEF LoadsInv
  <1> QED
    BY <1>1, <1>3, <1>4, <1>5, PageSame DEF Advance, PageInv, screen_vars

LEMMA InitGood ==
    ASSUME Init
    PROVE  PageInv
  <1>1. ServerInv
    BY FirstRulesAssumption DEF Init, ServerInv, Deadlines
  <1>2. DataInv
    BY <1>1 DEF Init, DataInv, View, Views, ServerInv
  <1>3. EditInv /\ TimerInv /\ PostsInv
    BY DEF Init, EditInv, TimerInv, PostsInv
  <1>4. LoadsInv
    BY DEF Init, LoadsInv, EmptyBag, SetToBag
  <1> QED
    BY <1>1, <1>2, <1>3, <1>4 DEF PageInv

LEMMA NextKeeps ==
    ASSUME PageInv, [Next]_vars
    PROVE  PageInv'
  <1>1. CASE UNCHANGED vars
    BY <1>1, PageSame DEF vars, PageInv, screen_vars, count_vars
  <1>2. CASE \E p \in Pages : Operator(p)
    BY <1>2, OperatorKeeps
  <1>3. CASE PageStep
    BY <1>3, ServeLoadKeeps, DeliverKeeps, TickKeeps, ReloadKeeps DEF PageStep, Answers, BagToSet
  <1>4. CASE \E j \in posts : Serve(j)
    BY <1>4, ServeKeeps
  <1>5. CASE Expire
    BY <1>5, ExpireKeeps
  <1>6. CASE Advance
    BY <1>6, AdvanceKeeps
  <1> QED
    BY <1>1, <1>2, <1>3, <1>4, <1>5, <1>6 DEF Next

\* Lists of rules stay lists of rules, one rule to an id, through every edit and
\* every answer, and a countdown runs only under a banner (submitRule,
\* toggleRule, deleteRule, loadPorts, renderTrial).
THEOREM EditorTypeCorrect == Spec => []TypeOK
  <1>1. PageInv => TypeOK
    BY DEF PageInv, ServerInv, DataInv, TimerInv, TypeOK, Views, Deadlines
  <1> QED
    BY <1>1, InitGood, NextKeeps, PTL DEF Spec

-----------------------------------------------------------------------------
(* An edit changes one rule.                                               *)

\* A list differs from the one shown in the rule with the id alone.
IsLocal(list, shown, id) ==
    /\ Without(list, id) = Without(shown, id)
    /\ \A i \in DOMAIN shown : i \in DOMAIN list /\ list[i].id # shown[i].id
          => IndexOf(list, id) = 0

\* A list of the same ids whose other rules are the same.
LEMMA AlikeLocal ==
    ASSUME NEW s \in Lists, NEW t \in Lists, NEW id, Len(t) = Len(s),
           \A i \in 1..Len(s) : t[i].id = s[i].id /\ (s[i] = t[i] \/ s[i].id = id)
    PROVE  IsLocal(t, s, id)
  <1>1. s \in Seq(Rules) /\ t \in Seq(Rules) /\ DOMAIN s = 1..Len(s)
    BY ListHas
  <1>2. \A i \in 1..Len(s) : s[i] = t[i] \/ (s[i].id = id /\ t[i].id = id)
    OBVIOUS
  <1>3. Without(s, id) = Without(t, id)
    BY <1>1, <1>2, WithoutAlike
  <1> QED
    BY <1>1, <1>3 DEF IsLocal

LEMMA SplicedLocal ==
    ASSUME NEW s \in Lists, NEW r \in Rules
    PROVE  IsLocal(Spliced(s, r), s, r.id)
  <1>1. PICK k, n, t : k = IndexOf(s, r.id) /\ n = Len(s) /\ t = Spliced(s, r)
    OBVIOUS
  <1>2. s \in Seq(Rules) /\ n \in Nat /\ k \in 0..n /\ DOMAIN s = 1..n /\ t \in Lists
        /\ (k # 0 => s[k].id = r.id)
    BY <1>1, ListHas, IndexIs, SplicedList
  <1>3. CASE k = 0
    <2>1. t = Append(s, r)
      BY <1>1, <1>3, SplicedIs
    <2>2. \A i \in 1..n : t[i] = s[i]
      BY <1>1, <1>2, <2>1, AppendProperties
    <2>3. Without(t, r.id) = Without(s, r.id)
      BY <1>2, <2>1, WithoutAppend
    <2> QED
      BY <1>1, <1>2, <2>2, <2>3 DEF IsLocal
  <1>4. CASE k # 0
    <2>1. t = [s EXCEPT ![k] = r]
      BY <1>1, <1>4, SplicedIs
    <2>2. Len(t) = n /\ \A i \in 1..n : t[i] = IF i = k THEN r ELSE s[i]
      BY <1>1, <1>2, <1>4, <2>1, ExceptSeq
    <2>3. \A i \in 1..n : t[i].id = s[i].id /\ (s[i] = t[i] \/ s[i].id = r.id)
      BY <1>2, <1>4, <2>2
    <2> QED
      BY <1>1, <1>2, <2>2, <2>3, AlikeLocal
  <1> QED
    BY <1>3, <1>4

LEMMA WithoutLocal ==
    ASSUME NEW s \in Lists, NEW id
    PROVE  IsLocal(Without(s, id), s, id)
  <1>1. PICK w, k : w = Without(s, id) /\ k = IndexOf(w, id)
    OBVIOUS
  <1>2. s \in Seq(Rules)
    BY ListHas
  <1>3. w \in Seq(Rules) /\ \A i \in 1..Len(w) : w[i].id # id
    BY <1>1, <1>2, WithoutType
  <1>4. Without(w, id) = w
    BY <1>3, WithoutNone
  <1>5. k = 0
    BY <1>1, <1>3, IndexIs, LenProperties
  <1> QED
    BY <1>1, <1>4, <1>5 DEF IsLocal

\* What a step posts.
LEMMA PostsLocal ==
    ASSUME PageInv, [Next]_vars, NEW j \in posts' \ posts, IsList(j)
    PROVE  IsLocal(j.list, data[j.page].rules, j.id)
  <1>1. \A p \in Pages : data[p].rules \in Lists
    BY DEF PageInv, DataInv, Views
  <1>2. ASSUME NEW p \in Pages, SubmitRule(p)
        PROVE  IsLocal(j.list, data[j.page].rules, j.id)
    <2>1. PICK says \in Says, id \in IF edit[p] # None THEN {edit[p]} ELSE NewIds :
              posts' = posts \cup {Post(p, "submit", id, Spliced(data[p].rules, [id |-> id, says |-> says, enabled |-> TRUE]))}
      BY <1>2 DEF SubmitRule
    <2>2. id \in Ids
      BY DEF PageInv, EditInv, NewIds
    <2>3. PICK r : r = [id |-> id, says |-> says, enabled |-> TRUE]
      OBVIOUS
    <2>4. r \in Rules /\ r.id = id
      BY <2>2, <2>3 DEF Rules
    <2>5. IsLocal(Spliced(data[p].rules, r), data[p].rules, id)
      BY <1>1, <2>4, SplicedLocal
    <2>6. j = Post(p, "submit", id, Spliced(data[p].rules, r))
      BY <2>1, <2>3
    <2> QED
      BY <2>5, <2>6 DEF Post
  <1>3. ASSUME NEW p \in Pages, DeleteRule(p)
        PROVE  IsLocal(j.list, data[j.page].rules, j.id)
    <2>1. j = Post(p, "delete", edit[p], Without(data[p].rules, edit[p]))
      BY <1>3 DEF DeleteRule
    <2>2. IsLocal(Without(data[p].rules, edit[p]), data[p].rules, edit[p])
      BY <1>1, WithoutLocal
    <2> QED
      BY <2>1, <2>2 DEF Post
  <1>4. ASSUME NEW p \in Pages, NEW id \in Ids, ToggleRule(p, id)
        PROVE  IsLocal(j.list, data[j.page].rules, j.id)
    <2>1. PICK on \in BOOLEAN : posts' = posts \cup {Post(p, "toggle", id, Toggled(data[p].rules, id, on))}
      BY <1>4, Switched
    <2>2. j = Post(p, "toggle", id, Toggled(data[p].rules, id, on))
      BY <2>1
    <2>3. IsLocal(Toggled(data[p].rules, id, on), data[p].rules, id)
      BY <1>1, ToggledIs, AlikeLocal
    <2> QED
      BY <2>2, <2>3 DEF Post
  <1>5. ASSUME NEW p \in Pages, NEW what \in {"confirm", "revert"}, TrialAction(p, what)
        PROVE  FALSE
    BY <1>5 DEF TrialAction, Trial, Post, IsList
  <1>6. CASE posts' \subseteq posts
    BY <1>6
  <1>7. ASSUME NEW p \in Pages, Operator(p)
        PROVE  IsLocal(j.list, data[j.page].rules, j.id)
    BY <1>2, <1>3, <1>4, <1>5, <1>7 DEF Operator, OpenRule, AskDelete, Dismiss, LoadPorts
  <1>8. PageStep \/ Expire \/ Advance \/ UNCHANGED vars => posts' = posts
    BY DEF PageStep, Answers, ServeLoad, Deliver, Tick, Reload, Expire, Advance, vars
  <1>9. ASSUME NEW i \in posts, Serve(i)
        PROVE  posts' \subseteq posts
    BY <1>9 DEF Serve, Answered
  <1> QED
    BY <1>6, <1>7, <1>8, <1>9 DEF Next

\* An edit of one rule posts the list the page shows with that rule alone written,
\* switched or taken out, every other in its place and in its order, for every
\* list of rules and also when the list was loaded again while a question was
\* open (submitRule, toggleRule, deleteRule).
THEOREM EditsAreLocal == Spec => EditIsLocal
  <1> DEFINE Step == \A j \in posts' \ posts : IsList(j) => IsLocal(j.list, data[j.page].rules, j.id)
  <1>1. PageInv /\ [Next]_vars => Step
    BY PostsLocal
  <1>2. Step =>
          \A j \in posts' \ posts : IsList(j) =>
            LET shown == data[j.page].rules IN
              /\ Without(j.list, j.id) = Without(shown, j.id)
              /\ \A i \in DOMAIN shown : i \in DOMAIN j.list /\ j.list[i].id # shown[i].id
                    => IndexOf(j.list, j.id) = 0
    BY Zenon DEF IsLocal
  <1> HIDE DEF Step
  <1> QED
    BY <1>1, <1>2, InitGood, NextKeeps, PTL DEF Spec, EditIsLocal
=============================================================================
