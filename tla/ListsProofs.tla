---------------------------- MODULE ListsProofs ----------------------------
(***************************************************************************)
(* Facts about sequences that the proofs of several components need.       *)
(***************************************************************************)
EXTENDS Lists, WellFoundedInduction, SequenceTheorems, FiniteSetTheorems, TLAPS

\* A set that holds 0 and is closed under adding 1 holds every natural number:
\* the induction principle, stated of a set so that the provers can use it.
LEMMA NatSetInduction ==
    ASSUME NEW S, 0 \in S, \A k \in Nat : k \in S => k + 1 \in S
    PROVE  Nat \subseteq S
<1> DEFINE R == {p \in Nat \X Nat : p[1] < p[2]}
<1> DEFINE T == Nat \ S
<1>1. IsWellFoundedOn(R, Nat)
    <2>1. R = OpToRel(<, Nat)
        BY DEF OpToRel
    <2>2. QED BY <2>1, NatLessThanWellFounded, Zenon
<1>2. SUFFICES ASSUME T # {} PROVE FALSE
    OBVIOUS
<1>3. PICK x \in T : \A y \in T : <<y, x>> \notin R
    <2>1. T \subseteq Nat
        OBVIOUS
    <2> HIDE DEF R, T
    <2>2. QED BY <1>1, <1>2, <2>1, WFMin
<1>4. x # 0 /\ x - 1 \in Nat /\ <<x - 1, x>> \in R
    OBVIOUS
<1>5. QED BY <1>3, <1>4

\* t holds the elements of s at those of the places that are at most k, in
\* their order; e says where each of them was.
Picks(s, places, e, t, k) ==
    /\ e \in [1 .. Len(t) -> 1 .. k]
    /\ \A m \in 1 .. Len(t) : e[m] \in places /\ t[m] = s[e[m]]
    /\ \A l, m \in 1 .. Len(t) : l < m => e[l] < e[m]
    /\ \A i \in 1 .. k : i \in places => \E m \in 1 .. Len(t) : e[m] = i

\* One step of the recursive definition of AtPlaces().
UpTo(s, places, g, k) ==
    [i \in 0 .. k |->
        IF i = 0 THEN <<>>
        ELSE IF i \in places THEN Append(g[i-1], s[i]) ELSE g[i-1]]

\* The next element is at one of the places.
LEMMA PickOneMore ==
    ASSUME NEW S, NEW s \in Seq(S), NEW places, NEW k \in Nat, k + 1 <= Len(s),
           k + 1 \in places, NEW e, NEW t \in Seq(S), Picks(s, places, e, t, k)
    PROVE  /\ Append(t, s[k+1]) \in Seq(S)
           /\ \E f : Picks(s, places, f, Append(t, s[k+1]), k + 1)
<1> DEFINE f == [m \in 1 .. Len(t) + 1 |-> IF m = Len(t) + 1 THEN k + 1 ELSE e[m]]
<1>1. /\ Append(t, s[k+1]) \in Seq(S)
      /\ Len(Append(t, s[k+1])) = Len(t) + 1 /\ Len(t) \in Nat
    OBVIOUS
<1>2. f \in [1 .. Len(t) + 1 -> 1 .. k + 1]
    BY <1>1 DEF Picks
<1>3. \A m \in 1 .. Len(t) + 1 : f[m] \in places /\ Append(t, s[k+1])[m] = s[f[m]]
    BY <1>1 DEF Picks
<1>4. ASSUME NEW l \in 1 .. Len(t) + 1, NEW m \in 1 .. Len(t) + 1, l < m
      PROVE  f[l] < f[m]
    <2>1. l \in 1 .. Len(t)
        BY <1>1, <1>4
    <2>2. e[l] \in 1 .. k /\ f[l] = e[l]
        BY <1>1, <2>1 DEF Picks
    <2>3. CASE m = Len(t) + 1
        <3>1. f[m] = k + 1
            BY <2>3
        <3>2. QED BY <2>2, <3>1
    <2>4. CASE m # Len(t) + 1
        <3>1. m \in 1 .. Len(t) /\ f[m] = e[m]
            BY <1>1, <2>4
        <3>2. QED BY <1>4, <2>1, <2>2, <3>1 DEF Picks
    <2>5. QED BY <2>3, <2>4
<1>5. ASSUME NEW i \in 1 .. k + 1, i \in places
      PROVE  \E m \in 1 .. Len(t) + 1 : f[m] = i
    <2>1. CASE i = k + 1
        <3>1. f[Len(t) + 1] = i /\ Len(t) + 1 \in 1 .. Len(t) + 1
            BY <1>1, <2>1
        <3>2. QED BY <3>1
    <2>2. CASE i # k + 1
        <3>1. PICK m \in 1 .. Len(t) : e[m] = i
            BY <1>5, <2>2 DEF Picks
        <3>2. f[m] = i /\ m \in 1 .. Len(t) + 1
            BY <1>1, <3>1
        <3>3. QED BY <3>2
    <2>3. QED BY <2>1, <2>2
<1> HIDE DEF f
<1>6. Picks(s, places, f, Append(t, s[k+1]), k + 1)
    BY <1>1, <1>2, <1>3, <1>4, <1>5 DEF Picks
<1>7. QED BY <1>1, <1>6

\* The loop of AtPlaces() exists: what is taken of each beginning of the list.
LEMMA AtPlacesSteps ==
    ASSUME NEW s, Len(s) \in Nat, NEW places
    PROVE  \E g : /\ g[0] = <<>> /\ AtPlaces(s, places) = g[Len(s)]
                 /\ \A i \in 1 .. Len(s) :
                       g[i] = IF i \in places THEN Append(g[i-1], s[i]) ELSE g[i-1]
<1> DEFINE n == Len(s)
<1> DEFINE D == {k \in Nat : \E g : g = UpTo(s, places, g, k)}
<1>1. n \in D
    <2>1. 0 \in D
        <3>1. [i \in 0 .. 0 |-> <<>>] = UpTo(s, places, [i \in 0 .. 0 |-> <<>>], 0)
            BY DEF UpTo
        <3>2. QED BY <3>1
    <2>2. ASSUME NEW k \in Nat, k \in D PROVE k + 1 \in D
        <3>1. PICK g : g = UpTo(s, places, g, k)
            BY <2>2
        <3> DEFINE last == IF k + 1 \in places THEN Append(g[k], s[k+1]) ELSE g[k]
        <3> DEFINE h == [i \in 0 .. k + 1 |-> IF i = k + 1 THEN last ELSE g[i]]
        <3>2. h = UpTo(s, places, h, k + 1)
            <4>1. \A i \in 0 .. k : g[i] = UpTo(s, places, g, k)[i]
                BY <3>1
            <4>2. \A i \in 0 .. k + 1 : h[i] = UpTo(s, places, h, k + 1)[i]
                BY <4>1 DEF UpTo
            <4>3. QED BY <4>2 DEF UpTo
        <3>3. QED BY <3>2
    <2> HIDE DEF D
    <2>3. QED BY <2>1, <2>2, NatSetInduction
<1> DEFINE upTo == CHOOSE g : g = UpTo(s, places, g, n)
<1>2. AtPlaces(s, places) = upTo[n]
    BY DEF AtPlaces, UpTo
<1>3. upTo = UpTo(s, places, upTo, n)
    BY <1>1
<1> HIDE DEF upTo
<1>4. upTo[0] = <<>>
    BY <1>3 DEF UpTo
<1>5. ASSUME NEW i \in 1 .. n
      PROVE  upTo[i] = IF i \in places THEN Append(upTo[i-1], s[i]) ELSE upTo[i-1]
    <2>1. upTo[i] = UpTo(s, places, upTo, n)[i]
        BY <1>3
    <2>2. QED BY <2>1 DEF UpTo
<1>6. QED BY <1>2, <1>4, <1>5

\* AtPlaces() is what it says, by induction over the list: all the elements at
\* the places and no others, in their order.
LEMMA AtPlacesPicks ==
    ASSUME NEW S, NEW s \in Seq(S), NEW places
    PROVE  /\ AtPlaces(s, places) \in Seq(S)
           /\ \E e : Picks(s, places, e, AtPlaces(s, places), Len(s))
<1> DEFINE n == Len(s)
<1>1. PICK upTo : /\ upTo[0] = <<>> /\ AtPlaces(s, places) = upTo[n]
                  /\ \A i \in 1 .. n : upTo[i] = IF i \in places THEN Append(upTo[i-1], s[i]) ELSE upTo[i-1]
    BY AtPlacesSteps
<1>2. AtPlaces(s, places) = upTo[n]
    BY <1>1
<1>4. upTo[0] = <<>>
    BY <1>1
<1>5. ASSUME NEW i \in 1 .. n
      PROVE  upTo[i] = IF i \in places THEN Append(upTo[i-1], s[i]) ELSE upTo[i-1]
    BY <1>1
<1> DEFINE T == {k \in Nat : k <= n => upTo[k] \in Seq(S) /\ \E e : Picks(s, places, e, upTo[k], k)}
<1>6. 0 \in T
    <2>1. Picks(s, places, <<>>, <<>>, 0)
        BY DEF Picks
    <2>2. upTo[0] \in Seq(S) /\ \E e : Picks(s, places, e, upTo[0], 0)
        BY <1>4, <2>1
    <2>3. QED BY <2>2
<1>7. ASSUME NEW k \in Nat, k \in T, k + 1 <= n
      PROVE  upTo[k+1] \in Seq(S) /\ \E e : Picks(s, places, e, upTo[k+1], k+1)
    <2>1. upTo[k] \in Seq(S)
        BY <1>7
    <2>2. PICK e : Picks(s, places, e, upTo[k], k)
        BY <1>7
    <2>3. k + 1 \in 1 .. n /\ (k + 1) - 1 = k
        BY <1>7
    <2>4. CASE k + 1 \in places
        <3>1. upTo[k+1] = Append(upTo[k], s[k+1])
            BY <1>5, <2>3, <2>4
        <3>2. QED BY <1>7, <2>1, <2>2, <2>4, <3>1, PickOneMore
    <2>5. CASE k + 1 \notin places
        <3>1. upTo[k+1] = upTo[k]
            BY <1>5, <2>3, <2>5
        <3>2. Picks(s, places, e, upTo[k], k+1)
            BY <2>2, <2>5 DEF Picks
        <3>3. QED BY <2>1, <3>1, <3>2
    <2>6. QED BY <2>4, <2>5
<1>8. n \in T
    <2>1. ASSUME NEW k \in Nat, k \in T PROVE k + 1 \in T
        <3>1. CASE k + 1 <= n
            <4>1. upTo[k+1] \in Seq(S) /\ \E e : Picks(s, places, e, upTo[k+1], k+1)
                BY <1>7, <2>1, <3>1
            <4>2. QED BY <4>1
        <3>2. CASE ~(k + 1 <= n)
            BY <3>2
        <3>3. QED BY <3>1, <3>2
    <2> HIDE DEF T
    <2>2. Nat \subseteq T
        BY <1>6, <2>1, NatSetInduction
    <2>3. QED BY <2>2
<1>9. QED BY <1>2, <1>8

\* The elements that are left are elements of the list.
LEMMA AtPlacesElements ==
    ASSUME NEW S, NEW s \in Seq(S), NEW places
    PROVE  /\ \A m \in DOMAIN AtPlaces(s, places) :
                 \E i \in DOMAIN s : i \in places /\ AtPlaces(s, places)[m] = s[i]
           /\ \A i \in DOMAIN s :
                 i \in places => \E m \in DOMAIN AtPlaces(s, places) : AtPlaces(s, places)[m] = s[i]
<1> DEFINE t == AtPlaces(s, places)
<1>1. t \in Seq(S) /\ \E e : Picks(s, places, e, t, Len(s))
    BY AtPlacesPicks
<1>2. PICK e : Picks(s, places, e, t, Len(s))
    BY <1>1
<1> HIDE DEF t
<1>3. DOMAIN t = 1 .. Len(t) /\ DOMAIN s = 1 .. Len(s)
    BY <1>1
<1>4. ASSUME NEW m \in DOMAIN t PROVE \E i \in DOMAIN s : i \in places /\ t[m] = s[i]
    <2>1. e[m] \in DOMAIN s /\ e[m] \in places /\ t[m] = s[e[m]]
        BY <1>2, <1>3 DEF Picks
    <2>2. QED BY <2>1
<1>5. ASSUME NEW i \in DOMAIN s, i \in places PROVE \E m \in DOMAIN t : t[m] = s[i]
    <2>1. PICK m \in 1 .. Len(t) : e[m] = i
        BY <1>2, <1>3, <1>5 DEF Picks
    <2>2. t[m] = s[i]
        BY <1>2, <2>1 DEF Picks
    <2>3. QED BY <1>3, <2>1, <2>2
<1>6. QED BY <1>4, <1>5 DEF t

\* All but the last element.
LEMMA ButLast ==
    ASSUME NEW S, NEW s \in Seq(S), s # <<>>
    PROVE  /\ SubSeq(s, 1, Len(s) - 1) \in Seq(S)
           /\ Len(SubSeq(s, 1, Len(s) - 1)) = Len(s) - 1
           /\ \A i \in 1 .. Len(s) - 1 : SubSeq(s, 1, Len(s) - 1)[i] = s[i]
<1> DEFINE n == Len(s) - 1
<1>1. n \in Nat /\ n \in Int /\ 1 \in Int
    OBVIOUS
<1>2. \A i \in 1 .. n : s[i] \in S
    OBVIOUS
<1> HIDE DEF n
<1>3. /\ SubSeq(s, 1, n) \in Seq(S)
      /\ Len(SubSeq(s, 1, n)) = IF 1 <= n THEN n-1+1 ELSE 0
      /\ \A i \in 1 .. n-1+1 : SubSeq(s, 1, n)[i] = s[1+i-1]
    BY <1>1, <1>2, SubSeqProperties
<1>4. Len(SubSeq(s, 1, n)) = n
    BY <1>1, <1>3
<1>5. ASSUME NEW i \in 1 .. n PROVE SubSeq(s, 1, n)[i] = s[i]
    <2>1. i \in 1 .. n-1+1 /\ 1+i-1 = i
        BY <1>1
    <2>2. SubSeq(s, 1, n)[i] = s[1+i-1]
        BY <1>3, <2>1
    <2>3. QED BY <2>1, <2>2
<1>6. QED BY <1>3, <1>4, <1>5 DEF n

\* One more element of the list: it is taken, or nothing changes.
LEMMA AtPlacesAppend ==
    ASSUME NEW S, NEW s \in Seq(S), NEW x \in S, NEW old, NEW new,
           \A i \in 1 .. Len(s) : i \in new <=> i \in old
    PROVE  AtPlaces(Append(s, x), new) =
               IF Len(s) + 1 \in new THEN Append(AtPlaces(s, old), x) ELSE AtPlaces(s, old)
<1> DEFINE n == Len(s)
<1>1. PICK t : t = Append(s, x)
    OBVIOUS
<1>2. n \in Nat /\ Len(t) = n + 1 /\ t[n + 1] = x /\ \A i \in 1 .. n : t[i] = s[i]
    BY <1>1
<1>3. PICK g : /\ g[0] = <<>> /\ AtPlaces(s, old) = g[n]
               /\ \A i \in 1 .. n : g[i] = IF i \in old THEN Append(g[i-1], s[i]) ELSE g[i-1]
    BY <1>2, AtPlacesSteps
<1>4. Len(t) \in Nat
    BY <1>2
<1>5. PICK h : /\ h[0] = <<>> /\ AtPlaces(t, new) = h[Len(t)]
               /\ \A i \in 1 .. Len(t) : h[i] = IF i \in new THEN Append(h[i-1], t[i]) ELSE h[i-1]
    BY <1>4, AtPlacesSteps
<1> HIDE DEF n
<1> DEFINE T == {k \in Nat : k <= n => h[k] = g[k]}
<1>6. n \in T
    <2>1. 0 \in T
        BY <1>3, <1>5
    <2>2. ASSUME NEW k \in Nat, k \in T PROVE k + 1 \in T
        <3>1. SUFFICES ASSUME k + 1 <= n PROVE h[k + 1] = g[k + 1]
            OBVIOUS
        <3>2. k + 1 \in 1 .. n /\ (k + 1) - 1 = k /\ k + 1 \in 1 .. Len(t) /\ k <= n
            BY <1>2, <3>1
        <3>3. h[k] = g[k] /\ t[k + 1] = s[k + 1] /\ (k + 1 \in new <=> k + 1 \in old)
            BY <1>2, <2>2, <3>2 DEF n
        <3>4. g[k + 1] = IF k + 1 \in old THEN Append(g[k], s[k + 1]) ELSE g[k]
            BY <1>3, <3>2
        <3>5. h[k + 1] = IF k + 1 \in new THEN Append(h[k], t[k + 1]) ELSE h[k]
            BY <1>5, <3>2
        <3>6. QED BY <3>3, <3>4, <3>5
    <2> HIDE DEF T
    <2>3. Nat \subseteq T
        BY <2>1, <2>2, NatSetInduction
    <2>4. QED BY <1>2, <2>3
<1>7. n + 1 \in 1 .. Len(t) /\ (n + 1) - 1 = n
    BY <1>2
<1>8. h[n + 1] = IF n + 1 \in new THEN Append(h[n], t[n + 1]) ELSE h[n]
    BY <1>5, <1>7
<1>9. h[n] = g[n]
    BY <1>2, <1>6
<1>10. QED BY <1>1, <1>2, <1>3, <1>5, <1>8, <1>9 DEF n
=============================================================================
