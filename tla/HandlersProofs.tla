--------------------------- MODULE HandlersProofs ---------------------------
(***************************************************************************)
(* Machine-checked proofs about two stores that are read while they change,  *)
(* for every value of their constants.                                     *)
(*                                                                         *)
(* Handlers: the loops that filter a list (Only) keep order and membership, *)
(* so that the lists hold the live registrations (Listed), and a goroutine   *)
(* has those for one call to itself (Copied). So dispatch and forEach call   *)
(* what they should, and what is for one call is called once.               *)
(*                                                                         *)
(* Recovery, the log of packets and the sessions: packets are kept     *)
(* while a session may need them, offsets are given once, and where nothing *)
(* overlaps a replay is exact.                                             *)
(***************************************************************************)
EXTENDS Handlers, Recovery, WellFoundedInduction, NaturalsInduction, TLAPS

\* A set of natural numbers that is not empty has a least element.
LEMMA NatMin ==
  ASSUME NEW T \in SUBSET Nat, T # {}
  PROVE  \E x \in T : \A y \in T : x <= y
<1>1. IsWellFoundedOn(OpToRel(<, Nat), Nat)
  BY NatLessThanWellFounded, Zenon
<1>2. PICK x \in T : \A y \in T : ~(<<y, x>> \in OpToRel(<, Nat))
  BY <1>1, WFMin, Zenon
<1>3. \A y \in T : ~(y < x)
  BY <1>2, Zenon DEF OpToRel
<1> QED
  BY <1>3

\* What the loop has kept of the first k registrations of s
KeptOf(g, s, stay, n) ==
  g = [k \in 0 .. n |->
         IF k = 0 THEN <<>> ELSE IF s[k] \in stay THEN Append(g[k - 1], s[k]) ELSE g[k - 1]]

\* The loop goes on from what it has.
LEMMA KeptOfNext ==
  ASSUME NEW s, NEW stay, NEW n \in Nat, NEW h, KeptOf(h, s, stay, n)
  PROVE  \E g : KeptOf(g, s, stay, n + 1)
<1> DEFINE latest == IF s[n + 1] \in stay THEN Append(h[n], s[n + 1]) ELSE h[n]
           g == [k \in 0 .. n + 1 |-> IF k = n + 1 THEN latest ELSE h[k]]
<1>1. \A k \in 0 .. n :
        h[k] = IF k = 0 THEN <<>> ELSE IF s[k] \in stay THEN Append(h[k - 1], s[k]) ELSE h[k - 1]
  BY Zenon DEF KeptOf
<1>2. g[n + 1] = latest /\ \A k \in 0 .. n : g[k] = h[k]
  OBVIOUS
<1>3. latest = IF s[n + 1] \in stay THEN Append(g[n], s[n + 1]) ELSE g[n]
  BY <1>2
<1>4. DOMAIN g = 0 .. n + 1 /\ g = [k \in 0 .. n + 1 |-> g[k]]
  OBVIOUS
<1> HIDE DEF g, latest
<1>5. ASSUME NEW k \in 0 .. n + 1
      PROVE  g[k] = IF k = 0 THEN <<>>
                    ELSE IF s[k] \in stay THEN Append(g[k - 1], s[k]) ELSE g[k - 1]
  <2>1. CASE k = n + 1
    BY <1>2, <1>3, <2>1
  <2>2. CASE k # n + 1
    <3>1. k \in 0 .. n /\ (k # 0 => k - 1 \in 0 .. n)
      BY <2>2
    <3> QED
      BY <1>1, <1>2, <3>1
  <2> QED
    BY <2>1, <2>2
<1>6. KeptOf(g, s, stay, n + 1)
  BY <1>4, <1>5, Zenon DEF KeptOf
<1> QED
  BY <1>6

\* There is what the loop keeps.
LEMMA KeptOfExists ==
  ASSUME NEW s, NEW stay, NEW n \in Nat
  PROVE  \E g : KeptOf(g, s, stay, n)
<1> DEFINE Bad == {m \in Nat : ~\E g : KeptOf(g, s, stay, m)}
<1> SUFFICES ASSUME Bad # {} PROVE FALSE
  OBVIOUS
<1>1. PICK m \in Bad : \A k \in Bad : m <= k
  BY NatMin, Zenon
<1>2. m \in Nat /\ ~\E g : KeptOf(g, s, stay, m)
  OBVIOUS
<1>3. m # 0
  <2> DEFINE g == [k \in 0 .. 0 |-> <<>>]
  <2>1. KeptOf(g, s, stay, 0)
    BY DEF KeptOf
  <2> QED
    BY <1>2, <2>1, Zenon
<1>4. m - 1 \in Nat /\ m - 1 \notin Bad /\ (m - 1) + 1 = m
  <2> HIDE DEF Bad
  <2> QED
    BY <1>1, <1>2, <1>3
<1>5. PICK h : KeptOf(h, s, stay, m - 1)
  BY <1>4
<1> QED
  BY <1>2, <1>4, <1>5, KeptOfNext

\* Only is what the loop has kept at its end.
LEMMA OnlyIs ==
  ASSUME NEW s, NEW stay, Len(s) \in Nat
  PROVE  \E g : KeptOf(g, s, stay, Len(s)) /\ Only(s, stay) = g[Len(s)]
<1> DEFINE f == CHOOSE g : KeptOf(g, s, stay, Len(s))
<1>1. KeptOf(f, s, stay, Len(s))
  BY KeptOfExists, Zenon
<1>2. Only(s, stay) = f[Len(s)]
  BY Zenon DEF Only, KeptOf
<1> QED
  BY <1>1, <1>2, Zenon

\* The loop over the beginning of a list keeps what the loop over the list has
\* kept by then.
LEMMA KeptOfAgree ==
  ASSUME NEW s, NEW t, NEW stay, NEW n \in Nat, NEW m \in Nat, n <= m,
         \A i \in 1 .. n : s[i] = t[i],
         NEW g, KeptOf(g, s, stay, n), NEW h, KeptOf(h, t, stay, m)
  PROVE  \A k \in 0 .. n : g[k] = h[k]
<1> DEFINE Bad == {k \in 0 .. n : g[k] # h[k]}
<1> SUFFICES ASSUME Bad # {} PROVE FALSE
  OBVIOUS
<1>0. Bad \in SUBSET Nat
  OBVIOUS
<1>1. PICK k \in Bad : \A j \in Bad : k <= j
  BY <1>0, NatMin, Zenon
<1>2. k \in 0 .. n /\ k \in 0 .. m /\ g[k] # h[k]
  OBVIOUS
<1>3. /\ g[k] = IF k = 0 THEN <<>> ELSE IF s[k] \in stay THEN Append(g[k - 1], s[k]) ELSE g[k - 1]
      /\ h[k] = IF k = 0 THEN <<>> ELSE IF t[k] \in stay THEN Append(h[k - 1], t[k]) ELSE h[k - 1]
  BY <1>2, Zenon DEF KeptOf
<1>4. k # 0
  BY <1>2, <1>3
<1>5. k \in 1 .. n /\ k - 1 \in 0 .. n /\ ~(k <= k - 1)
  BY <1>2, <1>4
<1>6. g[k - 1] = h[k - 1]
  BY <1>1, <1>5
<1> QED
  BY <1>2, <1>3, <1>4, <1>5, <1>6

\* Nothing is kept of no registrations.
LEMMA OnlyEmpty ==
  ASSUME NEW stay
  PROVE  Only(<<>>, stay) = <<>>
<1>1. Len(<<>>) = 0
  OBVIOUS
<1>2. PICK g : KeptOf(g, <<>>, stay, 0) /\ Only(<<>>, stay) = g[0]
  BY <1>1, OnlyIs, Zenon
<1> QED
  BY <1>2 DEF KeptOf

\* What is kept when a registration is added at the end
LEMMA OnlyAppend ==
  ASSUME NEW R, NEW s \in Seq(R), NEW x \in R, NEW stay
  PROVE  Only(Append(s, x), stay) =
           IF x \in stay THEN Append(Only(s, stay), x) ELSE Only(s, stay)
<1> DEFINE t == Append(s, x)
           n == Len(s)
           m == Len(t)
<1>1. /\ n \in Nat /\ m \in Nat /\ m = n + 1 /\ t[n + 1] = x
      /\ \A i \in 1 .. n : s[i] = t[i]
  OBVIOUS
<1> HIDE DEF t, n, m
<1>2. PICK g : KeptOf(g, s, stay, n) /\ Only(s, stay) = g[n]
  BY <1>1, OnlyIs DEF n
<1>3. PICK h : KeptOf(h, t, stay, m) /\ Only(t, stay) = h[m]
  BY <1>1, OnlyIs, Zenon DEF m
<1>4. g[n] = h[n]
  <2>1. n <= m /\ n \in 0 .. n
    BY <1>1
  <2>2. \A k \in 0 .. n : g[k] = h[k]
    BY <1>1, <1>2, <1>3, <2>1, KeptOfAgree
  <2> QED
    BY <2>1, <2>2
<1>5. h[m] = IF x \in stay THEN Append(h[n], x) ELSE h[n]
  <2>1. m \in 0 .. m /\ m # 0 /\ m - 1 = n
    BY <1>1
  <2>2. \A k \in 0 .. m :
          h[k] = IF k = 0 THEN <<>> ELSE IF t[k] \in stay THEN Append(h[k - 1], t[k]) ELSE h[k - 1]
    <3>1. h = [k \in 0 .. m |->
                 IF k = 0 THEN <<>> ELSE IF t[k] \in stay THEN Append(h[k - 1], t[k]) ELSE h[k - 1]]
      BY <1>3, Zenon DEF KeptOf
    <3> QED
      BY <3>1, Zenon
  <2> QED
    BY <1>1, <2>1, <2>2
<1> QED
  BY <1>2, <1>3, <1>4, <1>5 DEF t

\* A list that is not empty is another one with a registration at the end.
LEMMA Snoc ==
  ASSUME NEW R, NEW s \in Seq(R), s # <<>>
  PROVE  \E t \in Seq(R), x \in R : s = Append(t, x) /\ Len(s) = Len(t) + 1
<1> DEFINE n == Len(s) - 1
           t == [i \in 1 .. n |-> s[i]]
<1>1. n \in Nat /\ Len(s) = n + 1 /\ s[n + 1] \in R
  OBVIOUS
<1>2. t \in Seq(R) /\ Len(t) = n
  BY <1>1
<1>3. s = Append(t, s[n + 1])
  <2>0. \A i \in 1 .. n : t[i] = s[i]
    OBVIOUS
  <2> HIDE DEF t, n
  <2>1. Append(t, s[n + 1]) \in Seq(R) /\ Len(Append(t, s[n + 1])) = n + 1
    BY <1>1, <1>2
  <2>2. \A i \in 1 .. n + 1 : Append(t, s[n + 1])[i] = s[i]
    BY <1>1, <1>2, <2>0
  <2> QED
    BY <1>1, <2>1, <2>2
<1> QED
  BY <1>1, <1>2, <1>3, Zenon

\* A fact about lists that holds of <<>> and stays true when a registration is
\* added at the end has no shortest counterexample, hence none.
LEMMA SnocInduction ==
  ASSUME NEW R, NEW Good, <<>> \in Good,
         \A t \in Seq(R), x \in R : t \in Good => Append(t, x) \in Good
  PROVE  Seq(R) \subseteq Good
<1> DEFINE Bad == {n \in Nat : \E s \in Seq(R) : Len(s) = n /\ s \notin Good}
<1> SUFFICES ASSUME NEW s \in Seq(R), s \notin Good PROVE FALSE
  OBVIOUS
<1>1. Len(s) \in Bad
  OBVIOUS
<1>2. PICK n \in Bad : \A k \in Bad : n <= k
  BY <1>1, NatMin, Zenon
<1>3. PICK u \in Seq(R) : Len(u) = n /\ u \notin Good
  OBVIOUS
<1>4. PICK t \in Seq(R), x \in R : u = Append(t, x) /\ Len(u) = Len(t) + 1
  BY <1>3, Snoc, Zenon
<1>5. Len(t) \in Bad
  BY <1>3, <1>4
<1>6. Len(t) \in Nat
  OBVIOUS
<1> HIDE DEF Bad
<1> QED
  BY <1>2, <1>3, <1>4, <1>5, <1>6

\* The registrations of a list with one more at the end
LEMMA MembersAppend ==
  ASSUME NEW R, NEW s \in Seq(R), NEW x \in R
  PROVE  Members(Append(s, x)) = Members(s) \cup {x}
<1> DEFINE t == Append(s, x)
           n == Len(s)
<1>1. /\ n \in Nat /\ DOMAIN s = 1 .. n /\ DOMAIN t = 1 .. n + 1 /\ t[n + 1] = x
      /\ \A i \in 1 .. n : t[i] = s[i]
  OBVIOUS
<1>2. 1 .. n + 1 = (1 .. n) \cup {n + 1}
  BY <1>1
<1> HIDE DEF t, n
<1>3. {t[i] : i \in DOMAIN t} = {s[i] : i \in DOMAIN s} \cup {x}
  BY <1>1, <1>2
<1> QED
  BY <1>3 DEF t, Members

\* A list without registrations is empty, and the other way round.
LEMMA MembersEmpty ==
  ASSUME NEW R, NEW s \in Seq(R)
  PROVE  (Members(s) = {}) <=> (s = <<>>)
<1>1. ASSUME Members(s) = {} PROVE s = <<>>
  <2>1. 1 \notin DOMAIN s
    BY <1>1 DEF Members
  <2> QED
    BY <2>1
<1>2. Members(<<>>) = {}
  BY DEF Members
<1> QED
  BY <1>1, <1>2

\* The loop keeps the registrations that stay, and no more.
LEMMA OnlyMembers ==
  ASSUME NEW R, NEW s \in Seq(R), NEW stay
  PROVE  /\ Only(s, stay) \in Seq(R)
         /\ Len(Only(s, stay)) <= Len(s)
         /\ Members(Only(s, stay)) = Members(s) \cap stay
<1> DEFINE Good == {t \in Seq(R) : /\ Only(t, stay) \in Seq(R)
                                   /\ Len(Only(t, stay)) <= Len(t)
                                   /\ Members(Only(t, stay)) = Members(t) \cap stay}
<1>1. <<>> \in Good
  <2>1. <<>> \in Seq(R) /\ Len(<<>>) <= Len(<<>>)
    OBVIOUS
  <2>2. Only(<<>>, stay) = <<>>
    BY OnlyEmpty
  <2>3. Members(<<>>) = Members(<<>>) \cap stay
    BY <2>1, MembersEmpty, Zenon
  <2> QED
    BY <2>1, <2>2, <2>3, Zenon
<1>2. ASSUME NEW t \in Seq(R), NEW x \in R, t \in Good
      PROVE  Append(t, x) \in Good
  <2> DEFINE u == Append(t, x)
             o == Only(t, stay)
  <2>1. u \in Seq(R) /\ Len(u) = Len(t) + 1 /\ Len(t) \in Nat
    OBVIOUS
  <2>2. o \in Seq(R) /\ Len(o) <= Len(t) /\ Members(o) = Members(t) \cap stay
    BY <1>2
  <2>3. Members(u) = Members(t) \cup {x}
    BY MembersAppend
  <2>4. CASE x \in stay
    <3>1. Only(u, stay) = Append(o, x)
      BY <2>4, OnlyAppend
    <3> HIDE DEF o
    <3>2. /\ Append(o, x) \in Seq(R) /\ Len(Append(o, x)) = Len(o) + 1 /\ Len(o) \in Nat
          /\ Members(Append(o, x)) = Members(o) \cup {x}
      BY <2>2, MembersAppend
    <3> HIDE DEF u
    <3>3. Only(u, stay) \in Seq(R) /\ Len(Only(u, stay)) <= Len(u)
      BY <2>1, <2>2, <3>1, <3>2
    <3>4. Members(Only(u, stay)) = Members(u) \cap stay
      BY <2>2, <2>3, <2>4, <3>1, <3>2, Zenon
    <3>5. u \in Good
      BY <2>1, <3>3, <3>4, Zenon
    <3> QED
      BY <3>5 DEF u
  <2>5. CASE x \notin stay
    <3>1. Only(u, stay) = o
      BY <2>5, OnlyAppend
    <3>2. Len(o) \in Nat
      BY <2>2
    <3> HIDE DEF o, u
    <3>3. Only(u, stay) \in Seq(R) /\ Len(Only(u, stay)) <= Len(u)
      BY <2>1, <2>2, <3>1, <3>2
    <3>4. Members(Only(u, stay)) = Members(u) \cap stay
      BY <2>2, <2>3, <2>5, <3>1, Zenon
    <3>5. u \in Good
      BY <2>1, <3>3, <3>4, Zenon
    <3> QED
      BY <3>5 DEF u
  <2> QED
    BY <2>4, <2>5
<1>3. Seq(R) \subseteq Good
  <2> HIDE DEF Good
  <2> QED
    BY <1>1, <1>2, SnocInduction, Zenon
<1> QED
  BY <1>3, Zenon

\* The loop only looks at whether the registrations of the list stay.
LEMMA OnlyAgree ==
  ASSUME NEW R, NEW s \in Seq(R), NEW S, NEW T,
         \A h \in Members(s) : h \in S <=> h \in T
  PROVE  Only(s, S) = Only(s, T)
<1> DEFINE Good == {t \in Seq(R) : (\A h \in Members(t) : h \in S <=> h \in T)
                                     => Only(t, S) = Only(t, T)}
<1>1. <<>> \in Good
  <2>1. <<>> \in Seq(R)
    OBVIOUS
  <2>2. Only(<<>>, S) = Only(<<>>, T)
    BY OnlyEmpty
  <2> QED
    BY <2>1, <2>2, Zenon
<1>2. ASSUME NEW t \in Seq(R), NEW x \in R, t \in Good
      PROVE  Append(t, x) \in Good
  <2>1. Append(t, x) \in Seq(R)
    OBVIOUS
  <2>2. Members(Append(t, x)) = Members(t) \cup {x}
    BY MembersAppend
  <2>3. ASSUME \A h \in Members(Append(t, x)) : h \in S <=> h \in T
        PROVE  Only(Append(t, x), S) = Only(Append(t, x), T)
    <3>1. Only(t, S) = Only(t, T) /\ (x \in S <=> x \in T)
      BY <1>2, <2>2, <2>3, Zenon
    <3>2. /\ Only(Append(t, x), S) = IF x \in S THEN Append(Only(t, S), x) ELSE Only(t, S)
          /\ Only(Append(t, x), T) = IF x \in T THEN Append(Only(t, T), x) ELSE Only(t, T)
      BY OnlyAppend, Zenon
    <3> QED
      BY <3>1, <3>2, Zenon
  <2> QED
    BY <2>1, <2>3, Zenon
<1>3. Seq(R) \subseteq Good
  <2> HIDE DEF Good
  <2> QED
    BY <1>1, <1>2, SnocInduction, Zenon
<1> QED
  BY <1>3, Zenon

\* Two loops, one after the other, keep what stays in both.
LEMMA OnlyTwice ==
  ASSUME NEW R, NEW s \in Seq(R), NEW S, NEW T
  PROVE  Only(Only(s, S), T) = Only(s, S \cap T)
<1> DEFINE Good == {t \in Seq(R) : Only(Only(t, S), T) = Only(t, S \cap T)}
<1>1. <<>> \in Good
  <2>1. <<>> \in Seq(R)
    OBVIOUS
  <2> QED
    BY <2>1, OnlyEmpty, Zenon
<1>2. ASSUME NEW t \in Seq(R), NEW x \in R, t \in Good
      PROVE  Append(t, x) \in Good
  <2>1. Append(t, x) \in Seq(R)
    OBVIOUS
  <2>2. Only(t, S) \in Seq(R)
    BY OnlyMembers, Zenon
  <2>3. /\ Only(Append(t, x), S) = IF x \in S THEN Append(Only(t, S), x) ELSE Only(t, S)
        /\ Only(Append(t, x), S \cap T) =
             IF x \in S \cap T THEN Append(Only(t, S \cap T), x) ELSE Only(t, S \cap T)
        /\ Only(Append(Only(t, S), x), T) =
             IF x \in T THEN Append(Only(Only(t, S), T), x) ELSE Only(Only(t, S), T)
    BY <2>2, OnlyAppend, Zenon
  <2>4. Only(Only(t, S), T) = Only(t, S \cap T)
    BY <1>2
  <2>5. Only(Only(Append(t, x), S), T) = Only(Append(t, x), S \cap T)
    <3>1. CASE x \in S
      <4>1. Only(Append(t, x), S) = Append(Only(t, S), x) /\ (x \in S \cap T <=> x \in T)
        BY <2>3, <3>1, Zenon
      <4> QED
        BY <2>3, <2>4, <4>1, Zenon
    <3>2. CASE x \notin S
      BY <2>3, <2>4, <3>2, Zenon
    <3> QED
      BY <3>1, <3>2
  <2> QED
    BY <2>1, <2>5, Zenon
<1>3. Seq(R) \subseteq Good
  <2> HIDE DEF Good
  <2> QED
    BY <1>1, <1>2, SnocInduction, Zenon
<1> QED
  BY <1>3, Zenon

\* The numbers of the registrations of a list differ.
Distinct(s) == \A i, j \in DOMAIN s : s[i].id = s[j].id => i = j

\* They do when a registration is added exactly if its number is new.
LEMMA DistinctAppend ==
  ASSUME NEW R, NEW s \in Seq(R), NEW x \in R
  PROVE  Distinct(Append(s, x)) <=> Distinct(s) /\ \A h \in Members(s) : h.id # x.id
<1> DEFINE t == Append(s, x)
           n == Len(s)
<1>1. /\ n \in Nat /\ DOMAIN s = 1 .. n /\ DOMAIN t = 1 .. n + 1 /\ t[n + 1] = x
      /\ \A i \in 1 .. n : t[i] = s[i]
  OBVIOUS
<1>2. 1 .. n + 1 = (1 .. n) \cup {n + 1} /\ \A i \in 1 .. n : i # n + 1
  BY <1>1
<1> HIDE DEF t, n
<1>3. ASSUME Distinct(t)
      PROVE  Distinct(s) /\ \A h \in Members(s) : h.id # x.id
  BY <1>1, <1>2, <1>3, Zenon DEF Distinct, Members
<1>4. ASSUME Distinct(s), \A h \in Members(s) : h.id # x.id
      PROVE  Distinct(t)
  <2> SUFFICES ASSUME NEW i \in 1 .. n + 1, NEW j \in 1 .. n + 1, t[i].id = t[j].id
               PROVE  i = j
    BY <1>1 DEF Distinct
  <2>1. \A k \in 1 .. n : s[k].id # x.id
    BY <1>1, <1>4 DEF Members
  <2>2. \A k, l \in 1 .. n : s[k].id = s[l].id => k = l
    BY <1>1, <1>4 DEF Distinct
  <2> QED
    BY <1>1, <1>2, <2>1, <2>2
<1> QED
  BY <1>3, <1>4 DEF t

\* They still do in what the loop keeps.
LEMMA OnlyDistinct ==
  ASSUME NEW R, NEW s \in Seq(R), NEW stay, Distinct(s)
  PROVE  Distinct(Only(s, stay))
<1> DEFINE Good == {t \in Seq(R) : Distinct(t) => Distinct(Only(t, stay))}
<1>1. <<>> \in Good
  <2>1. <<>> \in Seq(R)
    OBVIOUS
  <2> QED
    BY <2>1, OnlyEmpty, Zenon
<1>2. ASSUME NEW t \in Seq(R), NEW x \in R, t \in Good
      PROVE  Append(t, x) \in Good
  <2>1. Append(t, x) \in Seq(R)
    OBVIOUS
  <2>2. Only(t, stay) \in Seq(R) /\ Members(Only(t, stay)) \subseteq Members(t)
    BY OnlyMembers
  <2>3. ASSUME Distinct(Append(t, x))
        PROVE  Distinct(Only(Append(t, x), stay))
    <3>1. Distinct(t) /\ \A h \in Members(t) : h.id # x.id
      BY <2>3, DistinctAppend, Zenon
    <3>2. Distinct(Only(t, stay)) /\ \A h \in Members(Only(t, stay)) : h.id # x.id
      BY <1>2, <2>2, <3>1, Zenon
    <3>3. Distinct(Append(Only(t, stay), x))
      BY <2>2, <3>2, DistinctAppend, Zenon
    <3>4. Only(Append(t, x), stay) = IF x \in stay THEN Append(Only(t, stay), x) ELSE Only(t, stay)
      BY OnlyAppend, Zenon
    <3> QED
      BY <3>2, <3>3, <3>4, Zenon
  <2> QED
    BY <2>1, <2>3, Zenon
<1>3. Seq(R) \subseteq Good
  <2> HIDE DEF Good
  <2> QED
    BY <1>1, <1>2, SnocInduction, Zenon
<1> QED
  BY <1>3, Zenon

\* Nothing is dropped where all registrations stay.
LEMMA OnlyAll ==
  ASSUME NEW R, NEW s \in Seq(R), NEW S, Members(s) \subseteq S
  PROVE  Only(s, S) = s
<1> DEFINE Good == {t \in Seq(R) : Members(t) \subseteq S => Only(t, S) = t}
<1>1. <<>> \in Good
  <2>1. <<>> \in Seq(R)
    OBVIOUS
  <2> QED
    BY <2>1, OnlyEmpty, Zenon
<1>2. ASSUME NEW t \in Seq(R), NEW x \in R, t \in Good
      PROVE  Append(t, x) \in Good
  <2>1. Append(t, x) \in Seq(R)
    OBVIOUS
  <2>2. Members(Append(t, x)) = Members(t) \cup {x}
    BY MembersAppend
  <2>3. Only(Append(t, x), S) = IF x \in S THEN Append(Only(t, S), x) ELSE Only(t, S)
    BY OnlyAppend, Zenon
  <2> QED
    BY <1>2, <2>1, <2>2, <2>3, Zenon
<1>3. Seq(R) \subseteq Good
  <2> HIDE DEF Good
  <2> QED
    BY <1>1, <1>2, SnocInduction, Zenon
<1> QED
  BY <1>3, Zenon

\* Loops that let the same registrations stay have the same result.
LEMMA OnlySame ==
  ASSUME NEW R, NEW s \in Seq(R), NEW S1, NEW T1, NEW S2, NEW T2,
         \A h \in Members(s) : (h \in S1 /\ h \in T1) <=> (h \in S2 /\ h \in T2)
  PROVE  Only(Only(s, S1), T1) = Only(Only(s, S2), T2)
<1>1. \A h \in Members(s) : h \in S1 \cap T1 <=> h \in S2 \cap T2
  OBVIOUS
<1>2. Only(s, S1 \cap T1) = Only(s, S2 \cap T2)
  BY <1>1, OnlyAgree, Zenon
<1>3. /\ Only(Only(s, S1), T1) = Only(s, S1 \cap T1)
      /\ Only(Only(s, S2), T2) = Only(s, S2 \cap T2)
  BY OnlyTwice
<1> QED
  BY <1>2, <1>3, Zenon

-----------------------------------------------------------------------------
\* A registration, and what is live of the registrations r when those
\* numbered e have ended
Reg == [id : Nat, kind : {"event", "callback"}, fn : Fn, once : BOOLEAN]
LiveOf(r, e, k) == Only(r, {h \in Members(r) : h.kind = k /\ h.id \notin e})

\* Registrations are numbered in their order, and only what was registered ends.
Numbered(r, e) ==
  /\ r \in Seq(Reg) /\ Len(r) <= MaxAdds
  /\ \A i \in 1 .. Len(r) : r[i].id = i
  /\ e \subseteq 1 .. Len(r)

\* Registrations are known by their numbers.
LEMMA KnownByNumber ==
  ASSUME NEW r, NEW e, Numbered(r, e)
  PROVE  /\ \A h \in Members(r) : h \in Reg /\ h.id \in 1 .. Len(r) /\ h = r[h.id]
         /\ \A g, h \in Members(r) : g.id = h.id => g = h
         /\ Distinct(r)
<1>1. DOMAIN r = 1 .. Len(r) /\ \A i \in 1 .. Len(r) : r[i] \in Reg /\ r[i].id = i
  BY DEF Numbered
<1>2. \A h \in Members(r) : h \in Reg /\ h.id \in 1 .. Len(r) /\ h = r[h.id]
  BY <1>1, Zenon DEF Members
<1>3. \A g, h \in Members(r) : g.id = h.id => g = h
  BY <1>2, Zenon
<1>4. Distinct(r)
  <2>1. \A i, j \in 1 .. Len(r) : r[i].id = r[j].id => i = j
    BY <1>1
  <2> QED
    BY <1>1, <2>1, Zenon DEF Distinct
<1> QED
  BY <1>2, <1>3, <1>4

\* What is live is in the order of registration, each registration once.
LEMMA LiveFacts ==
  ASSUME NEW r, NEW e, Numbered(r, e), NEW k
  PROVE  /\ LiveOf(r, e, k) \in Seq(Reg)
         /\ Members(LiveOf(r, e, k)) = {h \in Members(r) : h.kind = k /\ h.id \notin e}
         /\ Distinct(LiveOf(r, e, k))
<1> DEFINE S == {h \in Members(r) : h.kind = k /\ h.id \notin e}
<1>1. r \in Seq(Reg) /\ Distinct(r)
  BY KnownByNumber, Zenon DEF Numbered
<1>2. LiveOf(r, e, k) = Only(r, S)
  BY DEF LiveOf
<1>3. Members(r) \cap S = S
  OBVIOUS
<1> HIDE DEF S
<1>4. /\ Only(r, S) \in Seq(Reg) /\ Members(Only(r, S)) = Members(r) \cap S
      /\ Distinct(Only(r, S))
  BY <1>1, OnlyMembers, OnlyDistinct, Zenon
<1> QED
  BY <1>2, <1>3, <1>4 DEF S

\* A new registration is the last one of its kind.
LEMMA LiveAdd ==
  ASSUME NEW r, NEW e, Numbered(r, e), NEW k,
         NEW x \in Reg, x.id = Len(r) + 1
  PROVE  LiveOf(Append(r, x), e, k) =
           IF x.kind = k THEN Append(LiveOf(r, e, k), x) ELSE LiveOf(r, e, k)
<1> DEFINE t == Append(r, x)
           S == {h \in Members(r) : h.kind = k /\ h.id \notin e}
           T == {h \in Members(t) : h.kind = k /\ h.id \notin e}
<1>1. r \in Seq(Reg) /\ x.id \notin e
  BY DEF Numbered
<1>2. Members(t) = Members(r) \cup {x}
  BY <1>1, MembersAppend
<1>3. (x \in T <=> x.kind = k) /\ \A h \in Members(r) : h \in S <=> h \in T
  BY <1>1, <1>2
<1>4. LiveOf(r, e, k) = Only(r, S) /\ LiveOf(t, e, k) = Only(t, T)
  BY DEF LiveOf
<1> HIDE DEF S, T
<1>5. Only(t, T) = IF x \in T THEN Append(Only(r, T), x) ELSE Only(r, T)
  BY <1>1, OnlyAppend, Zenon
<1>6. Only(r, S) = Only(r, T)
  BY <1>1, <1>3, OnlyAgree, Zenon
<1> QED
  BY <1>3, <1>4, <1>5, <1>6

\* Only what was registered ends.
LEMMA NumberedEnd ==
  ASSUME NEW r, NEW e, Numbered(r, e),
         NEW gone \in SUBSET Members(r), NEW f, f = e \cup {h.id : h \in gone}
  PROVE  Numbered(r, f)
<1>1. \A h \in Members(r) : h.id \in 1 .. Len(r)
  BY KnownByNumber
<1>2. e \subseteq 1 .. Len(r)
  BY DEF Numbered
<1>3. f \subseteq 1 .. Len(r)
  BY <1>1, <1>2, Zenon
<1> QED
  BY <1>3, Zenon DEF Numbered

\* When registrations end, the others stay in their order.
LEMMA LiveEnd ==
  ASSUME NEW r, NEW e, Numbered(r, e), NEW k,
         NEW gone \in SUBSET Members(r), NEW f, f = e \cup {h.id : h \in gone}
  PROVE  LiveOf(r, f, k) = Only(LiveOf(r, e, k), {h \in Members(r) : h \notin gone})
<1> DEFINE S == {h \in Members(r) : h.kind = k /\ h.id \notin e}
           T == {h \in Members(r) : h \notin gone}
           F == {h \in Members(r) : h.kind = k /\ h.id \notin f}
<1>1. r \in Seq(Reg)
  BY DEF Numbered
<1>2. \A g, h \in Members(r) : g.id = h.id => g = h
  BY KnownByNumber
<1>3. \A h \in Members(r) : h \in S \cap T <=> h \in F
  BY <1>2, Zenon
<1>4. LiveOf(r, e, k) = Only(r, S) /\ LiveOf(r, f, k) = Only(r, F)
  BY DEF LiveOf
<1> HIDE DEF S, T, F
<1>5. Only(Only(r, S), T) = Only(r, S \cap T)
  BY <1>1, OnlyTwice
<1>6. Only(r, S \cap T) = Only(r, F)
  BY <1>1, <1>3, OnlyAgree
<1> QED
  BY <1>4, <1>5, <1>6 DEF T

\* What the three loops keep
LEMMA LoopsKeep ==
  ASSUME NEW s \in Seq(Reg)
  PROVE  /\ LastingOf(s) \in Seq(Reg) /\ Len(LastingOf(s)) <= Len(s)
         /\ Members(LastingOf(s)) = {h \in Members(s) : ~h.once}
         /\ OnceOf(s) \in Seq(Reg) /\ Len(OnceOf(s)) <= Len(s)
         /\ Members(OnceOf(s)) = {h \in Members(s) : h.once}
         /\ \A fs : /\ Without(s, fs) \in Seq(Reg)
                    /\ Members(Without(s, fs)) = {h \in Members(s) : h.fn \notin fs}
<1>1. ASSUME NEW S, S \subseteq Members(s)
      PROVE  Only(s, S) \in Seq(Reg) /\ Len(Only(s, S)) <= Len(s) /\ Members(Only(s, S)) = S
  <2>1. Members(s) \cap S = S
    BY <1>1
  <2> QED
    BY <2>1, OnlyMembers, Zenon
<1>2. ASSUME NEW fs
      PROVE  /\ Without(s, fs) \in Seq(Reg)
             /\ Members(Without(s, fs)) = {h \in Members(s) : h.fn \notin fs}
  <2>1. {h \in Members(s) : h.fn \notin fs} \subseteq Members(s)
    OBVIOUS
  <2> QED
    BY <1>1, <2>1, Zenon DEF Without
<1>3. /\ {h \in Members(s) : ~h.once} \subseteq Members(s)
      /\ {h \in Members(s) : h.once} \subseteq Members(s)
  OBVIOUS
<1>4. /\ LastingOf(s) \in Seq(Reg) /\ Len(LastingOf(s)) <= Len(s)
      /\ Members(LastingOf(s)) = {h \in Members(s) : ~h.once}
  BY <1>1, <1>3, Zenon DEF LastingOf
<1>5. /\ OnceOf(s) \in Seq(Reg) /\ Len(OnceOf(s)) <= Len(s)
      /\ Members(OnceOf(s)) = {h \in Members(s) : h.once}
  BY <1>1, <1>3, Zenon DEF OnceOf
<1> QED
  BY <1>2, <1>4, <1>5, Zenon

\* A registration for one call is kept last by one loop, any other one by the
\* other.
LEMMA LoopsAppend ==
  ASSUME NEW s \in Seq(Reg), NEW x \in Reg
  PROVE  /\ LastingOf(Append(s, x)) = IF x.once THEN LastingOf(s) ELSE Append(LastingOf(s), x)
         /\ OnceOf(Append(s, x)) = IF x.once THEN Append(OnceOf(s), x) ELSE OnceOf(s)
<1> DEFINE t == Append(s, x)
<1>1. Members(t) = Members(s) \cup {x}
  BY MembersAppend
<1>2. ASSUME NEW S, NEW T, \A h \in Members(s) : h \in S <=> h \in T
      PROVE  Only(t, T) = IF x \in T THEN Append(Only(s, S), x) ELSE Only(s, S)
  <2>1. Only(s, S) = Only(s, T)
    BY <1>2, OnlyAgree
  <2>2. Only(t, T) = IF x \in T THEN Append(Only(s, T), x) ELSE Only(s, T)
    BY OnlyAppend
  <2> QED
    BY <2>1, <2>2
<1> HIDE DEF t
<1>3. LastingOf(t) = IF x.once THEN LastingOf(s) ELSE Append(LastingOf(s), x)
  <2> DEFINE S == {h \in Members(s) : ~h.once}
             T == {h \in Members(t) : ~h.once}
  <2>1. (x \in T <=> ~x.once) /\ \A h \in Members(s) : h \in S <=> h \in T
    BY <1>1
  <2>2. LastingOf(t) = Only(t, T) /\ LastingOf(s) = Only(s, S)
    BY DEF LastingOf
  <2> HIDE DEF S, T
  <2>3. Only(t, T) = IF x \in T THEN Append(Only(s, S), x) ELSE Only(s, S)
    BY <1>2, <2>1
  <2> QED
    BY <2>1, <2>2, <2>3
<1>4. OnceOf(t) = IF x.once THEN Append(OnceOf(s), x) ELSE OnceOf(s)
  <2> DEFINE S == {h \in Members(s) : h.once}
             T == {h \in Members(t) : h.once}
  <2>1. (x \in T <=> x.once) /\ \A h \in Members(s) : h \in S <=> h \in T
    BY <1>1
  <2>2. OnceOf(t) = Only(t, T) /\ OnceOf(s) = Only(s, S)
    BY DEF OnceOf
  <2> HIDE DEF S, T
  <2>3. Only(t, T) = IF x \in T THEN Append(Only(s, S), x) ELSE Only(s, S)
    BY <1>2, <2>1
  <2> QED
    BY <2>1, <2>2, <2>3
<1> QED
  BY <1>3, <1>4 DEF t

\* Functions are removed before or after the registrations for one call are set
\* apart, and these are set apart once.
LEMMA LoopsCommute ==
  ASSUME NEW s \in Seq(Reg), NEW fs
  PROVE  /\ LastingOf(Without(s, fs)) = Without(LastingOf(s), fs)
         /\ OnceOf(Without(s, fs)) = Without(OnceOf(s), fs)
         /\ LastingOf(LastingOf(s)) = LastingOf(s)
         /\ OnceOf(LastingOf(s)) = <<>>
<1>1. /\ Members(LastingOf(s)) = {h \in Members(s) : ~h.once} /\ LastingOf(s) \in Seq(Reg)
      /\ Members(OnceOf(s)) = {h \in Members(s) : h.once}
      /\ Members(Without(s, fs)) = {h \in Members(s) : h.fn \notin fs}
      /\ OnceOf(LastingOf(s)) \in Seq(Reg)
      /\ Members(OnceOf(LastingOf(s))) = {h \in Members(LastingOf(s)) : h.once}
  BY LoopsKeep
<1>2. LastingOf(Without(s, fs)) = Without(LastingOf(s), fs)
  <2> DEFINE S1 == {h \in Members(s) : h.fn \notin fs}
             T1 == {h \in Members(Without(s, fs)) : ~h.once}
             S2 == {h \in Members(s) : ~h.once}
             T2 == {h \in Members(LastingOf(s)) : h.fn \notin fs}
  <2>1. \A h \in Members(s) : (h \in S1 /\ h \in T1) <=> (h \in S2 /\ h \in T2)
    BY <1>1
  <2>2. /\ LastingOf(Without(s, fs)) = Only(Only(s, S1), T1)
        /\ Without(LastingOf(s), fs) = Only(Only(s, S2), T2)
    BY Zenon DEF LastingOf, Without
  <2> HIDE DEF S1, T1, S2, T2
  <2> QED
    BY <2>1, <2>2, OnlySame
<1>3. OnceOf(Without(s, fs)) = Without(OnceOf(s), fs)
  <2> DEFINE S1 == {h \in Members(s) : h.fn \notin fs}
             T1 == {h \in Members(Without(s, fs)) : h.once}
             S2 == {h \in Members(s) : h.once}
             T2 == {h \in Members(OnceOf(s)) : h.fn \notin fs}
  <2>1. \A h \in Members(s) : (h \in S1 /\ h \in T1) <=> (h \in S2 /\ h \in T2)
    BY <1>1
  <2>2. /\ OnceOf(Without(s, fs)) = Only(Only(s, S1), T1)
        /\ Without(OnceOf(s), fs) = Only(Only(s, S2), T2)
    BY Zenon DEF OnceOf, Without
  <2> HIDE DEF S1, T1, S2, T2
  <2> QED
    BY <2>1, <2>2, OnlySame
<1>4. LastingOf(LastingOf(s)) = LastingOf(s)
  <2>1. Members(LastingOf(s)) \subseteq {h \in Members(LastingOf(s)) : ~h.once}
    BY <1>1
  <2>2. LastingOf(LastingOf(s)) = Only(LastingOf(s), {h \in Members(LastingOf(s)) : ~h.once})
    BY DEF LastingOf
  <2> QED
    BY <1>1, <2>1, <2>2, OnlyAll
<1>5. OnceOf(LastingOf(s)) = <<>>
  <2>1. Members(OnceOf(LastingOf(s))) = {}
    BY <1>1
  <2> QED
    BY <1>1, <2>1, MembersEmpty
<1> QED
  BY <1>2, <1>3, <1>4, <1>5

\* What is live of a kind stays so when registrations of another kind end.
LEMMA LiveOthers ==
  ASSUME NEW r, NEW e, Numbered(r, e), NEW k,
         NEW gone \in SUBSET Members(r), NEW f, f = e \cup {h.id : h \in gone},
         \A h \in gone : h.kind # k
  PROVE  LiveOf(r, f, k) = LiveOf(r, e, k)
<1> DEFINE L == LiveOf(r, e, k)
           S == {h \in Members(r) : h \notin gone}
<1>1. LiveOf(r, f, k) = Only(L, S)
  BY LiveEnd
<1>2. L \in Seq(Reg) /\ Members(L) = {h \in Members(r) : h.kind = k /\ h.id \notin e}
  BY LiveFacts
<1>3. Members(L) \subseteq S
  BY <1>2
<1> HIDE DEF L, S
<1>4. Only(L, S) = L
  BY <1>2, <1>3, OnlyAll
<1> QED
  BY <1>1, <1>4 DEF L

\* What is left live when the registrations of some functions end
LEMMA LiveWithout ==
  ASSUME NEW r, NEW e, Numbered(r, e), NEW k, NEW fs,
         NEW gone \in SUBSET Members(r), NEW f, f = e \cup {h.id : h \in gone},
         \A h \in Members(LiveOf(r, e, k)) : h \in gone <=> h.fn \in fs
  PROVE  LiveOf(r, f, k) = Without(LiveOf(r, e, k), fs)
<1> DEFINE L == LiveOf(r, e, k)
           S == {h \in Members(r) : h \notin gone}
<1>1. LiveOf(r, f, k) = Only(L, S)
  BY LiveEnd
<1>2. L \in Seq(Reg) /\ Members(L) = {h \in Members(r) : h.kind = k /\ h.id \notin e}
  BY LiveFacts
<1> DEFINE T == {h \in Members(L) : h.fn \notin fs}
<1>3. \A h \in Members(L) : h \in S <=> h \in T
  BY <1>2
<1>4. Without(L, fs) = Only(L, T)
  BY DEF Without
<1> HIDE DEF L, S, T
<1>5. Only(L, S) = Only(L, T)
  BY <1>2, <1>3, OnlyAgree
<1> QED
  BY <1>1, <1>4, <1>5 DEF L

\* What is left live when the registrations for one call end
LEMMA LiveKept ==
  ASSUME NEW r, NEW e, Numbered(r, e), NEW k,
         NEW gone \in SUBSET Members(r), NEW f, f = e \cup {h.id : h \in gone},
         \A h \in Members(LiveOf(r, e, k)) : h \in gone <=> h.once
  PROVE  LiveOf(r, f, k) = LastingOf(LiveOf(r, e, k))
<1> DEFINE L == LiveOf(r, e, k)
           S == {h \in Members(r) : h \notin gone}
<1>1. LiveOf(r, f, k) = Only(L, S)
  BY LiveEnd
<1>2. L \in Seq(Reg) /\ Members(L) = {h \in Members(r) : h.kind = k /\ h.id \notin e}
  BY LiveFacts
<1> DEFINE T == {h \in Members(L) : ~h.once}
<1>3. \A h \in Members(L) : h \in S <=> h \in T
  BY <1>2, Zenon
<1>4. LastingOf(L) = Only(L, T)
  BY DEF LastingOf
<1> HIDE DEF L, S, T
<1>5. Only(L, S) = Only(L, T)
  BY <1>2, <1>3, OnlyAgree
<1> QED
  BY <1>1, <1>4, <1>5 DEF L

-----------------------------------------------------------------------------
\* The list of the event and the two lists of the store are what is live of the
\* registrations.
Listed ==
  /\ Numbered(regs, ended)
  /\ list = LiveOf(regs, ended, "event")
  /\ on = LastingOf(LiveOf(regs, ended, "callback"))
  /\ once = OnceOf(LiveOf(regs, ended, "callback"))

\* What the lists hold
LEMMA ListedFacts ==
  ASSUME Listed
  PROVE  /\ list \in Seq(Reg) /\ on \in Seq(Reg) /\ once \in Seq(Reg)
         /\ Members(list) = {h \in Members(regs) : h.kind = "event" /\ h.id \notin ended}
         /\ Members(on) = {h \in Members(regs) : h.kind = "callback" /\ h.id \notin ended /\ ~h.once}
         /\ Members(once) = {h \in Members(regs) : h.kind = "callback" /\ h.id \notin ended /\ h.once}
         /\ Distinct(list) /\ Distinct(once)
<1> DEFINE L == LiveOf(regs, ended, "callback")
<1>1. /\ list \in Seq(Reg) /\ Distinct(list)
      /\ Members(list) = {h \in Members(regs) : h.kind = "event" /\ h.id \notin ended}
      /\ L \in Seq(Reg) /\ Distinct(L)
      /\ Members(L) = {h \in Members(regs) : h.kind = "callback" /\ h.id \notin ended}
  BY LiveFacts DEF Listed
<1>2. on = LastingOf(L) /\ once = OnceOf(L)
  BY DEF Listed
<1> HIDE DEF L
<1>3. /\ on \in Seq(Reg) /\ Members(on) = {h \in Members(L) : ~h.once}
      /\ once \in Seq(Reg) /\ Members(once) = {h \in Members(L) : h.once}
  BY <1>1, <1>2, LoopsKeep
<1>4. Distinct(once)
  BY <1>1, <1>2, OnlyDistinct DEF OnceOf
<1> QED
  BY <1>1, <1>3, <1>4

\* Nothing is registered at first.
LEMMA InitListed == HandlersInit => Listed
<1> SUFFICES ASSUME HandlersInit PROVE Listed
  OBVIOUS
<1>1. regs = <<>> /\ ended = {} /\ list = <<>> /\ on = <<>> /\ once = <<>>
  BY DEF HandlersInit
<1>2. Numbered(<<>>, {})
  BY HandlersAssumption DEF Numbered
<1>3. \A k : LiveOf(<<>>, {}, k) = <<>>
  BY OnlyEmpty DEF LiveOf
<1>4. LastingOf(<<>>) = <<>> /\ OnceOf(<<>>) = <<>>
  BY OnlyEmpty DEF LastingOf, OnceOf
<1> QED
  BY <1>1, <1>2, <1>3, <1>4 DEF Listed

\* A new registration has the next number.
LEMMA NumberedAdd ==
  ASSUME NEW r, NEW e, Numbered(r, e), Len(r) < MaxAdds,
         NEW x \in Reg, x.id = Len(r) + 1
  PROVE  Numbered(Append(r, x), e)
<1>1. /\ r \in Seq(Reg) /\ Len(r) \in Nat /\ \A i \in 1 .. Len(r) : r[i].id = i
      /\ e \subseteq 1 .. Len(r)
  BY DEF Numbered
<1>2. /\ Append(r, x) \in Seq(Reg) /\ Len(Append(r, x)) = Len(r) + 1
      /\ \A i \in 1 .. Len(r) + 1 : Append(r, x)[i] = IF i = Len(r) + 1 THEN x ELSE r[i]
  BY <1>1
<1>3. \A i \in 1 .. Len(r) + 1 : Append(r, x)[i].id = i
  BY <1>1, <1>2
<1> QED
  BY <1>1, <1>2, <1>3, HandlersAssumption DEF Numbered

\* Registering keeps the lists.
LEMMA RegisterListed ==
  ASSUME HandlersAssumption, Listed, NEW f \in Fn, NEW o \in BOOLEAN,
         Add(f, o) \/ AddCallback(f, o)
  PROVE  Listed'
<1> DEFINE E(r) == LiveOf(r, ended, "event")
           C(r) == LiveOf(r, ended, "callback")
<1>1. Numbered(regs, ended) /\ Len(regs) < MaxAdds /\ Len(regs) \in Nat
  BY DEF Listed, Numbered, Add, AddCallback
<1>2. C(regs) \in Seq(Reg)
  BY <1>1, LiveFacts
<1>3. CASE Add(f, o)
  <2> DEFINE x == New("event", f, o)
  <2>1. x \in Reg /\ x.id = Len(regs) + 1 /\ x.kind = "event" /\ x.kind # "callback"
    BY <1>1 DEF New, Reg
  <2>2. /\ regs' = Append(regs, x) /\ list' = Append(list, x)
        /\ on' = on /\ once' = once /\ ended' = ended
    BY <1>3 DEF Add
  <2> HIDE DEF x
  <2>3. Numbered(regs', ended') /\ E(regs') = Append(E(regs), x) /\ C(regs') = C(regs)
    BY <1>1, <2>1, <2>2, NumberedAdd, LiveAdd
  <2> QED
    BY <2>2, <2>3 DEF Listed
<1>4. CASE AddCallback(f, o)
  <2> DEFINE x == New("callback", f, o)
  <2>1. /\ x \in Reg /\ x.id = Len(regs) + 1 /\ x.kind = "callback" /\ x.kind # "event"
        /\ x.once = o
    BY <1>1 DEF New, Reg
  <2>2. /\ regs' = Append(regs, x) /\ list' = list /\ ended' = ended
        /\ on' = (IF o THEN on ELSE Append(on, x)) /\ once' = (IF o THEN Append(once, x) ELSE once)
    BY <1>4 DEF AddCallback
  <2> HIDE DEF x
  <2>3. Numbered(regs', ended') /\ E(regs') = E(regs) /\ C(regs') = Append(C(regs), x)
    BY <1>1, <2>1, <2>2, NumberedAdd, LiveAdd
  <2>4. /\ LastingOf(C(regs')) = IF o THEN LastingOf(C(regs)) ELSE Append(LastingOf(C(regs)), x)
        /\ OnceOf(C(regs')) = IF o THEN Append(OnceOf(C(regs)), x) ELSE OnceOf(C(regs))
    <3> HIDE DEF C
    <3> QED
      BY <1>2, <2>1, <2>3, LoopsAppend
  <2> QED
    BY <2>2, <2>3, <2>4 DEF Listed
<1> QED
  BY <1>3, <1>4, Zenon

\* So does removing.
LEMMA RemoveListed ==
  ASSUME Listed,
         \/ \E f \in Fn : Off(f)
         \/ \E fs \in SUBSET Fn : RemoveCallback(fs)
         \/ OffAll
  PROVE  Listed'
<1> DEFINE E(e) == LiveOf(regs, e, "event")
           C(e) == LiveOf(regs, e, "callback")
<1>1. /\ Numbered(regs, ended) /\ list = E(ended)
      /\ on = LastingOf(C(ended)) /\ once = OnceOf(C(ended)) /\ C(ended) \in Seq(Reg)
  BY LiveFacts, Zenon DEF Listed
<1>2. /\ \A h \in Members(regs) : h.fn \in Fn
      /\ Members(E(ended)) \subseteq Members(regs) /\ \A h \in Members(E(ended)) : h.kind = "event"
      /\ Members(C(ended)) \subseteq Members(regs) /\ \A h \in Members(C(ended)) : h.kind = "callback"
  BY <1>1, KnownByNumber, LiveFacts DEF Reg
<1>3. ASSUME NEW k, NEW fs
      PROVE  /\ Of(k, fs) \in SUBSET Members(regs) /\ \A h \in Of(k, fs) : h.kind = k
             /\ \A h \in Members(regs) : h.kind = k => (h \in Of(k, fs) <=> h.fn \in fs)
  BY Zenon DEF Of
<1>4. ASSUME NEW fs, list' = Without(list, fs), on' = on, once' = once, regs' = regs,
             ended' = ended \cup {h.id : h \in Of("event", fs)}
      PROVE  Listed'
  <2> DEFINE g == Of("event", fs)
  <2>1. g \in SUBSET Members(regs) /\ ended' = ended \cup {h.id : h \in g}
    BY <1>3, <1>4
  <2>2. \A h \in g : h.kind # "callback"
    BY <1>3
  <2>3. \A h \in Members(E(ended)) : h \in g <=> h.fn \in fs
    BY <1>2, <1>3, Zenon
  <2> HIDE DEF g
  <2>4. Numbered(regs, ended') /\ C(ended') = C(ended)
    BY <1>1, <2>1, <2>2, NumberedEnd, LiveOthers, Zenon
  <2>5. E(ended') = Without(E(ended), fs)
    BY <1>1, <2>1, <2>3, LiveWithout
  <2> QED
    BY <1>1, <1>4, <2>4, <2>5, Zenon DEF Listed
<1>5. ASSUME NEW f \in Fn, Off(f) PROVE Listed'
  BY <1>4, <1>5, Zenon DEF Off
<1>6. ASSUME OffAll PROVE Listed'
  <2>1. Without(list, Fn) = <<>>
    <3>1. list \in Seq(Reg) /\ \A h \in Members(list) : h.fn \in Fn
      BY <1>1, <1>2, LiveFacts, Zenon
    <3>2. Without(list, Fn) \in Seq(Reg) /\ Members(Without(list, Fn)) = {}
      BY <3>1, LoopsKeep
    <3> QED
      BY <3>2, MembersEmpty, Zenon
  <2> QED
    BY <1>4, <1>6, <2>1 DEF OffAll
<1>7. ASSUME NEW fs \in SUBSET Fn, RemoveCallback(fs) PROVE Listed'
  <2> DEFINE gone == IF fs = {} THEN Fn ELSE fs
             g == Of("callback", gone)
  <2>1. /\ on' = Without(on, gone) /\ once' = Without(once, gone) /\ list' = list /\ regs' = regs
        /\ ended' = ended \cup {h.id : h \in g}
    BY <1>7 DEF RemoveCallback
  <2> HIDE DEF gone
  <2>2. g \in SUBSET Members(regs) /\ \A h \in g : h.kind # "event"
    BY <1>3
  <2>3. \A h \in Members(C(ended)) : h \in g <=> h.fn \in gone
    BY <1>2, <1>3, Zenon
  <2> HIDE DEF g
  <2>4. Numbered(regs, ended') /\ E(ended') = E(ended)
    BY <1>1, <2>1, <2>2, NumberedEnd, LiveOthers
  <2>5. C(ended') = Without(C(ended), gone)
    BY <1>1, <2>1, <2>2, <2>3, LiveWithout
  <2>6. /\ LastingOf(C(ended')) = Without(LastingOf(C(ended)), gone)
        /\ OnceOf(C(ended')) = Without(OnceOf(C(ended)), gone)
    <3> HIDE DEF C
    <3> QED
      BY <1>1, <2>5, LoopsCommute
  <2> QED
    BY <1>1, <2>1, <2>4, <2>6, Zenon DEF Listed
<1> QED
  BY <1>5, <1>6, <1>7

\* And so do dispatch and forEach, which take what is for one call.
LEMMA DispatchListed ==
  ASSUME Listed, NEW d \in Dispatcher, Dispatch(d) \/ ForEach(d)
  PROVE  Listed'
<1> DEFINE E(e) == LiveOf(regs, e, "event")
           C(e) == LiveOf(regs, e, "callback")
<1>1. /\ Numbered(regs, ended) /\ list = E(ended)
      /\ on = LastingOf(C(ended)) /\ once = OnceOf(C(ended))
  BY Zenon DEF Listed
<1>2. /\ E(ended) \in Seq(Reg) /\ C(ended) \in Seq(Reg)
      /\ Members(E(ended)) \subseteq Members(regs) /\ \A h \in Members(E(ended)) : h.kind = "event"
      /\ Members(C(ended)) \subseteq Members(regs) /\ \A h \in Members(C(ended)) : h.kind = "callback"
  BY <1>1, LiveFacts
<1>3. CASE Dispatch(d)
  <2> DEFINE g == Members(OnceOf(list))
  <2>1. /\ list' = LastingOf(list) /\ on' = on /\ once' = once /\ regs' = regs
        /\ ended' = ended \cup {h.id : h \in g}
    BY <1>3 DEF Dispatch
  <2>2. g = {h \in Members(E(ended)) : h.once}
    BY <1>1, <1>2, LoopsKeep
  <2>3. g \in SUBSET Members(regs) /\ \A h \in g : h.kind # "callback"
    BY <1>2, <2>2
  <2>4. \A h \in Members(E(ended)) : h \in g <=> h.once
    BY <2>2, Zenon
  <2> HIDE DEF g
  <2>5. Numbered(regs, ended') /\ C(ended') = C(ended)
    BY <1>1, <2>1, <2>3, NumberedEnd, LiveOthers
  <2>6. E(ended') = LastingOf(E(ended))
    BY <1>1, <2>1, <2>3, <2>4, LiveKept
  <2> QED
    BY <1>1, <2>1, <2>5, <2>6, Zenon DEF Listed
<1>4. CASE ForEach(d)
  <2> DEFINE g == Members(once)
  <2>1. /\ list' = list /\ on' = on /\ once' = <<>> /\ regs' = regs
        /\ ended' = ended \cup {h.id : h \in g}
    BY <1>4 DEF ForEach
  <2>2. g = {h \in Members(C(ended)) : h.once}
    BY <1>1, <1>2, LoopsKeep
  <2>3. g \in SUBSET Members(regs) /\ \A h \in g : h.kind # "event"
    BY <1>2, <2>2
  <2>4. \A h \in Members(C(ended)) : h \in g <=> h.once
    BY <2>2, Zenon
  <2> HIDE DEF g
  <2>5. Numbered(regs, ended') /\ E(ended') = E(ended)
    BY <1>1, <2>1, <2>3, NumberedEnd, LiveOthers
  <2>6. C(ended') = LastingOf(C(ended))
    BY <1>1, <2>1, <2>3, <2>4, LiveKept
  <2>7. LastingOf(C(ended')) = LastingOf(C(ended)) /\ OnceOf(C(ended')) = <<>>
    <3> HIDE DEF C
    <3> QED
      BY <1>2, <2>6, LoopsCommute
  <2> QED
    BY <1>1, <2>1, <2>5, <2>7, Zenon DEF Listed
<1> QED
  BY <1>3, <1>4

\* Every step keeps the lists.
LEMMA StepListed == HandlersAssumption /\ Listed /\ [HandlersNext]_handlersVars => Listed'
<1> SUFFICES ASSUME HandlersAssumption, Listed, [HandlersNext]_handlersVars PROVE Listed'
  OBVIOUS
<1>1. ASSUME NEW f \in Fn, NEW o \in BOOLEAN, Add(f, o) \/ AddCallback(f, o) PROVE Listed'
  BY <1>1, RegisterListed
<1>2. ASSUME \/ \E f \in Fn : Off(f)
             \/ \E fs \in SUBSET Fn : RemoveCallback(fs)
             \/ OffAll
      PROVE  Listed'
  BY <1>2, RemoveListed
<1>3. ASSUME NEW d \in Dispatcher, Dispatch(d) \/ ForEach(d) PROVE Listed'
  BY <1>3, DispatchListed
<1>4. ASSUME NEW d \in Dispatcher, Call(d) \/ CallFails(d) \/ CallCallback(d) PROVE Listed'
  <2>1. regs' = regs /\ ended' = ended /\ list' = list /\ on' = on /\ once' = once
    BY <1>4 DEF Call, CallFails, CallCallback
  <2> QED
    BY <2>1, Zenon DEF Listed
<1>5. CASE UNCHANGED handlersVars
  BY <1>5 DEF handlersVars, Listed
<1> QED
  BY <1>1, <1>2, <1>3, <1>4, <1>5, Zenon DEF HandlersNext, Registering, Dispatching

-----------------------------------------------------------------------------
\* What dispatch and forEach copied are registrations, what has yet to be called
\* of those for one call is in one place only, and has ended.
Copied ==
  /\ items \in [Dispatcher -> Seq(Reg)]
  /\ kind \in [Dispatcher -> {"event", "callback"}]
  /\ \A d \in Dispatcher : Members(items[d]) \subseteq Members(regs)
  /\ \A d, e \in Dispatcher : \A i \in DOMAIN items[d], j \in DOMAIN items[e] :
       items[d][i].once /\ items[e][j].id = items[d][i].id => e = d /\ j = i
  /\ \A d \in Dispatcher : \A i \in DOMAIN items[d] :
       items[d][i].once => items[d][i].id \in ended

\* A registration for one call that was called has ended and is called no more.
CalledEnded ==
  /\ calls \in [1 .. MaxAdds -> {0, 1}]
  /\ \A k \in 1 .. MaxAdds : calls[k] = 1 =>
       k \in ended /\ \A d \in Dispatcher : \A i \in DOMAIN items[d] : items[d][i].id # k

\* The inductive invariant
HandlersInv == Listed /\ Copied /\ CalledEnded

\* At first nothing is copied or called.
LEMMA InitHandlers == HandlersAssumption /\ HandlersInit => HandlersInv
<1> SUFFICES ASSUME HandlersAssumption, HandlersInit PROVE HandlersInv
  OBVIOUS
<1>1. Listed
  BY InitListed
<1>2. /\ items = [d \in Dispatcher |-> <<>>] /\ kind = [d \in Dispatcher |-> "event"]
      /\ calls = [k \in 1 .. MaxAdds |-> 0]
  BY DEF HandlersInit
<1>3. \A d \in Dispatcher : items[d] = <<>>
  BY <1>2, Zenon
<1>4. Copied
  BY <1>2, <1>3 DEF Copied, Members
<1>5. CalledEnded
  BY <1>2 DEF CalledEnded
<1> QED
  BY <1>1, <1>4, <1>5 DEF HandlersInv

\* What the array holds after the loop: what was kept, then what was there.
LEMMA FilteredIs ==
  ASSUME NEW s \in Seq(Reg)
  PROVE  /\ Filtered(s) \in Seq(Reg) /\ Len(Filtered(s)) = Len(s)
         /\ Len(LastingOf(s)) \in Nat /\ Len(LastingOf(s)) <= Len(s)
         /\ \A i \in 1 .. Len(s) : Filtered(s)[i] = IF i <= Len(LastingOf(s)) THEN LastingOf(s)[i] ELSE s[i]
<1> DEFINE K == LastingOf(s)
           u == SubSeq(s, Len(K) + 1, Len(s))
<1>1. K \in Seq(Reg) /\ Len(K) \in Nat /\ Len(K) <= Len(s)
  BY LoopsKeep
<1>2. Filtered(s) = K \o u
  BY DEF Filtered
<1> HIDE DEF K
<1>3. /\ u \in Seq(Reg) /\ Len(u) = Len(s) - Len(K)
      /\ \A i \in 1 .. Len(u) : u[i] = s[Len(K) + i]
  BY <1>1
<1> HIDE DEF u
<1>4. /\ K \o u \in Seq(Reg) /\ Len(K \o u) = Len(s)
      /\ \A i \in 1 .. Len(s) : (K \o u)[i] = IF i <= Len(K) THEN K[i] ELSE u[i - Len(K)]
  BY <1>1, <1>3
<1>5. \A i \in 1 .. Len(s) : i > Len(K) => u[i - Len(K)] = s[i]
  BY <1>1, <1>3
<1>6. \A i \in 1 .. Len(s) : (K \o u)[i] = IF i <= Len(K) THEN K[i] ELSE s[i]
  BY <1>1, <1>4, <1>5
<1> QED
  BY <1>1, <1>2, <1>4, <1>6 DEF K

\* What a goroutine may take: live registrations, those for one call once.
MayTake(s) ==
  /\ s \in Seq(Reg)
  /\ \A i \in DOMAIN s : s[i] \in Members(regs) /\ s[i].id \notin ended
  /\ \A i, j \in DOMAIN s : s[i].once /\ s[j].id = s[i].id => j = i

\* Taking it, and ending what is for one call, keeps the copies.
LEMMA TakeCopied ==
  ASSUME HandlersInv, NEW d \in Dispatcher, NEW s, MayTake(s), items[d] = <<>>,
         items' = [items EXCEPT ![d] = s], regs' = regs, calls' = calls,
         kind' \in [Dispatcher -> {"event", "callback"}],
         ended \subseteq ended', \A i \in DOMAIN s : s[i].once => s[i].id \in ended'
  PROVE  Copied' /\ CalledEnded'
<1>0. \A e \in Dispatcher : \A i \in DOMAIN items[e] : items[e][i] \in Members(regs)
  <2>1. \A e \in Dispatcher : Members(items[e]) \subseteq Members(regs)
    BY Zenon DEF HandlersInv, Copied
  <2>2. \A e \in Dispatcher : \A i \in DOMAIN items[e] : items[e][i] \in Members(items[e])
    BY DEF Members
  <2> QED
    BY <2>1, <2>2, Zenon
<1>1. /\ items \in [Dispatcher -> Seq(Reg)]
      /\ \A e \in Dispatcher : \A i \in DOMAIN items[e] :
           items[e][i].once => items[e][i].id \in ended
      /\ \A c, e \in Dispatcher : \A i \in DOMAIN items[c], j \in DOMAIN items[e] :
           items[c][i].once /\ items[e][j].id = items[c][i].id => e = c /\ j = i
  BY Zenon DEF HandlersInv, Copied
<1>2. /\ s \in Seq(Reg)
      /\ \A i \in DOMAIN s : s[i] \in Members(regs) /\ s[i].id \notin ended
      /\ \A i, j \in DOMAIN s : s[i].once /\ s[j].id = s[i].id => j = i
  BY Zenon DEF MayTake
<1>3. \A g, h \in Members(regs) : g.id = h.id => g = h
  BY KnownByNumber, Zenon DEF HandlersInv, Listed
<1>4. items' \in [Dispatcher -> Seq(Reg)] /\ items'[d] = s /\ \A e \in Dispatcher : e # d => items'[e] = items[e]
  BY <1>1, <1>2, Zenon
<1>5. \A e \in Dispatcher : Members(items'[e]) \subseteq Members(regs')
  BY <1>0, <1>2, <1>4 DEF Members
<1>6. \A e \in Dispatcher : \A i \in DOMAIN items'[e] :
        items'[e][i].once => items'[e][i].id \in ended'
  BY <1>1, <1>2, <1>4
<1>7. \A e \in Dispatcher : \A i \in DOMAIN s, j \in DOMAIN items[e] :
        s[i].once \/ items[e][j].once => items[e][j].id # s[i].id
  BY <1>0, <1>1, <1>2, <1>3
<1>8. ASSUME NEW c \in Dispatcher, NEW e \in Dispatcher,
             NEW i \in DOMAIN items'[c], NEW j \in DOMAIN items'[e],
             items'[c][i].once, items'[e][j].id = items'[c][i].id
      PROVE  e = c /\ j = i
  <2>1. CASE c = d /\ e = d
    BY <1>2, <1>4, <1>8, <2>1
  <2>2. CASE c = d /\ e # d
    BY <1>4, <1>7, <1>8, <2>2
  <2>3. CASE c # d /\ e = d
    BY <1>4, <1>7, <1>8, <2>3, Zenon
  <2>4. CASE c # d /\ e # d
    BY <1>1, <1>4, <1>8, <2>4
  <2> QED
    BY <2>1, <2>2, <2>3, <2>4
<1>9. Copied'
  <2>1. \A c, e \in Dispatcher : \A i \in DOMAIN items'[c], j \in DOMAIN items'[e] :
          items'[c][i].once /\ items'[e][j].id = items'[c][i].id => e = c /\ j = i
    BY <1>8
  <2> QED
    BY <1>4, <1>5, <1>6, <2>1, Zenon DEF Copied
<1>10. CalledEnded'
  <2>1. /\ calls \in [1 .. MaxAdds -> {0, 1}]
        /\ \A k \in 1 .. MaxAdds : calls[k] = 1 =>
             k \in ended /\ \A e \in Dispatcher : \A i \in DOMAIN items[e] : items[e][i].id # k
    BY Zenon DEF HandlersInv, CalledEnded
  <2>2. ASSUME NEW k \in 1 .. MaxAdds, calls[k] = 1,
               NEW e \in Dispatcher, NEW i \in DOMAIN items'[e]
        PROVE  items'[e][i].id # k
    BY <1>2, <1>4, <2>1, <2>2
  <2> QED
    BY <2>1, <2>2, Zenon DEF CalledEnded
<1> QED
  BY <1>9, <1>10

\* dispatch may take the array it filtered.
LEMMA MayTakeFiltered ==
  ASSUME Listed
  PROVE  /\ MayTake(Filtered(list))
         /\ Members(LastingOf(list)) \subseteq Members(Filtered(list))
         /\ \A i \in DOMAIN Filtered(list) : Filtered(list)[i] \in Members(list)
<1> DEFINE K == LastingOf(list)
           F == Filtered(list)
<1>1. /\ list \in Seq(Reg) /\ Distinct(list)
      /\ Members(list) = {h \in Members(regs) : h.kind = "event" /\ h.id \notin ended}
  BY ListedFacts, Zenon
<1>2. /\ F \in Seq(Reg) /\ DOMAIN F = 1 .. Len(list) /\ Len(K) \in Nat /\ Len(K) <= Len(list)
      /\ \A i \in 1 .. Len(list) : F[i] = IF i <= Len(K) THEN K[i] ELSE list[i]
  BY <1>1, FilteredIs
<1>3. K \in Seq(Reg) /\ Members(K) = {h \in Members(list) : ~h.once}
  BY <1>1, LoopsKeep, Zenon
<1> HIDE DEF K, F
<1>4. /\ \A i \in 1 .. Len(K) : K[i] \in Members(list) /\ ~K[i].once
      /\ \A i \in 1 .. Len(list) : list[i] \in Members(list)
  BY <1>1, <1>3 DEF Members
<1>5. \A i \in DOMAIN F : F[i] \in Members(list)
  BY <1>2, <1>4
<1>6. \A g, h \in Members(regs) : g.id = h.id => g = h
  BY KnownByNumber, Zenon DEF Listed
<1>7. ASSUME NEW i \in DOMAIN F, NEW j \in DOMAIN F, F[i].once, F[j].id = F[i].id
      PROVE  j = i
  <2>1. F[i] \in Members(regs) /\ F[j] \in Members(regs)
    BY <1>1, <1>5
  <2>2. F[j] = F[i]
    BY <1>6, <1>7, <2>1
  <2>3. i > Len(K) /\ j > Len(K)
    BY <1>2, <1>4, <1>7, <2>2
  <2>4. list[i].id = list[j].id
    BY <1>2, <1>7, <2>3
  <2> QED
    BY <1>1, <1>2, <2>4 DEF Distinct
<1>8. Members(K) \subseteq Members(F)
  BY <1>2, <1>3 DEF Members
<1>9. \A i \in DOMAIN F : F[i] \in Members(regs) /\ F[i].id \notin ended
  BY <1>1, <1>5
<1> QED
  BY <1>2, <1>5, <1>7, <1>8, <1>9, Zenon DEF MayTake, K, F

\* forEach may take the callbacks followed by those for one call.
LEMMA MayTakeCallbacks ==
  ASSUME Listed
  PROVE  /\ MayTake(on \o once)
         /\ \A i \in DOMAIN (on \o once) : (on \o once)[i].once => (on \o once)[i] \in Members(once)
<1> DEFINE s == on \o once
<1>1. /\ on \in Seq(Reg) /\ once \in Seq(Reg) /\ Distinct(once)
      /\ Members(on) = {h \in Members(regs) : h.kind = "callback" /\ h.id \notin ended /\ ~h.once}
      /\ Members(once) = {h \in Members(regs) : h.kind = "callback" /\ h.id \notin ended /\ h.once}
  BY ListedFacts, Zenon
<1>2. /\ s \in Seq(Reg) /\ DOMAIN s = 1 .. (Len(on) + Len(once)) /\ Len(on) \in Nat /\ Len(once) \in Nat
      /\ \A i \in 1 .. (Len(on) + Len(once)) : s[i] = IF i <= Len(on) THEN on[i] ELSE once[i - Len(on)]
  BY <1>1
<1> HIDE DEF s
<1>3. /\ \A i \in 1 .. Len(on) : on[i] \in Members(on)
      /\ \A i \in 1 .. Len(once) : once[i] \in Members(once)
  BY <1>1 DEF Members
<1>4. \A i \in DOMAIN s : s[i] \in Members(regs) /\ s[i].id \notin ended
  BY <1>1, <1>2, <1>3
<1>5. \A g, h \in Members(regs) : g.id = h.id => g = h
  BY KnownByNumber DEF Listed
<1>6. \A i \in DOMAIN s : s[i].once =>
        i > Len(on) /\ i - Len(on) \in 1 .. Len(once) /\ s[i] = once[i - Len(on)]
  BY <1>1, <1>2, <1>3
<1>7. ASSUME NEW i \in DOMAIN s, NEW j \in DOMAIN s, s[i].once, s[j].id = s[i].id
      PROVE  j = i
  <2>1. s[j] = s[i]
    BY <1>4, <1>5, <1>7
  <2>2. once[i - Len(on)].id = once[j - Len(on)].id
    BY <1>6, <1>7, <2>1, Zenon
  <2>3. i - Len(on) = j - Len(on)
    BY <1>1, <1>6, <1>7, <2>1, <2>2 DEF Distinct
  <2> QED
    BY <1>2, <2>3
<1>8. \A i \in DOMAIN s : s[i].once => s[i] \in Members(once)
  BY <1>3, <1>6
<1> QED
  BY <1>2, <1>4, <1>7, <1>8, Zenon DEF MayTake, s

\* A call takes the first registration of a copy, a failed one the whole copy.
LEMMA CallCopied ==
  ASSUME HandlersInv, NEW d \in Dispatcher, Call(d) \/ CallFails(d) \/ CallCallback(d)
  PROVE  Copied' /\ CalledEnded'
<1> DEFINE s == items[d]
           t == items'[d]
<1>1. /\ items \in [Dispatcher -> Seq(Reg)] /\ kind \in [Dispatcher -> {"event", "callback"}]
      /\ \A e \in Dispatcher : Members(items[e]) \subseteq Members(regs)
      /\ \A e \in Dispatcher : \A i \in DOMAIN items[e] :
           items[e][i].once => items[e][i].id \in ended
      /\ \A c, e \in Dispatcher : \A i \in DOMAIN items[c], j \in DOMAIN items[e] :
           items[c][i].once /\ items[e][j].id = items[c][i].id => e = c /\ j = i
  BY Zenon DEF HandlersInv, Copied
<1>2. /\ calls \in [1 .. MaxAdds -> {0, 1}]
      /\ \A k \in 1 .. MaxAdds : calls[k] = 1 =>
           k \in ended /\ \A e \in Dispatcher : \A i \in DOMAIN items[e] : items[e][i].id # k
  BY Zenon DEF HandlersInv, CalledEnded
<1>3. /\ s \in Seq(Reg) /\ s # <<>> /\ regs' = regs /\ ended' = ended /\ kind' = kind
      /\ items' = [items EXCEPT ![d] = Tail(s)] \/ items' = [items EXCEPT ![d] = <<>>]
      /\ calls' = calls \/ Called(Head(s))
  BY <1>1 DEF Call, CallFails, CallCallback
<1>4. /\ t \in Seq(Reg)
      /\ \A i \in DOMAIN t : i + 1 \in DOMAIN s /\ t[i] = s[i + 1]
      /\ items' \in [Dispatcher -> Seq(Reg)] /\ \A e \in Dispatcher : e # d => items'[e] = items[e]
  <2>1. CASE items' = [items EXCEPT ![d] = Tail(s)]
    <3>1. t = Tail(s)
      BY <1>1, <2>1
    <3>2. Tail(s) \in Seq(Reg) /\ \A i \in DOMAIN Tail(s) : i + 1 \in DOMAIN s /\ Tail(s)[i] = s[i + 1]
      BY <1>3
    <3> QED
      BY <1>1, <2>1, <3>1, <3>2
  <2>2. CASE items' = [items EXCEPT ![d] = <<>>]
    BY <1>1, <2>2
  <2> QED
    BY <1>3, <2>1, <2>2, Zenon
<1>5. \A e \in Dispatcher : \A i \in DOMAIN items'[e] :
        \E j \in DOMAIN items[e] : items'[e][i] = items[e][j] /\ j = IF e = d THEN i + 1 ELSE i
  BY <1>4, Zenon
<1>6. \A e \in Dispatcher : Members(items'[e]) \subseteq Members(items[e])
  BY <1>5 DEF Members
<1>7. ASSUME NEW c \in Dispatcher, NEW e \in Dispatcher,
             NEW i \in DOMAIN items'[c], NEW j \in DOMAIN items'[e],
             items'[c][i].once, items'[e][j].id = items'[c][i].id
      PROVE  e = c /\ j = i
  <2>1. PICK m \in DOMAIN items[c] : items'[c][i] = items[c][m] /\ m = IF c = d THEN i + 1 ELSE i
    BY <1>5
  <2>2. PICK n \in DOMAIN items[e] : items'[e][j] = items[e][n] /\ n = IF e = d THEN j + 1 ELSE j
    BY <1>5, Zenon
  <2>3. e = c /\ n = m
    BY <1>1, <1>7, <2>1, <2>2
  <2>4. i \in Nat /\ j \in Nat
    BY <1>4
  <2> QED
    BY <2>1, <2>2, <2>3, <2>4
<1>8. Copied'
  <2>1. \A c, e \in Dispatcher : \A i \in DOMAIN items'[c], j \in DOMAIN items'[e] :
          items'[c][i].once /\ items'[e][j].id = items'[c][i].id => e = c /\ j = i
    BY <1>7, Zenon
  <2>2. \A e \in Dispatcher : \A i \in DOMAIN items'[e] :
          items'[e][i].once => items'[e][i].id \in ended
    BY <1>1, <1>5
  <2>3. \A e \in Dispatcher : Members(items'[e]) \subseteq Members(regs)
    BY <1>1, <1>6, Zenon
  <2> QED
    BY <1>1, <1>3, <1>4, <2>1, <2>2, <2>3, Zenon DEF Copied
<1>9. \A k \in 1 .. MaxAdds : calls[k] = 1 =>
        k \in ended /\ \A e \in Dispatcher : \A i \in DOMAIN items'[e] : items'[e][i].id # k
  BY <1>2, <1>5
<1>10. CalledEnded'
  <2>1. CASE calls' = calls
    BY <1>2, <1>3, <1>9, <2>1, Zenon DEF CalledEnded
  <2>2. CASE Called(Head(s)) /\ calls' # calls
    <3> DEFINE h == Head(s)
    <3>1. h = s[1] /\ 1 \in DOMAIN s
      BY <1>3
    <3>2. h.once /\ calls' = [calls EXCEPT ![h.id] = @ + 1]
      BY <2>2 DEF Called
    <3>3. h \in Members(regs)
      <4>1. h \in Members(s)
        BY <3>1 DEF Members
      <4> QED
        BY <1>1, <4>1, Zenon
    <3>4. h.id \in 1 .. MaxAdds
      <4>1. Numbered(regs, ended) /\ Len(regs) \in Nat /\ Len(regs) <= MaxAdds
        BY DEF HandlersInv, Listed, Numbered
      <4>2. h.id \in 1 .. Len(regs)
        BY <3>3, <4>1, KnownByNumber, Zenon
      <4> QED
        BY <4>1, <4>2, HandlersAssumption
    <3> HIDE DEF h
    <3>5. calls[h.id] = 0 /\ h.id \in ended
      BY <1>1, <1>2, <3>1, <3>2, <3>4, Zenon
    <3>6. /\ calls' \in [1 .. MaxAdds -> {0, 1}]
          /\ \A k \in 1 .. MaxAdds : k # h.id => calls'[k] = calls[k]
      BY <1>2, <3>2, <3>4, <3>5
    <3>7. ASSUME NEW e \in Dispatcher, NEW i \in DOMAIN items'[e]
          PROVE  items'[e][i].id # h.id
      <4>1. PICK j \in DOMAIN items[e] : items'[e][i] = items[e][j] /\ j = IF e = d THEN i + 1 ELSE i
        BY <1>5, Zenon
      <4>2. i \in Nat /\ i # 0
        BY <1>4
      <4>3. ~(e = d /\ j = 1)
        BY <4>1, <4>2
      <4> QED
        BY <1>1, <3>1, <3>2, <4>1, <4>3
    <3>8. \A k \in 1 .. MaxAdds : calls'[k] = 1 =>
            k \in ended /\ \A e \in Dispatcher : \A i \in DOMAIN items'[e] : items'[e][i].id # k
      BY <1>9, <3>5, <3>6, <3>7
    <3> QED
      BY <1>3, <3>6, <3>8, Zenon DEF CalledEnded
  <2> QED
    BY <1>3, <2>1, <2>2
<1> QED
  BY <1>8, <1>10

\* Registering and removing leave the copies alone.
LEMMA RegisterCopied ==
  ASSUME HandlersInv, Registering
  PROVE  Copied' /\ CalledEnded'
<1>1. items' = items /\ kind' = kind /\ calls' = calls
  BY Zenon DEF Registering, Add, AddCallback, Off, OffAll, RemoveCallback
<1>2. ended \subseteq ended'
  BY Zenon DEF Registering, Add, AddCallback, Off, OffAll, RemoveCallback
<1>3. Members(regs) \subseteq Members(regs')
  <2>1. CASE regs' = regs
    BY <2>1
  <2>2. ASSUME NEW x, regs' = Append(regs, x) PROVE Members(regs) \subseteq Members(regs')
    <3>1. regs \in Seq(Reg)
      BY DEF HandlersInv, Listed, Numbered
    <3>2. \A i \in DOMAIN regs : i \in DOMAIN Append(regs, x) /\ Append(regs, x)[i] = regs[i]
      BY <3>1
    <3> QED
      BY <2>2, <3>2, Zenon DEF Members
  <2>3. regs' = regs \/ \E x : regs' = Append(regs, x)
    BY Zenon DEF Registering, Add, AddCallback, Off, OffAll, RemoveCallback
  <2> QED
    BY <2>1, <2>2, <2>3
<1>4. Copied'
  <2>1. \A d \in Dispatcher : Members(items[d]) \subseteq Members(regs')
    BY <1>3, Zenon DEF HandlersInv, Copied
  <2>2. \A d \in Dispatcher : \A i \in DOMAIN items[d] :
          items[d][i].once => items[d][i].id \in ended'
    BY <1>2, Zenon DEF HandlersInv, Copied
  <2>3. /\ items \in [Dispatcher -> Seq(Reg)] /\ kind \in [Dispatcher -> {"event", "callback"}]
        /\ \A c, e \in Dispatcher : \A i \in DOMAIN items[c], j \in DOMAIN items[e] :
             items[c][i].once /\ items[e][j].id = items[c][i].id => e = c /\ j = i
    BY Zenon DEF HandlersInv, Copied
  <2> QED
    BY <1>1, <2>1, <2>2, <2>3 DEF Copied
<1>5. CalledEnded'
  BY <1>1, <1>2, Zenon DEF HandlersInv, CalledEnded
<1> QED
  BY <1>4, <1>5

\* The invariant is inductive.
LEMMA StepHandlers == HandlersAssumption /\ HandlersInv /\ [HandlersNext]_handlersVars => HandlersInv'
<1> SUFFICES ASSUME HandlersAssumption, HandlersInv, [HandlersNext]_handlersVars PROVE HandlersInv'
  OBVIOUS
<1>1. Listed'
  BY StepListed DEF HandlersInv
<1>2. ASSUME NEW d \in Dispatcher, Dispatch(d) PROVE Copied' /\ CalledEnded'
  <2> DEFINE s == Filtered(list)
  <2>1. MayTake(s)
    BY MayTakeFiltered DEF HandlersInv
  <2>2. kind \in [Dispatcher -> {"event", "callback"}]
    BY Zenon DEF HandlersInv, Copied
  <2>3. /\ items[d] = <<>> /\ items' = [items EXCEPT ![d] = s] /\ regs' = regs /\ calls' = calls
        /\ kind' \in [Dispatcher -> {"event", "callback"}]
        /\ ended' = ended \cup {h.id : h \in Members(OnceOf(list))}
    BY <1>2, <2>2 DEF Dispatch
  <2>4. \A i \in DOMAIN s : s[i].once => s[i] \in Members(OnceOf(list))
    <3>1. list \in Seq(Reg) /\ Listed
      BY ListedFacts DEF HandlersInv
    <3>2. Members(OnceOf(list)) = {h \in Members(list) : h.once}
      BY <3>1, LoopsKeep
    <3>3. \A i \in DOMAIN s : s[i] \in Members(list)
      BY <3>1, MayTakeFiltered
    <3> QED
      BY <3>2, <3>3
  <2> HIDE DEF s
  <2>5. ended \subseteq ended' /\ \A i \in DOMAIN s : s[i].once => s[i].id \in ended'
    BY <2>3, <2>4, Zenon
  <2> QED
    BY <2>1, <2>3, <2>5, TakeCopied, Zenon
<1>3. ASSUME NEW d \in Dispatcher, ForEach(d) PROVE Copied' /\ CalledEnded'
  <2> DEFINE s == on \o once
  <2>1. MayTake(s) /\ \A i \in DOMAIN s : s[i].once => s[i] \in Members(once)
    BY MayTakeCallbacks, Zenon DEF HandlersInv
  <2>2. kind \in [Dispatcher -> {"event", "callback"}]
    BY DEF HandlersInv, Copied
  <2>3. /\ items[d] = <<>> /\ items' = [items EXCEPT ![d] = s] /\ regs' = regs /\ calls' = calls
        /\ kind' \in [Dispatcher -> {"event", "callback"}]
        /\ ended' = ended \cup {h.id : h \in Members(once)}
    BY <1>3, <2>2 DEF ForEach
  <2> HIDE DEF s
  <2>4. ended \subseteq ended' /\ \A i \in DOMAIN s : s[i].once => s[i].id \in ended'
    BY <2>1, <2>3, Zenon
  <2> QED
    BY <2>1, <2>3, <2>4, TakeCopied, Zenon
<1>4. ASSUME NEW d \in Dispatcher, Call(d) \/ CallFails(d) \/ CallCallback(d)
      PROVE  Copied' /\ CalledEnded'
  BY <1>4, CallCopied
<1>5. ASSUME Registering PROVE Copied' /\ CalledEnded'
  BY <1>5, RegisterCopied, Zenon
<1>6. ASSUME UNCHANGED handlersVars PROVE Copied' /\ CalledEnded'
  <2>1. items' = items /\ kind' = kind /\ regs' = regs /\ ended' = ended /\ calls' = calls
    BY <1>6 DEF handlersVars
  <2> QED
    BY <2>1 DEF HandlersInv, Copied, CalledEnded
<1>7. Copied' /\ CalledEnded'
  BY <1>2, <1>3, <1>4, <1>5, <1>6, Zenon DEF HandlersNext, Dispatching
<1> QED
  BY <1>1, <1>7 DEF HandlersInv

\* What OnceEvent, OnceDisconnect and the like register is called at most once.
THEOREM OnceHandlersCalledOnce == HandlersSpec => []CalledOnce
<1>1. HandlersInit => HandlersInv
  BY InitHandlers, HandlersAssumption
<1>2. HandlersInv /\ [HandlersNext]_handlersVars => HandlersInv'
  BY StepHandlers, HandlersAssumption
<1>3. HandlersInv => CalledOnce
  BY DEF HandlersInv, CalledEnded, CalledOnce
<1> QED
  BY <1>1, <1>2, <1>3, PTL DEF HandlersSpec


\* dispatch calls no handler that off removed before it, and all handlers that
\* are not for one call; forEach calls each callback once. The list and the
\* store hold what is live, and the loop moves within the array only what is
\* not for one call.
THEOREM DispatchServesLive == HandlersSpec => DispatchServes
<1>1. HandlersInit => HandlersInv
  BY InitHandlers, HandlersAssumption
<1>2. HandlersInv /\ [HandlersNext]_handlersVars => HandlersInv'
  BY StepHandlers, HandlersAssumption
<1>3. \A k : Live(k) = LiveOf(regs, ended, k)
  BY Zenon DEF Live, LiveOf
<1>4. ASSUME HandlersInv, NEW d \in Dispatcher, Dispatch(d)
      PROVE  /\ items'[d] = Filtered(list)
             /\ \A e \in Dispatcher : e # d => items'[e] = items[e]
             /\ kind'[d] = "event"
  BY <1>4 DEF HandlersInv, Copied, Dispatch
<1>5. ASSUME HandlersInv, NEW d \in Dispatcher, ForEach(d)
      PROVE  /\ items'[d] = on \o once
             /\ \A e \in Dispatcher : e # d => items'[e] = items[e]
             /\ kind'[d] = "callback"
  BY <1>5, Zenon DEF HandlersInv, Copied, ForEach
<1> DEFINE Serves(d) ==
      /\ Takes(d, "event") =>
           LET due == Live("event")
           IN /\ Members(items'[d]) \subseteq Members(due)
              /\ Members(LastingOf(due)) \subseteq Members(items'[d])
              /\ due = LastingOf(due) \o OnceOf(due) => items'[d] = due
      /\ Takes(d, "callback") =>
           LET due == Live("callback") IN items'[d] = LastingOf(due) \o OnceOf(due)
<1>6. ASSUME HandlersInv, [HandlersNext]_handlersVars, NEW d \in Dispatcher
      PROVE  Serves(d)
  <2>1. \/ Dispatch(d) \/ ForEach(d)
        \/ items'[d] = items[d] \/ items'[d] = <<>> \/ items[d] # <<>>
    <3>1. CASE Registering \/ UNCHANGED handlersVars
      BY <3>1, Zenon DEF Registering, Add, AddCallback, Off, OffAll, RemoveCallback, handlersVars
    <3>2. ASSUME NEW e \in Dispatcher, Dispatch(e) \/ ForEach(e)
          PROVE  e = d \/ items'[d] = items[d]
      BY <1>4, <1>5, <1>6, <3>2, Zenon
    <3>3. ASSUME NEW e \in Dispatcher, Call(e) \/ CallFails(e) \/ CallCallback(e)
          PROVE  items'[d] = items[d] \/ items[d] # <<>>
      BY <1>6, <3>3 DEF HandlersInv, Copied, Call, CallFails, CallCallback
    <3> QED
      BY <1>6, <3>1, <3>2, <3>3, Zenon DEF HandlersNext, Dispatching
  <2>2. CASE Dispatch(d)
    <3>1. items'[d] = Filtered(list) /\ ~Takes(d, "callback") /\ list = Live("event")
      BY <1>3, <1>4, <1>6, <2>2, Zenon DEF Takes, HandlersInv, Listed
    <3>2. /\ Members(Filtered(list)) \subseteq Members(list)
          /\ Members(LastingOf(list)) \subseteq Members(Filtered(list))
      BY <1>6, MayTakeFiltered, Zenon DEF HandlersInv, Members
    <3>3. ASSUME list = LastingOf(list) \o OnceOf(list) PROVE Filtered(list) = list
      <4> DEFINE F == Filtered(list)
                 K == LastingOf(list)
      <4>1. list \in Seq(Reg)
        BY <1>6, ListedFacts, Zenon DEF HandlersInv
      <4>2. /\ F \in Seq(Reg) /\ Len(F) = Len(list) /\ Len(K) \in Nat /\ Len(K) <= Len(list)
            /\ \A i \in 1 .. Len(list) : F[i] = IF i <= Len(K) THEN K[i] ELSE list[i]
        BY <4>1, FilteredIs
      <4>3. K \in Seq(Reg) /\ OnceOf(list) \in Seq(Reg)
        BY <4>1, LoopsKeep, Zenon
      <4> HIDE DEF F, K
      <4>4. \A i \in 1 .. Len(K) : list[i] = K[i]
        <5> DEFINE o == OnceOf(list)
        <5>1. list = K \o o
          BY <3>3 DEF K
        <5> HIDE DEF o
        <5> QED
          BY <4>2, <4>3, <5>1 DEF o
      <4>5. \A i \in 1 .. Len(list) : F[i] = list[i]
        BY <4>2, <4>4
      <4> QED
        BY <4>1, <4>2, <4>5 DEF F
    <3> QED
      BY <3>1, <3>2, <3>3, Zenon
  <2>3. CASE ForEach(d)
    BY <1>3, <1>5, <1>6, <2>3, Zenon DEF Takes, HandlersInv, Listed
  <2>4. CASE items'[d] = items[d] \/ items'[d] = <<>> \/ items[d] # <<>>
    BY <2>4, Zenon DEF Takes
  <2> QED
    BY <2>1, <2>2, <2>3, <2>4
<1>7. HandlersInv /\ [HandlersNext]_handlersVars => [\A d \in Dispatcher : Serves(d)]_handlersVars
  BY <1>6, Zenon
<1> QED
  BY <1>1, <1>2, <1>7, PTL DEF HandlersSpec, DispatchServes

-----------------------------------------------------------------------------
(***************************************************************************)
(* Recovery, for every set of broadcasts, every maxAge, every delay up to    *)
(* maxAge and every overlap: the log keeps what a session in the store      *)
(* needs, offsets are never given twice, and where broadcasts overlap with   *)
(* nothing a recovered client has what it missed once.                      *)
(***************************************************************************)

\* The part of the type invariant the proofs need.
StoreType ==
  /\ clock \in Nat
  /\ next \in Nat
  /\ packets \subseteq Bcast
  /\ session \in Nat \cup {NoSession}
  /\ stage \in [Bcast -> {"new", "numbered", "logged", "done", "failed"}]
  /\ offset \in [Bcast -> Nat]
  /\ created \in [Bcast -> Nat]

\* A packet that was dropped from the log had reached maxAge.
PrunedAreOld ==
  \A b \in Bcast : Logged(b) /\ b \notin packets => created[b] + MaxAge <= clock

\* The inductive invariant of the store.
StoreInv == StoreType /\ PrunedAreOld /\ PacketsRetained

\* What pruneLocked does, at a time not later than the clock, keeps both: a
\* packet it drops is old, and older than any session it leaves.
LEMMA PruneKeeps ==
  ASSUME StoreType, NEW held \in SUBSET Bcast, NEW at \in [Bcast -> Nat],
         NEW now \in Times, NEW log \in SUBSET Bcast, NEW s \in Nat \cup {NoSession},
         \A b \in log : b \notin held => at[b] + MaxAge <= clock,
         s # NoSession => \A b \in log : at[b] > s => b \in held
  PROVE  /\ Kept(held, at, now) \subseteq Bcast
         /\ Alive(s, now) \in Nat \cup {NoSession}
         /\ \A b \in log : b \notin Kept(held, at, now) => at[b] + MaxAge <= clock
         /\ Alive(s, now) # NoSession =>
              \A b \in log : at[b] > Alive(s, now) => b \in Kept(held, at, now)
<1>1. now \in Nat /\ now <= clock /\ MaxAge \in Nat /\ clock \in Nat
  BY RecoveryAssumption DEF Times, StoreType
<1>2. Kept(held, at, now) \subseteq Bcast /\ Alive(s, now) \in Nat \cup {NoSession}
  BY Zenon DEF Kept, Alive
<1>3. ASSUME NEW b \in log, b \notin Kept(held, at, now)
      PROVE  at[b] + MaxAge <= clock
  <2>1. b \in Bcast /\ at[b] \in Nat
    BY Zenon
  <2> QED
    BY <1>1, <1>3, <2>1 DEF Kept
<1>4. ASSUME Alive(s, now) # NoSession, NEW b \in log, at[b] > Alive(s, now)
      PROVE  b \in Kept(held, at, now)
  <2>1. b \in Bcast /\ at[b] \in Nat
    OBVIOUS
  <2>2. Alive(s, now) = s /\ s \in Nat /\ ~(now > s + MaxAge)
    BY <1>4, Zenon DEF Alive
  <2>3. b \in held
    BY <1>4, <2>2, Zenon
  <2> QED
    BY <1>1, <1>4, <2>1, <2>2, <2>3 DEF Kept
<1> QED
  BY <1>2, <1>3, <1>4, Zenon

\* An empty recovery store satisfies the invariant.
LEMMA InitStore == Init => StoreInv
BY RecoveryAssumption DEF Init, StoreInv, StoreType, PrunedAreOld, PacketsRetained, Logged

\* Steps that leave the log, the session and the order of logging alone.
LEMMA QuietStep ==
  ASSUME StoreInv, clock' = clock, next' \in Nat, UNCHANGED <<packets, session, created>>,
         stage' \in [Bcast -> {"new", "numbered", "logged", "done", "failed"}],
         offset' \in [Bcast -> Nat],
         \A b \in Bcast : Logged(b)' <=> Logged(b)
  PROVE  StoreInv'
BY DEF StoreInv, StoreType, PrunedAreOld, PacketsRetained

\* Steps that prune the log and the sessions at a time they have read.
LEMMA PruneStep ==
  ASSUME StoreInv, NEW now \in Times, UNCHANGED <<clock, next, bcastVars>>,
         packets' = Kept(packets, created, now),
         session' \in {Alive(session, now), NoSession}
  PROVE  StoreInv'
<1> DEFINE log == {b \in Bcast : Logged(b)}
<1>1. /\ Kept(packets, created, now) \subseteq Bcast
      /\ Alive(session, now) \in Nat \cup {NoSession}
      /\ \A b \in log : b \notin Kept(packets, created, now) => created[b] + MaxAge <= clock
      /\ Alive(session, now) # NoSession =>
           \A b \in log : created[b] > Alive(session, now) => b \in Kept(packets, created, now)
  <2>1. /\ packets \in SUBSET Bcast /\ created \in [Bcast -> Nat] /\ log \in SUBSET Bcast
        /\ session \in Nat \cup {NoSession} /\ StoreType
        /\ \A b \in log : b \notin packets => created[b] + MaxAge <= clock
        /\ session # NoSession => \A b \in log : created[b] > session => b \in packets
    BY Zenon DEF StoreInv, StoreType, PrunedAreOld, PacketsRetained
  <2> HIDE DEF log
  <2> QED
    BY <2>1, PruneKeeps, Zenon
<1>2. StoreType'
  BY <1>1 DEF StoreInv, StoreType, bcastVars
<1>3. \A b \in Bcast : Logged(b)' <=> b \in log
  BY DEF Logged, bcastVars
<1>4. PrunedAreOld'
  BY <1>1, <1>3, Zenon DEF PrunedAreOld, bcastVars
<1>5. PacketsRetained'
  BY <1>1, <1>3 DEF PacketsRetained, bcastVars
<1> QED
  BY <1>2, <1>4, <1>5 DEF StoreInv

\* log adds a packet with the time it was given and prunes at that time.
LEMMA LogStep ==
  ASSUME StoreInv, NEW p \in Bcast, NEW now \in Times, Log(p, now)
  PROVE  StoreInv'
<1> DEFINE log == {b \in Bcast : Logged(b)} \cup {p}
           held == packets \cup {p}
<1>0. now \in Nat /\ stage[p] = "numbered"
  BY DEF Times, Log
<1>1. /\ created' \in [Bcast -> Nat] /\ created'[p] = now
      /\ \A b \in Bcast : b # p => created'[b] = created[b]
      /\ stage' \in [Bcast -> {"new", "numbered", "logged", "done", "failed"}]
      /\ \A b \in Bcast : Logged(b)' <=> b \in log
  BY <1>0 DEF Log, StoreInv, StoreType, Logged
<1>2. /\ packets' \subseteq Bcast
      /\ session' \in Nat \cup {NoSession}
      /\ \A b \in log : b \notin packets' => created'[b] + MaxAge <= clock
      /\ session' # NoSession => \A b \in log : created'[b] > session' => b \in packets'
  <2>1. /\ held \in SUBSET Bcast /\ log \in SUBSET Bcast
        /\ session \in Nat \cup {NoSession} /\ StoreType
        /\ \A b \in log : b \notin held => created'[b] + MaxAge <= clock
        /\ session # NoSession => \A b \in log : created'[b] > session => b \in held
    BY <1>1 DEF StoreInv, StoreType, PrunedAreOld, PacketsRetained
  <2>2. packets' = Kept(held, created', now) /\ session' = Alive(session, now)
    BY DEF Log
  <2> HIDE DEF log, held
  <2> QED
    BY <1>1, <2>1, <2>2, PruneKeeps, Zenon
<1>3. StoreType'
  BY <1>1, <1>2, Zenon DEF StoreInv, StoreType, Log
<1>4. PrunedAreOld'
  BY <1>1, <1>2, Zenon DEF PrunedAreOld, Log
<1>5. PacketsRetained'
  BY <1>1, <1>2 DEF PacketsRetained
<1> QED
  BY <1>3, <1>4, <1>5 DEF StoreInv

\* save enters a session with a time that may be old, but not by more than
\* maxAge: what was dropped before then is not after it.
LEMMA SaveStep ==
  ASSUME StoreInv, NEW now \in Times, Save(now)
  PROVE  StoreInv'
<1> DEFINE log == {b \in Bcast : Logged(b)}
<1>0. now \in Nat /\ now + Delay >= clock /\ Delay \in Nat /\ Delay <= MaxAge /\ MaxAge \in Nat
  BY RecoveryAssumption DEF Times
<1>1. Alive(now, now) = now
  BY <1>0, RecoveryAssumption DEF Alive
<1>2. /\ Kept(packets, created, now) \subseteq Bcast
      /\ \A b \in log : b \notin Kept(packets, created, now) => created[b] + MaxAge <= clock
      /\ Alive(now, now) # NoSession =>
           \A b \in log : created[b] > Alive(now, now) => b \in Kept(packets, created, now)
  <2>1. /\ packets \in SUBSET Bcast /\ created \in [Bcast -> Nat] /\ log \in SUBSET Bcast
        /\ now \in Nat \cup {NoSession} /\ StoreType /\ clock \in Nat
        /\ \A b \in log : b \notin packets => created[b] + MaxAge <= clock
    BY <1>0 DEF StoreInv, StoreType, PrunedAreOld
  <2>2. \A b \in log : created[b] > now => b \in packets
    <3> SUFFICES ASSUME NEW b \in log, b \notin packets
                 PROVE  ~(created[b] > now)
      OBVIOUS
    <3>1. created[b] + MaxAge <= clock /\ created[b] \in Nat
      BY <2>1, Zenon
    <3> QED
      BY <1>0, <2>1, <3>1
  <2> HIDE DEF log
  <2> QED
    BY <2>1, <2>2, PruneKeeps, Zenon
<1>3. StoreType'
  BY <1>0, <1>2, Zenon DEF StoreInv, StoreType, Save, bcastVars
<1>4. \A b \in Bcast : Logged(b)' <=> b \in log
  BY Zenon DEF Logged, Save, bcastVars
<1>5. PrunedAreOld'
  BY <1>2, <1>4, Zenon DEF PrunedAreOld, Save, bcastVars
<1>6. PacketsRetained'
  <2>1. now # NoSession
    BY <1>0, RecoveryAssumption, Zenon
  <2> QED
    BY <1>1, <1>2, <1>4, <2>1 DEF PacketsRetained, Save, bcastVars
<1> QED
  BY <1>3, <1>5, <1>6 DEF StoreInv

\* Every step of the recovery store and its users keeps the invariant.
LEMMA StepStore == StoreInv /\ [Next]_vars => StoreInv'
<1> SUFFICES ASSUME StoreInv, [Next]_vars
             PROVE  StoreInv'
  BY Zenon
<1>1. ASSUME NEW b \in Bcast, Number(b)
      PROVE  StoreInv'
  <2>1. next' \in Nat
    BY <1>1 DEF Number, NextOffset, StoreInv, StoreType
  <2>2. /\ stage' \in [Bcast -> {"new", "numbered", "logged", "done", "failed"}]
        /\ offset' \in [Bcast -> Nat]
        /\ \A p \in Bcast : Logged(p)' <=> Logged(p)
    BY <1>1, <2>1, Zenon DEF Number, Logged, StoreInv, StoreType
  <2> QED
    BY <1>1, <2>1, <2>2, QuietStep DEF Number
<1>2. ASSUME NEW b \in Bcast, Apply(b) \/ EncodeFails(b)
      PROVE  StoreInv'
  <2>1. /\ stage' \in [Bcast -> {"new", "numbered", "logged", "done", "failed"}]
        /\ next' \in Nat /\ offset' \in [Bcast -> Nat]
        /\ \A p \in Bcast : Logged(p)' <=> Logged(p)
    BY <1>2, Zenon DEF Apply, EncodeFails, Logged, StoreInv, StoreType, storeVars
  <2> QED
    BY <1>2, <2>1, QuietStep, Zenon DEF Apply, EncodeFails, storeVars
<1>3. ASSUME NEW now \in Times, Take(now) \/ Sweep(now)
      PROVE  StoreInv'
  BY <1>3, PruneStep DEF Take, Sweep
<1>4. ASSUME NEW now \in Times, Fallback(now)
      PROVE  StoreInv'
  <2>1. CASE last = 0
    BY <1>4, <2>1 DEF Fallback, StoreInv, StoreType, PrunedAreOld, PacketsRetained, Logged, bcastVars
  <2>2. CASE last # 0
    BY <1>4, <2>2, PruneStep, Zenon DEF Fallback
  <2> QED
    BY <2>1, <2>2, Zenon
<1>5. CASE Lose \/ Remove \/ Register \/ Replay \/ UNCHANGED vars
  BY <1>5 DEF Lose, Remove, Register, Replay, vars, storeVars, bcastVars,
              StoreInv, StoreType, PrunedAreOld, PacketsRetained, Logged
<1>6. CASE Tick
  <2>1. clock \in Nat /\ clock' = clock + 1 /\ MaxAge \in Nat
    BY <1>6, RecoveryAssumption, Zenon DEF Tick, StoreInv, StoreType
  <2>2. StoreType' /\ PacketsRetained'
    BY <1>6, <2>1 DEF Tick, StoreInv, StoreType, PacketsRetained, Logged, storeVars, bcastVars
  <2>3. PrunedAreOld'
    BY <1>6, <2>1 DEF Tick, StoreInv, StoreType, PrunedAreOld, Logged, storeVars, bcastVars
  <2> QED
    BY <2>2, <2>3 DEF StoreInv
<1> QED
  BY <1>1, <1>2, <1>3, <1>4, <1>5, <1>6, LogStep, SaveStep DEF Next, Emit, Store

\* The log keeps every broadcast logged after a session was saved for as long as
\* the session is in the store (PacketsRetained).
THEOREM Retention ==
  Spec => []PacketsRetained
<1>1. StoreInv => PacketsRetained
  BY DEF StoreInv
<1> QED
  BY <1>1, InitStore, StepStore, PTL DEF Spec

-----------------------------------------------------------------------------
\* Offsets are at most next, and a broadcast that has none is new.
OffsetInv ==
  /\ StoreType
  /\ \A b \in Bcast : offset[b] <= next
  /\ OffsetsDistinct

\* nextOffset gives an offset above all it gave before.
LEMMA StepOffset == OffsetInv /\ StoreType' /\ [Next]_vars => OffsetInv'
<1> SUFFICES ASSUME OffsetInv, StoreType', [Next]_vars
             PROVE  OffsetInv'
  OBVIOUS
<1>1. ASSUME NEW b \in Bcast, Number(b)
      PROVE  OffsetInv'
  <2>1. next' > next /\ next' \in Nat /\ next \in Nat
    BY <1>1 DEF Number, NextOffset, OffsetInv, StoreType
  <2>2. offset'[b] = next' /\ \A p \in Bcast : p # b => offset'[p] = offset[p]
    BY <1>1 DEF Number, OffsetInv, StoreType
  <2>3. \A p \in Bcast : offset[p] \in Nat /\ offset[p] <= next
    BY Zenon DEF OffsetInv, StoreType
  <2>4. \A p \in Bcast : offset'[p] <= next'
    BY <2>1, <2>2, <2>3
  <2>5. OffsetsDistinct'
    <3> SUFFICES ASSUME NEW p \in Bcast, NEW q \in Bcast, p # q, offset'[p] = offset'[q]
                 PROVE  offset'[p] = 0
      BY Zenon DEF OffsetsDistinct
    <3>1. p # b /\ q # b
      BY <2>1, <2>2, <2>3
    <3> QED
      BY <2>2, <3>1 DEF OffsetInv, OffsetsDistinct
  <2> QED
    BY <2>4, <2>5, Zenon DEF OffsetInv
<1>2. CASE UNCHANGED <<next, offset>>
  BY <1>2 DEF OffsetInv, OffsetsDistinct
<1> QED
  BY <1>1, <1>2, Zenon DEF Next, Emit, Store, Log, Apply, EncodeFails, Lose, Save, Remove, Take, Fallback, Register,
                    Replay, Sweep, Tick, vars, storeVars, bcastVars

\* No offset is given to two broadcasts, however many are emitted within one
\* tick of the clock (OffsetsDistinct).
THEOREM OffsetsUnique ==
  Spec => []OffsetsDistinct
<1>1. Init => OffsetInv
  BY InitStore DEF Init, OffsetInv, OffsetsDistinct, StoreInv
<1>2. StoreInv => StoreType
  BY DEF StoreInv
<1>3. OffsetInv => OffsetsDistinct
  BY Zenon DEF OffsetInv
<1> QED
  BY <1>1, <1>2, <1>3, InitStore, StepStore, StepOffset, PTL DEF Spec

-----------------------------------------------------------------------------
(***************************************************************************)
(* What the client receives. Where broadcasts overlap with nothing, the      *)
(* order of offsets is the order of the log, the offset the client has seen  *)
(* last separates what it may have received from what it has not, and a     *)
(* broadcast it does not receive has left the log.                         *)
(***************************************************************************)
InLog == {b \in Bcast : Logged(b)}

ClientType ==
  /\ appended \in Nat
  /\ position \in [Bcast -> Nat]
  /\ link \in {"up", "lost", "saved", "away", "taken", "registered", "fresh"}
  /\ last \in Nat
  /\ replay \subseteq Bcast
  /\ got \in [Bcast -> Nat]
  /\ returned \in Nat
  /\ overlap \subseteq Overlap

\* What is in the log or found by recover was logged; positions count.
LogInv ==
  /\ ClientType
  /\ packets \subseteq InLog /\ replay \subseteq InLog
  /\ \A b \in InLog : position[b] <= appended

\* One broadcast at a time, with the highest offset, and none while a client is
\* being added.
OneAtATime ==
  /\ \A b, p \in Emitting : b = p
  /\ \A b \in Emitting : offset[b] = next /\ last < next /\ got[b] = 0
  /\ link \in {"taken", "registered"} => Emitting = {}
  /\ last <= next

\* The log is in the order of the offsets.
LogOrdered ==
  \A b, p \in InLog : offset[b] < offset[p] => position[b] < position[p]

\* What the client has received is not after the last offset it has seen, what
\* recover found for it is.
SeenUpTo ==
  /\ \A b \in Bcast : got[b] = 0 \/ (got[b] = 1 /\ stage[b] = "done" /\ offset[b] <= last)
  /\ \A b \in replay : stage[b] = "done" /\ offset[b] > last
  /\ link \notin {"taken", "registered"} => replay = {}

\* The broadcast was older than maxAge when the client last came back.
Expired(b) == created[b] + MaxAge <= returned

\* A broadcast the client has not received has expired, is to come, or is found.
NoneMissed ==
  /\ returned <= clock
  /\ \A b \in Bcast : stage[b] = "done" => got[b] = 1 \/ Expired(b) \/ offset[b] > last
  /\ link = "up" => \A b \in Bcast : stage[b] = "done" => got[b] = 1 \/ Expired(b)
  /\ link \in {"taken", "registered"} =>
       \A b \in Bcast : stage[b] = "done" => got[b] = 1 \/ Expired(b) \/ b \in replay

SerialInv == overlap = {} => OneAtATime /\ LogOrdered /\ SeenUpTo /\ NoneMissed

\* Of the packets recover found, one is the last in the log.
LEMMA HasLast ==
  ASSUME LogInv, replay # {}
  PROVE  \E b \in replay : \A p \in replay : position[p] <= position[b]
<1> DEFINE N == appended
           T == {N - position[b] : b \in replay}
<1>1. N \in Nat
  BY DEF LogInv, ClientType
<1>2. \A b \in replay : position[b] \in Nat /\ position[b] <= N
  BY Zenon DEF LogInv, ClientType
<1> HIDE DEF N
<1>3. T \in SUBSET Nat /\ T # {}
  BY <1>1, <1>2
<1>4. PICK x \in T : \A y \in T : x <= y
  <2> HIDE DEF T
  <2> QED
    BY <1>3, NatMin, Zenon
<1>5. PICK b \in replay : x = N - position[b]
  BY Zenon
<1>6. \A p \in replay : N - position[b] <= N - position[p]
  BY <1>4, <1>5
<1> QED
  BY <1>1, <1>2, <1>6

\* The packet whose offset the client has seen last after a replay.
LEMMA LastReplayed ==
  ASSUME LogInv, replay # {}
  PROVE  LET b == CHOOSE b \in replay : \A p \in replay : position[p] <= position[b]
         IN  b \in replay /\ \A p \in replay : position[p] <= position[b]
BY HasLast, Zenon

\* Nothing is logged at the start.
LEMMA InitLog == Init => LogInv
<1> SUFFICES ASSUME Init PROVE LogInv
  OBVIOUS
<1>1. InLog = {}
  BY DEF InLog, Init, Logged
<1> QED
  BY <1>1 DEF Init, LogInv, ClientType

\* Every step keeps the positions in the log.
LEMMA StepLog == LogInv /\ StoreInv /\ StoreInv' /\ [Next]_vars => LogInv'
<1> SUFFICES ASSUME LogInv, StoreInv, StoreInv', [Next]_vars
             PROVE  LogInv'
  OBVIOUS
<1>0. StoreType /\ StoreType'
  BY Zenon DEF StoreInv
<1>1. ASSUME NEW b \in Bcast, Number(b) \/ EncodeFails(b)
      PROVE  LogInv'
  <2>1. InLog' = InLog /\ UNCHANGED overlap
    BY <1>0, <1>1 DEF InLog, Logged, Number, EncodeFails, StoreType, Next, vars
  <2> QED
    BY <1>1, <2>1, Zenon DEF LogInv, ClientType, Number, EncodeFails, clientVars, storeVars
<1>2. ASSUME NEW b \in Bcast, NEW now \in Times, Log(b, now)
      PROVE  LogInv'
  <2>1. /\ InLog' = InLog \cup {b} /\ b \notin InLog
    BY <1>0, <1>2 DEF InLog, Logged, Log, StoreType
  <2>2. appended \in Nat /\ appended' = appended + 1
    BY <1>2, Zenon DEF Log, LogInv, ClientType
  <2>3. /\ position' \in [Bcast -> Nat] /\ position'[b] = appended + 1
        /\ \A p \in Bcast : p # b => position'[p] = position[p]
    BY <1>2, <2>2 DEF Log, LogInv, ClientType
  <2>4. \A p \in InLog' : position'[p] <= appended'
    BY <2>1, <2>2, <2>3 DEF LogInv, ClientType, InLog
  <2>5. packets' \subseteq InLog' /\ replay' \subseteq InLog'
    BY <1>2, <2>1, Zenon DEF Log, Kept, LogInv, clientVars
  <2>6. ClientType'
    BY <1>2, <2>2, <2>3, Zenon DEF Log, LogInv, ClientType, clientVars, Next, vars
  <2> QED
    BY <2>2, <2>4, <2>5, <2>6, Zenon DEF LogInv
<1>3. ASSUME NEW b \in Bcast, Apply(b)
      PROVE  LogInv'
  <2>1. InLog' = InLog
    BY <1>0, <1>3, Zenon DEF InLog, Logged, Apply, StoreType
  <2>2. got' \in [Bcast -> Nat] /\ last' \in Nat
    BY <1>0, <1>3 DEF Apply, LogInv, ClientType, StoreType
  <2> QED
    BY <1>3, <2>1, <2>2 DEF LogInv, ClientType, Apply, storeVars, Next, vars
<1>4. ASSUME UNCHANGED <<stage, appended, position>>, packets' \subseteq packets,
             replay' \subseteq replay \/ replay' \subseteq packets, ClientType'
      PROVE  LogInv'
  <2>1. InLog' = InLog
    BY <1>4, Zenon DEF InLog, Logged
  <2> QED
    BY <1>4, <2>1, Zenon DEF LogInv
<1>5. ASSUME NEW now \in Times, Store(now)
      PROVE  LogInv'
  <2>1. now \in Nat
    BY DEF Times
  <2>2. ClientType'
    BY <1>5, <2>1 DEF Store, Save, Take, Fallback, Sweep, Client, Kept, LogInv, ClientType, StoreInv,
                    StoreType, bcastVars, clientVars, Next, vars
  <2>3. /\ UNCHANGED <<stage, appended, position>> /\ packets' \subseteq packets
        /\ replay' \subseteq replay \/ replay' \subseteq packets
    BY <1>5, Zenon DEF Store, Save, Take, Fallback, Sweep, Kept, bcastVars, clientVars
  <2> QED
    BY <1>4, <2>2, <2>3
<1>6. CASE Lose \/ Remove \/ Register \/ Tick \/ UNCHANGED vars
  <2>1. ClientType'
    BY <1>6, Zenon DEF Lose, Remove, Register, Tick, Client, LogInv, ClientType, bcastVars, clientVars, vars, Next
  <2> QED
    BY <1>4, <1>6, <2>1, Zenon DEF Lose, Remove, Register, Tick, bcastVars, clientVars, storeVars, vars
<1>7. CASE Replay
  <2>1. last' \in Nat
    <3>1. CASE replay = {}
      BY <1>7, <3>1, Zenon DEF Replay, LogInv, ClientType
    <3>2. CASE replay # {}
      BY <1>0, <1>7, <3>2, LastReplayed, Zenon DEF Replay, LogInv, ClientType, StoreType
    <3> QED
      BY <3>1, <3>2
  <2>2. got' \in [Bcast -> Nat]
    BY <1>7 DEF Replay, LogInv, ClientType
  <2>3. ClientType'
    BY <1>7, <2>1, <2>2 DEF Replay, Client, LogInv, ClientType, bcastVars, Next, vars
  <2> QED
    BY <1>4, <1>7, <2>3 DEF Replay, bcastVars, storeVars
<1> QED
  BY <1>1, <1>2, <1>3, <1>5, <1>6, <1>7, Zenon DEF Next, Emit

\* The type invariant of the model.
THEOREM RecoveryTyped ==
  Spec => []TypeOK
<1>1. StoreInv /\ LogInv => TypeOK
  BY Zenon DEF StoreInv, StoreType, LogInv, ClientType, TypeOK
<1> QED
  BY <1>1, InitStore, StepStore, InitLog, StepLog, PTL DEF Spec

-----------------------------------------------------------------------------
\* Before the first broadcast nothing is missed.
LEMMA InitSerial == Init => SerialInv
BY DEF Init, SerialInv, OneAtATime, Emitting, LogOrdered, InLog, Logged, SeenUpTo, NoneMissed

\* What the steps of a serial behaviour start from.
Serial ==
  /\ StoreInv /\ OffsetInv /\ LogInv
  /\ overlap = {} /\ OneAtATime /\ LogOrdered /\ SeenUpTo /\ NoneMissed

\* A new broadcast has the highest offset, and is the only one.
LEMMA SerialNumber ==
  ASSUME Serial, NEW b \in Bcast, Number(b)
  PROVE  OneAtATime' /\ LogOrdered' /\ SeenUpTo' /\ NoneMissed'
<1>1. /\ StoreType /\ ClientType /\ overlap = {}
      /\ OneAtATime /\ LogOrdered /\ SeenUpTo /\ NoneMissed
  BY Zenon DEF Serial, StoreInv, LogInv
<1>2. /\ next' > next /\ next' \in Nat /\ next \in Nat
      /\ offset'[b] = next' /\ \A p \in Bcast : p # b => offset'[p] = offset[p]
      /\ stage'[b] = "numbered" /\ \A p \in Bcast : p # b => stage'[p] = stage[p]
      /\ stage[b] = "new" /\ Emitting = {} /\ link \notin {"taken", "registered"}
  BY <1>1 DEF Number, NextOffset, StoreType
<1>3. UNCHANGED <<clock, created, appended, position, link, last, replay, got, returned>>
  BY Zenon DEF Number, clientVars
<1>4. Emitting' = {b}
  BY <1>2, Zenon DEF Emitting
<1>5. InLog' = InLog /\ b \notin InLog /\ InLog \subseteq Bcast
  BY <1>2, Zenon DEF InLog, Logged
<1>6. OneAtATime'
  <2>1. last <= next /\ last \in Nat /\ got[b] = 0
    BY <1>1, <1>2, Zenon DEF OneAtATime, ClientType, SeenUpTo
  <2> QED
    BY <1>2, <1>3, <1>4, <2>1 DEF OneAtATime
<1>7. LogOrdered'
  BY <1>1, <1>2, <1>3, <1>5, Zenon DEF LogOrdered
<1>8. SeenUpTo'
  <2>1. got[b] = 0 /\ b \notin replay
    BY <1>1, <1>2, Zenon DEF SeenUpTo
  <2> QED
    BY <1>1, <1>2, <1>3, <2>1, Zenon DEF SeenUpTo
<1>9. NoneMissed'
  BY <1>1, <1>2, <1>3, Zenon DEF NoneMissed, Expired
<1> QED
  BY <1>6, <1>7, <1>8, <1>9

\* A broadcast that is not logged is never missed.
LEMMA SerialFails ==
  ASSUME Serial, NEW b \in Bcast, EncodeFails(b)
  PROVE  OneAtATime' /\ LogOrdered' /\ SeenUpTo' /\ NoneMissed'
<1>1. /\ StoreType /\ ClientType /\ OneAtATime /\ LogOrdered /\ SeenUpTo /\ NoneMissed
  BY Zenon DEF Serial, StoreInv, LogInv
<1>2. /\ stage[b] = "numbered" /\ stage'[b] = "failed"
      /\ \A p \in Bcast : p # b => stage'[p] = stage[p]
  BY <1>1, Zenon DEF EncodeFails, StoreType
<1>3. UNCHANGED <<clock, next, offset, created, appended, position, link, last, replay, got, returned>>
  BY DEF EncodeFails, clientVars, storeVars
<1>4. Emitting' \subseteq Emitting /\ InLog' = InLog
  BY <1>2, Zenon DEF Emitting, InLog, Logged
<1>5. OneAtATime' /\ LogOrdered'
  BY <1>1, <1>3, <1>4, Zenon DEF OneAtATime, LogOrdered
<1>6. SeenUpTo'
  <2>1. got[b] = 0 /\ b \notin replay
    BY <1>1, <1>2, Zenon DEF SeenUpTo
  <2> QED
    BY <1>1, <1>2, <1>3, <2>1, Zenon DEF SeenUpTo, ClientType
<1>7. NoneMissed'
  BY <1>1, <1>2, <1>3 DEF NoneMissed, Expired
<1> QED
  BY <1>5, <1>6, <1>7

\* The packet that is logged has the highest offset and the highest position.
LEMMA SerialLog ==
  ASSUME Serial, NEW b \in Bcast, NEW now \in Times, Log(b, now)
  PROVE  OneAtATime' /\ LogOrdered' /\ SeenUpTo' /\ NoneMissed'
<1>1. /\ StoreType /\ ClientType /\ OneAtATime /\ LogOrdered /\ SeenUpTo /\ NoneMissed
      /\ OffsetInv /\ LogInv
  BY Zenon DEF Serial, StoreInv, LogInv
<1>2. /\ stage[b] = "numbered" /\ stage'[b] = "logged"
      /\ \A p \in Bcast : p # b => stage'[p] = stage[p] /\ created'[p] = created[p]
  BY <1>1 DEF Log, StoreType
<1>3. UNCHANGED <<clock, next, offset, link, last, replay, got, returned>>
  BY Zenon DEF Log, clientVars
<1>4. Emitting' = Emitting /\ InLog' = InLog \cup {b} /\ b \notin InLog /\ InLog \subseteq Bcast
  BY <1>2, Zenon DEF Emitting, InLog, Logged
<1>5. OneAtATime'
  BY <1>1, <1>3, <1>4 DEF OneAtATime
<1>6. appended \in Nat
  BY <1>1, Zenon DEF ClientType
<1>7. /\ position'[b] = appended + 1
      /\ \A p \in Bcast : p # b => position'[p] = position[p]
  BY <1>1, <1>6, Zenon DEF Log, ClientType
<1>8. LogOrdered'
  <2> SUFFICES ASSUME NEW p \in InLog', NEW q \in InLog', offset[p] < offset[q]
               PROVE  position'[p] < position'[q]
    BY <1>3, Zenon DEF LogOrdered
  <2>1. offset[b] = next
    BY <1>1, <1>2, Zenon DEF OneAtATime, Emitting
  <2>2. p # b
    BY <1>1, <1>4, <2>1 DEF OffsetInv, StoreType
  <2>3. p \in InLog /\ position'[p] = position[p] /\ position[p] \in Nat
    BY <1>1, <1>4, <1>7, <2>2, Zenon DEF ClientType
  <2>4. CASE q = b
    <3>1. position[p] <= appended
      BY <1>1, <2>3, Zenon DEF LogInv
    <3> QED
      BY <1>6, <1>7, <2>3, <2>4, <3>1
  <2>5. CASE q # b
    BY <1>1, <1>4, <1>7, <2>3, <2>5, Zenon DEF LogOrdered
  <2> QED
    BY <2>4, <2>5, Zenon
<1>9. SeenUpTo'
  <2>1. got[b] = 0 /\ b \notin replay
    BY <1>1, <1>2, Zenon DEF SeenUpTo
  <2> QED
    BY <1>1, <1>2, <1>3, <2>1, Zenon DEF SeenUpTo, ClientType
<1>10. NoneMissed'
  BY <1>1, <1>2, <1>3, Zenon DEF NoneMissed, Expired
<1> QED
  BY <1>5, <1>8, <1>9, <1>10

\* Of the client's sockets the broadcast reaches, none has seen its offset; it
\* is missed only by a client that is not there, and then it is to come.
LEMMA SerialApply ==
  ASSUME Serial, NEW b \in Bcast, Apply(b)
  PROVE  OneAtATime' /\ LogOrdered' /\ SeenUpTo' /\ NoneMissed'
<1>1. /\ StoreType /\ ClientType /\ OneAtATime /\ LogOrdered /\ SeenUpTo /\ NoneMissed
      /\ OffsetInv
  BY Zenon DEF Serial, StoreInv, LogInv
<1>2. /\ stage[b] = "logged" /\ stage'[b] = "done"
      /\ \A p \in Bcast : p # b => stage'[p] = stage[p]
  BY <1>1 DEF Apply, StoreType
<1>3. UNCHANGED <<clock, next, offset, created, appended, position, link, replay, returned>>
  BY Zenon DEF Apply, storeVars
<1>4. /\ b \in Emitting /\ Emitting = {b} /\ Emitting' = {}
      /\ InLog' = InLog
  <2>1. b \in Emitting
    BY <1>2 DEF Emitting
  <2>2. Emitting = {b}
    BY <1>1, <2>1, Zenon DEF OneAtATime
  <2> QED
    BY <1>2, <2>1, <2>2, Zenon DEF Emitting, InLog, Logged
<1>5. /\ offset[b] = next /\ last < next /\ got[b] = 0 /\ link \notin {"taken", "registered"}
      /\ replay = {} /\ next \in Nat /\ last \in Nat
  BY <1>1, <1>4, Zenon DEF OneAtATime, SeenUpTo, StoreType, ClientType
<1>6. LogOrdered'
  BY <1>1, <1>3, <1>4 DEF LogOrdered
<1>7. CASE link = "up"
  <2>1. /\ last' = next /\ got'[b] = 1
        /\ \A p \in Bcast : p # b => got'[p] = got[p]
    BY <1>1, <1>5, <1>7 DEF Apply, ClientType
  <2>2. OneAtATime'
    BY <1>3, <1>4, <1>5, <2>1 DEF OneAtATime
  <2>3. SeenUpTo'
    BY <1>1, <1>2, <1>3, <1>5, <2>1, Zenon DEF SeenUpTo, OffsetInv, StoreType
  <2>4. NoneMissed'
    BY <1>1, <1>2, <1>3, <1>5, <1>7, <2>1, Zenon DEF NoneMissed, Expired
  <2> QED
    BY <1>6, <2>2, <2>3, <2>4, Zenon
<1>8. CASE link # "up"
  <2>1. last' = last /\ got' = got
    BY <1>5, <1>8, Zenon DEF Apply
  <2>2. OneAtATime'
    BY <1>1, <1>3, <1>4, <2>1, Zenon DEF OneAtATime
  <2>3. SeenUpTo'
    BY <1>1, <1>2, <1>3, <1>5, <2>1, Zenon DEF SeenUpTo
  <2>4. NoneMissed'
    BY <1>1, <1>2, <1>3, <1>5, <1>8, <2>1, Zenon DEF NoneMissed, Expired
  <2> QED
    BY <1>6, <2>2, <2>3, <2>4
<1> QED
  BY <1>7, <1>8

\* Steps that change neither the broadcasts nor what the client has.
LEMMA SerialQuiet ==
  ASSUME Serial, StoreType',
         UNCHANGED <<next, bcastVars, last, replay, got, returned>>, clock' >= clock,
         \/ link' = link
         \/ link = "taken" /\ link' = "registered" /\ Emitting = {}
         \/ link' \notin {"up", "taken", "registered"} /\ link \notin {"taken", "registered"}
  PROVE  OneAtATime' /\ LogOrdered' /\ SeenUpTo' /\ NoneMissed'
<1>1. /\ StoreType /\ ClientType /\ OneAtATime /\ LogOrdered /\ SeenUpTo /\ NoneMissed
  BY DEF Serial, StoreInv, LogInv
<1>2. Emitting' = Emitting /\ InLog' = InLog
  BY Zenon DEF Emitting, InLog, Logged, bcastVars
<1>3. OneAtATime' /\ LogOrdered'
  BY <1>1, <1>2, Zenon DEF OneAtATime, LogOrdered, bcastVars
<1>4. SeenUpTo'
  BY <1>1, Zenon DEF SeenUpTo, bcastVars
<1>5. NoneMissed'
  BY <1>1 DEF NoneMissed, Expired, bcastVars, StoreType, ClientType
<1> QED
  BY <1>3, <1>4, <1>5

\* recover finds every broadcast after the last offset that is not older than
\* maxAge: what has left the log had reached it.
LEMMA SerialTake ==
  ASSUME Serial, StoreInv', NEW now \in Times, Take(now)
  PROVE  OneAtATime' /\ LogOrdered' /\ SeenUpTo' /\ NoneMissed'
<1>1. /\ StoreType /\ ClientType /\ OneAtATime /\ LogOrdered /\ SeenUpTo /\ NoneMissed
      /\ PrunedAreOld' /\ packets \subseteq InLog
  BY DEF Serial, StoreInv, LogInv
<1>2. now = clock /\ Emitting = {}
  BY Zenon DEF Serial, Times, Take, Client
<1>3. /\ UNCHANGED <<clock, next, bcastVars, last, got>>
      /\ link' = "taken" /\ returned' = clock /\ packets' \subseteq packets
      /\ replay' = {b \in packets' : offset[b] > last}
  BY <1>2, Zenon DEF Take, Client, Kept
<1>4. Emitting' = Emitting /\ InLog' = InLog
  BY <1>3 DEF Emitting, InLog, Logged, bcastVars
<1>5. \A b \in InLog : stage[b] = "done"
  BY <1>2, Zenon DEF Emitting, InLog, Logged
<1>6. OneAtATime' /\ LogOrdered'
  BY <1>1, <1>2, <1>3, <1>4, Zenon DEF OneAtATime, LogOrdered, bcastVars
<1>7. SeenUpTo'
  BY <1>1, <1>3, <1>5, Zenon DEF SeenUpTo, bcastVars
<1>8. ASSUME NEW b \in Bcast, stage[b] = "done"
      PROVE  got[b] = 1 \/ Expired(b)' \/ b \in replay'
  <2>1. created'[b] = created[b] /\ Logged(b)' /\ created[b] \in Nat /\ MaxAge \in Nat
        /\ returned \in Nat /\ returned <= clock /\ clock \in Nat /\ clock' = clock
    BY <1>1, <1>3, <1>8, RecoveryAssumption, Zenon DEF Logged, bcastVars, StoreType, ClientType, NoneMissed
  <2>2. Expired(b) => Expired(b)'
    BY <1>3, <2>1 DEF Expired
  <2>3. b \notin packets' => Expired(b)'
    BY <1>1, <1>3, <2>1, Zenon DEF PrunedAreOld, Expired
  <2> QED
    BY <1>1, <1>3, <1>8, <2>2, <2>3, Zenon DEF NoneMissed
<1>9. NoneMissed'
  BY <1>1, <1>3, <1>8 DEF NoneMissed, SeenUpTo, bcastVars, StoreType
<1> QED
  BY <1>6, <1>7, <1>9

\* The replay ends with the packet of the highest offset found.
LEMMA SerialReplay ==
  ASSUME Serial, Replay
  PROVE  OneAtATime' /\ LogOrdered' /\ SeenUpTo' /\ NoneMissed'
<1>1. /\ StoreType /\ ClientType /\ OneAtATime /\ LogOrdered /\ SeenUpTo /\ NoneMissed
      /\ OffsetInv /\ LogInv
  BY Zenon DEF Serial, StoreInv, LogInv
<1>2. /\ UNCHANGED <<clock, next, bcastVars, returned>>
      /\ link = "registered" /\ link' = "up" /\ Emitting = {} /\ replay' = {}
  BY Zenon DEF Serial, Replay, Client, storeVars
<1>3. Emitting' = Emitting /\ InLog' = InLog
  BY <1>2 DEF Emitting, InLog, Logged, bcastVars
<1>4. /\ last' \in Nat /\ last <= last' /\ last' <= next
      /\ \A b \in replay : offset[b] <= last'
  <2>1. CASE replay = {}
    BY <1>1, <2>1 DEF Replay, ClientType, OneAtATime
  <2>2. CASE replay # {}
    <3>1. PICK l \in replay : last' = offset[l] /\ \A p \in replay : position[p] <= position[l]
      BY <1>1, <2>2, LastReplayed, Zenon DEF Replay
    <3>2. offset[l] > last /\ l \in Bcast /\ offset[l] \in Nat /\ offset[l] <= next
      BY <1>1, Zenon DEF SeenUpTo, ClientType, OffsetInv, StoreType
    <3>3. ASSUME NEW b \in replay
          PROVE  offset[b] <= offset[l]
      <4>1. /\ b \in InLog /\ l \in InLog /\ position[b] <= position[l]
            /\ position[b] \in Nat /\ position[l] \in Nat
            /\ offset[b] \in Nat
        BY <1>1, <3>1, Zenon DEF LogInv, ClientType, StoreType
      <4>2. ~(offset[l] < offset[b])
        BY <1>1, <4>1 DEF LogOrdered
      <4> QED
        BY <3>2, <4>1, <4>2
    <3> QED
      BY <1>1, <3>1, <3>2, <3>3 DEF ClientType
  <2> QED
    BY <2>1, <2>2, Zenon
<1>5. \A b \in Bcast : got'[b] = got[b] + (IF b \in replay THEN 1 ELSE 0)
  BY Zenon DEF Replay
<1>6. OneAtATime' /\ LogOrdered'
  BY <1>1, <1>2, <1>3, <1>4, Zenon DEF OneAtATime, LogOrdered, bcastVars
<1>7. \A b \in replay : got[b] = 0 /\ stage[b] = "done"
  <2>1. \A b \in replay : b \in Bcast /\ offset[b] \in Nat /\ last \in Nat /\ got[b] \in Nat
    BY <1>1 DEF ClientType, StoreType
  <2>2. \A b \in replay : stage[b] = "done" /\ offset[b] > last
    BY <1>1, Zenon DEF SeenUpTo
  <2>3. \A b \in Bcast : got[b] = 0 \/ offset[b] <= last
    BY <1>1, Zenon DEF SeenUpTo
  <2> TAKE b \in replay
  <2> QED
    BY <2>1, <2>2, <2>3
<1>8. SeenUpTo'
  <2> SUFFICES ASSUME NEW b \in Bcast
               PROVE  got'[b] = 0 \/ (got'[b] = 1 /\ stage[b] = "done" /\ offset[b] <= last')
    BY <1>2, Zenon DEF SeenUpTo, bcastVars
  <2>1. CASE b \in replay
    BY <1>4, <1>5, <1>7, <2>1
  <2>2. CASE b \notin replay
    <3>1. got'[b] = got[b] /\ offset[b] \in Nat /\ last \in Nat
      BY <1>1, <1>5, <2>2 DEF ClientType, StoreType
    <3> QED
      BY <1>1, <1>4, <3>1 DEF SeenUpTo
  <2> QED
    BY <2>1, <2>2, Zenon
<1>9. \A b \in Bcast : stage[b] = "done" => got'[b] = 1 \/ Expired(b)
  <2> SUFFICES ASSUME NEW b \in Bcast, stage[b] = "done"
               PROVE  got'[b] = 1 \/ Expired(b)
    BY Zenon
  <2>1. CASE b \in replay
    BY <1>5, <1>7, <2>1
  <2>2. CASE b \notin replay
    <3>1. got'[b] = got[b]
      BY <1>1, <1>5, <2>2 DEF ClientType
    <3> QED
      BY <1>1, <1>2, <2>2, <3>1, Zenon DEF NoneMissed
  <2> QED
    BY <2>1, <2>2, Zenon
<1>10. NoneMissed'
  BY <1>1, <1>2, <1>9, Zenon DEF NoneMissed, Expired, bcastVars
<1> QED
  BY <1>6, <1>8, <1>10

\* Every step of a serial behaviour keeps the invariant.
LEMMA StepSerial ==
  StoreInv /\ StoreInv' /\ OffsetInv /\ LogInv /\ SerialInv /\ [Next]_vars
    => SerialInv'
<1> SUFFICES ASSUME StoreInv, StoreInv', OffsetInv, LogInv, SerialInv, [Next]_vars, overlap' = {}
             PROVE  OneAtATime' /\ LogOrdered' /\ SeenUpTo' /\ NoneMissed'
  BY Zenon DEF SerialInv
<1>1. overlap = {} /\ StoreType' /\ clock \in Nat
  BY DEF Next, vars, StoreInv, StoreType
<1>2. Serial
  BY <1>1, Zenon DEF Serial, SerialInv
<1>3. CASE \E now \in Times : Save(now) \/ Fallback(now) \/ Sweep(now)
  BY <1>1, <1>2, <1>3, SerialQuiet DEF Save, Fallback, Sweep, Client, clientVars
<1>4. CASE Lose \/ Remove \/ Register \/ Tick \/ UNCHANGED vars
  BY <1>1, <1>2, <1>4, SerialQuiet
     DEF Lose, Remove, Register, Tick, Client, clientVars, storeVars, vars
<1> QED
  BY <1>2, <1>3, <1>4, SerialNumber, SerialFails, SerialLog, SerialApply, SerialTake, SerialReplay, Zenon
     DEF Next, Emit, Store

\* Where broadcasts overlap with nothing, a client whose session is recovered has
\* received every broadcast that was not older than maxAge, and none twice
\* (SerialReplayIsExact).
THEOREM ReplayExact ==
  Spec => []SerialReplayIsExact
<1>1. SerialInv => SerialReplayIsExact
  <2>1. SeenUpTo => ReplaysOnlyMissed
    BY DEF SeenUpTo, ReplaysOnlyMissed
  <2>2. NoneMissed => ReplaysMissed
    BY DEF NoneMissed, ReplaysMissed, Expired
  <2> QED
    BY <2>1, <2>2, Zenon DEF SerialInv, SerialReplayIsExact
<1>2. Init => OffsetInv
  BY InitStore DEF Init, OffsetInv, OffsetsDistinct, StoreInv
<1>3. StoreInv => StoreType
  BY DEF StoreInv
<1> QED
  BY <1>1, <1>2, <1>3, InitStore, StepStore, StepOffset, InitLog, StepLog, InitSerial, StepSerial, PTL
     DEF Spec
=============================================================================
