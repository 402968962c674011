------------------------------ MODULE ListProofs ------------------------------
(***************************************************************************)
(* Facts about the data of the modules, each stated once.                  *)
(*                                                                         *)
(* Lists: what unlinking one entry, appending one, concatenating and       *)
(* reversing do to the members of a list without repetition.               *)
(*                                                                         *)
(* Sums: MapThenSumSet of the community modules computes its sum by a      *)
(* recursive function over the subsets.  That this function exists, and    *)
(* that the order in which it takes the elements does not matter, follows  *)
(* because the strict subsets of a finite set are well-founded.  The total *)
(* of a sequence, as FoldLeft computes it, is the sum over its places.     *)
(*                                                                         *)
(* Counting: how often a function of a finite set, or a sequence, takes a  *)
(* value, and how a step that changes one place changes the count.         *)
(***************************************************************************)
EXTENDS Integers, FiniteSets, Sequences, SequencesExt, FiniteSetTheorems, SequenceTheorems,
        WellFoundedInduction, TLAPS

Distinct(s) == \A i, j \in DOMAIN s : s[i] = s[j] => i = j

\* t holds the members M, each of them once.
Lists(T, t, M) ==
    /\ t \in Seq(T)
    /\ Distinct(t)
    /\ ToSet(t) = M

\* The members of a list are of its type.
LEMMA MembersAreCells ==
    ASSUME NEW T, NEW s \in Seq(T)
    PROVE  ToSet(s) \subseteq T
BY DEF ToSet

\* The list without members.
LEMMA EmptyList ==
    ASSUME NEW T
    PROVE  Lists(T, <<>>, {})
BY DEF Lists, Distinct, ToSet

\* A list has members unless it is empty.
LEMMA NonEmptyList ==
    ASSUME NEW T, NEW s \in Seq(T)
    PROVE  /\ s # <<>> <=> ToSet(s) # {}
           /\ s # <<>> <=> Len(s) > 0
<1>1. s # <<>> <=> Len(s) > 0
  OBVIOUS
<1>2. Len(s) > 0 => s[1] \in ToSet(s)
  BY DEF ToSet
<1>3. ToSet(s) # {} => Len(s) > 0
  BY DEF ToSet
<1> QED
  BY <1>1, <1>2, <1>3

\* There are as many places in a list as it is long.
LEMMA PlacesCounted ==
    ASSUME NEW n \in Nat
    PROVE  IsFiniteSet(1 .. n) /\ Cardinality(1 .. n) = n
<1>1. 1 \in Int /\ n \in Int
  OBVIOUS
<1>2. IsFiniteSet(1 .. n) /\ Cardinality(1 .. n) = IF 1 > n THEN 0 ELSE n - 1 + 1
  BY <1>1, FS_Interval
<1>3. (IF 1 > n THEN 0 ELSE n - 1 + 1) = n
  OBVIOUS
<1> QED
  BY <1>2, <1>3

\* Some places of a list have a last one.
LEMMA LastPlace ==
    ASSUME NEW n \in Nat, NEW U \in SUBSET (1 .. n), U # {}
    PROVE  \E m \in U : \A j \in U : j <= m
<1> DEFINE R == OpToRel(<, Nat)
           D == {n - m : m \in U}
<1>1. D \subseteq Nat /\ D # {}
  <2>1. \A m \in U : n - m \in Nat
    OBVIOUS
  <2> QED
    BY <2>1
<1>2. PICK d \in D : \A x \in D : <<x, d>> \notin R
  <2> HIDE DEF D, R
  <2>1. IsWellFoundedOn(R, Nat)
    BY NatLessThanWellFounded DEF R
  <2> QED
    BY <1>1, <2>1, WFMin
<1>3. \A x \in D : d <= x
  <2> HIDE DEF D
  <2> SUFFICES ASSUME NEW x \in D PROVE d <= x
    OBVIOUS
  <2>1. x \in Nat /\ d \in Nat
    BY <1>1
  <2>2. x < d => <<x, d>> \in R
    BY <2>1 DEF OpToRel
  <2> HIDE DEF R
  <2>3. <<x, d>> \notin R
    BY <1>2
  <2>4. ~(x < d)
    BY <2>2, <2>3
  <2> QED
    BY <2>1, <2>4
<1>4. PICK m \in U : d = n - m
  OBVIOUS
<1> HIDE DEF D, R
<1>5. \A j \in U : n - j \in D /\ j \in Nat /\ m \in Nat
  BY DEF D
<1>6. \A j \in U : j <= m
  BY <1>3, <1>4, <1>5
<1> QED
  BY <1>6

\* RemoveAt shifts the rest of the list by one place.
LEMMA RemoveAtShifts ==
    ASSUME NEW T, NEW s \in Seq(T), NEW i \in 1 .. Len(s)
    PROVE  /\ RemoveAt(s, i) \in Seq(T)
           /\ Len(RemoveAt(s, i)) = Len(s) - 1
           /\ \A j \in 1 .. Len(s) - 1 :
                 RemoveAt(s, i)[j] = IF j < i THEN s[j] ELSE s[j + 1]
<1> DEFINE front == SubSeq(s, 1, i - 1)
           back == SubSeq(s, i + 1, Len(s))
<1>1. /\ front \in Seq(T)
      /\ Len(front) = i - 1
      /\ \A j \in 1 .. i - 1 : front[j] = s[j]
  <2>1. \A j \in 1 .. i - 1 : s[j] \in T
    OBVIOUS
  <2>2. /\ SubSeq(s, 1, i - 1) \in Seq(T)
        /\ Len(SubSeq(s, 1, i - 1)) = IF 1 <= i - 1 THEN i - 1 - 1 + 1 ELSE 0
        /\ \A j \in 1 .. i - 1 - 1 + 1 : SubSeq(s, 1, i - 1)[j] = s[1 + j - 1]
    BY <2>1, SubSeqProperties
  <2> QED
    BY <2>2
<1>2. /\ back \in Seq(T)
      /\ Len(back) = Len(s) - i
      /\ \A j \in 1 .. Len(s) - i : back[j] = s[j + i]
  <2>1. \A j \in i + 1 .. Len(s) : s[j] \in T
    OBVIOUS
  <2>2. /\ SubSeq(s, i + 1, Len(s)) \in Seq(T)
        /\ Len(SubSeq(s, i + 1, Len(s))) =
              IF i + 1 <= Len(s) THEN Len(s) - (i + 1) + 1 ELSE 0
        /\ \A j \in 1 .. Len(s) - (i + 1) + 1 :
              SubSeq(s, i + 1, Len(s))[j] = s[i + 1 + j - 1]
    BY <2>1, SubSeqProperties
  <2> QED
    BY <2>2
<1>3. RemoveAt(s, i) = front \o back
  BY DEF RemoveAt
<1> HIDE DEF front, back
<1>4. /\ front \o back \in Seq(T)
      /\ Len(front \o back) = Len(s) - 1
      /\ \A j \in 1 .. Len(s) - 1 :
            (front \o back)[j] = IF j <= i - 1 THEN front[j] ELSE back[j - (i - 1)]
  <2>1. /\ front \o back \in Seq(T)
        /\ Len(front \o back) = Len(front) + Len(back)
        /\ \A j \in 1 .. Len(front) + Len(back) :
              (front \o back)[j] =
                 IF j <= Len(front) THEN front[j] ELSE back[j - Len(front)]
    BY <1>1, <1>2, ConcatProperties
  <2> QED
    BY <1>1, <1>2, <2>1
<1>5. \A j \in 1 .. Len(s) - 1 : (front \o back)[j] = IF j < i THEN s[j] ELSE s[j + 1]
  <2> TAKE j \in 1 .. Len(s) - 1
  <2>0. i \in Int /\ j \in Int
    OBVIOUS
  <2>1. CASE j < i
    BY <1>1, <1>4, <2>1
  <2>2. CASE j >= i
    <3>1. j - (i - 1) \in 1 .. Len(s) - i /\ j - (i - 1) + i = j + 1
      BY <2>2
    <3>2. (front \o back)[j] = back[j - (i - 1)]
      BY <1>4, <2>2
    <3>3. back[j - (i - 1)] = s[j - (i - 1) + i]
      BY <1>2, <3>1
    <3> QED
      BY <2>2, <3>1, <3>2, <3>3
  <2>3. j < i \/ j >= i
    BY <2>0
  <2> QED
    BY <2>1, <2>2, <2>3
<1> QED
  BY <1>3, <1>4, <1>5

\* Unlinking one entry of a list.
LEMMA RemoveLists ==
    ASSUME NEW T, NEW s \in Seq(T), Distinct(s), NEW i \in 1 .. Len(s)
    PROVE  Lists(T, RemoveAt(s, i), ToSet(s) \ {s[i]})
<1> DEFINE r == RemoveAt(s, i)
<1>1. /\ r \in Seq(T)
      /\ Len(r) = Len(s) - 1
      /\ \A j \in 1 .. Len(s) - 1 : r[j] = IF j < i THEN s[j] ELSE s[j + 1]
  BY RemoveAtShifts
<1> HIDE DEF r
<1>2. Distinct(r)
  <2> SUFFICES ASSUME NEW j \in 1 .. Len(s) - 1, NEW k \in 1 .. Len(s) - 1, r[j] = r[k]
               PROVE  j = k
    BY <1>1 DEF Distinct
  <2>1. \A m, n \in 1 .. Len(s) : s[m] = s[n] => m = n
    BY DEF Distinct
  <2> DEFINE from(m) == IF m < i THEN m ELSE m + 1
  <2>2. from(j) \in 1 .. Len(s) /\ from(k) \in 1 .. Len(s)
    OBVIOUS
  <2>3. r[j] = s[from(j)] /\ r[k] = s[from(k)]
    BY <1>1
  <2>4. from(j) = from(k)
    BY <2>1, <2>2, <2>3
  <2> QED
    BY <2>4
<1>3. ToSet(r) \subseteq ToSet(s) \ {s[i]}
  BY <1>1 DEF ToSet, Distinct
<1>4. ASSUME NEW x \in ToSet(s) \ {s[i]}
      PROVE  x \in ToSet(r)
  <2>1. PICK j \in 1 .. Len(s) : s[j] = x /\ j # i
    BY <1>4 DEF ToSet
  <2>2. CASE j < i
    BY <1>1, <2>1, <2>2 DEF ToSet
  <2>3. CASE j > i
    <3>1. j - 1 \in 1 .. Len(s) - 1 /\ ~(j - 1 < i)
      BY <2>3
    <3>2. r[j - 1] = s[j]
      BY <1>1, <3>1
    <3> QED
      BY <1>1, <2>1, <3>1, <3>2 DEF ToSet
  <2> QED
    BY <2>1, <2>2, <2>3
<1> QED
  BY <1>1, <1>2, <1>3, <1>4 DEF Lists, r

\* Unlinking an entry by its value.
LEMMA RemoveFirstLists ==
    ASSUME NEW T, NEW s \in Seq(T), Distinct(s), NEW e
    PROVE  /\ Lists(T, RemoveFirst(s, e), ToSet(s) \ {e})
           /\ e \in ToSet(s) => Len(RemoveFirst(s, e)) = Len(s) - 1
           /\ e \notin ToSet(s) => RemoveFirst(s, e) = s
<1>1. CASE e \in ToSet(s)
  <2>1. PICK i \in 1 .. Len(s) : s[i] = e
    BY <1>1 DEF ToSet
  <2>2. {j \in 1 .. Len(s) : s[j] = e} = {i}
    BY <2>1 DEF Distinct
  <2>3. Min({i}) = i
    BY DEF Min
  <2>4. SelectInSeq(s, LAMBDA v : v = e) = i
    BY <2>2, <2>3 DEF SelectInSeq
  <2>5. RemoveFirst(s, e) = RemoveAt(s, i)
    BY <2>1, <2>4 DEF RemoveFirst
  <2>6. Lists(T, RemoveAt(s, i), ToSet(s) \ {s[i]})
    BY <2>1, RemoveLists
  <2>7. Len(RemoveAt(s, i)) = Len(s) - 1
    BY <2>1, RemoveAtShifts
  <2> QED
    BY <1>1, <2>1, <2>5, <2>6, <2>7
<1>2. CASE e \notin ToSet(s)
  <2>1. ~\E i \in 1 .. Len(s) : s[i] = e
    BY <1>2 DEF ToSet
  <2>2. RemoveFirst(s, e) = s
    BY <2>1 DEF RemoveFirst
  <2>3. ToSet(s) \ {e} = ToSet(s)
    BY <1>2
  <2> QED
    BY <1>2, <2>2, <2>3 DEF Lists
<1> QED
  BY <1>1, <1>2

\* A list has as many members as places.
LEMMA ListCounted ==
    ASSUME NEW T, NEW s \in Seq(T), Distinct(s)
    PROVE  IsFiniteSet(ToSet(s)) /\ Cardinality(ToSet(s)) = Len(s)
<1> DEFINE D == 1 .. Len(s)
           f == [i \in D |-> s[i]]
<1>1. IsFiniteSet(D) /\ Cardinality(D) = Len(s)
  BY PlacesCounted
<1>2. f \in Bijection(D, ToSet(s))
  <2>1. f \in [D -> ToSet(s)] /\ \A y \in ToSet(s) : \E x \in D : f[x] = y
    BY DEF ToSet
  <2>2. \A x, y \in D : f[x] = f[y] => x = y
    BY DEF Distinct
  <2> HIDE DEF f
  <2> QED
    BY <2>1, <2>2 DEF Bijection, Injection, Surjection, IsInjective
<1> HIDE DEF D, f
<1> QED
  BY <1>1, <1>2, FS_Bijection DEF ExistsBijection

\* The members of a sequence that one more was appended to.
LEMMA AppendMembers ==
    ASSUME NEW T, NEW s \in Seq(T), NEW e \in T
    PROVE  /\ Append(s, e) \in Seq(T)
           /\ Len(Append(s, e)) = Len(s) + 1
           /\ ToSet(Append(s, e)) = ToSet(s) \cup {e}
<1> DEFINE t == Append(s, e)
<1>1. /\ t \in Seq(T) /\ Len(t) = Len(s) + 1
      /\ \A j \in 1 .. Len(s) : t[j] = s[j]
      /\ t[Len(s) + 1] = e
  OBVIOUS
<1> HIDE DEF t
<1>2. ToSet(t) \subseteq ToSet(s) \cup {e}
  BY <1>1 DEF ToSet
<1>3. ToSet(s) \cup {e} \subseteq ToSet(t)
  BY <1>1 DEF ToSet
<1> QED
  BY <1>1, <1>2, <1>3 DEF t

\* The first elements of a sequence.
LEMMA PrefixMembers ==
    ASSUME NEW T, NEW s \in Seq(T), NEW m \in 0 .. Len(s)
    PROVE  /\ SubSeq(s, 1, m) \in Seq(T)
           /\ Len(SubSeq(s, 1, m)) = m
           /\ \A j \in 1 .. m : SubSeq(s, 1, m)[j] = s[j]
           /\ ToSet(SubSeq(s, 1, m)) \subseteq ToSet(s)
<1> DEFINE t == SubSeq(s, 1, m)
<1>1. t \in Seq(T) /\ Len(t) = m /\ \A j \in 1 .. m : t[j] = s[j]
  OBVIOUS
<1> HIDE DEF t
<1>2. ToSet(t) \subseteq ToSet(s)
  BY <1>1 DEF ToSet
<1> QED
  BY <1>1, <1>2 DEF t

\* A new entry at the end of a list.
LEMMA AppendLists ==
    ASSUME NEW T, NEW s \in Seq(T), Distinct(s), NEW e \in T, e \notin ToSet(s)
    PROVE  Lists(T, Append(s, e), ToSet(s) \cup {e})
<1>1. /\ Append(s, e) \in Seq(T)
      /\ Len(Append(s, e)) = Len(s) + 1
      /\ \A j \in 1 .. Len(s) : Append(s, e)[j] = s[j]
      /\ Append(s, e)[Len(s) + 1] = e
  OBVIOUS
<1>2. Distinct(Append(s, e))
  BY <1>1 DEF Distinct, ToSet
<1>3. ToSet(Append(s, e)) = ToSet(s) \cup {e}
  BY <1>1 DEF ToSet
<1> QED
  BY <1>1, <1>2, <1>3 DEF Lists

\* A list cut in two.
LEMMA SplitLists ==
    ASSUME NEW T, NEW s \in Seq(T), Distinct(s), NEW m \in 0 .. Len(s)
    PROVE  /\ Lists(T, SubSeq(s, 1, m), ToSet(SubSeq(s, 1, m)))
           /\ Lists(T, SubSeq(s, m + 1, Len(s)), ToSet(s) \ ToSet(SubSeq(s, 1, m)))
           /\ Len(SubSeq(s, m + 1, Len(s))) = Len(s) - m
           /\ \A j \in 1 .. Len(s) - m : SubSeq(s, m + 1, Len(s))[j] = s[j + m]
<1> DEFINE front == SubSeq(s, 1, m)
           back == SubSeq(s, m + 1, Len(s))
<1>1. /\ front \in Seq(T) /\ Len(front) = m /\ \A j \in 1 .. m : front[j] = s[j]
      /\ ToSet(front) \subseteq ToSet(s)
  BY PrefixMembers
<1>2. /\ back \in Seq(T) /\ Len(back) = Len(s) - m
      /\ \A j \in 1 .. Len(s) - m : back[j] = s[j + m]
  OBVIOUS
<1>3. /\ DOMAIN s = 1 .. Len(s) /\ DOMAIN front = 1 .. m /\ DOMAIN back = 1 .. Len(s) - m
      /\ m \in Nat /\ Len(s) \in Nat
  BY <1>1, <1>2
<1> HIDE DEF front, back
<1>4. /\ \A j \in 1 .. m : j \in 1 .. Len(s)
      /\ \A j \in 1 .. Len(s) - m : j + m \in 1 .. Len(s) /\ j + m \notin 1 .. m
      /\ \A j \in 1 .. Len(s) : j \notin 1 .. m => j - m \in 1 .. Len(s) - m /\ (j - m) + m = j
  BY <1>3
<1>5. Distinct(front)
  BY <1>1, <1>3, <1>4 DEF Distinct
<1>6. Distinct(back)
  <2> SUFFICES ASSUME NEW i \in 1 .. Len(s) - m, NEW j \in 1 .. Len(s) - m, back[i] = back[j]
               PROVE  i = j
    BY <1>3 DEF Distinct
  <2>1. s[i + m] = s[j + m]
    BY <1>2
  <2>2. i + m = j + m
    BY <1>3, <1>4, <2>1 DEF Distinct
  <2> QED
    BY <1>3, <2>2
<1>7. ToSet(back) \subseteq ToSet(s) \ ToSet(front)
  <2> SUFFICES ASSUME NEW i \in 1 .. Len(s) - m
               PROVE  back[i] \in ToSet(s) /\ back[i] \notin ToSet(front)
    BY <1>3 DEF ToSet
  <2>1. back[i] = s[i + m] /\ i + m \in 1 .. Len(s) /\ i + m \notin 1 .. m
    BY <1>2, <1>4
  <2>2. \A j \in 1 .. m : front[j] # back[i]
    BY <1>1, <1>3, <1>4, <2>1 DEF Distinct
  <2> QED
    BY <1>3, <2>1, <2>2 DEF ToSet
<1>8. ToSet(s) \ ToSet(front) \subseteq ToSet(back)
  <2> SUFFICES ASSUME NEW j \in 1 .. Len(s), s[j] \notin ToSet(front)
               PROVE  s[j] \in ToSet(back)
    BY <1>3 DEF ToSet
  <2>1. j \notin 1 .. m
    BY <1>1, <1>3 DEF ToSet
  <2>2. back[j - m] = s[j] /\ j - m \in 1 .. Len(s) - m
    BY <1>2, <1>4, <2>1
  <2> QED
    BY <1>3, <2>2 DEF ToSet
<1> QED
  BY <1>1, <1>2, <1>5, <1>6, <1>7, <1>8 DEF Lists, front, back

\* A sequence without its head.
LEMMA TailLists ==
    ASSUME NEW T, NEW s \in Seq(T), s # <<>>, Distinct(s)
    PROVE  /\ Head(s) \in T /\ Tail(s) \in Seq(T) /\ Distinct(Tail(s))
           /\ ToSet(Tail(s)) = ToSet(s) \ {Head(s)} /\ Head(s) \in ToSet(s)
<1>1. /\ Len(s) \in Nat \ {0} /\ Tail(s) \in Seq(T) /\ Len(Tail(s)) = Len(s) - 1
      /\ Head(s) = s[1] /\ DOMAIN s = 1 .. Len(s) /\ DOMAIN Tail(s) = 1 .. Len(s) - 1
      /\ \A i \in 1 .. Len(s) - 1 : Tail(s)[i] = s[i + 1]
  OBVIOUS
<1>2. Distinct(Tail(s))
  BY <1>1 DEF Distinct
<1>3. ToSet(Tail(s)) \subseteq ToSet(s) \ {Head(s)}
  BY <1>1 DEF ToSet, Distinct
<1>4. ToSet(s) \ {Head(s)} \subseteq ToSet(Tail(s))
  <2> SUFFICES ASSUME NEW i \in 1 .. Len(s), s[i] # s[1] PROVE s[i] \in ToSet(Tail(s))
    BY <1>1 DEF ToSet
  <2>1. i - 1 \in 1 .. Len(s) - 1 /\ (i - 1) + 1 = i
    BY <1>1
  <2>2. Tail(s)[i - 1] = s[i]
    BY <1>1, <2>1
  <2> QED
    BY <1>1, <2>1, <2>2 DEF ToSet
<1> QED
  BY <1>1, <1>2, <1>3, <1>4 DEF ToSet

\* A list put in front of another one.
LEMMA ConcatLists ==
    ASSUME NEW T, NEW s \in Seq(T), NEW t \in Seq(T), Distinct(s), Distinct(t),
           ToSet(s) \cap ToSet(t) = {}
    PROVE  Lists(T, s \o t, ToSet(s) \cup ToSet(t))
<1> DEFINE u == s \o t
<1>1. /\ u \in Seq(T)
      /\ Len(u) = Len(s) + Len(t)
      /\ \A j \in 1 .. Len(s) : u[j] = s[j]
      /\ \A j \in Len(s) + 1 .. Len(s) + Len(t) : u[j] = t[j - Len(s)]
  BY ConcatProperties
<1> HIDE DEF u
<1>2. Distinct(u)
  <2> SUFFICES ASSUME NEW i \in 1 .. Len(u), NEW j \in 1 .. Len(u), u[i] = u[j]
               PROVE  i = j
    BY <1>1 DEF Distinct
  <2>1. CASE i <= Len(s) /\ j <= Len(s)
    BY <1>1, <2>1 DEF Distinct
  <2>2. CASE i > Len(s) /\ j > Len(s)
    <3>1. u[i] = t[i - Len(s)] /\ u[j] = t[j - Len(s)]
      <4>1. i \in Len(s) + 1 .. Len(s) + Len(t) /\ j \in Len(s) + 1 .. Len(s) + Len(t)
        BY <1>1, <2>2
      <4> QED
        BY <1>1, <4>1
    <3>2. i - Len(s) \in 1 .. Len(t) /\ j - Len(s) \in 1 .. Len(t)
      BY <1>1, <2>2
    <3>3. \A a, b \in 1 .. Len(t) : t[a] = t[b] => a = b
      BY DEF Distinct
    <3>4. i - Len(s) = j - Len(s)
      BY <3>1, <3>2, <3>3
    <3> QED
      BY <3>4
  <2>3. CASE (i <= Len(s) /\ j > Len(s)) \/ (i > Len(s) /\ j <= Len(s))
    <3>1. (u[i] \in ToSet(s) /\ u[j] \in ToSet(t)) \/ (u[i] \in ToSet(t) /\ u[j] \in ToSet(s))
      BY <1>1, <2>3 DEF ToSet
    <3> QED
      BY <3>1
  <2> QED
    BY <2>1, <2>2, <2>3, <1>1
<1>3. ToSet(u) \subseteq ToSet(s) \cup ToSet(t)
  <2> SUFFICES ASSUME NEW i \in 1 .. Len(u)
               PROVE  u[i] \in ToSet(s) \cup ToSet(t)
    BY <1>1 DEF ToSet
  <2>1. CASE i <= Len(s)
    BY <1>1, <2>1 DEF ToSet
  <2>2. CASE i > Len(s)
    <3>1. i - Len(s) \in DOMAIN t /\ u[i] = t[i - Len(s)]
      BY <1>1, <2>2
    <3> QED
      BY <3>1 DEF ToSet
  <2> QED
    BY <2>1, <2>2, <1>1
<1>4. ToSet(s) \subseteq ToSet(u)
  BY <1>1 DEF ToSet
<1>5. ToSet(t) \subseteq ToSet(u)
  <2> SUFFICES ASSUME NEW i \in 1 .. Len(t)
               PROVE  t[i] \in ToSet(u)
    BY DEF ToSet
  <2> DEFINE k == i + Len(s)
  <2>1. k \in Len(s) + 1 .. Len(s) + Len(t) /\ k - Len(s) = i
    OBVIOUS
  <2> HIDE DEF k
  <2>2. k \in 1 .. Len(s) + Len(t)
    BY <2>1
  <2>3. k \in DOMAIN u
    BY <1>1, <2>2
  <2>4. u[k] = t[k - Len(s)]
    BY <1>1, <2>1
  <2> QED
    BY <2>1, <2>3, <2>4 DEF ToSet
<1> QED
  BY <1>1, <1>2, <1>3, <1>4, <1>5 DEF Lists, u

\* The members of a list in the opposite order.
LEMMA ReverseLists ==
    ASSUME NEW T, NEW s \in Seq(T), Distinct(s)
    PROVE  Lists(T, Reverse(s), ToSet(s)) /\ Len(Reverse(s)) = Len(s)
<1> DEFINE r == Reverse(s)
<1>1. /\ r \in Seq(T)
      /\ Len(r) = Len(s)
      /\ \A j \in 1 .. Len(s) : r[j] = s[Len(s) - j + 1]
  BY DEF Reverse
<1> HIDE DEF r
<1>2. Distinct(r)
  <2> SUFFICES ASSUME NEW i \in 1 .. Len(s), NEW j \in 1 .. Len(s), r[i] = r[j]
               PROVE  i = j
    BY <1>1 DEF Distinct
  <2>1. Len(s) - i + 1 \in DOMAIN s /\ Len(s) - j + 1 \in DOMAIN s
    OBVIOUS
  <2>2. Len(s) - i + 1 = Len(s) - j + 1
    BY <1>1, <2>1 DEF Distinct
  <2> QED
    BY <2>2
<1>3. ToSet(r) \subseteq ToSet(s)
  <2>1. ASSUME NEW i \in 1 .. Len(s)
        PROVE  r[i] \in ToSet(s)
    <3>1. Len(s) - i + 1 \in DOMAIN s
      OBVIOUS
    <3> QED
      BY <1>1, <3>1 DEF ToSet
  <2>2. ToSet(r) = {r[i] : i \in 1 .. Len(s)}
    BY <1>1 DEF ToSet
  <2> QED
    BY <2>1, <2>2
<1>4. ToSet(s) \subseteq ToSet(r)
  <2> SUFFICES ASSUME NEW i \in 1 .. Len(s)
               PROVE  s[i] \in ToSet(r)
    BY DEF ToSet
  <2> DEFINE j == Len(s) - i + 1
  <2>1. j \in 1 .. Len(s) /\ Len(s) - j + 1 = i
    OBVIOUS
  <2> HIDE DEF j
  <2>2. r[j] = s[i]
    BY <1>1, <2>1
  <2> QED
    BY <1>1, <2>1, <2>2 DEF ToSet
<1> QED
  BY <1>1, <1>2, <1>3, <1>4 DEF Lists, r

-----------------------------------------------------------------------------
(* Counting *)

Is(x, c) == IF x = c THEN 1 ELSE 0

\* Where in W a function is c, and how often.
Where(W, f, c) == {v \in W : f[v] = c}
CountIn(W, f, c) == Cardinality(Where(W, f, c))

\* How often c is in a sequence.
Occurrences(s, c) == CountIn(DOMAIN s, s, c)

\* One element more of a set, counted apart.
LEMMA CountOne ==
    ASSUME NEW W, IsFiniteSet(W), NEW f, NEW w \in W, NEW c
    PROVE  /\ CountIn(W, f, c) \in Nat
           /\ CountIn(W \ {w}, f, c) \in Nat
           /\ CountIn(W, f, c)
                 = CountIn(W \ {w}, f, c) + Is(f[w], c)
<1> DEFINE all == Where(W, f, c)
           rest == Where(W \ {w}, f, c)
<1>1. IsFiniteSet(all) /\ IsFiniteSet(rest)
  <2>1. all \in SUBSET W /\ rest \in SUBSET W
    BY DEF Where
  <2> HIDE DEF all, rest
  <2> QED
    BY <2>1, FS_Subset
<1>2. Cardinality(all) \in Nat /\ Cardinality(rest) \in Nat
  <2> HIDE DEF all, rest
  <2> QED
    BY <1>1, FS_CardinalityType
<1>3. CASE f[w] = c
  <2>1. all = rest \cup {w} /\ w \notin rest
    BY <1>3 DEF Where
  <2> HIDE DEF all, rest
  <2>2. Cardinality(all) = Cardinality(rest) + 1
    BY <1>1, <2>1, FS_AddElement
  <2> QED
    BY <1>2, <1>3, <2>2 DEF all, rest, CountIn, Is
<1>4. CASE f[w] # c
  <2>1. all = rest
    BY <1>4 DEF Where
  <2> HIDE DEF all, rest
  <2> QED
    BY <1>2, <1>4, <2>1 DEF all, rest, CountIn, Is
<1> QED
  BY <1>3, <1>4

\* Of a finite set there are so many.
LEMMA CountNat ==
    ASSUME NEW W, IsFiniteSet(W), NEW f, NEW c
    PROVE  CountIn(W, f, c) \in Nat
<1>1. Where(W, f, c) \in SUBSET W
  BY DEF Where
<1> QED
  BY <1>1, FS_Subset, FS_CardinalityType DEF CountIn

\* A constant function is nowhere another value.
LEMMA CountNone ==
    ASSUME NEW W, NEW x, NEW c, x # c
    PROVE  CountIn(W, [v \in W |-> x], c) = 0
<1>1. Where(W, [v \in W |-> x], c) = {}
  BY DEF Where
<1> QED
  BY <1>1, FS_EmptySet DEF CountIn

\* A value is so many times in a sequence.
LEMMA OccurrencesNat ==
    ASSUME NEW T, NEW s \in Seq(T), NEW c
    PROVE  Occurrences(s, c) \in Nat
<1>1. DOMAIN s = 1 .. Len(s) /\ Len(s) \in Nat
  OBVIOUS
<1>2. IsFiniteSet(DOMAIN s)
  BY <1>1, PlacesCounted
<1> QED
  BY <1>2, CountNat DEF Occurrences

\* Two functions that differ at most at w.
ChangesAt(W, f, g, w) == \A v \in W : v # w => g[v] = f[v]

\* A function that changes at one place: what is there now is counted once more, what
\* was there once less.
LEMMA CountMoves ==
    ASSUME NEW W, IsFiniteSet(W), NEW f, NEW g, NEW w \in W, NEW c, ChangesAt(W, f, g, w)
    PROVE  CountIn(W, g, c) + Is(f[w], c) = CountIn(W, f, c) + Is(g[w], c)
<1>2. PICK r : r = CountIn(W \ {w}, f, c)
  OBVIOUS
<1>3. CountIn(W \ {w}, g, c) = r
  <2>1. Where(W \ {w}, g, c) = Where(W \ {w}, f, c)
    BY DEF Where, ChangesAt
  <2> QED
    BY <1>2, <2>1 DEF CountIn
<1>4. r \in Nat /\ CountIn(W, f, c) = r + Is(f[w], c)
  BY <1>2, CountOne
<1>5. CountIn(W, g, c) = CountIn(W \ {w}, g, c) + Is(g[w], c)
  BY CountOne
<1>6. Is(f[w], c) \in Nat /\ Is(g[w], c) \in Nat
  BY DEF Is
<1> QED
  BY <1>3, <1>4, <1>5, <1>6

\* The empty sequence has nothing in it.
LEMMA NoOccurrence ==
    ASSUME NEW c
    PROVE  Occurrences(<<>>, c) = 0
<1>1. Where(DOMAIN <<>>, <<>>, c) = {}
  BY DEF Where
<1> QED
  BY <1>1, FS_EmptySet DEF Occurrences, CountIn

\* The next place of a sequence.
LEMMA CountUpTo ==
    ASSUME NEW m \in Nat, NEW f, NEW c
    PROVE  /\ CountIn(1 .. m, f, c) \in Nat
           /\ CountIn(1 .. m + 1, f, c) = CountIn(1 .. m, f, c) + Is(f[m + 1], c)
<1>1. PICK W : W = 1 .. m + 1
  OBVIOUS
<1>2. PICK w : w = m + 1
  OBVIOUS
<1>3. IsFiniteSet(W) /\ w \in W /\ W \ {w} = 1 .. m
  BY <1>1, <1>2, PlacesCounted
<1>4. CountIn(W \ {w}, f, c) \in Nat
  BY <1>3, CountOne
<1>5. CountIn(W, f, c) = CountIn(W \ {w}, f, c) + Is(f[w], c)
  BY <1>3, CountOne
<1> QED
  BY <1>1, <1>2, <1>3, <1>4, <1>5

\* A sequence and its last element.
LEMMA OccurrencesAppend ==
    ASSUME NEW T, NEW s \in Seq(T), NEW e \in T, NEW c
    PROVE  /\ Occurrences(s, c) \in Nat
           /\ Occurrences(Append(s, e), c) = Occurrences(s, c) + Is(e, c)
<1>1. PICK t : t = Append(s, e)
  OBVIOUS
<1>2. PICK m : m = Len(s)
  OBVIOUS
<1>3. /\ m \in Nat /\ DOMAIN s = 1 .. m /\ DOMAIN t = 1 .. m + 1
      /\ \A n \in 1 .. m : t[n] = s[n]
      /\ t[m + 1] = e
  BY <1>1, <1>2
<1>6. /\ CountIn(1 .. m, t, c) \in Nat
      /\ CountIn(1 .. m + 1, t, c) = CountIn(1 .. m, t, c) + Is(t[m + 1], c)
  BY <1>3, CountUpTo
<1>7. CountIn(1 .. m, t, c) = CountIn(1 .. m, s, c)
  <2>1. Where(1 .. m, t, c) = Where(1 .. m, s, c)
    BY <1>3 DEF Where
  <2> QED
    BY <2>1 DEF CountIn
<1>8. Occurrences(s, c) \in Nat /\ Occurrences(t, c) = Occurrences(s, c) + Is(e, c)
  BY <1>3, <1>6, <1>7 DEF Occurrences
<1> QED
  BY <1>1, <1>8

\* A sequence and its first element.
LEMMA OccurrencesTail ==
    ASSUME NEW T, NEW s \in Seq(T), s # <<>>, NEW c
    PROVE  /\ Occurrences(Tail(s), c) \in Nat
           /\ Occurrences(s, c) = Occurrences(Tail(s), c) + Is(s[1], c)
<1>1. PICK t : t = Tail(s)
  OBVIOUS
<1>2. PICK m : m = Len(s)
  OBVIOUS
<1>3. /\ m \in Nat /\ m >= 1 /\ DOMAIN s = 1 .. m /\ DOMAIN t = 1 .. m - 1
      /\ \A n \in 1 .. m - 1 : t[n] = s[n + 1]
  BY <1>1, <1>2
<1> DEFINE S == Where((1 .. m) \ {1}, s, c)
           R == Where(1 .. m - 1, t, c)
           f == [v \in S |-> v - 1]
<1>4. IsFiniteSet(1 .. m) /\ 1 \in 1 .. m
  BY <1>3, PlacesCounted
<1>5. /\ Cardinality(S) \in Nat
      /\ CountIn(1 .. m, s, c) = Cardinality(S) + Is(s[1], c)
  <2>1. PICK W : W = 1 .. m
    OBVIOUS
  <2>2. IsFiniteSet(W) /\ 1 \in W
    BY <1>4, <2>1
  <2>3. /\ CountIn(W \ {1}, s, c) \in Nat
        /\ CountIn(W, s, c) = CountIn(W \ {1}, s, c) + Is(s[1], c)
    BY <2>2, CountOne
  <2> QED
    BY <2>1, <2>3 DEF CountIn
<1>6. f \in Bijection(S, R)
  <2>1. \A v \in S : v - 1 \in R
    BY <1>3 DEF Where
  <2>2. \A u, v \in S : u - 1 = v - 1 => u = v
    BY <1>3 DEF Where
  <2>3. \A r \in R : r + 1 \in S /\ (r + 1) - 1 = r
    BY <1>3 DEF Where
  <2> HIDE DEF S, R
  <2>4. f \in [S -> R] /\ \A r \in R : \E v \in S : f[v] = r
    BY <2>1, <2>3
  <2>5. \A u, v \in S : f[u] = f[v] => u = v
    BY <2>2
  <2> HIDE DEF f
  <2> QED
    BY <2>4, <2>5 DEF Bijection, Injection, Surjection, IsInjective
<1>7. Cardinality(R) = Cardinality(S)
  <2>1. IsFiniteSet(S)
    <3>1. S \in SUBSET (1 .. m)
      BY DEF Where
    <3> HIDE DEF S
    <3> QED
      BY <1>4, <3>1, FS_Subset
  <2> HIDE DEF S, R, f
  <2> QED
    BY <1>6, <2>1, FS_Bijection DEF ExistsBijection
<1>8. Occurrences(t, c) = Cardinality(R) /\ Occurrences(s, c) = CountIn(1 .. m, s, c)
  BY <1>3 DEF Occurrences, CountIn
<1> HIDE DEF S, R
<1> QED
  BY <1>1, <1>5, <1>7, <1>8

-----------------------------------------------------------------------------
(* Sums over finite sets *)

\* What holds of a finite set when it holds of its proper subsets holds of every finite set.
LEMMA FiniteSetsCovered ==
    ASSUME NEW S, IsFiniteSet(S), NEW F,
           \A s \in SUBSET S : (\A t \in SUBSET s : t # s => t \in F) => s \in F
    PROVE  SUBSET S \subseteq F
<1> DEFINE R == StrictSubsetOrdering(S)
           U == (SUBSET S) \ F
<1>1. SUFFICES ASSUME U # {} PROVE FALSE
  OBVIOUS
<1>2. IsWellFoundedOn(R, SUBSET S)
  BY FS_StrictSubsetOrderingWellFounded, FS_FiniteSubsetsOfFinite
<1>3. U \subseteq SUBSET S
  OBVIOUS
<1> HIDE DEF R, U
<1>4. PICK s \in U : \A t \in U : ~ (<<t, s>> \in R)
  BY <1>1, <1>2, <1>3, WFMin
<1>5. s \in SUBSET S /\ s \notin F
  BY <1>4 DEF U
<1>6. \A t \in SUBSET s : t # s => t \in F
  BY <1>4, <1>5 DEF R, U, StrictSubsetOrdering
<1>7. s \in F
  BY <1>5, <1>6
<1> QED
  BY <1>5, <1>7

\* The element a sum takes next.
Chosen(s) == CHOOSE x \in s : TRUE

\* It is one of the set.
LEMMA ChosenIn ==
    ASSUME NEW s, s # {}
    PROVE  Chosen(s) \in s
BY DEF Chosen

\* g is the sum of f over each subset of S.
Sums(f, S, g) ==
    g = [s \in SUBSET S |-> IF s = {} THEN 0 ELSE f[Chosen(s)] + g[s \ {Chosen(s)}]]

\* The sum of f over S, as MapThenSumSet of the community modules computes it.
SumOver(f, S) == (CHOOSE g : Sums(f, S, g))[S]

\* Sums over different sets agree on the subsets they share.
LEMMA SumsAgree ==
    ASSUME NEW S, NEW T, IsFiniteSet(S), S \subseteq T, NEW f, NEW g, NEW h,
           Sums(f, S, g), Sums(f, T, h)
    PROVE  \A s \in SUBSET S : g[s] = h[s]
<1> DEFINE F == {s \in SUBSET S : g[s] = h[s]}
<1>1. ASSUME NEW s \in SUBSET S, \A t \in SUBSET s : t # s => t \in F
      PROVE  s \in F
  <2>1. CASE s = {}
    BY <2>1 DEF Sums
  <2>2. CASE s # {}
    <3>1. s \ {Chosen(s)} \in SUBSET s /\ s \ {Chosen(s)} # s
      BY <2>2, ChosenIn
    <3>2. g[s \ {Chosen(s)}] = h[s \ {Chosen(s)}]
      BY <3>1, <1>1
    <3>3. s \in SUBSET T
      OBVIOUS
    <3>4. g[s] = f[Chosen(s)] + g[s \ {Chosen(s)}]
      BY <2>2 DEF Sums
    <3>5. h[s] = f[Chosen(s)] + h[s \ {Chosen(s)}]
      BY <2>2, <3>3 DEF Sums
    <3> QED
      BY <3>2, <3>4, <3>5
  <2> QED
    BY <2>1, <2>2
<1> HIDE DEF F
<1>2. SUBSET S \subseteq F
  BY <1>1, FiniteSetsCovered
<1> QED
  BY <1>2 DEF F

\* The equations of the sum have a solution.
LEMMA SumsExist ==
    ASSUME NEW S, IsFiniteSet(S), NEW f
    PROVE  \E g : Sums(f, S, g)
<1> DEFINE F == {s \in SUBSET S : \E g : Sums(f, s, g)}
<1>1. ASSUME NEW s \in SUBSET S, \A t \in SUBSET s : t # s => t \in F
      PROVE  s \in F
  <2> DEFINE h == [t \in SUBSET s |->
                     IF t = {} THEN 0 ELSE f[Chosen(t)] + SumOver(f, t \ {Chosen(t)})]
             G(t) == CHOOSE g : Sums(f, t, g)
  <2>1. \A t \in SUBSET s : t # s => Sums(f, t, G(t))
    BY <1>1
  <2>2. \A t \in SUBSET s : t # {} => /\ Chosen(t) \in t /\ t \ {Chosen(t)} \in SUBSET s
                                      /\ t \ {Chosen(t)} # s /\ t \ {Chosen(t)} \in SUBSET t
    BY ChosenIn
  <2>3. ASSUME NEW t \in SUBSET s, t # s
        PROVE  h[t] = SumOver(f, t)
    <3>1. SumOver(f, t) = G(t)[t]
      BY DEF SumOver
    <3>2. Sums(f, t, G(t))
      BY <2>1, <2>3
    <3> HIDE DEF G
    <3>3. CASE t = {}
      BY <3>1, <3>2, <3>3 DEF Sums
    <3>4. CASE t # {}
      <4> DEFINE u == t \ {Chosen(t)}
      <4>1. u \in SUBSET s /\ u # s /\ u \in SUBSET t
        BY <2>2, <3>4
      <4>2. Sums(f, u, G(u)) /\ SumOver(f, u) = G(u)[u]
        BY <2>1, <4>1 DEF SumOver, G
      <4>3. IsFiniteSet(u)
        BY <4>1, FS_Subset
      <4>4. G(u)[u] = G(t)[u]
        BY <4>1, <4>2, <4>3, <3>2, SumsAgree
      <4>5. G(t)[t] = f[Chosen(t)] + G(t)[u]
        BY <3>2, <3>4 DEF Sums
      <4> QED
        BY <3>1, <3>4, <4>2, <4>4, <4>5
    <3> QED
      BY <3>3, <3>4
  <2>4. Sums(f, s, h)
    <3>1. \A t \in SUBSET s : t # {} => h[t \ {Chosen(t)}] = SumOver(f, t \ {Chosen(t)})
      BY <2>2, <2>3
    <3>2. h = [t \in SUBSET s |-> IF t = {} THEN 0 ELSE f[Chosen(t)] + h[t \ {Chosen(t)}]]
      BY <3>1
    <3> QED
      BY <3>2 DEF Sums
  <2> QED
    BY <2>4
<1> HIDE DEF F
<1>2. SUBSET S \subseteq F
  BY <1>1, FiniteSetsCovered
<1> QED
  BY <1>2 DEF F

\* A total is the value of one element and the total of the others.
LEMMA SumStep ==
    ASSUME NEW S, IsFiniteSet(S), NEW f
    PROVE  SumOver(f, S) = IF S = {} THEN 0 ELSE f[Chosen(S)] + SumOver(f, S \ {Chosen(S)})
<1>1. PICK g : g = CHOOSE h : Sums(f, S, h)
  OBVIOUS
<1>2. Sums(f, S, g) /\ SumOver(f, S) = g[S]
  BY <1>1, SumsExist DEF SumOver
<1>3. CASE S = {}
  BY <1>2, <1>3 DEF Sums
<1>4. CASE S # {}
  <2> DEFINE u == S \ {Chosen(S)}
  <2>1. PICK k : k = CHOOSE h : Sums(f, u, h)
    OBVIOUS
  <2>2. IsFiniteSet(u)
    BY FS_Subset
  <2>3. Sums(f, u, k) /\ SumOver(f, u) = k[u]
    BY <2>1, <2>2, SumsExist DEF SumOver
  <2>4. k[u] = g[u]
    <3>1. u \subseteq S /\ u \in SUBSET u
      OBVIOUS
    <3> HIDE DEF u
    <3>2. \A s \in SUBSET u : k[s] = g[s]
      BY <1>2, <2>2, <2>3, <3>1, SumsAgree
    <3> QED
      BY <3>1, <3>2
  <2>5. g[S] = f[Chosen(S)] + g[u]
    BY <1>2, <1>4 DEF Sums
  <2> QED
    BY <1>2, <1>4, <2>3, <2>4, <2>5
<1> QED
  BY <1>3, <1>4

\* Any function that satisfies the equations of the sum gives the total.
LEMMA SumIsUnique ==
    ASSUME NEW S, IsFiniteSet(S), NEW f, NEW g, Sums(f, S, g)
    PROVE  g[S] = SumOver(f, S)
<1>1. PICK h : h = CHOOSE k : Sums(f, S, k)
  OBVIOUS
<1>2. Sums(f, S, h) /\ SumOver(f, S) = h[S]
  BY <1>1, SumsExist DEF SumOver
<1> QED
  BY <1>2, SumsAgree

\* A total of naturals is a natural number.
LEMMA SumNat ==
    ASSUME NEW S, IsFiniteSet(S), NEW f, \A x \in S : f[x] \in Nat
    PROVE  SumOver(f, S) \in Nat
<1> DEFINE F == {s \in SUBSET S : SumOver(f, s) \in Nat}
<1>1. ASSUME NEW s \in SUBSET S, \A t \in SUBSET s : t # s => t \in F
      PROVE  s \in F
  <2>1. SumOver(f, s) = IF s = {} THEN 0 ELSE f[Chosen(s)] + SumOver(f, s \ {Chosen(s)})
    BY SumStep, FS_Subset
  <2>2. CASE s # {}
    <3>1. Chosen(s) \in S /\ s \ {Chosen(s)} \in SUBSET s /\ s \ {Chosen(s)} # s
      BY <2>2, ChosenIn
    <3>2. SumOver(f, s \ {Chosen(s)}) \in Nat /\ f[Chosen(s)] \in Nat
      BY <3>1, <1>1
    <3> QED
      BY <2>1, <2>2, <3>2
  <2> QED
    BY <2>1, <2>2
<1> HIDE DEF F
<1>2. SUBSET S \subseteq F
  BY <1>1, FiniteSetsCovered
<1> QED
  BY <1>2 DEF F

\* One more element adds its value to the total, whatever the order of the sum.
LEMMA SumAdd ==
    ASSUME NEW S, IsFiniteSet(S), NEW f, \A y \in S : f[y] \in Nat, NEW x \in S
    PROVE  SumOver(f, S) = SumOver(f, S \ {x}) + f[x]
<1> DEFINE F == {s \in SUBSET S : \A z \in s : SumOver(f, s) = SumOver(f, s \ {z}) + f[z]}
<1>1. ASSUME NEW s \in SUBSET S, \A t \in SUBSET s : t # s => t \in F
      PROVE  s \in F
  <2> SUFFICES ASSUME NEW z \in s PROVE SumOver(f, s) = SumOver(f, s \ {z}) + f[z]
    OBVIOUS
  <2> DEFINE y == Chosen(s)
  <2>1. y \in s /\ s # {}
    BY ChosenIn
  <2>2. SumOver(f, s) = f[y] + SumOver(f, s \ {y})
    BY <2>1, SumStep, FS_Subset
  <2>3. f[y] \in Nat /\ f[z] \in Nat
    BY <2>1
  <2> HIDE DEF y
  <2>4. \A t \in SUBSET s : SumOver(f, t) \in Nat
    <3> TAKE t \in SUBSET s
    <3>1. t \in SUBSET S /\ IsFiniteSet(t) /\ \A v \in t : f[v] \in Nat
      BY FS_Subset
    <3> QED
      BY <3>1, SumNat
  <2>5. CASE y = z
    BY <2>2, <2>3, <2>4, <2>5
  <2>6. CASE y # z
    <3>1. SumOver(f, s \ {y}) = SumOver(f, (s \ {y}) \ {z}) + f[z]
      BY <1>1, <2>1, <2>6
    <3>2. SumOver(f, s \ {z}) = SumOver(f, (s \ {z}) \ {y}) + f[y]
      BY <1>1, <2>1, <2>6
    <3>3. (s \ {z}) \ {y} = (s \ {y}) \ {z}
      OBVIOUS
    <3>4. SumOver(f, (s \ {y}) \ {z}) \in Nat
      BY <2>4
    <3> QED
      BY <2>2, <2>3, <3>1, <3>2, <3>3, <3>4
  <2> QED
    BY <2>5, <2>6
<1> HIDE DEF F
<1>2. SUBSET S \subseteq F
  BY <1>1, FiniteSetsCovered
<1>3. S \in F
  BY <1>2
<1> QED
  BY <1>3 DEF F

\* Functions that agree on a set have the same total over it.
LEMMA SumSame ==
    ASSUME NEW S, IsFiniteSet(S), NEW f, NEW g, \A x \in S : f[x] = g[x]
    PROVE  SumOver(f, S) = SumOver(g, S)
<1> DEFINE F == {s \in SUBSET S : SumOver(f, s) = SumOver(g, s)}
<1>1. ASSUME NEW s \in SUBSET S, \A t \in SUBSET s : t # s => t \in F
      PROVE  s \in F
  <2>1. /\ SumOver(f, s) = IF s = {} THEN 0 ELSE f[Chosen(s)] + SumOver(f, s \ {Chosen(s)})
        /\ SumOver(g, s) = IF s = {} THEN 0 ELSE g[Chosen(s)] + SumOver(g, s \ {Chosen(s)})
    BY SumStep, FS_Subset
  <2>2. CASE s # {}
    <3>1. Chosen(s) \in S /\ s \ {Chosen(s)} \in SUBSET s /\ s \ {Chosen(s)} # s
      BY <2>2, ChosenIn
    <3>2. SumOver(f, s \ {Chosen(s)}) = SumOver(g, s \ {Chosen(s)}) /\ f[Chosen(s)] = g[Chosen(s)]
      BY <3>1, <1>1
    <3> QED
      BY <2>1, <2>2, <3>2
  <2> QED
    BY <2>1, <2>2
<1> HIDE DEF F
<1>2. SUBSET S \subseteq F
  BY <1>1, FiniteSetsCovered
<1> QED
  BY <1>2 DEF F

\* A part of a set has no larger total.
LEMMA SumMonotone ==
    ASSUME NEW S, IsFiniteSet(S), NEW f, \A y \in S : f[y] \in Nat, NEW P \in SUBSET S
    PROVE  SumOver(f, P) <= SumOver(f, S)
<1> DEFINE F == {s \in SUBSET S : \A p \in SUBSET s : SumOver(f, p) <= SumOver(f, s)}
<1>0. \A t \in SUBSET S : IsFiniteSet(t) /\ SumOver(f, t) \in Nat
  <2> TAKE t \in SUBSET S
  <2>1. IsFiniteSet(t) /\ \A v \in t : f[v] \in Nat
    BY FS_Subset
  <2> QED
    BY <2>1, SumNat
<1>1. ASSUME NEW s \in SUBSET S, \A t \in SUBSET s : t # s => t \in F
      PROVE  s \in F
  <2> SUFFICES ASSUME NEW p \in SUBSET s PROVE SumOver(f, p) <= SumOver(f, s)
    OBVIOUS
  <2>1. CASE p = s
    BY <2>1, <1>0
  <2>2. CASE p # s
    <3>1. PICK x \in s : x \notin p
      BY <2>2
    <3>2. s \ {x} \in SUBSET s /\ s \ {x} # s /\ p \in SUBSET (s \ {x})
      BY <3>1
    <3>3. SumOver(f, p) <= SumOver(f, s \ {x})
      BY <3>2, <1>1
    <3>4. SumOver(f, s) = SumOver(f, s \ {x}) + f[x]
      BY <1>0, SumAdd
    <3>5. f[x] \in Nat /\ SumOver(f, s \ {x}) \in Nat /\ SumOver(f, p) \in Nat
      BY <1>0
    <3> QED
      BY <3>3, <3>4, <3>5
  <2> QED
    BY <2>1, <2>2
<1> HIDE DEF F
<1>2. SUBSET S \subseteq F
  BY <1>1, FiniteSetsCovered
<1>3. S \in F
  BY <1>2
<1> QED
  BY <1>3 DEF F

-----------------------------------------------------------------------------
(* Totals of sequences *)

\* A finite set of numbers below a bound has a largest one, unless it is empty.
LEMMA MaxIn ==
    ASSUME NEW n \in Nat, NEW t \in SUBSET (1 .. n), t # {}
    PROVE  Max(t) \in t
<1> DEFINE U == {k \in Nat : n - k \in t}
           R == OpToRel(<, Nat)
<1>1. U \in SUBSET Nat /\ U # {}
  <2>1. PICK x \in t : TRUE
    OBVIOUS
  <2>2. n - x \in Nat /\ n - (n - x) = x
    BY <2>1
  <2> QED
    BY <2>1, <2>2
<1>2. IsWellFoundedOn(R, Nat)
  BY NatLessThanWellFounded
<1> HIDE DEF U, R
<1>3. PICK k \in U : \A y \in Nat : <<y, k>> \in R => y \notin U
  BY <1>1, <1>2, WFMin
<1>4. \A y \in U : k <= y
  <2> SUFFICES ASSUME NEW y \in U, y < k PROVE FALSE
    BY <1>1
  <2> QED
    BY <1>1, <1>3 DEF R, OpToRel
<1>5. n - k \in t
  BY DEF U
<1>6. \A y \in t : n - k >= y
  <2> TAKE y \in t
  <2>1. n - y \in Nat /\ n - (n - y) = y
    OBVIOUS
  <2>2. n - y \in U
    BY <2>1 DEF U
  <2>3. k <= n - y
    BY <1>4, <2>2
  <2>4. k \in Nat /\ y \in Nat
    BY <1>1
  <2> QED
    BY <2>3, <2>4
<1> QED
  BY <1>5, <1>6 DEF Max

\* The fold that adds up a sequence of naturals is the sum over its places.
LEMMA FoldIsSum ==
    ASSUME NEW s \in Seq(Nat)
    PROVE  FoldLeft(+, 0, s) = SumOver(s, 1 .. Len(s))
<1> DEFINE n == Len(s)
           D == 1 .. n
           Solves(g) == g = [t \in SUBSET D |->
                              IF t = {} THEN 0 ELSE g[t \ {Max(t)}] + s[Max(t)]]
           h == [t \in SUBSET D |-> SumOver(s, t)]
<1>1. n \in Nat /\ DOMAIN s = D /\ \A i \in D : s[i] \in Nat
  OBVIOUS
<1> HIDE DEF n
<1>2. \A t \in SUBSET D : t # {} => Max(t) \in t
  BY <1>1, MaxIn
<1>3. \A t \in SUBSET D : IsFiniteSet(t) /\ \A i \in t : s[i] \in Nat
  BY <1>1, PlacesCounted, FS_Subset
<1>4. ASSUME NEW t \in SUBSET D
      PROVE  SumOver(s, t) = IF t = {} THEN 0 ELSE SumOver(s, t \ {Max(t)}) + s[Max(t)]
  <2>1. CASE t = {}
    BY <1>3, <2>1, SumStep
  <2>2. CASE t # {}
    BY <1>2, <1>3, <2>2, SumAdd
  <2> QED
    BY <2>1, <2>2
<1>5. Solves(h)
  <2>1. \A t \in SUBSET D : h[t \ {Max(t)}] = SumOver(s, t \ {Max(t)})
    OBVIOUS
  <2> QED
    BY <1>4, <2>1
<1>6. PICK g : g = CHOOSE k : Solves(k)
  OBVIOUS
<1>7. FoldLeft(+, 0, s) = g[D]
  BY <1>1, <1>6 DEF FoldLeft, MapThenFoldSet
<1> HIDE DEF Solves, h
<1>8. Solves(g)
  BY <1>5, <1>6
<1>9. g[D] = SumOver(s, D)
  <2> DEFINE F == {t \in SUBSET D : g[t] = SumOver(s, t)}
  <2>1. ASSUME NEW t \in SUBSET D, \A u \in SUBSET t : u # t => u \in F
        PROVE  t \in F
    <3>1. g[t] = IF t = {} THEN 0 ELSE g[t \ {Max(t)}] + s[Max(t)]
      BY <1>8 DEF Solves
    <3>2. t # {} => t \ {Max(t)} \in SUBSET t /\ t \ {Max(t)} # t
      BY <1>2
    <3>3. t # {} => g[t \ {Max(t)}] = SumOver(s, t \ {Max(t)})
      BY <2>1, <3>2
    <3> QED
      BY <1>4, <3>1, <3>3
  <2> HIDE DEF F, D
  <2>2. IsFiniteSet(D)
    BY <1>3
  <2>3. SUBSET D \subseteq F
    BY <2>1, <2>2, FiniteSetsCovered
  <2>4. D \in F
    BY <2>3
  <2> QED
    BY <2>4 DEF F
<1> QED
  BY <1>7, <1>9 DEF n

\* The total of naturals is a natural number.
LEMMA FoldNat ==
    ASSUME NEW s \in Seq(Nat)
    PROVE  FoldLeft(+, 0, s) \in Nat
<1> DEFINE n == Len(s)
<1>1. n \in Nat /\ \A i \in 1 .. n : s[i] \in Nat
  OBVIOUS
<1>2. FoldLeft(+, 0, s) = SumOver(s, 1 .. n)
  BY FoldIsSum
<1> HIDE DEF n
<1>3. IsFiniteSet(1 .. n)
  BY <1>1, PlacesCounted
<1> QED
  BY <1>1, <1>2, <1>3, SumNat

\* One more number at the end adds itself to the total.
LEMMA FoldAppend ==
    ASSUME NEW s \in Seq(Nat), NEW v \in Nat
    PROVE  /\ FoldLeft(+, 0, s) \in Nat
           /\ FoldLeft(+, 0, Append(s, v)) = FoldLeft(+, 0, s) + v
<1> DEFINE n == Len(s)
           r == Append(s, v)
<1>1. /\ n \in Nat /\ r \in Seq(Nat) /\ Len(r) = n + 1 /\ r[n + 1] = v
      /\ \A i \in 1 .. n : r[i] = s[i] /\ s[i] \in Nat
  OBVIOUS
<1>2. /\ FoldLeft(+, 0, s) = SumOver(s, 1 .. n)
      /\ FoldLeft(+, 0, r) = SumOver(r, 1 .. n + 1)
  BY <1>1, FoldIsSum
<1> HIDE DEF n, r
<1>3. IsFiniteSet(1 .. n) /\ IsFiniteSet(1 .. n + 1) /\ n + 1 \in 1 .. n + 1
  BY <1>1, PlacesCounted
<1>4. \A i \in 1 .. n + 1 : r[i] \in Nat
  BY <1>1
<1>5. (1 .. n + 1) \ {n + 1} = 1 .. n
  BY <1>1
<1>6. SumOver(r, 1 .. n + 1) = SumOver(r, 1 .. n) + v
  BY <1>1, <1>3, <1>4, <1>5, SumAdd
<1>7. SumOver(r, 1 .. n) = SumOver(s, 1 .. n)
  BY <1>1, <1>3, SumSame
<1>8. SumOver(s, 1 .. n) \in Nat
  BY <1>1, <1>3, SumNat
<1> QED
  BY <1>2, <1>6, <1>7, <1>8 DEF r

\* A longer prefix has no smaller total.
LEMMA FoldPrefix ==
    ASSUME NEW s \in Seq(Nat), NEW i \in 0 .. Len(s), NEW j \in i .. Len(s)
    PROVE  /\ FoldLeft(+, 0, SubSeq(s, 1, i)) <= FoldLeft(+, 0, SubSeq(s, 1, j))
           /\ FoldLeft(+, 0, SubSeq(s, 1, j)) <= FoldLeft(+, 0, s)
<1> DEFINE P(m) == SubSeq(s, 1, m)
<1>1. /\ Len(s) \in Nat /\ i \in Nat /\ j \in Nat /\ i <= j /\ j <= Len(s)
      /\ \A m \in 1 .. Len(s) : s[m] \in Nat
  OBVIOUS
<1>2. ASSUME NEW m \in 0 .. Len(s)
      PROVE  FoldLeft(+, 0, P(m)) = SumOver(s, 1 .. m)
  <2>1. P(m) \in Seq(Nat) /\ Len(P(m)) = m /\ m \in Nat
    OBVIOUS
  <2>2. \A k \in 1 .. m : P(m)[k] = s[k]
    OBVIOUS
  <2> HIDE DEF P
  <2>3. FoldLeft(+, 0, P(m)) = SumOver(P(m), 1 .. m)
    BY <2>1, FoldIsSum
  <2> QED
    BY <2>1, <2>2, <2>3, PlacesCounted, SumSame
<1>3. FoldLeft(+, 0, s) = SumOver(s, 1 .. Len(s))
  BY FoldIsSum
<1> HIDE DEF P
<1>4. /\ 1 .. i \in SUBSET (1 .. j) /\ 1 .. j \in SUBSET (1 .. Len(s))
      /\ IsFiniteSet(1 .. j) /\ IsFiniteSet(1 .. Len(s))
      /\ \A m \in 1 .. j : s[m] \in Nat
  BY <1>1, PlacesCounted
<1>5. SumOver(s, 1 .. i) <= SumOver(s, 1 .. j)
  BY <1>4, SumMonotone
<1>6. SumOver(s, 1 .. j) <= SumOver(s, 1 .. Len(s))
  BY <1>1, <1>4, SumMonotone
<1>7. FoldLeft(+, 0, P(i)) = SumOver(s, 1 .. i)
  BY <1>2
<1>8. FoldLeft(+, 0, P(j)) = SumOver(s, 1 .. j)
  <2>1. j \in 0 .. Len(s)
    BY <1>1
  <2> QED
    BY <1>2, <2>1
<1> QED
  BY <1>3, <1>5, <1>6, <1>7, <1>8 DEF P

\* p maps S one to one onto T.
Renames(p, S, T) ==
    /\ \A x \in S : p[x] \in T
    /\ \A y \in T : \E x \in S : y = p[x]
    /\ \A x, y \in S : p[x] = p[y] => x = y

\* A sum is the same over other names of its terms.
LEMMA SumRenamed ==
    ASSUME NEW S, NEW T, NEW p, IsFiniteSet(S), Renames(p, S, T),
           NEW f, \A y \in T : f[y] \in Nat,
           NEW h, \A x \in S : h[x] = f[p[x]]
    PROVE  SumOver(h, S) = SumOver(f, T)
<1>0. \A x, y \in S : p[x] = p[y] => x = y
  BY DEF Renames
<1> DEFINE Image(s) == {p[x] : x \in s}
           F == {s \in SUBSET S : SumOver(h, s) = SumOver(f, Image(s))}
<1>1. ASSUME NEW s \in SUBSET S, \A t \in SUBSET s : t # s => t \in F
      PROVE  s \in F
  <2>1. IsFiniteSet(s) /\ IsFiniteSet(Image(s))
    <3>1. IsFiniteSet(s)
      BY FS_Subset
    <3> DEFINE q == [x \in s |-> p[x]]
    <3>2. q \in Surjection(s, Image(s))
      BY DEF Surjection
    <3> QED
      BY <3>1, <3>2, FS_Surjection
  <2>2. CASE s = {}
    <3>1. Image(s) = {} /\ IsFiniteSet({})
      BY <2>2, FS_EmptySet
    <3>2. SumOver(h, {}) = 0 /\ SumOver(f, {}) = 0
      BY <3>1, SumStep
    <3> QED
      BY <2>2, <3>1, <3>2
  <2>3. CASE s # {}
    <3>1. PICK x \in s : TRUE
      BY <2>3
    <3> DEFINE u == s \ {x}
    <3>2. u \in SUBSET s /\ u # s
      BY <3>1
    <3>3. Image(u) = Image(s) \ {p[x]} /\ p[x] \in Image(s)
      BY <1>0, <3>1
    <3>4. SumOver(h, u) = SumOver(f, Image(u))
      BY <1>1, <3>2
    <3>5. \A y \in s : h[y] \in Nat
      BY DEF Renames
    <3>6. \A y \in Image(s) : f[y] \in Nat
      BY DEF Renames
    <3>7. SumOver(h, s) = SumOver(h, u) + h[x]
      BY <2>1, <3>1, <3>5, SumAdd
    <3> HIDE DEF Image
    <3>8. SumOver(f, Image(s)) = SumOver(f, Image(s) \ {p[x]}) + f[p[x]]
      BY <2>1, <3>3, <3>6, SumAdd
    <3>9. h[x] = f[p[x]]
      BY <3>1
    <3> QED
      BY <3>3, <3>4, <3>7, <3>8, <3>9
  <2> QED
    BY <2>2, <2>3
<1> HIDE DEF F
<1>2. SUBSET S \subseteq F
  BY <1>1, FiniteSetsCovered
<1>3. S \in F
  BY <1>2
<1>4. T = Image(S)
  BY DEF Renames
<1> QED
  BY <1>3, <1>4 DEF F

\* The total of a sequence does not depend on its order.
LEMMA FoldPermuted ==
    ASSUME NEW s \in Seq(Nat), NEW p \in Bijection(1 .. Len(s), 1 .. Len(s)),
           NEW r \in Seq(Nat), Len(r) = Len(s), \A i \in 1 .. Len(s) : r[i] = s[p[i]]
    PROVE  FoldLeft(+, 0, r) = FoldLeft(+, 0, s)
<1>1. FoldLeft(+, 0, r) = SumOver(r, 1 .. Len(s)) /\ FoldLeft(+, 0, s) = SumOver(s, 1 .. Len(s))
  BY FoldIsSum
<1>2. PICK D : D = 1 .. Len(s)
  OBVIOUS
<1>3. IsFiniteSet(D)
  BY <1>2, PlacesCounted
<1>4. \A i \in D : s[i] \in Nat
  BY <1>2
<1>5. Renames(p, D, D)
  BY <1>2 DEF Renames, Bijection, Injection, Surjection, IsInjective
<1>6. \A i \in D : r[i] = s[p[i]]
  BY <1>2
<1>7. SumOver(r, D) = SumOver(s, D)
  BY ONLY <1>3, <1>4, <1>5, <1>6, SumRenamed
<1> QED
  BY <1>1, <1>2, <1>7

-----------------------------------------------------------------------------
(* Folds, for any step *)

CONSTANT FoldStep(_, _)

Folded(m, s) == FoldLeft(FoldStep, m, s)

\* g is the fold of s from m over each subset of the first n places.
Folds(m, s, n, g) ==
    g = [t \in SUBSET (1 .. n) |-> IF t = {} THEN m ELSE FoldStep(g[t \ {Max(t)}], s[Max(t)])]

\* Folds over the first places of sequences that begin alike are the same there.
LEMMA FoldsAgree ==
    ASSUME NEW n \in Nat, NEW k \in Nat, n <= k, NEW m, NEW r, NEW s, NEW g, NEW h,
           \A i \in 1 .. n : r[i] = s[i],
           Folds(m, r, n, g), Folds(m, s, k, h)
    PROVE  \A t \in SUBSET (1 .. n) : g[t] = h[t]
<1> DEFINE D == 1 .. n
           F == {t \in SUBSET D : g[t] = h[t]}
<1>1. \A t \in SUBSET D : t # {} => Max(t) \in t
  BY MaxIn
<1>2. ASSUME NEW t \in SUBSET D, \A u \in SUBSET t : u # t => u \in F
      PROVE  t \in F
  <2>1. g[t] = IF t = {} THEN m ELSE FoldStep(g[t \ {Max(t)}], r[Max(t)])
    BY DEF Folds
  <2>2. t \in SUBSET (1 .. k)
    OBVIOUS
  <2>3. h[t] = IF t = {} THEN m ELSE FoldStep(h[t \ {Max(t)}], s[Max(t)])
    BY <2>2 DEF Folds
  <2>4. CASE t = {}
    BY <2>1, <2>3, <2>4
  <2>5. CASE t # {}
    <3>1. Max(t) \in t /\ t \ {Max(t)} \in SUBSET t /\ t \ {Max(t)} # t
      BY <1>1, <2>5
    <3>2. g[t \ {Max(t)}] = h[t \ {Max(t)}]
      BY <1>2, <3>1
    <3>3. r[Max(t)] = s[Max(t)]
      BY <3>1
    <3> QED
      BY <2>1, <2>3, <2>5, <3>2, <3>3
  <2> QED
    BY <2>4, <2>5
<1>3. IsFiniteSet(D)
  BY PlacesCounted
<1> HIDE DEF F, D
<1>4. SUBSET D \subseteq F
  BY <1>2, <1>3, FiniteSetsCovered
<1> QED
  BY <1>4 DEF F, D

\* One more place takes the fold one step further.
LEMMA FoldsStep ==
    ASSUME NEW n \in Nat, NEW m, NEW s, NEW g, Folds(m, s, n, g)
    PROVE  \E h : Folds(m, s, n + 1, h)
<1> DEFINE D == 1 .. n
           E == 1 .. n + 1
           h == [t \in SUBSET E |-> IF n + 1 \in t THEN FoldStep(g[t \ {n + 1}], s[n + 1]) ELSE g[t]]
<1>1. \A t \in SUBSET E : n + 1 \in t => t \ {n + 1} \in SUBSET D
  OBVIOUS
<1>2. \A t \in SUBSET E : n + 1 \notin t => t \in SUBSET D
  OBVIOUS
<1>3. \A t \in SUBSET E : t # {} => Max(t) \in t
  BY MaxIn
<1>4. ASSUME NEW t \in SUBSET E, n + 1 \in t
      PROVE  Max(t) = n + 1
  <2>1. n + 1 \in Nat /\ n + 1 >= n + 1 /\ \A y \in t : n + 1 >= y
    OBVIOUS
  <2> DEFINE x == Max(t)
  <2>2. x \in t /\ x >= n + 1
    <3>1. \A y \in t : y \in Nat
      OBVIOUS
    <3>2. \E x1 \in t : \A y \in t : x1 >= y
      BY <1>4, <2>1
    <3> QED
      BY <1>4, <3>2 DEF Max
  <2>3. x \in E
    BY <2>2
  <2> HIDE DEF x
  <2> QED
    BY <2>2, <2>3 DEF x
<1>5. ASSUME NEW t \in SUBSET E
      PROVE  h[t] = IF t = {} THEN m ELSE FoldStep(h[t \ {Max(t)}], s[Max(t)])
  <2>1. CASE n + 1 \in t
    <3>1. h[t] = FoldStep(g[t \ {n + 1}], s[n + 1])
      BY <2>1
    <3>2. t \ {n + 1} \in SUBSET E /\ n + 1 \notin t \ {n + 1}
      BY <1>1
    <3>3. h[t \ {n + 1}] = g[t \ {n + 1}]
      BY <3>2
    <3> QED
      BY <1>4, <2>1, <3>1, <3>3
  <2>2. CASE n + 1 \notin t /\ t # {}
    <3>1. t \in SUBSET D /\ t \ {Max(t)} \in SUBSET E /\ n + 1 \notin t \ {Max(t)}
      BY <1>2, <2>2
    <3>2. h[t] = g[t] /\ h[t \ {Max(t)}] = g[t \ {Max(t)}]
      BY <2>2, <3>1
    <3>3. g[t] = FoldStep(g[t \ {Max(t)}], s[Max(t)])
      BY <2>2, <3>1 DEF Folds
    <3> QED
      BY <2>2, <3>2, <3>3
  <2>3. CASE t = {}
    <3>1. g[{}] = m
      BY DEF Folds
    <3> QED
      BY <2>3, <3>1
  <2> QED
    BY <2>1, <2>2, <2>3
<1>6. h = [t \in SUBSET E |-> h[t]]
  OBVIOUS
<1> HIDE DEF h
<1>7. h = [t \in SUBSET E |-> IF t = {} THEN m ELSE FoldStep(h[t \ {Max(t)}], s[Max(t)])]
  BY <1>5, <1>6
<1> QED
  BY <1>7 DEF Folds

\* There is a fold over every sequence.
LEMMA FoldsExist ==
    ASSUME NEW n \in Nat, NEW m, NEW s
    PROVE  \E g : Folds(m, s, n, g)
<1> DEFINE U == {k \in Nat : ~ \E g : Folds(m, s, k, g)}
           R == OpToRel(<, Nat)
<1>1. SUFFICES ASSUME U # {} PROVE FALSE
  OBVIOUS
<1>2. IsWellFoundedOn(R, Nat) /\ U \in SUBSET Nat
  BY NatLessThanWellFounded
<1> HIDE DEF U, R
<1>3. PICK k \in U : \A y \in Nat : <<y, k>> \in R => y \notin U
  BY <1>1, <1>2, WFMin
<1>4. k \in Nat /\ ~ \E g : Folds(m, s, k, g)
  BY DEF U
<1>5. CASE k = 0
  <2> DEFINE g == [t \in SUBSET (1 .. 0) |-> m]
  <2>1. g = [t \in SUBSET (1 .. 0) |-> IF t = {} THEN m ELSE FoldStep(g[t \ {Max(t)}], s[Max(t)])]
    <3>1. 1 .. 0 = {}
      OBVIOUS
    <3>2. \A t \in SUBSET (1 .. 0) : t = {}
      BY <3>1
    <3> QED
      BY <3>2
  <2> HIDE DEF g
  <2>2. Folds(m, s, 0, g)
    BY <2>1 DEF Folds
  <2> QED
    BY <1>4, <1>5, <2>2
<1>6. CASE k # 0
  <2>1. k - 1 \in Nat /\ k - 1 < k /\ k - 1 + 1 = k
    BY <1>4, <1>6
  <2>2. <<k - 1, k>> \in R
    BY <1>4, <2>1 DEF R, OpToRel
  <2>3. k - 1 \notin U
    BY <1>3, <2>1, <2>2
  <2>4. PICK g : Folds(m, s, k - 1, g)
    BY <2>1, <2>3 DEF U
  <2>5. \E h : Folds(m, s, k - 1 + 1, h)
    BY <2>1, <2>4, FoldsStep
  <2> QED
    BY <1>4, <2>1, <2>5
<1> QED
  BY <1>5, <1>6

\* FoldLeft is the fold over all places.
LEMMA FoldedIs ==
    ASSUME NEW G, NEW s \in Seq(G), NEW m
    PROVE  \E g : Folds(m, s, Len(s), g) /\ Folded(m, s) = g[1 .. Len(s)]
<1> DEFINE n == Len(s)
           D == 1 .. n
           Solves(g) == g = [t \in SUBSET D |->
                              IF t = {} THEN m ELSE FoldStep(g[t \ {Max(t)}], s[Max(t)])]
<1>1. n \in Nat /\ DOMAIN s = D
  OBVIOUS
<1> HIDE DEF n
<1>2. PICK g : g = CHOOSE k : Solves(k)
  OBVIOUS
<1>3. Folded(m, s) = g[D]
  BY <1>1, <1>2 DEF Folded, FoldLeft, MapThenFoldSet
<1>4. \E k : Solves(k)
  <2>1. PICK k : Folds(m, s, n, k)
    BY <1>1, FoldsExist
  <2> QED
    BY <2>1 DEF Folds
<1> HIDE DEF Solves
<1>5. Solves(g)
  BY <1>2, <1>4
<1>6. Folds(m, s, n, g)
  BY <1>5 DEF Folds, Solves
<1> QED
  BY <1>3, <1>6 DEF n

\* The fold of nothing is where it starts.
LEMMA FoldedEmpty ==
    ASSUME NEW m
    PROVE  Folded(m, <<>>) = m
<1>1. <<>> \in Seq({}) /\ Len(<<>>) = 0 /\ 1 .. 0 = {}
  OBVIOUS
<1>2. PICK g : Folds(m, <<>>, 0, g) /\ Folded(m, <<>>) = g[1 .. 0]
  BY <1>1, FoldedIs
<1>3. g[{}] = m
  BY <1>2 DEF Folds
<1> QED
  BY <1>1, <1>2, <1>3

\* The last element takes the last step.
LEMMA FoldedAppend ==
    ASSUME NEW G, NEW s \in Seq(G), NEW e \in G, NEW m
    PROVE  Folded(m, Append(s, e)) = FoldStep(Folded(m, s), e)
<1> DEFINE n == Len(s)
           r == Append(s, e)
<1>1. /\ n \in Nat /\ r \in Seq(G) /\ Len(r) = n + 1 /\ r[n + 1] = e
      /\ \A i \in 1 .. n : s[i] = r[i]
  OBVIOUS
<1>2. PICK g : Folds(m, s, n, g) /\ Folded(m, s) = g[1 .. n]
  BY FoldedIs
<1>3. PICK h : Folds(m, r, Len(r), h) /\ Folded(m, r) = h[1 .. Len(r)]
  BY <1>1, FoldedIs
<1> HIDE DEF n, r
<1>4. g[1 .. n] = h[1 .. n]
  <2>1. n + 1 \in Nat /\ n <= n + 1
    BY <1>1
  <2>2. \A t \in SUBSET (1 .. n) : g[t] = h[t]
    BY <1>1, <1>2, <1>3, <2>1, FoldsAgree
  <2> QED
    BY <2>2
<1>5. h[1 .. n + 1] = FoldStep(h[1 .. n], e)
  <2> DEFINE E == 1 .. n + 1
  <2>1. n + 1 \in E /\ \A y \in E : n + 1 >= y
    BY <1>1
  <2>2. Max(E) \in E /\ \A y \in E : Max(E) >= y
    BY <2>1 DEF Max
  <2>3. Max(E) = n + 1
    BY <1>1, <2>1, <2>2
  <2>4. E \ {n + 1} = 1 .. n
    BY <1>1
  <2>5. h[E] = FoldStep(h[E \ {Max(E)}], r[Max(E)])
    BY <1>1, <1>3, <2>1 DEF Folds
  <2> QED
    BY <1>1, <2>3, <2>4, <2>5
<1> QED
  BY <1>1, <1>2, <1>3, <1>4, <1>5 DEF r

\* A prefix one longer.
LEMMA PrefixMore ==
    ASSUME NEW G, NEW s \in Seq(G), NEW t \in Seq(G), NEW k \in 0 .. Len(t) - 1
    PROVE  /\ SubSeq(t, 1, k) \in Seq(G)
           /\ SubSeq(t, 1, k + 1) = Append(SubSeq(t, 1, k), t[k + 1])
           /\ s \o SubSeq(t, 1, k + 1) = Append(s \o SubSeq(t, 1, k), t[k + 1])
<1>1. /\ Len(s) \in Nat /\ Len(t) \in Nat /\ k \in Nat /\ k + 1 \in 1 .. Len(t) /\ t[k + 1] \in G
      /\ \A i \in 1 .. Len(t) : t[i] \in G
  OBVIOUS
<1>2. /\ SubSeq(t, 1, k) \in Seq(G) /\ Len(SubSeq(t, 1, k)) = k
      /\ \A i \in 1 .. k : SubSeq(t, 1, k)[i] = t[i]
  BY <1>1
<1>3. /\ SubSeq(t, 1, k + 1) \in Seq(G) /\ Len(SubSeq(t, 1, k + 1)) = k + 1
      /\ \A i \in 1 .. k + 1 : SubSeq(t, 1, k + 1)[i] = t[i]
  BY <1>1
<1> DEFINE p == SubSeq(t, 1, k)
           q == SubSeq(t, 1, k + 1)
           e == t[k + 1]
<1> HIDE DEF p, q, e
<1>4. /\ p \in Seq(G) /\ q \in Seq(G) /\ e \in G /\ Len(p) = k /\ Len(q) = k + 1
      /\ \A i \in 1 .. k : q[i] = p[i]
      /\ q[k + 1] = e
  BY <1>1, <1>2, <1>3 DEF p, q, e
<1>5. q = Append(p, e)
  BY <1>1, <1>4
<1>6. s \o Append(p, e) = Append(s \o p, e)
  BY <1>1, <1>4
<1> QED
  BY <1>2, <1>5, <1>6 DEF p, q, e

\* A fold over two sequences goes on where it stood after the first.
LEMMA FoldedConcat ==
    ASSUME NEW G, NEW s \in Seq(G), NEW t \in Seq(G), NEW m
    PROVE  Folded(m, s \o t) = Folded(Folded(m, s), t)
<1> DEFINE p(k) == SubSeq(t, 1, k)
           U == {k \in 0 .. Len(t) : Folded(m, s \o p(k)) # Folded(Folded(m, s), p(k))}
           R == OpToRel(<, Nat)
<1>1. Len(t) \in Nat /\ p(Len(t)) = t
  OBVIOUS
<1>2. IsWellFoundedOn(R, Nat) /\ U \in SUBSET Nat
  <2>1. U \in SUBSET Nat
    <3>1. \A k \in 0 .. Len(t) : k \in Nat
      BY <1>1
    <3> HIDE DEF p
    <3> QED
      BY <3>1
  <2>2. IsWellFoundedOn(R, Nat)
    BY NatLessThanWellFounded
  <2> QED
    BY <2>1, <2>2
<1>3. p(0) = <<>> /\ s \o p(0) = s
  OBVIOUS
<1>4. \A k \in 0 .. Len(t) - 1 : /\ p(k) \in Seq(G) /\ s \o p(k) \in Seq(G) /\ t[k + 1] \in G
                                 /\ p(k + 1) = Append(p(k), t[k + 1])
                                 /\ s \o p(k + 1) = Append(s \o p(k), t[k + 1])
  <2> TAKE k \in 0 .. Len(t) - 1
  <2>1. t[k + 1] \in G
    OBVIOUS
  <2>2. /\ p(k) \in Seq(G) /\ p(k + 1) = Append(p(k), t[k + 1])
        /\ s \o p(k + 1) = Append(s \o p(k), t[k + 1])
    BY PrefixMore
  <2> HIDE DEF p
  <2>3. s \o p(k) \in Seq(G)
    BY <2>2
  <2> QED
    BY <2>1, <2>2, <2>3
<1> HIDE DEF p
<1>5. ASSUME NEW k \in 0 .. Len(t) - 1, k \notin U
      PROVE  k + 1 \notin U
  <2>1. k \in 0 .. Len(t)
    BY <1>1
  <2>2. Folded(m, s \o p(k)) = Folded(Folded(m, s), p(k))
    BY <1>5, <2>1
  <2>3. Folded(m, s \o p(k + 1)) = FoldStep(Folded(m, s \o p(k)), t[k + 1])
    BY <1>4, FoldedAppend
  <2>4. Folded(Folded(m, s), p(k + 1)) = FoldStep(Folded(Folded(m, s), p(k)), t[k + 1])
    BY <1>4, FoldedAppend
  <2> QED
    BY <2>2, <2>3, <2>4
<1>6. 0 \notin U
  BY <1>3, FoldedEmpty
<1> HIDE DEF R
<1>7. SUFFICES U = {}
  BY <1>1
<1> HIDE DEF U
<1>8. SUFFICES ASSUME U # {} PROVE FALSE
  OBVIOUS
<1>9. PICK k \in U : \A y \in Nat : <<y, k>> \in R => y \notin U
  BY <1>2, <1>8, WFMin
<1>10. k \in 0 .. Len(t) /\ k # 0
  BY <1>6 DEF U
<1>11. k - 1 \in Nat /\ k - 1 < k /\ k - 1 \in 0 .. Len(t) - 1 /\ k - 1 + 1 = k /\ k \in Nat
  BY <1>1, <1>10
<1>12. <<k - 1, k>> \in R
  BY <1>11 DEF R, OpToRel
<1>13. k - 1 \notin U
  BY <1>9, <1>11, <1>12
<1>14. k - 1 + 1 \notin U
  BY <1>5, <1>11, <1>13
<1> QED
  BY <1>11, <1>14

IsList(s) == \E A : s \in Seq(A)

\* A sequence of any elements is a list.
LEMMA SequencesAreLists ==
    ASSUME NEW A, NEW s \in Seq(A)
    PROVE  IsList(s)
BY DEF IsList

\* Two lists are lists of one kind.
LEMMA CommonList ==
    ASSUME NEW s, NEW t, IsList(s), IsList(t)
    PROVE  \E G : s \in Seq(G) /\ t \in Seq(G)
<1>1. PICK A, B : s \in Seq(A) /\ t \in Seq(B)
  BY DEF IsList
<1> DEFINE G == A \cup B
<1>2. ASSUME NEW S \in {A, B}, NEW u \in Seq(S)
      PROVE  u \in Seq(G)
  <2>1. \A i \in 1 .. Len(u) : u[i] \in G
    BY <1>2
  <2>2. Len(u) \in Nat /\ u = [i \in 1 .. Len(u) |-> u[i]]
    BY <1>2
  <2> QED
    BY <2>1, <2>2, SeqDef
<1> HIDE DEF G
<1> QED
  BY <1>1, <1>2

\* The fold of one sequence after another.
LEMMA FoldedBoth ==
    ASSUME NEW s, NEW t, IsList(s), IsList(t), NEW m
    PROVE  IsList(s \o t) /\ Folded(m, s \o t) = Folded(Folded(m, s), t)
<1>1. PICK G : s \in Seq(G) /\ t \in Seq(G)
  BY CommonList
<1>2. s \o t \in Seq(G)
  BY <1>1
<1> QED
  BY <1>1, <1>2, FoldedConcat DEF IsList

\* A list extended by an element.
LEMMA FoldedMore ==
    ASSUME NEW s, IsList(s), NEW e, NEW m
    PROVE  IsList(Append(s, e)) /\ Folded(m, Append(s, e)) = FoldStep(Folded(m, s), e)
<1>1. PICK A : s \in Seq(A)
  BY DEF IsList
<1> DEFINE G == A \cup {e}
<1>2. s \in Seq(G) /\ e \in G
  <2>1. \A i \in 1 .. Len(s) : s[i] \in G
    BY <1>1
  <2>2. Len(s) \in Nat /\ s = [i \in 1 .. Len(s) |-> s[i]]
    BY <1>1
  <2> QED
    BY <2>1, <2>2, SeqDef
<1> HIDE DEF G
<1>3. Append(s, e) \in Seq(G)
  BY <1>2
<1> QED
  BY <1>2, <1>3, FoldedAppend DEF IsList

\* The fold of one step, of two and of three.
LEMMA FoldedFew ==
    ASSUME NEW m, NEW a
    PROVE  /\ IsList(<<a>>) /\ Folded(m, <<a>>) = FoldStep(m, a)
           /\ \A b : /\ IsList(<<a, b>>) /\ Folded(m, <<a, b>>) = FoldStep(FoldStep(m, a), b)
                    /\ \A c : /\ IsList(<<a, b, c>>)
                             /\ Folded(m, <<a, b, c>>) = FoldStep(FoldStep(FoldStep(m, a), b), c)
<1>1. ASSUME NEW b
      PROVE  <<a, b>> = Append(<<a>>, b) /\ IsList(<<a, b>>) /\ IsList(<<a>>)
  <2>1. <<a, b>> \in Seq({a, b}) /\ <<a>> \in Seq({a}) /\ <<a, b>> = Append(<<a>>, b)
    OBVIOUS
  <2> QED
    BY <2>1, SequencesAreLists
<1>2. ASSUME NEW b, NEW c
      PROVE  <<a, b, c>> = Append(<<a, b>>, c) /\ IsList(<<a, b, c>>)
  <2>1. <<a, b, c>> \in Seq({a, b, c}) /\ <<a, b, c>> = Append(<<a, b>>, c)
    OBVIOUS
  <2> QED
    BY <2>1, SequencesAreLists
<1>3. Folded(m, <<a>>) = FoldStep(m, a)
  <2>1. <<>> \in Seq({a}) /\ a \in {a} /\ Append(<<>>, a) = <<a>>
    OBVIOUS
  <2>2. Folded(m, Append(<<>>, a)) = FoldStep(Folded(m, <<>>), a)
    BY <2>1, FoldedAppend
  <2> QED
    BY <2>1, <2>2, FoldedEmpty
<1>4. ASSUME NEW b
      PROVE  /\ IsList(<<a, b>>) /\ Folded(m, <<a, b>>) = FoldStep(FoldStep(m, a), b)
  <2>1. Folded(m, Append(<<a>>, b)) = FoldStep(Folded(m, <<a>>), b)
    BY <1>1, FoldedMore
  <2> QED
    BY <1>1, <1>3, <2>1
<1>5. ASSUME NEW b, NEW c
      PROVE  /\ IsList(<<a, b, c>>)
             /\ Folded(m, <<a, b, c>>) = FoldStep(FoldStep(FoldStep(m, a), b), c)
  <2>1. Folded(m, Append(<<a, b>>, c)) = FoldStep(Folded(m, <<a, b>>), c)
    BY <1>1, FoldedMore
  <2> QED
    BY <1>2, <1>4, <2>1
<1> QED
  BY <1>1, <1>3, <1>4, <1>5

\* The steps p lead from m to w.
Leads(p, m, w) == IsList(p) /\ Folded(m, p) = w

\* One step leads where it does.
LEMMA LeadsOne ==
    ASSUME NEW m, NEW a
    PROVE  Leads(<<a>>, m, FoldStep(m, a))
BY FoldedFew DEF Leads

\* So do some steps and then others.
LEMMA LeadsBoth ==
    ASSUME NEW p, NEW q, NEW m, NEW w, NEW z, Leads(p, m, w), Leads(q, w, z)
    PROVE  Leads(p \o q, m, z)
BY FoldedBoth DEF Leads

\* No steps lead nowhere.
LEMMA LeadsNone ==
    ASSUME NEW m
    PROVE  Leads(<<>>, m, m)
<1>1. <<>> \in Seq({})
  OBVIOUS
<1> QED
  BY <1>1, FoldedEmpty, SequencesAreLists DEF Leads

\* Two elements and three, one after the other.
LEMMA TuplesJoin ==
    ASSUME NEW a, NEW b
    PROVE  <<a, b>> = <<a>> \o <<b>> /\ \A c : <<a, b, c>> = <<a, b>> \o <<c>>
<1>1. <<a, b>> = <<a>> \o <<b>>
  <2>1. PICK s : s = <<a>> \o <<b>>
    OBVIOUS
  <2>2. s \in Seq({a, b}) /\ Len(s) = 2 /\ s[1] = a /\ s[2] = b
    BY <2>1
  <2>3. DOMAIN s = 1 .. 2 /\ s = [i \in 1 .. 2 |-> s[i]]
    BY <2>2
  <2>4. s = [i \in 1 .. 2 |-> IF i = 1 THEN a ELSE b]
    BY <2>2, <2>3
  <2>5. <<a, b>> = [i \in 1 .. 2 |-> IF i = 1 THEN a ELSE b]
    OBVIOUS
  <2> QED
    BY <2>1, <2>4, <2>5
<1>2. ASSUME NEW c
      PROVE  <<a, b, c>> = <<a, b>> \o <<c>>
  OBVIOUS
<1> QED
  BY <1>1, <1>2

-----------------------------------------------------------------------------
(* Running totals of a sequence, and the place of a number between two of them *)

\* What holds at 0, and after a number whenever at the number, holds up to n.
LEMMA UpTo ==
    ASSUME NEW n \in Nat, NEW P, 0 \in P, \A i \in 0 .. n - 1 : i \in P => i + 1 \in P
    PROVE  0 .. n \subseteq P
<1> DEFINE U == (0 .. n) \ P
           R == OpToRel(<, Nat)
<1>1. SUFFICES ASSUME U # {} PROVE FALSE
  OBVIOUS
<1>2. IsWellFoundedOn(R, Nat) /\ U \in SUBSET Nat
  <2>1. U \in SUBSET Nat
    OBVIOUS
  <2>2. IsWellFoundedOn(R, Nat)
    BY NatLessThanWellFounded
  <2> QED
    BY <2>1, <2>2
<1> HIDE DEF U, R
<1>3. PICK k \in U : \A y \in Nat : <<y, k>> \in R => y \notin U
  BY <1>1, <1>2, WFMin
<1>4. k \in 0 .. n /\ k \notin P /\ k # 0
  BY DEF U
<1>5. k - 1 \in Nat /\ k - 1 < k /\ k - 1 \in 0 .. n - 1 /\ k - 1 + 1 = k /\ k \in Nat
  BY <1>4
<1>6. <<k - 1, k>> \in R
  BY <1>5 DEF R, OpToRel
<1>7. k - 1 \in P
  BY <1>3, <1>5, <1>6 DEF U
<1> QED
  BY <1>4, <1>5, <1>7

\* A set of numbers up to n has a least one and a greatest one.
LEMMA LeastAndGreatest ==
    ASSUME NEW n \in Nat, NEW S, S \subseteq 0 .. n, S # {}
    PROVE  /\ Min(S) \in S /\ \A y \in S : Min(S) <= y
           /\ Max(S) \in S /\ \A y \in S : Max(S) >= y
<1>1. \E x \in S : \A y \in S : x <= y
  <2> DEFINE P == {j \in 0 .. n : \A y \in S : y > j}
  <2> SUFFICES ASSUME \A x \in S : \E y \in S : y < x PROVE FALSE
    OBVIOUS
  <2>1. 0 \in P
    OBVIOUS
  <2>2. ASSUME NEW i \in 0 .. n - 1, i \in P
        PROVE  i + 1 \in P
    <3>1. \A y \in S : y \in Int /\ y >= i + 1
      BY <2>2
    <3>2. i + 1 \notin S
      BY <3>1
    <3> QED
      BY <3>1, <3>2
  <2> HIDE DEF P
  <2>3. 0 .. n \subseteq P
    BY <2>1, <2>2, UpTo
  <2>4. n \in P
    BY <2>3
  <2>5. PICK y \in S : TRUE
    OBVIOUS
  <2> QED
    BY <2>4, <2>5 DEF P
<1>2. \E x \in S : \A y \in S : x >= y
  <2> DEFINE P == {j \in 0 .. n : \A y \in S : y < n - j}
  <2> SUFFICES ASSUME \A x \in S : \E y \in S : y > x PROVE FALSE
    OBVIOUS
  <2>1. 0 \in P
    OBVIOUS
  <2>2. ASSUME NEW i \in 0 .. n - 1, i \in P
        PROVE  i + 1 \in P
    <3>1. \A y \in S : y \in Int /\ y <= n - i - 1
      BY <2>2
    <3>2. n - i - 1 \notin S
      BY <3>1
    <3> QED
      BY <3>1, <3>2
  <2> HIDE DEF P
  <2>3. 0 .. n \subseteq P
    BY <2>1, <2>2, UpTo
  <2>4. n \in P
    BY <2>3
  <2>5. PICK y \in S : TRUE
    OBVIOUS
  <2> QED
    BY <2>4, <2>5 DEF P
<1> QED
  BY <1>1, <1>2 DEF Min, Max

\* f[s] is the total of the first s numbers.
Totals(ls, f) == f = [s \in 0 .. Len(ls) |-> IF s = 0 THEN 0 ELSE f[s - 1] + ls[s]]

LEMMA TotalsExist ==
    ASSUME NEW ls \in Seq(Nat)
    PROVE  \E f : Totals(ls, f)
<1> DEFINE n == Len(ls)
           h == [s \in 0 .. n |-> FoldLeft(+, 0, SubSeq(ls, 1, s))]
<1>1. n \in Nat
  OBVIOUS
<1>2. ASSUME NEW s \in 1 .. n
      PROVE  FoldLeft(+, 0, SubSeq(ls, 1, s)) = FoldLeft(+, 0, SubSeq(ls, 1, s - 1)) + ls[s]
  <2>1. SubSeq(ls, 1, s - 1) \in Seq(Nat) /\ ls[s] \in Nat
    OBVIOUS
  <2>2. SubSeq(ls, 1, s) = Append(SubSeq(ls, 1, s - 1), ls[s])
    OBVIOUS
  <2> QED
    BY <2>1, <2>2, FoldAppend
<1>3. FoldLeft(+, 0, SubSeq(ls, 1, 0)) = 0
  <2>1. SubSeq(ls, 1, 0) = <<>> /\ <<>> \in Seq(Nat) /\ Len(<<>>) = 0 /\ 1 .. 0 = {}
    OBVIOUS
  <2>2. FoldLeft(+, 0, <<>>) = SumOver(<<>>, 1 .. 0)
    BY <2>1, FoldIsSum
  <2>3. SumOver(<<>>, {}) = 0
    BY SumStep, FS_EmptySet
  <2> QED
    BY <2>1, <2>2, <2>3
<1>4. \A s \in 0 .. n : h[s] = IF s = 0 THEN 0 ELSE h[s - 1] + ls[s]
  <2> TAKE s \in 0 .. n
  <2>1. CASE s = 0
    BY <1>3, <2>1
  <2>2. CASE s # 0
    <3>1. s \in 1 .. n /\ s - 1 \in 0 .. n
      BY <1>1, <2>2
    <3> QED
      BY <1>2, <3>1, <2>2
  <2> QED
    BY <2>1, <2>2
<1>5. h = [s \in 0 .. n |-> h[s]]
  OBVIOUS
<1> HIDE DEF h
<1>6. h = [s \in 0 .. n |-> IF s = 0 THEN 0 ELSE h[s - 1] + ls[s]]
  BY <1>4, <1>5
<1> QED
  BY <1>6 DEF Totals

\* Totals grow by the next number.
LEMMA TotalsStep ==
    ASSUME NEW ls \in Seq(Nat), NEW f, Totals(ls, f)
    PROVE  /\ DOMAIN f = 0 .. Len(ls)
           /\ f[0] = 0
           /\ \A s \in 0 .. Len(ls) - 1 : f[s + 1] = f[s] + ls[s + 1]
<1>1. Len(ls) \in Nat
  OBVIOUS
<1>2. /\ DOMAIN f = 0 .. Len(ls)
      /\ \A s \in 0 .. Len(ls) : f[s] = IF s = 0 THEN 0 ELSE f[s - 1] + ls[s]
  <2>1. \E r : r = f /\ f = [s \in 0 .. Len(ls) |-> IF s = 0 THEN 0 ELSE r[s - 1] + ls[s]]
    BY DEF Totals
  <2> QED
    BY <2>1
<1>3. ASSUME NEW s \in 0 .. Len(ls) - 1
      PROVE  f[s + 1] = f[s] + ls[s + 1]
  <2>1. s + 1 \in 0 .. Len(ls) /\ s + 1 # 0 /\ s + 1 - 1 = s
    BY <1>1
  <2>2. PICK t : t = s + 1
    OBVIOUS
  <2>3. f[t] = f[t - 1] + ls[t]
    BY <1>2, <2>1, <2>2
  <2> QED
    BY <2>1, <2>2, <2>3
<1> QED
  BY <1>1, <1>2, <1>3

\* Totals never fall.
LEMMA TotalsRise ==
    ASSUME NEW ls \in Seq(Nat), NEW off, Totals(ls, off)
    PROVE  \A j \in 0 .. Len(ls) :
               /\ off[j] \in Nat
               /\ \A i \in 0 .. j : off[i] <= off[j]
<1> DEFINE n == Len(ls)
           P == {j \in 0 .. n : off[j] \in Nat /\ \A i \in 0 .. j : off[i] \in Nat /\ off[i] <= off[j]}
<1>1. n \in Nat /\ off[0] = 0 /\ \A s \in 0 .. n - 1 : off[s + 1] = off[s] + ls[s + 1] /\ ls[s + 1] \in Nat
  BY TotalsStep
<1> HIDE DEF n
<1>2. 0 \in P
  BY <1>1
<1>3. ASSUME NEW j \in 0 .. n - 1, j \in P
      PROVE  j + 1 \in P
  <2>1. off[j] \in Nat /\ off[j + 1] = off[j] + ls[j + 1] /\ ls[j + 1] \in Nat
        /\ \A i \in 0 .. j : off[i] \in Nat /\ off[i] <= off[j]
    BY <1>1, <1>3
  <2>2. j + 1 \in 0 .. n /\ j \in Nat
    BY <1>1
  <2>3. ASSUME NEW i \in 0 .. j + 1
        PROVE  off[i] \in Nat /\ off[i] <= off[j + 1]
    <3>1. CASE i = j + 1
      BY <2>1, <3>1
    <3>2. CASE i \in 0 .. j
      <4>1. off[i] \in Nat /\ off[i] <= off[j]
        BY <2>1, <3>2
      <4> QED
        BY <2>1, <4>1
    <3> QED
      BY <2>2, <3>1, <3>2
  <2> QED
    BY <2>1, <2>2, <2>3
<1> HIDE DEF P
<1>4. 0 .. n \subseteq P
  BY <1>1, <1>2, <1>3, UpTo
<1> QED
  BY <1>4 DEF P, n


\* A number below the total lies in one of the parts it is made of.
LEMMA PartFound ==
    ASSUME NEW ls \in Seq(Nat), NEW f, Totals(ls, f), NEW r \in 0 .. f[Len(ls)] - 1
    PROVE  \E s \in 0 .. Len(ls) - 1 : f[s] <= r /\ r < f[s + 1]
<1> DEFINE n == Len(ls)
           P == {s \in 0 .. n : f[s] <= r}
<1>1. n \in Nat /\ f[0] = 0 /\ f[n] \in Nat /\ r \in Nat /\ r < f[n]
  <2>1. n \in Nat /\ n \in 0 .. n
    OBVIOUS
  <2>2. f[n] \in Nat /\ f[0] = 0
    BY <2>1, TotalsStep, TotalsRise
  <2> QED
    BY <2>1, <2>2
<1>2. \A s \in 0 .. n : f[s] \in Nat
  BY TotalsRise
<1> HIDE DEF n
<1>3. SUFFICES ASSUME \A s \in 0 .. n - 1 : f[s] <= r => ~(r < f[s + 1]) PROVE FALSE
  BY DEF n
<1>4. 0 \in P
  BY <1>1
<1>5. \A s \in 0 .. n - 1 : s \in P => s + 1 \in P
  <2> TAKE s \in 0 .. n - 1
  <2>1. s \in 0 .. n /\ s + 1 \in 0 .. n
    BY <1>1
  <2> QED
    BY <1>1, <1>2, <1>3, <2>1
<1> HIDE DEF P
<1>6. 0 .. n \subseteq P
  BY <1>1, <1>4, <1>5, UpTo
<1>7. n \in 0 .. n
  BY <1>1
<1>8. f[n] <= r
  BY <1>6, <1>7 DEF P
<1> QED
  BY <1>1, <1>8

\* In only one of them.
LEMMA PartUnique ==
    ASSUME NEW ls \in Seq(Nat), NEW f, Totals(ls, f), NEW r \in Int,
           NEW s \in 0 .. Len(ls) - 1, f[s] <= r, r < f[s + 1],
           NEW t \in 0 .. Len(ls) - 1, f[t] <= r, r < f[t + 1]
    PROVE  s = t
<1>1. /\ Len(ls) \in Nat /\ s \in 0 .. Len(ls) /\ t \in 0 .. Len(ls)
      /\ s + 1 \in 0 .. Len(ls) /\ t + 1 \in 0 .. Len(ls)
  OBVIOUS
<1>2. f[s] \in Nat /\ f[t] \in Nat /\ f[s + 1] \in Nat /\ f[t + 1] \in Nat
  BY <1>1, TotalsRise
<1>3. s < t => f[s + 1] <= f[t]
  <2>1. s < t => s + 1 \in 0 .. t
    BY <1>1
  <2> QED
    BY <1>1, <2>1, TotalsRise
<1>4. t < s => f[t + 1] <= f[s]
  <2>1. t < s => t + 1 \in 0 .. s
    BY <1>1
  <2> QED
    BY <1>1, <2>1, TotalsRise
<1>5. ~(s < t)
  BY <1>2, <1>3
<1>6. ~(t < s)
  BY <1>2, <1>4
<1> QED
  BY <1>1, <1>5, <1>6

\* Totals of one sequence are its only ones.
LEMMA TotalsUnique ==
    ASSUME NEW ls \in Seq(Nat), NEW f, NEW g, Totals(ls, f), Totals(ls, g)
    PROVE  f = g
<1> DEFINE n == Len(ls)
           P == {s \in 0 .. n : f[s] = g[s]}
<1>1. /\ n \in Nat /\ DOMAIN f = 0 .. n /\ DOMAIN g = 0 .. n /\ f[0] = 0 /\ g[0] = 0
      /\ \A s \in 0 .. n - 1 : f[s + 1] = f[s] + ls[s + 1] /\ g[s + 1] = g[s] + ls[s + 1]
  BY TotalsStep
<1>2. f = [s \in 0 .. n |-> f[s]] /\ g = [s \in 0 .. n |-> g[s]]
  BY <1>1 DEF Totals
<1> HIDE DEF n
<1>3. 0 \in P
  BY <1>1
<1>4. \A s \in 0 .. n - 1 : s \in P => s + 1 \in P
  <2> TAKE s \in 0 .. n - 1
  <2>1. s + 1 \in 0 .. n
    BY <1>1
  <2> QED
    BY <1>1, <2>1
<1> HIDE DEF P
<1>5. 0 .. n \subseteq P
  BY <1>1, <1>3, <1>4, UpTo
<1> QED
  BY <1>2, <1>5 DEF P

\* The totals of a stretch of a sequence are those of the sequence, less what comes before.
LEMMA TotalsOfStretch ==
    ASSUME NEW ls \in Seq(Nat), NEW f, Totals(ls, f), NEW a \in 0 .. Len(ls), NEW b \in 0 .. Len(ls) - a
    PROVE  /\ SubSeq(ls, a + 1, a + b) \in Seq(Nat) /\ Len(SubSeq(ls, a + 1, a + b)) = b
           /\ \A s \in 1 .. b : SubSeq(ls, a + 1, a + b)[s] = ls[a + s]
           /\ Totals(SubSeq(ls, a + 1, a + b), [s \in 0 .. b |-> f[a + s] - f[a]])
<1> DEFINE t == SubSeq(ls, a + 1, a + b)
           g == [s \in 0 .. b |-> f[a + s] - f[a]]
<1>1. /\ Len(ls) \in Nat /\ a \in Nat /\ b \in Nat /\ a + b \in 0 .. Len(ls)
      /\ \A s \in 0 .. b : a + s \in 0 .. Len(ls)
  OBVIOUS
<1>2. t \in Seq(Nat) /\ Len(t) = b /\ \A s \in 1 .. b : t[s] = ls[a + s]
  <2>1. \A i \in a + 1 .. a + b : i \in 1 .. Len(ls) /\ ls[i] \in Nat
    BY <1>1
  <2>2. t \in Seq(Nat) /\ Len(t) = b
    BY <1>1, <2>1
  <2>3. \A s \in 1 .. b : t[s] = ls[a + s]
    BY <1>1, <2>1
  <2> QED
    BY <2>2, <2>3
<1> HIDE DEF t
<1>3. \A s \in 0 .. Len(ls) : f[s] \in Nat
  BY TotalsRise
<1>4. \A s \in 0 .. Len(ls) - 1 : f[s + 1] = f[s] + ls[s + 1] /\ ls[s + 1] \in Nat
  BY TotalsStep
<1>5. ASSUME NEW s \in 0 .. b
      PROVE  g[s] = IF s = 0 THEN 0 ELSE g[s - 1] + t[s]
  <2>1. CASE s = 0
    BY <1>1, <1>3, <2>1
  <2>2. CASE s # 0
    <3>1. s - 1 \in 0 .. b /\ a + (s - 1) \in 0 .. Len(ls) - 1 /\ s \in 1 .. b /\ a + (s - 1) + 1 = a + s
      BY <1>1, <2>2
    <3>2. f[a + s] = f[a + (s - 1)] + ls[a + s] /\ ls[a + s] \in Nat
      BY <1>4, <3>1
    <3>3. t[s] = ls[a + s] /\ f[a] \in Nat /\ f[a + (s - 1)] \in Nat /\ f[a + s] \in Nat
      BY <1>1, <1>2, <1>3, <3>1
    <3>4. g[s] = f[a + s] - f[a] /\ g[s - 1] = f[a + (s - 1)] - f[a]
      BY <3>1
    <3> HIDE DEF g
    <3>5. PICK x, y, z : x = f[a + s] /\ y = f[a + (s - 1)] /\ z = f[a]
      OBVIOUS
    <3>6. PICK u, v : u = g[s] /\ v = g[s - 1]
      OBVIOUS
    <3>7. u = x - z /\ v = y - z /\ x = y + t[s] /\ t[s] \in Nat /\ x \in Nat /\ y \in Nat /\ z \in Nat
      BY <3>2, <3>3, <3>4, <3>5, <3>6
    <3>8. u = v + t[s]
      BY <3>7
    <3> QED
      BY <2>2, <3>6, <3>8
  <2> QED
    BY <2>1, <2>2
<1>6. g = [s \in 0 .. b |-> g[s]]
  OBVIOUS
<1> HIDE DEF g
<1>7. g = [s \in 0 .. b |-> IF s = 0 THEN 0 ELSE g[s - 1] + t[s]]
  BY <1>5, <1>6
<1>8. Totals(t, g)
  BY <1>2, <1>7 DEF Totals
<1> QED
  BY <1>2, <1>8 DEF t, g

=============================================================================
