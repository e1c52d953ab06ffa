-------------------------- MODULE FocusManagerProofs --------------------------
(***************************************************************************)
(* What the focus handlers keep up, for any number of windows, popups and  *)
(* buttons and whatever is under the cursor: the lists of windows and      *)
(* popups (FocusInv), where the keyboard is (KeysInFront), what a press    *)
(* reaches (PressUnderCursor), and that a drag stays where it is           *)
(* (DragStays), whose proof does not look at which surface a handler       *)
(* chooses: whatever it is, focus_pointer_set defers it.                   *)
(***************************************************************************)
EXTENDS FocusManager, NumberFacts, SequenceTheorems

-----------------------------------------------------------------------------
(* The lists.  seq links every member of set, each once. *)
IsList(seq, set) ==
    /\ seq \in Seq(set)
    /\ \A x \in set : \E i \in 1..Len(seq) : seq[i] = x
    /\ \A i, j \in 1..Len(seq) : seq[i] = seq[j] => i = j

(* Place i of seq is the first whose surface is in set. *)
FirstAt(seq, set, i) ==
    /\ i \in 1..Len(seq) /\ seq[i] \in set
    /\ \A j \in 1..i - 1 : seq[j] \notin set

LEMMA FirstInIs ==
    ASSUME NEW S, NEW seq \in Seq(S), NEW A, NEW i, FirstAt(seq, A, i)
    PROVE  FirstIn(seq, A) = seq[i]
<1> DEFINE found == {k \in DOMAIN seq : seq[k] \in A}
<1>1. DOMAIN seq = 1..Len(seq) /\ Len(seq) \in Nat
  OBVIOUS
<1>2. i \in found /\ \A k \in found : k \in Int /\ i <= k
  BY <1>1 DEF FirstAt
<1>3. Min(found) = i
  <2> HIDE DEF found
  <2>1. \A k \in found : (\A l \in found : k <= l) => k = i
    BY <1>2
  <2> QED
    BY <1>2, <2>1 DEF Min
<1> QED
  BY <1>2, <1>3 DEF FirstIn

LEMMA FirstExists ==
    ASSUME NEW S, NEW seq \in Seq(S), NEW A, NEW k \in 1..Len(seq), seq[k] \in A
    PROVE  \E i : FirstAt(seq, A, i)
<1> DEFINE found == {j \in 1..Len(seq) : seq[j] \in A}
<1>1. Len(seq) \in Nat
  OBVIOUS
<1>2. found \in SUBSET (0..Len(seq)) /\ found # {}
  BY <1>1
<1>3. PICK i \in found : \A j \in found : i <= j
  <2> HIDE DEF found
  <2> QED
    BY <1>1, <1>2, LeastOf
<1> QED
  BY <1>1, <1>3 DEF FirstAt

LEMMA NoneIsFirst ==
    ASSUME NEW S, NEW seq \in Seq(S), NEW A, \A i \in 1..Len(seq) : seq[i] \notin A
    PROVE  FirstIn(seq, A) = NoSurface
BY DEF FirstIn

(* What a search of a list finds. *)
LEMMA FirstFound ==
    ASSUME NEW S, NoSurface \notin S, NEW seq, IsList(seq, S), NEW A
    PROVE  /\ FirstIn(seq, A) \in (S \cap A) \cup {NoSurface}
           /\ FirstIn(seq, A) = NoSurface <=> S \cap A = {}
           /\ FirstIn(seq, A) # NoSurface =>
                \E i : FirstAt(seq, A, i) /\ FirstIn(seq, A) = seq[i]
<1>0. /\ seq \in Seq(S) /\ \A k \in 1..Len(seq) : seq[k] \in S
      /\ \A x \in S : \E k \in 1..Len(seq) : seq[k] = x
  BY DEF IsList
<1>1. CASE S \cap A = {}
  <2>1. seq \in Seq(S) /\ \A i \in 1..Len(seq) : seq[i] \notin A
    BY <1>0, <1>1
  <2> QED
    <3>1. FirstIn(seq, A) = NoSurface
      BY <2>1, NoneIsFirst
    <3> QED
      BY <1>1, <3>1
<1>2. CASE S \cap A # {}
  <2>1. PICK k \in 1..Len(seq) : seq[k] \in A
    BY <1>0, <1>2
  <2>2. PICK i : FirstAt(seq, A, i)
    BY <1>0, <2>1, FirstExists
  <2>3. FirstIn(seq, A) = seq[i]
    BY <1>0, <2>2, FirstInIs
  <2>4. seq[i] \in S \cap A
    BY <1>0, <2>2 DEF FirstAt
  <2> QED
    BY <1>2, <2>2, <2>3, <2>4
<1> QED
  BY <1>1, <1>2

(* A search depends on the members of the list only. *)
LEMMA FirstSame ==
    ASSUME NEW S, NoSurface \notin S, NEW seq, IsList(seq, S), NEW A, NEW B,
           S \cap A = S \cap B
    PROVE  FirstIn(seq, A) = FirstIn(seq, B)
<1>1. seq \in Seq(S)
  BY DEF IsList
<1>2. \A i \in DOMAIN seq : seq[i] \in A <=> seq[i] \in B
  BY <1>1
<1> QED
  BY <1>2 DEF FirstIn

(* If the first of a larger set is in the smaller one, it is its first. *)
LEMMA FirstOfSubset ==
    ASSUME NEW S, NoSurface \notin S, NEW seq, IsList(seq, S), NEW A, NEW B \in SUBSET A,
           FirstIn(seq, A) \in B \cup {NoSurface}
    PROVE  FirstIn(seq, B) = FirstIn(seq, A)
<1>0. seq \in Seq(S)
  BY DEF IsList
<1>1. CASE FirstIn(seq, A) = NoSurface
  BY <1>1, FirstFound
<1>2. CASE FirstIn(seq, A) # NoSurface
  <2>1. PICK i : FirstAt(seq, A, i) /\ FirstIn(seq, A) = seq[i]
    BY <1>2, FirstFound
  <2>2. FirstAt(seq, B, i)
    BY <1>2, <2>1 DEF FirstAt
  <2> QED
    BY <1>0, <2>1, <2>2, FirstInIs
<1> QED
  BY <1>1, <1>2

-----------------------------------------------------------------------------
(* wl_list_insert at the front. *)
LEMMA LinkedIsList ==
    ASSUME NEW S, NEW seq, IsList(seq, S), NEW x, x \notin S
    PROVE  IsList(<<x>> \o seq, S \cup {x})
<1> DEFINE out == <<x>> \o seq
<1>1. seq \in Seq(S) /\ Len(seq) \in Nat
  BY DEF IsList
<1>2. /\ out \in Seq(S \cup {x}) /\ Len(out) = Len(seq) + 1
      /\ out[1] = x /\ \A i \in 2..Len(seq) + 1 : out[i] = seq[i - 1]
  BY <1>1
<1> HIDE DEF out
<1>3. ASSUME NEW y \in S \cup {x} PROVE \E i \in 1..Len(out) : out[i] = y
  <2>1. CASE y = x
    <3>1. 1 \in 1..Len(out)
      BY <1>1, <1>2
    <3>2. out[1] = y
      BY <1>2, <2>1
    <3> QED
      BY <3>1, <3>2
  <2>2. CASE y \in S
    <3>1. PICK i \in 1..Len(seq) : seq[i] = y
      BY <2>2 DEF IsList
    <3>2. i + 1 \in 2..Len(seq) + 1 /\ (i + 1) - 1 = i
      BY <1>1
    <3>3. i + 1 \in 1..Len(out) /\ out[i + 1] = y
      BY <1>1, <1>2, <3>1, <3>2
    <3> QED
      BY <3>3
  <2> QED
    BY <2>1, <2>2
<1>4. ASSUME NEW i \in 1..Len(out), NEW j \in 1..Len(out), out[i] = out[j]
      PROVE  i = j
  <2>1. \A k \in 2..Len(seq) + 1 : k - 1 \in 1..Len(seq) /\ seq[k - 1] \in S
    BY <1>1
  <2>2. CASE i = 1 \/ j = 1
    BY <1>1, <1>2, <1>4, <2>1, <2>2
  <2>3. CASE i # 1 /\ j # 1
    <3>1. i \in 2..Len(seq) + 1 /\ j \in 2..Len(seq) + 1
      BY <1>1, <1>2, <2>3
    <3>2. seq[i - 1] = seq[j - 1]
      BY <1>2, <1>4, <3>1
    <3>3. i - 1 = j - 1
      BY <2>1, <3>1, <3>2 DEF IsList
    <3> QED
      BY <3>1, <3>3
  <2> QED
    BY <2>2, <2>3
<1>5. IsList(out, S \cup {x})
  BY <1>2, <1>3, <1>4 DEF IsList
<1> QED
  BY <1>5 DEF out

LEMMA FirstLinked ==
    ASSUME NEW S, NEW seq \in Seq(S), NEW x, NEW A, x \in A
    PROVE  FirstIn(<<x>> \o seq, A) = x
<1> DEFINE out == <<x>> \o seq
<1>1. out \in Seq(S \cup {x}) /\ out[1] = x /\ 1 \in 1..Len(out)
  OBVIOUS
<1> HIDE DEF out
<1>2. FirstAt(out, A, 1)
  BY <1>1 DEF FirstAt
<1>3. FirstIn(out, A) = x
  BY <1>1, <1>2, FirstInIs
<1> QED
  BY <1>3 DEF out

LEMMA FirstPassed ==
    ASSUME NEW S, NoSurface \notin S, NEW seq, IsList(seq, S), NEW x, NEW A, x \notin A
    PROVE  FirstIn(<<x>> \o seq, A) = FirstIn(seq, A)
<1> DEFINE out == <<x>> \o seq
<1>1. seq \in Seq(S) /\ Len(seq) \in Nat
  BY DEF IsList
<1>2. /\ out \in Seq(S \cup {x}) /\ Len(out) = Len(seq) + 1
      /\ out[1] = x /\ \A i \in 2..Len(seq) + 1 : out[i] = seq[i - 1]
  BY <1>1
<1> HIDE DEF out
<1>3. CASE FirstIn(seq, A) = NoSurface
  <2>1. S \cap A = {}
    BY <1>3, FirstFound
  <2>2. \A i \in 1..Len(out) : out[i] \notin A
    BY <1>1, <1>2, <2>1
  <2>3. FirstIn(out, A) = NoSurface
    BY <1>2, <2>2, NoneIsFirst
  <2> QED
    BY <1>3, <2>3 DEF out
<1>4. CASE FirstIn(seq, A) # NoSurface
  <2>1. PICK i : FirstAt(seq, A, i) /\ FirstIn(seq, A) = seq[i]
    BY <1>4, FirstFound
  <2>2. i \in 1..Len(seq) /\ i + 1 \in 2..Len(seq) + 1 /\ (i + 1) - 1 = i
    BY <1>1, <2>1 DEF FirstAt
  <2>3. \A j \in 1..i : out[j] \notin A
    <3> SUFFICES ASSUME NEW j \in 1..i PROVE out[j] \notin A
      OBVIOUS
    <3>1. CASE j = 1
      BY <1>2, <3>1
    <3>2. CASE j # 1
      <4>1. j \in 2..Len(seq) + 1 /\ j - 1 \in 1..i - 1
        BY <1>1, <2>2, <3>2
      <4> QED
        BY <1>2, <2>1, <4>1 DEF FirstAt
    <3> QED
      BY <3>1, <3>2
  <2>4. FirstAt(out, A, i + 1)
    BY <1>1, <1>2, <2>1, <2>2, <2>3 DEF FirstAt
  <2>5. FirstIn(out, A) = out[i + 1]
    BY <1>2, <2>4, FirstInIs
  <2> QED
    BY <1>2, <2>1, <2>2, <2>5 DEF out
<1> QED
  BY <1>3, <1>4

-----------------------------------------------------------------------------
(* wl_list_remove. *)
LEMMA PlaceType ==
    ASSUME NEW S, NEW seq \in Seq(S), NEW x PROVE Place(seq, x) \in 0..Len(seq)
<1> DEFINE found == {i \in 1..Len(seq) : seq[i] = x}
<1>1. Place(seq, x) = IF found # {} THEN Min(found) ELSE 0
  BY DEF Place, SelectInSeq
<1>2. Len(seq) \in Nat
  OBVIOUS
<1>3. ASSUME found # {} PROVE Min(found) \in 1..Len(seq)
  <2>1. found \in SUBSET (0..Len(seq)) /\ found \subseteq 1..Len(seq)
    BY <1>2
  <2>2. \E i \in found : \A j \in found : i <= j
    <3> HIDE DEF found
    <3> QED
      BY <1>2, <1>3, <2>1, LeastOf
  <2> HIDE DEF found
  <2> QED
    BY <2>1, <2>2 DEF Min
<1> HIDE DEF found
<1> QED
  BY <1>1, <1>2, <1>3

LEMMA PlaceIs ==
    ASSUME NEW S, NEW seq, IsList(seq, S), NEW x \in S
    PROVE  Place(seq, x) \in 1..Len(seq) /\ seq[Place(seq, x)] = x
<1> DEFINE found == {i \in 1..Len(seq) : seq[i] = x}
<1>1. Place(seq, x) = IF found # {} THEN Min(found) ELSE 0
  BY DEF Place, SelectInSeq
<1>2. PICK k \in 1..Len(seq) : seq[k] = x
  BY DEF IsList
<1>3. found = {k}
  BY <1>2 DEF IsList
<1>4. k \in Int
  OBVIOUS
<1>5. Min({k}) = k
  BY <1>4 DEF Min
<1> QED
  BY <1>1, <1>2, <1>3, <1>5

LEMMA UnlinkedPlaces ==
    ASSUME NEW S, NEW seq, IsList(seq, S), NEW x \in S
    PROVE  LET k   == Place(seq, x)
               out == Unlinked(seq, x)
           IN  /\ k \in 1..Len(seq) /\ seq[k] = x
               /\ out \in Seq(S) /\ Len(out) = Len(seq) - 1
               /\ \A i \in 1..Len(out) : out[i] = IF i < k THEN seq[i] ELSE seq[i + 1]
<1> DEFINE k == Place(seq, x)
           a == SubSeq(seq, 1, k - 1)
           b == SubSeq(seq, k + 1, Len(seq))
<1>1. k \in 1..Len(seq) /\ seq[k] = x
  BY PlaceIs
<1>2. seq \in Seq(S) /\ Len(seq) \in Nat
  BY DEF IsList
<1>3. Unlinked(seq, x) = a \o b
  BY DEF Unlinked, RemoveAt
<1> HIDE DEF k
<1>4. /\ a \in Seq(S) /\ Len(a) = k - 1 /\ \A i \in 1..k - 1 : a[i] = seq[i]
  BY <1>1, <1>2
<1>5. /\ b \in Seq(S) /\ Len(b) = Len(seq) - k
      /\ \A i \in 1..Len(seq) - k : b[i] = seq[k + i]
  BY <1>1, <1>2
<1> HIDE DEF a, b
<1>6. /\ a \o b \in Seq(S) /\ Len(a \o b) = Len(seq) - 1
      /\ \A i \in 1..Len(seq) - 1 : (a \o b)[i] = IF i <= k - 1 THEN a[i] ELSE b[i - (k - 1)]
  <2>1. a \o b \in Seq(S)
    BY <1>4, <1>5
  <2>2. Len(a \o b) = Len(a) + Len(b)
    BY <1>4, <1>5, ConcatProperties
  <2>3. \A i \in 1..Len(a) + Len(b) : (a \o b)[i] = IF i <= Len(a) THEN a[i] ELSE b[i - Len(a)]
    BY <1>4, <1>5, ConcatProperties
  <2>4. Len(a) + Len(b) = Len(seq) - 1
    BY <1>1, <1>2, <1>4, <1>5
  <2> QED
    BY <1>4, <2>1, <2>2, <2>3, <2>4
<1>7. ASSUME NEW i \in 1..Len(seq) - 1
      PROVE  (a \o b)[i] = IF i < k THEN seq[i] ELSE seq[i + 1]
  <2>1. CASE i < k
    <3>1. i \in 1..k - 1 /\ i <= k - 1
      BY <1>1, <1>2, <2>1
    <3> QED
      BY <1>4, <1>6, <2>1, <3>1
  <2>2. CASE ~(i < k)
    <3>1. ~(i <= k - 1) /\ i - (k - 1) \in 1..Len(seq) - k /\ k + (i - (k - 1)) = i + 1
      BY <1>1, <1>2, <2>2
    <3> QED
      BY <1>5, <1>6, <2>2, <3>1
  <2> QED
    BY <2>1, <2>2
<1> QED
  BY <1>1, <1>3, <1>6, <1>7 DEF k

LEMMA UnlinkedIsList ==
    ASSUME NEW S, NEW seq, IsList(seq, S), NEW x \in S
    PROVE  IsList(Unlinked(seq, x), S \ {x})
<1> DEFINE k == Place(seq, x)
           out == Unlinked(seq, x)
           from(i) == IF i < k THEN i ELSE i + 1
<1>0. /\ k \in 1..Len(seq) /\ seq[k] = x
      /\ out \in Seq(S) /\ Len(out) = Len(seq) - 1
      /\ \A i \in 1..Len(out) : out[i] = IF i < k THEN seq[i] ELSE seq[i + 1]
  BY UnlinkedPlaces
<1>1. /\ k \in 1..Len(seq) /\ seq[k] = x
      /\ out \in Seq(S) /\ Len(out) = Len(seq) - 1
      /\ \A i \in 1..Len(out) : out[i] = seq[from(i)]
  <2> HIDE DEF k, out
  <2> QED
    BY <1>0
<1>2. Len(seq) \in Nat /\ seq \in Seq(S)
  BY DEF IsList
<1> HIDE DEF k, out
<1>3. \A i \in 1..Len(out) : from(i) \in 1..Len(seq) /\ from(i) # k
  BY <1>1, <1>2
<1>4. ASSUME NEW i \in 1..Len(out), NEW j \in 1..Len(out), from(i) = from(j) PROVE i = j
  BY <1>1, <1>2, <1>4
<1>5. ASSUME NEW m \in 1..Len(seq), m # k PROVE \E i \in 1..Len(out) : from(i) = m
  <2>1. CASE m < k
    BY <1>1, <1>2, <2>1
  <2>2. CASE m > k
    <3>1. m - 1 \in 1..Len(out) /\ ~(m - 1 < k) /\ (m - 1) + 1 = m
      BY <1>1, <1>2, <2>2
    <3> QED
      BY <3>1
  <2> QED
    BY <1>1, <1>2, <1>5, <2>1, <2>2
<1> HIDE DEF from
<1>once. \A i, j \in 1..Len(seq) : seq[i] = seq[j] => i = j
  BY DEF IsList
<1>6. ASSUME NEW i \in 1..Len(out) PROVE out[i] \in S \ {x}
  <2>1. out[i] = seq[from(i)] /\ from(i) \in 1..Len(seq) /\ from(i) # k
    BY <1>1, <1>3
  <2>2. seq[from(i)] # seq[k]
    BY <1>once, <1>1, <2>1
  <2>3. seq[from(i)] \in S
    BY <1>2, <2>1
  <2> QED
    BY <1>1, <2>1, <2>2, <2>3
<1>7. out \in Seq(S \ {x})
  BY <1>1, <1>6
<1>8. ASSUME NEW i \in 1..Len(out), NEW j \in 1..Len(out), out[i] = out[j] PROVE i = j
  <2>1. seq[from(i)] = seq[from(j)]
    BY <1>1, <1>8
  <2>2. from(i) = from(j)
    BY <1>once, <1>3, <2>1
  <2> QED
    BY <1>4, <2>2
<1>9. ASSUME NEW y \in S \ {x} PROVE \E i \in 1..Len(out) : out[i] = y
  <2>1. PICK m \in 1..Len(seq) : seq[m] = y
    BY DEF IsList
  <2>2. PICK i \in 1..Len(out) : from(i) = m
    BY <1>1, <1>5, <2>1
  <2> QED
    BY <1>1, <2>1, <2>2
<1> QED
  BY <1>7, <1>8, <1>9 DEF IsList, out

(* A search that skips x does not notice its removal. *)
LEMMA FirstUnlinked ==
    ASSUME NEW S, NoSurface \notin S, NEW seq, IsList(seq, S), NEW x \in S,
           NEW A, x \notin A
    PROVE  FirstIn(Unlinked(seq, x), A) = FirstIn(seq, A)
<1> DEFINE k == Place(seq, x)
           out == Unlinked(seq, x)
<1>1. /\ k \in 1..Len(seq) /\ seq[k] = x
      /\ out \in Seq(S) /\ Len(out) = Len(seq) - 1
      /\ \A i \in 1..Len(out) : out[i] = IF i < k THEN seq[i] ELSE seq[i + 1]
  BY UnlinkedPlaces
<1>2. Len(seq) \in Nat /\ seq \in Seq(S)
  BY DEF IsList
<1>3. IsList(out, S \ {x})
  BY UnlinkedIsList
<1>4. CASE FirstIn(seq, A) = NoSurface
  <2>1. S \cap A = {}
    BY <1>4, FirstFound
  <2>2. (S \ {x}) \cap A = {} /\ NoSurface \notin S \ {x}
    BY <2>1
  <2>3. FirstIn(out, A) = NoSurface
    BY <1>3, <2>2, FirstFound
  <2> QED
    BY <1>4, <2>3
<1>5. CASE FirstIn(seq, A) # NoSurface
  <2>1. PICK i : FirstAt(seq, A, i) /\ FirstIn(seq, A) = seq[i]
    BY <1>5, FirstFound
  <2> HIDE DEF k, out
  <2>2. i \in 1..Len(seq) /\ i # k /\ \A j \in 1..i - 1 : seq[j] \notin A
    BY <1>1, <2>1 DEF FirstAt
  <2>3. CASE i < k
    <3>1. i \in 1..Len(out) /\ out[i] = seq[i] /\ \A j \in 1..i - 1 : out[j] = seq[j]
      BY <1>1, <1>2, <2>2, <2>3
    <3>2. FirstAt(out, A, i)
      BY <2>1, <2>2, <3>1 DEF FirstAt
    <3> QED
      BY <1>1, <2>1, <3>1, <3>2, FirstInIs DEF out
  <2>4. CASE i > k
    <3>1. i - 1 \in 1..Len(out) /\ ~(i - 1 < k) /\ (i - 1) + 1 = i
      BY <1>1, <1>2, <2>2, <2>4
    <3>2. out[i - 1] = seq[i]
      BY <1>1, <3>1
    <3>3. ASSUME NEW j \in 1..(i - 1) - 1 PROVE out[j] \notin A
      <4>1. j \in 1..Len(out) /\ j \in 1..i - 1 /\ j + 1 \in 1..i - 1
        BY <1>1, <1>2, <2>2
      <4> QED
        BY <1>1, <2>2, <4>1
    <3>4. FirstAt(out, A, i - 1)
      BY <2>1, <3>1, <3>2, <3>3 DEF FirstAt
    <3>5. FirstIn(out, A) = out[i - 1]
      BY <1>1, <3>4, FirstInIs
    <3> QED
      BY <2>1, <3>2, <3>5 DEF out
  <2> QED
    BY <1>1, <1>2, <2>2, <2>3, <2>4
<1> QED
  BY <1>4, <1>5

-----------------------------------------------------------------------------
(* What TypeOK says of a list. *)
LEMMA ListSize ==
    ASSUME NEW S, NEW seq, IsList(seq, S)
    PROVE  /\ ToSet(seq) = S /\ Len(seq) = Cardinality(S)
           /\ seq = <<>> <=> S = {}
<1>1. seq \in Seq(S) /\ Len(seq) \in Nat /\ DOMAIN seq = 1..Len(seq)
  BY DEF IsList
<1>2. seq \in Bijection(1..Len(seq), S)
  BY <1>1 DEF IsList, Bijection, Injection, Surjection, IsInjective
<1>3. IsFiniteSet(1..Len(seq)) /\ Cardinality(1..Len(seq)) = Len(seq)
  BY <1>1, FS_Interval
<1>4. Cardinality(S) = Len(seq)
  BY <1>2, <1>3, FS_Bijection DEF ExistsBijection
<1>5. ToSet(seq) = S
  BY <1>1 DEF ToSet, IsList
<1>6. seq = <<>> <=> S = {}
  <2>1. ASSUME S = {} PROVE seq = <<>>
    <3>1. Len(seq) = 0
      BY <1>1, <2>1
    <3> QED
      BY <1>1, <3>1
  <2>2. ASSUME seq = <<>> PROVE S = {}
    BY <2>2 DEF IsList
  <2> QED
    BY <2>1, <2>2
<1> QED
  BY <1>4, <1>5, <1>6

-----------------------------------------------------------------------------
(* The invariant, of a state st that a handler has reached. *)
State == [life : [Surfaces -> Stages],
          mapped : [Surfaces -> BOOLEAN], has_grab : [Surfaces -> BOOLEAN],
          above : [Surfaces -> SUBSET Surfaces],
          toplevels : Seq(Toplevels), popup_stack : Seq(Popups),
          pointer : Surfaces \cup {NoSurface}, keyboard : Surfaces \cup {NoSurface},
          held : SUBSET Buttons, deferred : BOOLEAN, target : Surfaces \cup {NoSurface},
          last : SUBSET Buttons, over : SUBSET Surfaces, running : BOOLEAN]

(* Between new_toplevel or new_popup and the destroy handler. *)
Linked == WithRole \cup {"norole"}
LinkedIn(st, set) == {x \in set : st.life[x] \in Linked}

Lists(st) == /\ IsList(st.toplevels, LinkedIn(st, Toplevels))
             /\ IsList(st.popup_stack, LinkedIn(st, Popups))

(* What a surface with a role lies above, and that lies above, has a role, and
   one of them is a toplevel. *)
Rooted(st) ==
    /\ \A t \in Toplevels : st.above[t] = {}
    /\ \A x \in Surfaces : st.life[x] \in WithRole =>
          /\ x \notin st.above[x]
          /\ \A y \in st.above[x] : /\ st.life[y] \in WithRole
                                    /\ st.above[y] \subseteq st.above[x]
          /\ x \in Popups => \E t \in Toplevels : t \in st.above[x]

(* tl->mapped and pd->mapped outlive what they say, but not the struct. *)
MappedInv(st) ==
    /\ \A x \in Surfaces : /\ st.life[x] = "visible" => st.mapped[x]
                           /\ st.mapped[x] => st.life[x] \in Linked
    /\ st.keyboard \in Toplevels => st.mapped[st.keyboard]

Sound(st) == st \in State /\ Lists(st) /\ Rooted(st) /\ MappedInv(st)

(* With no popup the keyboard is at the front toplevel, or still at one that is
   about to be destroyed. *)
KeysInv(st) ==
    st.popup_stack = <<>> /\ FrontToplevel(st) # NoSurface =>
        \/ st.keyboard = FrontToplevel(st)
        \/ st.keyboard \in Toplevels /\ st.life[st.keyboard] = "norole"

FocusInv == Sound(s) /\ KeysInv(s)

-----------------------------------------------------------------------------
(* The surface in front, where there is one. *)
LEMMA RootLinked ==
    ASSUME NEW st, Sound(st), NEW x \in Surfaces, st.life[x] = "visible"
    PROVE  /\ Root(st, x) \in LinkedIn(st, Toplevels)
           /\ x \in Toplevels => Root(st, x) = x
<1>1. \E t \in Toplevels : t \in {x} \cup st.above[x]
  BY DEF Sound, Rooted, Surfaces, WithRole
<1>2. Root(st, x) \in Toplevels /\ Root(st, x) \in {x} \cup st.above[x]
  BY <1>1 DEF Root
<1>3. st.life[Root(st, x)] \in WithRole
  BY <1>2 DEF Sound, Rooted, WithRole
<1>4. x \in Toplevels => Root(st, x) = x
  BY <1>2 DEF Sound, Rooted
<1> QED
  BY <1>2, <1>3, <1>4 DEF LinkedIn, Linked

(* wlr_scene_node_at has an answer: of the popups above the foremost window hit
   the one nearest to the top of the stack, or else that window itself. *)
LEMMA FrontExists ==
    ASSUME NEW st, Sound(st), NEW hit \in SUBSET {x \in Surfaces : st.life[x] = "visible"},
           hit # {}
    PROVE  \E x \in hit : \A y \in hit : InFront(st, x, y)
<1> DEFINE at(x) == Place(st.toplevels, Root(st, x))
           up(x) == Place(st.popup_stack, x)
           ats == {at(x) : x \in hit}
<1>1. /\ IsList(st.toplevels, LinkedIn(st, Toplevels))
      /\ st.toplevels \in Seq(Toplevels) /\ Len(st.toplevels) \in Nat
      /\ st.popup_stack \in Seq(Popups) /\ Len(st.popup_stack) \in Nat
  BY DEF Sound, Lists, State
<1>2. ASSUME NEW x \in hit
      PROVE  /\ at(x) \in 0..Len(st.toplevels) /\ up(x) \in 0..Len(st.popup_stack)
             /\ st.toplevels[at(x)] = Root(st, x)
             /\ x \in Toplevels \cup Popups /\ (x \in Toplevels => Root(st, x) = x)
  <2>1. Root(st, x) \in LinkedIn(st, Toplevels) /\ (x \in Toplevels => Root(st, x) = x)
    BY RootLinked
  <2>2. at(x) \in 1..Len(st.toplevels) /\ st.toplevels[at(x)] = Root(st, x)
    BY <1>1, <2>1, PlaceIs
  <2>3. up(x) \in 0..Len(st.popup_stack)
    BY <1>1, PlaceType
  <2> QED
    BY <2>1, <2>2, <2>3 DEF Surfaces
<1> HIDE DEF at, up
<1>3. PICK m \in ats : \A k \in ats : m <= k
  <2>1. ats \in SUBSET (0..Len(st.toplevels)) /\ ats # {}
    BY <1>2
  <2> HIDE DEF ats
  <2> QED
    BY <1>1, <2>1, LeastOf
<1>4. PICK x \in hit : at(x) = m
  BY <1>3
<1>5. ASSUME NEW y \in hit
      PROVE  IF Root(st, y) = Root(st, x) THEN at(y) = at(x) ELSE at(x) < at(y)
  <2>1. at(x) <= at(y) /\ at(x) \in Int /\ at(y) \in Int
    BY <1>2, <1>3, <1>4
  <2>2. at(y) = at(x) <=> Root(st, y) = Root(st, x)
    BY <1>2 DEF at
  <2> QED
    BY <2>1, <2>2
<1> DEFINE popups == {y \in hit : y \in Popups /\ Root(st, y) = Root(st, x)}
           ups == {up(y) : y \in popups}
<1>6. CASE popups = {}
  <2>1. x \in Toplevels
    BY <1>2, <1>6
  <2>2. \A y \in hit : Root(st, y) = Root(st, x) => y \in Toplevels
    BY <1>2, <1>6
  <2>3. ASSUME NEW y \in hit PROVE InFront(st, x, y)
    <3>1. CASE Root(st, y) # Root(st, x)
      <4>1. at(x) < at(y)
        BY <1>5, <3>1
      <4> QED
        BY <4>1 DEF InFront, at
    <3>2. CASE Root(st, y) = Root(st, x)
      BY <2>2, <3>2 DEF InFront
    <3> QED
      BY <3>1, <3>2
  <2> QED
    BY <2>3
<1>7. CASE popups # {}
  <2>1. ups \in SUBSET (0..Len(st.popup_stack)) /\ ups # {}
    BY <1>2, <1>7
  <2>2. PICK k \in ups : \A l \in ups : k <= l
    <3> HIDE DEF ups
    <3> QED
      BY <1>1, <2>1, LeastOf
  <2>3. PICK p \in popups : up(p) = k
    BY <2>2
  <2>4. \A y \in popups : up(p) <= up(y)
    BY <2>2, <2>3
  <2>5. p \in hit /\ p \in Popups /\ Root(st, p) = Root(st, x)
    BY <2>3
  <2>6. ASSUME NEW y \in hit PROVE InFront(st, p, y)
    <3>1. CASE Root(st, y) # Root(st, x)
      <4>1. at(p) = at(x) /\ at(x) < at(y)
        BY <1>5, <2>5, <3>1
      <4> QED
        BY <4>1 DEF InFront, at
    <3>2. CASE Root(st, y) = Root(st, x)
      <4>1. y \in Toplevels \/ y \in popups
        BY <1>2, <3>2
      <4>2. y \in Toplevels \/ up(p) <= up(y)
        BY <2>4, <4>1
      <4> QED
        BY <2>5, <3>2, <4>2 DEF InFront, up
    <3> QED
      BY <3>1, <3>2
  <2> QED
    BY <2>5, <2>6
<1> QED
  BY <1>6, <1>7

(* focus_surface_at_cursor: a surface on the screen under the cursor, or the
   first mapped toplevel, or none. *)
Hit(st) == {x \in st.over : st.life[x] = "visible"}

LEMMA SurfaceFound ==
    ASSUME NEW st, Sound(st)
    PROVE  /\ Hit(st) # {} => SurfaceAtCursor(st) \in Hit(st)
           /\ Hit(st) = {} => SurfaceAtCursor(st) = FirstIn(st.toplevels, Mapped(st))
           /\ SurfaceAtCursor(st) \in Mapped(st) \cup {NoSurface}
<1>1. CASE Hit(st) # {}
  <2>1. Hit(st) \in SUBSET {x \in Surfaces : st.life[x] = "visible"}
    BY DEF Sound, State, Hit
  <2>2. \E x \in Hit(st) : \A y \in Hit(st) : InFront(st, x, y)
    BY <1>1, <2>1, FrontExists
  <2>3. SurfaceAtCursor(st) \in Hit(st)
    BY <1>1, <2>2 DEF SurfaceAtCursor, Hit
  <2> QED
    BY <1>1, <2>1, <2>3 DEF Sound, MappedInv, Mapped
<1>2. CASE Hit(st) = {}
  <2>1. SurfaceAtCursor(st) = FirstIn(st.toplevels, Mapped(st))
    BY <1>2 DEF SurfaceAtCursor, Hit
  <2>2. IsList(st.toplevels, LinkedIn(st, Toplevels)) /\ NoSurface \notin LinkedIn(st, Toplevels)
    BY SurfacesAssumption DEF Sound, Lists, LinkedIn, Surfaces
  <2>3. FirstIn(st.toplevels, Mapped(st)) \in Mapped(st) \cup {NoSurface}
    BY <2>2, FirstFound
  <2> QED
    BY <1>2, <2>1, <2>3
<1> QED
  BY <1>1, <1>2

-----------------------------------------------------------------------------
(* What most of the C functions leave alone. *)
Same(st, out) ==
    /\ out.life = st.life /\ out.mapped = st.mapped /\ out.above = st.above
    /\ out.toplevels = st.toplevels /\ out.popup_stack = st.popup_stack

LEMMA SoundSame ==
    ASSUME NEW st, Sound(st), NEW out \in State, Same(st, out),
           out.keyboard \in Mapped(st) \cup {st.keyboard, NoSurface}
    PROVE  Sound(out)
<1>1. Lists(out) /\ Rooted(out)
  BY DEF Sound, Lists, LinkedIn, Rooted, Same
<1>2. MappedInv(out)
  BY SurfacesAssumption DEF Sound, MappedInv, Mapped, Same, Surfaces
<1> QED
  BY <1>1, <1>2 DEF Sound

LEMMA KeysSame ==
    ASSUME NEW st, KeysInv(st), NEW out, Same(st, out), out.keyboard = st.keyboard
    PROVE  KeysInv(out)
BY DEF KeysInv, FrontToplevel, Mapped, Same

(* Only the pointer and its deferral may differ. *)
Pointed(st, out) ==
    /\ out \in State /\ Same(st, out)
    /\ out.has_grab = st.has_grab /\ out.keyboard = st.keyboard
    /\ out.held = st.held /\ out.last = st.last /\ out.over = st.over
    /\ out.running = st.running

LEMMA PointedSelf == ASSUME NEW st \in State PROVE Pointed(st, st)
BY DEF Pointed, Same

LEMMA PointedThen ==
    ASSUME NEW st, NEW mid, NEW out, Pointed(st, mid), Pointed(mid, out)
    PROVE  Pointed(st, out)
BY DEF Pointed, Same

LEMMA PointedSound ==
    ASSUME NEW st, Sound(st), NEW out, Pointed(st, out)
    PROVE  Sound(out) /\ (KeysInv(st) => KeysInv(out))
BY SoundSame, KeysSame DEF Pointed

MaybeSurface == Surfaces \cup {NoSurface}

LEMMA PointerSetPointed ==
    ASSUME NEW st \in State, NEW x \in MaybeSurface, NEW forced
    PROVE  Pointed(st, PointerSet(st, x, forced))
BY DEF Pointed, Same, PointerSet, State, MaybeSurface

LEMMA PointerRecheckPointed ==
    ASSUME NEW st, Sound(st) PROVE Pointed(st, PointerRecheck(st))
<1> DEFINE none == [st EXCEPT !.deferred = FALSE, !.target = NoSurface]
<1>1. st \in State
  BY DEF Sound
<1>2. Pointed(st, none)
  BY <1>1 DEF Pointed, Same, State
<1>3. SurfaceAtCursor(st) \in MaybeSurface
  BY SurfaceFound DEF Mapped, MaybeSurface
<1>4. Pointed(none, PointerSet(none, SurfaceAtCursor(st), FALSE))
  BY <1>2, <1>3, PointerSetPointed DEF Pointed
<1> HIDE DEF none
<1>5. Pointed(st, PointerSet(none, SurfaceAtCursor(st), FALSE))
  BY <1>2, <1>4, PointedThen
<1> QED
  BY <1>1, <1>5, PointedSelf DEF PointerRecheck, none

LEMMA FallbackFound ==
    ASSUME NEW st \in State, NEW x
    PROVE  /\ FallbackSurface(st, x) \in (Mapped(st) \ {x}) \cup {NoSurface}
           /\ st.popup_stack = <<>> =>
                FallbackSurface(st, x) = FirstIn(st.toplevels, Mapped(st) \ {x})
<1> DEFINE seq == st.popup_stack \o st.toplevels
           A == Mapped(st) \ {x}
<1>1. st.popup_stack \in Seq(Surfaces) /\ st.toplevels \in Seq(Surfaces)
  BY DEF State, Surfaces
<1>2. seq \in Seq(Surfaces)
  BY <1>1
<1> HIDE DEF seq
<1>3. FirstIn(seq, A) \in A \cup {NoSurface}
  <2>1. CASE \A i \in 1..Len(seq) : seq[i] \notin A
    BY <1>2, <2>1, NoneIsFirst
  <2>2. CASE \E i \in 1..Len(seq) : seq[i] \in A
    <3>1. PICK i : FirstAt(seq, A, i)
      BY <1>2, <2>2, FirstExists
    <3>2. FirstIn(seq, A) = seq[i]
      BY <1>2, <3>1, FirstInIs
    <3> QED
      BY <3>1, <3>2 DEF FirstAt
  <2> QED
    BY <2>1, <2>2
<1>4. st.popup_stack = <<>> => seq = st.toplevels
  BY <1>1 DEF seq
<1> QED
  BY <1>3, <1>4 DEF FallbackSurface, seq

(* Toplevels are listed, popups are not, and nothing is called NoSurface. *)
LEMMA TopList ==
    ASSUME NEW st, Sound(st)
    PROVE  /\ IsList(st.toplevels, LinkedIn(st, Toplevels))
           /\ IsList(st.popup_stack, LinkedIn(st, Popups))
           /\ NoSurface \notin LinkedIn(st, Toplevels)
           /\ \A t \in Toplevels : st.mapped[t] => t \in LinkedIn(st, Toplevels)
BY SurfacesAssumption DEF Sound, Lists, MappedInv, LinkedIn, Surfaces

(* The toplevels FrontToplevel looks for. *)
Fronts(st) == {t \in Mapped(st) : st.life[t] # "norole"}

LEMMA KeysAtFront ==
    ASSUME NEW st, Sound(st), st.keyboard = FirstIn(st.toplevels, Mapped(st))
    PROVE  KeysInv(st)
<1> DEFINE first == FirstIn(st.toplevels, Mapped(st))
<1>1. /\ IsList(st.toplevels, LinkedIn(st, Toplevels))
      /\ NoSurface \notin LinkedIn(st, Toplevels)
  BY TopList
<1>2. FrontToplevel(st) = FirstIn(st.toplevels, Fronts(st)) /\ Fronts(st) \subseteq Mapped(st)
  BY DEF FrontToplevel, Fronts
<1>3. first \in (LinkedIn(st, Toplevels) \cap Mapped(st)) \cup {NoSurface}
  BY <1>1, FirstFound
<1>4. CASE first \in Fronts(st) \cup {NoSurface}
  BY <1>1, <1>2, <1>4, FirstOfSubset DEF KeysInv
<1>5. CASE first \notin Fronts(st) \cup {NoSurface}
  BY <1>3, <1>5 DEF KeysInv, Fronts, LinkedIn
<1> QED
  BY <1>4, <1>5

-----------------------------------------------------------------------------
(* focus_toplevel raises a window and gives it the keyboard. *)
LEMMA RaisedSound ==
    ASSUME NEW st, Sound(st), NEW t \in Toplevels, st.mapped[t], st.life[t] \in WithRole,
           NEW out, out = KeyboardSet([st EXCEPT !.toplevels = Raise(st, t)], t)
    PROVE  Sound(out) /\ KeysInv(out)
<1>1. t \in LinkedIn(st, Toplevels)
  BY TopList
<1>2. /\ IsList(st.toplevels, LinkedIn(st, Toplevels))
      /\ NoSurface \notin LinkedIn(st, Toplevels)
  BY TopList
<1>3. IsList(Unlinked(st.toplevels, t), LinkedIn(st, Toplevels) \ {t})
  BY <1>1, <1>2, UnlinkedIsList
<1>4. IsList(<<t>> \o Unlinked(st.toplevels, t), LinkedIn(st, Toplevels))
  <2>1. (LinkedIn(st, Toplevels) \ {t}) \cup {t} = LinkedIn(st, Toplevels)
    BY <1>1
  <2>2. t \notin LinkedIn(st, Toplevels) \ {t}
    OBVIOUS
  <2>3. IsList(<<t>> \o Unlinked(st.toplevels, t), (LinkedIn(st, Toplevels) \ {t}) \cup {t})
    BY <1>3, <2>2, LinkedIsList
  <2> QED
    BY <2>1, <2>3
<1>5. FirstIn(<<t>> \o Unlinked(st.toplevels, t), Mapped(st)) = t
  <2>1. t \in Mapped(st)
    BY DEF Mapped, Surfaces
  <2>2. Unlinked(st.toplevels, t) \in Seq(LinkedIn(st, Toplevels) \ {t})
    BY <1>3 DEF IsList
  <2> QED
    BY <2>1, <2>2, FirstLinked
<1>6. LinkedIn(st, Toplevels) \subseteq Toplevels
  BY DEF LinkedIn
<1>7. <<t>> \o Unlinked(st.toplevels, t) \in Seq(Toplevels)
  BY <1>4, <1>6 DEF IsList
<1>8. /\ out \in State
      /\ out.toplevels = <<t>> \o Unlinked(st.toplevels, t)
      /\ out.keyboard = t /\ out.life = st.life /\ out.mapped = st.mapped
      /\ out.above = st.above /\ out.popup_stack = st.popup_stack
  <2> DEFINE seq == <<t>> \o Unlinked(st.toplevels, t)
  <2>1. seq \in Seq(Toplevels) /\ t \in Surfaces
    BY <1>7 DEF Surfaces
  <2>2. out = [[st EXCEPT !.toplevels = seq] EXCEPT !.keyboard = t]
    BY DEF KeyboardSet, Raise
  <2> HIDE DEF seq
  <2> QED
    BY <2>1, <2>2 DEF Sound, State, seq
<1>9. Lists(out)
  BY <1>4, <1>8 DEF Sound, Lists, LinkedIn
<1>10. Rooted(out) /\ MappedInv(out)
  BY <1>8 DEF Sound, Rooted, MappedInv
<1>11. Sound(out)
  BY <1>8, <1>9, <1>10 DEF Sound
<1>12. out.keyboard = FirstIn(out.toplevels, Mapped(out))
  BY <1>5, <1>8 DEF Mapped
<1> QED
  BY <1>11, <1>12, KeysAtFront

LEMMA FocusToplevelSound ==
    ASSUME NEW st, Sound(st), NEW t \in Toplevels, st.mapped[t],
           KeysInv(st) \/ (st.life[t] \in WithRole /\ st.keyboard # t)
    PROVE  Sound(FocusToplevel(st, t)) /\ KeysInv(FocusToplevel(st, t))
BY RaisedSound DEF FocusToplevel

(* Popups that lose their role with the surface they lie above, and a surface
   that is unmapped or loses its role. *)
LEMMA LeavesSound ==
    ASSUME NEW st, Sound(st), NEW x \in Surfaces, st.life[x] \in WithRole,
           NEW stage \in {"created", "norole"}
    PROVE  Sound(Leaves(st, x, stage)) /\ (KeysInv(st) => KeysInv(Leaves(st, x, stage)))
<1> DEFINE out == Leaves(st, x, stage)
           after(y) == IF y = x THEN stage
                       ELSE IF x \in st.above[y] /\ st.life[y] \in WithRole THEN "norole"
                       ELSE st.life[y]
<1>1. st \in State
  BY DEF Sound
<1>2. /\ out \in State /\ out.life = [y \in Surfaces |-> after(y)]
      /\ out.mapped = st.mapped /\ out.above = st.above
      /\ out.toplevels = st.toplevels /\ out.popup_stack = st.popup_stack
      /\ out.keyboard = st.keyboard
  <2>1. [y \in Surfaces |-> after(y)] \in [Surfaces -> Stages]
    BY <1>1 DEF State, Stages, WithRole
  <2>2. out = [st EXCEPT !.life = [y \in Surfaces |-> after(y)]]
    BY DEF Leaves
  <2> HIDE DEF after, out
  <2> QED
    BY <1>1, <2>1, <2>2 DEF State
<1>3. \A y \in Surfaces : /\ out.life[y] = after(y)
                          /\ out.life[y] \in Linked <=> st.life[y] \in Linked
                          /\ out.life[y] \in WithRole =>
                                st.life[y] \in WithRole /\ (y = x \/ x \notin st.above[y])
                          /\ out.life[y] = "visible" => st.life[y] = "visible"
  BY <1>2 DEF Linked, WithRole
<1> HIDE DEF out
<1>4. Lists(out)
  <2>1. LinkedIn(out, Toplevels) = LinkedIn(st, Toplevels)
    BY <1>3 DEF LinkedIn, Surfaces
  <2>2. LinkedIn(out, Popups) = LinkedIn(st, Popups)
    BY <1>3 DEF LinkedIn, Surfaces
  <2> QED
    BY <1>2, <2>1, <2>2 DEF Sound, Lists
<1>5. Rooted(out)
  <2>1. ASSUME NEW z \in Surfaces, out.life[z] \in WithRole, NEW y \in st.above[z]
        PROVE  out.life[y] \in WithRole
    <3>1. st.life[z] \in WithRole /\ (z = x \/ x \notin st.above[z])
      BY <1>3, <2>1
    <3>2. y \in Surfaces /\ st.life[y] \in WithRole /\ st.above[y] \subseteq st.above[z]
      BY <1>1, <2>1, <3>1 DEF Sound, Rooted, State
    <3>3. x \notin st.above[z]
      BY <3>1 DEF Sound, Rooted
    <3>4. y # x /\ x \notin st.above[y]
      BY <2>1, <3>2, <3>3
    <3> QED
      BY <1>3, <3>2, <3>4
  <2> QED
    BY <1>2, <1>3, <2>1 DEF Sound, Rooted
<1>6. MappedInv(out)
  BY <1>2, <1>3 DEF Sound, MappedInv
<1>7. ASSUME KeysInv(st), out.popup_stack = <<>>, FrontToplevel(out) # NoSurface
      PROVE  \/ out.keyboard = FrontToplevel(out)
             \/ out.keyboard \in Toplevels /\ out.life[out.keyboard] = "norole"
  <2>1. LinkedIn(st, Popups) = {}
    BY <1>2, <1>7, ListSize, TopList
  <2>2. x \in Toplevels
    BY <2>1 DEF LinkedIn, Linked, Surfaces
  <2>3. \A y \in Toplevels : out.life[y] = IF y = x THEN stage ELSE st.life[y]
    BY <1>3, <2>2 DEF Sound, Rooted, Surfaces
  <2> DEFINE list == LinkedIn(st, Toplevels)
  <2>4. IsList(st.toplevels, list) /\ NoSurface \notin list /\ list \subseteq Toplevels
    BY TopList DEF LinkedIn
  <2>5. /\ FrontToplevel(st) = FirstIn(st.toplevels, Fronts(st))
        /\ FrontToplevel(out) = FirstIn(st.toplevels, Fronts(out))
    BY <1>2 DEF FrontToplevel, Fronts
  <2>6. CASE stage = "created"
    <3>1. list \cap Fronts(out) = list \cap Fronts(st)
      BY <1>2, <2>3, <2>4, <2>6 DEF Fronts, Mapped, WithRole
    <3>2. FrontToplevel(out) = FrontToplevel(st)
      BY <2>4, <2>5, <3>1, FirstSame
    <3> QED
      BY <1>2, <1>7, <2>3, <3>2 DEF KeysInv, WithRole
  <2>7. CASE stage = "norole"
    <3>1. list \cap Fronts(out) = (list \cap Fronts(st)) \ {x}
      BY <1>2, <2>3, <2>4, <2>7 DEF Fronts, Mapped
    <3>2. FrontToplevel(st) # NoSurface
      BY <1>7, <2>4, <2>5, <3>1, FirstFound
    <3>3. FrontToplevel(st) \in list \cap Fronts(st)
      BY <2>4, <2>5, <3>2, FirstFound
    <3>4. CASE st.keyboard # FrontToplevel(st)
      BY <1>2, <1>7, <2>3, <2>7, <3>2, <3>4 DEF KeysInv
    <3>5. CASE st.keyboard = FrontToplevel(st) /\ st.keyboard = x
      BY <1>2, <2>2, <2>3, <2>7, <3>5
    <3>6. CASE st.keyboard = FrontToplevel(st) /\ st.keyboard # x
      <4>1. FirstIn(st.toplevels, Fronts(st) \ {x}) = FrontToplevel(st)
        BY <2>4, <2>5, <3>3, <3>6, FirstOfSubset
      <4>2. list \cap (Fronts(st) \ {x}) = list \cap Fronts(out)
        BY <3>1
      <4>3. FrontToplevel(out) = FrontToplevel(st)
        BY <2>4, <2>5, <4>1, <4>2, FirstSame
      <4> QED
        BY <1>2, <3>6, <4>3
    <3> QED
      BY <3>4, <3>5, <3>6
  <2> QED
    BY <2>6, <2>7
<1>8. KeysInv(st) => KeysInv(out)
  BY <1>7 DEF KeysInv
<1> QED
  BY <1>2, <1>4, <1>5, <1>6, <1>8 DEF Sound, out

LEMMA DismissAllSound ==
    ASSUME NEW st, Sound(st)
    PROVE  Sound(DismissAll(st)) /\ (KeysInv(st) => KeysInv(DismissAll(st)))
<1> DEFINE out == DismissAll(st)
           after(y) == IF Contains(st.popup_stack, y) /\ st.life[y] \in WithRole
                       THEN "norole" ELSE st.life[y]
<1>1. st \in State
  BY DEF Sound
<1>2. /\ out \in State /\ out.life = [y \in Surfaces |-> after(y)]
      /\ out.mapped = st.mapped /\ out.above = st.above
      /\ out.toplevels = st.toplevels /\ out.popup_stack = st.popup_stack
      /\ out.keyboard = st.keyboard
  <2>1. [y \in Surfaces |-> after(y)] \in [Surfaces -> Stages]
    BY <1>1 DEF State, Stages, WithRole
  <2>2. out = [st EXCEPT !.life = [y \in Surfaces |-> after(y)]]
    BY DEF DismissAll
  <2> HIDE DEF after, out
  <2> QED
    BY <1>1, <2>1, <2>2 DEF State
<1>3. \A y \in Toplevels : ~Contains(st.popup_stack, y)
  BY <1>1, SurfacesAssumption DEF State, Contains
<1>4. \A y \in Popups : st.life[y] \in WithRole => Contains(st.popup_stack, y)
  BY DEF Sound, Lists, IsList, LinkedIn, Linked, Contains
<1> HIDE DEF out
<1>5. \A y \in Surfaces : /\ out.life[y] \in Linked <=> st.life[y] \in Linked
                          /\ out.life[y] = "visible" => st.life[y] = "visible"
                          /\ y \in Toplevels => out.life[y] = st.life[y]
                          /\ y \in Popups => out.life[y] \notin WithRole
  BY <1>2, <1>3, <1>4 DEF Linked, WithRole
<1>6. Lists(out)
  <2>1. LinkedIn(out, Toplevels) = LinkedIn(st, Toplevels)
    BY <1>5 DEF LinkedIn, Surfaces
  <2>2. LinkedIn(out, Popups) = LinkedIn(st, Popups)
    BY <1>5 DEF LinkedIn, Surfaces
  <2> QED
    BY <1>2, <2>1, <2>2 DEF Sound, Lists
<1>7. Rooted(out)
  BY <1>2, <1>5 DEF Sound, Rooted, Surfaces
<1>8. MappedInv(out)
  BY <1>2, <1>5 DEF Sound, MappedInv
<1>9. ASSUME KeysInv(st), out.popup_stack = <<>> PROVE KeysInv(out)
  <2>1. \A y \in Surfaces : ~Contains(st.popup_stack, y)
    BY <1>2, <1>9 DEF Contains
  <2>2. out.life = st.life
    BY <1>1, <1>2, <2>1 DEF State
  <2> QED
    BY <1>2, <1>9, <2>2, KeysSame DEF Same
<1>10. KeysInv(st) => KeysInv(out)
  BY <1>9 DEF KeysInv
<1> QED
  BY <1>2, <1>6, <1>7, <1>8, <1>10 DEF Sound, out

-----------------------------------------------------------------------------
(* The handlers. *)
LEMMA NewToplevelKeeps ==
    ASSUME FocusInv, NEW t \in Toplevels, NewToplevel(t) PROVE FocusInv'
<1>1. s \in State /\ t \in Surfaces
  BY DEF FocusInv, Sound, Surfaces
<1>2. /\ s' \in State /\ s.life[t] = "none"
      /\ s'.life = [s.life EXCEPT ![t] = "created"] /\ s'.toplevels = <<t>> \o s.toplevels
      /\ s'.mapped = s.mapped /\ s'.above = s.above /\ s'.popup_stack = s.popup_stack
      /\ s'.keyboard = s.keyboard
  <2> DEFINE life == [s.life EXCEPT ![t] = "created"]
             seq == <<t>> \o s.toplevels
  <2>1. life \in [Surfaces -> Stages] /\ seq \in Seq(Toplevels)
    BY <1>1 DEF State, Stages
  <2>2. s' = [s EXCEPT !.life = life, !.toplevels = seq]
    BY <1>1 DEF NewToplevel, State
  <2>3. s.life[t] = "none"
    BY DEF NewToplevel
  <2> HIDE DEF life, seq
  <2> QED
    BY <1>1, <2>1, <2>2, <2>3 DEF State, life, seq
<1>3. \A x \in Surfaces : s'.life[x] = IF x = t THEN "created" ELSE s.life[x]
  BY <1>1, <1>2 DEF State
<1>4. ~s.mapped[t] /\ s.keyboard # t
  BY <1>1, <1>2 DEF FocusInv, Sound, MappedInv, Linked, WithRole
<1>5. Lists(s')
  <2>1. LinkedIn(s', Toplevels) = LinkedIn(s, Toplevels) \cup {t} /\ t \notin LinkedIn(s, Toplevels)
    BY <1>2, <1>3 DEF LinkedIn, Linked, WithRole, Surfaces
  <2>2. LinkedIn(s', Popups) = LinkedIn(s, Popups)
    BY <1>3, SurfacesAssumption DEF LinkedIn, Surfaces
  <2>3. IsList(s'.toplevels, LinkedIn(s', Toplevels))
    BY <1>2, <2>1, LinkedIsList DEF FocusInv, Sound, Lists
  <2> QED
    BY <1>2, <2>2, <2>3 DEF FocusInv, Sound, Lists
<1>6. Rooted(s')
  <2>1. s.above[t] = {} /\ \A x \in Surfaces : s.above[x] \subseteq Surfaces
    BY <1>1 DEF FocusInv, Sound, Rooted, State
  <2>2. \A x \in Surfaces : s.life[x] \in WithRole => t \notin s.above[x]
    BY <1>2 DEF FocusInv, Sound, Rooted, WithRole
  <2> QED
    BY <1>2, <1>3, <2>1, <2>2, SurfacesAssumption DEF FocusInv, Sound, Rooted
<1>7. MappedInv(s')
  BY <1>2, <1>3, <1>4 DEF FocusInv, Sound, MappedInv, Linked, WithRole
<1>8. KeysInv(s')
  <2> DEFINE list == LinkedIn(s, Toplevels)
  <2>1. IsList(s.toplevels, list) /\ NoSurface \notin list /\ list \subseteq Surfaces
    BY TopList DEF FocusInv, LinkedIn, Surfaces
  <2>2. Fronts(s') = Fronts(s) /\ t \notin Fronts(s)
    BY <1>2, <1>3, <1>4 DEF Fronts, Mapped
  <2>3. FirstIn(s'.toplevels, Fronts(s')) = FirstIn(s.toplevels, Fronts(s))
    BY <1>2, <2>1, <2>2, FirstPassed
  <2>4. FrontToplevel(s') = FrontToplevel(s)
    BY <2>3 DEF FrontToplevel, Fronts
  <2> QED
    BY <1>2, <1>3, <1>4, <2>4 DEF FocusInv, KeysInv, Surfaces
<1> QED
  BY <1>2, <1>5, <1>6, <1>7, <1>8 DEF FocusInv, Sound

LEMMA NewPopupKeeps ==
    ASSUME FocusInv, NEW p \in Popups, NEW parent \in Surfaces, NewPopup(p, parent)
    PROVE  FocusInv'
<1>1. s \in State /\ p \in Surfaces
  BY DEF FocusInv, Sound, Surfaces
<1>2. /\ s' \in State /\ s.life[p] = "none" /\ s.life[parent] \in WithRole
      /\ s'.life = [s.life EXCEPT ![p] = "created"]
      /\ s'.popup_stack = <<p>> \o s.popup_stack
      /\ s'.above = [s.above EXCEPT ![p] = {parent} \cup s.above[parent]]
      /\ s'.mapped = s.mapped /\ s'.toplevels = s.toplevels /\ s'.keyboard = s.keyboard
  <2> DEFINE life == [s.life EXCEPT ![p] = "created"]
             grab == [s.has_grab EXCEPT ![p] = p \in Grabbing]
             above == [s.above EXCEPT ![p] = {parent} \cup s.above[parent]]
             seq == <<p>> \o s.popup_stack
  <2>1. /\ life \in [Surfaces -> Stages] /\ seq \in Seq(Popups)
        /\ above \in [Surfaces -> SUBSET Surfaces]
    BY <1>1 DEF State, Stages
  <2>2. grab \in [Surfaces -> BOOLEAN]
    BY <1>1 DEF State
  <2>3. s' = [s EXCEPT !.life = life, !.has_grab = grab, !.above = above, !.popup_stack = seq]
    BY <1>1 DEF NewPopup, State
  <2>4. s.life[p] = "none" /\ s.life[parent] \in WithRole
    BY DEF NewPopup, HasRole
  <2> HIDE DEF life, grab, above, seq
  <2> QED
    BY <1>1, <2>1, <2>2, <2>3, <2>4 DEF State, life, above, seq
<1>3. \A x \in Surfaces : /\ s'.life[x] = IF x = p THEN "created" ELSE s.life[x]
                          /\ s'.above[x] = IF x = p THEN {parent} \cup s.above[parent]
                                           ELSE s.above[x]
  BY <1>1, <1>2 DEF State
<1>4. p \notin Toplevels /\ p # parent
  BY <1>2, SurfacesAssumption DEF WithRole
<1>5. Lists(s')
  <2>1. LinkedIn(s', Popups) = LinkedIn(s, Popups) \cup {p} /\ p \notin LinkedIn(s, Popups)
    BY <1>2, <1>3 DEF LinkedIn, Linked, WithRole, Surfaces
  <2>2. LinkedIn(s', Toplevels) = LinkedIn(s, Toplevels)
    BY <1>3, <1>4 DEF LinkedIn, Surfaces
  <2>3. IsList(s'.popup_stack, LinkedIn(s', Popups))
    BY <1>2, <2>1, LinkedIsList DEF FocusInv, Sound, Lists
  <2> QED
    BY <1>2, <2>2, <2>3 DEF FocusInv, Sound, Lists
<1>6. Rooted(s')
  <2>1. \A t \in Toplevels : s'.above[t] = {}
    BY <1>3, <1>4 DEF FocusInv, Sound, Rooted, Surfaces
  <2>2. \A x \in Surfaces : s.life[x] \in WithRole => p \notin s.above[x] /\ x # p
    BY <1>2 DEF FocusInv, Sound, Rooted, WithRole
  <2>3. ASSUME NEW x \in Surfaces, x # p, s'.life[x] \in WithRole
        PROVE  /\ x \notin s'.above[x]
               /\ \A y \in s'.above[x] : /\ s'.life[y] \in WithRole
                                         /\ s'.above[y] \subseteq s'.above[x]
               /\ x \in Popups => \E t \in Toplevels : t \in s'.above[x]
    <3>1. s.life[x] \in WithRole /\ s'.above[x] = s.above[x] /\ s.above[x] \subseteq Surfaces
      BY <1>1, <1>3, <2>3 DEF State
    <3>2. \A y \in s.above[x] : s'.life[y] = s.life[y] /\ s'.above[y] = s.above[y]
      BY <1>3, <2>2, <3>1
    <3> QED
      BY <3>1, <3>2 DEF FocusInv, Sound, Rooted
  <2>4. /\ p \notin s'.above[p]
        /\ \A y \in s'.above[p] : /\ s'.life[y] \in WithRole
                                  /\ s'.above[y] \subseteq s'.above[p]
        /\ \E t \in Toplevels : t \in s'.above[p]
    <3>1. s'.above[p] = {parent} \cup s.above[parent] /\ s.above[parent] \subseteq Surfaces
      BY <1>1, <1>3 DEF State
    <3>2. \A y \in s'.above[p] : /\ y # p /\ s'.life[y] = s.life[y] /\ s'.above[y] = s.above[y]
                                 /\ s.life[y] \in WithRole /\ s.above[y] \subseteq s.above[parent]
      BY <1>2, <1>3, <1>4, <2>2, <3>1 DEF FocusInv, Sound, Rooted
    <3>3. \E t \in Toplevels : t \in s'.above[p]
      BY <1>2, <3>1 DEF FocusInv, Sound, Rooted, Surfaces
    <3> QED
      BY <3>1, <3>2, <3>3
  <2> QED
    BY <2>1, <2>3, <2>4 DEF Rooted
<1>7. MappedInv(s')
  BY <1>2, <1>3 DEF FocusInv, Sound, MappedInv, Linked, WithRole
<1>8. s'.popup_stack # <<>>
  <2>1. s.popup_stack \in Seq(Popups)
    BY <1>1 DEF State
  <2> QED
    BY <1>2, <2>1
<1> QED
  BY <1>2, <1>5, <1>6, <1>7, <1>8 DEF FocusInv, Sound, KeysInv

(* A surface is on the screen, and its struct's mapped flag is set. *)
LEMMA ShownSound ==
    ASSUME FocusInv, NEW x \in Surfaces, HasRole(x),
           NEW st, st = [s EXCEPT !.life[x] = "visible", !.mapped[x] = TRUE]
    PROVE  /\ Sound(st) /\ st.keyboard = s.keyboard /\ st.popup_stack = s.popup_stack
           /\ st.life[x] = "visible" /\ st.mapped[x] /\ st.has_grab = s.has_grab
           /\ x \in Popups \/ s.mapped[x] => KeysInv(st)
<1>1. s \in State
  BY DEF FocusInv, Sound
<1>2. /\ st \in State
      /\ st.life = [s.life EXCEPT ![x] = "visible"]
      /\ st.mapped = [s.mapped EXCEPT ![x] = TRUE]
      /\ st.toplevels = s.toplevels /\ st.popup_stack = s.popup_stack /\ st.above = s.above
      /\ st.keyboard = s.keyboard /\ st.has_grab = s.has_grab
  <2> DEFINE life == [s.life EXCEPT ![x] = "visible"]
             mapped == [s.mapped EXCEPT ![x] = TRUE]
  <2>1. life \in [Surfaces -> Stages]
    BY <1>1 DEF State, Stages
  <2>2. mapped \in [Surfaces -> BOOLEAN]
    BY <1>1 DEF State
  <2>3. st = [s EXCEPT !.life = life, !.mapped = mapped]
    BY <1>1 DEF State
  <2> HIDE DEF life, mapped
  <2> QED
    BY <1>1, <2>1, <2>2, <2>3 DEF State, life, mapped
<1>3. \A y \in Surfaces : /\ st.life[y] = IF y = x THEN "visible" ELSE s.life[y]
                          /\ st.life[y] \in Linked <=> s.life[y] \in Linked
                          /\ st.life[y] \in WithRole <=> s.life[y] \in WithRole
  BY <1>1, <1>2 DEF State, HasRole, Linked, WithRole
<1>4. \A y \in Surfaces : st.mapped[y] <=> (y = x \/ s.mapped[y])
  BY <1>1, <1>2 DEF State
<1>5. Lists(st)
  <2>1. LinkedIn(st, Toplevels) = LinkedIn(s, Toplevels)
    BY <1>3 DEF LinkedIn, Surfaces
  <2>2. LinkedIn(st, Popups) = LinkedIn(s, Popups)
    BY <1>3 DEF LinkedIn, Surfaces
  <2> QED
    BY <1>2, <2>1, <2>2 DEF FocusInv, Sound, Lists
<1>6. Rooted(st)
  BY <1>1, <1>2, <1>3 DEF FocusInv, Sound, Rooted, State
<1>7. MappedInv(st)
  <2>1. st.life[x] \in Linked
    BY <1>3 DEF Linked, WithRole
  <2>2. \A y \in Surfaces : /\ st.life[y] = "visible" => st.mapped[y]
                            /\ st.mapped[y] => st.life[y] \in Linked
    BY <1>3, <1>4, <2>1 DEF FocusInv, Sound, MappedInv
  <2>3. st.keyboard \in Toplevels => st.mapped[st.keyboard]
    BY <1>2, <1>4 DEF FocusInv, Sound, MappedInv, Surfaces
  <2> QED
    BY <2>2, <2>3 DEF MappedInv
<1>8. ASSUME x \in Popups \/ s.mapped[x] PROVE KeysInv(st)
  <2> DEFINE list == LinkedIn(s, Toplevels)
  <2>1. IsList(s.toplevels, list) /\ NoSurface \notin list /\ list \subseteq Toplevels
    BY TopList DEF FocusInv, LinkedIn
  <2>2. \A y \in Toplevels : /\ st.mapped[y] <=> s.mapped[y]
                             /\ st.life[y] = "norole" <=> s.life[y] = "norole"
    BY <1>3, <1>4, <1>8, SurfacesAssumption DEF Surfaces, HasRole, WithRole
  <2>3. list \cap Fronts(st) = list \cap Fronts(s)
    BY <2>1, <2>2 DEF Fronts, Mapped
  <2>4. FrontToplevel(st) = FrontToplevel(s)
    BY <1>2, <2>1, <2>3, FirstSame DEF FrontToplevel, Fronts
  <2> QED
    BY <1>2, <2>2, <2>4 DEF FocusInv, KeysInv
<1> QED
  BY <1>2, <1>3, <1>4, <1>5, <1>6, <1>7, <1>8 DEF Sound

LEMMA ToplevelCommitKeeps ==
    ASSUME FocusInv, NEW t \in Toplevels, ToplevelCommit(t) PROVE FocusInv'
<1> DEFINE st == [s EXCEPT !.life[t] = "visible", !.mapped[t] = TRUE]
           f  == FocusToplevel(st, t)
           on == IF s.mapped[t] THEN st ELSE OnSurfaceMap(st, t)
<1>1. /\ Sound(st) /\ st.keyboard = s.keyboard /\ st.life[t] = "visible" /\ st.mapped[t]
      /\ s.mapped[t] => KeysInv(st)
  BY ShownSound DEF ToplevelCommit, Surfaces
<1>2. s' = PointerRecheck(on)
  BY DEF ToplevelCommit
<1>3. ~s.mapped[t] => st.keyboard # t
  BY <1>1 DEF FocusInv, Sound, MappedInv
<1> HIDE DEF st
<1>4. ASSUME ~s.mapped[t] PROVE Sound(OnSurfaceMap(st, t)) /\ KeysInv(OnSurfaceMap(st, t))
  <2>1. Sound(f) /\ KeysInv(f)
    BY <1>1, <1>3, <1>4, FocusToplevelSound DEF WithRole
  <2>2. f \in State /\ t \in MaybeSurface
    BY <2>1 DEF Sound, MaybeSurface, Surfaces
  <2>3. Pointed(f, PointerSet(f, t, FALSE))
    BY <2>2, PointerSetPointed
  <2>4. Sound(PointerSet(f, t, FALSE)) /\ KeysInv(PointerSet(f, t, FALSE))
    BY <2>1, <2>3, PointedSound
  <2> QED
    BY <2>1, <2>4 DEF OnSurfaceMap
<1>5. Sound(on) /\ KeysInv(on)
  BY <1>1, <1>4
<1> HIDE DEF on
<1> QED
  BY <1>2, <1>5, PointerRecheckPointed, PointedSound DEF FocusInv

(* A popup with a grab takes the keyboard; with a popup open the keys need not
   go to the front window. *)
LEMMA PopupCommitKeeps ==
    ASSUME FocusInv, NEW p \in Popups, PopupCommit(p) PROVE FocusInv'
<1> DEFINE st == [s EXCEPT !.life[p] = "visible", !.mapped[p] = TRUE]
           k  == KeyboardSet(st, p)
           on == IF st.has_grab[p] THEN k ELSE st
<1>1. /\ Sound(st) /\ KeysInv(st) /\ st.mapped[p]
      /\ st.life[p] = "visible"
  BY ShownSound DEF PopupCommit, Surfaces
<1> HIDE DEF st
<1>2. s' = st \/ s' = PointerRecheck(on)
  BY DEF PopupCommit, PopupMapped, st
<1>3. Sound(k) /\ KeysInv(k)
  <2>1. k \in State /\ Same(st, k) /\ k.keyboard = p
    BY <1>1 DEF KeyboardSet, Sound, State, Same, Surfaces
  <2>2. p \in Mapped(st)
    BY <1>1 DEF Mapped, Surfaces
  <2>3. Sound(k)
    BY <1>1, <2>1, <2>2, SoundSame
  <2>4. p \in LinkedIn(st, Popups) /\ IsList(st.popup_stack, LinkedIn(st, Popups))
    BY <1>1, TopList DEF LinkedIn, Linked, WithRole
  <2>5. k.popup_stack # <<>>
    BY <2>1, <2>4, ListSize DEF Same
  <2> QED
    BY <2>3, <2>5 DEF KeysInv
<1>4. Sound(on) /\ KeysInv(on)
  BY <1>1, <1>3
<1> HIDE DEF on
<1> QED
  BY <1>1, <1>2, <1>4, PointerRecheckPointed, PointedSound DEF FocusInv

-----------------------------------------------------------------------------
LEMMA LeaveKeeps ==
    ASSUME FocusInv, NEW x \in Surfaces, UnmapCommit(x) \/ RoleDestroyed(x)
    PROVE  FocusInv'
<1>1. \E stage \in {"created", "norole"} : s' = Leaves(s, x, stage)
  BY DEF UnmapCommit, RoleDestroyed
<1>2. s.life[x] \in WithRole
  BY DEF UnmapCommit, RoleDestroyed, HasRole, WithRole
<1> QED
  BY <1>1, <1>2, LeavesSound DEF FocusInv

LEMMA KeyKeeps ==
    ASSUME FocusInv, NEW escape, NEW pressed, HandleKey(escape, pressed) PROVE FocusInv'
<1>1. CASE s' = s
  BY <1>1 DEF FocusInv
<1>2. CASE /\ s.popup_stack # <<>> /\ s.life[s.popup_stack[1]] \in WithRole
           /\ s' = Leaves(s, s.popup_stack[1], "norole")
  <2>1. s.popup_stack[1] \in Surfaces
    <3>1. s.popup_stack \in Seq(Popups)
      BY DEF FocusInv, Sound, State
    <3>2. s.popup_stack[1] \in Popups
      BY <1>2, <3>1
    <3> QED
      BY <3>2 DEF Surfaces
  <2> QED
    BY <1>2, <2>1, LeavesSound DEF FocusInv
<1> QED
  BY <1>1, <1>2 DEF HandleKey, DismissTopmostGrabbed

LEMMA SurfaceDestroyedKeeps ==
    ASSUME FocusInv, NEW x \in Surfaces, SurfaceDestroyed(x) PROVE FocusInv'
<1>1. s \in State
  BY DEF FocusInv, Sound
<1>2. /\ s' \in State /\ s.life[x] = "noxdg"
      /\ s'.life = [s.life EXCEPT ![x] = "none"]
      /\ s'.mapped = s.mapped /\ s'.above = s.above
      /\ s'.toplevels = s.toplevels /\ s'.popup_stack = s.popup_stack
      /\ s'.keyboard = IF s.keyboard = x THEN NoSurface ELSE s.keyboard
  <2> DEFINE life == [s.life EXCEPT ![x] = "none"]
             pointer == IF s.pointer = x THEN NoSurface ELSE s.pointer
             keyboard == IF s.keyboard = x THEN NoSurface ELSE s.keyboard
  <2>1. /\ life \in [Surfaces -> Stages]
        /\ pointer \in Surfaces \cup {NoSurface} /\ keyboard \in Surfaces \cup {NoSurface}
    BY <1>1 DEF State, Stages
  <2>2. s' = [s EXCEPT !.life = life, !.pointer = pointer, !.keyboard = keyboard]
    BY <1>1 DEF SurfaceDestroyed, State
  <2>3. s.life[x] = "noxdg"
    BY DEF SurfaceDestroyed
  <2> HIDE DEF life, pointer, keyboard
  <2> QED
    BY <1>1, <2>1, <2>2, <2>3 DEF State, life, keyboard
<1>3. \A y \in Surfaces : s'.life[y] = IF y = x THEN "none" ELSE s.life[y]
  BY <1>1, <1>2 DEF State
<1>4. /\ ~s.mapped[x]
      /\ \A y \in Surfaces : s.life[y] \in WithRole => x \notin s.above[y]
  BY <1>2 DEF FocusInv, Sound, MappedInv, Rooted, Linked, WithRole
<1>5. Lists(s')
  <2>1. LinkedIn(s', Toplevels) = LinkedIn(s, Toplevels)
    BY <1>2, <1>3 DEF LinkedIn, Linked, WithRole, Surfaces
  <2>2. LinkedIn(s', Popups) = LinkedIn(s, Popups)
    BY <1>2, <1>3 DEF LinkedIn, Linked, WithRole, Surfaces
  <2> QED
    BY <1>2, <2>1, <2>2 DEF FocusInv, Sound, Lists
<1>6. Rooted(s')
  <2>1. \A y \in Surfaces : s.above[y] \subseteq Surfaces
    BY <1>1 DEF State
  <2>2. \A y \in Surfaces : s'.life[y] \in WithRole => s.life[y] \in WithRole
    BY <1>3 DEF WithRole
  <2> QED
    BY <1>2, <1>3, <1>4, <2>1, <2>2 DEF FocusInv, Sound, Rooted
<1>7. MappedInv(s')
  <2>1. \A y \in Surfaces : /\ s'.life[y] = "visible" => s'.mapped[y]
                            /\ s'.mapped[y] => s'.life[y] \in Linked
    BY <1>2, <1>3, <1>4 DEF FocusInv, Sound, MappedInv
  <2>2. s'.keyboard \in Toplevels => s'.mapped[s'.keyboard]
    BY <1>2, SurfacesAssumption DEF FocusInv, Sound, MappedInv, Surfaces
  <2> QED
    BY <2>1, <2>2 DEF MappedInv
<1>8. KeysInv(s')
  <2>1. Fronts(s') = Fronts(s)
    BY <1>2, <1>3, <1>4 DEF Fronts, Mapped
  <2>2. FrontToplevel(s') = FrontToplevel(s) /\ FrontToplevel(s) = FirstIn(s.toplevels, Fronts(s))
    BY <1>2, <2>1 DEF FrontToplevel, Fronts
  <2> SUFFICES ASSUME s.popup_stack = <<>>, FrontToplevel(s) # NoSurface
               PROVE  \/ s'.keyboard = FrontToplevel(s)
                      \/ s'.keyboard \in Toplevels /\ s'.life[s'.keyboard] = "norole"
    BY <1>2, <2>2 DEF KeysInv
  <2>3. CASE s.keyboard = FrontToplevel(s)
    <3>1. FrontToplevel(s) \in Fronts(s)
      BY <2>2, TopList, FirstFound DEF FocusInv
    <3>2. s.keyboard # x
      BY <1>4, <2>3, <3>1 DEF Fronts, Mapped
    <3> QED
      BY <1>2, <2>3, <3>2
  <2>4. CASE s.keyboard \in Toplevels /\ s.life[s.keyboard] = "norole"
    BY <1>2, <1>3, <2>4 DEF Surfaces
  <2> QED
    BY <2>3, <2>4 DEF FocusInv, KeysInv
<1> QED
  BY <1>2, <1>5, <1>6, <1>7, <1>8 DEF FocusInv, Sound

(* The surface that goes hands pointer and keyboard on. *)
LEMMA SurfaceDestroyGives ==
    ASSUME NEW st, Sound(st), NEW x \in Surfaces,
           NEW out, out = OnSurfaceDestroy(st, x)
    PROVE  /\ out \in State /\ Same(st, out) /\ out.has_grab = st.has_grab
           /\ out.keyboard = IF st.keyboard = x THEN FallbackSurface(st, x) ELSE st.keyboard
<1> DEFINE to == FallbackSurface(st, x)
           f == PointerLeaves(st, x)
           k == OnSurfaceUnmap(st, x)
<1>1. st \in State /\ to \in MaybeSurface
  BY FallbackFound DEF Sound, Mapped, MaybeSurface
<1>2. Pointed(st, f)
  <2>1. Pointed(st, PointerSet(st, to, to = NoSurface))
    BY <1>1, PointerSetPointed
  <2> QED
    BY <1>1, <2>1, PointedSelf DEF PointerLeaves
<1> HIDE DEF f, to
<1>3. k = IF st.keyboard = x THEN [f EXCEPT !.keyboard = to] ELSE f
  BY DEF OnSurfaceUnmap, KeyboardSet, f, to
<1>4. /\ k \in State /\ Same(st, k) /\ k.has_grab = st.has_grab
      /\ k.keyboard = IF st.keyboard = x THEN to ELSE st.keyboard
  BY <1>1, <1>2, <1>3 DEF Pointed, Same, State, MaybeSurface
<1>5. out = IF k.target = x THEN [k EXCEPT !.deferred = FALSE, !.target = NoSurface] ELSE k
  BY DEF OnSurfaceDestroy
<1> HIDE DEF k
<1>6. /\ out \in State /\ Same(st, out) /\ out.has_grab = st.has_grab
      /\ out.keyboard = k.keyboard
  BY <1>4, <1>5 DEF Same, State
<1> QED
  BY <1>4, <1>6 DEF to

LEMMA ToplevelDestroyKeeps ==
    ASSUME FocusInv, NEW t \in Toplevels, ToplevelDestroy(t) PROVE FocusInv'
<1> DEFINE st == OnSurfaceDestroy(s, t)
<1>1. /\ s \in State /\ t \in Surfaces /\ s.life[t] = "norole" /\ s.above[t] = {}
      /\ t \in LinkedIn(s, Toplevels)
  BY DEF FocusInv, Sound, Surfaces, ToplevelDestroy, Rooted, LinkedIn, Linked
<1>2. /\ st \in State /\ Same(s, st) /\ st.has_grab = s.has_grab
      /\ st.keyboard = IF s.keyboard = t THEN FallbackSurface(s, t) ELSE s.keyboard
  BY <1>1, SurfaceDestroyGives DEF FocusInv
<1>3. /\ IsList(s.toplevels, LinkedIn(s, Toplevels))
      /\ NoSurface \notin LinkedIn(s, Toplevels)
  BY TopList DEF FocusInv
<1>4. IsList(Unlinked(s.toplevels, t), LinkedIn(s, Toplevels) \ {t})
  BY <1>1, <1>3, UnlinkedIsList
<1>5. /\ s' \in State
      /\ s'.life = [s.life EXCEPT ![t] = "noxdg"] /\ s'.mapped = [s.mapped EXCEPT ![t] = FALSE]
      /\ s'.above = [s.above EXCEPT ![t] = {}]
      /\ s'.toplevels = Unlinked(s.toplevels, t) /\ s'.popup_stack = s.popup_stack
      /\ s'.keyboard = st.keyboard
  <2> DEFINE life == [s.life EXCEPT ![t] = "noxdg"]
             mapped == [s.mapped EXCEPT ![t] = FALSE]
             grab == [s.has_grab EXCEPT ![t] = FALSE]
             above == [s.above EXCEPT ![t] = {}]
             seq == Unlinked(s.toplevels, t)
             more == seq # <<>>
  <2>1. /\ life \in [Surfaces -> Stages] /\ above \in [Surfaces -> SUBSET Surfaces]
    BY <1>1 DEF State, Stages
  <2>2. mapped \in [Surfaces -> BOOLEAN] /\ grab \in [Surfaces -> BOOLEAN] /\ more \in BOOLEAN
    BY <1>1 DEF State
  <2>3. seq \in Seq(Toplevels)
    BY <1>4 DEF IsList, LinkedIn
  <2>4. /\ st.life = s.life /\ st.mapped = s.mapped /\ st.has_grab = s.has_grab
        /\ st.above = s.above /\ st.toplevels = s.toplevels /\ st.popup_stack = s.popup_stack
    BY <1>2 DEF Same
  <2>5. s' = [Freed(st, t) EXCEPT !.life[t] = "noxdg",
                                  !.toplevels = Unlist(st, t),
                                  !.running = Unlist(st, t) # <<>>]
    BY DEF ToplevelDestroy
  <2> HIDE DEF st
  <2>6. s' = [st EXCEPT !.mapped = mapped, !.has_grab = grab, !.above = above, !.life = life,
                        !.toplevels = seq, !.running = more]
    BY <1>2, <2>4, <2>5 DEF State, Freed, Unlist
  <2> HIDE DEF life, mapped, grab, above, seq, more
  <2> QED
    BY <1>2, <2>1, <2>2, <2>3, <2>4, <2>6 DEF State, life, mapped, above, seq
<1> HIDE DEF st
<1>6. \A x \in Surfaces : /\ s'.life[x] = IF x = t THEN "noxdg" ELSE s.life[x]
                          /\ s'.mapped[x] <=> s.mapped[x] /\ x # t
                          /\ s'.above[x] = s.above[x]
  BY <1>1, <1>5 DEF State
<1>7. Lists(s')
  <2>1. LinkedIn(s', Toplevels) = LinkedIn(s, Toplevels) \ {t}
    BY <1>6 DEF LinkedIn, Linked, WithRole, Surfaces
  <2>2. LinkedIn(s', Popups) = LinkedIn(s, Popups)
    BY <1>6, SurfacesAssumption DEF LinkedIn, Surfaces
  <2> QED
    BY <1>4, <1>5, <2>1, <2>2 DEF FocusInv, Sound, Lists
<1>8. Rooted(s')
  <2>1. \A x \in Surfaces : s.above[x] \subseteq Surfaces
    BY <1>1 DEF State
  <2>2. \A x \in Surfaces : s'.life[x] \in WithRole => s.life[x] \in WithRole
    BY <1>6 DEF WithRole
  <2>3. \A x \in Surfaces : s.life[x] \in WithRole => t \notin s.above[x]
    BY <1>1 DEF FocusInv, Sound, Rooted, WithRole
  <2>4. \A u \in Toplevels : s'.above[u] = {}
    BY <1>6 DEF FocusInv, Sound, Rooted, Surfaces
  <2>5. ASSUME NEW x \in Surfaces, s'.life[x] \in WithRole
        PROVE  /\ x \notin s'.above[x]
               /\ \A y \in s'.above[x] : /\ s'.life[y] \in WithRole
                                         /\ s'.above[y] \subseteq s'.above[x]
               /\ x \in Popups => \E u \in Toplevels : u \in s'.above[x]
    <3>1. s.life[x] \in WithRole /\ s'.above[x] = s.above[x] /\ t \notin s.above[x]
      BY <1>6, <2>2, <2>3, <2>5
    <3>2. \A y \in s.above[x] : s'.life[y] = s.life[y] /\ s'.above[y] = s.above[y]
      BY <1>6, <2>1, <3>1
    <3> QED
      BY <3>1, <3>2 DEF FocusInv, Sound, Rooted
  <2> QED
    BY <2>4, <2>5 DEF Rooted
<1>9. FallbackSurface(s, t) \in (Mapped(s) \ {t}) \cup {NoSurface}
  BY <1>1, FallbackFound
<1>10. MappedInv(s')
  <2>1. \A x \in Surfaces : /\ s'.life[x] = "visible" => s'.mapped[x]
                            /\ s'.mapped[x] => s'.life[x] \in Linked
    BY <1>6 DEF FocusInv, Sound, MappedInv
  <2>2. s'.keyboard \in Toplevels => s'.mapped[s'.keyboard]
    BY <1>2, <1>5, <1>6, <1>9, SurfacesAssumption
       DEF FocusInv, Sound, MappedInv, Mapped, Surfaces
  <2> QED
    BY <2>1, <2>2 DEF MappedInv
<1>11. Sound(s')
  BY <1>5, <1>7, <1>8, <1>10 DEF Sound
<1>12. KeysInv(s')
  <2> SUFFICES ASSUME s.popup_stack = <<>> PROVE KeysInv(s')
    BY <1>5 DEF KeysInv
  <2>1. CASE s.keyboard = t
    <3>1. FallbackSurface(s, t) = FirstIn(s.toplevels, Mapped(s) \ {t})
      BY <1>1, FallbackFound
    <3>2. FirstIn(Unlinked(s.toplevels, t), Mapped(s) \ {t}) = FirstIn(s.toplevels, Mapped(s) \ {t})
      BY <1>1, <1>3, FirstUnlinked
    <3>3. Mapped(s') = Mapped(s) \ {t}
      BY <1>6 DEF Mapped
    <3>4. s'.keyboard = FirstIn(s'.toplevels, Mapped(s'))
      BY <1>2, <1>5, <2>1, <3>1, <3>2, <3>3
    <3> QED
      BY <1>11, <3>4, KeysAtFront
  <2>2. CASE s.keyboard # t
    <3>1. Fronts(s') = Fronts(s) /\ t \notin Fronts(s)
      BY <1>1, <1>6 DEF Fronts, Mapped
    <3>2. FirstIn(Unlinked(s.toplevels, t), Fronts(s)) = FirstIn(s.toplevels, Fronts(s))
      BY <1>1, <1>3, <3>1, FirstUnlinked
    <3>3. FrontToplevel(s') = FrontToplevel(s)
      BY <1>5, <3>1, <3>2 DEF FrontToplevel, Fronts
    <3> QED
      BY <1>2, <1>5, <1>6, <2>2, <3>3 DEF FocusInv, KeysInv, Surfaces
  <2> QED
    BY <2>1, <2>2
<1> QED
  BY <1>11, <1>12 DEF FocusInv

-----------------------------------------------------------------------------
(* What focus_popup_unregister makes of s for a popup that is about to be freed. *)
Unregistered(out, p) ==
    /\ out \in State /\ out.life = [s.life EXCEPT ![p] = "noxdg"]
    /\ out.mapped = s.mapped /\ out.has_grab = s.has_grab /\ out.above = s.above
    /\ out.toplevels = s.toplevels /\ out.popup_stack = Unlinked(s.popup_stack, p)
    /\ \E target \in (Mapped(s) \ {p}) \cup {NoSurface},
          front \in Mapped(s) \cup {NoSurface} :
          /\ out.popup_stack = <<>> => /\ target = FirstIn(s.toplevels, Mapped(s) \ {p})
                                      /\ front = FirstIn(s.toplevels, Fronts(s))
          /\ out.keyboard =
                IF s.has_grab[p] THEN IF target = NoSurface THEN s.keyboard ELSE target
                ELSE IF out.popup_stack = <<>> /\ front # NoSurface THEN front
                ELSE s.keyboard

LEMMA UnregisterGives ==
    ASSUME FocusInv, NEW p \in Popups, s.life[p] = "norole",
           NEW out, out = PopupUnregister([s EXCEPT !.life[p] = "noxdg"], p)
    PROVE  Unregistered(out, p)
<1> DEFINE st == [s EXCEPT !.life[p] = "noxdg"]
<1> DEFINE unlinked == [st EXCEPT !.popup_stack = Unlinked(@, p)]
           none   == PointerSet(unlinked, NoSurface, TRUE)
           target == FallbackSurface(none, p)
           moved  == IF target = NoSurface THEN none ELSE PointerSet(none, target, FALSE)
           front  == FrontToplevel(unlinked)
<1>1. s \in State /\ p \in Surfaces /\ p \in LinkedIn(s, Popups)
  BY DEF FocusInv, Sound, Surfaces, LinkedIn, Linked
<1>2. /\ st \in State /\ st.life = [s.life EXCEPT ![p] = "noxdg"]
      /\ st.mapped = s.mapped /\ st.has_grab = s.has_grab /\ st.above = s.above
      /\ st.toplevels = s.toplevels /\ st.popup_stack = s.popup_stack
      /\ st.keyboard = s.keyboard
  <2> DEFINE life == [s.life EXCEPT ![p] = "noxdg"]
  <2>1. life \in [Surfaces -> Stages] /\ st = [s EXCEPT !.life = life]
    BY <1>1 DEF State, Stages
  <2> HIDE DEF life
  <2> QED
    BY <1>1, <2>1 DEF State, life
<1>3. Unlinked(s.popup_stack, p) \in Seq(Popups)
  <2>1. IsList(Unlinked(s.popup_stack, p), LinkedIn(s, Popups) \ {p})
    BY <1>1, UnlinkedIsList, TopList DEF FocusInv
  <2> QED
    BY <2>1 DEF IsList, LinkedIn
<1>4. /\ unlinked \in State /\ unlinked.life = st.life /\ unlinked.mapped = s.mapped
      /\ unlinked.has_grab = s.has_grab /\ unlinked.above = s.above
      /\ unlinked.toplevels = s.toplevels
      /\ unlinked.popup_stack = Unlinked(s.popup_stack, p) /\ unlinked.keyboard = s.keyboard
  <2> DEFINE seq == Unlinked(s.popup_stack, p)
  <2>1. unlinked = [st EXCEPT !.popup_stack = seq]
    BY <1>2 DEF State
  <2> HIDE DEF seq, unlinked
  <2> QED
    BY <1>2, <1>3, <2>1 DEF State, seq
<1> HIDE DEF unlinked
<1>5. Pointed(unlinked, none)
  BY <1>4, PointerSetPointed DEF MaybeSurface
<1> HIDE DEF none
<1>6. /\ target \in (Mapped(s) \ {p}) \cup {NoSurface}
      /\ none.popup_stack = <<>> => target = FirstIn(s.toplevels, Mapped(s) \ {p})
  <2>1. none \in State /\ Mapped(none) = Mapped(s) /\ none.toplevels = s.toplevels
    BY <1>4, <1>5 DEF Pointed, Same, Mapped
  <2> QED
    BY <2>1, FallbackFound
<1>7. front \in Mapped(s) \cup {NoSurface} /\ front = FirstIn(s.toplevels, Fronts(s))
  <2> DEFINE list == LinkedIn(s, Toplevels)
  <2>1. IsList(s.toplevels, list) /\ NoSurface \notin list /\ list \subseteq Toplevels
    BY TopList DEF FocusInv, LinkedIn
  <2>2. front = FirstIn(s.toplevels, Fronts(unlinked))
    BY <1>4 DEF FrontToplevel, Fronts
  <2>3. \A t \in list : unlinked.life[t] = s.life[t]
    BY <1>1, <1>2, <1>4, <2>1, SurfacesAssumption DEF State, Surfaces
  <2>4. list \cap Fronts(unlinked) = list \cap Fronts(s)
    BY <1>4, <2>3 DEF Fronts, Mapped
  <2>5. front = FirstIn(s.toplevels, Fronts(s))
    BY <2>1, <2>2, <2>4, FirstSame
  <2>6. FirstIn(s.toplevels, Fronts(s)) \in Fronts(s) \cup {NoSurface}
    BY <2>1, FirstFound
  <2> QED
    BY <2>5, <2>6 DEF Fronts
<1> HIDE DEF target, front
<1>8. Pointed(unlinked, moved)
  <2>1. target \in MaybeSurface /\ none \in State
    BY <1>5, <1>6 DEF MaybeSurface, Mapped, Pointed
  <2>2. Pointed(none, PointerSet(none, target, FALSE))
    BY <2>1, PointerSetPointed
  <2> QED
    BY <1>5, <2>2, PointedThen
<1> HIDE DEF moved
<1>9. out = IF s.has_grab[p] THEN IF target = NoSurface THEN moved
                                 ELSE KeyboardSet(moved, target)
            ELSE IF unlinked.popup_stack = <<>> /\ front # NoSurface
                 THEN KeyboardSet(moved, front) ELSE moved
  BY <1>2 DEF PopupUnregister, unlinked, none, target, moved, front
<1> DEFINE keys == IF s.has_grab[p]
                   THEN IF target = NoSurface THEN s.keyboard ELSE target
                   ELSE IF unlinked.popup_stack = <<>> /\ front # NoSurface THEN front
                   ELSE s.keyboard
<1>10. moved \in State /\ Same(unlinked, moved) /\ moved.has_grab = s.has_grab
       /\ moved.keyboard = s.keyboard
  BY <1>4, <1>8 DEF Pointed
<1>11. target \in MaybeSurface /\ front \in MaybeSurface
  BY <1>6, <1>7 DEF MaybeSurface, Mapped
<1>12. /\ out \in State /\ Same(unlinked, out) /\ out.has_grab = s.has_grab
       /\ out.keyboard = keys
  <2>1. ASSUME NEW x \in MaybeSurface
        PROVE  LET k == KeyboardSet(moved, x)
               IN  /\ k \in State /\ Same(unlinked, k) /\ k.has_grab = s.has_grab
                   /\ k.keyboard = x
    BY <1>10 DEF KeyboardSet, State, Same, MaybeSurface
  <2>2. \/ out = moved /\ keys = s.keyboard
        \/ keys \in MaybeSurface /\ out = KeyboardSet(moved, keys)
    BY <1>9, <1>11
  <2> HIDE DEF keys
  <2> QED
    BY <1>10, <2>1, <2>2
<1>13. none.popup_stack = out.popup_stack /\ unlinked.popup_stack = out.popup_stack
  BY <1>5, <1>12 DEF Pointed, Same
<1> HIDE DEF keys
<1>14. /\ out.life = [s.life EXCEPT ![p] = "noxdg"] /\ out.mapped = s.mapped
       /\ out.above = s.above /\ out.toplevels = s.toplevels
       /\ out.popup_stack = Unlinked(s.popup_stack, p)
  BY <1>2, <1>4, <1>12 DEF Same
<1>15. out.keyboard = IF s.has_grab[p] THEN IF target = NoSurface THEN s.keyboard ELSE target
                      ELSE IF out.popup_stack = <<>> /\ front # NoSurface THEN front
                      ELSE s.keyboard
  BY <1>12, <1>13 DEF keys
<1>16. out.popup_stack = <<>> => /\ target = FirstIn(s.toplevels, Mapped(s) \ {p})
                                 /\ front = FirstIn(s.toplevels, Fronts(s))
  BY <1>6, <1>7, <1>13
<1>17. out \in State /\ out.has_grab = s.has_grab
  BY <1>12
<1>18. target \in (Mapped(s) \ {p}) \cup {NoSurface} /\ front \in Mapped(s) \cup {NoSurface}
  BY <1>6, <1>7
<1> HIDE DEF st
<1> QED
  BY <1>14, <1>15, <1>16, <1>17, <1>18 DEF Unregistered

LEMMA PopupDestroyKeeps ==
    ASSUME FocusInv, NEW p \in Popups, PopupDestroy(p) PROVE FocusInv'
<1> DEFINE st == [s EXCEPT !.life[p] = "noxdg"]
           out == PopupUnregister(st, p)
<1>1. /\ s \in State /\ p \in Surfaces /\ s.life[p] = "norole" /\ p \notin Toplevels
      /\ p \in LinkedIn(s, Popups)
  BY SurfacesAssumption DEF FocusInv, Sound, Surfaces, PopupDestroy, LinkedIn, Linked
<1>0. Unregistered(out, p)
  <2>1. out = PopupUnregister([s EXCEPT !.life[p] = "noxdg"], p)
    OBVIOUS
  <2> HIDE DEF out
  <2> QED
    BY <1>1, <2>1, UnregisterGives
<1>4. s' = Freed(out, p)
  BY DEF PopupDestroy
<1> HIDE DEF out
<1>2. /\ out \in State /\ out.life = [s.life EXCEPT ![p] = "noxdg"]
      /\ out.mapped = s.mapped /\ out.has_grab = s.has_grab /\ out.above = s.above
      /\ out.toplevels = s.toplevels /\ out.popup_stack = Unlinked(s.popup_stack, p)
  BY <1>0 DEF Unregistered
<1>3. PICK target \in (Mapped(s) \ {p}) \cup {NoSurface},
           front \in Mapped(s) \cup {NoSurface} :
          /\ out.popup_stack = <<>> => /\ target = FirstIn(s.toplevels, Mapped(s) \ {p})
                                      /\ front = FirstIn(s.toplevels, Fronts(s))
          /\ out.keyboard =
                IF s.has_grab[p] THEN IF target = NoSurface THEN s.keyboard ELSE target
                ELSE IF out.popup_stack = <<>> /\ front # NoSurface THEN front
                ELSE s.keyboard
  BY <1>0 DEF Unregistered
<1>5. /\ s' \in State /\ s'.life = out.life
      /\ s'.mapped = [s.mapped EXCEPT ![p] = FALSE] /\ s'.above = [s.above EXCEPT ![p] = {}]
      /\ s'.toplevels = out.toplevels /\ s'.popup_stack = out.popup_stack
      /\ s'.keyboard = out.keyboard
  <2> DEFINE mapped == [s.mapped EXCEPT ![p] = FALSE]
             grab == [s.has_grab EXCEPT ![p] = FALSE]
             above == [s.above EXCEPT ![p] = {}]
  <2>1. above \in [Surfaces -> SUBSET Surfaces]
    BY <1>1 DEF State
  <2>2. mapped \in [Surfaces -> BOOLEAN] /\ grab \in [Surfaces -> BOOLEAN]
    BY <1>1 DEF State
  <2>3. s' = [out EXCEPT !.mapped = mapped, !.has_grab = grab, !.above = above]
    BY <1>2, <1>4 DEF Freed, State
  <2> HIDE DEF mapped, grab, above
  <2> QED
    BY <1>2, <2>1, <2>2, <2>3 DEF State, mapped, above
<1>6. \A x \in Surfaces : /\ s'.life[x] = IF x = p THEN "noxdg" ELSE s.life[x]
                          /\ s'.mapped[x] <=> s.mapped[x] /\ x # p
                          /\ s'.above[x] = IF x = p THEN {} ELSE s.above[x]
  BY <1>1, <1>2, <1>5 DEF State
<1>7. Lists(s')
  <2>1. LinkedIn(s', Popups) = LinkedIn(s, Popups) \ {p}
    BY <1>6 DEF LinkedIn, Linked, WithRole, Surfaces
  <2>2. LinkedIn(s', Toplevels) = LinkedIn(s, Toplevels)
    BY <1>1, <1>6 DEF LinkedIn, Surfaces
  <2>3. IsList(Unlinked(s.popup_stack, p), LinkedIn(s, Popups) \ {p})
    BY <1>1, TopList, UnlinkedIsList DEF FocusInv
  <2> QED
    BY <1>2, <1>5, <2>1, <2>2, <2>3 DEF FocusInv, Sound, Lists
<1>8. Rooted(s')
  <2>1. \A x \in Surfaces : s.above[x] \subseteq Surfaces
    BY <1>1 DEF State
  <2>2. \A x \in Surfaces : s'.life[x] \in WithRole => s.life[x] \in WithRole /\ x # p
    BY <1>6 DEF WithRole
  <2>3. \A x \in Surfaces : s.life[x] \in WithRole => p \notin s.above[x]
    BY <1>1 DEF FocusInv, Sound, Rooted, WithRole
  <2>4. \A u \in Toplevels : s'.above[u] = {}
    BY <1>6 DEF FocusInv, Sound, Rooted, Surfaces
  <2>5. ASSUME NEW x \in Surfaces, s'.life[x] \in WithRole
        PROVE  /\ x \notin s'.above[x]
               /\ \A y \in s'.above[x] : /\ s'.life[y] \in WithRole
                                         /\ s'.above[y] \subseteq s'.above[x]
               /\ x \in Popups => \E u \in Toplevels : u \in s'.above[x]
    <3>1. s.life[x] \in WithRole /\ s'.above[x] = s.above[x] /\ p \notin s.above[x]
      BY <1>6, <2>2, <2>3, <2>5
    <3>2. \A y \in s.above[x] : s'.life[y] = s.life[y] /\ s'.above[y] = s.above[y]
      BY <1>6, <2>1, <3>1
    <3> QED
      BY <3>1, <3>2 DEF FocusInv, Sound, Rooted
  <2> QED
    BY <2>4, <2>5 DEF Rooted
<1>9. MappedInv(s')
  <2>1. \A x \in Surfaces : /\ s'.life[x] = "visible" => s'.mapped[x]
                            /\ s'.mapped[x] => s'.life[x] \in Linked
    BY <1>6 DEF FocusInv, Sound, MappedInv
  <2>2. s'.keyboard \in Toplevels => s.mapped[s'.keyboard]
    BY <1>3, <1>5, SurfacesAssumption DEF FocusInv, Sound, MappedInv, Mapped, Surfaces
  <2>3. s'.keyboard \in Toplevels => s'.mapped[s'.keyboard]
    BY <1>1, <1>6, <2>2 DEF Surfaces
  <2> QED
    BY <2>1, <2>3 DEF MappedInv
<1>10. Sound(s')
  BY <1>5, <1>7, <1>8, <1>9 DEF Sound
<1>11. KeysInv(s')
  <2> DEFINE list == LinkedIn(s, Toplevels)
  <2>1. IsList(s.toplevels, list) /\ NoSurface \notin list /\ list \subseteq Toplevels
    BY TopList DEF FocusInv, LinkedIn
  <2>2. s'.toplevels = s.toplevels /\ Mapped(s') = Mapped(s) \ {p}
    BY <1>2, <1>5, <1>6 DEF Mapped
  <2>3. list \cap Fronts(s') = list \cap Fronts(s)
    BY <1>1, <1>6, <2>1 DEF Fronts, Mapped, Surfaces
  <2>4. FrontToplevel(s') = FirstIn(s.toplevels, Fronts(s))
    <3>1. FrontToplevel(s') = FirstIn(s.toplevels, Fronts(s'))
      BY <2>2 DEF FrontToplevel, Fronts
    <3> QED
      BY <2>1, <2>3, <3>1, FirstSame
  <2> SUFFICES ASSUME s'.popup_stack = <<>>, FrontToplevel(s') # NoSurface
               PROVE  KeysInv(s')
    BY DEF KeysInv
  <2>5. CASE s.has_grab[p]
    <3>1. target = FirstIn(s'.toplevels, Mapped(s'))
      BY <1>3, <1>5, <2>2
    <3>2. target # NoSurface
      <4>1. list \cap Fronts(s) # {}
        BY <2>1, <2>4, FirstFound
      <4>2. list \cap Mapped(s') # {}
        BY <2>3, <4>1 DEF Fronts
      <4> QED
        BY <2>1, <2>2, <3>1, <4>2, FirstFound
    <3>3. s'.keyboard = FirstIn(s'.toplevels, Mapped(s'))
      BY <1>3, <1>5, <2>5, <3>1, <3>2
    <3> QED
      BY <1>10, <3>3, KeysAtFront
  <2>6. CASE ~s.has_grab[p]
    <3>1. s'.keyboard = FrontToplevel(s')
      BY <1>3, <1>5, <2>4, <2>6
    <3> QED
      BY <3>1 DEF KeysInv
  <2> QED
    BY <2>5, <2>6
<1> QED
  BY <1>10, <1>11 DEF FocusInv

-----------------------------------------------------------------------------
(* A sub-surface of a window comes or goes. *)
LEMMA SubsurfaceCommitKeeps ==
    ASSUME FocusInv, NEW t \in Toplevels, SubsurfaceCommit(t) PROVE FocusInv'
<1>1. Pointed(s, s')
  BY PointerRecheckPointed DEF FocusInv, SubsurfaceCommit
<1> QED
  BY <1>1, PointedSound DEF FocusInv

(* The surface under the cursor depends on these fields alone. *)
UnderCursor(over, life, mapped, above, toplevels, popup_stack) ==
    LET root(x) == CHOOSE t \in Toplevels : t \in {x} \cup above[x]
        front(x, y) ==
            \/ Place(toplevels, root(x)) < Place(toplevels, root(y))
            \/ /\ root(x) = root(y)
               /\ y \in Toplevels \/ (x \in Popups /\ Place(popup_stack, x)
                                                       <= Place(popup_stack, y))
        hit == {x \in over : life[x] = "visible"}
    IN  IF hit # {} THEN CHOOSE x \in hit : \A y \in hit : front(x, y)
        ELSE FirstIn(toplevels, {x \in Surfaces : mapped[x]})

LEMMA SurfaceDepends ==
    ASSUME NEW st
    PROVE  SurfaceAtCursor(st) = UnderCursor(st.over, st.life, st.mapped, st.above,
                                             st.toplevels, st.popup_stack)
BY DEF SurfaceAtCursor, UnderCursor, InFront, Root, Mapped

LEMMA SurfaceSame ==
    ASSUME NEW st, NEW out, Same(st, out), out.over = st.over
    PROVE  SurfaceAtCursor(out) = SurfaceAtCursor(st)
BY SurfaceDepends DEF Same

(* Dismissed popups leave the screen, and windows stay where they are. *)
LEMMA DismissAllGives ==
    ASSUME NEW st, Sound(st), NEW out, out = DismissAll(st)
    PROVE  /\ out.over = st.over /\ out.mapped = st.mapped
           /\ out.toplevels = st.toplevels /\ Hit(out) \subseteq Hit(st)
<1>1. st \in State
  BY DEF Sound
<1>2. /\ out.over = st.over /\ out.mapped = st.mapped /\ out.toplevels = st.toplevels
      /\ \A y \in Surfaces : out.life[y] \in {st.life[y], "norole"}
  BY <1>1 DEF DismissAll, State
<1>3. st.over \subseteq Surfaces
  BY <1>1 DEF State
<1> QED
  BY <1>2, <1>3 DEF Hit

(* focus_handle_surface_click, on a surface that has been mapped. *)
LEMMA HandleClickSound ==
    ASSUME NEW st, Sound(st), KeysInv(st), NEW x \in Mapped(st)
    PROVE  Sound(HandleClick(st, x)) /\ KeysInv(HandleClick(st, x))
<1> DEFINE out == DismissAll(st)
           to  == SurfaceAtCursor(out)
<1>1. Sound(out) /\ KeysInv(out)
  BY DismissAllSound
<1>2. Sound(PointerSet(out, to, FALSE)) /\ KeysInv(PointerSet(out, to, FALSE))
  <2>1. to \in MaybeSurface /\ out \in State
    BY <1>1, SurfaceFound DEF Mapped, MaybeSurface, Sound
  <2> HIDE DEF out, to
  <2>2. Pointed(out, PointerSet(out, to, FALSE))
    BY <2>1, PointerSetPointed
  <2> QED
    BY <1>1, <2>2, PointedSound
<1>3. x \in Toplevels => /\ Sound(FocusToplevel(st, x))
                         /\ KeysInv(FocusToplevel(st, x))
  BY FocusToplevelSound DEF Mapped
<1>4. x \in Toplevels \/ x \in Popups
  BY DEF Mapped, Surfaces
<1>5. HandleClick(st, x) \in {st, out, PointerSet(out, to, FALSE)}
        \/ (x \in Toplevels /\ HandleClick(st, x) = FocusToplevel(st, x))
  BY <1>4 DEF HandleClick
<1> HIDE DEF out, to
<1> QED
  BY <1>1, <1>2, <1>3, <1>5

-----------------------------------------------------------------------------
(* The fields of s; a handler assigns to them and adds none. *)
Fields == {"life", "mapped", "has_grab", "above", "toplevels", "popup_stack",
           "pointer", "keyboard", "held", "deferred", "target", "last", "over",
           "running"}

(* What a handler makes of st: the same buttons are held, and while one is, the
   pointer stays or is lost. *)
Holds(st, out) ==
    /\ DOMAIN st = Fields /\ DOMAIN out = Fields
    /\ out.held = st.held /\ out.last = st.last
    /\ st.held # {} => out.pointer \in {st.pointer, NoSurface}

LEMMA HoldsSelf == ASSUME NEW st, DOMAIN st = Fields PROVE Holds(st, st)
BY DEF Holds

LEMMA HoldsThen ==
    ASSUME NEW st, NEW mid, NEW out, Holds(st, mid), Holds(mid, out)
    PROVE  Holds(st, out)
BY DEF Holds

(* focus_pointer_set: only a forced change takes effect, and it is forced only to
   take the pointer away. *)
LEMMA PointerSetHolds ==
    ASSUME NEW st, DOMAIN st = Fields, NEW x, NEW forced, forced => x = NoSurface
    PROVE  Holds(st, PointerSet(st, x, forced))
BY DEF Holds, PointerSet, Fields

LEMMA PointerRecheckHolds ==
    ASSUME NEW st, DOMAIN st = Fields
    PROVE  Holds(st, PointerRecheck(st))
BY DEF Holds, PointerRecheck, PointerSet, Fields

LEMMA KeyboardSetHolds ==
    ASSUME NEW st, DOMAIN st = Fields, NEW x
    PROVE  Holds(st, KeyboardSet(st, x))
BY DEF Holds, KeyboardSet, Fields

LEMMA FocusToplevelHolds ==
    ASSUME NEW st, DOMAIN st = Fields, NEW t
    PROVE  Holds(st, FocusToplevel(st, t))
BY DEF Holds, FocusToplevel, KeyboardSet, Fields

LEMMA SurfaceMapHolds ==
    ASSUME NEW st, DOMAIN st = Fields, NEW t
    PROVE  Holds(st, OnSurfaceMap(st, t))
<1> DEFINE f == FocusToplevel(st, t)
<1>1. Holds(st, f)
  BY FocusToplevelHolds
<1>2. Holds(f, PointerSet(f, t, FALSE))
  BY <1>1, PointerSetHolds DEF Holds
<1>3. Holds(st, PointerSet(f, t, FALSE))
  BY <1>1, <1>2, HoldsThen
<1> QED
  BY <1>1, <1>3 DEF OnSurfaceMap

LEMMA PointerLeavesHolds ==
    ASSUME NEW st, DOMAIN st = Fields, NEW x
    PROVE  Holds(st, PointerLeaves(st, x))
<1> DEFINE to == FallbackSurface(st, x)
<1>1. Holds(st, PointerSet(st, to, to = NoSurface))
  BY PointerSetHolds
<1> QED
  BY <1>1, HoldsSelf DEF PointerLeaves

LEMMA SurfaceUnmapHolds ==
    ASSUME NEW st, DOMAIN st = Fields, NEW x
    PROVE  Holds(st, OnSurfaceUnmap(st, x))
<1> DEFINE f == PointerLeaves(st, x)
           k == KeyboardSet(f, FallbackSurface(st, x))
<1>1. Holds(st, f)
  BY PointerLeavesHolds
<1>2. Holds(f, k)
  BY <1>1, KeyboardSetHolds DEF Holds
<1>3. Holds(st, k)
  BY <1>1, <1>2, HoldsThen
<1> QED
  BY <1>1, <1>3 DEF OnSurfaceUnmap

LEMMA SurfaceDestroyHolds ==
    ASSUME NEW st, DOMAIN st = Fields, NEW x
    PROVE  Holds(st, OnSurfaceDestroy(st, x))
<1> DEFINE f == OnSurfaceUnmap(st, x)
           u == [f EXCEPT !.deferred = FALSE, !.target = NoSurface]
<1>1. Holds(st, f)
  BY SurfaceUnmapHolds
<1> HIDE DEF f
<1>2. Holds(st, u)
  BY <1>1 DEF Holds, Fields
<1> QED
  BY <1>1, <1>2 DEF OnSurfaceDestroy, f

LEMMA PopupMappedHolds ==
    ASSUME NEW st, DOMAIN st = Fields, NEW p
    PROVE  Holds(st, PopupMapped(st, p))
<1> DEFINE k == IF st.has_grab[p] THEN KeyboardSet(st, p) ELSE st
<1>1. Holds(st, k)
  BY HoldsSelf, KeyboardSetHolds
<1>2. Holds(k, PointerRecheck(k))
  BY <1>1, PointerRecheckHolds DEF Holds
<1> QED
  BY <1>1, <1>2, HoldsThen DEF PopupMapped

(* focus_popup_unregister first takes the pointer away, by force, and then
   offers it to another surface: held buttons defer the second step. *)
LEMMA PopupUnregisterHolds ==
    ASSUME NEW st, DOMAIN st = Fields, NEW p
    PROVE  Holds(st, PopupUnregister(st, p))
<1> DEFINE out    == [st EXCEPT !.popup_stack = Unlinked(@, p)]
           none   == PointerSet(out, NoSurface, TRUE)
           target == FallbackSurface(none, p)
           moved  == IF target = NoSurface THEN none
                     ELSE PointerSet(none, target, FALSE)
           front  == FrontToplevel(out)
<1>1. Holds(st, out)
  BY DEF Holds, Fields
<1>2. Holds(out, none)
  BY <1>1, PointerSetHolds DEF Holds
<1>3. Holds(st, none)
  BY <1>1, <1>2, HoldsThen
<1> HIDE DEF out, none, target
<1>4. Holds(none, moved)
  <2>1. DOMAIN none = Fields
    BY <1>3 DEF Holds
  <2>2. Holds(none, none) /\ Holds(none, PointerSet(none, target, FALSE))
    BY <2>1, HoldsSelf, PointerSetHolds
  <2> QED
    BY <2>2
<1>5. Holds(st, moved)
  BY <1>3, <1>4, HoldsThen
<1>6. \A x : Holds(st, KeyboardSet(moved, x))
  <2> SUFFICES ASSUME NEW x PROVE Holds(st, KeyboardSet(moved, x))
    OBVIOUS
  <2>1. Holds(moved, KeyboardSet(moved, x))
    BY <1>5, KeyboardSetHolds DEF Holds
  <2> QED
    BY <1>5, <2>1, HoldsThen
<1> HIDE DEF out, none, target, moved, front
<1>7. PopupUnregister(st, p) \in
         {moved, KeyboardSet(moved, target), KeyboardSet(moved, front)}
  BY DEF PopupUnregister, out, none, target, moved, front
<1> QED
  BY <1>5, <1>6, <1>7

(* Popups that lose their role keep the focus they have. *)
LEMMA DismissHolds ==
    ASSUME NEW st, DOMAIN st = Fields
    PROVE  /\ Holds(st, DismissAll(st))
           /\ Holds(st, DismissTopmostGrabbed(st))
           /\ \A x, stage : Holds(st, Leaves(st, x, stage))
<1>1. Holds(st, DismissAll(st)) /\ \A x, stage : Holds(st, Leaves(st, x, stage))
  BY DEF Holds, DismissAll, Leaves, Fields
<1> QED
  BY <1>1, HoldsSelf DEF DismissTopmostGrabbed

LEMMA HandleClickHolds ==
    ASSUME NEW st, DOMAIN st = Fields, NEW x
    PROVE  Holds(st, HandleClick(st, x))
<1> DEFINE out == DismissAll(st)
           to  == SurfaceAtCursor(out)
<1>1. Holds(st, out)
  BY DismissHolds
<1>2. Holds(out, PointerSet(out, to, FALSE))
  BY <1>1, PointerSetHolds DEF Holds
<1>3. Holds(st, PointerSet(out, to, FALSE))
  BY <1>1, <1>2, HoldsThen
<1>4. Holds(st, FocusToplevel(st, x)) /\ Holds(st, st)
  BY FocusToplevelHolds, HoldsSelf
<1> QED
  BY <1>1, <1>3, <1>4 DEF HandleClick

-----------------------------------------------------------------------------
(* A step of the focus machine that is not the mouse. *)
StayStep ==
    \/ \E t \in Toplevels : \/ NewToplevel(t) \/ ToplevelCommit(t)
                            \/ SubsurfaceCommit(t) \/ ToplevelDestroy(t)
    \/ \E p \in Popups : \/ \E x \in Surfaces : NewPopup(p, x)
                         \/ PopupCommit(p) \/ PopupDestroy(p)
    \/ \E x \in Surfaces : \/ UnmapCommit(x)
                           \/ RoleDestroyed(x) \/ SurfaceDestroyed(x)
    \/ \E escape, pressed \in BOOLEAN : HandleKey(escape, pressed)

LEMMA ToplevelHolds ==
    ASSUME DOMAIN s = Fields, NEW t,
           NewToplevel(t) \/ ToplevelCommit(t) \/ SubsurfaceCommit(t)
               \/ ToplevelDestroy(t)
    PROVE  Holds(s, s')
<1>1. CASE NewToplevel(t)
  BY <1>1 DEF NewToplevel, Holds, Fields
<1>2. CASE ToplevelCommit(t)
  <2> DEFINE st == [s EXCEPT !.life[t] = "visible", !.mapped[t] = TRUE]
             on == IF s.mapped[t] THEN st ELSE OnSurfaceMap(st, t)
  <2>1. Holds(s, st)
    BY DEF Holds, Fields
  <2> HIDE DEF st
  <2>2. Holds(st, on)
    BY <2>1, HoldsSelf, SurfaceMapHolds DEF Holds
  <2>3. Holds(s, on)
    BY <2>1, <2>2, HoldsThen
  <2>4. Holds(on, PointerRecheck(on))
    BY <2>3, PointerRecheckHolds DEF Holds
  <2>5. s' = PointerRecheck(on)
    BY <1>2 DEF ToplevelCommit, st
  <2> QED
    BY <2>3, <2>4, <2>5, HoldsThen
<1>3. CASE SubsurfaceCommit(t)
  BY <1>3, PointerRecheckHolds DEF SubsurfaceCommit
<1>4. CASE ToplevelDestroy(t)
  <2> DEFINE st == OnSurfaceDestroy(s, t)
  <2>1. Holds(s, st)
    BY SurfaceDestroyHolds
  <2>2. s' = [Freed(st, t) EXCEPT !.life[t] = "noxdg",
                                  !.toplevels = Unlist(st, t),
                                  !.running = Unlist(st, t) # <<>>]
    BY <1>4 DEF ToplevelDestroy
  <2> HIDE DEF st
  <2> QED
    BY <2>1, <2>2 DEF Holds, Freed, Fields
<1> QED
  BY <1>1, <1>2, <1>3, <1>4

LEMMA PopupHolds ==
    ASSUME DOMAIN s = Fields, NEW p,
           (\E x \in Surfaces : NewPopup(p, x)) \/ PopupCommit(p) \/ PopupDestroy(p)
    PROVE  Holds(s, s')
<1>1. CASE \E x \in Surfaces : NewPopup(p, x)
  BY <1>1 DEF NewPopup, Holds, Fields
<1>2. CASE PopupCommit(p)
  <2> DEFINE st == [s EXCEPT !.life[p] = "visible", !.mapped[p] = TRUE]
  <2>1. Holds(s, st)
    BY DEF Holds, Fields
  <2>2. s' = st \/ s' = PopupMapped(st, p)
    BY <1>2 DEF PopupCommit
  <2> HIDE DEF st
  <2>3. Holds(st, PopupMapped(st, p))
    BY <2>1, PopupMappedHolds DEF Holds
  <2> QED
    BY <2>1, <2>2, <2>3, HoldsThen
<1>3. CASE PopupDestroy(p)
  <2> DEFINE st == [s EXCEPT !.life[p] = "noxdg"]
             out == PopupUnregister(st, p)
  <2>1. Holds(s, st)
    BY DEF Holds, Fields
  <2>2. s' = Freed(out, p)
    BY <1>3 DEF PopupDestroy
  <2> HIDE DEF st
  <2>3. Holds(s, out)
    <3>1. Holds(st, out)
      BY <2>1, PopupUnregisterHolds DEF Holds
    <3> QED
      BY <2>1, <3>1, HoldsThen
  <2> HIDE DEF out
  <2> QED
    BY <2>2, <2>3 DEF Holds, Freed, Fields
<1> QED
  BY <1>1, <1>2, <1>3

LEMMA StayHolds == ASSUME DOMAIN s = Fields, StayStep PROVE Holds(s, s')
<1>1. ASSUME NEW x \in Surfaces,
             UnmapCommit(x) \/ RoleDestroyed(x) \/ SurfaceDestroyed(x)
      PROVE  Holds(s, s')
  <2>1. CASE UnmapCommit(x) \/ RoleDestroyed(x)
    BY <2>1, DismissHolds DEF UnmapCommit, RoleDestroyed
  <2>2. CASE SurfaceDestroyed(x)
    BY <2>2 DEF SurfaceDestroyed, Holds, Fields
  <2> QED
    BY <1>1, <2>1, <2>2
<1>2. ASSUME NEW escape, NEW pressed, HandleKey(escape, pressed)
      PROVE  Holds(s, s')
  BY <1>2, DismissHolds, HoldsSelf DEF HandleKey
<1> QED
  BY <1>1, <1>2, ToplevelHolds, PopupHolds DEF StayStep

(* handle_mouse moves the focus with the buttons as they were, and only then
   tells the seat of the new ones. *)
LEMMA MouseHolds ==
    ASSUME DOMAIN s = Fields, NEW over, NEW buttons, HandleMouse(over, buttons)
    PROVE  /\ DOMAIN s' = Fields
           /\ s.held # {} => s'.pointer \in {s.pointer, NoSurface}
<1> DEFINE at       == [s EXCEPT !.over = over]
           released == s.last # {} /\ buttons = {} /\ s.deferred /\ s.held = {}
           st       == IF released THEN PointerRecheck(at) ELSE at
           press    == Left \in buttons \ s.last
           found    == SurfaceAtCursor(at)
           clicked  == IF press /\ found # NoSurface THEN HandleClick(st, found)
                       ELSE st
           surface  == IF press /\ found # NoSurface THEN ClickedSurface(clicked)
                       ELSE found
           left     == IF press THEN DismissAll(clicked) ELSE clicked
           moved    == IF surface # NoSurface
                       THEN PointerSet(clicked, surface, FALSE)
                       ELSE PointerSet(left, NoSurface, TRUE)
           heard    == moved.pointer # NoSurface
                         /\ moved.life[moved.pointer] = "visible"
<1>1. s' = [moved EXCEPT
              !.held = IF heard THEN (@ \ (s.last \ buttons)) \cup (buttons \ s.last)
                       ELSE @,
              !.last = buttons]
  BY DEF HandleMouse
<1>2. Holds(s, at)
  BY DEF Holds, Fields
<1>3. Holds(s, st)
  <2>1. Holds(at, PointerRecheck(at))
    BY <1>2, PointerRecheckHolds DEF Holds
  <2>2. Holds(s, PointerRecheck(at))
    BY <1>2, <2>1, HoldsThen
  <2> QED
    BY <1>2, <2>2
<1> HIDE DEF at, st, released
<1>4. Holds(s, clicked)
  <2>1. Holds(st, HandleClick(st, found))
    BY <1>3, HandleClickHolds DEF Holds
  <2>2. Holds(s, HandleClick(st, found))
    BY <1>3, <2>1, HoldsThen
  <2> QED
    BY <1>3, <2>2
<1> HIDE DEF clicked, found, surface, press
<1>5. Holds(s, left)
  <2>1. Holds(clicked, DismissAll(clicked))
    BY <1>4, DismissHolds DEF Holds
  <2>2. Holds(s, DismissAll(clicked))
    BY <1>4, <2>1, HoldsThen
  <2> QED
    BY <1>4, <2>2
<1> HIDE DEF left
<1>6. Holds(s, moved)
  <2>1. Holds(clicked, PointerSet(clicked, surface, FALSE))
    BY <1>4, PointerSetHolds DEF Holds
  <2>2. Holds(left, PointerSet(left, NoSurface, TRUE))
    BY <1>5, PointerSetHolds DEF Holds
  <2>3. /\ Holds(s, PointerSet(clicked, surface, FALSE))
        /\ Holds(s, PointerSet(left, NoSurface, TRUE))
    BY <1>4, <1>5, <2>1, <2>2, HoldsThen
  <2> QED
    BY <2>3
<1> HIDE DEF moved, heard
<1> QED
  BY <1>1, <1>6 DEF Holds, Fields

-----------------------------------------------------------------------------
(* The mouse. *)
LEMMA MouseKeeps ==
    ASSUME FocusInv, NEW over \in Areas, NEW buttons \in SUBSET Buttons,
           HandleMouse(over, buttons)
    PROVE  FocusInv' /\ PressLands
<1> DEFINE at       == [s EXCEPT !.over = over]
           released == s.last # {} /\ buttons = {} /\ s.deferred /\ s.held = {}
           st       == IF released THEN PointerRecheck(at) ELSE at
           press    == Left \in buttons \ s.last
           found    == SurfaceAtCursor(at)
           clicked  == IF press /\ found # NoSurface THEN HandleClick(st, found)
                       ELSE st
           surface  == IF press /\ found # NoSurface THEN ClickedSurface(clicked)
                       ELSE found
           left     == IF press THEN DismissAll(clicked) ELSE clicked
           moved    == IF surface # NoSurface
                       THEN PointerSet(clicked, surface, FALSE)
                       ELSE PointerSet(left, NoSurface, TRUE)
           heard    == moved.pointer # NoSurface
                         /\ moved.life[moved.pointer] = "visible"
           held     == IF heard THEN (moved.held \ (s.last \ buttons))
                                       \cup (buttons \ s.last)
                       ELSE moved.held
<1>1. s' = [moved EXCEPT !.held = held, !.last = buttons]
  BY DEF HandleMouse
<1>2. Sound(at) /\ KeysInv(at) /\ at.held = s.held /\ at.last = s.last /\ at \in State
  <2>1. s \in State /\ over \in SUBSET Surfaces
    BY InputAssumption DEF FocusInv, Sound
  <2>2. /\ at \in State /\ Same(s, at) /\ at.keyboard = s.keyboard
        /\ at.held = s.held /\ at.last = s.last
    BY <2>1 DEF State, Same
  <2> HIDE DEF at
  <2> QED
    BY <2>2, SoundSame, KeysSame DEF FocusInv
<1> HIDE DEF at
<1>3. Pointed(at, st)
  BY <1>2, PointerRecheckPointed, PointedSelf
<1>4. found \in Mapped(at) \cup {NoSurface}
  BY <1>2, SurfaceFound
<1> HIDE DEF st, released, found
<1>5. /\ Sound(st) /\ KeysInv(st) /\ Mapped(st) = Mapped(at)
      /\ st.held = s.held /\ DOMAIN st = Fields
  <2>1. DOMAIN st = Fields
    BY <1>3 DEF Pointed, State, Fields
  <2> QED
    BY <1>2, <1>3, <2>1, PointedSound DEF Pointed, Same, Mapped
<1>6. Sound(clicked) /\ KeysInv(clicked) /\ clicked.held = s.held
  <2>1. found # NoSurface => /\ Sound(HandleClick(st, found))
                             /\ KeysInv(HandleClick(st, found))
    BY <1>4, <1>5, HandleClickSound
  <2>2. HandleClick(st, found).held = st.held
    BY <1>5, HandleClickHolds DEF Holds
  <2> QED
    BY <1>5, <2>1, <2>2
<1>7. surface \in MaybeSurface
  BY <1>4, <1>6, SurfaceFound DEF ClickedSurface, Mapped, MaybeSurface
<1>8. Sound(left) /\ KeysInv(left)
  BY <1>6, DismissAllSound
<1>9. press => surface = SurfaceAtCursor(clicked)
  <2>1. CASE press /\ found # NoSurface
    BY <2>1 DEF ClickedSurface
  <2>2. CASE press /\ found = NoSurface
    <3>1. surface = SurfaceAtCursor(at) /\ clicked = st
      BY <2>2 DEF found
    <3>2. SurfaceAtCursor(st) = SurfaceAtCursor(at)
      BY <1>3, SurfaceSame DEF Pointed
    <3> QED
      BY <3>1, <3>2
  <2> QED
    BY <2>1, <2>2
<1>10. press => left = DismissAll(clicked)
  OBVIOUS
<1> HIDE DEF clicked, surface, left
<1>11. \/ surface # NoSurface /\ moved = PointerSet(clicked, surface, FALSE)
          /\ Pointed(clicked, moved)
       \/ surface = NoSurface /\ Pointed(left, moved)
  <2>1. NoSurface \in MaybeSurface
    BY DEF MaybeSurface
  <2>2. clicked \in State /\ left \in State
    BY <1>6, <1>8 DEF Sound
  <2>3. /\ Pointed(clicked, PointerSet(clicked, surface, FALSE))
        /\ Pointed(left, PointerSet(left, NoSurface, TRUE))
    BY <1>7, <2>1, <2>2, PointerSetPointed
  <2> QED
    BY <2>3
<1> HIDE DEF moved
<1>12. Sound(moved) /\ KeysInv(moved)
  BY <1>6, <1>8, <1>11, PointedSound
<1>13. /\ s' \in State /\ Same(moved, s') /\ s'.keyboard = moved.keyboard
       /\ s'.last = buttons /\ s'.over = moved.over /\ s'.pointer = moved.pointer
       /\ s'.deferred = moved.deferred /\ s'.target = moved.target
  <2>1. moved \in State
    BY <1>12 DEF Sound
  <2>2. held \in SUBSET Buttons
    BY <2>1 DEF State
  <2> HIDE DEF held
  <2> QED
    BY <1>1, <2>1, <2>2 DEF State, Same
<1>14. FocusInv'
  <2>1. Sound(s') /\ KeysInv(s')
    BY <1>12, <1>13, SoundSame, KeysSame
  <2> QED
    BY <2>1 DEF FocusInv
<1>15. SurfaceAtCursor(s') = SurfaceAtCursor(moved)
  BY <1>13, SurfaceSame
<1>16. ASSUME press, SurfaceAtCursor(moved) # NoSurface
       PROVE  \/ moved.pointer = SurfaceAtCursor(moved)
              \/ /\ s.held # {} /\ moved.deferred
                 /\ moved.target = SurfaceAtCursor(moved)
  <2>1. CASE surface # NoSurface
    <3>1. moved = PointerSet(clicked, surface, FALSE) /\ Pointed(clicked, moved)
      BY <1>11, <2>1
    <3>2. \/ moved.pointer = surface
          \/ s.held # {} /\ moved.deferred /\ moved.target = surface
      BY <1>6, <3>1 DEF PointerSet, Sound, State
    <3>3. SurfaceAtCursor(moved) = SurfaceAtCursor(clicked)
      BY <3>1, SurfaceSame DEF Pointed
    <3> QED
      BY <1>9, <1>16, <3>2, <3>3
  <2>2. CASE surface = NoSurface
    <3>1. Pointed(left, moved) /\ left = DismissAll(clicked)
      BY <1>10, <1>11, <1>16, <2>2
    <3>2. Hit(clicked) = {}
      <4>1. Hit(clicked) \subseteq Surfaces
        BY <1>6 DEF Hit, Sound, State
      <4> QED
        BY <1>6, <1>9, <1>16, <2>2, <4>1, SurfaceFound, SurfacesAssumption
    <3>3. SurfaceAtCursor(clicked) = FirstIn(clicked.toplevels, Mapped(clicked))
      BY <1>6, <3>2, SurfaceFound
    <3>4. /\ left.mapped = clicked.mapped /\ left.toplevels = clicked.toplevels
          /\ Hit(left) = {}
      BY <1>6, <3>1, <3>2, DismissAllGives
    <3>5. SurfaceAtCursor(left) = FirstIn(left.toplevels, Mapped(left))
      BY <1>8, <3>4, SurfaceFound
    <3>6. SurfaceAtCursor(moved) = SurfaceAtCursor(left)
      BY <3>1, SurfaceSame DEF Pointed
    <3>7. SurfaceAtCursor(left) = SurfaceAtCursor(clicked)
      BY <3>3, <3>4, <3>5 DEF Mapped
    <3> QED
      BY <1>9, <1>16, <2>2, <3>6, <3>7
  <2> QED
    BY <2>1, <2>2
<1>17. PressLands
  BY <1>13, <1>15, <1>16 DEF PressLands
<1> QED
  BY <1>14, <1>17

-----------------------------------------------------------------------------
LEMMA FocusInit == Init => FocusInv
<1> SUFFICES ASSUME Init PROVE FocusInv
  OBVIOUS
<1>1. s \in State
  BY DEF Init, State, Stages
<1>2. /\ s.life = [x \in Surfaces |-> "none"] /\ s.mapped = [x \in Surfaces |-> FALSE]
      /\ s.above = [x \in Surfaces |-> {}] /\ s.toplevels = <<>> /\ s.popup_stack = <<>>
      /\ s.keyboard = NoSurface
  BY DEF Init
<1>3. LinkedIn(s, Toplevels) = {} /\ LinkedIn(s, Popups) = {}
  BY <1>2 DEF LinkedIn, Linked, WithRole, Surfaces
<1>4. IsList(<<>>, {})
  BY DEF IsList
<1>5. Lists(s)
  BY <1>2, <1>3, <1>4 DEF Lists
<1>6. Rooted(s) /\ MappedInv(s)
  BY <1>2, SurfacesAssumption DEF Rooted, MappedInv, WithRole, Surfaces
<1>7. FrontToplevel(s) = NoSurface
  BY <1>2 DEF FrontToplevel, FirstIn
<1> QED
  BY <1>1, <1>5, <1>6, <1>7 DEF FocusInv, Sound, KeysInv

LEMMA StayKeeps == ASSUME FocusInv, StayStep PROVE FocusInv'
<1>1. ASSUME NEW t \in Toplevels, \/ NewToplevel(t) \/ ToplevelCommit(t)
                                  \/ SubsurfaceCommit(t) \/ ToplevelDestroy(t)
      PROVE  FocusInv'
  BY <1>1, NewToplevelKeeps, ToplevelCommitKeeps, SubsurfaceCommitKeeps,
     ToplevelDestroyKeeps
<1>2. ASSUME NEW p \in Popups, \/ \E x \in Surfaces : NewPopup(p, x)
                               \/ PopupCommit(p) \/ PopupDestroy(p)
      PROVE  FocusInv'
  BY <1>2, NewPopupKeeps, PopupCommitKeeps, PopupDestroyKeeps
<1>3. ASSUME NEW x \in Surfaces, UnmapCommit(x) \/ RoleDestroyed(x) \/ SurfaceDestroyed(x)
      PROVE  FocusInv'
  BY <1>3, LeaveKeeps, SurfaceDestroyedKeeps
<1>4. ASSUME NEW escape \in BOOLEAN, NEW pressed \in BOOLEAN, HandleKey(escape, pressed)
      PROVE  FocusInv'
  BY <1>4, KeyKeeps
<1> QED
  BY <1>1, <1>2, <1>3, <1>4 DEF StayStep

(* One step, of any handler. *)
LEMMA FocusStep ==
    FocusInv /\ [Next]_s => FocusInv' /\ [PressLands]_s
<1> SUFFICES ASSUME FocusInv, [Next]_s PROVE FocusInv' /\ [PressLands]_s
  OBVIOUS
<1>1. CASE StayStep
  <2>1. DOMAIN s = Fields
    BY DEF FocusInv, Sound, State, Fields
  <2>2. Holds(s, s')
    BY <1>1, <2>1, StayHolds
  <2>3. PressLands
    BY <2>2 DEF PressLands, Holds
  <2> QED
    BY <1>1, <2>3, StayKeeps
<1>2. CASE \E o \in Areas, b \in SUBSET Buttons : HandleMouse(o, b)
  BY <1>2, MouseKeeps
<1>3. CASE UNCHANGED s
  BY <1>3 DEF FocusInv
<1> QED
  BY <1>1, <1>2, <1>3 DEF Next, StayStep

(* The lists of windows and popups hold exactly the surfaces whose xdg_surface
   lives, popups have a window to lie above, and with no popup open the keyboard
   is at the front window or at one about to be destroyed: the state that every
   handler of toplevel.c, popup.c, wl_input.c and focus_manager.c relies on and
   leaves behind. *)
THEOREM FocusInvariant == Spec => []FocusInv
<1>1. FocusInv /\ [Next]_s => FocusInv'
  BY FocusStep
<1> QED
  BY <1>1, FocusInit, PTL DEF Spec

(* The type of the state, and that the two lists are in step with what the clients
   have created and not yet destroyed, each surface listed once. *)
THEOREM ListsInStep == Spec => []TypeOK
<1>1. FocusInv => TypeOK
  <2> SUFFICES ASSUME FocusInv PROVE TypeOK
    OBVIOUS
  <2>1. s \in State
    BY DEF FocusInv, Sound
  <2>2. Listed(Toplevels) = LinkedIn(s, Toplevels) /\ Listed(Popups) = LinkedIn(s, Popups)
    BY DEF Listed, LinkedIn, Linked
  <2>3. /\ ToSet(s.toplevels) = Listed(Toplevels)
        /\ Len(s.toplevels) = Cardinality(Listed(Toplevels))
        /\ ToSet(s.popup_stack) = Listed(Popups)
        /\ Len(s.popup_stack) = Cardinality(Listed(Popups))
    BY <2>2, TopList, ListSize DEF FocusInv
  <2> QED
    BY <2>1, <2>3 DEF State, TypeOK
<1> QED
  BY <1>1, FocusInvariant, PTL

(* With no popup open and no window half destroyed, what the user types goes to the
   front window, however the windows have been opened, raised and closed
   (focus_toplevel, focus_on_surface_unmap, focus_popup_unregister). *)
THEOREM KeysInFront == Spec => []KeysGoToFront
<1>1. FocusInv => KeysGoToFront
  <2> DEFINE front == FirstIn(s.toplevels, Mapped(s))
             list == LinkedIn(s, Toplevels)
  <2> SUFFICES ASSUME FocusInv, s.popup_stack = <<>>,
                      \A t \in Toplevels : s.life[t] # "norole", front # NoSurface
               PROVE  s.keyboard = front
    BY DEF KeysGoToFront
  <2>1. IsList(s.toplevels, list) /\ NoSurface \notin list /\ list \subseteq Toplevels
    BY TopList DEF FocusInv, LinkedIn
  <2>2. list \cap Fronts(s) = list \cap Mapped(s)
    BY <2>1 DEF Fronts
  <2>3. FrontToplevel(s) = front
    BY <2>1, <2>2, FirstSame DEF FrontToplevel, Fronts
  <2> QED
    BY <2>3 DEF FocusInv, KeysInv
<1> QED
  BY <1>1, FocusInvariant, PTL

(* A button press goes to the surface under the cursor as the press leaves the
   windows and popups, or, while the seat counts a button as held, is deferred to
   that surface: handle_mouse looks again after a click has raised or dismissed
   something. *)
THEOREM PressUnderCursor == Spec => PressGoesUnderCursor
<1>1. FocusInv /\ [Next]_s => [PressLands]_s
  BY FocusStep
<1>2. Spec => [][PressLands]_s
  BY <1>1, FocusInvariant, PTL DEF Spec
<1> QED
  BY <1>2 DEF PressGoesUnderCursor

HasFields == DOMAIN s = Fields

(* Whatever the clients do while a button is held, the pointer stays on its
   surface or is lost with it, and never goes over to another (focus_pointer_set
   and the handlers of toplevel.c, popup.c and wl_input.c that call it). *)
THEOREM DragStays == Spec => DragNeverSwitches
<1>1. Init => HasFields
  BY DEF Init, HasFields, Fields
<1>2. HasFields /\ [Next]_s => HasFields' /\ [PointerStays]_s
  <2> SUFFICES ASSUME HasFields, [Next]_s
               PROVE  /\ HasFields'
                      /\ s.held # {} => s'.pointer \in {s.pointer, NoSurface}
    BY DEF PointerStays
  <2>1. CASE StayStep
    BY <2>1, StayHolds DEF Holds, HasFields
  <2>2. CASE \E o \in Areas, b \in SUBSET Buttons : HandleMouse(o, b)
    BY <2>2, MouseHolds DEF HasFields
  <2>3. CASE UNCHANGED s
    BY <2>3 DEF HasFields
  <2> QED
    BY <2>1, <2>2, <2>3 DEF Next, StayStep
<1> QED
  BY <1>1, <1>2, PTL DEF Spec, DragNeverSwitches
=============================================================================
