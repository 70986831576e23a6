------------------------- MODULE KernelListsProofs -------------------------
(***************************************************************************)
(* Facts about the operators of KernelLists, for lists of any length.      *)
(***************************************************************************)
EXTENDS KernelLists, SequenceTheorems, WellFoundedInduction, TLAPS

(* Every non-empty set of naturals has a least element.                    *)
LEMMA LeastExists ==
  ASSUME NEW S \in SUBSET Nat, S # {}
  PROVE  \E m \in S : \A n \in S : m <= n
<1> DEFINE R == {ss \in Nat \X Nat : ss[1] < ss[2]}
<1>1. IsWellFoundedOn(R, Nat)
  BY NatLessThanWellFounded DEF OpToRel
<1> HIDE DEF R
<1>2. PICK m \in S : \A n \in S : <<n, m>> \notin R
  BY <1>1, WFMin
<1>3. ASSUME NEW n \in S PROVE m <= n
  <2>1. <<n, m>> \in Nat \X Nat /\ <<n, m>>[1] = n /\ <<n, m>>[2] = m
    OBVIOUS
  <2>2. ~ (n < m)
    BY <1>2, <2>1 DEF R
  <2> QED
    BY <2>2
<1> QED
  BY <1>2, <1>3

(* LOS_ListDelete of a linked node: the list without one position of it.   *)
LEMMA UnlinkAt ==
  ASSUME NEW S, NEW list \in Seq(S), NEW x, Linked(list, x)
  PROVE  \E k \in 1 .. Len(list) : list[k] = x /\ Unlink(list, x) = RemoveAt(list, k)
<1> DEFINE I == {k \in 1 .. Len(list) : list[k] = x}
<1>1. I # {} /\ I \in SUBSET Nat
  BY LenProperties DEF Linked, ToSet
<1>2. PICK m \in I : \A n \in I : m <= n
  BY <1>1, LeastExists
<1>3. Min(I) \in I
  BY <1>2 DEF Min
<1>4. Unlink(list, x) = RemoveAt(list, Min(I))
  BY <1>1 DEF Unlink, RemoveFirst, SelectInSeq
<1> QED
  BY <1>3, <1>4

(* A node that is not linked: nothing changes.                             *)
LEMMA UnlinkNone ==
  ASSUME NEW S, NEW list \in Seq(S), NEW x, ~Linked(list, x)
  PROVE  Unlink(list, x) = list
<1>1. ~ \E k \in 1 .. Len(list) : list[k] = x
  BY LenProperties DEF Linked, ToSet
<1> QED
  BY <1>1 DEF Unlink, RemoveFirst

(* The elements of the list without position k.                            *)
LEMMA RemoveAtElements ==
  ASSUME NEW S, NEW list \in Seq(S), NEW k \in 1 .. Len(list)
  PROVE  /\ RemoveAt(list, k) \in Seq(S)
         /\ Len(RemoveAt(list, k)) = Len(list) - 1
         /\ \A n \in 1 .. Len(list) - 1 :
              RemoveAt(list, k)[n] = IF n < k THEN list[n] ELSE list[n + 1]
<1> DEFINE front == SubSeq(list, 1, k - 1)
           back  == SubSeq(list, k + 1, Len(list))
<1>1. Len(list) \in Nat /\ \A n \in 1 .. Len(list) : list[n] \in S
  BY LenProperties, ElementOfSeq
<1>2. /\ front \in Seq(S) /\ Len(front) = k - 1
      /\ \A n \in 1 .. k - 1 : front[n] = list[n]
  <2>1. \A n \in 1 .. k - 1 : list[n] \in S
    BY <1>1
  <2>2. 1 \in Int /\ k - 1 \in Int
    BY <1>1
  <2>3. /\ front \in Seq(S)
        /\ Len(front) = IF 1 <= k - 1 THEN (k - 1) - 1 + 1 ELSE 0
        /\ \A n \in 1 .. (k - 1) - 1 + 1 : front[n] = list[1 + n - 1]
    BY <2>1, <2>2, SubSeqProperties
  <2> QED
    BY <1>1, <2>3
<1>3. /\ back \in Seq(S) /\ Len(back) = Len(list) - k
      /\ \A n \in 1 .. Len(list) - k : back[n] = list[k + n]
  <2>1. \A n \in k + 1 .. Len(list) : list[n] \in S
    BY <1>1
  <2>2. k + 1 \in Int /\ Len(list) \in Int
    BY <1>1
  <2>3. /\ back \in Seq(S)
        /\ Len(back) = IF k + 1 <= Len(list) THEN Len(list) - (k + 1) + 1 ELSE 0
        /\ \A n \in 1 .. Len(list) - (k + 1) + 1 : back[n] = list[(k + 1) + n - 1]
    BY <2>1, <2>2, SubSeqProperties
  <2> QED
    BY <1>1, <2>3
<1> HIDE DEF front, back
<1>4. /\ front \o back \in Seq(S)
      /\ Len(front \o back) = Len(front) + Len(back)
      /\ \A n \in 1 .. Len(front) + Len(back) :
           (front \o back)[n] = IF n <= Len(front) THEN front[n]
                                ELSE back[n - Len(front)]
  BY <1>2, <1>3, ConcatProperties
<1>5. RemoveAt(list, k) = front \o back
  BY DEF RemoveAt, front, back
<1>6. ASSUME NEW n \in 1 .. Len(list) - 1
      PROVE  (front \o back)[n] = IF n < k THEN list[n] ELSE list[n + 1]
  <2>1. CASE n < k
    BY <1>1, <1>2, <1>3, <1>4, <2>1
  <2>2. CASE ~ (n < k)
    <3>1. n - (k - 1) \in 1 .. Len(list) - k
      BY <1>1, <2>2
    <3>2. back[n - (k - 1)] = list[k + (n - (k - 1))]
      BY <1>3, <3>1
    <3>3. k + (n - (k - 1)) = n + 1
      BY <1>1
    <3> QED
      BY <1>1, <1>2, <1>3, <1>4, <2>2, <3>2, <3>3
  <2> QED
    BY <2>1, <2>2
<1>7. Len(front) + Len(back) = Len(list) - 1
  BY <1>1, <1>2, <1>3
<1> QED
  BY <1>4, <1>5, <1>6, <1>7

(* Unlinking keeps a list a list and drops no other node.                  *)
LEMMA UnlinkType ==
  ASSUME NEW S, NEW list \in Seq(S), NEW x
  PROVE  Unlink(list, x) \in Seq(S)
<1>1. CASE Linked(list, x)
  BY <1>1, UnlinkAt, RemoveAtElements
<1>2. CASE ~Linked(list, x)
  BY <1>2, UnlinkNone
<1> QED
  BY <1>1, <1>2

LEMMA UnlinkKeeps ==
  ASSUME NEW S, NEW list \in Seq(S), NEW x, NEW y, y # x
  PROVE  Linked(Unlink(list, x), y) <=> Linked(list, y)
<1>1. CASE ~Linked(list, x)
  BY <1>1, UnlinkNone
<1>2. CASE Linked(list, x)
  <2>1. PICK k \in 1 .. Len(list) :
               list[k] = x /\ Unlink(list, x) = RemoveAt(list, k)
    BY <1>2, UnlinkAt
  <2> DEFINE rest == Unlink(list, x)
  <2>2. /\ rest \in Seq(S) /\ Len(rest) = Len(list) - 1
        /\ \A n \in 1 .. Len(list) - 1 :
             rest[n] = IF n < k THEN list[n] ELSE list[n + 1]
    BY <2>1, RemoveAtElements
  <2>3. DOMAIN rest = 1 .. Len(list) - 1 /\ DOMAIN list = 1 .. Len(list)
        /\ Len(list) \in Nat
    BY <2>2, LenProperties
  <2> HIDE DEF rest
  <2>4. ASSUME Linked(rest, y) PROVE Linked(list, y)
    <3>1. PICK n \in 1 .. Len(list) - 1 : rest[n] = y
      BY <2>3, <2>4 DEF Linked, ToSet
    <3>2. n \in 1 .. Len(list) /\ n + 1 \in 1 .. Len(list)
      BY <2>3
    <3>3. list[n] = y \/ list[n + 1] = y
      BY <2>2, <3>1
    <3> QED
      BY <2>3, <3>2, <3>3 DEF Linked, ToSet
  <2>5. ASSUME Linked(list, y) PROVE Linked(rest, y)
    <3>1. PICK n \in 1 .. Len(list) : list[n] = y
      BY <2>3, <2>5 DEF Linked, ToSet
    <3>2. n # k
      BY <2>1, <3>1
    <3>3. CASE n < k
      <4>1. n \in 1 .. Len(list) - 1
        BY <2>3, <3>3
      <4> QED
        BY <2>2, <2>3, <3>1, <3>3, <4>1 DEF Linked, ToSet
    <3>4. CASE n > k
      <4>1. n - 1 \in 1 .. Len(list) - 1 /\ ~ (n - 1 < k) /\ (n - 1) + 1 = n
        BY <2>3, <3>4
      <4>2. rest[n - 1] = y
        BY <2>2, <3>1, <4>1
      <4> QED
        BY <2>3, <4>1, <4>2 DEF Linked, ToSet
    <3> QED
      BY <2>3, <3>2, <3>3, <3>4
  <2> QED
    BY <2>4, <2>5 DEF rest
<1> QED
  BY <1>1, <1>2

(* A list without repetition does not hold an unlinked node any more, and  *)
(* still has no repetition.                                                *)
LEMMA UnlinkDrops ==
  ASSUME NEW S, NEW list \in Seq(S), NEW x, NoRepeat(list)
  PROVE  ~Linked(Unlink(list, x), x) /\ NoRepeat(Unlink(list, x))
<1>1. CASE ~Linked(list, x)
  BY <1>1, UnlinkNone
<1>2. CASE Linked(list, x)
  <2>1. PICK k \in 1 .. Len(list) :
               list[k] = x /\ Unlink(list, x) = RemoveAt(list, k)
    BY <1>2, UnlinkAt
  <2> DEFINE rest == Unlink(list, x)
             old(n) == IF n < k THEN n ELSE n + 1
  <2>2. /\ rest \in Seq(S) /\ Len(rest) = Len(list) - 1
        /\ \A n \in 1 .. Len(list) - 1 :
             rest[n] = IF n < k THEN list[n] ELSE list[n + 1]
    BY <2>1, RemoveAtElements
  <2>3. DOMAIN rest = 1 .. Len(list) - 1 /\ DOMAIN list = 1 .. Len(list)
        /\ Len(list) \in Nat
    BY <2>2, LenProperties
  <2> HIDE DEF rest
  <2>4. \A n \in DOMAIN rest : /\ old(n) \in DOMAIN list /\ old(n) # k
                               /\ rest[n] = list[old(n)]
    BY <2>2, <2>3
  <2>5. \A n, m \in DOMAIN rest : old(n) = old(m) => n = m
    BY <2>3
  <2> HIDE DEF old
  <2>6. k \in DOMAIN list
    BY <2>3
  <2>7. \A n \in DOMAIN rest : rest[n] # x
    BY <2>1, <2>4, <2>6 DEF NoRepeat
  <2>8. NoRepeat(rest)
    BY <2>4, <2>5 DEF NoRepeat
  <2> QED
    BY <2>7, <2>8 DEF Linked, ToSet, rest
<1> QED
  BY <1>1, <1>2

(* An empty list stays empty.                                              *)
LEMMA UnlinkEmpty ==
  ASSUME NEW x PROVE Unlink(<< >>, x) = << >>
<1>1. << >> \in Seq({}) /\ ~Linked(<< >>, x)
  BY EmptySeq DEF Linked, ToSet
<1> QED
  BY <1>1, UnlinkNone

(* Unlinking another node leaves the head where it is.                     *)
LEMMA UnlinkHead ==
  ASSUME NEW S, NEW list \in Seq(S), list # << >>, NEW x, x # Head(list)
  PROVE  Unlink(list, x) # << >> /\ Head(Unlink(list, x)) = Head(list)
<1>1. CASE ~Linked(list, x)
  BY <1>1, UnlinkNone
<1>2. CASE Linked(list, x)
  <2>1. PICK k \in 1 .. Len(list) :
               list[k] = x /\ Unlink(list, x) = RemoveAt(list, k)
    BY <1>2, UnlinkAt
  <2> DEFINE rest == Unlink(list, x)
  <2>2. /\ rest \in Seq(S) /\ Len(rest) = Len(list) - 1
        /\ \A n \in 1 .. Len(list) - 1 :
             rest[n] = IF n < k THEN list[n] ELSE list[n + 1]
    BY <2>1, RemoveAtElements
  <2> HIDE DEF rest
  <2>3. Len(list) \in Nat /\ Head(list) = list[1]
    BY LenProperties, HeadTailProperties
  <2>4. k # 1
    BY <2>1, <2>3
  <2>5. 1 \in 1 .. Len(list) - 1 /\ 1 < k
    BY <2>3, <2>4
  <2>6. rest[1] = Head(list)
    BY <2>2, <2>3, <2>5
  <2>7. rest # << >> /\ Head(rest) = rest[1]
    BY <2>2, <2>5, EmptySeq, HeadTailProperties
  <2> QED
    BY <2>6, <2>7 DEF rest
<1> QED
  BY <1>1, <1>2

(* Appending.                                                              *)
LEMMA AppendLinks ==
  ASSUME NEW S, NEW list \in Seq(S), NEW x \in S
  PROVE  /\ Append(list, x) \in Seq(S)
         /\ \A y : Linked(Append(list, x), y) <=> Linked(list, y) \/ y = x
         /\ NoRepeat(list) /\ ~Linked(list, x) => NoRepeat(Append(list, x))
<1> DEFINE longer == Append(list, x)
<1>1. /\ longer \in Seq(S) /\ Len(longer) = Len(list) + 1
      /\ \A n \in 1 .. Len(list) : longer[n] = list[n]
      /\ longer[Len(list) + 1] = x
  BY AppendProperties
<1>2. DOMAIN longer = 1 .. Len(list) + 1 /\ DOMAIN list = 1 .. Len(list)
      /\ Len(list) \in Nat
  BY <1>1, LenProperties
<1> HIDE DEF longer
<1>3. ASSUME NEW y PROVE Linked(longer, y) <=> Linked(list, y) \/ y = x
  <2>1. ASSUME Linked(longer, y), y # x PROVE Linked(list, y)
    <3>1. PICK n \in 1 .. Len(list) + 1 : longer[n] = y
      BY <1>2, <2>1 DEF Linked, ToSet
    <3>2. n \in 1 .. Len(list)
      BY <1>1, <1>2, <2>1, <3>1
    <3> QED
      BY <1>1, <1>2, <3>1, <3>2 DEF Linked, ToSet
  <2>2. ASSUME Linked(list, y) PROVE Linked(longer, y)
    <3>1. PICK n \in 1 .. Len(list) : list[n] = y
      BY <1>2, <2>2 DEF Linked, ToSet
    <3>2. n \in 1 .. Len(list) + 1 /\ longer[n] = y
      BY <1>1, <1>2, <3>1
    <3> QED
      BY <1>2, <3>2 DEF Linked, ToSet
  <2>3. Linked(longer, x)
    <3>1. Len(list) + 1 \in DOMAIN longer
      BY <1>2
    <3> QED
      BY <1>1, <3>1 DEF Linked, ToSet
  <2> QED
    BY <2>1, <2>2, <2>3
<1>4. ASSUME NoRepeat(list), ~Linked(list, x) PROVE NoRepeat(longer)
  <2>1. ASSUME NEW j \in 1 .. Len(list) + 1, NEW k \in 1 .. Len(list) + 1,
               longer[j] = longer[k]
        PROVE  j = k
    <3>1. \A n \in 1 .. Len(list) : list[n] # x
      BY <1>2, <1>4 DEF Linked, ToSet
    <3>2. CASE j \in 1 .. Len(list) /\ k \in 1 .. Len(list)
      BY <1>1, <1>2, <1>4, <2>1, <3>2 DEF NoRepeat
    <3>3. CASE j = Len(list) + 1 \/ k = Len(list) + 1
      BY <1>1, <1>2, <2>1, <3>1, <3>3
    <3> QED
      BY <1>2, <3>2, <3>3
  <2> QED
    BY <1>2, <2>1 DEF NoRepeat
<1> QED
  BY <1>1, <1>3, <1>4 DEF longer

(* Removing the head of a list without repetition.                         *)
LEMMA TailLinks ==
  ASSUME NEW S, NEW list \in Seq(S), list # << >>
  PROVE  /\ Tail(list) \in Seq(S) /\ Head(list) \in S
         /\ Linked(list, Head(list))
         /\ \A y : Linked(Tail(list), y) => Linked(list, y)
<1>1. /\ Head(list) \in S /\ Tail(list) \in Seq(S)
      /\ Len(Tail(list)) = Len(list) - 1
      /\ \A n \in 1 .. Len(Tail(list)) : Tail(list)[n] = list[n + 1]
  BY HeadTailProperties
<1>2. DOMAIN Tail(list) = 1 .. Len(list) - 1 /\ DOMAIN list = 1 .. Len(list)
      /\ Len(list) \in Nat \ {0}
  BY <1>1, LenProperties, EmptySeq
<1>3. Head(list) = list[1] /\ 1 \in DOMAIN list
  BY <1>2
<1>4. ASSUME NEW y, Linked(Tail(list), y) PROVE Linked(list, y)
  <2>1. PICK n \in 1 .. Len(list) - 1 : Tail(list)[n] = y
    BY <1>2, <1>4 DEF Linked, ToSet
  <2>2. n + 1 \in DOMAIN list /\ list[n + 1] = y
    BY <1>1, <1>2, <2>1
  <2> QED
    BY <2>2 DEF Linked, ToSet
<1>5. Linked(list, Head(list))
  BY <1>3 DEF Linked, ToSet
<1> QED
  BY <1>1, <1>4, <1>5

(* Removing the head of a list without repetition removes it altogether.   *)
LEMMA TailDrops ==
  ASSUME NEW S, NEW list \in Seq(S), list # << >>, NoRepeat(list)
  PROVE  /\ NoRepeat(Tail(list))
         /\ \A y : Linked(Tail(list), y) <=> Linked(list, y) /\ y # Head(list)
<1>1. /\ Tail(list) \in Seq(S) /\ Len(Tail(list)) = Len(list) - 1
      /\ \A n \in 1 .. Len(Tail(list)) : Tail(list)[n] = list[n + 1]
  BY HeadTailProperties
<1>2. DOMAIN Tail(list) = 1 .. Len(list) - 1 /\ DOMAIN list = 1 .. Len(list)
      /\ Len(list) \in Nat \ {0}
  BY <1>1, LenProperties, EmptySeq
<1>3. Head(list) = list[1] /\ 1 \in DOMAIN list
  BY <1>2
<1>4. \A n \in DOMAIN Tail(list) :
         n + 1 \in DOMAIN list /\ n + 1 # 1 /\ Tail(list)[n] = list[n + 1]
  BY <1>1, <1>2
<1>5. NoRepeat(Tail(list))
  <2>1. ASSUME NEW n \in DOMAIN Tail(list), NEW m \in DOMAIN Tail(list),
               Tail(list)[n] = Tail(list)[m]
        PROVE  n = m
    <3>1. n + 1 = m + 1
      BY <1>4, <2>1 DEF NoRepeat
    <3> QED
      BY <1>2, <3>1
  <2> QED
    BY <2>1 DEF NoRepeat
<1>6. ~Linked(Tail(list), Head(list))
  BY <1>3, <1>4 DEF Linked, ToSet, NoRepeat
<1>7. ASSUME NEW y, Linked(list, y), y # Head(list) PROVE Linked(Tail(list), y)
  <2>1. PICK n \in DOMAIN list : list[n] = y
    BY <1>7 DEF Linked, ToSet
  <2>2. n - 1 \in DOMAIN Tail(list) /\ (n - 1) + 1 = n
    BY <1>2, <1>3, <1>7, <2>1
  <2>3. Tail(list)[n - 1] = y
    BY <1>4, <2>1, <2>2
  <2> QED
    BY <2>2, <2>3 DEF Linked, ToSet
<1> QED
  BY <1>5, <1>6, <1>7, TailLinks
(* Unlinking the head of a list without repetition.                        *)
LEMMA UnlinkFirst ==
  ASSUME NEW S, NEW list \in Seq(S), list # << >>, NoRepeat(list)
  PROVE  Unlink(list, Head(list)) = Tail(list)
<1>1. /\ Tail(list) \in Seq(S) /\ Len(Tail(list)) = Len(list) - 1
      /\ \A n \in 1 .. Len(Tail(list)) : Tail(list)[n] = list[n + 1]
  BY HeadTailProperties
<1>2. DOMAIN list = 1 .. Len(list) /\ Len(list) \in Nat \ {0} /\ Head(list) = list[1]
  BY LenProperties, EmptySeq
<1>3. PICK k \in 1 .. Len(list) :
        list[k] = Head(list) /\ Unlink(list, Head(list)) = RemoveAt(list, k)
  BY TailLinks, UnlinkAt
<1>4. k = 1
  BY <1>2, <1>3 DEF NoRepeat
<1>5. /\ RemoveAt(list, k) \in Seq(S) /\ Len(RemoveAt(list, k)) = Len(list) - 1
      /\ \A n \in 1 .. Len(list) - 1 :
           RemoveAt(list, k)[n] = IF n < k THEN list[n] ELSE list[n + 1]
  BY RemoveAtElements
<1> DEFINE rest == RemoveAt(list, k)
<1>6. rest \in Seq(S) /\ Len(rest) = Len(Tail(list))
      /\ \A n \in 1 .. Len(rest) : rest[n] = Tail(list)[n]
  <2>1. \A n \in 1 .. Len(list) - 1 : ~ (n < k)
    BY <1>4
  <2> QED
    BY <1>1, <1>5, <2>1
<1> HIDE DEF rest
<1>7. rest = Tail(list)
  BY <1>1, <1>6, SeqEqual
<1> QED
  BY <1>3, <1>7 DEF rest

(* A list with one more element, after its first k.                        *)
Inserted(longer, list, x, k) ==
  /\ Len(longer) = Len(list) + 1
  /\ \A n \in 1 .. Len(list) + 1 :
       longer[n] = IF n <= k THEN list[n] ELSE IF n = k + 1 THEN x ELSE list[n - 1]

LEMMA InsertedLinks ==
  ASSUME NEW S, NEW list \in Seq(S), NEW longer \in Seq(S), NEW x,
         NEW k \in 0 .. Len(list), Inserted(longer, list, x, k)
  PROVE  /\ \A y : Linked(longer, y) <=> Linked(list, y) \/ y = x
         /\ NoRepeat(list) /\ ~Linked(list, x) => NoRepeat(longer)
<1>1. DOMAIN longer = 1 .. Len(list) + 1 /\ DOMAIN list = 1 .. Len(list)
      /\ Len(list) \in Nat
  BY LenProperties DEF Inserted
<1> DEFINE old(n) == IF n <= k THEN n ELSE n - 1
<1>2. \A n \in DOMAIN longer : n # k + 1 => old(n) \in DOMAIN list /\ longer[n] = list[old(n)]
  BY <1>1 DEF Inserted
<1>3. k + 1 \in DOMAIN longer /\ longer[k + 1] = x
  BY <1>1 DEF Inserted
<1>4. \A n, m \in DOMAIN longer : n # k + 1 /\ m # k + 1 /\ old(n) = old(m) => n = m
  BY <1>1
<1>5. \A n \in DOMAIN list : \E m \in DOMAIN longer : longer[m] = list[n]
  <2> TAKE n \in DOMAIN list
  <2>1. CASE n <= k
    <3>1. n \in DOMAIN longer /\ longer[n] = list[n]
      BY <1>1, <2>1 DEF Inserted
    <3> QED
      BY <3>1
  <2>2. CASE n > k
    <3>1. n + 1 \in DOMAIN longer /\ longer[n + 1] = list[n]
      BY <1>1, <2>2 DEF Inserted
    <3> QED
      BY <3>1
  <2> QED
    BY <1>1, <2>1, <2>2
<1> HIDE DEF old
<1>6. ASSUME NEW y PROVE Linked(longer, y) <=> Linked(list, y) \/ y = x
  <2>1. ASSUME Linked(longer, y), y # x PROVE Linked(list, y)
    <3>1. PICK n \in DOMAIN longer : longer[n] = y
      BY <2>1 DEF Linked, ToSet
    <3>2. old(n) \in DOMAIN list /\ list[old(n)] = y
      BY <1>2, <1>3, <2>1, <3>1
    <3> QED
      BY <3>2 DEF Linked, ToSet
  <2>2. ASSUME Linked(list, y) PROVE Linked(longer, y)
    BY <1>5, <2>2 DEF Linked, ToSet
  <2>3. Linked(longer, x)
    BY <1>3 DEF Linked, ToSet
  <2> QED
    BY <2>1, <2>2, <2>3
<1>7. ASSUME NoRepeat(list), ~Linked(list, x) PROVE NoRepeat(longer)
  <2>1. \A n \in DOMAIN list : list[n] # x
    BY <1>7 DEF Linked, ToSet
  <2>2. \A n \in DOMAIN longer : n # k + 1 => longer[n] # x
    BY <1>2, <2>1
  <2> QED
    BY <1>2, <1>3, <1>4, <1>7, <2>2 DEF NoRepeat
<1> QED
  BY <1>6, <1>7

(* Inserting.                                                              *)
LEMMA InsertAtElements ==
  ASSUME NEW S, NEW list \in Seq(S), NEW x \in S, NEW k \in 0 .. Len(list)
  PROVE  /\ InsertAt(list, k + 1, x) \in Seq(S)
         /\ Inserted(InsertAt(list, k + 1, x), list, x, k)
<1> DEFINE front == SubSeq(list, 1, (k + 1) - 1)
           back  == SubSeq(list, k + 1, Len(list))
           mid == front \o <<x>>
           longer == mid \o back
<1>1. Len(list) \in Nat /\ \A n \in 1 .. Len(list) : list[n] \in S
  BY LenProperties, ElementOfSeq
<1>2. /\ front \in Seq(S) /\ Len(front) = k
      /\ \A n \in 1 .. k : front[n] = list[n]
  <2>1. \A n \in 1 .. (k + 1) - 1 : list[n] \in S
    BY <1>1
  <2>2. 1 \in Int /\ (k + 1) - 1 \in Int
    BY <1>1
  <2>3. /\ front \in Seq(S)
        /\ Len(front) = IF 1 <= (k + 1) - 1 THEN ((k + 1) - 1) - 1 + 1 ELSE 0
        /\ \A n \in 1 .. ((k + 1) - 1) - 1 + 1 : front[n] = list[1 + n - 1]
    BY <2>1, <2>2, SubSeqProperties
  <2> QED
    BY <1>1, <2>3
<1>3. /\ back \in Seq(S) /\ Len(back) = Len(list) - k
      /\ \A n \in 1 .. Len(list) - k : back[n] = list[k + n]
  <2>1. \A n \in k + 1 .. Len(list) : list[n] \in S
    BY <1>1
  <2>2. k + 1 \in Int /\ Len(list) \in Int
    BY <1>1
  <2>3. /\ back \in Seq(S)
        /\ Len(back) = IF k + 1 <= Len(list) THEN Len(list) - (k + 1) + 1 ELSE 0
        /\ \A n \in 1 .. Len(list) - (k + 1) + 1 : back[n] = list[(k + 1) + n - 1]
    BY <2>1, <2>2, SubSeqProperties
  <2> QED
    BY <1>1, <2>3
<1> HIDE DEF front, back
<1>4. <<x>> \in Seq(S) /\ Len(<<x>>) = 1 /\ <<x>>[1] = x
  OBVIOUS
<1>5. /\ mid \in Seq(S) /\ Len(mid) = k + 1
      /\ \A n \in 1 .. k + 1 :
           mid[n] = IF n <= k THEN list[n] ELSE x
  <2>1. /\ mid \in Seq(S)
        /\ Len(mid) = Len(front) + Len(<<x>>)
        /\ \A n \in 1 .. Len(front) + Len(<<x>>) :
             mid[n] = IF n <= Len(front) THEN front[n]
                                   ELSE <<x>>[n - Len(front)]
    BY <1>2, <1>4, ConcatProperties
  <2>2. \A n \in 1 .. k + 1 : n <= k \/ n - k = 1
    BY <1>1
  <2> QED
    BY <1>1, <1>2, <1>4, <2>1, <2>2
<1> HIDE DEF mid
<1>6. /\ longer \in Seq(S) /\ Len(longer) = Len(list) + 1
      /\ \A n \in 1 .. Len(list) + 1 :
           longer[n] = IF n <= k + 1 THEN mid[n] ELSE back[n - (k + 1)]
  <2>1. /\ longer \in Seq(S)
        /\ Len(longer) = Len(mid) + Len(back)
        /\ \A n \in 1 .. Len(mid) + Len(back) :
             longer[n] = IF n <= Len(mid) THEN mid[n]
                         ELSE back[n - Len(mid)]
    BY <1>3, <1>5, ConcatProperties
  <2> QED
    BY <1>1, <1>3, <1>5, <2>1
<1> HIDE DEF longer
<1>7. \A n \in 1 .. Len(list) + 1 :
        longer[n] = IF n <= k THEN list[n]
                    ELSE IF n = k + 1 THEN x ELSE list[n - 1]
  <2> TAKE n \in 1 .. Len(list) + 1
  <2>1. CASE n <= k + 1
    <3>1. n \in 1 .. k + 1 /\ longer[n] = mid[n]
      BY <1>1, <1>6, <2>1
    <3>2. longer[n] = IF n <= k THEN list[n] ELSE x
      BY <1>5, <3>1
    <3> QED
      BY <1>1, <2>1, <3>2
  <2>2. CASE n > k + 1
    <3>1. n - (k + 1) \in 1 .. Len(list) - k /\ k + (n - (k + 1)) = n - 1
      BY <1>1, <2>2
    <3>2. back[n - (k + 1)] = list[n - 1]
      BY <1>3, <3>1
    <3> QED
      BY <1>1, <1>6, <2>2, <3>2
  <2> QED
    BY <1>1, <2>1, <2>2
<1>8. InsertAt(list, k + 1, x) = longer
  BY DEF InsertAt, longer, mid, front, back
<1> QED
  BY <1>6, <1>7, <1>8 DEF Inserted

LEMMA InsertLinks ==
  ASSUME NEW S, NEW list \in Seq(S), NEW x \in S, NEW k \in 0 .. Len(list)
  PROVE  /\ InsertAt(list, k + 1, x) \in Seq(S)
         /\ \A y : Linked(InsertAt(list, k + 1, x), y) <=> Linked(list, y) \/ y = x
         /\ NoRepeat(list) /\ ~Linked(list, x) => NoRepeat(InsertAt(list, k + 1, x))
BY InsertAtElements, InsertedLinks

LEMMA ConsLinks ==
  ASSUME NEW S, NEW list \in Seq(S), NEW x \in S
  PROVE  /\ <<x>> \o list \in Seq(S)
         /\ \A y : Linked(<<x>> \o list, y) <=> Linked(list, y) \/ y = x
         /\ NoRepeat(list) /\ ~Linked(list, x) => NoRepeat(<<x>> \o list)
<1> DEFINE longer == <<x>> \o list
<1>1. Len(list) \in Nat /\ <<x>> \in Seq(S) /\ Len(<<x>>) = 1 /\ <<x>>[1] = x
  BY LenProperties
<1>2. /\ longer \in Seq(S) /\ Len(longer) = Len(<<x>>) + Len(list)
      /\ \A n \in 1 .. Len(<<x>>) + Len(list) :
           longer[n] = IF n <= Len(<<x>>) THEN <<x>>[n] ELSE list[n - Len(<<x>>)]
  BY <1>1, ConcatProperties
<1> HIDE DEF longer
<1>3. /\ longer \in Seq(S) /\ Len(longer) = Len(list) + 1 /\ 0 \in 0 .. Len(list)
      /\ \A n \in 1 .. Len(list) + 1 :
           longer[n] = IF n <= 0 THEN list[n]
                       ELSE IF n = 0 + 1 THEN x ELSE list[n - 1]
  <2>1. \A n \in 1 .. Len(list) + 1 : ~ (n <= 0) /\ (n <= 1 <=> n = 0 + 1)
    BY <1>1
  <2> QED
    BY <1>1, <1>2, <2>1
<1>4. /\ \A y : Linked(longer, y) <=> Linked(list, y) \/ y = x
      /\ NoRepeat(list) /\ ~Linked(list, x) => NoRepeat(longer)
  <2>1. Inserted(longer, list, x, 0)
    BY <1>3 DEF Inserted
  <2> QED
    BY <1>3, <2>1, InsertedLinks
<1> QED
  BY <1>3, <1>4 DEF longer
-----------------------------------------------------------------------------
(***************************************************************************)
(* Lists with relative counts.                                             *)
(***************************************************************************)
(* The definition of TimeTo is a definition.                               *)
LEMMA TimeToSteps ==
  ASSUME NEW list, Len(list) \in Nat, NEW count
  PROVE  /\ TimeTo(list, count, 0) = 0
         /\ \A k \in 1 .. Len(list) :
              TimeTo(list, count, k) = TimeTo(list, count, k - 1) + count[list[k]]
<1> DEFINE N == Len(list)
           Sums(g, m) == g = [j \in 0 .. m |->
                                IF j = 0 THEN 0 ELSE g[j - 1] + count[list[j]]]
           Bad == {m \in Nat : ~ \E g : Sums(g, m)}
<1>1. N \in Nat
  OBVIOUS
<1>2. \E g : Sums(g, 0)
  <2> DEFINE g == [j \in 0 .. 0 |-> 0]
  <2>1. Sums(g, 0)
    OBVIOUS
  <2> QED BY <2>1
<1>3. ASSUME NEW m \in Nat, NEW g, Sums(g, m) PROVE \E h : Sums(h, m + 1)
  <2> DEFINE h == [j \in 0 .. m + 1 |->
                     IF j = m + 1 THEN g[m] + count[list[m + 1]] ELSE g[j]]
  <2>1. \A j \in 0 .. m : h[j] = g[j]
    OBVIOUS
  <2>2. \A j \in 0 .. m : g[j] = IF j = 0 THEN 0 ELSE g[j - 1] + count[list[j]]
    BY <1>3
  <2>3. ASSUME NEW j \in 0 .. m + 1
        PROVE  h[j] = IF j = 0 THEN 0 ELSE h[j - 1] + count[list[j]]
    <3>1. CASE j = m + 1
      <4>1. j # 0 /\ j - 1 = m /\ m \in 0 .. m
        BY <3>1
      <4> QED BY <2>1, <3>1, <4>1
    <3>2. CASE j # m + 1
      <4>1. j \in 0 .. m /\ (j # 0 => j - 1 \in 0 .. m)
        BY <3>2
      <4> QED BY <2>1, <2>2, <4>1
    <3> QED BY <3>1, <3>2
  <2>4. h = [j \in 0 .. m + 1 |-> h[j]]
    OBVIOUS
  <2> HIDE DEF h
  <2>5. [j \in 0 .. m + 1 |-> h[j]]
          = [j \in 0 .. m + 1 |-> IF j = 0 THEN 0 ELSE h[j - 1] + count[list[j]]]
    BY <2>3
  <2> QED BY <2>4, <2>5
<1>4. Bad = {}
  <2> SUFFICES ASSUME Bad # {} PROVE FALSE
    OBVIOUS
  <2>1. PICK m \in Bad : \A n \in Bad : m <= n
    BY LeastExists
  <2> DEFINE Has(n) == \E g : Sums(g, n)
  <2>6. m \in Nat /\ ~Has(m) /\ Has(0)
    BY <1>2, <2>1
  <2>7. \A n \in Nat : n \notin Bad => Has(n)
    OBVIOUS
  <2> HIDE DEF Has, Bad
  <2>2. m - 1 \in Nat /\ m - 1 \notin Bad
    BY <2>1, <2>6
  <2>3. PICK g : Sums(g, m - 1)
    BY <2>2, <2>7 DEF Has
  <2>4. \E h : Sums(h, (m - 1) + 1)
    BY <1>3, <2>2, <2>3
  <2>5. (m - 1) + 1 = m
    BY <2>6
  <2> QED BY <2>6, <2>4, <2>5 DEF Has
<1> DEFINE sum == CHOOSE g : Sums(g, N)
<1>5. Sums(sum, N)
  BY <1>1, <1>4
<1>6. ASSUME NEW k PROVE TimeTo(list, count, k) = sum[k]
  BY DEF TimeTo
<1> HIDE DEF sum
<1>7. \A j \in 0 .. N : sum[j] = IF j = 0 THEN 0 ELSE sum[j - 1] + count[list[j]]
  BY <1>5
<1>8. 0 \in 0 .. N /\ \A k \in 1 .. N : k \in 0 .. N /\ k # 0
  BY <1>1
<1> QED
  BY <1>6, <1>7, <1>8

(* Induction, for a property that is a set of numbers.                     *)
LEMMA Induct ==
  ASSUME NEW N \in Nat, NEW P, 0 \in P,
         \A k \in 0 .. N - 1 : k \in P => k + 1 \in P
  PROVE  \A k \in 0 .. N : k \in P
<1> DEFINE Bad == {k \in 0 .. N : k \notin P}
<1> SUFFICES ASSUME Bad # {} PROVE FALSE
  OBVIOUS
<1>1. Bad \in SUBSET Nat
  OBVIOUS
<1>2. PICK m \in Bad : \A n \in Bad : m <= n
  BY <1>1, LeastExists
<1>3. m \in 0 .. N /\ m \notin P /\ m # 0
  BY <1>2
<1>4. m - 1 \in 0 .. N - 1 /\ (m - 1) + 1 = m /\ m - 1 \in 0 .. N /\ ~ (m <= m - 1)
  BY <1>3
<1>5. m - 1 \notin Bad
  BY <1>2, <1>4
<1> QED
  BY <1>3, <1>4, <1>5

(* TimeTo is a natural number and grows along the list.                    *)
LEMMA TimeToNat ==
  ASSUME NEW S, NEW list \in Seq(S), NEW count \in [S -> Nat]
  PROVE  \A k \in 0 .. Len(list) : TimeTo(list, count, k) \in Nat
<1> DEFINE P == {k \in Nat : TimeTo(list, count, k) \in Nat}
<1>1. Len(list) \in Nat /\ \A k \in 1 .. Len(list) : count[list[k]] \in Nat
  BY LenProperties, ElementOfSeq
<1>2. 0 \in P
  BY TimeToSteps
<1>3. ASSUME NEW k \in 0 .. Len(list) - 1, k \in P PROVE k + 1 \in P
  <2>1. k + 1 \in 1 .. Len(list) /\ (k + 1) - 1 = k
    BY <1>1
  <2>2. TimeTo(list, count, k + 1) = TimeTo(list, count, k) + count[list[k + 1]]
    BY <2>1, TimeToSteps
  <2> QED
    BY <1>1, <1>3, <2>1, <2>2
<1>4. \A k \in 0 .. Len(list) : k \in P
  <2> HIDE DEF P
  <2> QED BY <1>1, <1>2, <1>3, Induct
<1> QED
  BY <1>4

LEMMA TimeToGrows ==
  ASSUME NEW S, NEW list \in Seq(S), NEW count \in [S -> Nat],
         NEW j \in 0 .. Len(list), NEW k \in 0 .. Len(list), j <= k
  PROVE  TimeTo(list, count, j) <= TimeTo(list, count, k)
<1> DEFINE T(n) == TimeTo(list, count, n)
           P == {n \in Nat : j <= n => T(j) <= T(n)}
<1>1. Len(list) \in Nat /\ \A n \in 1 .. Len(list) : count[list[n]] \in Nat
  BY LenProperties, ElementOfSeq
<1>2. /\ \A n \in 0 .. Len(list) : T(n) \in Nat
      /\ \A n \in 1 .. Len(list) : T(n) = T(n - 1) + count[list[n]]
  BY TimeToNat, TimeToSteps
<1> HIDE DEF T
<1>3. 0 \in P
  <2>1. j <= 0 => j = 0
    BY <1>1
  <2>2. T(j) \in Nat
    BY <1>2
  <2> QED BY <2>1, <2>2
<1>4. ASSUME NEW n \in 0 .. Len(list) - 1, n \in P PROVE n + 1 \in P
  <2>1. n + 1 \in 1 .. Len(list) /\ (n + 1) - 1 = n /\ n \in 0 .. Len(list)
        /\ n + 1 \in 0 .. Len(list) /\ n + 1 \in Nat
    BY <1>1
  <2>2. T(n + 1) = T(n) + count[list[n + 1]]
    BY <1>2, <2>1
  <2>3. T(n) <= T(n + 1)
    BY <1>1, <1>2, <2>1, <2>2
  <2>4. CASE j <= n
    <3>1. T(j) <= T(n)
      BY <1>4, <2>4
    <3>2. T(j) \in Nat /\ T(n) \in Nat /\ T(n + 1) \in Nat
      BY <1>2, <2>1
    <3> QED BY <2>1, <2>3, <3>1, <3>2
  <2>5. CASE ~ (j <= n)
    <3>1. j <= n + 1 => j = n + 1
      BY <2>5
    <3>2. T(n + 1) \in Nat
      BY <1>2, <2>1
    <3> QED BY <2>1, <3>1, <3>2
  <2> QED
    BY <2>4, <2>5
<1>5. \A n \in 0 .. Len(list) : n \in P
  <2> HIDE DEF P
  <2> QED BY <1>1, <1>3, <1>4, Induct
<1> QED
  BY <1>5 DEF T

(* Whatever has the steps of TimeTo is TimeTo.                             *)
AreTimes(g, list, count) ==
  g[0] = 0 /\ \A k \in 1 .. Len(list) : g[k] = g[k - 1] + count[list[k]]

LEMMA TimeToIs ==
  ASSUME NEW list, Len(list) \in Nat, NEW count, NEW g, AreTimes(g, list, count)
  PROVE  \A k \in 0 .. Len(list) : TimeTo(list, count, k) = g[k]
<1> DEFINE P == {k \in Nat : TimeTo(list, count, k) = g[k]}
<1>1. Len(list) \in Nat
  OBVIOUS
<1>2. 0 \in P
  BY TimeToSteps DEF AreTimes
<1>3. ASSUME NEW k \in 0 .. Len(list) - 1, k \in P PROVE k + 1 \in P
  <2>1. k + 1 \in 1 .. Len(list) /\ (k + 1) - 1 = k /\ k + 1 \in Nat
    BY <1>1
  <2>2. TimeTo(list, count, k + 1) = TimeTo(list, count, k) + count[list[k + 1]]
    BY <2>1, TimeToSteps
  <2>3. g[k + 1] = g[k] + count[list[k + 1]]
    BY <2>1 DEF AreTimes
  <2> QED
    BY <1>3, <2>1, <2>2, <2>3
<1>4. \A k \in 0 .. Len(list) : k \in P
  <2> HIDE DEF P
  <2> QED BY <1>1, <1>2, <1>3, Induct
<1> QED
  BY <1>4

(* A finite set of naturals has a greatest element.                        *)
LEMMA GreatestExists ==
  ASSUME NEW N \in Nat, NEW A \in SUBSET (0 .. N), A # {}
  PROVE  Max(A) \in A /\ \A n \in A : n <= Max(A)
<1> DEFINE B == {N - n : n \in A}
<1>0. \A n \in A : n \in 0 .. N /\ N - n \in Nat /\ N - n \in B
  OBVIOUS
<1>1. B \in SUBSET Nat /\ B # {}
  BY <1>0
<1>2. PICK m \in B : \A n \in B : m <= n
  BY <1>1, LeastExists
<1>3. PICK k \in A : m = N - k
  BY <1>2
<1>4. ASSUME NEW n \in A PROVE k >= n
  <2>1. N - n \in B
    OBVIOUS
  <2>2. N - k <= N - n
    BY <1>2, <1>3, <2>1
  <2>3. k \in 0 .. N /\ n \in 0 .. N
    OBVIOUS
  <2> QED BY <2>2, <2>3
<1>5. \E x \in A : \A y \in A : x >= y
  BY <1>4
<1>6. Max(A) \in A /\ \A y \in A : Max(A) >= y
  BY <1>5 DEF Max
<1>7. Max(A) \in 0 .. N /\ \A y \in A : y \in 0 .. N
  BY <1>6
<1> QED
  BY <1>6, <1>7

(* Passed divides the list: those that come up within n, and the others.   *)
LEMMA PassedDivides ==
  ASSUME NEW S, NEW list \in Seq(S), NEW count \in [S -> Nat], NEW n \in Int
  PROVE  /\ Passed(list, count, n) \in 0 .. Len(list)
         /\ \A j \in 1 .. Len(list) :
              TimeTo(list, count, j) <= n <=> j <= Passed(list, count, n)
<1> DEFINE T(k) == TimeTo(list, count, k)
           A == {0} \cup {k \in 1 .. Len(list) : T(k) <= n}
<1>1. Len(list) \in Nat
  BY LenProperties
<1>2. A \in SUBSET (0 .. Len(list)) /\ A # {}
  BY <1>1
<1>3. Max(A) \in A /\ \A k \in A : k <= Max(A)
  BY <1>1, <1>2, GreatestExists
<1>4. Passed(list, count, n) = Max(A)
  BY DEF Passed
<1> DEFINE p == Passed(list, count, n)
<1>5. p \in A /\ \A k \in A : k <= p
  BY <1>3, <1>4
<1>6. p \in 0 .. Len(list)
  BY <1>1, <1>5
<1>7. \A k \in 0 .. Len(list) : T(k) \in Nat
  BY TimeToNat
<1>8. \A j, k \in 0 .. Len(list) : j <= k => T(j) <= T(k)
  BY TimeToGrows
<1> HIDE DEF p, T
<1>9. ASSUME NEW j \in 1 .. Len(list), j <= p PROVE T(j) <= n
  <2>1. p # 0
    BY <1>6, <1>9
  <2>2. T(p) <= n /\ p \in 0 .. Len(list) /\ j \in 0 .. Len(list)
    BY <1>5, <1>6, <2>1
  <2>3. T(j) <= T(p)
    BY <1>8, <1>9, <2>2
  <2>4. T(j) \in Nat /\ T(p) \in Nat
    BY <1>7, <2>2
  <2> QED BY <2>2, <2>3, <2>4
<1>10. ASSUME NEW j \in 1 .. Len(list), T(j) <= n PROVE j <= p
  BY <1>5, <1>10
<1> QED
  BY <1>6, <1>9, <1>10 DEF p, T

LEMMA PassedIs ==
  ASSUME NEW S, NEW list \in Seq(S), NEW count \in [S -> Nat], NEW n \in Int,
         NEW p \in 0 .. Len(list),
         \A j \in 1 .. Len(list) : TimeTo(list, count, j) <= n <=> j <= p
  PROVE  Passed(list, count, n) = p
<1> DEFINE q == Passed(list, count, n)
<1>1. Len(list) \in Nat
  BY LenProperties
<1>2. q \in 0 .. Len(list)
      /\ \A j \in 1 .. Len(list) : TimeTo(list, count, j) <= n <=> j <= q
  BY PassedDivides
<1> HIDE DEF q
<1>3. \A j \in 1 .. Len(list) : j <= p <=> j <= q
  BY <1>2
<1>4. p = q
  BY <1>1, <1>2, <1>3
<1> QED
  BY <1>4 DEF q

(* The nodes that come up in n are a section of the list.                  *)
LEMMA ComingUpSection ==
  ASSUME NEW S, NEW list \in Seq(S), NEW count \in [S -> Nat], NEW n \in Int
  PROVE  /\ Passed(list, count, n - 1) \in 0 .. Len(list)
         /\ Passed(list, count, n) \in 0 .. Len(list)
         /\ Passed(list, count, n - 1) <= Passed(list, count, n)
         /\ ComingUp(list, count, n) \in Seq(S)
         /\ Len(ComingUp(list, count, n))
              = Passed(list, count, n) - Passed(list, count, n - 1)
         /\ \A i \in 1 .. Passed(list, count, n) - Passed(list, count, n - 1) :
              ComingUp(list, count, n)[i] = list[Passed(list, count, n - 1) + i]
<1> DEFINE lo == Passed(list, count, n - 1)
           hi == Passed(list, count, n)
<1>0. n - 1 \in Int
  OBVIOUS
<1>1. Len(list) \in Nat /\ \A j \in 1 .. Len(list) : list[j] \in S
  BY LenProperties, ElementOfSeq
<1>2. /\ lo \in 0 .. Len(list) /\ hi \in 0 .. Len(list)
      /\ \A j \in 1 .. Len(list) : TimeTo(list, count, j) <= n - 1 <=> j <= lo
      /\ \A j \in 1 .. Len(list) : TimeTo(list, count, j) <= n <=> j <= hi
  BY <1>0, PassedDivides
<1>5. ComingUp(list, count, n) = SubSeq(list, lo + 1, hi)
  BY DEF ComingUp
<1> HIDE DEF lo, hi
<1>3. \A j \in 1 .. Len(list) : TimeTo(list, count, j) \in Nat
  BY <1>1, TimeToNat
<1>4. lo <= hi
  <2>1. CASE lo = 0
    BY <1>2, <2>1
  <2>2. CASE lo # 0
    <3>1. lo \in 1 .. Len(list)
      BY <1>1, <1>2, <2>2
    <3>2. TimeTo(list, count, lo) <= n - 1
      BY <1>2, <3>1
    <3>3. TimeTo(list, count, lo) <= n
      BY <1>3, <3>1, <3>2
    <3> QED BY <1>2, <3>1, <3>3
  <2> QED BY <2>1, <2>2
<1>6. \A i \in lo + 1 .. hi : list[i] \in S
  BY <1>1, <1>2
<1>7. lo + 1 \in Int /\ hi \in Int
  BY <1>1, <1>2
<1>8. /\ SubSeq(list, lo + 1, hi) \in Seq(S)
      /\ Len(SubSeq(list, lo + 1, hi)) = IF lo + 1 <= hi THEN hi - (lo + 1) + 1 ELSE 0
      /\ \A i \in 1 .. hi - (lo + 1) + 1 :
           SubSeq(list, lo + 1, hi)[i] = list[(lo + 1) + i - 1]
  BY <1>6, <1>7, SubSeqProperties
<1>9. \A i \in 1 .. hi - lo : (lo + 1) + i - 1 = lo + i /\ i \in 1 .. hi - (lo + 1) + 1
  BY <1>1, <1>2
<1>10. (IF lo + 1 <= hi THEN hi - (lo + 1) + 1 ELSE 0) = hi - lo
  BY <1>1, <1>2, <1>4
<1> QED
  BY <1>2, <1>4, <1>5, <1>8, <1>9, <1>10 DEF lo, hi

LEMMA ComingUpLinks ==
  ASSUME NEW S, NEW list \in Seq(S), NEW count \in [S -> Nat], NEW n \in Int, NEW x
  PROVE  Linked(ComingUp(list, count, n), x)
           <=> \E j \in 1 .. Len(list) : list[j] = x /\ TimeTo(list, count, j) = n
<1> DEFINE lo == Passed(list, count, n - 1)
           hi == Passed(list, count, n)
           up == ComingUp(list, count, n)
           T(j) == TimeTo(list, count, j)
<1>1. Len(list) \in Nat /\ n - 1 \in Int
  BY LenProperties
<1>2. /\ \A j \in 1 .. Len(list) : T(j) <= n - 1 <=> j <= lo
      /\ \A j \in 1 .. Len(list) : T(j) <= n <=> j <= hi
  BY <1>1, PassedDivides
<1>3. \A j \in 1 .. Len(list) : T(j) \in Nat
  BY <1>1, TimeToNat
<1>4. /\ lo \in 0 .. Len(list) /\ hi \in 0 .. Len(list) /\ lo <= hi
      /\ up \in Seq(S) /\ Len(up) = hi - lo
      /\ \A i \in 1 .. hi - lo : up[i] = list[lo + i]
  <2>1. lo \in 0 .. Len(list)
    BY ComingUpSection
  <2>2. hi \in 0 .. Len(list) /\ lo <= hi
    BY ComingUpSection
  <2>3. up \in Seq(S)
    BY ComingUpSection
  <2>4. Len(up) = hi - lo
    BY ComingUpSection
  <2>5. \A i \in 1 .. hi - lo : up[i] = list[lo + i]
    BY ComingUpSection
  <2> QED BY <2>1, <2>2, <2>3, <2>4, <2>5
<1> HIDE DEF lo, hi, up, T
<1>5. \A j \in 1 .. Len(list) : T(j) = n <=> lo < j /\ j <= hi
  <2> TAKE j \in 1 .. Len(list)
  <2>1. T(j) \in Nat /\ (T(j) <= n - 1 <=> j <= lo) /\ (T(j) <= n <=> j <= hi)
    BY <1>2, <1>3
  <2> QED BY <1>1, <1>4, <2>1
<1>6. DOMAIN up = 1 .. hi - lo
  BY <1>4, LenProperties
<1>7. ASSUME NEW i \in 1 .. hi - lo, up[i] = x
      PROVE  \E j \in 1 .. Len(list) : list[j] = x /\ T(j) = n
  <2>1. lo + i \in 1 .. Len(list) /\ lo < lo + i /\ lo + i <= hi /\ list[lo + i] = x
    BY <1>1, <1>4, <1>7
  <2> QED BY <1>5, <2>1
<1>8. ASSUME NEW j \in 1 .. Len(list), list[j] = x, T(j) = n
      PROVE  \E i \in 1 .. hi - lo : up[i] = x
  <2>1. lo < j /\ j <= hi
    BY <1>5, <1>8
  <2>2. j - lo \in 1 .. hi - lo /\ lo + (j - lo) = j
    BY <1>1, <1>4, <2>1
  <2>3. up[j - lo] = list[lo + (j - lo)]
    BY <1>4, <2>2
  <2> QED BY <1>8, <2>2, <2>3
<1> QED
  BY <1>6, <1>7, <1>8 DEF Linked, ToSet, up, T

(* A list whose times agree with those of another gives the same nodes.    *)
SameCounts(list, count, after) ==
  \A j \in 1 .. Len(list) : after[list[j]] = count[list[j]]

LEMMA ComingUpSame ==
  ASSUME NEW S, NEW list \in Seq(S), NEW count \in [S -> Nat], NEW after,
         SameCounts(list, count, after)
  PROVE  /\ \A k \in 0 .. Len(list) : TimeTo(list, after, k) = TimeTo(list, count, k)
         /\ \A n : ComingUp(list, after, n) = ComingUp(list, count, n)
<1> DEFINE g == [k \in 0 .. Len(list) |-> TimeTo(list, count, k)]
<1>1. Len(list) \in Nat
  BY LenProperties
<1>2. g[0] = 0
  BY <1>1, TimeToSteps
<1>3. \A k \in 1 .. Len(list) : g[k] = g[k - 1] + after[list[k]]
  <2> TAKE k \in 1 .. Len(list)
  <2>1. k \in 0 .. Len(list) /\ k - 1 \in 0 .. Len(list)
    BY <1>1
  <2>2. TimeTo(list, count, k) = TimeTo(list, count, k - 1) + count[list[k]]
    BY <1>1, TimeToSteps
  <2> QED BY <2>1, <2>2 DEF SameCounts
<1>4. \A k \in 0 .. Len(list) : TimeTo(list, after, k) = TimeTo(list, count, k)
  <2>1. \A k \in 0 .. Len(list) : TimeTo(list, after, k) = g[k]
    <3>1. AreTimes(g, list, after)
      BY <1>2, <1>3 DEF AreTimes
    <3> HIDE DEF g
    <3> QED BY <1>1, <3>1, TimeToIs
  <2> QED BY <2>1
<1>5. \A n : {k \in 1 .. Len(list) : TimeTo(list, after, k) <= n}
               = {k \in 1 .. Len(list) : TimeTo(list, count, k) <= n}
  BY <1>1, <1>4
<1>6. \A n : Passed(list, after, n) = Passed(list, count, n)
  BY <1>5 DEF Passed
<1>7. ASSUME NEW n PROVE ComingUp(list, after, n) = ComingUp(list, count, n)
  <2>1. Passed(list, after, n) = Passed(list, count, n)
        /\ Passed(list, after, n - 1) = Passed(list, count, n - 1)
    BY <1>6
  <2> QED BY <2>1 DEF ComingUp
<1> QED
  BY <1>4, <1>7

(* Nothing comes up after the last node, or before now.                    *)
LEMMA NoneComingUp ==
  ASSUME NEW S, NEW list \in Seq(S), NEW count \in [S -> Nat], NEW n \in Int,
         n < 0 \/ TimeTo(list, count, Len(list)) < n
  PROVE  ComingUp(list, count, n) = << >>
<1> DEFINE up == ComingUp(list, count, n)
<1>1. Len(list) \in Nat /\ Len(list) \in 0 .. Len(list)
      /\ \A j \in 1 .. Len(list) : j \in 0 .. Len(list) /\ j <= Len(list)
  BY LenProperties
<1>2. \A j \in 1 .. Len(list) :
        TimeTo(list, count, j) \in Nat
        /\ TimeTo(list, count, j) <= TimeTo(list, count, Len(list))
  BY <1>1, TimeToNat, TimeToGrows
<1>3. TimeTo(list, count, Len(list)) \in Nat
  BY <1>1, TimeToNat
<1>4. \A j \in 1 .. Len(list) : TimeTo(list, count, j) # n
  BY <1>2, <1>3
<1>5. up \in Seq(S) /\ \A x : ~Linked(up, x)
  BY <1>4, ComingUpLinks, ComingUpSection
<1> HIDE DEF up
<1>6. up = << >>
  <2> SUFFICES ASSUME up # << >> PROVE FALSE
    OBVIOUS
  <2>1. Linked(up, Head(up))
    BY <1>5, TailLinks
  <2> QED BY <1>5, <2>1
<1> QED
  BY <1>6 DEF up

(* A section of a list.                                                    *)
Section(up, S, list, lo, hi) ==
  /\ lo \in 0 .. Len(list) /\ hi \in 0 .. Len(list) /\ lo <= hi
  /\ up \in Seq(S) /\ Len(up) = hi - lo
  /\ \A i \in 1 .. hi - lo : up[i] = list[lo + i]

LEMMA ComingUpIsSection ==
  ASSUME NEW S, NEW list \in Seq(S), NEW count \in [S -> Nat], NEW n \in Int
  PROVE  Section(ComingUp(list, count, n), S, list,
                 Passed(list, count, n - 1), Passed(list, count, n))
<1>1. /\ Passed(list, count, n - 1) \in 0 .. Len(list)
      /\ Passed(list, count, n) \in 0 .. Len(list)
  BY ComingUpSection
<1>2. Passed(list, count, n - 1) <= Passed(list, count, n)
  BY ComingUpSection
<1>3. ComingUp(list, count, n) \in Seq(S)
  BY ComingUpSection
<1>4. Len(ComingUp(list, count, n)) = Passed(list, count, n) - Passed(list, count, n - 1)
  BY ComingUpSection
<1>5. \A i \in 1 .. Passed(list, count, n) - Passed(list, count, n - 1) :
        ComingUp(list, count, n)[i] = list[Passed(list, count, n - 1) + i]
  BY ComingUpSection
<1> QED
  BY <1>1, <1>2, <1>3, <1>4, <1>5 DEF Section

LEMMA SameSection ==
  ASSUME NEW S, NEW list \in Seq(S), NEW other \in Seq(S),
         NEW old, NEW lo, NEW hi, Section(old, S, list, lo, hi),
         NEW new, NEW lo2, NEW hi2, Section(new, S, other, lo2, hi2),
         hi2 - lo2 = hi - lo,
         \A i \in 1 .. hi - lo : other[lo2 + i] = list[lo + i]
  PROVE  new = old
<1>1. old \in Seq(S) /\ new \in Seq(S) /\ Len(new) = Len(old)
  BY DEF Section
<1>2. \A i \in 1 .. Len(new) : new[i] = old[i]
  BY DEF Section
<1> QED
  BY <1>1, <1>2, SeqEqual

LEMMA LongerSection ==
  ASSUME NEW S, NEW list \in Seq(S), NEW other \in Seq(S), NEW x \in S,
         NEW old, NEW lo, NEW hi, Section(old, S, list, lo, hi),
         NEW new, NEW lo2, NEW hi2, Section(new, S, other, lo2, hi2),
         hi2 - lo2 = (hi - lo) + 1,
         \A i \in 1 .. hi - lo : other[lo2 + i] = list[lo + i],
         other[hi2] = x
  PROVE  new = Append(old, x)
<1>0. /\ old \in Seq(S) /\ new \in Seq(S) /\ Len(old) = hi - lo /\ Len(new) = hi2 - lo2
      /\ Len(old) \in Nat /\ lo2 \in Int /\ hi2 \in Int
  BY LenProperties DEF Section
<1>1. Append(old, x) \in Seq(S) /\ Len(Append(old, x)) = Len(old) + 1
      /\ \A i \in 1 .. Len(old) : Append(old, x)[i] = old[i]
      /\ Append(old, x)[Len(old) + 1] = x
  BY <1>0, AppendProperties
<1>2. \A i \in 1 .. Len(old) : new[i] = old[i]
  <2> TAKE i \in 1 .. Len(old)
  <2>1. i \in 1 .. hi - lo /\ i \in 1 .. hi2 - lo2
    BY <1>0
  <2> QED BY <2>1 DEF Section
<1>3. new[Len(old) + 1] = x
  <2>1. Len(old) + 1 \in 1 .. hi2 - lo2 /\ lo2 + (Len(old) + 1) = hi2
    BY <1>0
  <2> QED BY <2>1 DEF Section
<1>4. \A i \in 1 .. Len(new) : new[i] = Append(old, x)[i]
  <2> TAKE i \in 1 .. Len(new)
  <2>1. i \in 1 .. Len(old) \/ i = Len(old) + 1
    BY <1>0
  <2> QED BY <1>1, <1>2, <1>3, <2>1
<1> QED
  BY <1>0, <1>1, <1>4, SeqEqual

(***************************************************************************)
(* Inserting a node with n to go: it takes its place after those that come *)
(* up no later, and the next node's count is reduced.                      *)
(***************************************************************************)
InsertedCounts(S, list, count, x, n, after) ==
  LET k    == Passed(list, count, n)
      left == n - TimeTo(list, count, k)
  IN  after = [y \in S |-> IF y = x THEN left
                           ELSE IF k < Len(list) /\ y = list[k + 1] THEN count[y] - left
                           ELSE count[y]]

(* The times of the longer list, one by one.                               *)
LEMMA InsertTimes ==
  ASSUME NEW S, NEW list \in Seq(S), NoRepeat(list), NEW count \in [S -> Nat],
         NEW x \in S, ~Linked(list, x), NEW n \in Nat, NEW k,
         k = Passed(list, count, n), NEW after,
         InsertedCounts(S, list, count, x, n, after)
  PROVE  /\ k \in 0 .. Len(list)
         /\ after \in [S -> Nat]
         /\ InsertAt(list, k + 1, x) \in Seq(S)
         /\ Inserted(InsertAt(list, k + 1, x), list, x, k)
         /\ \A j \in 1 .. Len(list) : TimeTo(list, count, j) <= n <=> j <= k
         /\ \A j \in 0 .. Len(list) + 1 :
              TimeTo(InsertAt(list, k + 1, x), after, j)
                = IF j <= k THEN TimeTo(list, count, j)
                  ELSE IF j = k + 1 THEN n ELSE TimeTo(list, count, j - 1)
<1> DEFINE T(j) == TimeTo(list, count, j)
           left == n - T(k)
           longer == InsertAt(list, k + 1, x)
           g == [j \in 0 .. Len(list) + 1 |->
                   IF j <= k THEN T(j) ELSE IF j = k + 1 THEN n ELSE T(j - 1)]
<1>1. /\ Len(list) \in Nat /\ \A j \in 1 .. Len(list) : list[j] \in S
      /\ DOMAIN list = 1 .. Len(list)
  BY LenProperties, ElementOfSeq
<1>2. /\ k \in 0 .. Len(list)
      /\ \A j \in 1 .. Len(list) : T(j) <= n <=> j <= k
  <2>1. n \in Int
    OBVIOUS
  <2> QED BY <2>1, PassedDivides
<1>3. \A y \in S : after[y] = IF y = x THEN left
                   ELSE IF k < Len(list) /\ y = list[k + 1] THEN count[y] - left
                   ELSE count[y]
  BY DEF InsertedCounts
<1>4. /\ T(0) = 0
      /\ \A j \in 1 .. Len(list) : T(j) = T(j - 1) + count[list[j]]
      /\ \A j \in 0 .. Len(list) : T(j) \in Nat
  BY TimeToSteps, TimeToNat
<1>5. longer \in Seq(S) /\ Inserted(longer, list, x, k)
  BY <1>2, InsertAtElements
<1>6. /\ Len(longer) = Len(list) + 1
      /\ \A m \in 1 .. Len(list) + 1 :
           longer[m] = IF m <= k THEN list[m] ELSE IF m = k + 1 THEN x ELSE list[m - 1]
  BY <1>5 DEF Inserted
<1>7. \A j \in 1 .. Len(list) : list[j] # x
  BY <1>1 DEF Linked, ToSet
<1>8. \A i, j \in 1 .. Len(list) : list[i] = list[j] => i = j
  BY <1>1 DEF NoRepeat
<1> HIDE DEF T, longer, left
<1>9. left \in Nat /\ T(k) + left = n
  <2>1. T(k) \in Nat /\ T(k) <= n
    <3>1. CASE k = 0
      BY <1>4, <3>1, <1>1
    <3>2. CASE k # 0
      <4>1. k \in 1 .. Len(list) /\ k \in 0 .. Len(list)
        BY <1>1, <1>2, <3>2
      <4> QED BY <1>2, <1>4, <4>1
    <3> QED BY <3>1, <3>2
  <2> QED BY <2>1 DEF left
<1>10. ASSUME k < Len(list)
       PROVE  count[list[k + 1]] - left \in Nat
              /\ T(k + 1) = n + (count[list[k + 1]] - left)
  <2>1. k + 1 \in 1 .. Len(list) /\ (k + 1) - 1 = k /\ ~(k + 1 <= k)
    BY <1>1, <1>2, <1>10
  <2>2. T(k + 1) = T(k) + count[list[k + 1]] /\ ~(T(k + 1) <= n)
    BY <1>2, <1>4, <2>1
  <2>3. T(k) \in Nat /\ count[list[k + 1]] \in Nat
    BY <1>1, <1>2, <1>4, <2>1
  <2> QED BY <1>9, <2>2, <2>3
<1>11. ASSUME NEW y \in S PROVE after[y] \in Nat
  <2>1. CASE y = x
    BY <1>3, <1>9, <2>1
  <2>2. CASE y # x /\ k < Len(list) /\ y = list[k + 1]
    BY <1>3, <1>10, <2>2
  <2>3. CASE y # x /\ ~ (k < Len(list) /\ y = list[k + 1])
    BY <1>3, <2>3
  <2> QED BY <2>1, <2>2, <2>3
<1>16. after \in [S -> Nat]
  <2>1. after = [y \in S |-> after[y]]
    BY DEF InsertedCounts
  <2> HIDE DEF InsertedCounts
  <2> QED BY <1>11, <2>1
<1>12. g[0] = 0
  BY <1>1, <1>2, <1>4
<1>13. ASSUME NEW j \in 1 .. Len(longer) PROVE g[j] = g[j - 1] + after[longer[j]]
  <2>1. j \in 1 .. Len(list) + 1 /\ j \in 0 .. Len(list) + 1 /\ j - 1 \in 0 .. Len(list) + 1
    BY <1>1, <1>6
  <2>2. CASE j <= k
    <3>1. j \in 1 .. Len(list) /\ longer[j] = list[j] /\ j - 1 <= k /\ j # k + 1
      BY <1>1, <1>2, <1>6, <2>1, <2>2
    <3>2. after[longer[j]] = count[list[j]]
      <4>1. k < Len(list) => k + 1 \in 1 .. Len(list)
        BY <1>1, <1>2
      <4>2. ~ (k < Len(list) /\ list[j] = list[k + 1])
        BY <1>8, <3>1, <4>1
      <4> QED BY <1>1, <1>3, <1>7, <3>1, <4>2
    <3>3. g[j] = T(j) /\ g[j - 1] = T(j - 1)
      BY <2>1, <2>2, <3>1
    <3> QED BY <1>4, <3>1, <3>2, <3>3
  <2>3. CASE j = k + 1
    <3>1. longer[j] = x /\ ~ (j <= k) /\ j - 1 = k /\ k <= k
      BY <1>1, <1>2, <1>6, <2>1, <2>3
    <3>2. g[j] = n /\ g[j - 1] = T(k)
      BY <2>1, <2>3, <3>1
    <3> QED BY <1>3, <1>9, <3>1, <3>2
  <2>4. CASE j = k + 2
    <3>1. k < Len(list) /\ longer[j] = list[k + 1] /\ ~ (j <= k) /\ j # k + 1
          /\ j - 1 = k + 1 /\ ~ (k + 1 <= k) /\ k + 1 \in 1 .. Len(list)
      BY <1>1, <1>2, <1>6, <2>1, <2>4
    <3>2. g[j] = T(k + 1) /\ g[j - 1] = n
      BY <2>1, <3>1
    <3>3. after[longer[j]] = count[list[k + 1]] - left
      BY <1>1, <1>3, <1>7, <3>1
    <3> QED BY <1>10, <3>1, <3>2, <3>3
  <2>5. CASE j > k + 2
    <3>1. /\ longer[j] = list[j - 1] /\ ~ (j <= k) /\ j # k + 1 /\ ~ (j - 1 <= k)
          /\ j - 1 # k + 1 /\ j - 1 \in 1 .. Len(list)
      <4>1. Len(list) \in Nat /\ k \in 0 .. Len(list)
        BY <1>1, <1>2
      <4>2. /\ ~ (j <= k) /\ j # k + 1 /\ ~ (j - 1 <= k)
            /\ j - 1 # k + 1 /\ j - 1 \in 1 .. Len(list)
        BY ONLY <2>1, <2>5, <4>1
      <4>3. longer[j] = list[j - 1]
        BY <1>6, <2>1, <4>2
      <4> QED
        BY <4>2, <4>3
    <3>2. g[j] = T(j - 1) /\ g[j - 1] = T((j - 1) - 1)
      BY <2>1, <3>1
    <3>3. after[longer[j]] = count[list[j - 1]]
      <4>1. k < Len(list) => k + 1 \in 1 .. Len(list)
        BY <1>1, <1>2
      <4>2. ~ (k < Len(list) /\ list[j - 1] = list[k + 1])
        BY <1>8, <3>1, <4>1
      <4> QED BY <1>1, <1>3, <1>7, <3>1, <4>2
    <3>4. T(j - 1) = T((j - 1) - 1) + count[list[j - 1]]
      BY <1>4, <3>1
    <3> QED BY <3>2, <3>3, <3>4
  <2>6. j <= k \/ j = k + 1 \/ j = k + 2 \/ j > k + 2
    BY <1>1, <1>2, <2>1
  <2> QED BY <2>2, <2>3, <2>4, <2>5, <2>6
<1>14. \A j \in 0 .. Len(longer) : TimeTo(longer, after, j) = g[j]
  <2> HIDE DEF g
  <2>1. AreTimes(g, longer, after)
    BY <1>12, <1>13 DEF AreTimes
  <2>2. Len(longer) \in Nat
    BY <1>1, <1>6
  <2> QED BY <2>1, <2>2, TimeToIs
<1>15. \A j \in 0 .. Len(list) + 1 : TimeTo(longer, after, j)
         = IF j <= k THEN T(j) ELSE IF j = k + 1 THEN n ELSE T(j - 1)
  BY <1>6, <1>14
<1> QED
  BY <1>2, <1>5, <1>16, <1>15 DEF T, longer

LEMMA InsertCountsType ==
  ASSUME NEW S, NEW list \in Seq(S), NoRepeat(list), NEW count \in [S -> Nat],
         NEW x \in S, ~Linked(list, x), NEW n \in Nat, NEW after,
         InsertedCounts(S, list, count, x, n, after)
  PROVE  after \in [S -> Nat]
<1> DEFINE k == Passed(list, count, n)
<1>1. after \in [S -> Nat]
  <2>1. k = Passed(list, count, n)
    OBVIOUS
  <2> HIDE DEF k
  <2> QED BY <2>1, InsertTimes
<1> QED
  BY <1>1

(* The times T of N nodes: q of them are within i.                         *)
Divides(q, T, N, i) ==
  q \in 0 .. N /\ \A j \in 1 .. N : T[j] <= i <=> j <= q

NatTimes(T, N) == \A j \in 0 .. N : T[j] \in Nat

(* The times U of N + 1 nodes: those of T and n, the k + 1-st of them.     *)
TimesShifted(U, T, N, k, n) ==
  \A j \in 0 .. N + 1 : U[j] = IF j <= k THEN T[j]
                               ELSE IF j = k + 1 THEN n ELSE T[j - 1]

Between(k, T, N, n) ==
  /\ k \in 0 .. N
  /\ \A j \in 1 .. N : (j <= k => T[j] <= n) /\ (k < j => n <= T[j])

(* How many of the longer list come up within i.                           *)
LEMMA InsertPassed ==
  ASSUME NEW N \in Nat, NEW k, NEW n \in Nat, NEW i \in Int,
         NEW T, NEW U, NEW q, NEW r,
         NatTimes(T, N), Between(k, T, N, n), TimesShifted(U, T, N, k, n),
         Divides(q, T, N, i), Divides(r, U, N + 1, i)
  PROVE  /\ i < n => r = q /\ q <= k
         /\ ~ (i < n) => r = q + 1 /\ k <= q
<1> USE DEF Divides, Between, TimesShifted
<1>2. \A j \in 0 .. N : T[j] \in Nat
  BY DEF NatTimes
<1>3. \A j \in 1 .. N : j <= k => T[j] <= n
  BY ONLY Between(k, T, N, n) DEF Between
<1>4. CASE i < n
  <2>1. q <= k
    <3>1. CASE q = 0
      BY <3>1
    <3>2. CASE q # 0
      <4>1. q \in 1 .. N /\ q \in 0 .. N
        BY <3>2
      <4>2. T[q] <= i /\ T[q] \in Nat
        BY <1>2, <4>1
      <4>3. ~ (n <= T[q])
        BY <1>4, <4>2
      <4> QED BY <4>1, <4>3
    <3> QED BY <3>1, <3>2
  <2>2. \A j \in 1 .. q : j <= r
    <3> TAKE j \in 1 .. q
    <3>1. j \in 1 .. N /\ j \in 1 .. N + 1 /\ j <= k /\ j <= q /\ j \in 0 .. N + 1
      BY <2>1
    <3>2. U[j] = T[j] /\ T[j] <= i
      BY <3>1
    <3>3. U[j] <= i
      BY <3>2
    <3> QED BY <3>1, <3>3
  <2>3. ~ (q + 1 <= r)
    <3> SUFFICES ASSUME q + 1 <= r PROVE FALSE
      OBVIOUS
    <3>1. q + 1 \in 1 .. N + 1 /\ q + 1 \in 0 .. N + 1
      OBVIOUS
    <3>2. U[q + 1] <= i
      BY <3>1
    <3>3. CASE q + 1 <= k
      <4>1. q + 1 \in 1 .. N /\ ~ (q + 1 <= q)
        BY <3>3
      <4>2. U[q + 1] = T[q + 1]
        BY <3>1, <3>3
      <4> QED BY <3>2, <4>1, <4>2
    <3>4. CASE ~ (q + 1 <= k)
      <4>1. q = k
        BY <2>1, <3>4
      <4>2. U[q + 1] = n
        BY <3>1, <3>4, <4>1
      <4> QED BY <1>4, <3>2, <4>2
    <3> QED BY <3>3, <3>4
  <2>4. r = q
    <3>1. q \in 1 .. q => q <= r
      BY <2>2
    <3> QED BY <2>3, <3>1
  <2> QED BY <1>4, <2>1, <2>4
<1>5. CASE ~ (i < n)
  <2>1. k <= q
    <3>1. CASE k = 0
      BY <3>1
    <3>2. CASE k # 0
      <4>1. k \in 1 .. N /\ k \in 0 .. N /\ k <= k
        BY <3>2
      <4>2. T[k] <= n
        BY ONLY <1>3, <4>1
      <4>4. T[k] \in Nat
        BY <1>2, <4>1
      <4>3. T[k] <= i
        BY <1>5, <4>2, <4>4
      <4> QED BY <4>1, <4>3
    <3> QED BY <3>1, <3>2
  <2>2. q + 1 <= r
    <3>1. q + 1 \in 1 .. N + 1 /\ q + 1 \in 0 .. N + 1 /\ ~ (q + 1 <= k)
          /\ (q + 1) - 1 = q
      BY <2>1
    <3>2. U[q + 1] <= i
      <4>1. CASE q = k
        <5>1. U[q + 1] = n
          BY <3>1, <4>1
        <5> QED BY <1>5, <5>1
      <4>2. CASE q # k
        <5>1. q \in 1 .. N /\ q + 1 # k + 1
          BY <2>1, <4>2
        <5>2. U[q + 1] = T[q] /\ T[q] <= i
          BY <3>1, <5>1
        <5> QED BY <5>2
      <4> QED BY <4>1, <4>2
    <3> QED BY <3>1, <3>2
  <2>3. ~ (q + 2 <= r)
    <3> SUFFICES ASSUME q + 2 <= r PROVE FALSE
      OBVIOUS
    <3>1. /\ q + 2 \in 1 .. N + 1 /\ q + 2 \in 0 .. N + 1 /\ ~ (q + 2 <= k)
          /\ q + 2 # k + 1 /\ (q + 2) - 1 = q + 1 /\ q + 1 \in 1 .. N
          /\ ~ (q + 1 <= q)
      BY <2>1
    <3>2. U[q + 2] <= i /\ U[q + 2] = T[q + 1]
      BY <3>1
    <3> QED BY <3>1, <3>2
  <2> QED BY <1>5, <2>1, <2>2, <2>3
<1> QED
  BY <1>4, <1>5

(* The numbers that come up, in a longer list.                             *)
LEMMA InsertPasses ==
  ASSUME NEW S, NEW list \in Seq(S), NoRepeat(list), NEW count \in [S -> Nat],
         NEW x \in S, ~Linked(list, x), NEW n \in Nat, NEW k,
         k = Passed(list, count, n), NEW after,
         InsertedCounts(S, list, count, x, n, after), NEW i \in Int
  PROVE  /\ i < n => /\ Passed(InsertAt(list, k + 1, x), after, i) = Passed(list, count, i)
                     /\ Passed(list, count, i) <= k
         /\ ~ (i < n) => /\ Passed(InsertAt(list, k + 1, x), after, i)
                              = Passed(list, count, i) + 1
                         /\ k <= Passed(list, count, i)
<1> DEFINE T == [j \in 0 .. Len(list) |-> TimeTo(list, count, j)]
           q == Passed(list, count, i)
           longer == InsertAt(list, k + 1, x)
           U == [j \in 0 .. Len(list) + 1 |-> TimeTo(longer, after, j)]
           r == Passed(longer, after, i)
<1>1. /\ k \in 0 .. Len(list)
      /\ after \in [S -> Nat]
      /\ longer \in Seq(S)
      /\ Inserted(longer, list, x, k)
  BY InsertTimes
<1>2. \A j \in 1 .. Len(list) : TimeTo(list, count, j) <= n <=> j <= k
  BY InsertTimes
<1>3. \A j \in 0 .. Len(list) + 1 :
         TimeTo(longer, after, j) = IF j <= k THEN TimeTo(list, count, j)
                                    ELSE IF j = k + 1 THEN n ELSE TimeTo(list, count, j - 1)
  BY InsertTimes
<1>4. Len(list) \in Nat /\ Len(longer) = Len(list) + 1
  BY <1>1, LenProperties DEF Inserted
<1>5. \A j \in 0 .. Len(list) : TimeTo(list, count, j) \in Nat
  BY TimeToNat
<1>6. q \in 0 .. Len(list) /\ \A j \in 1 .. Len(list) : TimeTo(list, count, j) <= i <=> j <= q
  BY PassedDivides
<1> HIDE DEF longer, q
<1>7. r \in 0 .. Len(longer) /\ \A j \in 1 .. Len(longer) : TimeTo(longer, after, j) <= i <=> j <= r
  BY <1>1, PassedDivides
<1> HIDE DEF r
<1>8. NatTimes(T, Len(list))
  BY <1>5 DEF NatTimes
<1>9. Between(k, T, Len(list), n) /\ Divides(q, T, Len(list), i)
  <2>1. \A j \in 1 .. Len(list) : T[j] = TimeTo(list, count, j)
    BY <1>4
  <2> HIDE DEF T
  <2>2. \A j \in 1 .. Len(list) : k < j => n <= T[j]
    <3> TAKE j \in 1 .. Len(list)
    <3>1. j \in 0 .. Len(list) /\ k \in Nat /\ j \in Nat
      BY <1>1, <1>4
    <3>3. T[j] <= n <=> j <= k
      BY <1>2, <2>1
    <3>2. T[j] \in Nat
      BY <1>8, <3>1 DEF NatTimes
    <3> QED BY <3>1, <3>2, <3>3
  <2> QED BY <1>1, <1>2, <1>6, <2>1, <2>2 DEF Divides, Between
<1>10. Divides(r, U, Len(list) + 1, i)
  <2>1. \A j \in 1 .. Len(list) + 1 : U[j] = TimeTo(longer, after, j)
    BY <1>4
  <2> HIDE DEF U
  <2> QED BY <1>4, <1>7, <2>1 DEF Divides
<1>11. TimesShifted(U, T, Len(list), k, n)
  <2> SUFFICES ASSUME NEW j \in 0 .. Len(list) + 1
               PROVE  U[j] = IF j <= k THEN T[j]
                             ELSE IF j = k + 1 THEN n ELSE T[j - 1]
    BY DEF TimesShifted
  <2>1. U[j] = TimeTo(longer, after, j)
    OBVIOUS
  <2>2. CASE j <= k
    BY <1>1, <1>3, <1>4, <2>1, <2>2
  <2>3. CASE j = k + 1
    BY <1>1, <1>3, <1>4, <2>1, <2>3
  <2>4. CASE ~ (j <= k) /\ j # k + 1
    <3>1. j - 1 \in 0 .. Len(list)
      BY <1>1, <1>4, <2>4
    <3> QED BY <1>3, <2>1, <2>4, <3>1
  <2> QED BY <2>2, <2>3, <2>4
<1> HIDE DEF T, U
<1>12. /\ i < n => r = q /\ q <= k
       /\ ~ (i < n) => r = q + 1 /\ k <= q
  BY <1>4, <1>8, <1>9, <1>10, <1>11, InsertPassed
<1> QED
  BY <1>12 DEF longer, q, r

(* Where the nodes are in a list that has x after the k-th.                *)
LEMMA InsertedSection ==
  ASSUME NEW S, NEW list \in Seq(S), NEW longer \in Seq(S), NEW x \in S, NEW k \in Nat,
         Inserted(longer, list, x, k),
         NEW old, NEW lo, NEW hi, Section(old, S, list, lo, hi),
         NEW new, NEW lo2, NEW hi2, Section(new, S, longer, lo2, hi2)
  PROVE  /\ hi <= k /\ lo2 = lo /\ hi2 = hi => new = old
         /\ hi = k /\ lo2 = lo /\ hi2 = hi + 1 => new = Append(old, x)
         /\ k <= lo /\ lo2 = lo + 1 /\ hi2 = hi + 1 => new = old
<1>1. /\ lo \in 0 .. Len(list) /\ hi \in 0 .. Len(list) /\ lo <= hi /\ Len(list) \in Nat
  BY LenProperties DEF Section
<1>2. \A j \in 1 .. Len(list) + 1 :
        longer[j] = IF j <= k THEN list[j] ELSE IF j = k + 1 THEN x ELSE list[j - 1]
  BY DEF Inserted
<1>3. ASSUME hi <= k, lo2 = lo PROVE \A i \in 1 .. hi - lo : longer[lo2 + i] = list[lo + i]
  <2> TAKE i \in 1 .. hi - lo
  <2>1. lo + i \in 1 .. Len(list) + 1 /\ lo + i <= k
    BY <1>1, <1>3
  <2> QED BY <1>2, <1>3, <2>1
<1>4. ASSUME hi <= k, lo2 = lo, hi2 = hi PROVE new = old
  <2>1. hi2 - lo2 = hi - lo /\ \A i \in 1 .. hi - lo : longer[lo2 + i] = list[lo + i]
    BY <1>3, <1>4
  <2> QED BY <2>1, SameSection
<1>5. ASSUME hi = k, lo2 = lo, hi2 = hi + 1 PROVE new = Append(old, x)
  <2>1. hi2 - lo2 = (hi - lo) + 1 /\ \A i \in 1 .. hi - lo : longer[lo2 + i] = list[lo + i]
    BY <1>1, <1>3, <1>5
  <2>2. longer[hi2] = x
    <3>1. k + 1 \in 1 .. Len(list) + 1 /\ ~ (k + 1 <= k)
      BY <1>1, <1>5
    <3> QED BY <1>2, <1>5, <3>1
  <2> QED BY <2>1, <2>2, LongerSection
<1>6. ASSUME k <= lo, lo2 = lo + 1, hi2 = hi + 1 PROVE new = old
  <2>1. \A i \in 1 .. hi - lo : longer[lo2 + i] = list[lo + i]
    <3> TAKE i \in 1 .. hi - lo
    <3>1. /\ (lo + 1) + i \in 1 .. Len(list) + 1 /\ ~ ((lo + 1) + i <= k)
          /\ (lo + 1) + i # k + 1 /\ ((lo + 1) + i) - 1 = lo + i
      BY <1>1, <1>6
    <3> QED BY <1>2, <1>6, <3>1
  <2>2. hi2 - lo2 = hi - lo
    BY <1>1, <1>6
  <2> QED BY <2>1, <2>2, SameSection
<1> QED
  BY <1>1, <1>4, <1>5, <1>6

(* What comes up when, with the node inserted: x last of its time.         *)
LEMMA InsertComingUp ==
  ASSUME NEW S, NEW list \in Seq(S), NoRepeat(list), NEW count \in [S -> Nat],
         NEW x \in S, ~Linked(list, x), NEW n \in Nat, NEW k,
         k = Passed(list, count, n), NEW after,
         InsertedCounts(S, list, count, x, n, after), NEW m \in Int
  PROVE  ComingUp(InsertAt(list, k + 1, x), after, m)
           = IF m = n THEN Append(ComingUp(list, count, m), x)
             ELSE ComingUp(list, count, m)
<1> DEFINE longer == InsertAt(list, k + 1, x)
           old == ComingUp(list, count, m)
           new == ComingUp(longer, after, m)
           lo  == Passed(list, count, m - 1)
           hi  == Passed(list, count, m)
           lo2 == Passed(longer, after, m - 1)
           hi2 == Passed(longer, after, m)
<1>0. m - 1 \in Int
  OBVIOUS
<1>1. /\ k \in 0 .. Len(list)
      /\ after \in [S -> Nat]
      /\ longer \in Seq(S)
      /\ Inserted(longer, list, x, k)
  BY InsertTimes
<1>2. Section(old, S, list, lo, hi)
  BY ComingUpIsSection
<1>3. Section(new, S, longer, lo2, hi2)
  <2> HIDE DEF longer
  <2> QED BY <1>1, ComingUpIsSection
<1>4. /\ m < n => hi2 = hi /\ hi <= k
      /\ ~ (m < n) => hi2 = hi + 1 /\ k <= hi
  BY InsertPasses
<1>5. /\ m - 1 < n => lo2 = lo /\ lo <= k
      /\ ~ (m - 1 < n) => lo2 = lo + 1 /\ k <= lo
  BY <1>0, InsertPasses
<1>6. m = n => hi = k
  OBVIOUS
<1>7. k \in Nat
  BY <1>1, LenProperties
<1> HIDE DEF longer, old, new, lo, hi, lo2, hi2
<1>8. /\ hi <= k /\ lo2 = lo /\ hi2 = hi => new = old
      /\ hi = k /\ lo2 = lo /\ hi2 = hi + 1 => new = Append(old, x)
      /\ k <= lo /\ lo2 = lo + 1 /\ hi2 = hi + 1 => new = old
  BY <1>1, <1>2, <1>3, <1>7, InsertedSection
<1>9. m = n => m - 1 < n /\ ~ (m < n)
  OBVIOUS
<1>10. m < n => m - 1 < n
  OBVIOUS
<1>11. ~ (m < n) /\ m # n => ~ (m - 1 < n)
  OBVIOUS
<1>12. new = IF m = n THEN Append(old, x) ELSE old
  BY <1>4, <1>5, <1>6, <1>8, <1>9, <1>10, <1>11
<1> QED
  BY <1>12 DEF new, old, longer

(***************************************************************************)
(* Removing a node: the next one inherits its count.                       *)
(***************************************************************************)
RemovedCounts(S, list, count, p, after) ==
  /\ after \in [S -> Nat]
  /\ \A y \in S : after[y] = IF p < Len(list) /\ y = list[p + 1]
                             THEN count[y] + count[list[p]] ELSE count[y]

(* The list is the shorter one with the node inserted.                     *)
LEMMA RemovedInserted ==
  ASSUME NEW S, NEW list \in Seq(S), NEW p \in 1 .. Len(list)
  PROVE  /\ RemoveAt(list, p) \in Seq(S)
         /\ Inserted(list, RemoveAt(list, p), list[p], p - 1)
         /\ Len(RemoveAt(list, p)) = Len(list) - 1
<1> DEFINE shorter == RemoveAt(list, p)
<1>1. Len(list) \in Nat
  BY LenProperties
<1>2. /\ shorter \in Seq(S) /\ Len(shorter) = Len(list) - 1
      /\ \A n \in 1 .. Len(list) - 1 : shorter[n] = IF n < p THEN list[n] ELSE list[n + 1]
  BY RemoveAtElements
<1> HIDE DEF shorter
<1>3. Len(list) = Len(shorter) + 1
  BY <1>1, <1>2
<1>4. ASSUME NEW m \in 1 .. Len(shorter) + 1
      PROVE  list[m] = IF m <= p - 1 THEN shorter[m]
                       ELSE IF m = (p - 1) + 1 THEN list[p] ELSE shorter[m - 1]
  <2>1. CASE m <= p - 1
    <3>1. m \in 1 .. Len(list) - 1 /\ m < p
      BY <1>1, <2>1
    <3> QED BY <1>2, <2>1, <3>1
  <2>2. CASE m = p
    <3>1. ~ (m <= p - 1) /\ m = (p - 1) + 1
      BY <1>1, <2>2
    <3> QED BY <2>2, <3>1
  <2>3. CASE ~ (m <= p - 1) /\ m # p
    <3>1. m - 1 \in 1 .. Len(list) - 1 /\ ~ (m - 1 < p) /\ (m - 1) + 1 = m /\ m # (p - 1) + 1
      BY <1>1, <1>2, <2>3
    <3> QED BY <1>2, <2>3, <3>1
  <2> QED BY <2>1, <2>2, <2>3
<1> QED
  BY <1>2, <1>3, <1>4 DEF Inserted, shorter

LEMMA RemoveTimes ==
  ASSUME NEW S, NEW list \in Seq(S), NoRepeat(list), NEW count \in [S -> Nat],
         NEW p \in 1 .. Len(list), NEW after, RemovedCounts(S, list, count, p, after)
  PROVE  \A j \in 0 .. Len(list) - 1 :
           TimeTo(RemoveAt(list, p), after, j)
             = IF j < p THEN TimeTo(list, count, j) ELSE TimeTo(list, count, j + 1)
<1> DEFINE T(j) == TimeTo(list, count, j)
           shorter == RemoveAt(list, p)
           g == [j \in 0 .. Len(list) - 1 |-> IF j < p THEN T(j) ELSE T(j + 1)]
<1>1. /\ Len(list) \in Nat /\ \A j \in 1 .. Len(list) : list[j] \in S
      /\ DOMAIN list = 1 .. Len(list)
  BY LenProperties, ElementOfSeq
<1>2. /\ shorter \in Seq(S) /\ Len(shorter) = Len(list) - 1
      /\ \A n \in 1 .. Len(list) - 1 : shorter[n] = IF n < p THEN list[n] ELSE list[n + 1]
  BY RemoveAtElements
<1>3. \A y \in S : after[y] = IF p < Len(list) /\ y = list[p + 1]
                              THEN count[y] + count[list[p]] ELSE count[y]
  BY DEF RemovedCounts
<1>4. /\ T(0) = 0
      /\ \A j \in 1 .. Len(list) : T(j) = T(j - 1) + count[list[j]]
      /\ \A j \in 0 .. Len(list) : T(j) \in Nat
  BY <1>1, TimeToSteps, TimeToNat
<1>5. \A i, j \in 1 .. Len(list) : list[i] = list[j] => i = j
  BY <1>1 DEF NoRepeat
<1>6. \A j \in 1 .. Len(list) : count[list[j]] \in Nat
  BY <1>1
<1> HIDE DEF T, shorter
<1>7. g[0] = 0
  BY <1>1, <1>4
<1>8. ASSUME NEW j \in 1 .. Len(list) - 1 PROVE g[j] = g[j - 1] + after[shorter[j]]
  <2>1. j \in 0 .. Len(list) - 1 /\ j - 1 \in 0 .. Len(list) - 1
    BY <1>1
  <2>2. CASE j < p
    <3>1. j \in 1 .. Len(list) /\ shorter[j] = list[j] /\ j - 1 < p
      BY <1>1, <1>2, <2>2
    <3>2. after[list[j]] = count[list[j]]
      <4>1. p < Len(list) => p + 1 \in 1 .. Len(list) /\ j # p + 1
        BY <1>1, <2>2
      <4>2. ~ (p < Len(list) /\ list[j] = list[p + 1])
        BY <1>5, <3>1, <4>1
      <4> QED BY <1>1, <1>3, <3>1, <4>2
    <3>3. g[j] = T(j) /\ g[j - 1] = T(j - 1)
      BY <2>1, <2>2, <3>1
    <3> QED BY <1>4, <3>1, <3>2, <3>3
  <2>3. CASE j = p
    <3>1. /\ p < Len(list) /\ ~ (j < p) /\ p - 1 < p /\ p + 1 \in 1 .. Len(list)
          /\ (p + 1) - 1 = p
      BY <1>1, <2>3
    <3>2. shorter[j] = list[p + 1]
      BY <1>2, <2>3, <3>1
    <3>3. after[shorter[j]] = count[list[p + 1]] + count[list[p]]
      BY <1>1, <1>3, <3>1, <3>2
    <3>4. g[j] = T(p + 1) /\ g[j - 1] = T(p - 1)
      BY <2>1, <2>3, <3>1
    <3>5. T(p + 1) = T(p) + count[list[p + 1]] /\ T(p) = T(p - 1) + count[list[p]]
      BY <1>4, <3>1
    <3>6. T(p - 1) \in Nat /\ count[list[p + 1]] \in Nat /\ count[list[p]] \in Nat
      <4>1. p - 1 \in 0 .. Len(list)
        BY <1>1
      <4> QED BY <1>4, <1>6, <3>1, <4>1
    <3> HIDE DEF g
    <3> QED BY <3>3, <3>4, <3>5, <3>6
  <2>4. CASE j > p
    <3>1. /\ ~ (j < p) /\ ~ (j - 1 < p) /\ (j - 1) + 1 = j /\ j + 1 \in 1 .. Len(list)
          /\ (j + 1) - 1 = j
      BY <1>1, <2>4
    <3>2. shorter[j] = list[j + 1]
      BY <1>2, <3>1
    <3>3. after[shorter[j]] = count[list[j + 1]]
      <4>1. p < Len(list) => p + 1 \in 1 .. Len(list) /\ j + 1 # p + 1
        BY <1>1, <2>4
      <4>2. ~ (p < Len(list) /\ list[j + 1] = list[p + 1])
        BY <1>5, <3>1, <4>1
      <4> QED BY <1>1, <1>3, <3>1, <3>2, <4>2
    <3>4. g[j] = T(j + 1) /\ g[j - 1] = T(j)
      BY <2>1, <3>1
    <3>5. T(j + 1) = T(j) + count[list[j + 1]]
      BY <1>4, <3>1
    <3> HIDE DEF g
    <3> QED BY <3>3, <3>4, <3>5
  <2>5. j < p \/ j = p \/ j > p
    BY <1>1
  <2> QED BY <2>2, <2>3, <2>4, <2>5
<1>9. \A j \in 0 .. Len(shorter) : TimeTo(shorter, after, j) = g[j]
  <2>1. AreTimes(g, shorter, after)
    <3> HIDE DEF g
    <3> QED BY <1>2, <1>7, <1>8 DEF AreTimes
  <2>2. Len(shorter) \in Nat
    BY <1>1, <1>2
  <2> HIDE DEF g
  <2> QED BY <2>1, <2>2, TimeToIs
<1>10. \A j \in 0 .. Len(list) - 1 :
          TimeTo(shorter, after, j) = IF j < p THEN T(j) ELSE T(j + 1)
  BY <1>2, <1>9
<1> QED
  BY <1>10 DEF T, shorter

(* The numbers that come up, in the shorter list.                          *)
LEMMA RemovePasses ==
  ASSUME NEW S, NEW list \in Seq(S), NoRepeat(list), NEW count \in [S -> Nat],
         NEW p \in 1 .. Len(list), NEW after, RemovedCounts(S, list, count, p, after),
         NEW i \in Int, NEW d, d = TimeTo(list, count, p)
  PROVE  /\ i < d => /\ Passed(list, count, i) = Passed(RemoveAt(list, p), after, i)
                     /\ Passed(RemoveAt(list, p), after, i) <= p - 1
         /\ ~ (i < d) => /\ Passed(list, count, i)
                              = Passed(RemoveAt(list, p), after, i) + 1
                         /\ p - 1 <= Passed(RemoveAt(list, p), after, i)
<1> DEFINE N == Len(list) - 1
           shorter == RemoveAt(list, p)
           T == [j \in 0 .. N |-> TimeTo(shorter, after, j)]
           q == Passed(shorter, after, i)
           U == [j \in 0 .. N + 1 |-> TimeTo(list, count, j)]
           r == Passed(list, count, i)
<1>1. /\ shorter \in Seq(S) /\ Len(shorter) = N
      /\ after \in [S -> Nat]
  BY RemovedInserted DEF RemovedCounts
<1>2. N \in Nat /\ Len(list) = N + 1 /\ N + 1 \in Nat /\ p \in 1 .. N + 1
  BY LenProperties
<1>3. \A j \in 0 .. N :
        TimeTo(shorter, after, j) = IF j < p THEN TimeTo(list, count, j)
                                    ELSE TimeTo(list, count, j + 1)
  BY RemoveTimes
<1>4. \A j \in 0 .. N + 1 : TimeTo(list, count, j) \in Nat
  BY <1>2, TimeToNat
<1>5. \A j, k \in 0 .. N + 1 : j <= k => TimeTo(list, count, j) <= TimeTo(list, count, k)
  BY <1>2, TimeToGrows
<1>6. r \in 0 .. Len(list) /\ \A j \in 1 .. Len(list) : TimeTo(list, count, j) <= i <=> j <= r
  BY PassedDivides
<1> HIDE DEF shorter, r
<1>7. q \in 0 .. Len(shorter)
      /\ \A j \in 1 .. Len(shorter) : TimeTo(shorter, after, j) <= i <=> j <= q
  BY <1>1, PassedDivides
<1> HIDE DEF q, N
<1>8. \A j \in 0 .. N + 1 : U[j] = TimeTo(list, count, j)
  OBVIOUS
<1>9. \A j \in 0 .. N : T[j] = TimeTo(shorter, after, j)
  OBVIOUS
<1> HIDE DEF T, U
<1>10. \A j \in 0 .. N : T[j] = IF j < p THEN U[j] ELSE U[j + 1]
  <2> TAKE j \in 0 .. N
  <2>1. j \in 0 .. N + 1 /\ j + 1 \in 0 .. N + 1
    BY <1>2
  <2> QED BY <1>3, <1>8, <1>9, <2>1
<1>11. /\ \A j \in 0 .. N + 1 : U[j] \in Nat
       /\ \A j, k \in 0 .. N + 1 : j <= k => U[j] <= U[k]
       /\ d = U[p] /\ d \in Nat
  <2>1. p \in 0 .. N + 1
    BY <1>2
  <2> QED BY <1>4, <1>5, <1>8, <2>1
<1>12. NatTimes(T, N)
  <2> SUFFICES ASSUME NEW j \in 0 .. N PROVE T[j] \in Nat
    BY DEF NatTimes
  <2>1. j \in 0 .. N + 1 /\ j + 1 \in 0 .. N + 1
    BY <1>2
  <2> QED BY <1>10, <1>11, <2>1
<1>13. Between(p - 1, T, N, d)
  <2>1. p - 1 \in 0 .. N
    BY <1>2
  <2>2. ASSUME NEW j \in 1 .. N, j <= p - 1 PROVE T[j] <= d
    <3>1. j \in 0 .. N /\ j < p /\ j \in 0 .. N + 1 /\ p \in 0 .. N + 1 /\ j <= p
      BY <1>2, <2>2
    <3> QED BY <1>10, <1>11, <3>1
  <2>3. ASSUME NEW j \in 1 .. N, p - 1 < j PROVE d <= T[j]
    <3>1. j \in 0 .. N /\ ~ (j < p) /\ j + 1 \in 0 .. N + 1 /\ p \in 0 .. N + 1 /\ p <= j + 1
      BY <1>2, <2>3
    <3> QED BY <1>10, <1>11, <3>1
  <2> QED BY <2>1, <2>2, <2>3 DEF Between
<1>14. TimesShifted(U, T, N, p - 1, d)
  <2> SUFFICES ASSUME NEW j \in 0 .. N + 1
               PROVE  U[j] = IF j <= p - 1 THEN T[j]
                             ELSE IF j = (p - 1) + 1 THEN d ELSE T[j - 1]
    BY DEF TimesShifted
  <2>1. CASE j <= p - 1
    <3>1. j \in 0 .. N /\ j < p
      BY <1>2, <2>1
    <3> QED BY <1>10, <2>1, <3>1
  <2>2. CASE j = p
    <3>1. ~ (j <= p - 1) /\ j = (p - 1) + 1
      BY <1>2, <2>2
    <3> QED BY <1>11, <2>2, <3>1
  <2>3. CASE ~ (j <= p - 1) /\ j # p
    <3>1. j - 1 \in 0 .. N /\ ~ (j - 1 < p) /\ (j - 1) + 1 = j /\ j # (p - 1) + 1
      BY <1>2, <2>3
    <3> QED BY <1>10, <2>3, <3>1
  <2> QED BY <2>1, <2>2, <2>3
<1>15. Divides(q, T, N, i)
  <2>1. \A j \in 1 .. N : T[j] = TimeTo(shorter, after, j)
    BY <1>2, <1>9
  <2> QED BY <1>1, <1>7, <2>1 DEF Divides
<1>16. Divides(r, U, N + 1, i)
  <2>1. \A j \in 1 .. N + 1 : U[j] = TimeTo(list, count, j)
    BY <1>2, <1>8
  <2> QED BY <1>2, <1>6, <2>1 DEF Divides
<1>17. /\ i < d => r = q /\ q <= p - 1
       /\ ~ (i < d) => r = q + 1 /\ p - 1 <= q
  BY <1>2, <1>11, <1>12, <1>13, <1>14, <1>15, <1>16, InsertPassed
<1> QED
  BY <1>17 DEF shorter, q, r

(* Unlinking a node that was inserted.                                     *)
LEMMA UnlinkInserted ==
  ASSUME NEW S, NEW longer \in Seq(S), NoRepeat(longer), NEW list \in Seq(S), NEW x,
         NEW k \in 0 .. Len(list), Inserted(longer, list, x, k)
  PROVE  Unlink(longer, x) = list
<1>1. /\ Len(list) \in Nat /\ Len(longer) = Len(list) + 1
      /\ DOMAIN longer = 1 .. Len(list) + 1
  BY LenProperties DEF Inserted
<1>2. \A j \in 1 .. Len(list) + 1 :
        longer[j] = IF j <= k THEN list[j] ELSE IF j = k + 1 THEN x ELSE list[j - 1]
  BY DEF Inserted
<1>3. k + 1 \in 1 .. Len(list) + 1 /\ ~ (k + 1 <= k)
  BY <1>1
<1>4. longer[k + 1] = x
  BY <1>2, <1>3
<1>5. Linked(longer, x)
  BY <1>1, <1>3, <1>4 DEF Linked, ToSet
<1>6. PICK n \in 1 .. Len(longer) : longer[n] = x /\ Unlink(longer, x) = RemoveAt(longer, n)
  BY <1>5, UnlinkAt
<1>7. n = k + 1
  BY <1>1, <1>3, <1>4, <1>6 DEF NoRepeat
<1> DEFINE shorter == RemoveAt(longer, n)
<1>8. /\ shorter \in Seq(S) /\ Len(shorter) = Len(longer) - 1
      /\ \A j \in 1 .. Len(longer) - 1 : shorter[j] = IF j < n THEN longer[j] ELSE longer[j + 1]
  BY RemoveAtElements
<1> HIDE DEF shorter
<1>9. \A j \in 1 .. Len(shorter) : shorter[j] = list[j]
  <2> TAKE j \in 1 .. Len(shorter)
  <2>1. j \in 1 .. Len(longer) - 1 /\ j \in 1 .. Len(list) + 1 /\ j + 1 \in 1 .. Len(list) + 1
    BY <1>1, <1>8
  <2>2. CASE j < n
    <3>1. j <= k
      BY <1>7, <2>2
    <3> QED BY <1>2, <1>8, <2>1, <2>2, <3>1
  <2>3. CASE ~ (j < n)
    <3>1. ~ (j + 1 <= k) /\ j + 1 # k + 1 /\ (j + 1) - 1 = j
      BY <1>1, <1>7, <2>1, <2>3
    <3> QED BY <1>2, <1>8, <2>1, <2>3, <3>1
  <2> QED BY <2>2, <2>3
<1>10. Len(shorter) = Len(list)
  BY <1>1, <1>8
<1>11. shorter = list
  BY <1>8, <1>9, <1>10, SeqEqual
<1> QED
  BY <1>6, <1>11 DEF shorter

LEMMA SectionInserted ==
  ASSUME NEW S, NEW list \in Seq(S), NEW longer \in Seq(S), NEW x, NEW k \in Nat,
         Inserted(longer, list, x, k),
         NEW old, NEW lo, NEW hi, Section(old, S, list, lo, hi),
         NEW new, NEW hi2, Section(new, S, longer, lo, hi2),
         lo <= k, k <= hi, hi2 = hi + 1
  PROVE  k - lo \in 0 .. Len(old) /\ Inserted(new, old, x, k - lo)
<1>1. /\ lo \in 0 .. Len(list) /\ hi \in 0 .. Len(list) /\ lo <= hi /\ Len(list) \in Nat
      /\ Len(old) = hi - lo /\ Len(new) = (hi - lo) + 1
      /\ \A i \in 1 .. hi - lo : old[i] = list[lo + i]
  <2>1. hi2 - lo = (hi - lo) + 1
    BY DEF Section
  <2> QED BY <2>1, LenProperties DEF Section
<1>2. \A i \in 1 .. (hi - lo) + 1 : new[i] = longer[lo + i]
  <2>1. hi2 - lo = (hi - lo) + 1
    BY DEF Section
  <2> QED BY <2>1 DEF Section
<1>3. \A j \in 1 .. Len(list) + 1 :
        longer[j] = IF j <= k THEN list[j] ELSE IF j = k + 1 THEN x ELSE list[j - 1]
  BY DEF Inserted
<1>4. ASSUME NEW i \in 1 .. Len(old) + 1
      PROVE  new[i] = IF i <= k - lo THEN old[i]
                      ELSE IF i = (k - lo) + 1 THEN x ELSE old[i - 1]
  <2>1. /\ i \in 1 .. (hi - lo) + 1 /\ lo + i \in 1 .. Len(list) + 1
        /\ (lo + i <= k <=> i <= k - lo) /\ (lo + i = k + 1 <=> i = (k - lo) + 1)
    <3>1. lo \in Nat /\ hi \in Nat /\ i \in 1 .. (hi - lo) + 1
      BY <1>1
    <3>2. lo + i \in 1 .. Len(list) + 1
      BY <1>1, <3>1
    <3>3. (lo + i <= k <=> i <= k - lo) /\ (lo + i = k + 1 <=> i = (k - lo) + 1)
      BY <3>1
    <3> QED BY <3>1, <3>2, <3>3
  <2>2. CASE i <= k - lo
    <3>1. i \in 1 .. hi - lo
      BY <1>1, <2>2
    <3> QED BY <1>1, <1>2, <1>3, <2>1, <2>2, <3>1
  <2>3. CASE i = (k - lo) + 1
    <3>1. ~ (i <= k - lo)
      BY <1>1, <2>3
    <3> QED BY <1>2, <1>3, <2>1, <2>3, <3>1
  <2>4. CASE ~ (i <= k - lo) /\ i # (k - lo) + 1
    <3>1. i - 1 \in 1 .. hi - lo /\ lo + (i - 1) = (lo + i) - 1
      BY <1>1, <2>1, <2>4
    <3>2. old[i - 1] = list[(lo + i) - 1]
      BY <1>1, <3>1
    <3>3. new[i] = longer[lo + i]
      BY <1>2, <2>1
    <3> QED BY <1>3, <2>1, <2>4, <3>2, <3>3
  <2> QED BY <2>2, <2>3, <2>4
<1> QED
  BY <1>1, <1>4 DEF Inserted

LEMMA SectionNoRepeat ==
  ASSUME NEW S, NEW list \in Seq(S), NoRepeat(list), NEW up, NEW lo, NEW hi,
         Section(up, S, list, lo, hi)
  PROVE  NoRepeat(up)
<1>1. /\ lo \in 0 .. Len(list) /\ hi \in 0 .. Len(list) /\ Len(list) \in Nat
      /\ DOMAIN list = 1 .. Len(list) /\ DOMAIN up = 1 .. hi - lo
      /\ \A i \in 1 .. hi - lo : up[i] = list[lo + i]
  BY LenProperties DEF Section
<1>2. ASSUME NEW i \in 1 .. hi - lo, NEW j \in 1 .. hi - lo, up[i] = up[j] PROVE i = j
  <2>1. lo + i \in DOMAIN list /\ lo + j \in DOMAIN list /\ list[lo + i] = list[lo + j]
    BY <1>1, <1>2
  <2>2. lo + i = lo + j
    BY <2>1 DEF NoRepeat
  <2> QED BY <1>1, <2>2
<1> QED
  BY <1>1, <1>2 DEF NoRepeat

(* What comes up when, with a node removed: the others, in order.          *)
LEMMA RemoveComingUp ==
  ASSUME NEW S, NEW list \in Seq(S), NoRepeat(list), NEW count \in [S -> Nat],
         NEW p \in 1 .. Len(list), NEW after, RemovedCounts(S, list, count, p, after),
         NEW m \in Int
  PROVE  ComingUp(RemoveAt(list, p), after, m) = Unlink(ComingUp(list, count, m), list[p])
<1> DEFINE shorter == RemoveAt(list, p)
           d   == TimeTo(list, count, p)
           x   == list[p]
           k   == p - 1
           old == ComingUp(shorter, after, m)
           new == ComingUp(list, count, m)
           lo  == Passed(shorter, after, m - 1)
           hi  == Passed(shorter, after, m)
           lo2 == Passed(list, count, m - 1)
           hi2 == Passed(list, count, m)
<1>0. m - 1 \in Int
  OBVIOUS
<1>1. /\ shorter \in Seq(S)
      /\ Inserted(list, shorter, x, k)
      /\ after \in [S -> Nat]
  BY RemovedInserted DEF RemovedCounts
<1>2. Section(new, S, list, lo2, hi2)
  BY ComingUpIsSection
<1>3. Section(old, S, shorter, lo, hi)
  <2> HIDE DEF shorter
  <2> QED BY <1>1, ComingUpIsSection
<1>4. /\ m < d => hi2 = hi /\ hi <= k
      /\ ~ (m < d) => hi2 = hi + 1 /\ k <= hi
  BY RemovePasses
<1>5. /\ m - 1 < d => lo2 = lo /\ lo <= k
      /\ ~ (m - 1 < d) => lo2 = lo + 1 /\ k <= lo
  BY <1>0, RemovePasses
<1>6. k \in Nat /\ d \in Nat /\ x \in S
  <2>1. Len(list) \in Nat /\ p \in 0 .. Len(list)
    BY LenProperties
  <2> QED BY <2>1, TimeToNat, ElementOfSeq
<1>7. Linked(new, x) <=> m = d
  <2>1. DOMAIN list = 1 .. Len(list)
    BY LenProperties
  <2>2. \A j \in 1 .. Len(list) : list[j] = x <=> j = p
    BY <2>1 DEF NoRepeat
  <2>3. Linked(new, x) <=> \E j \in 1 .. Len(list) : list[j] = x /\ TimeTo(list, count, j) = m
    BY ComingUpLinks
  <2> QED BY <2>2, <2>3
<1> HIDE DEF shorter, old, new, lo, hi, lo2, hi2, k, d, x
<1>8. new \in Seq(S) /\ NoRepeat(new) /\ old \in Seq(S)
  <2>1. NoRepeat(new)
    BY <1>2, SectionNoRepeat
  <2> QED BY <1>2, <1>3, <2>1 DEF Section
<1>9. CASE m < d
  <2>1. hi <= k /\ lo2 = lo /\ hi2 = hi /\ m # d
    BY <1>4, <1>5, <1>6, <1>9
  <2>2. new = old
    BY <1>1, <1>2, <1>3, <1>6, <2>1, InsertedSection
  <2>3. Unlink(new, x) = new
    BY <1>7, <1>8, <2>1, UnlinkNone
  <2> QED BY <2>2, <2>3 DEF shorter, old, new, x
<1>10. CASE m = d
  <2>1. lo <= k /\ k <= hi /\ lo2 = lo /\ hi2 = hi + 1
    BY <1>4, <1>5, <1>6, <1>10
  <2>2. k - lo \in 0 .. Len(old) /\ Inserted(new, old, x, k - lo)
    BY <1>1, <1>2, <1>3, <1>6, <2>1, SectionInserted
  <2>3. Unlink(new, x) = old
    BY <1>8, <2>2, UnlinkInserted
  <2> QED BY <2>3 DEF shorter, old, new, x
<1>11. CASE ~ (m < d) /\ m # d
  <2>1. k <= lo /\ lo2 = lo + 1 /\ hi2 = hi + 1
    BY <1>4, <1>5, <1>6, <1>11
  <2>2. new = old
    BY <1>1, <1>2, <1>3, <1>6, <2>1, InsertedSection
  <2>3. Unlink(new, x) = new
    BY <1>7, <1>8, <1>11, UnlinkNone
  <2> QED BY <2>2, <2>3 DEF shorter, old, new, x
<1> QED
  BY <1>9, <1>10, <1>11

(***************************************************************************)
(* A tick: one off the count of the first node, and everyone is one nearer.*)
(***************************************************************************)
Ticked(list, count, after) == after = [count EXCEPT ![Head(list)] = @ - 1]

LEMMA TickComingUp ==
  ASSUME NEW S, NEW list \in Seq(S), list # << >>, NoRepeat(list),
         NEW count \in [S -> Nat], count[Head(list)] > 0,
         NEW after, Ticked(list, count, after)
  PROVE  /\ after \in [S -> Nat]
         /\ \A j \in 1 .. Len(list) : TimeTo(list, after, j) = TimeTo(list, count, j) - 1
         /\ \A m \in Int : ComingUp(list, after, m) = ComingUp(list, count, m + 1)
         /\ ComingUp(list, count, 0) = << >>
<1> DEFINE T(j) == TimeTo(list, count, j)
           g == [j \in 0 .. Len(list) |-> IF j = 0 THEN 0 ELSE T(j) - 1]
<1>1. /\ Len(list) \in Nat /\ Len(list) # 0 /\ 1 \in 1 .. Len(list)
      /\ DOMAIN list = 1 .. Len(list) /\ Head(list) = list[1]
      /\ \A j \in 1 .. Len(list) : list[j] \in S
  BY LenProperties, EmptySeq, ElementOfSeq
<1>2. /\ T(0) = 0
      /\ \A j \in 1 .. Len(list) : T(j) = T(j - 1) + count[list[j]]
      /\ \A j \in 0 .. Len(list) : T(j) \in Nat
  BY <1>1, TimeToSteps, TimeToNat
<1>3. after \in [S -> Nat] /\ after[list[1]] = count[list[1]] - 1
      /\ count[list[1]] \in Nat /\ count[list[1]] > 0
      /\ \A y \in S : y # list[1] => after[y] = count[y]
  BY <1>1 DEF Ticked
<1>4. \A j \in 1 .. Len(list) : j # 1 => after[list[j]] = count[list[j]]
  BY <1>1, <1>3 DEF NoRepeat
<1> HIDE DEF T
<1>5. AreTimes(g, list, after)
  <2>1. g[0] = 0
    BY <1>1
  <2>2. ASSUME NEW j \in 1 .. Len(list) PROVE g[j] = g[j - 1] + after[list[j]]
    <3>1. j \in 0 .. Len(list) /\ j - 1 \in 0 .. Len(list) /\ j # 0
      BY <1>1
    <3>2. g[j] = T(j) - 1 /\ T(j) = T(j - 1) + count[list[j]]
      BY <1>2, <3>1
    <3>3. CASE j = 1
      <4>1. j - 1 = 0 /\ g[j - 1] = 0
        BY <2>1, <3>3
      <4>2. T(j) = 0 + count[list[j]]
        BY <1>2, <3>2, <4>1
      <4> HIDE DEF g
      <4> QED BY <1>3, <3>2, <3>3, <4>1, <4>2
    <3>4. CASE j # 1
      <4>1. g[j - 1] = T(j - 1) - 1
        BY <3>1, <3>4
      <4>2. T(j - 1) \in Nat /\ count[list[j]] \in Nat /\ after[list[j]] = count[list[j]]
        BY <1>1, <1>2, <1>4, <3>1, <3>4
      <4> DEFINE a == T(j - 1)
                 b == count[list[j]]
      <4>3. a \in Nat /\ b \in Nat /\ g[j] = T(j) - 1 /\ T(j) = a + b /\ g[j - 1] = a - 1
            /\ after[list[j]] = b
        BY <3>2, <4>1, <4>2
      <4> HIDE DEF g, a, b
      <4>4. g[j] = (a + b) - 1
        BY <4>3
      <4>5. g[j - 1] + after[list[j]] = (a - 1) + b
        BY <4>3
      <4>6. (a + b) - 1 = (a - 1) + b
        BY <4>3
      <4> QED BY <4>4, <4>5, <4>6
    <3> QED BY <3>3, <3>4
  <2> HIDE DEF g
  <2> QED BY <2>1, <2>2 DEF AreTimes
<1>6. \A j \in 1 .. Len(list) : TimeTo(list, after, j) = T(j) - 1
  <2>1. \A j \in 0 .. Len(list) : TimeTo(list, after, j) = g[j]
    <3> HIDE DEF g
    <3> QED BY <1>1, <1>5, TimeToIs
  <2>2. \A j \in 1 .. Len(list) : j \in 0 .. Len(list) /\ j # 0
    BY <1>1
  <2> QED BY <2>1, <2>2
<1>7. \A i \in Int : Passed(list, after, i) = Passed(list, count, i + 1)
  <2> SUFFICES ASSUME NEW i \in Int
               PROVE  Passed(list, after, i) = Passed(list, count, i + 1)
    OBVIOUS
  <2>1. \A j \in 1 .. Len(list) : TimeTo(list, after, j) <= i <=> T(j) <= i + 1
    <3> TAKE j \in 1 .. Len(list)
    <3>2. j \in 0 .. Len(list)
      BY <1>1
    <3>1. T(j) \in Nat /\ TimeTo(list, after, j) = T(j) - 1
      BY <1>2, <1>6, <3>2
    <3> QED BY <3>1
  <2>2. {j \in 1 .. Len(list) : TimeTo(list, after, j) <= i}
          = {j \in 1 .. Len(list) : TimeTo(list, count, j) <= i + 1}
    BY <2>1 DEF T
  <2> QED BY <2>2 DEF Passed
<1>8. ASSUME NEW m \in Int PROVE ComingUp(list, after, m) = ComingUp(list, count, m + 1)
  <2>1. m - 1 \in Int /\ (m - 1) + 1 = m /\ (m + 1) - 1 = m
    OBVIOUS
  <2>2. Passed(list, after, m) = Passed(list, count, m + 1)
        /\ Passed(list, after, m - 1) = Passed(list, count, (m + 1) - 1)
    BY <1>7, <2>1
  <2> QED BY <2>2 DEF ComingUp
<1>9. ComingUp(list, count, 0) = << >>
  <2> DEFINE up == ComingUp(list, count, 0)
  <2>1. \A j \in 1 .. Len(list) : T(1) <= T(j) /\ T(j) \in Nat
    <3>1. \A j \in 1 .. Len(list) : 1 \in 0 .. Len(list) /\ j \in 0 .. Len(list) /\ 1 <= j
      BY <1>1
    <3> QED BY <1>2, <3>1, TimeToGrows DEF T
  <2>2. T(1) > 0 /\ T(1) \in Nat
    <3>1. T(1) = T(1 - 1) + count[list[1]] /\ 1 - 1 = 0
      BY <1>1, <1>2
    <3>2. T(1) = 0 + count[list[1]]
      BY <1>2, <3>1
    <3> QED BY <1>3, <3>2
  <2>3. \A j \in 1 .. Len(list) : T(j) # 0
    BY <2>1, <2>2
  <2>4. up \in Seq(S) /\ \A x : ~Linked(up, x)
    BY <2>3, ComingUpLinks, ComingUpSection DEF T
  <2> HIDE DEF up
  <2>5. up = << >>
    <3> SUFFICES ASSUME up # << >> PROVE FALSE
      OBVIOUS
    <3> QED BY <2>4, TailLinks
  <2> QED BY <2>5 DEF up
<1> QED
  BY <1>3, <1>6, <1>8, <1>9 DEF T

LEMMA TickedComingUp ==
  ASSUME NEW S, NEW list \in Seq(S), list # << >>, NoRepeat(list),
         NEW count \in [S -> Nat], count[Head(list)] > 0,
         NEW after, Ticked(list, count, after), NEW m \in Int
  PROVE  ComingUp(list, after, m) = ComingUp(list, count, m + 1)
BY TickComingUp

LEMMA NoneComingUpNow ==
  ASSUME NEW S, NEW list \in Seq(S), list # << >>, NoRepeat(list),
         NEW count \in [S -> Nat], count[Head(list)] > 0
  PROVE  ComingUp(list, count, 0) = << >>
<1> DEFINE after == [count EXCEPT ![Head(list)] = @ - 1]
<1>1. Ticked(list, count, after)
  BY DEF Ticked
<1> HIDE DEF after
<1> QED
  BY <1>1, TickComingUp

LEMMA TickedTime ==
  ASSUME NEW S, NEW list \in Seq(S), list # << >>, NoRepeat(list),
         NEW count \in [S -> Nat], count[Head(list)] > 0,
         NEW after, Ticked(list, count, after),
         NEW j \in 1 .. Len(list)
  PROVE  TimeTo(list, after, j) = TimeTo(list, count, j) - 1
BY TickComingUp

LEMMA EmptyComingUp ==
  ASSUME NEW count, NEW n PROVE ComingUp(<< >>, count, n) = << >>
<1>1. \A i : Passed(<< >>, count, i) = 0
  <2> TAKE i
  <2>1. {0} \cup {k \in 1 .. 0 : TimeTo(<< >>, count, k) <= i} = {0}
    OBVIOUS
  <2>2. Passed(<< >>, count, i) = Max({0})
    BY <2>1 DEF Passed
  <2>3. Max({0}) = 0
    BY GreatestExists
  <2> QED BY <2>2, <2>3
<1>2. ComingUp(<< >>, count, n) = SubSeq(<< >>, 0 + 1, 0)
  BY <1>1 DEF ComingUp
<1> QED
  BY <1>2

(* The time to the last node, as nodes come and go.                        *)
LEMMA InsertedLast ==
  ASSUME NEW S, NEW list \in Seq(S), NoRepeat(list), NEW count \in [S -> Nat],
         NEW x \in S, ~Linked(list, x), NEW n \in Nat, NEW k,
         k = Passed(list, count, n), NEW after,
         InsertedCounts(S, list, count, x, n, after), NEW limit \in Nat, n <= limit,
         TimeTo(list, count, Len(list)) <= limit
  PROVE  TimeTo(InsertAt(list, k + 1, x), after, Len(InsertAt(list, k + 1, x))) <= limit
<1>1. /\ k \in 0 .. Len(list)
      /\ Inserted(InsertAt(list, k + 1, x), list, x, k)
  BY InsertTimes
<1>2. \A j \in 0 .. Len(list) + 1 :
         TimeTo(InsertAt(list, k + 1, x), after, j)
           = IF j <= k THEN TimeTo(list, count, j)
             ELSE IF j = k + 1 THEN n ELSE TimeTo(list, count, j - 1)
  BY InsertTimes
<1>3. Len(InsertAt(list, k + 1, x)) = Len(list) + 1 /\ Len(list) \in Nat
  BY <1>1, LenProperties DEF Inserted
<1>4. Len(list) + 1 \in 0 .. Len(list) + 1 /\ ~ (Len(list) + 1 <= k)
      /\ (Len(list) + 1) - 1 = Len(list)
  BY <1>1, <1>3
<1> QED
  BY <1>2, <1>3, <1>4

LEMMA RemovedLast ==
  ASSUME NEW S, NEW list \in Seq(S), NoRepeat(list), NEW count \in [S -> Nat],
         NEW p \in 1 .. Len(list), NEW after, RemovedCounts(S, list, count, p, after)
  PROVE  TimeTo(RemoveAt(list, p), after, Len(RemoveAt(list, p)))
           <= TimeTo(list, count, Len(list))
<1>1. Len(RemoveAt(list, p)) = Len(list) - 1 /\ Len(list) \in Nat
  BY RemovedInserted, LenProperties
<1>2. \A j \in 0 .. Len(list) - 1 :
        TimeTo(RemoveAt(list, p), after, j)
          = IF j < p THEN TimeTo(list, count, j) ELSE TimeTo(list, count, j + 1)
  BY RemoveTimes
<1>3. /\ Len(list) - 1 \in 0 .. Len(list) - 1 /\ Len(list) - 1 \in 0 .. Len(list)
      /\ Len(list) \in 0 .. Len(list) /\ Len(list) - 1 <= Len(list)
      /\ (Len(list) - 1) + 1 = Len(list)
  BY <1>1
<1>4. /\ TimeTo(list, count, Len(list) - 1) \in Nat /\ TimeTo(list, count, Len(list)) \in Nat
      /\ TimeTo(list, count, Len(list) - 1) <= TimeTo(list, count, Len(list))
  BY <1>3, TimeToNat, TimeToGrows
<1>5. TimeTo(RemoveAt(list, p), after, Len(list) - 1) <= TimeTo(list, count, Len(list))
  BY <1>2, <1>3, <1>4
<1> QED
  BY <1>1, <1>5
-----------------------------------------------------------------------------
(***************************************************************************)
(* A walk along a list that takes out the nodes of a set.                  *)
(***************************************************************************)
LEMMA OnlySteps ==
  ASSUME NEW list, Len(list) \in Nat, NEW set
  PROVE  \E taken :
           /\ taken[0] = << >> /\ Only(list, set) = taken[Len(list)]
           /\ \A k \in 1 .. Len(list) :
                taken[k] = IF list[k] \in set THEN Append(taken[k - 1], list[k])
                           ELSE taken[k - 1]
<1> DEFINE N == Len(list)
           Walk(g, m) == g = [j \in 0 .. m |->
                                IF j = 0 THEN << >>
                                ELSE IF list[j] \in set THEN Append(g[j - 1], list[j])
                                ELSE g[j - 1]]
           Bad == {m \in Nat : ~ \E g : Walk(g, m)}
<1>1. N \in Nat
  OBVIOUS
<1>2. \E g : Walk(g, 0)
  <2> DEFINE g == [j \in 0 .. 0 |-> << >>]
  <2>1. Walk(g, 0)
    OBVIOUS
  <2> QED BY <2>1
<1>3. ASSUME NEW m \in Nat, NEW g, Walk(g, m) PROVE \E h : Walk(h, m + 1)
  <2> DEFINE Step(j, before) == IF list[j] \in set THEN Append(before, list[j]) ELSE before
             h == [j \in 0 .. m + 1 |->
                     IF j = m + 1 THEN Step(m + 1, g[m]) ELSE g[j]]
  <2>1. \A j \in 0 .. m : h[j] = g[j]
    OBVIOUS
  <2>2. \A j \in 0 .. m : g[j] = IF j = 0 THEN << >> ELSE Step(j, g[j - 1])
    BY <1>3
  <2>6. h[m + 1] = Step(m + 1, g[m])
    OBVIOUS
  <2>7. h = [j \in 0 .. m + 1 |-> h[j]]
    OBVIOUS
  <2> HIDE DEF h, Step
  <2>3. ASSUME NEW j \in 0 .. m + 1
        PROVE  h[j] = IF j = 0 THEN << >> ELSE Step(j, h[j - 1])
    <3>1. CASE j = m + 1
      <4>1. j # 0 /\ j - 1 = m /\ m \in 0 .. m
        BY <3>1
      <4> QED BY <2>1, <2>6, <3>1, <4>1
    <3>2. CASE j # m + 1
      <4>1. j \in 0 .. m /\ (j # 0 => j - 1 \in 0 .. m)
        BY <3>2
      <4> QED BY <2>1, <2>2, <4>1
    <3> QED BY <3>1, <3>2
  <2>5. [j \in 0 .. m + 1 |-> h[j]]
          = [j \in 0 .. m + 1 |-> IF j = 0 THEN << >> ELSE Step(j, h[j - 1])]
    BY <2>3
  <2> QED BY <2>7, <2>5 DEF Step
<1>4. Bad = {}
  <2> SUFFICES ASSUME Bad # {} PROVE FALSE
    OBVIOUS
  <2>1. PICK m \in Bad : \A n \in Bad : m <= n
    BY LeastExists
  <2> DEFINE Has(n) == \E g : Walk(g, n)
  <2>6. m \in Nat /\ ~Has(m) /\ Has(0)
    BY <1>2, <2>1
  <2>7. \A n \in Nat : n \notin Bad => Has(n)
    OBVIOUS
  <2> HIDE DEF Has, Bad
  <2>2. m - 1 \in Nat /\ m - 1 \notin Bad
    BY <2>1, <2>6
  <2>3. PICK g : Walk(g, m - 1)
    BY <2>2, <2>7 DEF Has
  <2>4. \E h : Walk(h, (m - 1) + 1)
    BY <1>3, <2>2, <2>3
  <2>5. (m - 1) + 1 = m
    BY <2>6
  <2> QED BY <2>6, <2>4, <2>5 DEF Has
<1> DEFINE taken == CHOOSE g : Walk(g, N)
<1>5. Walk(taken, N)
  BY <1>1, <1>4
<1>6. Only(list, set) = taken[N]
  BY DEF Only
<1> HIDE DEF taken
<1>7. \A j \in 0 .. N : taken[j] = IF j = 0 THEN << >>
                                   ELSE IF list[j] \in set THEN Append(taken[j - 1], list[j])
                                   ELSE taken[j - 1]
  BY <1>5
<1>8. 0 \in 0 .. N /\ \A k \in 1 .. N : k \in 0 .. N /\ k # 0
  BY <1>1
<1>9. taken[0] = << >>
  BY <1>7, <1>8
<1>10. \A k \in 1 .. N : taken[k] = IF list[k] \in set THEN Append(taken[k - 1], list[k])
                                    ELSE taken[k - 1]
  BY <1>7, <1>8
<1> QED
  BY <1>6, <1>9, <1>10

(* What is taken of the first k nodes.                                     *)
TakenOf(part, S, list, set, k) ==
  /\ part \in Seq(S)
  /\ \A x : Linked(part, x) <=> x \in set /\ \E j \in 1 .. k : list[j] = x
  /\ NoRepeat(list) => NoRepeat(part)
  /\ (\A j \in 1 .. k : list[j] \notin set) => part = << >>
  /\ (\A j \in 1 .. k : list[j] \in set) =>
       Len(part) = k /\ \A j \in 1 .. k : part[j] = list[j]

LEMMA OnlyTakes ==
  ASSUME NEW S, NEW list \in Seq(S), NEW set
  PROVE  TakenOf(Only(list, set), S, list, set, Len(list))
<1>1. Len(list) \in Nat /\ \A k \in 1 .. Len(list) : list[k] \in S
  BY LenProperties, ElementOfSeq
<1>2. PICK taken :
        /\ taken[0] = << >> /\ Only(list, set) = taken[Len(list)]
        /\ \A k \in 1 .. Len(list) :
             taken[k] = IF list[k] \in set THEN Append(taken[k - 1], list[k])
                        ELSE taken[k - 1]
  BY <1>1, OnlySteps
<1> DEFINE P == {k \in Nat : TakenOf(taken[k], S, list, set, k)}
<1>3. 0 \in P
  <2>1. << >> \in Seq(S) /\ Len(<< >>) = 0 /\ DOMAIN << >> = {} /\ 1 .. 0 = {}
    OBVIOUS
  <2> QED
    BY <1>2, <2>1 DEF TakenOf, Linked, ToSet, NoRepeat
<1>4. ASSUME NEW k \in 0 .. Len(list) - 1, k \in P PROVE k + 1 \in P
  <2> DEFINE x == list[k + 1]
             part == taken[k]
             more == taken[k + 1]
  <2>1. k + 1 \in 1 .. Len(list) /\ (k + 1) - 1 = k /\ k + 1 \in Nat /\ k \in Nat
        /\ x \in S
    BY <1>1
  <2>2. more = IF x \in set THEN Append(part, x) ELSE part
    BY <1>2, <2>1
  <2>3. TakenOf(part, S, list, set, k)
    BY <1>4
  <2>4. \A y : (\E j \in 1 .. k + 1 : list[j] = y) <=> y = x \/ \E j \in 1 .. k : list[j] = y
    BY <2>1
  <2>5. NoRepeat(list) => \A j \in 1 .. k : list[j] # x
    <3>1. DOMAIN list = 1 .. Len(list) /\ \A j \in 1 .. k : j \in 1 .. Len(list) /\ j # k + 1
      BY <1>1, <2>1, LenProperties
    <3> QED
      BY <2>1, <3>1 DEF NoRepeat
  <2>6. (\A j \in 1 .. k : j \in 1 .. k + 1) /\ k + 1 \in 1 .. k + 1
        /\ \A j \in 1 .. k + 1 : j = k + 1 \/ j \in 1 .. k
    BY <2>1
  <2> HIDE DEF x, part, more
  <2>7. CASE x \in set
    <3>1. /\ Append(part, x) \in Seq(S)
          /\ \A y : Linked(Append(part, x), y) <=> Linked(part, y) \/ y = x
          /\ NoRepeat(part) /\ ~Linked(part, x) => NoRepeat(Append(part, x))
      BY <2>1, <2>3, AppendLinks DEF TakenOf
    <3>2. /\ Len(Append(part, x)) = Len(part) + 1
          /\ \A n \in 1 .. Len(part) : Append(part, x)[n] = part[n]
          /\ Append(part, x)[Len(part) + 1] = x
      BY <2>1, <2>3, AppendProperties DEF TakenOf
    <3>3. more = Append(part, x) /\ x = list[k + 1]
      BY <2>2, <2>7 DEF x
    <3>4. \A y : Linked(more, y) <=> y \in set /\ \E j \in 1 .. k + 1 : list[j] = y
      BY <2>3, <2>4, <2>7, <3>1, <3>3 DEF TakenOf
    <3>5. NoRepeat(list) => NoRepeat(more)
      BY <2>3, <2>5, <3>1, <3>3 DEF TakenOf
    <3>6. (\A j \in 1 .. k + 1 : list[j] \in set) =>
             Len(more) = k + 1 /\ \A j \in 1 .. k + 1 : more[j] = list[j]
      BY <2>1, <2>3, <2>6, <3>2, <3>3 DEF TakenOf
    <3>7. ~ (\A j \in 1 .. k + 1 : list[j] \notin set)
      BY <2>6, <2>7, <3>3
    <3>8. TakenOf(more, S, list, set, k + 1)
      BY <3>1, <3>3, <3>4, <3>5, <3>6, <3>7 DEF TakenOf
    <3> QED
      BY <2>1, <3>8 DEF more
  <2>8. CASE x \notin set
    <3>1. more = part /\ x = list[k + 1]
      BY <2>2, <2>8 DEF x
    <3>2. \A y : Linked(more, y) <=> y \in set /\ \E j \in 1 .. k + 1 : list[j] = y
      BY <2>3, <2>4, <2>8, <3>1 DEF TakenOf
    <3>3. ~ (\A j \in 1 .. k + 1 : list[j] \in set)
      BY <2>6, <2>8, <3>1
    <3>4. (\A j \in 1 .. k + 1 : list[j] \notin set) => more = << >>
      BY <2>3, <2>6, <3>1 DEF TakenOf
    <3>5. TakenOf(more, S, list, set, k + 1)
      BY <2>3, <3>1, <3>2, <3>3, <3>4 DEF TakenOf
    <3> QED
      BY <2>1, <3>5 DEF more
  <2> QED
    BY <2>7, <2>8
<1>5. \A k \in 0 .. Len(list) : k \in P
  <2> HIDE DEF P
  <2> QED BY <1>1, <1>3, <1>4, Induct
<1>6. Len(list) \in P
  BY <1>1, <1>5
<1> QED
  BY <1>2, <1>6

(* The nodes that a walk takes are those of the list that are in the set,  *)
(* each once.                                                              *)
LEMMA OnlyLinks ==
  ASSUME NEW S, NEW list \in Seq(S), NEW set
  PROVE  /\ Only(list, set) \in Seq(S)
         /\ \A x : Linked(Only(list, set), x) <=> Linked(list, x) /\ x \in set
         /\ NoRepeat(list) => NoRepeat(Only(list, set))
<1>1. \A x : Linked(list, x) <=> \E j \in 1 .. Len(list) : list[j] = x
  <2>1. DOMAIN list = 1 .. Len(list)
    BY LenProperties
  <2> QED
    BY <2>1 DEF Linked, ToSet
<1> QED
  BY <1>1, OnlyTakes DEF TakenOf

LEMMA OnlyNone ==
  ASSUME NEW S, NEW list \in Seq(S), NEW set, \A x : Linked(list, x) => x \notin set
  PROVE  Only(list, set) = << >>
<1>1. \A j \in 1 .. Len(list) : Linked(list, list[j])
  BY LenProperties DEF Linked, ToSet
<1> QED
  BY <1>1, OnlyTakes DEF TakenOf

LEMMA OnlyAll ==
  ASSUME NEW S, NEW list \in Seq(S), NEW set, \A x : Linked(list, x) => x \in set
  PROVE  Only(list, set) = list
<1>1. \A j \in 1 .. Len(list) : Linked(list, list[j])
  BY LenProperties DEF Linked, ToSet
<1>2. /\ Only(list, set) \in Seq(S) /\ Len(Only(list, set)) = Len(list)
      /\ \A j \in 1 .. Len(list) : Only(list, set)[j] = list[j]
  BY <1>1, OnlyTakes DEF TakenOf
<1> QED
  BY <1>2, SeqEqual

(* One list behind another.                                                *)
LEMMA ConcatLinks ==
  ASSUME NEW S, NEW a \in Seq(S), NEW b \in Seq(S)
  PROVE  /\ a \o b \in Seq(S)
         /\ \A x : Linked(a \o b, x) <=> Linked(a, x) \/ Linked(b, x)
         /\ NoRepeat(a) /\ NoRepeat(b) /\ (\A x : ~ (Linked(a, x) /\ Linked(b, x)))
              => NoRepeat(a \o b)
<1> DEFINE both == a \o b
<1>1. /\ both \in Seq(S) /\ Len(both) = Len(a) + Len(b)
      /\ Len(a) \in Nat /\ Len(b) \in Nat
      /\ \A j \in 1 .. Len(a) + Len(b) :
           both[j] = IF j <= Len(a) THEN a[j] ELSE b[j - Len(a)]
  BY ConcatProperties, LenProperties
<1>2. /\ DOMAIN a = 1 .. Len(a) /\ DOMAIN b = 1 .. Len(b)
      /\ DOMAIN both = 1 .. Len(a) + Len(b)
  BY <1>1, LenProperties
<1> HIDE DEF both
<1>3. /\ \A j \in 1 .. Len(a) : j \in 1 .. Len(a) + Len(b) /\ both[j] = a[j]
      /\ \A j \in 1 .. Len(b) : j + Len(a) \in 1 .. Len(a) + Len(b)
                                /\ both[j + Len(a)] = b[j]
      /\ \A j \in 1 .. Len(a) + Len(b) :
           \/ j \in 1 .. Len(a) /\ both[j] = a[j]
           \/ j - Len(a) \in 1 .. Len(b) /\ both[j] = b[j - Len(a)]
  BY <1>1
<1>4. \A x : Linked(both, x) <=> Linked(a, x) \/ Linked(b, x)
  BY <1>2, <1>3 DEF Linked, ToSet
<1>5. ASSUME NoRepeat(a), NoRepeat(b), \A x : ~ (Linked(a, x) /\ Linked(b, x))
      PROVE  NoRepeat(both)
  <2>1. /\ \A j \in 1 .. Len(a) : Linked(a, a[j])
        /\ \A j \in 1 .. Len(b) : Linked(b, b[j])
    BY <1>2 DEF Linked, ToSet
  <2>2. \A j \in 1 .. Len(a), k \in 1 .. Len(b) : a[j] # b[k]
    BY <1>5, <2>1
  <2> SUFFICES ASSUME NEW j \in 1 .. Len(a) + Len(b), NEW k \in 1 .. Len(a) + Len(b),
                      both[j] = both[k]
               PROVE  j = k
    BY <1>2 DEF NoRepeat
  <2>3. CASE j \in 1 .. Len(a) /\ both[j] = a[j] /\ k \in 1 .. Len(a) /\ both[k] = a[k]
    BY <1>2, <1>5, <2>3 DEF NoRepeat
  <2>4. CASE /\ j - Len(a) \in 1 .. Len(b) /\ both[j] = b[j - Len(a)]
             /\ k - Len(a) \in 1 .. Len(b) /\ both[k] = b[k - Len(a)]
    <3>1. j - Len(a) = k - Len(a)
      BY <1>2, <1>5, <2>4 DEF NoRepeat
    <3> QED
      BY <1>1, <3>1
  <2> QED
    BY <1>3, <2>2, <2>3, <2>4
<1> QED
  BY <1>1, <1>4, <1>5 DEF both

(* The steps of a walk.                                                    *)
Walks(taken, list, set) ==
  /\ taken[0] = << >> /\ Only(list, set) = taken[Len(list)]
  /\ \A k \in 1 .. Len(list) :
       taken[k] = IF list[k] \in set THEN Append(taken[k - 1], list[k]) ELSE taken[k - 1]

LEMMA OnlyWalks ==
  ASSUME NEW S, NEW list \in Seq(S), NEW set
  PROVE  \E taken : Walks(taken, list, set)
BY LenProperties, OnlySteps DEF Walks

(* What a walk takes of a list that is longer behind by one node of the    *)
(* set and others that are not in it.                                      *)
LEMMA OnlyBehind ==
  ASSUME NEW S, NEW list \in Seq(S), NEW more \in Seq(S), NEW set,
         Len(more) > Len(list),
         \A j \in 1 .. Len(list) : more[j] = list[j],
         more[Len(list) + 1] \in set,
         \A j \in Len(list) + 2 .. Len(more) : more[j] \notin set
  PROVE  Only(more, set) = Append(Only(list, set), more[Len(list) + 1])
<1> DEFINE L == Len(list)
           M == Len(more)
<1>1. L \in Nat /\ M \in Nat
  BY LenProperties
<1>2. PICK t : Walks(t, list, set)
  BY OnlyWalks
<1>3. PICK u : Walks(u, more, set)
  BY OnlyWalks
<1> DEFINE P == {k \in Nat : u[k] = t[k]}
           R == {k \in Nat : u[L + 1 + k] = u[L + 1]}
<1>a. /\ t[0] = << >> /\ Only(list, set) = t[L]
      /\ \A k \in 1 .. L : t[k] = IF list[k] \in set THEN Append(t[k - 1], list[k])
                                  ELSE t[k - 1]
  BY <1>2 DEF Walks
<1>b. /\ u[0] = << >> /\ Only(more, set) = u[M]
      /\ \A k \in 1 .. M : u[k] = IF more[k] \in set THEN Append(u[k - 1], more[k])
                                  ELSE u[k - 1]
  BY <1>3 DEF Walks
<1>4. L < M /\ \A k \in 1 .. L : more[k] = list[k]
  OBVIOUS
<1>5. \A k \in L + 2 .. M : more[k] \notin set
  OBVIOUS
<1>6. more[L + 1] \in set
  OBVIOUS
<1> HIDE DEF L, M
<1>7. u[L] = t[L]
  <2>1. 0 \in P
    BY <1>a, <1>b
  <2>2. ASSUME NEW k \in 0 .. L - 1, k \in P PROVE k + 1 \in P
    <3>1. k + 1 \in 1 .. L /\ k + 1 \in 1 .. M /\ (k + 1) - 1 = k /\ k + 1 \in Nat
      BY <1>1, <1>4
    <3>2. u[k] = t[k] /\ more[k + 1] = list[k + 1]
      BY <1>4, <2>2, <3>1
    <3> QED
      BY <1>a, <1>b, <3>1, <3>2
  <2>3. \A k \in 0 .. L : k \in P
    <3> HIDE DEF P
    <3> QED BY <1>1, <2>1, <2>2, Induct
  <2> QED
    BY <1>1, <2>3
<1>8. u[L + 1] = Append(u[L], more[L + 1])
  <2>1. L + 1 \in 1 .. M /\ (L + 1) - 1 = L
    BY <1>1, <1>4
  <2> QED
    BY <1>b, <1>6, <2>1
<1>9. u[M] = u[L + 1]
  <2>1. 0 \in R
    BY <1>1
  <2>2. ASSUME NEW k \in 0 .. (M - L - 1) - 1, k \in R PROVE k + 1 \in R
    <3>1. L + 1 + (k + 1) \in L + 2 .. M /\ L + 1 + (k + 1) \in 1 .. M
          /\ (L + 1 + (k + 1)) - 1 = L + 1 + k /\ k + 1 \in Nat
      BY <1>1, <1>4
    <3> QED
      BY <1>b, <1>5, <2>2, <3>1
  <2>3. M - L - 1 \in Nat /\ L + 1 + (M - L - 1) = M
    BY <1>1, <1>4
  <2>4. \A k \in 0 .. M - L - 1 : k \in R
    <3> HIDE DEF R
    <3> QED BY <2>1, <2>2, <2>3, Induct
  <2>5. M - L - 1 \in 0 .. M - L - 1
    BY <2>3
  <2> QED
    BY <2>3, <2>4, <2>5
<1> QED
  BY <1>a, <1>b, <1>7, <1>8, <1>9 DEF L

(* A list that begins with one node of the set and others that are not in  *)
(* it, and what it takes of that list.                                     *)
Begins(list, rest, m, set) ==
  /\ m \in 1 .. Len(list) /\ Len(rest) = Len(list) - m
  /\ \A i \in 1 .. Len(rest) : rest[i] = list[m + i]
  /\ list[1] \in set
  /\ \A j \in 2 .. m : list[j] \notin set

LEMMA OnlyBefore ==
  ASSUME NEW S, NEW list \in Seq(S), NEW rest \in Seq(S), NEW set, NEW m,
         Begins(list, rest, m, set)
  PROVE  Only(list, set) = <<list[1]>> \o Only(rest, set)
<1> DEFINE L == Len(list)
           N == Len(rest)
           x == list[1]
<1>1. L \in Nat /\ N \in Nat /\ L = m + N /\ x \in S /\ m \in Nat \ {0}
  <2>1. L \in Nat /\ N \in Nat
    BY LenProperties
  <2>2. 1 \in 1 .. Len(list) /\ m \in 1 .. Len(list) /\ Len(rest) = Len(list) - m
    BY <2>1 DEF Begins
  <2>3. x \in S
    BY <2>2, ElementOfSeq
  <2> QED
    BY <2>1, <2>2, <2>3
<1>2. PICK t : Walks(t, rest, set)
  BY OnlyWalks
<1>3. PICK u : Walks(u, list, set)
  BY OnlyWalks
<1>a. /\ t[0] = << >> /\ Only(rest, set) = t[N]
      /\ \A k \in 1 .. N : t[k] = IF rest[k] \in set THEN Append(t[k - 1], rest[k])
                                  ELSE t[k - 1]
  BY <1>2 DEF Walks
<1>b. /\ u[0] = << >> /\ Only(list, set) = u[L]
      /\ \A k \in 1 .. L : u[k] = IF list[k] \in set THEN Append(u[k - 1], list[k])
                                  ELSE u[k - 1]
  BY <1>3 DEF Walks
<1>4. /\ \A i \in 1 .. N : rest[i] = list[m + i] /\ rest[i] \in S
      /\ \A j \in 2 .. m : list[j] \notin set
      /\ x \in set /\ x = list[1]
  BY ElementOfSeq DEF Begins
<1> HIDE DEF L, N, x
<1> DEFINE P == {k \in Nat : u[1 + k] = <<x>>}
           R == {k \in Nat : t[k] \in Seq(S) /\ u[m + k] = <<x>> \o t[k]}
<1>5. u[m] = <<x>>
  <2>1. 0 \in P
    <3>1. 1 \in 1 .. L /\ 1 - 1 = 0 /\ 1 + 0 = 1
      BY <1>1
    <3>2. u[1] = Append(<< >>, x)
      BY <1>b, <1>4, <3>1
    <3> QED
      BY <3>1, <3>2
  <2>2. ASSUME NEW k \in 0 .. (m - 1) - 1, k \in P PROVE k + 1 \in P
    <3>1. 1 + (k + 1) \in 2 .. m /\ 1 + (k + 1) \in 1 .. L
          /\ (1 + (k + 1)) - 1 = 1 + k /\ k + 1 \in Nat
      BY <1>1
    <3> QED
      BY <1>b, <1>4, <2>2, <3>1
  <2>3. m - 1 \in Nat /\ m - 1 \in 0 .. m - 1 /\ 1 + (m - 1) = m
    BY <1>1
  <2>4. \A k \in 0 .. m - 1 : k \in P
    <3> HIDE DEF P
    <3> QED BY <2>1, <2>2, <2>3, Induct
  <2> QED
    BY <2>3, <2>4
<1>6. u[m + N] = <<x>> \o t[N]
  <2>0. <<x>> \in Seq(S)
    BY <1>1
  <2>1. 0 \in R
    <3>1. << >> \in Seq(S) /\ m + 0 = m
      BY <1>1
    <3>2. <<x>> \o << >> = <<x>>
      BY <2>0, ConcatEmptySeq
    <3> QED
      BY <1>a, <1>5, <3>1, <3>2
  <2>2. ASSUME NEW k \in 0 .. N - 1, k \in R PROVE k + 1 \in R
    <3> DEFINE y == rest[k + 1]
               a == t[k]
    <3>1. k + 1 \in 1 .. N /\ m + (k + 1) \in 1 .. L /\ (k + 1) - 1 = k
          /\ (m + (k + 1)) - 1 = m + k /\ k + 1 \in Nat
      BY <1>1
    <3>2. list[m + (k + 1)] = y /\ y \in S
      BY <1>4, <3>1
    <3>3. a \in Seq(S) /\ u[m + k] = <<x>> \o a
      BY <2>2
    <3>4. t[k + 1] = IF y \in set THEN Append(a, y) ELSE a
      BY <1>a, <3>1
    <3>8. u[m + (k + 1)] = IF list[m + (k + 1)] \in set
                          THEN Append(u[(m + (k + 1)) - 1], list[m + (k + 1)])
                          ELSE u[(m + (k + 1)) - 1]
      BY <1>b, <3>1
    <3> HIDE DEF y, a
    <3>5. u[m + (k + 1)] = IF y \in set THEN Append(<<x>> \o a, y) ELSE <<x>> \o a
      BY <3>1, <3>2, <3>3, <3>8
    <3>6. Append(a, y) \in Seq(S)
      BY <3>2, <3>3, AppendProperties
    <3>7. Append(<<x>> \o a, y) = <<x>> \o Append(a, y)
      <4>1. <<x>> \o a \in Seq(S) /\ <<y>> \in Seq(S)
        BY <2>0, <3>2, <3>3, ConcatProperties
      <4>2. Append(<<x>> \o a, y) = (<<x>> \o a) \o <<y>> /\ Append(a, y) = a \o <<y>>
        BY <3>2, <3>3, <4>1, AppendIsConcat
      <4>3. (<<x>> \o a) \o <<y>> = <<x>> \o (a \o <<y>>)
        BY <2>0, <3>3, <4>1, ConcatAssociative
      <4> QED
        BY <4>2, <4>3
    <3> QED
      BY <3>1, <3>3, <3>4, <3>5, <3>6, <3>7
  <2>3. \A k \in 0 .. N : k \in R
    <3> HIDE DEF R
    <3> QED BY <1>1, <2>1, <2>2, Induct
  <2>4. N \in 0 .. N
    BY <1>1
  <2> QED
    BY <2>3, <2>4
<1> QED
  BY <1>1, <1>a, <1>b, <1>6 DEF x

LEMMA OnlyShorter ==
  ASSUME NEW S, NEW list \in Seq(S), NEW set
  PROVE  Only(list, set) \in Seq(S) /\ Len(Only(list, set)) <= Len(list)
<1>1. Len(list) \in Nat /\ \A k \in 1 .. Len(list) : list[k] \in S
  BY LenProperties, ElementOfSeq
<1>2. PICK t : Walks(t, list, set)
  BY OnlyWalks
<1> DEFINE L == Len(list)
           P == {k \in Nat : t[k] \in Seq(S) /\ Len(t[k]) <= k}
<1>3. /\ t[0] = << >> /\ Only(list, set) = t[L]
      /\ \A k \in 1 .. L : t[k] = IF list[k] \in set THEN Append(t[k - 1], list[k])
                                  ELSE t[k - 1]
  BY <1>2 DEF Walks
<1>4. L \in Nat /\ \A k \in 1 .. L : list[k] \in S
  BY <1>1
<1> HIDE DEF L
<1>5. 0 \in P
  <2>1. << >> \in Seq(S) /\ Len(<< >>) <= 0 /\ 0 \in Nat
    OBVIOUS
  <2> QED
    BY <1>3, <2>1
<1>6. ASSUME NEW k \in 0 .. L - 1, k \in P PROVE k + 1 \in P
  <2> DEFINE a == t[k]
             x == list[k + 1]
  <2>1. k + 1 \in 1 .. L /\ (k + 1) - 1 = k /\ k + 1 \in Nat /\ k \in Nat
    BY <1>4
  <2>2. a \in Seq(S) /\ Len(a) \in Nat /\ Len(a) <= k /\ x \in S
    BY <1>4, <1>6, <2>1, LenProperties
  <2>3. t[k + 1] = IF x \in set THEN Append(a, x) ELSE a
    BY <1>3, <2>1
  <2> HIDE DEF a, x
  <2>4. Append(a, x) \in Seq(S) /\ Len(Append(a, x)) = Len(a) + 1
    BY <2>2, AppendProperties
  <2>5. Len(a) <= k + 1 /\ Len(a) + 1 <= k + 1
    BY <2>1, <2>2
  <2> QED
    BY <2>1, <2>2, <2>3, <2>4, <2>5
<1>7. \A k \in 0 .. L : k \in P
  <2> HIDE DEF P
  <2> QED BY <1>4, <1>5, <1>6, Induct
<1> QED
  BY <1>3, <1>4, <1>7 DEF L
=============================================================================
