----------------------------- MODULE IndexProofs ----------------------------
(* Proofs about the lists of streams: each account's lists hold its stored   *)
(* streams once and nothing else, so that the count create_stream compares   *)
(* with the sender's limit is the number of streams the sender has.          *)
EXTENDS EscrowProofs, SequenceTheorems

(* A list as the code keeps it, of the ids in a set.                         *)
GoodList(index, ids) == index.count \in Nat /\ Lists(index, ids)

LEMMA GoodListIs ==
    ASSUME NEW index, NEW ids
    PROVE  GoodList(index, ids) <=>
             /\ index.count \in Nat
             /\ DOMAIN index.slots = 0..(index.count - 1)
             /\ \A i, j \in 0..(index.count - 1) :
                   index.slots[i] = index.slots[j] => i = j
             /\ \A i \in 0..(index.count - 1) : index.slots[i] \in ids
             /\ \A id \in ids : \E i \in 0..(index.count - 1) : index.slots[i] = id
  BY DEF GoodList, Lists, Gapless, Once, Distinct, Listed

(* Appending an id, ...                                                      *)
LEMMA IndexedGood ==
    ASSUME NEW index, NEW ids, GoodList(index, ids), NEW id, id \notin ids
    PROVE  GoodList(Indexed(index, id), ids \cup {id})
  <1> DEFINE n == index.count
             more == Indexed(index, id)
  <1>1. /\ n \in Nat /\ DOMAIN index.slots = 0..(n - 1)
        /\ \A i, j \in 0..(n - 1) : index.slots[i] = index.slots[j] => i = j
        /\ \A i \in 0..(n - 1) : index.slots[i] \in ids
        /\ \A k \in ids : \E i \in 0..(n - 1) : index.slots[i] = k
    BY GoodListIs
  <1>2. /\ more.count = n + 1 /\ DOMAIN more.slots = (0..(n - 1)) \cup {n}
        /\ more.slots[n] = id
        /\ \A i \in 0..(n - 1) : i # n => more.slots[i] = index.slots[i]
    BY <1>1 DEF Indexed, Put
  <1> HIDE DEF n, more
  <1>3. /\ n + 1 \in Nat /\ (n + 1) - 1 = n
        /\ (0..(n - 1)) \cup {n} = 0..n /\ \A i \in 0..(n - 1) : i # n
    BY <1>1
  <1>4. /\ more.count \in Nat /\ DOMAIN more.slots = 0..(more.count - 1)
        /\ 0..(more.count - 1) = 0..n
    BY <1>2, <1>3
  <1>5. \A i \in 0..n : i = n \/ i \in 0..(n - 1)
    BY <1>1
  <1>6. \A i, j \in 0..n : more.slots[i] = more.slots[j] => i = j
    BY <1>1, <1>2, <1>3, <1>5
  <1>7. \A i \in 0..n : more.slots[i] \in ids \cup {id}
    BY <1>1, <1>2, <1>3, <1>5
  <1>8. \A k \in ids \cup {id} : \E i \in 0..n : more.slots[i] = k
    BY <1>1, <1>2, <1>3
  <1>9. GoodList(more, ids \cup {id})
    BY <1>4, <1>6, <1>7, <1>8, GoodListIs
  <1> QED
    BY <1>9 DEF more

(* ... and taking one out by swap and pop.                                   *)
LEMMA UnindexedGood ==
    ASSUME NEW index, NEW ids, GoodList(index, ids), NEW id \in ids
    PROVE  GoodList(Unindexed(index, id), ids \ {id})
  <1> DEFINE n == index.count
             last == n - 1
             less == Unindexed(index, id)
  <1>1. /\ n \in Nat /\ DOMAIN index.slots = 0..(n - 1)
        /\ \A i, j \in 0..(n - 1) : index.slots[i] = index.slots[j] => i = j
        /\ \A i \in 0..(n - 1) : index.slots[i] \in ids
        /\ \A k \in ids : \E i \in 0..(n - 1) : index.slots[i] = k
    BY GoodListIs
  <1>2. PICK f \in 0..(n - 1) : index.slots[f] = id
    BY <1>1
  <1>3. Holding(index, id) = {f}
    BY <1>1, <1>2 DEF Holding
  <1>4. FirstHolding(index, id) = f
    <2>1. \A i : i \in Holding(index, id) /\ (\A j \in Holding(index, id) : i <= j) <=> i = f
      BY <1>2, <1>3
    <2> QED
      BY <2>1 DEF FirstHolding
  <1> DEFINE moved == [index.slots EXCEPT ![f] = index.slots[last]]
  <1>5. less = [count |-> last, slots |-> Drop(moved, last)]
    BY <1>3, <1>4 DEF Unindexed
  <1> HIDE DEF less
  <1>6. /\ DOMAIN moved = 0..(n - 1)
        /\ moved[f] = index.slots[last]
        /\ \A i \in 0..(n - 1) : i # f => moved[i] = index.slots[i]
    BY <1>1, <1>2
  <1> HIDE DEF moved
  <1>7. /\ less.count = last
        /\ DOMAIN less.slots = (0..(n - 1)) \ {last}
        /\ \A i \in (0..(n - 1)) \ {last} : less.slots[i] = moved[i]
    BY <1>5, <1>6 DEF Drop
  <1>8. /\ last \in Nat /\ last \in 0..(n - 1) /\ (0..(n - 1)) \ {last} = 0..(last - 1)
        /\ \A i \in 0..(last - 1) : i \in 0..(n - 1) /\ i # last
        /\ \A i \in 0..(n - 1) : i # last => i \in 0..(last - 1)
    <2>1. n \in Nat /\ n > 0 /\ last = n - 1
      BY <1>1, <1>2
    <2> HIDE DEF n, last
    <2>2. last \in Nat /\ last \in 0..(n - 1)
      BY <2>1
    <2>3. \A i : i \in 0..(last - 1) <=> i \in 0..(n - 1) /\ i # last
      BY <2>1
    <2> QED
      BY <2>2, <2>3
  <1> HIDE DEF n, last
  <1>9. \A i \in 0..(last - 1) :
           less.slots[i] = IF i = f THEN index.slots[last] ELSE index.slots[i]
    BY <1>6, <1>7, <1>8
  <1>10. \A i, j \in 0..(last - 1) : less.slots[i] = less.slots[j] => i = j
    BY <1>1, <1>8, <1>9
  <1>11. \A i \in 0..(last - 1) : less.slots[i] \in ids \ {id}
    BY <1>1, <1>2, <1>8, <1>9
  <1>12. ASSUME NEW k \in ids \ {id} PROVE \E i \in 0..(last - 1) : less.slots[i] = k
    <2>1. PICK j \in 0..(n - 1) : index.slots[j] = k
      BY <1>1
    <2>2. j # f
      BY <1>2, <2>1
    <2>3. CASE j = last
      BY <1>2, <1>8, <1>9, <2>1, <2>2, <2>3
    <2>4. CASE j # last
      BY <1>8, <1>9, <2>1, <2>2, <2>4
    <2> QED
      BY <2>3, <2>4
  <1>13. GoodList(less, ids \ {id})
    BY <1>7, <1>8, <1>10, <1>11, <1>12, GoodListIs
  <1> QED
    BY <1>13 DEF less

(* The counter of a list is the number of its ids.                           *)
LEMMA CountIsSize ==
    ASSUME NEW index, NEW ids, GoodList(index, ids)
    PROVE  Cardinality(ids) = index.count
  <1> DEFINE n == index.count
             slot == [i \in 1..n |-> index.slots[i - 1]]
  <1>1. /\ n \in Nat
        /\ \A i, j \in 0..(n - 1) : index.slots[i] = index.slots[j] => i = j
        /\ \A i \in 0..(n - 1) : index.slots[i] \in ids
        /\ \A k \in ids : \E i \in 0..(n - 1) : index.slots[i] = k
    BY GoodListIs
  <1> HIDE DEF n
  <1>2. \A i \in 1..n : i - 1 \in 0..(n - 1)
    BY <1>1
  <1>3. slot \in Injection(1..n, ids)
    <2>1. slot \in [1..n -> ids]
      BY <1>1, <1>2
    <2>2. ASSUME NEW i \in 1..n, NEW j \in 1..n, slot[i] = slot[j] PROVE i = j
      <3>1. i - 1 = j - 1
        BY <1>1, <1>2, <2>2
      <3> QED
        BY <1>1, <3>1
    <2> HIDE DEF slot
    <2> QED
      BY <2>1, <2>2 DEF Injection, IsInjective
  <1>4. slot \in Surjection(1..n, ids)
    <2>1. slot \in [1..n -> ids]
      BY <1>1, <1>2
    <2>2. ASSUME NEW k \in ids PROVE \E i \in 1..n : slot[i] = k
      <3>1. PICK j \in 0..(n - 1) : index.slots[j] = k
        BY <1>1
      <3>2. j + 1 \in 1..n /\ (j + 1) - 1 = j
        BY <1>1
      <3> QED
        BY <3>1, <3>2
    <2> HIDE DEF slot
    <2> QED
      BY <2>1, <2>2 DEF Surjection
  <1>5. ExistsBijection(1..n, ids)
    BY <1>3, <1>4 DEF ExistsBijection, Bijection
  <1>6. Cardinality(ids) = n
    BY <1>1, <1>5, FS_CountingElements
  <1> QED
    BY <1>6 DEF n

-----------------------------------------------------------------------------
(* The loops of the queries.  A set of numbers that holds 0 and with each    *)
(* number the next holds them all; so does a set of sequences that holds the *)
(* empty one and with each sequence its extensions.                          *)
LEMMA AllNumbers ==
    ASSUME NEW Good, 0 \in Good, \A n \in Nat : n \in Good => n + 1 \in Good
    PROVE  Nat \subseteq Good
  <1> DEFINE Bad == Nat \ Good
  <1>1. SUFFICES ASSUME Bad # {} PROVE FALSE
    OBVIOUS
  <1>2. PICK m \in Bad : \A k \in Bad : m <= k
    <2>1. Bad \subseteq Nat
      OBVIOUS
    <2> HIDE DEF Bad
    <2> QED
      BY <1>1, <2>1, SmallestNumber
  <1>3. m # 0 /\ m \in Nat
    BY <1>2
  <1>4. m - 1 \in Nat /\ m = (m - 1) + 1 /\ ~(m <= m - 1)
    BY <1>3
  <1>5. m - 1 \in Good
    BY <1>2, <1>4
  <1> QED
    BY <1>2, <1>4, <1>5

LEMMA AllSequences ==
    ASSUME NEW S, NEW Good, <<>> \in Good,
           \A s \in Seq(S) : \A x \in S : s \in Good => Append(s, x) \in Good
    PROVE  Seq(S) \subseteq Good
  <1> DEFINE Lengths == {n \in Nat : \A s \in Seq(S) : Len(s) = n => s \in Good}
  <1>1. ASSUME NEW s \in Seq(S), Len(s) = 0 PROVE s \in Good
    BY <1>1, EmptySeq
  <1>2. ASSUME NEW n \in Nat, n \in Lengths PROVE n + 1 \in Lengths
    <2>1. ASSUME NEW s \in Seq(S), Len(s) = n + 1 PROVE s \in Good
      <3>1. s # <<>>
        BY <2>1
      <3>2. PICK r \in Seq(S), x \in S : s = Append(r, x)
        BY <3>1, SequenceEmptyOrAppend
      <3>3. Len(r) = n
        BY <2>1, <3>2, AppendProperties, LenProperties
      <3> QED
        BY <1>2, <3>2, <3>3
    <2> QED
      BY <2>1
  <1>3. 0 \in Lengths
    BY <1>1
  <1> HIDE DEF Lengths
  <1>4. Nat \subseteq Lengths
    BY <1>2, <1>3, AllNumbers
  <1>5. ASSUME NEW s \in Seq(S) PROVE s \in Good
    BY <1>4, LenProperties DEF Lengths
  <1> QED
    BY <1>5

(* f is the loop of Those over a list, ...                                   *)
Finds(f, list, set) ==
    f = [n \in 0..Len(list) |->
            IF n = 0 THEN <<>>
            ELSE IF list[n] \in set THEN Append(f[n - 1], list[n]) ELSE f[n - 1]]

LEMMA FindsSteps ==
    ASSUME NEW list, Len(list) \in Nat, NEW set, NEW f, Finds(f, list, set)
    PROVE  /\ f[0] = <<>>
           /\ \A n \in 1..Len(list) :
                 f[n] = IF list[n] \in set THEN Append(f[n - 1], list[n]) ELSE f[n - 1]
  <1>1. \A n \in 0..Len(list) :
           f[n] = IF n = 0 THEN <<>>
                  ELSE IF list[n] \in set THEN Append(f[n - 1], list[n]) ELSE f[n - 1]
    BY DEF Finds
  <1>2. \A n \in 1..Len(list) : n \in 0..Len(list) /\ n # 0
    OBVIOUS
  <1> QED
    BY <1>1, <1>2

(* ... it exists for every list, ...                                         *)
LEMMA FindsMore ==
    ASSUME NEW S, NEW list \in Seq(S), NEW x \in S, NEW set, NEW f, Finds(f, list, set)
    PROVE  \E g : Finds(g, Append(list, x), set)
  <1> DEFINE m == Len(list)
             more == Append(list, x)
             g == [n \in 0..(m + 1) |->
                      IF n \in 0..m THEN f[n]
                      ELSE IF x \in set THEN Append(f[m], x) ELSE f[m]]
  <1>1. /\ m \in Nat /\ Len(more) = m + 1 /\ more[m + 1] = x
        /\ \A n \in 1..m : more[n] = list[n]
    BY LenProperties, AppendProperties
  <1> HIDE DEF m, more
  <1>2. /\ f[0] = <<>>
        /\ \A n \in 1..m :
              f[n] = IF list[n] \in set THEN Append(f[n - 1], list[n]) ELSE f[n - 1]
    BY <1>1, FindsSteps DEF m
  <1>3. /\ \A n \in 0..m : g[n] = f[n]
        /\ g[m + 1] = IF x \in set THEN Append(f[m], x) ELSE f[m]
    BY <1>1
  <1>4. g = [n \in 0..(m + 1) |-> g[n]]
    OBVIOUS
  <1> HIDE DEF g
  <1>5. ASSUME NEW n \in 0..(m + 1)
        PROVE  g[n] = IF n = 0 THEN <<>>
                      ELSE IF more[n] \in set THEN Append(g[n - 1], more[n]) ELSE g[n - 1]
    <2>1. CASE n = 0
      BY <1>1, <1>2, <1>3, <2>1
    <2>2. CASE n \in 1..m
      <3>1. n \in 0..m /\ n - 1 \in 0..m /\ n # 0
        BY <1>1, <2>2
      <3> QED
        BY <1>1, <1>2, <1>3, <2>2, <3>1
    <2>3. CASE n = m + 1
      <3>1. n - 1 = m /\ m \in 0..m /\ n # 0
        BY <1>1, <2>3
      <3> QED
        BY <1>1, <1>3, <2>3, <3>1
    <2> QED
      BY <1>1, <2>1, <2>2, <2>3
  <1>6. g = [n \in 0..(m + 1) |->
                IF n = 0 THEN <<>>
                ELSE IF more[n] \in set THEN Append(g[n - 1], more[n]) ELSE g[n - 1]]
    BY <1>4, <1>5
  <1> QED
    BY <1>1, <1>6 DEF Finds, more

LEMMA FindsExist ==
    ASSUME NEW S, NEW list \in Seq(S), NEW set
    PROVE  \E f : Finds(f, list, set)
  <1> DEFINE Good == {s \in Seq(S) : \E f : Finds(f, s, set)}
  <1>1. <<>> \in Good
    <2> DEFINE z == [n \in 0..0 |-> <<>>]
    <2>1. \A n \in 0..0 : n = 0
      OBVIOUS
    <2>2. z = [n \in 0..0 |-> IF n = 0 THEN <<>>
                             ELSE IF <<>>[n] \in set THEN Append(z[n - 1], <<>>[n])
                             ELSE z[n - 1]]
      BY <2>1
    <2> HIDE DEF z
    <2>3. Len(<<>>) = 0 /\ <<>> \in Seq(S)
      BY EmptySeq
    <2>4. Finds(z, <<>>, set)
      BY <2>2, <2>3 DEF Finds
    <2> QED
      BY <2>3, <2>4
  <1>2. ASSUME NEW s \in Seq(S), NEW x \in S, s \in Good PROVE Append(s, x) \in Good
    <2>1. Append(s, x) \in Seq(S)
      BY AppendProperties
    <2> QED
      BY <1>2, <2>1, FindsMore
  <1> HIDE DEF Good
  <1>3. Seq(S) \subseteq Good
    BY <1>1, <1>2, AllSequences
  <1> QED
    BY <1>3 DEF Good

LEMMA ThoseFinds ==
    ASSUME NEW S, NEW list \in Seq(S), NEW set
    PROVE  \E f : Finds(f, list, set) /\ Those(list, set) = f[Len(list)]
  <1> DEFINE Body(f) == [n \in 0..Len(list) |->
                IF n = 0 THEN <<>>
                ELSE IF list[n] \in set THEN Append(f[n - 1], list[n]) ELSE f[n - 1]]
             found == CHOOSE f : f = Body(f)
  <1>1. Those(list, set) = found[Len(list)]
    BY DEF Those
  <1>2. \E f : f = Body(f)
    BY FindsExist, ZenonT(60) DEF Finds
  <1>3. found = Body(found)
    BY <1>2
  <1>4. Finds(found, list, set)
    BY <1>3 DEF Finds
  <1> HIDE DEF found
  <1> QED
    BY <1>1, <1>4

(* ... and works from the front: what is found so far does not depend on     *)
(* what follows.                                                             *)
LEMMA ThoseAppend ==
    ASSUME NEW S, NEW list \in Seq(S), NEW x \in S, NEW set
    PROVE  Those(Append(list, x), set) =
               IF x \in set THEN Append(Those(list, set), x) ELSE Those(list, set)
  <1> DEFINE m == Len(list)
             more == Append(list, x)
  <1>1. /\ m \in Nat /\ Len(more) = m + 1 /\ more[m + 1] = x /\ more \in Seq(S)
        /\ \A n \in 1..m : more[n] = list[n]
    BY LenProperties, AppendProperties
  <1>2. PICK f : Finds(f, list, set) /\ Those(list, set) = f[m]
    BY ThoseFinds
  <1>3. PICK g : Finds(g, more, set) /\ Those(more, set) = g[m + 1]
    BY <1>1, ThoseFinds
  <1>4. /\ f[0] = <<>> /\ g[0] = <<>>
        /\ \A n \in 1..m :
              f[n] = IF list[n] \in set THEN Append(f[n - 1], list[n]) ELSE f[n - 1]
        /\ \A n \in 1..(m + 1) :
              g[n] = IF more[n] \in set THEN Append(g[n - 1], more[n]) ELSE g[n - 1]
    <2>1. /\ f[0] = <<>>
          /\ \A n \in 1..m :
                f[n] = IF list[n] \in set THEN Append(f[n - 1], list[n]) ELSE f[n - 1]
      BY <1>1, <1>2, FindsSteps
    <2>2. Len(more) \in Nat
      BY <1>1
    <2> HIDE DEF more
    <2>3. /\ g[0] = <<>>
          /\ \A n \in 1..Len(more) :
                g[n] = IF more[n] \in set THEN Append(g[n - 1], more[n]) ELSE g[n - 1]
      BY <1>3, <2>2, FindsSteps
    <2> QED
      BY <1>1, <2>1, <2>3
  <1> HIDE DEF m, more
  <1> DEFINE Good == {n \in Nat : n <= m => f[n] = g[n]}
  <1>5. 0 \in Good
    BY <1>4
  <1>6. ASSUME NEW n \in Nat, n \in Good PROVE n + 1 \in Good
    <2>1. SUFFICES ASSUME n + 1 <= m PROVE f[n + 1] = g[n + 1]
      OBVIOUS
    <2>2. f[n] = g[n]
      BY <1>1, <1>6, <2>1
    <2>3. n + 1 \in 1..m /\ n + 1 \in 1..(m + 1) /\ (n + 1) - 1 = n
      BY <1>1, <2>1
    <2> HIDE DEF Good
    <2> QED
      BY <1>1, <1>4, <2>2, <2>3
  <1> HIDE DEF Good
  <1>7. Nat \subseteq Good
    BY <1>5, <1>6, AllNumbers
  <1>8. f[m] = g[m]
    BY <1>1, <1>7 DEF Good
  <1>9. m + 1 \in 1..(m + 1) /\ (m + 1) - 1 = m
    BY <1>1
  <1>10. g[m + 1] = IF x \in set THEN Append(g[m], x) ELSE g[m]
    BY <1>1, <1>4, <1>9
  <1> QED
    BY <1>2, <1>3, <1>8, <1>10 DEF more

LEMMA ThoseEmpty ==
    ASSUME NEW set
    PROVE  Those(<<>>, set) = <<>>
  <1>1. <<>> \in Seq({}) /\ Len(<<>>) = 0
    BY EmptySeq
  <1>2. PICK f : Finds(f, <<>>, set) /\ Those(<<>>, set) = f[0]
    BY <1>1, ThoseFinds
  <1> QED
    BY <1>1, <1>2, FindsSteps

LEMMA ListedAppend ==
    ASSUME NEW S, NEW list \in Seq(S), NEW x \in S
    PROVE  /\ Listed(Append(list, x)) = Listed(list) \cup {x}
           /\ Distinct(Append(list, x)) <=> Distinct(list) /\ x \notin Listed(list)
  <1> DEFINE m == Len(list)
             more == Append(list, x)
  <1>1. /\ m \in Nat /\ DOMAIN list = 1..m /\ DOMAIN more = 1..(m + 1)
        /\ more[m + 1] = x /\ \A n \in 1..m : more[n] = list[n]
    BY LenProperties, AppendProperties
  <1> HIDE DEF m, more
  <1>2. \A n : n \in 1..(m + 1) <=> n \in 1..m \/ n = m + 1
    BY <1>1
  <1>3. m + 1 \notin 1..m
    BY <1>1
  <1>4. Listed(more) = Listed(list) \cup {x}
    BY <1>1, <1>2 DEF Listed
  <1>5. Distinct(more) <=> Distinct(list) /\ x \notin Listed(list)
    <2>1. ASSUME Distinct(list), x \notin Listed(list), NEW i \in 1..(m + 1),
                 NEW j \in 1..(m + 1), more[i] = more[j]
          PROVE  i = j
      BY <1>1, <1>2, <2>1 DEF Distinct, Listed
    <2>2. ASSUME Distinct(more) PROVE Distinct(list) /\ x \notin Listed(list)
      BY <1>1, <1>2, <1>3, <2>2 DEF Distinct, Listed
    <2> QED
      BY <1>1, <2>1, <2>2 DEF Distinct
  <1> QED
    BY <1>4, <1>5 DEF more

(* What the loop finds: the items of the list that are in the set, ...       *)
LEMMA ThoseAre ==
    ASSUME NEW S, NEW list \in Seq(S), NEW set
    PROVE  /\ Those(list, set) \in Seq(S)
           /\ Listed(Those(list, set)) = Listed(list) \cap set
           /\ Distinct(list) => Distinct(Those(list, set))
  <1> DEFINE Good == {s \in Seq(S) : /\ Those(s, set) \in Seq(S)
                                     /\ Listed(Those(s, set)) = Listed(s) \cap set
                                     /\ Distinct(s) => Distinct(Those(s, set))}
  <1>1. <<>> \in Good
    <2>1. <<>> \in Seq(S) /\ Those(<<>>, set) = <<>>
      BY ThoseEmpty
    <2>2. Listed(<<>>) = {}
      BY DEF Listed
    <2> QED
      BY <2>1, <2>2
  <1>2. ASSUME NEW s \in Seq(S), NEW x \in S, s \in Good PROVE Append(s, x) \in Good
    <2> DEFINE found == Those(s, set)
               more == Those(Append(s, x), set)
    <2>1. /\ found \in Seq(S) /\ Listed(found) = Listed(s) \cap set
          /\ Distinct(s) => Distinct(found)
      BY <1>2
    <2>2. more = IF x \in set THEN Append(found, x) ELSE found
      BY ThoseAppend
    <2>3. /\ Append(s, x) \in Seq(S) /\ Listed(Append(s, x)) = Listed(s) \cup {x}
          /\ Distinct(Append(s, x)) <=> Distinct(s) /\ x \notin Listed(s)
      BY ListedAppend, AppendProperties
    <2> HIDE DEF found, more
    <2>4. /\ Append(found, x) \in Seq(S) /\ Listed(Append(found, x)) = Listed(found) \cup {x}
          /\ Distinct(Append(found, x)) <=> Distinct(found) /\ x \notin Listed(found)
      BY <2>1, ListedAppend, AppendProperties
    <2>5. /\ more \in Seq(S) /\ Listed(more) = Listed(Append(s, x)) \cap set
          /\ Distinct(Append(s, x)) => Distinct(more)
      <3>1. CASE x \in set
        BY <2>1, <2>2, <2>3, <2>4, <3>1
      <3>2. CASE x \notin set
        BY <2>1, <2>2, <2>3, <3>2
      <3> QED
        BY <3>1, <3>2
    <2> QED
      BY <2>3, <2>5 DEF more
  <1> HIDE DEF Good
  <1>3. Seq(S) \subseteq Good
    BY <1>1, <1>2, AllSequences
  <1> QED
    BY <1>3 DEF Good

(* ... all of them if the set has them all, ...                              *)
LEMMA ThoseAll ==
    ASSUME NEW S, NEW list \in Seq(S), NEW set, Listed(list) \subseteq set
    PROVE  Those(list, set) = list
  <1> DEFINE Good == {s \in Seq(S) : Listed(s) \subseteq set => Those(s, set) = s}
  <1>1. <<>> \in Good
    BY ThoseEmpty
  <1>2. ASSUME NEW s \in Seq(S), NEW x \in S, s \in Good PROVE Append(s, x) \in Good
    BY <1>2, ListedAppend, AppendProperties, ThoseAppend
  <1> HIDE DEF Good
  <1>3. Seq(S) \subseteq Good
    BY <1>1, <1>2, AllSequences
  <1> QED
    BY <1>3 DEF Good

(* ... and the same by two loops, one after the other, as by one.            *)
LEMMA ThoseOfThose ==
    ASSUME NEW S, NEW list \in Seq(S), NEW A, NEW B
    PROVE  Those(Those(list, A), B) = Those(list, A \cap B)
  <1> DEFINE Good == {s \in Seq(S) : Those(Those(s, A), B) = Those(s, A \cap B)}
  <1>1. <<>> \in Good
    BY ThoseEmpty
  <1>2. ASSUME NEW s \in Seq(S), NEW x \in S, s \in Good PROVE Append(s, x) \in Good
    <2>1. Those(s, A) \in Seq(S) /\ Append(s, x) \in Seq(S)
      BY ThoseAre, AppendProperties
    <2>2. /\ Those(Append(s, x), A) = IF x \in A THEN Append(Those(s, A), x) ELSE Those(s, A)
          /\ Those(Append(s, x), A \cap B) =
                IF x \in A \cap B THEN Append(Those(s, A \cap B), x) ELSE Those(s, A \cap B)
          /\ Those(Append(Those(s, A), x), B) =
                IF x \in B THEN Append(Those(Those(s, A), B), x) ELSE Those(Those(s, A), B)
      BY <2>1, ThoseAppend
    <2>3. Those(Those(s, A), B) = Those(s, A \cap B)
      BY <1>2
    <2>4. Those(Those(Append(s, x), A), B) = Those(Append(s, x), A \cap B)
      <3>1. CASE x \in A /\ x \in B
        <4>1. x \in A \cap B
          BY <3>1
        <4> QED
          BY <2>2, <2>3, <3>1, <4>1
      <3>2. CASE x \in A /\ x \notin B
        <4>1. x \notin A \cap B
          BY <3>2
        <4> QED
          BY <2>2, <2>3, <3>2, <4>1
      <3>3. CASE x \notin A
        <4>1. x \notin A \cap B
          BY <3>3
        <4> QED
          BY <2>2, <2>3, <3>3, <4>1
      <3> QED
        BY <3>1, <3>2, <3>3
    <2> QED
      BY <2>1, <2>4
  <1> HIDE DEF Good
  <1>3. Seq(S) \subseteq Good
    BY <1>1, <1>2, AllSequences
  <1> QED
    BY <1>3 DEF Good

(* The slots of a list without gaps, read from first to end.                 *)
LEMMA IdsBetweenAre ==
    ASSUME NEW index, index.count \in Nat, Gapless(index),
           NEW first \in Nat, NEW end \in Int, end <= index.count,
           NEW n, n = IF end > first THEN end - first ELSE 0
    PROVE  LET cut == IdsBetween(index, first, end)
           IN  /\ cut = [k \in 1..n |-> cut[k]]
               /\ \A k \in 1..n : cut[k] = index.slots[first + k - 1]
  <1> DEFINE list == [k \in 1..n |-> first + k - 1]
  <1>1. n \in Nat /\ \A k \in 1..n : first + k - 1 \in Int
    OBVIOUS
  <1>2. list \in Seq(Int)
    BY <1>1, IsASeq
  <1>3. DOMAIN list = 1..n /\ \A k \in 1..n : list[k] = first + k - 1
    OBVIOUS
  <1>4. \A k \in 1..n : first + k - 1 \in 0..(index.count - 1)
    BY <1>1
  <1>5. Listed(list) \subseteq DOMAIN index.slots
    BY <1>3, <1>4 DEF Listed, Gapless
  <1>6. Those(list, DOMAIN index.slots) = list
    <2> HIDE DEF list
    <2> QED
      BY <1>2, <1>5, ThoseAll
  <1>7. IdsBetween(index, first, end) = [k \in DOMAIN list |-> index.slots[list[k]]]
    BY <1>6 DEF IdsBetween
  <1> QED
    BY <1>7, <1>3

(* What a cut of a good list holds: the ids in its slots, each once.         *)
LEMMA CutIs ==
    ASSUME NEW index, NEW ids, GoodList(index, ids),
           NEW first \in Nat, NEW end \in Int, end <= index.count
    PROVE  LET cut == IdsBetween(index, first, end)
           IN  /\ cut \in Seq(ids) /\ Distinct(cut)
               /\ \A id : id \in Listed(cut) <=>
                     \E i \in 0..(index.count - 1) : first <= i /\ i < end /\ index.slots[i] = id
  <1> DEFINE n == IF end > first THEN end - first ELSE 0
             cut == IdsBetween(index, first, end)
             count == index.count
  <1>1. /\ count \in Nat /\ Gapless(index)
        /\ \A i, j \in 0..(count - 1) : index.slots[i] = index.slots[j] => i = j
        /\ \A i \in 0..(count - 1) : index.slots[i] \in ids
    BY GoodListIs DEF Gapless
  <1>2. /\ cut = [k \in 1..n |-> cut[k]] /\ n \in Nat
        /\ \A k \in 1..n : cut[k] = index.slots[first + k - 1]
    <2>1. index.count \in Nat /\ Gapless(index) /\ end <= index.count
      BY <1>1
    <2>2. n = (IF end > first THEN end - first ELSE 0) /\ n \in Nat
      OBVIOUS
    <2> HIDE DEF n
    <2> QED
      BY <2>1, <2>2, IdsBetweenAre
  <1>3. \A k \in 1..n : /\ first + k - 1 \in 0..(count - 1)
                        /\ first <= first + k - 1 /\ first + k - 1 < end
    BY <1>1
  <1>4. \A i \in 0..(count - 1) : first <= i /\ i < end
                                  => i - first + 1 \in 1..n /\ first + (i - first + 1) - 1 = i
    BY <1>1
  <1> HIDE DEF n, cut, count
  <1>5. cut \in Seq(ids)
    <2>1. \A k \in 1..n : cut[k] \in ids
      BY <1>1, <1>2, <1>3
    <2> QED
      BY <1>2, <2>1, IsASeq
  <1>6. DOMAIN cut = 1..n /\ \A k \in 1..n : cut[k] = index.slots[first + k - 1]
    BY <1>2
  <1>7. Distinct(cut)
    <2>1. ASSUME NEW k \in 1..n, NEW l \in 1..n, cut[k] = cut[l] PROVE k = l
      <3>1. first + k - 1 = first + l - 1
        BY <1>1, <1>3, <1>6, <2>1
      <3> QED
        BY <1>2, <3>1
    <2> QED
      BY <1>6, <2>1 DEF Distinct
  <1>8. ASSUME NEW id
        PROVE  id \in Listed(cut) <=>
                   \E i \in 0..(count - 1) : first <= i /\ i < end /\ index.slots[i] = id
    <2>1. id \in Listed(cut) <=> \E k \in 1..n : index.slots[first + k - 1] = id
      BY <1>6 DEF Listed
    <2>2. ASSUME NEW k \in 1..n, index.slots[first + k - 1] = id
          PROVE  \E i \in 0..(count - 1) : first <= i /\ i < end /\ index.slots[i] = id
      BY <1>3, <2>2
    <2>3. ASSUME NEW i \in 0..(count - 1), first <= i, i < end, index.slots[i] = id
          PROVE  \E k \in 1..n : index.slots[first + k - 1] = id
      <3>1. i - first + 1 \in 1..n /\ first + (i - first + 1) - 1 = i
        BY <1>4, <2>3
      <3> QED
        BY <2>3, <3>1
    <2> QED
      BY <2>1, <2>2, <2>3
  <1> QED
    BY <1>5, <1>7, <1>8 DEF cut, count

(* Every number is on one page of a size, and on one only.                   *)
LEMMA PageOfNumber ==
    ASSUME NEW i \in Nat, NEW size \in Nat \ {0}
    PROVE  LET k == i \div size
           IN  k \in Nat /\ k * size <= i /\ i < k * size + size
  OBVIOUS

LEMMA PagesApart ==
    ASSUME NEW k \in Nat, NEW l \in Nat, k < l, NEW size \in Nat
    PROVE  k * size + size <= l * size
  <1>1. PICK d \in Nat : l = k + 1 + d
    <2>1. l - (k + 1) \in Nat /\ l = k + 1 + (l - (k + 1))
      OBVIOUS
    <2> QED
      BY <2>1
  <1>2. l * size = k * size + size + d * size
    BY <1>1
  <1>3. d * size \in Nat /\ k * size \in Nat
    OBVIOUS
  <1> QED
    BY <1>2, <1>3

(* The pages of a list, cut by slot, of which each keeps the ids in a set.   *)
LEMMA PagesAre ==
    ASSUME NEW index, NEW ids, GoodList(index, ids), NEW size \in Nat \ {0}, NEW kept,
           NEW pages, DOMAIN pages = Pages(index, size),
           \A k \in Pages(index, size) :
              pages[k] = Those(IdsBetween(index, k * size,
                                          Lesser(k * size + size, index.count)), kept)
    PROVE  OnPages(pages, ids \cap kept)
  <1> DEFINE count == index.count
             N == Pages(index, size)
             End(k) == Lesser(k * size + size, count)
             On(i, k) == k * size <= i /\ i < k * size + size
  <1>1. /\ count \in Nat
        /\ \A i, j \in 0..(count - 1) : index.slots[i] = index.slots[j] => i = j
        /\ \A i \in 0..(count - 1) : index.slots[i] \in ids
        /\ \A id \in ids : \E i \in 0..(count - 1) : index.slots[i] = id
    BY GoodListIs
  <1>2. \A k \in N : k \in Nat
    BY DEF Pages
  <1>3. ASSUME NEW k \in N
        PROVE  /\ k * size \in Nat /\ End(k) \in Int /\ End(k) <= count
               /\ \A i \in 0..(count - 1) : k * size <= i /\ i < End(k) <=> On(i, k)
    <2>1. k * size \in Nat
      BY <1>2
    <2>2. PICK b \in Nat : b = k * size
      BY <2>1
    <2> QED
      BY <1>1, <2>2 DEF Lesser
  <1>4. ASSUME NEW k \in N
        PROVE  /\ pages[k] \in Seq(ids) /\ Distinct(pages[k])
               /\ \A id : id \in Listed(pages[k]) <=>
                     /\ id \in kept
                     /\ \E i \in 0..(count - 1) : On(i, k) /\ index.slots[i] = id
    <2> DEFINE cut == IdsBetween(index, k * size, End(k))
    <2>1. /\ cut \in Seq(ids) /\ Distinct(cut)
          /\ \A id : id \in Listed(cut) <=>
                \E i \in 0..(count - 1) : k * size <= i /\ i < End(k) /\ index.slots[i] = id
      <3>1. k * size \in Nat /\ End(k) \in Int /\ End(k) <= index.count
        BY <1>3
      <3> HIDE DEF End
      <3> QED
        BY <3>1, CutIs
    <2>2. pages[k] = Those(cut, kept)
      OBVIOUS
    <2> HIDE DEF cut, End
    <2>3. /\ pages[k] \in Seq(ids) /\ Distinct(pages[k])
          /\ Listed(pages[k]) = Listed(cut) \cap kept
      BY <2>1, <2>2, ThoseAre
    <2> HIDE DEF On
    <2> QED
      BY <1>3, <2>1, <2>3
  <1>5. \A i \in 0..(count - 1) : \E k \in N : On(i, k)
    <2> TAKE i \in 0..(count - 1)
    <2> DEFINE k == i \div size
    <2>1. i \in Nat /\ k \in Nat /\ On(i, k)
      BY <1>1, PageOfNumber
    <2>2. k \in N
      <3> DEFINE l == count \div size
      <3>1. l \in Nat /\ l * size <= count /\ count < l * size + size
        BY <1>1, PageOfNumber
      <3>2. ~(l < k)
        <4>1. SUFFICES ASSUME l < k PROVE FALSE
          OBVIOUS
        <4> HIDE DEF k, l
        <4>2. l * size + size <= k * size
          BY <2>1, <3>1, <4>1, PagesApart
        <4>3. PICK a \in Nat, b \in Nat : a = l * size /\ b = k * size
          BY <2>1, <3>1
        <4> QED
          BY <1>1, <2>1, <3>1, <4>2, <4>3
      <3>3. N = 0..l
        BY DEF Pages
      <3> HIDE DEF k, l
      <3> QED
        BY <2>1, <3>1, <3>2, <3>3
    <2> QED
      BY <2>1, <2>2
  <1>6. ASSUME NEW i \in 0..(count - 1), NEW k \in N, NEW l \in N, On(i, k), On(i, l)
        PROVE  k = l
    <2>1. k \in Nat /\ l \in Nat /\ i \in Nat
      BY <1>2
    <2>2. PICK a \in Nat, b \in Nat : a = k * size /\ b = l * size
      BY <2>1
    <2>3. ~(k < l)
      BY <1>6, <2>1, <2>2, PagesApart
    <2>4. ~(l < k)
      BY <1>6, <2>1, <2>2, PagesApart
    <2> QED
      BY <2>1, <2>3, <2>4
  <1> HIDE DEF On, End, N
  <1>7. UNION {Listed(pages[k]) : k \in N} = ids \cap kept
    BY <1>1, <1>4, <1>5
  <1>8. ASSUME NEW k \in N, NEW l \in N, k # l
        PROVE  Listed(pages[k]) \cap Listed(pages[l]) = {}
    <2>1. ASSUME NEW id, id \in Listed(pages[k]), id \in Listed(pages[l]) PROVE FALSE
      <3>1. PICK i \in 0..(count - 1) : On(i, k) /\ index.slots[i] = id
        BY <1>4, <2>1
      <3>2. PICK j \in 0..(count - 1) : On(j, l) /\ index.slots[j] = id
        BY <1>4, <2>1
      <3>3. i = j
        BY <1>1, <3>1, <3>2
      <3> QED
        BY <1>6, <1>8, <3>1, <3>2, <3>3
    <2> QED
      BY <2>1
  <1>9. DOMAIN pages = N
    BY DEF N
  <1> QED
    BY <1>4, <1>7, <1>8, <1>9 DEF OnPages

(* All the ids of a good list, ...                                           *)
LEMMA IdsAre ==
    ASSUME NEW index, NEW ids, GoodList(index, ids)
    PROVE  /\ Ids(index) \in Seq(ids) /\ Once(Ids(index), ids)
           /\ Len(Ids(index)) = index.count
           /\ \A k \in 1..index.count : Ids(index)[k] = index.slots[k - 1]
  <1> DEFINE count == index.count
             all == IdsBetween(index, 0, count)
  <1>1. /\ count \in Nat /\ Gapless(index)
        /\ \A i \in 0..(count - 1) : index.slots[i] \in ids
        /\ \A id \in ids : \E i \in 0..(count - 1) : index.slots[i] = id
    BY GoodListIs DEF Gapless
  <1>2. /\ all \in Seq(ids) /\ Distinct(all)
        /\ \A id : id \in Listed(all) <=>
              \E i \in 0..(count - 1) : 0 <= i /\ i < count /\ index.slots[i] = id
    <2>1. 0 \in Nat /\ count \in Int /\ count <= index.count
      BY <1>1
    <2> HIDE DEF count
    <2>2. \A c \in Int : c <= index.count =>
             LET cut == IdsBetween(index, 0, c)
             IN  /\ cut \in Seq(ids) /\ Distinct(cut)
                 /\ \A id : id \in Listed(cut) <=>
                      \E i \in 0..(index.count - 1) : 0 <= i /\ i < c /\ index.slots[i] = id
      BY <2>1, CutIs
    <2>3. count = index.count
      BY DEF count
    <2> QED
      BY <2>1, <2>2, <2>3
  <1>3. count = IF count > 0 THEN count - 0 ELSE 0
    BY <1>1
  <1>4. /\ all = [k \in 1..count |-> all[k]]
        /\ \A k \in 1..count : all[k] = index.slots[0 + k - 1]
    <2>1. 0 \in Nat /\ count \in Int /\ count <= index.count /\ index.count \in Nat
      BY <1>1
    <2> HIDE DEF count
    <2> QED
      BY <1>1, <1>3, <2>1, IdsBetweenAre, SMTT(30)
  <1>5. \A i \in 0..(count - 1) : 0 <= i /\ i < count
    BY <1>1
  <1>6. \A k \in 1..count : 0 + k - 1 = k - 1
    BY <1>1
  <1>7. Ids(index) = all
    BY DEF Ids
  <1> HIDE DEF all, count
  <1>8. Listed(all) = ids
    BY <1>1, <1>2, <1>5
  <1>9. Len(all) = count
    BY <1>1, <1>2, <1>4, LenProperties
  <1> QED
    BY <1>2, <1>4, <1>6, <1>7, <1>8, <1>9 DEF Once, count

(* ... a slice of which is a cut of its slots, ...                           *)
LEMMA SliceIsCut ==
    ASSUME NEW index, NEW ids, GoodList(index, ids), NEW start \in Nat, NEW size \in Nat
    PROVE  SubSeq(Ids(index), start + 1, Lesser(start + size, Len(Ids(index))))
               = IdsBetween(index, start, Lesser(start + size, index.count))
  <1> DEFINE count == index.count
             all == Ids(index)
             end == Lesser(start + size, count)
             n == IF end > start THEN end - start ELSE 0
             slice == SubSeq(all, start + 1, end)
             cut == IdsBetween(index, start, end)
  <1>1. /\ count \in Nat /\ Gapless(index) /\ all \in Seq(ids) /\ Len(all) = count
        /\ \A k \in 1..count : all[k] = index.slots[k - 1]
    BY GoodListIs, IdsAre DEF Gapless
  <1>2. end \in Int /\ end <= count /\ n \in Nat
    BY <1>1 DEF Lesser
  <1> HIDE DEF all, count, end
  <1>3. /\ \A i \in (start + 1)..end : i \in 1..count
        /\ \A k \in 1..n : /\ start + 1 + k - 1 \in 1..count
                           /\ (start + 1 + k - 1) - 1 = start + k - 1
        /\ (IF start + 1 <= end THEN end - (start + 1) + 1 ELSE 0) = n
        /\ \A k \in 1..n : k \in 1..(end - (start + 1) + 1)
    BY <1>1, <1>2
  <1>4. \A i \in (start + 1)..end : all[i] \in ids
    BY <1>1, <1>3, ElementOfSeq
  <1>5. start + 1 \in Int
    OBVIOUS
  <1> HIDE DEF n
  <1>6. /\ slice \in Seq(ids) /\ Len(slice) = n
        /\ \A k \in 1..n : slice[k] = all[start + 1 + k - 1]
    BY <1>2, <1>3, <1>4, <1>5, SubSeqProperties
  <1>7. cut \in Seq(ids)
    BY <1>2, CutIs DEF count
  <1>8. n = IF end > start THEN end - start ELSE 0
    BY DEF n
  <1>9. /\ cut = [k \in 1..n |-> cut[k]]
        /\ \A k \in 1..n : cut[k] = index.slots[start + k - 1]
    BY <1>1, <1>2, <1>8, IdsBetweenAre DEF count
  <1> HIDE DEF slice, cut
  <1>10. Len(cut) = n
    BY <1>2, <1>7, <1>9, LenProperties
  <1>11. \A k \in 1..n : slice[k] = cut[k]
    BY <1>1, <1>3, <1>6, <1>9, ZenonT(60)
  <1>12. slice = cut
    BY <1>6, <1>7, <1>10, <1>11, SeqEqual
  <1> QED
    BY <1>1, <1>12 DEF slice, cut, end, all, count

(* ... and what a list with one more id at its end changes in a cut.         *)
LEMMA CutAfterIndexed ==
    ASSUME NEW index, NEW ids, GoodList(index, ids), NEW id, id \notin ids,
           NEW start \in Nat, NEW size \in Nat
    PROVE  LET more == Indexed(index, id)
               old  == IdsBetween(index, start, Lesser(start + size, index.count))
               cut  == IdsBetween(more, start, Lesser(start + size, more.count))
           IN  old \in Seq(ids) /\ (cut = old \/ cut = Append(old, id))
  <1> DEFINE count == index.count
             more == Indexed(index, id)
             end == Lesser(start + size, count)
             later == Lesser(start + size, more.count)
             n == IF end > start THEN end - start ELSE 0
             m == IF later > start THEN later - start ELSE 0
             old == IdsBetween(index, start, end)
             cut == IdsBetween(more, start, later)
  <1>1. /\ GoodList(more, ids \cup {id}) /\ more.count = count + 1
        /\ count \in Nat /\ Gapless(index) /\ Gapless(more)
    <2>1. GoodList(more, ids \cup {id})
      BY IndexedGood
    <2>2. more.count = count + 1
      BY DEF Indexed
    <2> HIDE DEF more
    <2> QED
      BY <2>1, <2>2 DEF GoodList, Lists
  <1>2. more.slots[count] = id /\ \A i \in 0..(count - 1) : more.slots[i] = index.slots[i]
    BY <1>1 DEF Indexed, Put, Gapless
  <1> HIDE DEF more
  <1>3. /\ end \in Int /\ end <= count /\ later \in Int /\ later <= more.count
        /\ n \in Nat /\ m \in Nat
        /\ m = n \/ (m = n + 1 /\ start + (n + 1) - 1 = count)
        /\ \A k \in 1..n : start + k - 1 \in 0..(count - 1)
    BY <1>1 DEF Lesser
  <1>4. old \in Seq(ids) /\ cut \in Seq(ids \cup {id})
    BY <1>1, <1>3, CutIs
  <1>5. /\ old = [k \in 1..n |-> old[k]]
        /\ \A k \in 1..n : old[k] = index.slots[start + k - 1]
    <2>1. n = IF end > start THEN end - start ELSE 0
      OBVIOUS
    <2> HIDE DEF n, end
    <2> QED
      BY <1>1, <1>3, <2>1, IdsBetweenAre
  <1>6. /\ cut = [k \in 1..m |-> cut[k]]
        /\ \A k \in 1..m : cut[k] = more.slots[start + k - 1]
    <2>1. m = IF later > start THEN later - start ELSE 0
      OBVIOUS
    <2>2. more.count \in Nat
      BY <1>1
    <2> HIDE DEF m, later
    <2> QED
      BY <1>1, <1>3, <2>1, <2>2, IdsBetweenAre, SMTT(30)
  <1> HIDE DEF old, cut, n, m, end, later, count
  <1>7. Len(old) = n /\ Len(cut) = m
    BY <1>3, <1>4, <1>5, <1>6, LenProperties
  <1>8. old \in Seq(ids \cup {id})
    BY <1>4, SeqMonotonic
  <1>9. CASE m = n
    <2>1. \A k \in 1..n : cut[k] = old[k]
      BY <1>2, <1>3, <1>5, <1>6, <1>9
    <2>2. cut = old
      BY <1>4, <1>7, <1>8, <1>9, <2>1, SeqEqual
    <2> QED
      BY <1>4, <2>2 DEF old, cut, end, later, more, count
  <1>10. CASE m = n + 1 /\ start + (n + 1) - 1 = count
    <2> DEFINE app == Append(old, id)
    <2>1. /\ app \in Seq(ids \cup {id}) /\ Len(app) = n + 1 /\ app[n + 1] = id
          /\ \A k \in 1..n : app[k] = old[k]
      BY <1>7, <1>8, AppendProperties
    <2> HIDE DEF app
    <2>2. ASSUME NEW k \in 1..m PROVE cut[k] = app[k]
      <3>1. CASE k = n + 1
        BY <1>2, <1>6, <1>10, <2>1, <3>1
      <3>2. CASE k \in 1..n
        BY <1>2, <1>3, <1>5, <1>6, <2>1, <3>2
      <3> QED
        BY <1>3, <1>10, <3>1, <3>2
    <2>3. cut = app
      BY <1>4, <1>7, <1>10, <2>1, <2>2, SeqEqual
    <2> QED
      BY <1>4, <2>3 DEF app, old, cut, end, later, more, count
  <1> QED
    BY <1>3, <1>9, <1>10

-----------------------------------------------------------------------------
(* The lists of the two parties of every stream stored, ...                  *)
FromIn(stored, u) == {id \in DOMAIN stored : stored[id].sender = u}
ToIn(stored, u) == {id \in DOMAIN stored : stored[id].recipient = u}
PartiesListed(stored, sent, received) ==
    /\ DOMAIN sent = Users /\ DOMAIN received = Users
    /\ \A u \in Users : /\ GoodList(sent[u], FromIn(stored, u))
                        /\ GoodList(received[u], ToIn(stored, u))

(* ... and all the lists.  The global one has every id the contract booked.  *)
ListsInv ==
    /\ PartiesListed(streams, sender_ids, recipient_ids)
    /\ GoodList(global_ids, DOMAIN escrow)

(* The same parties on both sides of a change.                               *)
SameParties(s, r) == r.sender = s.sender /\ r.recipient = s.recipient

(* A new stream is put in the lists of its parties, ...                      *)
LEMMA NewStreamListed ==
    ASSUME NEW stored, NEW sent, NEW received, PartiesListed(stored, sent, received),
           NEW id, id \notin DOMAIN stored, NEW more,
           DOMAIN more = DOMAIN stored \cup {id},
           \A k \in DOMAIN stored : SameParties(stored[k], more[k]),
           NEW sender \in Users, NEW recipient \in Users,
           more[id].sender = sender, more[id].recipient = recipient,
           NEW sent2, sent2 = [sent EXCEPT ![sender] = Indexed(@, id)],
           NEW received2, received2 = [received EXCEPT ![recipient] = Indexed(@, id)]
    PROVE  PartiesListed(more, sent2, received2)
  <1>1. DOMAIN sent = Users /\ DOMAIN received = Users
    BY DEF PartiesListed
  <1>2. ASSUME NEW u \in Users PROVE GoodList(sent2[u], FromIn(more, u))
    <2>1. GoodList(sent[u], FromIn(stored, u)) /\ id \notin FromIn(stored, u)
      BY DEF PartiesListed, FromIn
    <2>2. CASE u = sender
      <3>1. FromIn(more, u) = FromIn(stored, u) \cup {id}
        BY <2>2 DEF FromIn, SameParties
      <3>2. sent2[u] = Indexed(sent[u], id)
        BY <1>1, <2>2
      <3> QED
        BY <2>1, <3>1, <3>2, IndexedGood
    <2>3. CASE u # sender
      <3>1. FromIn(more, u) = FromIn(stored, u)
        BY <2>3 DEF FromIn, SameParties
      <3>2. sent2[u] = sent[u]
        BY <1>1, <2>3
      <3> QED
        BY <2>1, <3>1, <3>2
    <2> QED
      BY <2>2, <2>3
  <1>3. ASSUME NEW u \in Users PROVE GoodList(received2[u], ToIn(more, u))
    <2>1. GoodList(received[u], ToIn(stored, u)) /\ id \notin ToIn(stored, u)
      BY DEF PartiesListed, ToIn
    <2>2. CASE u = recipient
      <3>1. ToIn(more, u) = ToIn(stored, u) \cup {id}
        BY <2>2 DEF ToIn, SameParties
      <3>2. received2[u] = Indexed(received[u], id)
        BY <1>1, <2>2
      <3> QED
        BY <2>1, <3>1, <3>2, IndexedGood
    <2>3. CASE u # recipient
      <3>1. ToIn(more, u) = ToIn(stored, u)
        BY <2>3 DEF ToIn, SameParties
      <3>2. received2[u] = received[u]
        BY <1>1, <2>3
      <3> QED
        BY <2>1, <3>1, <3>2
    <2> QED
      BY <2>2, <2>3
  <1> QED
    BY <1>1, <1>2, <1>3 DEF PartiesListed

(* ... one that goes is taken from them, ...                                 *)
LEMMA RemovedUnlisted ==
    ASSUME NEW stored, NEW sent, NEW received, PartiesListed(stored, sent, received),
           NEW id \in DOMAIN stored, NEW less, less = Drop(stored, id),
           NEW sent2, sent2 = [sent EXCEPT ![stored[id].sender] = Unindexed(@, id)],
           NEW received2,
           received2 = [received EXCEPT ![stored[id].recipient] = Unindexed(@, id)]
    PROVE  PartiesListed(less, sent2, received2)
  <1> DEFINE s == stored[id]
  <1>1. DOMAIN sent = Users /\ DOMAIN received = Users
    BY DEF PartiesListed
  <1>2. /\ DOMAIN less = DOMAIN stored \ {id}
        /\ \A k \in DOMAIN stored : k # id => less[k] = stored[k]
    BY DEF Drop
  <1>3. ASSUME NEW u \in Users PROVE GoodList(sent2[u], FromIn(less, u))
    <2>1. GoodList(sent[u], FromIn(stored, u))
      BY DEF PartiesListed
    <2>2. CASE u = s.sender
      <3>1. FromIn(less, u) = FromIn(stored, u) \ {id} /\ id \in FromIn(stored, u)
        BY <1>2, <2>2 DEF FromIn
      <3>2. sent2[u] = Unindexed(sent[u], id)
        BY <1>1, <2>2
      <3> QED
        BY <2>1, <3>1, <3>2, UnindexedGood
    <2>3. CASE u # s.sender
      <3>1. FromIn(less, u) = FromIn(stored, u)
        BY <1>2, <2>3 DEF FromIn
      <3>2. sent2[u] = sent[u]
        BY <1>1, <2>3
      <3> QED
        BY <2>1, <3>1, <3>2
    <2> QED
      BY <2>2, <2>3
  <1>4. ASSUME NEW u \in Users PROVE GoodList(received2[u], ToIn(less, u))
    <2>1. GoodList(received[u], ToIn(stored, u))
      BY DEF PartiesListed
    <2>2. CASE u = s.recipient
      <3>1. ToIn(less, u) = ToIn(stored, u) \ {id} /\ id \in ToIn(stored, u)
        BY <1>2, <2>2 DEF ToIn
      <3>2. received2[u] = Unindexed(received[u], id)
        BY <1>1, <2>2
      <3> QED
        BY <2>1, <3>1, <3>2, UnindexedGood
    <2>3. CASE u # s.recipient
      <3>1. ToIn(less, u) = ToIn(stored, u)
        BY <1>2, <2>3 DEF ToIn
      <3>2. received2[u] = received[u]
        BY <1>1, <2>3
      <3> QED
        BY <2>1, <3>1, <3>2
    <2> QED
      BY <2>2, <2>3
  <1>5. DOMAIN sent2 = Users /\ DOMAIN received2 = Users
    BY <1>1
  <1> QED
    BY <1>3, <1>4, <1>5 DEF PartiesListed

(* ... and one that changes keeps its place, ...                             *)
LEMMA ChangedListed ==
    ASSUME NEW stored, NEW sent, NEW received, PartiesListed(stored, sent, received),
           NEW next, DOMAIN next = DOMAIN stored,
           \A k \in DOMAIN stored : SameParties(stored[k], next[k])
    PROVE  PartiesListed(next, sent, received)
  <1>1. \A u \in Users : /\ FromIn(next, u) = FromIn(stored, u)
                         /\ ToIn(next, u) = ToIn(stored, u)
    BY DEF FromIn, ToIn, SameParties
  <1> QED
    BY <1>1 DEF PartiesListed

(* ... or moves from one recipient's list to another's.                      *)
LEMMA HandedOnRelisted ==
    ASSUME NEW stored, NEW sent, NEW received, PartiesListed(stored, sent, received),
           NEW id \in DOMAIN stored, NEW r, NEW next, next = Put(stored, id, r),
           r.sender = stored[id].sender, NEW old \in Users, old = stored[id].recipient,
           NEW recipient \in Users, r.recipient = recipient,
           NEW unindexed, unindexed = [received EXCEPT ![old] = Unindexed(@, id)],
           NEW received2, received2 = [unindexed EXCEPT ![recipient] = Indexed(@, id)]
    PROVE  PartiesListed(next, sent, received2)
  <1>1. DOMAIN received = Users /\ DOMAIN sent = Users
    BY DEF PartiesListed
  <1>2. /\ DOMAIN next = DOMAIN stored /\ next[id] = r
        /\ \A k \in DOMAIN stored : k # id => next[k] = stored[k]
    BY DEF Put
  <1>3. \A u \in Users : FromIn(next, u) = FromIn(stored, u)
    BY <1>2 DEF FromIn
  <1>4. ASSUME NEW u \in Users PROVE GoodList(received2[u], ToIn(next, u))
    <2>1. GoodList(received[u], ToIn(stored, u))
      BY DEF PartiesListed
    <2>2. GoodList(unindexed[u], ToIn(stored, u) \ {id})
      <3>1. CASE u = old
        <4>1. unindexed[u] = Unindexed(received[u], id) /\ id \in ToIn(stored, u)
          BY <1>1, <3>1 DEF ToIn
        <4> QED
          BY <2>1, <4>1, UnindexedGood
      <3>2. CASE u # old
        <4>1. unindexed[u] = received[u] /\ ToIn(stored, u) \ {id} = ToIn(stored, u)
          BY <1>1, <3>2 DEF ToIn
        <4> QED
          BY <2>1, <4>1
      <3> QED
        BY <3>1, <3>2
    <2>3. DOMAIN unindexed = Users
      BY <1>1
    <2>4. CASE u = recipient
      <3>1. /\ ToIn(next, u) = (ToIn(stored, u) \ {id}) \cup {id}
            /\ received2[u] = Indexed(unindexed[u], id)
        BY <1>2, <2>3, <2>4 DEF ToIn
      <3> QED
        BY <2>2, <3>1, IndexedGood
    <2>5. CASE u # recipient
      <3>1. /\ ToIn(next, u) = ToIn(stored, u) \ {id}
            /\ received2[u] = unindexed[u]
        BY <1>2, <2>3, <2>5 DEF ToIn
      <3> QED
        BY <2>2, <3>1
    <2> QED
      BY <2>4, <2>5
  <1>5. DOMAIN received2 = Users
    BY <1>1
  <1> QED
    BY <1>1, <1>3, <1>4, <1>5 DEF PartiesListed

(* What a step does to the lists of the parties, ...                         *)
PartiesInv == PartiesListed(streams, sender_ids, recipient_ids)

LEMMA PartiesNow ==
    ASSUME PartiesListed(streams', sender_ids', recipient_ids')
    PROVE  PartiesInv'
  BY DEF PartiesInv, PartiesListed, FromIn, ToIn, GoodList, Lists, Once, Gapless, Distinct, Listed

LEMMA StepKeepsParties ==
    ASSUME ContractInv, SplitsApart, PartiesInv, [Next]_vars
    PROVE  PartiesInv'
  <1>1. /\ \A id \in DOMAIN streams : /\ id \in DOMAIN escrow /\ streams[id] \in Streams
                                      /\ streams[id].sender \in Users
                                      /\ streams[id].recipient \in Users
        /\ PartiesListed(streams, sender_ids, recipient_ids)
    BY Basics DEF AllGood, PartiesInv
  <1> DEFINE Kept == PartiesListed(streams', sender_ids', recipient_ids')
  <1>2. ASSUME UNCHANGED <<streams, indexVars>> PROVE Kept
    <2>1. streams' = streams /\ sender_ids' = sender_ids /\ recipient_ids' = recipient_ids
      BY <1>2 DEF indexVars
    <2> QED
      BY <1>1, <2>1
  <1>3. ASSUME NEW id, NEW s, Opens(id, s) PROVE Kept
    <2>1. /\ id \notin DOMAIN streams /\ s.sender \in Users /\ s.recipient \in Users
          /\ IndexStream(id, s) /\ SaveStream(id, s)
      BY <1>3 DEF Opens
    <2>2. /\ DOMAIN streams' = DOMAIN streams \cup {id} /\ streams'[id] = s
          /\ \A k \in DOMAIN streams : SameParties(streams[k], streams'[k])
      BY <2>1, SaveEffect DEF SameParties
    <2> QED
      BY <1>1, <2>1, <2>2, NewStreamListed DEF IndexStream
  <1>4. ASSUME NEW id, NEW r, Changes(id, r) PROVE Kept
    <2>1. /\ id \in DOMAIN streams /\ r.sender = streams[id].sender /\ r.recipient \in Users
          /\ SaveStream(id, r) /\ Relists(id, streams[id], r)
      BY <1>4 DEF Changes
    <2>2. streams' = Put(streams, id, r)
      BY <2>1 DEF SaveStream
    <2>3. CASE r.recipient = streams[id].recipient /\ UNCHANGED indexVars
      <3>1. /\ DOMAIN streams' = DOMAIN streams
            /\ \A k \in DOMAIN streams : SameParties(streams[k], streams'[k])
            /\ sender_ids' = sender_ids /\ recipient_ids' = recipient_ids
        BY <2>1, <2>3, SaveEffect DEF SameParties, indexVars
      <3> QED
        BY <1>1, <3>1, ChangedListed
    <2>4. CASE LET unindexed == [recipient_ids EXCEPT ![streams[id].recipient] = Unindexed(@, id)]
               IN  /\ recipient_ids' = [unindexed EXCEPT ![r.recipient] = Indexed(@, id)]
                   /\ UNCHANGED <<sender_ids, global_ids>>
      <3>1. PICK old \in Users, recipient \in Users :
               old = streams[id].recipient /\ recipient = r.recipient
        BY <1>1, <2>1
      <3>2. PICK unindexed : unindexed = [recipient_ids EXCEPT ![old] = Unindexed(@, id)]
        OBVIOUS
      <3>3. /\ recipient_ids' = [unindexed EXCEPT ![recipient] = Indexed(@, id)]
            /\ sender_ids' = sender_ids
        BY <2>4, <3>1, <3>2
      <3> QED
        BY <1>1, <2>1, <2>2, <3>1, <3>2, <3>3, HandedOnRelisted
    <2> QED
      BY <2>1, <2>3, <2>4 DEF Relists
  <1>5. ASSUME NEW id, Closes(id) PROVE Kept
    BY <1>1, <1>5, RemovedUnlisted DEF Closes, RemoveStream
  <1>6. ASSUME NEW id, NEW new, NEW r, Divides(id, new, r) PROVE Kept
    <2>1. PICK s : s = streams[id]
      OBVIOUS
    <2>2. /\ new \notin DOMAIN streams /\ new # id
          /\ id \in DOMAIN streams /\ s \in Streams
          /\ s.sender \in Users /\ s.recipient \in Users
      BY <1>1, <1>6, <2>1 DEF Divides, SplitsApart
    <2>3. /\ DOMAIN streams' = DOMAIN streams \cup {new} /\ streams'[new] = r
          /\ streams'[id] = [s EXCEPT !.status = "Cancelled"]
          /\ \A k \in DOMAIN streams : k # id /\ k # new => streams'[k] = streams[k]
      <3>1. Parted(id, new, r)
        BY <1>6, <2>1, <2>2, SplitParts
      <3> QED
        BY <2>1, <3>1 DEF Parted
    <2>4. /\ IndexStream(new, s) /\ r.sender = s.sender /\ r.recipient = s.recipient
      BY <1>6, <2>1 DEF Divides
    <2>5. \A k \in DOMAIN streams : SameParties(streams[k], streams'[k])
      <3>1. streams'[id].sender = s.sender /\ streams'[id].recipient = s.recipient
        BY <2>2, <2>3 DEF Streams
      <3> QED
        BY <2>1, <2>2, <2>3, <3>1 DEF SameParties
    <2> QED
      BY <1>1, <2>2, <2>3, <2>4, <2>5, NewStreamListed DEF IndexStream
  <1>7. ASSUME StreamNext PROVE Kept
    <2> HIDE DEF Kept
    <2> QED
      BY <1>2, <1>3, <1>4, <1>5, <1>6, <1>7, StreamStepEffect DEF StreamEffect, Rests
  <1>8. ASSUME UNCHANGED streamVars PROVE Kept
    BY <1>2, <1>8 DEF streamVars
  <1>9. Kept
    BY <1>7, <1>8, OtherSteps
  <1> QED
    BY <1>9, PartiesNow

(* ... and to the global list.                                               *)
LEMMA StepKeepsLists ==
    ASSUME ContractInv, IdsInv, ListsInv, [Next]_vars
    PROVE  ListsInv'
  <1>1. \A id \in DOMAIN streams : id \in DOMAIN escrow
    BY Basics DEF AllGood
  <1>2. GoodList(global_ids, DOMAIN escrow) /\ PartiesInv
    BY DEF ListsInv, PartiesInv
  <1>3. PartiesInv'
    BY <1>2, StepKeepsParties, IdsApart
  <1> DEFINE Kept == GoodList(global_ids', DOMAIN escrow')
  <1>4. ASSUME global_ids' = global_ids, DOMAIN escrow' = DOMAIN escrow PROVE Kept
    BY <1>2, <1>4
  <1>5. ASSUME NEW id, NEW s, Opens(id, s) PROVE Kept
    <2>1. id \notin DOMAIN escrow
      BY <1>5, OpensFresh
    <2>2. DOMAIN escrow' = DOMAIN escrow \cup {id} /\ global_ids' = Indexed(global_ids, id)
      BY <1>5, BookEffect DEF Opens, IndexStream
    <2> QED
      BY <1>2, <2>1, <2>2, IndexedGood
  <1>6. ASSUME NEW id, NEW r, Changes(id, r) PROVE Kept
    <2>1. id \in DOMAIN escrow
      BY <1>1, <1>6 DEF Changes
    <2>2. DOMAIN escrow' = DOMAIN escrow
      BY <1>6, <2>1, BookLiveEffect DEF Changes
    <2>3. global_ids' = global_ids
      BY <1>6 DEF Changes, Relists, indexVars
    <2> QED
      BY <1>4, <2>2, <2>3
  <1>7. ASSUME NEW id, Closes(id) PROVE Kept
    <2>1. id \in DOMAIN escrow
      BY <1>1, <1>7 DEF Closes
    <2>2. DOMAIN escrow' = DOMAIN escrow
      BY <1>7, <2>1, BookLiveEffect DEF Closes
    <2>3. global_ids' = global_ids
      BY <1>7 DEF Closes, RemoveStream
    <2> QED
      BY <1>4, <2>2, <2>3
  <1>8. ASSUME NEW id, NEW new, NEW r, Divides(id, new, r) PROVE Kept
    <2>1. new \notin DOMAIN escrow /\ new # id
      BY <1>1, <1>8, SplitsFresh DEF Divides
    <2>2. DOMAIN escrow' = DOMAIN escrow \cup {new}
      <3>1. Parted(id, new, r)
        BY <1>8, <2>1, SplitParts
      <3> QED
        BY <3>1 DEF Parted
    <2>3. global_ids' = Indexed(global_ids, new)
      BY <1>8 DEF Divides, IndexStream
    <2> QED
      BY <1>2, <2>1, <2>2, <2>3, IndexedGood
  <1>9. ASSUME StreamNext PROVE Kept
    <2> HIDE DEF Kept
    <2> QED
      BY <1>4, <1>5, <1>6, <1>7, <1>8, <1>9, StreamStepEffect DEF StreamEffect, Rests, indexVars
  <1>10. Kept
    BY <1>4, <1>9, OtherSteps DEF streamVars, indexVars
  <1> QED
    BY <1>3, <1>10 DEF ListsInv, PartiesInv, GoodList, Lists, Once, Gapless, Distinct, Listed

LEMMA ListsSafety ==
    ASSUME NoncesApart
    PROVE  Spec => []ListsInv
  <1>1. Init => ListsInv
    <2> SUFFICES ASSUME Init PROVE ListsInv
      OBVIOUS
    <2>1. GoodList(EmptyIndex, {})
      BY GoodListIs DEF EmptyIndex
    <2>2. /\ DOMAIN escrow = {} /\ DOMAIN streams = {} /\ global_ids = EmptyIndex
          /\ \A u \in Users : sender_ids[u] = EmptyIndex /\ recipient_ids[u] = EmptyIndex
      BY DEF Init
    <2>3. \A u \in Users : FromIn(streams, u) = {} /\ ToIn(streams, u) = {}
      BY <2>2 DEF FromIn, ToIn
    <2>4. DOMAIN sender_ids = Users /\ DOMAIN recipient_ids = Users
      BY DEF Init
    <2> QED
      BY <2>1, <2>2, <2>3, <2>4 DEF ListsInv, PartiesListed
  <1>2. ContractInv /\ IdsInv /\ ListsInv /\ [Next]_vars => ListsInv'
    BY StepKeepsLists
  <1> QED
    BY <1>1, <1>2, ContractSafety, IdsSafety, PTL DEF Spec

LEMMA PartiesAre ==
    ASSUME PartiesInv, NEW u \in Users
    PROVE  /\ GoodList(sender_ids[u], StreamsFrom(u))
           /\ GoodList(recipient_ids[u], StreamsTo(u))
  BY DEF PartiesInv, PartiesListed, FromIn, ToIn, StreamsFrom, StreamsTo

(* The lists of an account hold each of its stored streams once and nothing  *)
(* else, without a gap, after any sequence of creations, splits, transfers,  *)
(* settlements and archivals; the global list misses no stored stream.       *)
THEOREM ListsAgree ==
    ASSUME NoncesApart
    PROVE  Spec => []IndexAgrees
  <1>1. ContractInv /\ ListsInv => IndexAgrees
    <2> SUFFICES ASSUME ContractInv, ListsInv PROVE IndexAgrees
      OBVIOUS
    <2>1. \A id \in DOMAIN streams : id \in DOMAIN escrow
      BY Basics DEF AllGood
    <2>2. Gapless(global_ids) /\ Listed(global_ids.slots) = DOMAIN escrow
      BY DEF ListsInv, GoodList, Lists, Once
    <2>3. PartiesInv
      BY DEF ListsInv, PartiesInv
    <2> QED
      BY <2>1, <2>2, <2>3, PartiesAre DEF IndexAgrees, GoodList
  <1> QED
    BY <1>1, ContractSafety, ListsSafety, PTL

(* The step of LimitIsKept: only create_stream moves a nonce and adds a stream.*)
LEMMA CreatedWithin ==
    ASSUME ContractInv, PartiesInv, PartiesInv', [Next]_vars, nonces' # nonces,
           NEW u \in Users, StreamsFrom(u)' # StreamsFrom(u)
    PROVE  Cardinality(StreamsFrom(u)') <= effective_sender_limit(u)
  <1>1. StreamNext
    BY OtherSteps DEF streamVars
  <1>2. PICK id, s : Opens(id, s)
    BY <1>1, StreamStepEffect DEF StreamEffect, Changes, Closes, Divides, Rests
  <1>3. u = s.sender
    <2>1. /\ DOMAIN streams' = DOMAIN streams \cup {id} /\ streams'[id] = s
          /\ \A k \in DOMAIN streams : streams'[k] = streams[k]
      BY <1>2, SaveEffect DEF Opens
    <2> QED
      BY <2>1 DEF StreamsFrom
  <1>4. sender_ids'[u] = Indexed(sender_ids[u], id)
    BY <1>2, <1>3, Basics DEF Opens, IndexStream, IndexInv
  <1>5. sender_ids'[u].count = sender_ids[u].count + 1 /\ sender_ids[u].count \in Nat
    BY <1>4, PartiesAre DEF Indexed, GoodList
  <1>6. Cardinality(StreamsFrom(u)') = sender_ids'[u].count
    <2>1. GoodList(sender_ids'[u], StreamsFrom(u)')
      BY DEF PartiesInv, PartiesListed, FromIn, StreamsFrom, GoodList, Lists, Once, Gapless,
             Distinct, Listed
    <2> QED
      BY <2>1, CountIsSize
  <1>7. sender_ids[u].count < effective_sender_limit(u)
    BY <1>2, <1>3 DEF Opens, BelowLimit
  <1>8. effective_sender_limit(u) \in Int
    BY DEF ContractInv, PolicyTypeOK, effective_sender_limit
  <1> QED
    BY <1>5, <1>6, <1>7, <1>8

(* create_stream leaves its sender with at most as many stored streams as    *)
(* its limit allows: the count it compares is exact.                         *)
THEOREM LimitIsKept ==
    ASSUME NoncesApart
    PROVE  Spec => StoredWithinLimit
  <1>1. ListsInv => PartiesInv
    BY DEF ListsInv, PartiesInv
  <1>2. ContractInv /\ PartiesInv /\ PartiesInv' /\ [Next]_vars
        => [nonces' # nonces =>
            \A u \in Users : StreamsFrom(u)' # StreamsFrom(u)
                => Cardinality(StreamsFrom(u)') <= effective_sender_limit(u)]_vars
    BY CreatedWithin
  <1> QED
    BY <1>1, <1>2, ContractSafety, ListsSafety, PTL DEF Spec, StoredWithinLimit

-----------------------------------------------------------------------------
(* The statistics.  h is the loop of get_stats over the first n slots.       *)
Counts(h, n) ==
    h = [k \in 0..n |-> IF k = 0 THEN NoStats ELSE Counted(h[k - 1], k - 1)]

LEMMA CountsSteps ==
    ASSUME NEW n \in Nat, NEW h, Counts(h, n)
    PROVE  /\ h[0] = NoStats
           /\ \A k \in 1..n : h[k] = Counted(h[k - 1], k - 1)
  <1>1. \A k \in 0..n : h[k] = IF k = 0 THEN NoStats ELSE Counted(h[k - 1], k - 1)
    BY DEF Counts
  <1>2. \A k \in 1..n : k \in 0..n /\ k # 0
    OBVIOUS
  <1> QED
    BY <1>1, <1>2

LEMMA CountsExist ==
    ASSUME NEW n \in Nat
    PROVE  \E h : Counts(h, n)
  <1> DEFINE Good == {m \in Nat : \E h : Counts(h, m)}
  <1>1. 0 \in Good
    <2> DEFINE z == [k \in 0..0 |-> NoStats]
    <2>1. z = [k \in 0..0 |-> IF k = 0 THEN NoStats ELSE Counted(z[k - 1], k - 1)]
      OBVIOUS
    <2> HIDE DEF z
    <2> QED
      BY <2>1 DEF Counts
  <1>2. ASSUME NEW m \in Nat, m \in Good PROVE m + 1 \in Good
    <2>1. PICK h : Counts(h, m)
      BY <1>2
    <2> DEFINE g == [k \in 0..(m + 1) |-> IF k \in 0..m THEN h[k] ELSE Counted(h[m], m)]
    <2>2. /\ h[0] = NoStats
          /\ \A k \in 1..m : h[k] = Counted(h[k - 1], k - 1)
      BY <2>1, CountsSteps
    <2>3. g = [k \in 0..(m + 1) |-> g[k]]
      OBVIOUS
    <2>4. (\A k \in 0..m : g[k] = h[k]) /\ g[m + 1] = Counted(h[m], m)
      OBVIOUS
    <2> HIDE DEF g
    <2>5. ASSUME NEW k \in 0..(m + 1)
          PROVE  g[k] = IF k = 0 THEN NoStats ELSE Counted(g[k - 1], k - 1)
      <3>1. CASE k = 0
        BY <2>2, <2>4, <3>1
      <3>2. CASE k \in 1..m
        <4>1. k \in 0..m /\ k - 1 \in 0..m /\ k # 0
          BY <3>2
        <4> QED
          BY <2>2, <2>4, <3>2, <4>1
      <3>3. CASE k = m + 1
        <4>1. k - 1 = m /\ m \in 0..m /\ k # 0
          BY <3>3
        <4> QED
          BY <2>4, <3>3, <4>1
      <3> QED
        BY <3>1, <3>2, <3>3
    <2>6. Counts(g, m + 1)
      BY <2>3, <2>5 DEF Counts
    <2> QED
      BY <2>6
  <1> HIDE DEF Good
  <1>3. Nat \subseteq Good
    BY <1>1, <1>2, AllNumbers
  <1> QED
    BY <1>3 DEF Good

LEMMA StatsCount ==
    ASSUME global_ids.count \in Nat
    PROVE  \E h : Counts(h, global_ids.count) /\ get_stats = h[global_ids.count]
  <1> DEFINE n == global_ids.count
             Body(h) == [k \in 0..n |-> IF k = 0 THEN NoStats ELSE Counted(h[k - 1], k - 1)]
             after == CHOOSE h : h = Body(h)
  <1>1. get_stats = after[n]
    BY DEF get_stats
  <1>2. \E h : h = Body(h)
    BY CountsExist DEF Counts
  <1>3. after = Body(after)
    BY <1>2
  <1>4. Counts(after, n)
    BY <1>3 DEF Counts
  <1> HIDE DEF after
  <1> QED
    BY <1>1, <1>4

(* The deposits of the stored streams, and their sum.                        *)
Deposits == [id \in DOMAIN streams |-> streams[id].deposit]
Volume == MapThenSumSet(LAMBDA id : streams[id].deposit, DOMAIN streams)

LEMMA VolumeIsSum ==
    ASSUME IsFiniteSet(DOMAIN streams), NEW g, Sums(g, Deposits, DOMAIN streams)
    PROVE  Volume = g[DOMAIN streams]
  <1> DEFINE S == DOMAIN streams
             Step(h) == [s \in SUBSET S |->
                            IF s = {} THEN 0
                            ELSE streams[CHOOSE x \in s : TRUE].deposit
                                 + h[s \ {CHOOSE x \in s : TRUE}]]
             iter == CHOOSE h : h = Step(h)
  <1>1. Volume = iter[S]
    BY DEF Volume, MapThenSumSet, MapThenFoldSet
  <1>2. ASSUME NEW s \in SUBSET S, s # {}
        PROVE  LET x == CHOOSE x \in s : TRUE
               IN  x \in s /\ x \in S /\ Deposits[x] = streams[x].deposit
    <2>1. (CHOOSE x \in s : TRUE) \in s
      BY <1>2
    <2> QED
      BY <2>1 DEF Deposits
  <1>3. g = Step(g)
    <2>1. ASSUME NEW s \in SUBSET S PROVE g[s] = Step(g)[s]
      BY <1>2, <2>1 DEF Sums
    <2>2. DOMAIN g = SUBSET S /\ g = [s \in SUBSET S |-> g[s]]
      BY DEF Sums
    <2> QED
      BY <2>1, <2>2
  <1>4. iter = Step(iter)
    BY <1>3
  <1> HIDE DEF iter
  <1> DEFINE Bad == {s \in SUBSET S : g[s] # iter[s]}
  <1>5. SUFFICES ASSUME Bad # {} PROVE FALSE
    BY <1>1
  <1>6. PICK s \in Bad : \A r \in Bad : r \subseteq s => r = s
    <2>1. Bad \subseteq SUBSET S
      OBVIOUS
    <2> HIDE DEF Bad
    <2> QED
      BY <1>5, <2>1, SmallestSubset
  <1>7. iter[s] = Step(iter)[s] /\ g[s] = Step(g)[s]
    BY <1>3, <1>4
  <1>8. s # {}
    BY <1>7
  <1> DEFINE y == CHOOSE x \in s : TRUE
  <1>9. y \in s
    BY <1>8
  <1>10. g[s \ {y}] = iter[s \ {y}]
    BY <1>6, <1>9
  <1> QED
    BY <1>6, <1>7, <1>8, <1>10

(* What the loop has counted after n slots: the stored streams among them.   *)
Seen(n) == {id \in DOMAIN streams : \E i \in 0..(n - 1) : global_ids.slots[i] = id}
Running(S) == {id \in S : streams[id].status = "Active"}
StatsOf(g, S) == [total_streams |-> Cardinality(S), active_streams |-> Cardinality(Running(S)),
                  total_volume |-> Saturated(g[S])]

LEMMA SeenSteps ==
    ASSUME GoodList(global_ids, DOMAIN escrow), DOMAIN streams \subseteq DOMAIN escrow,
           NEW n \in Nat, n < global_ids.count,
           NEW id, id = global_ids.slots[n]
    PROVE  /\ id \in DOMAIN streams => Seen(n + 1) = Seen(n) \cup {id} /\ id \notin Seen(n)
           /\ id \notin DOMAIN streams => Seen(n + 1) = Seen(n)
  <1>1. \A i, j \in 0..(global_ids.count - 1) :
           global_ids.slots[i] = global_ids.slots[j] => i = j
    BY GoodListIs
  <1>2. /\ \A i : i \in 0..((n + 1) - 1) <=> i \in 0..(n - 1) \/ i = n
        /\ \A i \in 0..(n - 1) : i \in 0..(global_ids.count - 1) /\ i # n
        /\ n \in 0..(global_ids.count - 1)
    BY DEF GoodList
  <1> QED
    BY <1>1, <1>2 DEF Seen

LEMMA SeenAtEnds ==
    ASSUME GoodList(global_ids, DOMAIN escrow), DOMAIN streams \subseteq DOMAIN escrow
    PROVE  Seen(0) = {} /\ Seen(global_ids.count) = DOMAIN streams
  <1>1. \A id \in DOMAIN escrow :
           \E i \in 0..(global_ids.count - 1) : global_ids.slots[i] = id
    BY GoodListIs
  <1>2. \A i : i \notin 0..(0 - 1)
    OBVIOUS
  <1> QED
    BY <1>1, <1>2 DEF Seen

(* One more slot.                                                            *)
LEMMA StatsOfMore ==
    ASSUME ContractInv, IsFiniteSet(DOMAIN streams),
           NEW g, Sums(g, Deposits, DOMAIN streams),
           NEW S, S \subseteq DOMAIN streams, g[S] \in Nat,
           NEW i, i \in DOMAIN global_ids.slots, NEW id \in DOMAIN streams,
           id = global_ids.slots[i], id \notin S
    PROVE  /\ Counted(StatsOf(g, S), i) = StatsOf(g, S \cup {id})
           /\ g[S \cup {id}] \in Nat
  <1> DEFINE s == streams[id]
             T == S \cup {id}
  <1>1. s.deposit \in 1..I128_MAX /\ I128_MAX \in Nat
    BY Basics, WidthAssumption DEF Streams
  <1>2. IsFiniteSet(S)
    BY FS_Subset
  <1>3. Cardinality(T) = Cardinality(S) + 1
    BY <1>2, FS_AddElement
  <1>4. Cardinality(Running(T))
           = Cardinality(Running(S)) + (IF s.status = "Active" THEN 1 ELSE 0)
    <2>1. IsFiniteSet(Running(S)) /\ Cardinality(Running(S)) \in Nat
      BY <1>2, FS_Subset, FS_CardinalityType DEF Running
    <2>2. CASE s.status = "Active"
      <3>1. Running(T) = Running(S) \cup {id} /\ id \notin Running(S)
        BY <2>2 DEF Running
      <3>2. Cardinality(Running(S) \cup {id}) = Cardinality(Running(S)) + 1
        BY <2>1, <3>1, FS_AddElement
      <3> QED
        BY <2>2, <3>1, <3>2
    <2>3. CASE s.status # "Active"
      <3>1. Running(T) = Running(S)
        BY <2>3 DEF Running
      <3> QED
        BY <2>1, <2>3, <3>1
    <2> QED
      BY <2>2, <2>3
  <1>5. g[T] = s.deposit + g[S]
    <2>1. T \in SUBSET (DOMAIN streams) /\ id \in T /\ T \ {id} = S
      OBVIOUS
    <2>2. g[T] = Deposits[id] + g[T \ {id}]
      BY <2>1 DEF Sums
    <2> QED
      BY <2>1, <2>2 DEF Deposits
  <1>6. Saturated(Saturated(g[S]) + s.deposit) = Saturated(g[T])
    BY <1>1, <1>5 DEF Saturated
  <1>7. g[T] \in Nat
    BY <1>1, <1>5
  <1> HIDE DEF T
  <1>8. Counted(StatsOf(g, S), i) = StatsOf(g, T)
    BY <1>3, <1>4, <1>6 DEF Counted, StatsOf
  <1> QED
    BY <1>7, <1>8 DEF T

LEMMA CountsAreExact ==
    ASSUME ContractInv, IsFiniteSet(DOMAIN streams), ListsInv
    PROVE  StatsExact
  <1> DEFINE count == global_ids.count
  <1>1. /\ GoodList(global_ids, DOMAIN escrow) /\ DOMAIN streams \subseteq DOMAIN escrow
        /\ count \in Nat /\ DOMAIN global_ids.slots = 0..(count - 1)
    BY Basics, GoodListIs DEF ListsInv, AllGood
  <1>2. PICK h : Counts(h, count) /\ get_stats = h[count]
    BY <1>1, StatsCount
  <1>3. h[0] = NoStats /\ \A k \in 1..count : h[k] = Counted(h[k - 1], k - 1)
    BY <1>1, <1>2, CountsSteps
  <1>4. Deposits \in [DOMAIN streams -> Int]
    BY Basics DEF Deposits, Streams
  <1>5. PICK g : Sums(g, Deposits, DOMAIN streams)
    BY <1>4, SumExists
  <1> DEFINE Good == {n \in Nat : n <= count => h[n] = StatsOf(g, Seen(n)) /\ g[Seen(n)] \in Nat}
  <1>6. 0 \in Good
    <2>1. Seen(0) = {} /\ Running({}) = {} /\ g[{}] = 0 /\ Cardinality({}) = 0
      BY <1>1, <1>5, SeenAtEnds, FS_EmptySet DEF Running, Sums
    <2>2. Saturated(0) = 0
      BY WidthAssumption DEF Saturated
    <2>3. StatsOf(g, {}) = NoStats
      BY <2>1, <2>2 DEF StatsOf, NoStats
    <2> QED
      BY <1>3, <2>1, <2>3
  <1>7. ASSUME NEW n \in Nat, n \in Good PROVE n + 1 \in Good
    <2> SUFFICES ASSUME n + 1 <= count
                 PROVE  h[n + 1] = StatsOf(g, Seen(n + 1)) /\ g[Seen(n + 1)] \in Nat
      OBVIOUS
    <2>1. /\ n < count /\ n <= count /\ n + 1 \in 1..count /\ (n + 1) - 1 = n
          /\ n \in DOMAIN global_ids.slots
      BY <1>1
    <2>2. h[n] = StatsOf(g, Seen(n)) /\ g[Seen(n)] \in Nat
      BY <1>7, <2>1
    <2>3. h[n + 1] = Counted(h[n], n)
      BY <1>3, <2>1
    <2>4. Seen(n) \subseteq DOMAIN streams
      BY DEF Seen
    <2> DEFINE id == global_ids.slots[n]
    <2>5. /\ id \in DOMAIN streams => Seen(n + 1) = Seen(n) \cup {id} /\ id \notin Seen(n)
          /\ id \notin DOMAIN streams => Seen(n + 1) = Seen(n)
      BY <1>1, <2>1, SeenSteps
    <2>6. CASE id \in DOMAIN streams
      BY <1>5, <2>1, <2>2, <2>3, <2>4, <2>5, <2>6, StatsOfMore
    <2>7. CASE id \notin DOMAIN streams
      BY <2>2, <2>3, <2>5, <2>7 DEF Counted
    <2> QED
      BY <2>6, <2>7
  <1> HIDE DEF Good
  <1>8. Nat \subseteq Good
    BY <1>6, <1>7, AllNumbers
  <1>9. h[count] = StatsOf(g, Seen(count))
    BY <1>1, <1>8 DEF Good
  <1>10. Seen(count) = DOMAIN streams /\ g[DOMAIN streams] = Volume
    BY <1>1, <1>5, SeenAtEnds, VolumeIsSum
  <1>11. get_stats = [total_streams |-> Cardinality(DOMAIN streams),
                      active_streams |-> Cardinality(Running(DOMAIN streams)),
                      total_volume |-> Saturated(Volume)]
    BY <1>2, <1>9, <1>10 DEF StatsOf
  <1> QED
    BY <1>11 DEF StatsExact, Running, Volume

(* get_stats counts every stored stream exactly once, over a global list     *)
(* that also holds the ids of streams that are gone.                         *)
THEOREM StatsAreExact ==
    ASSUME NoncesApart
    PROVE  Spec => []StatsExact
  <1>1. ContractInv /\ SolvencyInv /\ [Next]_vars => SolvencyInv'
    BY StepStaysSolvent
  <1>2. ContractInv /\ SolvencyInv /\ ListsInv => StatsExact
    BY CountsAreExact DEF SolvencyInv
  <1> QED
    BY <1>1, <1>2, StartsSolvent, ContractSafety, ListsSafety, PTL DEF Spec

-----------------------------------------------------------------------------
(* The pages.  Those of a full size of the global list, ...                  *)
LEMMA GlobalPages ==
    ASSUME ContractInv, ListsInv, NEW size \in 1..PAGE_CAP
    PROVE  OnPages([k \in Pages(global_ids, size) |-> get_all_stream_ids(k * size, size)],
                   DOMAIN streams)
  <1> DEFINE pages == [k \in Pages(global_ids, size) |-> get_all_stream_ids(k * size, size)]
  <1>1. /\ GoodList(global_ids, DOMAIN escrow)
        /\ DOMAIN escrow \cap DOMAIN streams = DOMAIN streams
    BY Basics DEF ListsInv, AllGood
  <1>2. size \in Nat \ {0} /\ Lesser(size, PAGE_CAP) = size
    BY PageAssumption DEF Lesser
  <1>3. \A k \in Pages(global_ids, size) :
           pages[k] = Those(IdsBetween(global_ids, k * size,
                                       Lesser(k * size + size, global_ids.count)),
                            DOMAIN streams)
    BY <1>2 DEF get_all_stream_ids, global_page
  <1>4. DOMAIN pages = Pages(global_ids, size)
    OBVIOUS
  <1> HIDE DEF pages
  <1>5. OnPages(pages, DOMAIN escrow \cap DOMAIN streams)
    BY <1>1, <1>2, <1>3, <1>4, PagesAre
  <1> QED
    BY <1>1, <1>5 DEF pages

(* ... and those of an account's own list.                                   *)
LEMMA OwnPages ==
    ASSUME NEW index, NEW ids, GoodList(index, ids), ids \subseteq DOMAIN streams,
           NEW size \in 1..PAGE_CAP
    PROVE  OnPages([k \in Pages(index, size) |-> page_of(index, k * size, size)], ids)
  <1> DEFINE pages == [k \in Pages(index, size) |-> page_of(index, k * size, size)]
  <1>1. /\ size \in Nat \ {0} /\ Lesser(size, PAGE_CAP) = size
        /\ ids \cap DOMAIN streams = ids
    BY PageAssumption DEF Lesser
  <1>2. ASSUME NEW k \in Pages(index, size)
        PROVE  pages[k] = Those(IdsBetween(index, k * size,
                                           Lesser(k * size + size, index.count)),
                                DOMAIN streams)
    <2>1. k * size \in Nat /\ size \in Nat
      BY <1>1 DEF Pages
    <2>2. SubSeq(Ids(index), k * size + 1, Lesser(k * size + size, Len(Ids(index))))
             = IdsBetween(index, k * size, Lesser(k * size + size, index.count))
      BY <2>1, SliceIsCut
    <2>3. pages[k] = Stored(SubSeq(Ids(index), k * size + 1,
                                   Lesser(k * size + size, Len(Ids(index)))))
      BY <1>1 DEF page_of
    <2> QED
      BY <2>2, <2>3 DEF Stored
  <1>3. DOMAIN pages = Pages(index, size)
    OBVIOUS
  <1> HIDE DEF pages
  <1>4. OnPages(pages, ids \cap DOMAIN streams)
    BY <1>1, <1>2, <1>3, PagesAre
  <1> QED
    BY <1>1, <1>4 DEF pages

LEMMA ActiveAre ==
    ASSUME NEW index, NEW ids, GoodList(index, ids), ids \subseteq DOMAIN streams
    PROVE  Once(Active(Ids(index)), {id \in ids : streams[id].status = "Active"})
  <1> DEFINE active == {id \in DOMAIN streams : streams[id].status = "Active"}
             all == Ids(index)
  <1>1. all \in Seq(ids) /\ Distinct(all) /\ Listed(all) = ids
    BY IdsAre DEF Once
  <1> HIDE DEF all
  <1>2. Listed(Those(all, active)) = ids \cap active /\ Distinct(Those(all, active))
    <2> HIDE DEF active
    <2> QED
      BY <1>1, ThoseAre
  <1>3. ids \cap active = {id \in ids : streams[id].status = "Active"}
    OBVIOUS
  <1> QED
    BY <1>2, <1>3 DEF Once, Active, all

(* Page after page a client sees every stored stream once, each party its    *)
(* own and each active one, though pages are cut by slot and the global list *)
(* keeps ids that are gone.                                                  *)
THEOREM PagesCoverAll ==
    ASSUME NoncesApart
    PROVE  Spec => []PagesCoverStreams
  <1>1. ContractInv /\ ListsInv => PagesCoverStreams
    <2> SUFFICES ASSUME ContractInv, ListsInv PROVE PagesCoverStreams
      OBVIOUS
    <2>1. ASSUME NEW u \in Users
          PROVE  /\ GoodList(sender_ids[u], StreamsFrom(u))
                 /\ GoodList(recipient_ids[u], StreamsTo(u))
                 /\ StreamsFrom(u) \subseteq DOMAIN streams
                 /\ StreamsTo(u) \subseteq DOMAIN streams
      BY PartiesAre DEF ListsInv, PartiesInv, StreamsFrom, StreamsTo
    <2>2. ASSUME NEW u \in Users, NEW size \in 1..PAGE_CAP
          PROVE  /\ OnPages([k \in Pages(sender_ids[u], size) |->
                                get_streams_by_sender(u, k * size, size)], StreamsFrom(u))
                 /\ OnPages([k \in Pages(recipient_ids[u], size) |->
                                get_streams_by_recipient(u, k * size, size)], StreamsTo(u))
      <3>1. OnPages([k \in Pages(sender_ids[u], size) |->
                        page_of(sender_ids[u], k * size, size)], StreamsFrom(u))
        BY <2>1, OwnPages
      <3>2. OnPages([k \in Pages(recipient_ids[u], size) |->
                        page_of(recipient_ids[u], k * size, size)], StreamsTo(u))
        BY <2>1, OwnPages
      <3> QED
        BY <3>1, <3>2 DEF get_streams_by_sender, get_streams_by_recipient
    <2>3. ASSUME NEW u \in Users
          PROVE  /\ Once(get_active_streams_by_sender(u),
                         {id \in StreamsFrom(u) : streams[id].status = "Active"})
                 /\ Once(get_active_streams_by_recipient(u),
                         {id \in StreamsTo(u) : streams[id].status = "Active"})
      <3>1. Once(Active(Ids(sender_ids[u])),
                 {id \in StreamsFrom(u) : streams[id].status = "Active"})
        BY <2>1, ActiveAre
      <3>2. Once(Active(Ids(recipient_ids[u])),
                 {id \in StreamsTo(u) : streams[id].status = "Active"})
        BY <2>1, ActiveAre
      <3> QED
        BY <3>1, <3>2 DEF get_active_streams_by_sender, get_active_streams_by_recipient
    <2> QED
      BY <2>2, <2>3, GlobalPages DEF PagesCoverStreams
  <1> QED
    BY <1>1, ContractSafety, ListsSafety, PTL

(* A list that stays, or takes an id of no stored stream at its end, keeps   *)
(* on its pages the streams that stay stored.                                *)
LEMMA PageStays ==
    ASSUME NEW index, NEW ids, GoodList(index, ids), NEW A, A \subseteq ids, NEW B,
           NEW after, after = index \/ \E id : id \notin ids /\ after = Indexed(index, id),
           NEW start \in Nat, NEW limit \in Nat
    PROVE  Those(global_page(index, A, start, limit), B)
             = Those(global_page(after, B, start, limit), A)
  <1> DEFINE size == Lesser(limit, PAGE_CAP)
             old == IdsBetween(index, start, Lesser(start + size, index.count))
             new == IdsBetween(after, start, Lesser(start + size, after.count))
  <1>1. size \in Nat
    BY PageAssumption DEF Lesser
  <1>2. /\ global_page(index, A, start, limit) = Those(old, A)
        /\ global_page(after, B, start, limit) = Those(new, B)
    BY DEF global_page
  <1> HIDE DEF size
  <1>3. index.count \in Nat /\ Lesser(start + size, index.count) \in Int
        /\ Lesser(start + size, index.count) <= index.count
    BY <1>1 DEF Lesser, GoodList
  <1>4. old \in Seq(ids)
    BY <1>3, CutIs
  <1>5. Those(Those(old, A), B) = Those(old, A \cap B)
    <2> HIDE DEF old
    <2> QED
      BY <1>4, ThoseOfThose
  <1>6. CASE after = index
    <2>1. new = old
      BY <1>6
    <2> HIDE DEF new, old
    <2>2. Those(Those(old, B), A) = Those(old, B \cap A) /\ B \cap A = A \cap B
      BY <1>4, ThoseOfThose
    <2> QED
      BY <1>2, <1>5, <2>1, <2>2
  <1>7. CASE \E id : id \notin ids /\ after = Indexed(index, id)
    <2>1. PICK id : id \notin ids /\ after = Indexed(index, id)
      BY <1>7
    <2>2. new = old \/ new = Append(old, id)
      BY <1>1, <2>1, CutAfterIndexed, ZenonT(60)
    <2> HIDE DEF new, old
    <2> DEFINE more == ids \cup {id}
    <2>3. old \in Seq(more) /\ id \in more
      BY <1>4, SeqMonotonic
    <2>4. new \in Seq(more)
      BY <2>2, <2>3, AppendProperties
    <2> HIDE DEF more
    <2>5. Those(Those(new, B), A) = Those(new, B \cap A) /\ B \cap A = A \cap B
      BY <2>4, ThoseOfThose
    <2>6. Those(new, A \cap B) = Those(old, A \cap B)
      <3>1. id \notin A \cap B
        BY <2>1
      <3>2. Those(Append(old, id), A \cap B)
              = IF id \in A \cap B THEN Append(Those(old, A \cap B), id) ELSE Those(old, A \cap B)
        BY <2>3, ThoseAppend
      <3> QED
        BY <2>2, <3>1, <3>2
    <2> QED
      BY <1>2, <1>5, <2>5, <2>6
  <1> QED
    BY <1>6, <1>7

(* What a step that adds or removes a stream does to the global list.        *)
LEMMA GlobalListStep ==
    ASSUME ContractInv, IdsInv, [Next]_vars, DOMAIN streams' # DOMAIN streams
    PROVE  \/ global_ids' = global_ids
           \/ \E id : id \notin DOMAIN escrow /\ global_ids' = Indexed(global_ids, id)
  <1>1. \A id \in DOMAIN streams : id \in DOMAIN escrow
    BY Basics DEF AllGood
  <1>2. StreamNext
    BY OtherSteps DEF streamVars
  <1>3. ASSUME NEW id, NEW s, Opens(id, s)
        PROVE  id \notin DOMAIN escrow /\ global_ids' = Indexed(global_ids, id)
    BY <1>1, <1>3, OpensFresh DEF Opens, IndexStream
  <1>4. ASSUME NEW id, NEW r, Changes(id, r) PROVE FALSE
    <2>1. id \in DOMAIN streams /\ SaveStream(id, r)
      BY <1>4 DEF Changes
    <2> QED
      BY <2>1, SaveEffect
  <1>5. ASSUME NEW id, Closes(id) PROVE global_ids' = global_ids
    BY <1>5 DEF Closes, RemoveStream
  <1>6. ASSUME NEW id, NEW new, NEW r, Divides(id, new, r)
        PROVE  new \notin DOMAIN escrow /\ global_ids' = Indexed(global_ids, new)
    BY <1>1, <1>6, SplitsFresh DEF Divides, IndexStream
  <1> QED
    BY <1>2, <1>3, <1>4, <1>5, <1>6, StreamStepEffect DEF StreamEffect, Rests

(* A client may page through the global list while streams come and go: a    *)
(* stream that stays stored keeps its page.                                  *)
THEOREM PagesStaySteady ==
    ASSUME NoncesApart
    PROVE  Spec => GlobalPagesSteady
  <1>1. ASSUME ContractInv, IdsInv, ListsInv, [Next]_vars, DOMAIN streams' # DOMAIN streams,
               NEW start \in 0..global_ids.count, NEW limit \in 1..PAGE_CAP
        PROVE  Those(global_page(global_ids, DOMAIN streams, start, limit), DOMAIN streams') =
               Those(global_page(global_ids', DOMAIN streams', start, limit), DOMAIN streams)
    <2>1. /\ GoodList(global_ids, DOMAIN escrow) /\ DOMAIN streams \subseteq DOMAIN escrow
          /\ start \in Nat /\ limit \in Nat
      BY <1>1, Basics DEF ListsInv, AllGood, GoodList
    <2>2. \/ global_ids' = global_ids
          \/ \E id : id \notin DOMAIN escrow /\ global_ids' = Indexed(global_ids, id)
      BY <1>1, GlobalListStep
    <2> QED
      BY <2>1, <2>2, PageStays
  <1>2. ContractInv /\ IdsInv /\ ListsInv /\ [Next]_vars
        => [DOMAIN streams' # DOMAIN streams =>
            \A start \in 0..global_ids.count, limit \in 1..PAGE_CAP :
              Those(global_page(global_ids, DOMAIN streams, start, limit), DOMAIN streams') =
              Those(global_page(global_ids', DOMAIN streams', start, limit), DOMAIN streams)]_vars
    BY <1>1
  <1> QED
    BY <1>2, ContractSafety, IdsSafety, ListsSafety, PTL DEF Spec, GlobalPagesSteady
=============================================================================
