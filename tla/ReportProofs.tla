---------------------------- MODULE ReportProofs ----------------------------
(***************************************************************************)
(* Proofs about the selection and the sort of orders: for every book, the  *)
(* array holds each order selected exactly once, the sort puts the order   *)
(* of the best price, and of the greatest age at that price, first, and    *)
(* the report has exactly one line for each price, with its totals.        *)
(***************************************************************************)
EXTENDS OrderReport, Sums, TLAPS

USE SMTT(20), ZenonT(20)

n == Len(matched)

Types ==
    /\ book \in Seq(BookOrder) /\ sort \in {"orderSort", "orderSortReverse"}
    /\ pc \in {"collect", "sort", "group", "done"}
    /\ matched \in Seq(Nat) /\ level \in Nat /\ i \in Nat \ {0} /\ j \in Nat \ {0}
    /\ matching_orders_count \in Nat /\ matching_orders_total_quantity \in Nat
    /\ lines \in Seq(LineType)

\* The positions selected so far.
Selected == {p \in Listed : pc = "collect" => p < i}

Permuted ==
    /\ \A a, b \in DOMAIN matched : matched[a] = matched[b] => a = b
    /\ {matched[a] : a \in DOMAIN matched} = Selected

\* Order at a comes before the one at b in price-time priority.
AheadAt(a, b) == OutOfOrder(b, a) \/ (price(a) = price(b) /\ matched[a] <= matched[b])

\* The orders are selected by age.  The first pass of the sort makes the first
\* place the best of those before j, and leaves the rest in order of age; the
\* passes that follow do not touch the first place.
FirstPlace ==
    /\ pc = "collect" => \A a, b \in 1..n : a < b => matched[a] < matched[b]
    /\ pc = "sort" => matched # <<>> /\ i <= j
    /\ pc = "sort" /\ i = 1 =>
          /\ \A b \in 1..n : b < j => AheadAt(1, b)
          /\ \A a, b \in 1..n : a < b /\ j <= b => matched[a] < matched[b]
    /\ pc = "sort" /\ i > 1 => \A b \in 1..n : AheadAt(1, b)
    /\ pc \in {"group", "done"} => \A b \in 1..n : AheadAt(1, b)

ReportInv == Types /\ Permuted /\ FirstPlace

\* Prices and places are numbers.
LEMMA Facts ==
    ASSUME Types, Permuted
    PROVE  /\ n \in Nat /\ DOMAIN matched = 1..n
           /\ \A a \in 1..n : /\ matched[a] \in DOMAIN book /\ matched[a] \in Nat
                              /\ price(a) \in Nat /\ quantity(a) \in Nat
<1>1. n \in Nat /\ DOMAIN matched = 1..n
  BY DEF Types, n
<1>2. \A a \in 1..n : matched[a] \in DOMAIN book /\ matched[a] \in Nat
  <2>1. \A a \in 1..n : matched[a] \in Selected
    BY <1>1 DEF Permuted
  <2>2. \A a \in 1..n : matched[a] \in Nat
    BY <1>1 DEF Types
  <2> QED
    BY <2>1, <2>2 DEF Selected, Listed
<1>3. \A o \in BookOrder : o.unit_price \in Nat /\ o.quantity \in Nat
  <2>1. \A o \in [unit_price : Price, quantity : Units, listed : {TRUE}] :
           o.unit_price \in Nat /\ o.quantity \in Nat
    BY ReportAssumption, ZenonT(20)
  <2>2. \A o \in [unit_price : {0}, quantity : {0}, listed : {FALSE}] :
           o.unit_price \in Nat /\ o.quantity \in Nat
    OBVIOUS
  <2> QED
    BY <2>1, <2>2, ZenonT(20) DEF BookOrder
<1>4. \A p \in DOMAIN book : book[p] \in BookOrder
  BY DEF Types
<1> QED
  BY <1>1, <1>2, <1>3, <1>4 DEF price, quantity

\* Selecting one more order.
LEMMA CollectKeeps ==
    ASSUME ReportInv, Collect
    PROVE  ReportInv'
<1>1. /\ pc = "collect" /\ pc' = "collect" /\ i' = i + 1 /\ i <= Len(book)
      /\ UNCHANGED <<book, sort, j, matching_orders_count,
                     matching_orders_total_quantity, lines>>
  BY DEF Collect, totals
<1>2. /\ Types /\ Permuted /\ i \in Nat \ {0} /\ i \in DOMAIN book
      /\ n \in Nat /\ DOMAIN matched = 1..n
  BY <1>1, Facts DEF ReportInv, Types
<1>3. Listed' = Listed
  BY <1>1 DEF Listed
<1>4. CASE book[i].listed
  <2>1. matched' = Append(matched, i) /\ level' \in Nat
    BY <1>4 DEF Collect, ReportInv, Types
  <2>2. /\ DOMAIN matched' = 1..(n + 1) /\ n' = n + 1 /\ matched'[n + 1] = i
        /\ matched' \in Seq(Nat)
        /\ \A a \in 1..n : matched'[a] = matched[a]
    BY <2>1, <1>2 DEF n, Types
  <2>3. \A a \in 1..n : matched[a] < i /\ matched[a] \in Listed
    BY <1>1, <1>2 DEF Permuted, Selected
  <2>4. Types'
    BY <1>1, <1>2, <2>1, <2>2 DEF Types
  <2>5. \A a, b \in DOMAIN matched' : matched'[a] = matched'[b] => a = b
    BY <1>2, <2>2, <2>3 DEF Permuted
  <2>6. {matched'[a] : a \in DOMAIN matched'} = Selected'
    <3>1. Selected' = Selected \cup {i}
      BY <1>1, <1>2, <1>3, <1>4 DEF Selected, Listed, Types
    <3>2. Selected = {matched[a] : a \in 1..n}
      BY <1>2 DEF Permuted
    <3> QED
      BY <3>1, <3>2, <1>2, <2>2
  <2>7. FirstPlace'
    <3>1. \A a, b \in 1..n : a < b => matched[a] < matched[b]
      BY <1>1 DEF ReportInv, FirstPlace
    <3>2. \A a, b \in 1..(n + 1) : a < b => matched'[a] < matched'[b]
      BY <3>1, <1>2, <2>2, <2>3
    <3> QED
      BY <3>2, <1>1, <2>2 DEF FirstPlace
  <2> QED
    BY <2>4, <2>5, <2>6, <2>7 DEF ReportInv, Permuted
<1>5. CASE ~book[i].listed
  <2>1. UNCHANGED <<matched, level>>
    BY <1>5 DEF Collect
  <2>2. Selected' = Selected
    BY <1>1, <1>2, <1>3, <1>5 DEF Selected, Listed, Types
  <2>3. Types' /\ Permuted'
    BY <1>1, <1>2, <2>1, <2>2 DEF Types, Permuted
  <2>4. FirstPlace'
    BY <1>1, <2>1 DEF ReportInv, FirstPlace, n
  <2> QED
    BY <2>3, <2>4 DEF ReportInv
<1> QED
  BY <1>4, <1>5

\* A swap of two places, and nothing else: the array stays a permutation.
Swapped(a, b) ==
    /\ Swap(a, b) \in Seq(Nat) /\ Len(Swap(a, b)) = n /\ DOMAIN Swap(a, b) = 1..n
    /\ \A x \in 1..n : Swap(a, b)[x] = IF x = b THEN matched[a]
                                       ELSE IF x = a THEN matched[b] ELSE matched[x]
    /\ \A x, y \in 1..n : Swap(a, b)[x] = Swap(a, b)[y] => x = y
    /\ \A p : p \in Selected <=> \E x \in 1..n : Swap(a, b)[x] = p

\* The three assignments of the sort functions swap two places.
LEMMA SwapKeeps ==
    ASSUME Types, Permuted
    PROVE  \A a, b \in 1..n : Swapped(a, b)
<1> SUFFICES ASSUME NEW a \in 1..n, NEW b \in 1..n PROVE Swapped(a, b)
  OBVIOUS
<1>1. n \in Nat /\ DOMAIN matched = 1..n /\ matched \in Seq(Nat) /\ n = Len(matched)
  BY Facts DEF Types, n
<1> HIDE DEF n
<1>2. \A x \in 1..n : matched[x] \in Nat
  BY Facts
<1>3. /\ DOMAIN Swap(a, b) = 1..n
      /\ \A x \in 1..n : Swap(a, b)[x] = IF x = b THEN matched[a]
                                          ELSE IF x = a THEN matched[b] ELSE matched[x]
  BY <1>1 DEF Swap
<1>4. Swap(a, b) \in Seq(Nat) /\ Len(Swap(a, b)) = n
  BY <1>1 DEF Swap
<1>5. \A x, y \in 1..n : matched[x] = matched[y] => x = y
  BY <1>1 DEF Permuted
<1>6. \A x, y \in 1..n : Swap(a, b)[x] = Swap(a, b)[y] => x = y
  BY <1>3, <1>5
<1>7. \A p : p \in Selected <=> \E y \in 1..n : matched[y] = p
  BY <1>1 DEF Permuted
<1>8. \A p : (\E y \in 1..n : matched[y] = p) <=> \E x \in 1..n : Swap(a, b)[x] = p
  <2>1. \A x \in 1..n : \E y \in 1..n : Swap(a, b)[x] = matched[y]
    BY <1>3
  <2>2. \A y \in 1..n : \E x \in 1..n : Swap(a, b)[x] = matched[y]
    <3> SUFFICES ASSUME NEW y \in 1..n PROVE \E x \in 1..n : Swap(a, b)[x] = matched[y]
      OBVIOUS
    <3>1. CASE y = a
      BY <3>1, <1>3
    <3>2. CASE y = b /\ y # a
      BY <3>2, <1>3
    <3>3. CASE y # a /\ y # b
      BY <3>3, <1>3
    <3> QED
      BY <3>1, <3>2, <3>3
  <2> QED
    BY <2>1, <2>2
<1> QED
  BY <1>3, <1>4, <1>6, <1>7, <1>8, ZenonT(20) DEF Swapped

\* One comparison of the sort.
LEMMA CompareKeeps ==
    ASSUME ReportInv, Compare
    PROVE  ReportInv'
<1>1. /\ pc = "sort" /\ pc' = "sort" /\ i' = i /\ j' = j + 1
      /\ i <= Len(matched) /\ j <= Len(matched)
      /\ matched' = (IF OutOfOrder(i, j) THEN Swap(i, j) ELSE matched)
      /\ UNCHANGED <<book, sort, level, matching_orders_count,
                     matching_orders_total_quantity, lines>>
  BY DEF Compare, totals
<1>2. Types /\ Permuted /\ FirstPlace
  BY DEF ReportInv
<1>3. /\ n \in Nat /\ DOMAIN matched = 1..n /\ i \in 1..n /\ j \in 1..n /\ i <= j
      /\ matched \in Seq(Nat)
  BY <1>1, <1>2, Facts DEF Types, n, FirstPlace
<1>0. Swapped(i, j)
  BY <1>2, <1>3, SwapKeeps
<1>4. Selected' = Selected
  BY <1>1 DEF Selected, Listed
<1>5. /\ n' = n /\ DOMAIN matched' = 1..n /\ matched' \in Seq(Nat)
      /\ \A x, y \in 1..n : matched'[x] = matched'[y] => x = y
      /\ \A p : p \in Selected <=> \E x \in 1..n : matched'[x] = p
  <2>1. CASE OutOfOrder(i, j)
    <3>1. matched' = Swap(i, j)
      BY <2>1, <1>1
    <3>2. /\ Swap(i, j) \in Seq(Nat) /\ Len(Swap(i, j)) = n /\ DOMAIN Swap(i, j) = 1..n
          /\ \A x, y \in 1..n : Swap(i, j)[x] = Swap(i, j)[y] => x = y
          /\ \A p : p \in Selected <=> \E x \in 1..n : Swap(i, j)[x] = p
      BY <1>3, <1>0 DEF Swapped
    <3>3. n' = n
      BY <3>1, <3>2 DEF n
    <3> QED
      BY <3>1, <3>2, <3>3
  <2>2. CASE ~OutOfOrder(i, j)
    BY <2>2, <1>1, <1>2, <1>3, ZenonT(20) DEF n, Permuted
  <2> QED
    BY <2>1, <2>2
<1>6. Types' /\ Permuted'
  <2>1. Permuted'
    BY <1>4, <1>5 DEF Permuted
  <2>2. Types'
    BY <1>1, <1>2, <1>5 DEF Types
  <2> QED
    BY <2>1, <2>2
<1>7. \A a \in 1..n : matched[a] \in Nat /\ price(a) \in Nat
  BY <1>2, Facts
<1>8. CASE ~OutOfOrder(i, j)
  <2>1. matched' = matched
    BY <1>1, <1>8
  <2>2. \A a, b \in 1..n : AheadAt(a, b)' <=> AheadAt(a, b)
    BY <2>1, <1>1 DEF AheadAt, OutOfOrder, price
  <2>3. i = 1 => AheadAt(1, j)
    <3> SUFFICES ASSUME i = 1 PROVE AheadAt(1, j)
      OBVIOUS
    <3>1. CASE j = 1
      BY <3>1, <1>3, <1>7 DEF AheadAt
    <3>2. CASE j > 1
      <4>1. matched[1] < matched[j]
        BY <3>2, <1>1, <1>2, <1>3 DEF FirstPlace
      <4> QED
        BY <4>1, <1>2, <1>3, <1>7, <1>8 DEF AheadAt, OutOfOrder, Types
    <3> QED
      BY <3>1, <3>2, <1>3
  <2>4. i = 1 => \A b \in 1..n : b < j + 1 => AheadAt(1, b)
    BY <2>3, <1>1, <1>2, <1>3 DEF FirstPlace
  <2>5. i = 1 => \A a, b \in 1..n : a < b /\ j + 1 <= b => matched[a] < matched[b]
    BY <1>1, <1>2, <1>3 DEF FirstPlace
  <2>6. i > 1 => \A b \in 1..n : AheadAt(1, b)
    BY <1>1, <1>2 DEF FirstPlace
  <2>7. 1 \in 1..n /\ i' <= j' /\ matched' # <<>>
    BY <1>1, <1>2, <1>3, <2>1 DEF FirstPlace
  <2>8. FirstPlace'
    BY <2>1, <2>2, <2>4, <2>5, <2>6, <2>7, <1>1, <1>5 DEF FirstPlace
  <2> QED
    BY <1>6, <2>8 DEF ReportInv
<1>9. CASE OutOfOrder(i, j)
  <2>1. \A x \in 1..n : matched'[x] = IF x = j THEN matched[i]
                                      ELSE IF x = i THEN matched[j] ELSE matched[x]
    <3>1. matched' = Swap(i, j)
      BY <1>1, <1>9
    <3>2. \A x \in 1..n : Swap(i, j)[x] = IF x = j THEN matched[i]
                                          ELSE IF x = i THEN matched[j] ELSE matched[x]
      BY <1>3, <1>0 DEF Swapped
    <3> QED
      BY <3>1, <3>2
  <2>2. i # j
    BY <1>3, <1>7, <1>9 DEF OutOfOrder
  <2>3. i' <= j' /\ matched' # <<>> /\ 1 \in 1..n
    BY <1>1, <1>3, <1>5
  <2>4. \A a, b, c, d \in 1..n :
           matched'[a] = matched[c] /\ matched'[b] = matched[d] =>
              (AheadAt(a, b)' <=> AheadAt(c, d))
    BY <1>1 DEF AheadAt, OutOfOrder, price
  <2>5. CASE i = 1
    <3>1. /\ \A b \in 1..n : b < j => AheadAt(1, b)
          /\ \A a, b \in 1..n : a < b /\ j <= b => matched[a] < matched[b]
      BY <2>5, <1>1, <1>2 DEF FirstPlace
    <3>2. ASSUME NEW b \in 1..n, b < j + 1 PROVE AheadAt(1, b)'
      <4>1. CASE b = 1
        BY <4>1, <2>1, <2>2, <2>5, <1>3, <1>5, <1>7 DEF AheadAt
      <4>2. CASE b = j
        <5>1. AheadAt(j, 1)
          BY <2>5, <1>9 DEF AheadAt
        <5> QED
          BY <4>2, <5>1, <2>1, <2>2, <2>4, <2>5, <1>3
      <4>3. CASE b # 1 /\ b # j
        <5>1. AheadAt(1, b)
          BY <3>1, <3>2, <4>3, <1>3
        <5>2. AheadAt(j, b)
          BY <5>1, <2>5, <1>2, <1>3, <1>7, <1>9 DEF AheadAt, OutOfOrder, Types
        <5> QED
          BY <4>3, <5>2, <2>1, <2>2, <2>4, <2>5, <1>3
      <4> QED
        BY <4>1, <4>2, <4>3
    <3>3. ASSUME NEW a \in 1..n, NEW b \in 1..n, a < b, j + 1 <= b
          PROVE  matched'[a] < matched'[b]
      <4>1. matched'[b] = matched[b] /\ 1 < b /\ j < b
        BY <3>3, <2>1, <2>5, <1>3
      <4>2. matched[a] < matched[b] /\ matched[1] < matched[b] /\ matched[j] < matched[b]
        BY <3>1, <3>3, <4>1, <1>3, <2>3
      <4> QED
        BY <4>1, <4>2, <2>1, <2>5
    <3> QED
      BY <3>2, <3>3, <2>3, <2>5, <1>1, <1>5, <1>6 DEF FirstPlace, ReportInv
  <2>6. CASE i > 1
    <3>1. \A b \in 1..n : AheadAt(1, b)
      BY <2>6, <1>1, <1>2 DEF FirstPlace
    <3>2. matched'[1] = matched[1]
      BY <2>1, <2>3, <2>6, <1>3
    <3>3. \A b \in 1..n : \E d \in 1..n : matched'[b] = matched[d]
      BY <2>1, <1>3
    <3>4. \A b \in 1..n : AheadAt(1, b)'
      BY <3>1, <3>2, <3>3, <2>3, <2>4
    <3> QED
      BY <3>4, <2>3, <2>6, <1>1, <1>5, <1>6 DEF FirstPlace, ReportInv
  <2> QED
    BY <2>5, <2>6, <1>3
<1> QED
  BY <1>8, <1>9

\* The steps that do not touch the array.
LEMMA OtherKeeps ==
    ASSUME ReportInv, [RNext]_rvars, ~Collect, ~Compare
    PROVE  ReportInv'
<1>1. Types /\ Permuted /\ FirstPlace
  BY DEF ReportInv
<1>2. /\ n \in Nat /\ DOMAIN matched = 1..n
      /\ \A a \in 1..n : price(a) \in Nat /\ quantity(a) \in Nat
  BY <1>1, Facts
<1>3. UNCHANGED <<book, sort, matched, level>>
  BY DEF RNext, CollectDone, NextPlace, SortDone, SameLevel, EndOfLevel, LastLevel,
         Returned, rvars
<1>4. n' = n /\ Listed' = Listed /\ \A a, b \in 1..n : AheadAt(a, b)' <=> AheadAt(a, b)
  BY <1>3 DEF n, Listed, AheadAt, OutOfOrder, price
<1>5. CASE CollectDone
  <2>1. /\ pc = "collect" /\ i > Len(book) /\ i' = 1 /\ j' = 1
        /\ pc' = (IF matched = <<>> THEN "done" ELSE "sort")
        /\ UNCHANGED <<matching_orders_count, matching_orders_total_quantity, lines>>
    BY <1>5 DEF CollectDone, totals
  <2>2. Types'
    BY <1>1, <1>3, <2>1 DEF Types
  <2>3. Selected' = Selected
    <3>1. \A p \in Listed : p < i
      BY <1>1, <2>1 DEF Listed, Types
    <3> QED
      BY <3>1, <2>1, <1>4 DEF Selected
  <2>4. Permuted'
    BY <1>1, <1>3, <2>3 DEF Permuted
  <2>5. FirstPlace'
    <3>1. \A a, b \in 1..n : a < b => matched[a] < matched[b]
      BY <1>1, <2>1 DEF FirstPlace
    <3>2. matched = <<>> => n = 0
      BY DEF n
    <3> QED
      BY <3>1, <3>2, <2>1, <1>2, <1>3, <1>4 DEF FirstPlace
  <2> QED
    BY <2>2, <2>4, <2>5 DEF ReportInv
<1>6. CASE NextPlace
  <2>1. /\ pc = "sort" /\ pc' = "sort" /\ i <= n /\ j > n /\ i' = i + 1 /\ j' = i + 1
        /\ UNCHANGED <<matching_orders_count, matching_orders_total_quantity, lines>>
    BY <1>6 DEF NextPlace, totals, n
  <2>2. Types'
    BY <1>1, <1>3, <2>1 DEF Types
  <2>3. Permuted'
    BY <1>1, <1>3, <1>4, <2>1 DEF Permuted, Selected
  <2>4. \A b \in 1..n : AheadAt(1, b)
    BY <1>1, <1>2, <2>1 DEF FirstPlace, Types
  <2>5. i' > 1 /\ i' <= j' /\ matched' # <<>> /\ 1 \in 1..n
    BY <1>1, <1>2, <1>3, <2>1 DEF Types, FirstPlace
  <2>6. FirstPlace'
    BY <2>1, <2>4, <2>5, <1>3, <1>4 DEF FirstPlace
  <2> QED
    BY <2>2, <2>3, <2>6 DEF ReportInv
<1>7. CASE SortDone
  <2>1. /\ pc = "sort" /\ pc' \in {"group", "done"} /\ i > n /\ i' = 1 /\ j' = j
        /\ UNCHANGED <<matching_orders_count, matching_orders_total_quantity, lines>>
    BY <1>7 DEF SortDone, totals, n
  <2>2. Types'
    BY <1>1, <1>3, <2>1 DEF Types
  <2>3. Permuted'
    BY <1>1, <1>3, <1>4, <2>1 DEF Permuted, Selected
  <2>4. n > 0
    BY <1>1, <2>1 DEF FirstPlace, Types, n
  <2>5. 1 \in 1..n /\ \A b \in 1..n : AheadAt(1, b)
    BY <1>1, <1>2, <2>1, <2>4 DEF FirstPlace, Types
  <2>6. FirstPlace'
    BY <2>1, <2>5, <1>4 DEF FirstPlace
  <2> QED
    BY <2>2, <2>3, <2>6 DEF ReportInv
<1>8. CASE SameLevel \/ EndOfLevel \/ LastLevel
  <2>1. pc = "group" /\ pc' \in {"group", "done"} /\ i' \in Nat \ {0} /\ j' = j /\ i \in 1..n
    <3>1. i \in Nat \ {0} /\ n \in Nat /\ n = Len(matched)
      BY <1>1, <1>2 DEF Types, n
    <3>2. CASE SameLevel
      BY <3>1, <3>2 DEF SameLevel
    <3>3. CASE EndOfLevel
      BY <3>1, <3>3 DEF EndOfLevel
    <3>4. CASE LastLevel
      BY <3>1, <3>4 DEF LastLevel
    <3> QED
      BY <3>2, <3>3, <3>4, <1>8
  <2>2. matching_orders_count' \in Nat /\ matching_orders_total_quantity' \in Nat
    <3>1. /\ matching_orders_count \in Nat /\ matching_orders_total_quantity \in Nat
          /\ quantity(i) \in Nat
      BY <1>1, <1>2, <2>1 DEF Types
    <3> HIDE DEF quantity
    <3>2. CASE SameLevel
      BY <3>1, <3>2 DEF SameLevel
    <3>3. CASE EndOfLevel
      BY <3>3 DEF EndOfLevel
    <3>4. CASE LastLevel
      BY <3>1, <3>4 DEF LastLevel, totals
    <3> QED
      BY <3>2, <3>3, <3>4, <1>8
  <2>3. lines' \in Seq(LineType)
    <3>1. Line(i) \in LineType
      BY <1>1, <1>2, <2>1 DEF Line, LineType, Types
    <3>2. lines' = lines \/ lines' = Append(lines, Line(i))
      BY <1>8 DEF SameLevel, EndOfLevel, LastLevel
    <3>3. lines \in Seq(LineType)
      BY <1>1 DEF Types
    <3> HIDE DEF Line
    <3> QED
      BY <3>1, <3>2, <3>3
  <2>4. Types'
    BY <1>1, <1>3, <2>1, <2>2, <2>3 DEF Types
  <2>5. Permuted'
    BY <1>1, <1>3, <1>4, <2>1 DEF Permuted, Selected
  <2>6. 1 \in 1..n /\ \A b \in 1..n : AheadAt(1, b)
    BY <1>1, <1>2, <2>1 DEF FirstPlace
  <2>7. FirstPlace'
    BY <2>1, <2>6, <1>4 DEF FirstPlace
  <2> QED
    BY <2>4, <2>5, <2>7 DEF ReportInv
<1>9. CASE UNCHANGED rvars
  <2>1. UNCHANGED <<pc, i, j, matching_orders_count, matching_orders_total_quantity, lines>>
    BY <1>9 DEF rvars, totals
  <2>2. Types'
    BY <1>1, <1>3, <2>1 DEF Types
  <2>3. Permuted'
    BY <1>1, <1>3, <1>4, <2>1 DEF Permuted, Selected
  <2>4. FirstPlace'
    <3>1. CASE n = 0
      BY <3>1, <1>1, <1>3, <1>4, <2>1 DEF FirstPlace
    <3>2. CASE 1 \in 1..n
      BY <3>2, <1>1, <1>3, <1>4, <2>1 DEF FirstPlace
    <3> QED
      BY <3>1, <3>2, <1>2
  <2> QED
    BY <2>2, <2>3, <2>4 DEF ReportInv
<1> QED
  BY <1>5, <1>6, <1>7, <1>8, <1>9 DEF RNext, Returned

\* The invariant holds of every book the functions are called with.
LEMMA ReportAlways == RSpec => []ReportInv
<1>1. RInit => ReportInv
  <2> SUFFICES ASSUME RInit PROVE ReportInv
    OBVIOUS
  <2>1. PICK m \in 0..MaxBook : book \in [1..m -> BookOrder]
    BY DEF RInit
  <2>2. m \in Nat /\ book \in Seq(BookOrder)
    BY <2>1, ReportAssumption
  <2>3. matched = <<>> /\ pc = "collect" /\ i = 1 /\ DOMAIN book \subseteq Nat \ {0}
    BY <2>1, <2>2 DEF RInit
  <2>4. Types
    BY <2>2 DEF RInit, Types
  <2>5. Permuted
    <3>1. Selected = {}
      BY <2>3 DEF Selected, Listed
    <3>2. {matched[a] : a \in DOMAIN matched} = {} /\ DOMAIN matched = {}
      BY <2>3
    <3> QED
      BY <3>1, <3>2 DEF Permuted
  <2>6. FirstPlace
    BY <2>3 DEF FirstPlace, n
  <2> QED
    BY <2>4, <2>5, <2>6 DEF ReportInv
<1>2. ReportInv /\ [RNext]_rvars => ReportInv'
  BY CollectKeeps, CompareKeeps, OtherKeeps
<1> QED
  BY <1>1, <1>2, PTL DEF RSpec

\* The variables keep their types, and neither orderSort() nor
\* orderSortReverse() loses or doubles an order.
THEOREM NothingLost == RSpec => []RTypeOK
<1>1. ReportInv => RTypeOK
  BY DEF ReportInv, Types, Permuted, Selected, RTypeOK
<1> QED
  BY <1>1, ReportAlways, PTL

\* After the sort the order that price-time priority prefers is in the first
\* place, for every book: what Market says of getBestBuyOrder() and
\* getBestSellOrder() is what these functions compute.
THEOREM FirstIsBest == RSpec => []BestIsFirst
<1>1. ReportInv => BestIsFirst
  <2> SUFFICES ASSUME ReportInv, pc \in {"group", "done"}, matched # <<>>, NEW p \in Listed
               PROVE  \/ IF sort = "orderSort" THEN price(1) < book[p].unit_price
                                               ELSE price(1) > book[p].unit_price
                      \/ price(1) = book[p].unit_price /\ matched[1] <= p
    BY DEF BestIsFirst
  <2>1. PICK b \in DOMAIN matched : matched[b] = p
    <3>1. p \in Selected
      BY DEF Selected
    <3> QED
      BY <3>1 DEF ReportInv, Permuted
  <2>2. b \in 1..n /\ 1 \in 1..n /\ price(1) \in Nat /\ price(b) \in Nat
    BY <2>1, Facts DEF ReportInv
  <2>3. AheadAt(1, b)
    BY <2>2 DEF ReportInv, FirstPlace
  <2>4. price(b) = book[p].unit_price
    BY <2>1 DEF price
  <2> QED
    BY <2>1, <2>2, <2>3, <2>4 DEF AheadAt, OutOfOrder
<1> QED
  BY <1>1, ReportAlways, PTL
-----------------------------------------------------------------------------
(* The report is exact.                                                    *)

\* Before place i the array is sorted against all that follows, and place i
\* against what it was compared with.
SortInv ==
    /\ pc = "sort" =>
         /\ \A a, b \in 1..n : a < b /\ a < i => ~OutOfOrder(a, b)
         /\ \A b \in 1..n : i <= b /\ b < j => ~OutOfOrder(i, b)
    /\ pc \in {"group", "done"} => \A a, b \in 1..n : a < b => ~OutOfOrder(a, b)

\* The levels counted are the prices selected.
Prices == {book[p].unit_price : p \in Selected}
LevelInv == IsFiniteSet(Prices) /\ level = Cardinality(Prices)

\* The orders before place a that share its price, and the line of a price.
Before(a) == {matched[b] : b \in {b \in 1..n : b < a /\ price(b) = price(a)}}
LineOf(x) == [unit_price |-> x, quantity |-> Sum(At(x)), orders |-> Cardinality(At(x))]
LinesFor(places) == {LineOf(price(b)) : b \in places}
Above(x) == {b \in 1..n : price(b) > x}

Decreasing == \A a, b \in DOMAIN lines : a < b => lines[a].unit_price > lines[b].unit_price
Printed    == {lines[a] : a \in DOMAIN lines}

\* At place i of a sorted array the levels above its price are printed, and
\* the counters hold the orders of its level before it.
GroupInv ==
    /\ pc \in {"collect", "sort"} =>
         /\ matching_orders_count = 0 /\ matching_orders_total_quantity = 0
         /\ lines = <<>>
    /\ pc = "group" =>
         /\ sort = "orderSortReverse" /\ i \in 1..n
         /\ matching_orders_count = Cardinality(Before(i))
         /\ matching_orders_total_quantity = Sum(Before(i))
         /\ Printed = LinesFor(Above(price(i)))
         /\ Decreasing
    /\ pc = "done" /\ sort = "orderSortReverse" =>
         /\ Printed = LinesFor(1..n)
         /\ Decreasing

\* Steps other than Collect and Compare leave array and selection alone.
LEMMA SameArray ==
    ASSUME ReportInv, [RNext]_rvars, ~Collect, ~Compare
    PROVE  /\ UNCHANGED <<book, sort, matched, level>>
           /\ n' = n /\ Listed' = Listed /\ Selected' = Selected /\ Prices' = Prices
           /\ \A a, b \in 1..n : OutOfOrder(a, b)' <=> OutOfOrder(a, b)
           /\ \A a \in 1..n : price(a)' = price(a)
<1>1. UNCHANGED <<book, sort, matched, level>>
  BY DEF RNext, CollectDone, NextPlace, SortDone, SameLevel, EndOfLevel, LastLevel,
         Returned, rvars
<1>2. /\ n' = n /\ Listed' = Listed
      /\ \A a, b \in 1..n : OutOfOrder(a, b)' <=> OutOfOrder(a, b)
      /\ \A a \in 1..n : price(a)' = price(a)
  BY <1>1 DEF n, Listed, OutOfOrder, price
<1>3. Selected' = Selected
  <2>1. CASE CollectDone
    <3>1. pc = "collect" /\ i > Len(book) /\ pc' # "collect"
      BY <2>1 DEF CollectDone
    <3>2. \A p \in Listed : p < i
      BY <3>1 DEF Listed, Types, ReportInv
    <3> QED
      BY <3>1, <3>2, <1>2 DEF Selected
  <2>2. CASE ~CollectDone
    <3>1. (pc = "collect" <=> pc' = "collect") /\ (pc = "collect" => i' = i)
      BY <2>2 DEF RNext, NextPlace, SortDone, SameLevel, EndOfLevel, LastLevel, Returned, rvars
    <3> QED
      BY <3>1, <1>2 DEF Selected
  <2> QED
    BY <2>1, <2>2
<1> QED
  BY <1>1, <1>2, <1>3 DEF Prices

\* A comparison at places i and j: what it does to the prices.
LEMMA ComparePrices ==
    ASSUME ReportInv, Compare
    PROVE  /\ n' = n /\ i \in 1..n /\ j \in 1..n /\ i <= j /\ n \in Nat
           /\ Selected' = Selected /\ Prices' = Prices
           /\ \A a \in 1..n : price(a) \in Nat
           /\ \A a \in 1..n :
                price(a)' = IF OutOfOrder(i, j)
                            THEN IF a = j THEN price(i) ELSE IF a = i THEN price(j) ELSE price(a)
                            ELSE price(a)
<1>1. /\ pc = "sort" /\ pc' = "sort" /\ i' = i /\ j' = j + 1
      /\ i <= Len(matched) /\ j <= Len(matched)
      /\ matched' = (IF OutOfOrder(i, j) THEN Swap(i, j) ELSE matched)
      /\ book' = book
  BY DEF Compare
<1>2. Types /\ Permuted /\ FirstPlace
  BY DEF ReportInv
<1>3. /\ n \in Nat /\ i \in 1..n /\ j \in 1..n /\ i <= j
  BY <1>1, <1>2, Facts DEF Types, n, FirstPlace
<1>4. Swapped(i, j)
  BY <1>2, <1>3, SwapKeeps
<1>5. /\ Len(Swap(i, j)) = n
      /\ \A x \in 1..n : Swap(i, j)[x] = IF x = j THEN matched[i]
                                          ELSE IF x = i THEN matched[j] ELSE matched[x]
  BY <1>4 DEF Swapped
<1>6. n' = n
  BY <1>1, <1>5 DEF n
<1>7. Selected' = Selected
  BY <1>1 DEF Selected, Listed
<1>8. \A a \in 1..n : price(a) \in Nat
  BY <1>2, Facts
<1>9. \A a \in 1..n :
        matched'[a] = IF OutOfOrder(i, j)
                      THEN IF a = j THEN matched[i] ELSE IF a = i THEN matched[j] ELSE matched[a]
                      ELSE matched[a]
  BY <1>1, <1>5
<1>10. \A a \in 1..n :
         price(a)' = IF OutOfOrder(i, j)
                     THEN IF a = j THEN price(i) ELSE IF a = i THEN price(j) ELSE price(a)
                     ELSE price(a)
  <2> HIDE DEF OutOfOrder
  <2> QED
    BY <1>1, <1>9 DEF price
<1> QED
  BY <1>1, <1>3, <1>6, <1>7, <1>8, <1>10 DEF Prices

\* The sort: a pass leaves the best of what is left in place i.
LEMMA SortKeeps ==
    ASSUME ReportInv, SortInv, [RNext]_rvars
    PROVE  SortInv'
<1>t. Types /\ n \in Nat /\ i \in Nat \ {0} /\ j \in Nat \ {0} /\ n = Len(matched)
  BY Facts DEF ReportInv, Types, n
<1>1. CASE Collect
  BY <1>1 DEF Collect, SortInv
<1>2. CASE Compare
  <2>1. /\ n' = n /\ i \in 1..n /\ j \in 1..n /\ i <= j
        /\ \A a \in 1..n : price(a) \in Nat
        /\ \A a \in 1..n :
             price(a)' = IF OutOfOrder(i, j)
                         THEN IF a = j THEN price(i) ELSE IF a = i THEN price(j) ELSE price(a)
                         ELSE price(a)
    BY <1>2, ComparePrices
  <2>2. /\ pc = "sort" /\ pc' = "sort" /\ i' = i /\ j' = j + 1 /\ sort' = sort
        /\ \A a, b \in 1..n : a < b /\ a < i => ~OutOfOrder(a, b)
        /\ \A b \in 1..n : i <= b /\ b < j => ~OutOfOrder(i, b)
    BY <1>2 DEF Compare, SortInv
  <2> HIDE DEF price
  <2>3. ASSUME NEW a \in 1..n, NEW b \in 1..n, a < b, a < i PROVE ~OutOfOrder(a, b)'
    <3>1. price(a)' = price(a)
      BY <2>1, <2>3
    <3>2. PICK c \in 1..n : price(b)' = price(c) /\ a < c
      <4>1. CASE b = i
        BY <2>1, <2>3, <4>1
      <4>2. CASE b = j
        BY <2>1, <2>3, <4>2
      <4>3. CASE b # i /\ b # j
        BY <2>1, <2>3, <4>3
      <4> QED
        BY <4>1, <4>2, <4>3
    <3>3. ~OutOfOrder(a, c)
      BY <2>2, <2>3, <3>2
    <3> QED
      BY <2>2, <3>1, <3>2, <3>3 DEF OutOfOrder
  <2>4. ASSUME NEW b \in 1..n, i <= b, b < j + 1 PROVE ~OutOfOrder(i, b)'
    <3>0. b \in Nat /\ i \in Nat /\ j \in Nat
      BY <1>t
    <3>1. /\ price(i) \in Nat /\ price(j) \in Nat /\ price(b) \in Nat
          /\ b < j => ~OutOfOrder(i, b)
      BY <2>1, <2>2, <2>4
    <3>2. CASE ~OutOfOrder(i, j)
      <4>1. price(i)' = price(i) /\ price(b)' = price(b)
        BY <2>1, <2>2, <3>2
      <4>2. ~OutOfOrder(i, b)
        BY <2>4, <3>0, <3>1, <3>2
      <4> QED
        BY <2>2, <4>1, <4>2 DEF OutOfOrder
    <3>3. CASE OutOfOrder(i, j)
      <4>1. i # j
        BY <3>1, <3>3 DEF OutOfOrder
      <4>2. price(i)' = price(j)
        BY <2>1, <2>2, <3>3, <4>1
      <4>3. price(b)' = IF b = j THEN price(i) ELSE IF b = i THEN price(j) ELSE price(b)
        BY <2>1, <3>3
      <4>4. b = j \/ b < j
        BY <2>4, <3>0
      <4> QED
        BY <2>2, <3>1, <3>3, <4>2, <4>3, <4>4 DEF OutOfOrder
    <3> QED
      BY <3>2, <3>3
  <2> QED
    BY <2>1, <2>2, <2>3, <2>4 DEF SortInv
<1>3. CASE ~Collect /\ ~Compare
  <2>0. n' = n /\ \A a, b \in 1..n : OutOfOrder(a, b)' <=> OutOfOrder(a, b)
    BY <1>3, SameArray
  <2> HIDE DEF OutOfOrder
  <2>1. CASE CollectDone
    <3>1. i' = 1 /\ j' = 1 /\ (pc' = "sort" \/ (pc' = "done" /\ matched = <<>>))
      BY <2>1 DEF CollectDone
    <3>2. matched = <<>> => n = 0
      BY <1>t
    <3> QED
      BY <2>0, <3>1, <3>2 DEF SortInv
  <2>2. CASE NextPlace
    <3>1. pc = "sort" /\ pc' = "sort" /\ i <= n /\ j > n /\ i' = i + 1 /\ j' = i + 1
      BY <2>2 DEF NextPlace, n
    <3>2. ASSUME NEW a \in 1..n, NEW b \in 1..n, a < b, a < i + 1 PROVE ~OutOfOrder(a, b)
      BY <1>t, <3>1, <3>2 DEF SortInv
    <3> QED
      BY <1>t, <2>0, <3>1, <3>2 DEF SortInv
  <2>3. CASE SortDone
    <3>1. pc = "sort" /\ pc' \in {"group", "done"} /\ i > n
      BY <2>3 DEF SortDone, n
    <3>2. \A a, b \in 1..n : a < b => ~OutOfOrder(a, b)
      BY <1>t, <3>1 DEF SortInv
    <3> QED
      BY <2>0, <3>1, <3>2 DEF SortInv
  <2>4. CASE SameLevel \/ EndOfLevel \/ LastLevel
    <3>1. pc = "group" /\ pc' \in {"group", "done"}
      BY <2>4 DEF SameLevel, EndOfLevel, LastLevel
    <3> QED
      BY <2>0, <3>1 DEF SortInv
  <2>5. CASE UNCHANGED rvars
    BY <2>5 DEF rvars, SortInv, OutOfOrder, price, n
  <2> QED
    BY <1>3, <2>1, <2>2, <2>3, <2>4, <2>5 DEF RNext, Returned
<1> QED
  BY <1>1, <1>2, <1>3

\* Selecting an order counts a level exactly when its price is new.
LEMMA LevelKeeps ==
    ASSUME ReportInv, LevelInv, [RNext]_rvars
    PROVE  LevelInv'
<1>1. CASE Collect
  <2>1. /\ pc = "collect" /\ pc' = "collect" /\ i' = i + 1 /\ i <= Len(book) /\ book' = book
        /\ i \in Nat \ {0} /\ i \in DOMAIN book /\ DOMAIN book \subseteq Nat /\ level \in Nat
    BY <1>1 DEF Collect, ReportInv, Types
  <2>2. Listed' = Listed
    BY <2>1 DEF Listed
  <2>3. CASE book[i].listed
    <3> DEFINE x == book[i].unit_price
    <3>1. Selected' = Selected \cup {i}
      BY <2>1, <2>2, <2>3 DEF Selected, Listed
    <3>2. Prices' = Prices \cup {x}
      BY <2>1, <3>1 DEF Prices
    <3>3. new_price(book[i]) <=> x \notin Prices
      <4>1. Selected = {matched[a] : a \in DOMAIN matched}
        BY DEF ReportInv, Permuted
      <4> QED
        BY <4>1 DEF new_price, price, Prices
    <3>4. level' = IF x \notin Prices THEN level + 1 ELSE level
      BY <1>1, <2>3, <3>3 DEF Collect
    <3> HIDE DEF x
    <3>5. /\ IsFiniteSet(Prices \cup {x})
          /\ Cardinality(Prices \cup {x}) = IF x \in Prices THEN Cardinality(Prices)
                                            ELSE Cardinality(Prices) + 1
      BY FS_AddElement DEF LevelInv
    <3> QED
      BY <3>2, <3>4, <3>5 DEF LevelInv
  <2>4. CASE ~book[i].listed
    <3>1. Selected' = Selected /\ level' = level
      BY <1>1, <2>1, <2>2, <2>4 DEF Selected, Listed, Collect
    <3>2. Prices' = Prices
      BY <2>1, <3>1 DEF Prices
    <3> QED
      BY <3>1, <3>2 DEF LevelInv
  <2> QED
    BY <2>3, <2>4
<1>2. CASE Compare
  BY <1>2, ComparePrices DEF Compare, LevelInv
<1>3. CASE ~Collect /\ ~Compare
  BY <1>3, SameArray DEF LevelInv
<1> QED
  BY <1>1, <1>2, <1>3

\* What the lines are computed from does not change after the sort.
LEMMA SameLines ==
    ASSUME UNCHANGED <<book, matched>>
    PROVE  /\ n' = n /\ \A a : price(a)' = price(a) /\ quantity(a)' = quantity(a)
           /\ \A a : Before(a)' = Before(a)
           /\ \A x : LineOf(x)' = LineOf(x)
           /\ \A x : Above(x)' = Above(x)
           /\ \A s : LinesFor(s)' = LinesFor(s)
           /\ \A s : Sum(s)' = Sum(s)
<1>0. Listed' = Listed /\ \A x : At(x)' = At(x)
  BY DEF Listed, At
<1>1. n' = n /\ \A a : price(a)' = price(a) /\ quantity(a)' = quantity(a)
  BY DEF n, price, quantity
<1>2. \A s : Sum(s)' = Sum(s)
  BY DEF Sum
<1>3. \A a : Before(a)' = Before(a)
  BY DEF Before, price, n
<1>4. \A x : LineOf(x)' = LineOf(x)
  BY DEF LineOf, At, Sum, Listed
<1>5. \A s : LinesFor(s)' = LinesFor(s)
  BY DEF LinesFor, LineOf, At, Sum, Listed, price
<1>6. \A x : Above(x)' = Above(x)
  BY DEF Above, price, n
<1> QED
  BY <1>1, <1>2, <1>3, <1>4, <1>5, <1>6

\* Sums and counts of orders of the book.
LEMMA OneMoreOrder ==
    ASSUME Types, NEW ps, ps \subseteq DOMAIN book, NEW q \in DOMAIN book, q \notin ps
    PROVE  /\ Sum(ps) \in Int /\ Cardinality(ps) \in Nat
           /\ Sum(ps \cup {q}) = Sum(ps) + book[q].quantity
           /\ Cardinality(ps \cup {q}) = Cardinality(ps) + 1
<1> DEFINE f == [p \in DOMAIN book |-> book[p].quantity]
<1>1. IsFiniteSet(DOMAIN book)
  <2>1. DOMAIN book = 1..Len(book) /\ Len(book) \in Nat
    BY DEF Types
  <2> QED
    BY <2>1, FS_Interval
<1>2. IsFiniteSet(ps)
  BY <1>1, FS_Subset
<1>3. \A p \in DOMAIN book : f[p] = book[p].quantity /\ f[p] \in Int
  <2>1. \A o \in BookOrder : o.quantity \in Int
    <3>1. \A o \in [unit_price : Price, quantity : Units, listed : {TRUE}] : o.quantity \in Units
      OBVIOUS
    <3>2. \A o \in [unit_price : {0}, quantity : {0}, listed : {FALSE}] : o.quantity = 0
      OBVIOUS
    <3>3. 0 \in Int /\ \A u \in Units : u \in Int
      BY ReportAssumption
    <3> QED
      BY <3>1, <3>2, <3>3, ZenonT(20) DEF BookOrder
  <2>2. \A p \in DOMAIN book : book[p] \in BookOrder
    BY DEF Types
  <2> QED
    BY <2>1, <2>2
<1>4. \A s : Sum(s) = SumFunctionOnSet(f, s)
  BY DEF Sum
<1> HIDE DEF f
<1>5. \A p \in ps : f[p] \in Int
  BY <1>3
<1>6. SumFunctionOnSet(f, ps) \in Int
  BY <1>2, <1>5, SumType
<1>7. SumFunctionOnSet(f, ps \cup {q}) = SumFunctionOnSet(f, ps) + f[q]
  BY <1>2, <1>3, <1>5, SumAdd
<1>8. Cardinality(ps) \in Nat /\ Cardinality(ps \cup {q}) = Cardinality(ps) + 1
  BY <1>2, FS_AddElement, FS_CardinalityType
<1> QED
  BY <1>3, <1>4, <1>6, <1>7, <1>8

\* What is known in the grouping loop.
LEMMA GroupFacts ==
    ASSUME ReportInv, SortInv, GroupInv, pc = "group"
    PROVE  /\ Types /\ n \in Nat /\ DOMAIN matched = 1..n /\ i \in 1..n
           /\ \A a \in 1..n : price(a) \in Nat /\ quantity(a) \in Nat /\ matched[a] \in DOMAIN book
           /\ \A a, b \in 1..n : a < b => price(a) >= price(b)
           /\ \A a, b \in 1..n : matched[a] = matched[b] => a = b
           /\ \A x : At(x) = {matched[b] : b \in {b \in 1..n : price(b) = x}}
<1>1. Types /\ Permuted /\ n \in Nat /\ DOMAIN matched = 1..n /\ i \in 1..n
      /\ \A a \in 1..n : price(a) \in Nat /\ quantity(a) \in Nat /\ matched[a] \in DOMAIN book
  BY Facts DEF ReportInv, GroupInv
<1>2. \A a, b \in 1..n : a < b => price(a) >= price(b)
  <2> SUFFICES ASSUME NEW a \in 1..n, NEW b \in 1..n, a < b PROVE price(a) >= price(b)
    OBVIOUS
  <2>1. ~OutOfOrder(a, b) /\ sort = "orderSortReverse"
    BY DEF SortInv, GroupInv
  <2>2. price(a) \in Nat /\ price(b) \in Nat
    BY <1>1
  <2> QED
    BY <2>1, <2>2 DEF OutOfOrder
<1>3. \A a, b \in 1..n : matched[a] = matched[b] => a = b
  BY <1>1, ZenonT(20) DEF Permuted
<1>4. Listed = {matched[a] : a \in 1..n}
  BY <1>1 DEF Permuted, Selected
<1>5. \A x : At(x) = {matched[b] : b \in {b \in 1..n : price(b) = x}}
  BY <1>4 DEF At, price
<1> QED
  BY <1>1, <1>2, <1>3, <1>5

\* The line printed for the last order of a level.
LEMMA LineIsExact ==
    ASSUME ReportInv, SortInv, GroupInv, pc = "group", i < n => price(i) # price(i + 1)
    PROVE  Line(i) = LineOf(price(i))
<1>1. /\ Types /\ n \in Nat /\ DOMAIN matched = 1..n /\ i \in 1..n
      /\ \A a \in 1..n : price(a) \in Nat /\ quantity(a) \in Nat /\ matched[a] \in DOMAIN book
      /\ \A a, b \in 1..n : a < b => price(a) >= price(b)
      /\ \A a, b \in 1..n : matched[a] = matched[b] => a = b
      /\ \A x : At(x) = {matched[b] : b \in {b \in 1..n : price(b) = x}}
  BY GroupFacts, ZenonT(20)
<1>2. \A b \in 1..n : price(b) = price(i) => b = i \/ b < i
  <2> SUFFICES ASSUME NEW b \in 1..n, price(b) = price(i), i < b PROVE FALSE
    BY <1>1
  <2>1. i + 1 \in 1..n /\ i < n /\ (b = i + 1 \/ i + 1 < b)
    BY <1>1
  <2>2. price(i) >= price(i + 1) /\ price(i + 1) >= price(b)
    BY <1>1, <2>1
  <2>3. price(i) \in Nat /\ price(i + 1) \in Nat
    BY <1>1, <2>1
  <2> QED
    BY <2>1, <2>2, <2>3
<1>3. At(price(i)) = Before(i) \cup {matched[i]}
  BY <1>1, <1>2 DEF Before
<1>4. matched[i] \notin Before(i) /\ Before(i) \subseteq DOMAIN book
  BY <1>1 DEF Before
<1>5. /\ Sum(Before(i)) \in Int /\ Cardinality(Before(i)) \in Nat
      /\ Sum(At(price(i))) = Sum(Before(i)) + quantity(i)
      /\ Cardinality(At(price(i))) = Cardinality(Before(i)) + 1
  BY <1>1, <1>3, <1>4, OneMoreOrder, ZenonT(20) DEF quantity
<1>6. /\ matching_orders_count = Cardinality(Before(i))
      /\ matching_orders_total_quantity = Sum(Before(i))
  BY DEF GroupInv
<1>7. quantity(i) \in Nat
  BY <1>1
<1>8. Line(i) = [unit_price |-> price(i), quantity |-> matching_orders_total_quantity + quantity(i),
                 orders |-> matching_orders_count + 1]
  BY <1>5, <1>6, <1>7 DEF Line
<1> QED
  BY <1>5, <1>6, <1>8, ZenonT(20) DEF LineOf

\* A line appended below those printed.
LEMMA LineAppended ==
    ASSUME Types, Decreasing, NEW x \in Nat, NEW line \in LineType, line.unit_price = x,
           \A a \in DOMAIN lines : lines[a].unit_price > x,
           lines' = Append(lines, line)
    PROVE  Decreasing' /\ Printed' = Printed \cup {line}
<1> DEFINE m == Len(lines)
<1>0. lines \in Seq(LineType)
  BY DEF Types
<1>1. /\ m \in Nat /\ DOMAIN lines = 1..m /\ DOMAIN lines' = 1..(m + 1)
      /\ \A a \in 1..m : lines'[a] = lines[a] /\ lines[a] \in LineType
  BY <1>0
<1>2. lines'[m + 1] = line
  BY <1>0
<1> HIDE DEF m
<1>3. \A a \in 1..m : lines[a].unit_price \in Nat
  BY <1>1 DEF LineType
<1>4. Decreasing'
  <2> SUFFICES ASSUME NEW a \in 1..(m + 1), NEW b \in 1..(m + 1), a < b
               PROVE  lines'[a].unit_price > lines'[b].unit_price
    BY <1>1 DEF Decreasing
  <2>1. a \in 1..m /\ (b \in 1..m \/ b = m + 1)
    BY <1>1
  <2> QED
    BY <1>1, <1>2, <2>1 DEF Decreasing
<1>5. Printed' = Printed \cup {line}
  <2>1. 1..(m + 1) = (1..m) \cup {m + 1}
    BY <1>1
  <2> QED
    BY <1>1, <1>2, <2>1 DEF Printed
<1> QED
  BY <1>4, <1>5

\* A line below those printed so far.
LEMMA NextLine ==
    ASSUME ReportInv, SortInv, GroupInv, pc = "group", i < n => price(i) # price(i + 1),
           lines' = Append(lines, Line(i))
    PROVE  Decreasing' /\ Printed' = LinesFor(Above(price(i))) \cup {LineOf(price(i))}
<1>1. Line(i) = LineOf(price(i))
  BY LineIsExact
<1>2. /\ Types /\ i \in 1..n
      /\ \A a \in 1..n : price(a) \in Nat /\ quantity(a) \in Nat
  BY GroupFacts
<1>3. Line(i) \in LineType
  BY <1>2 DEF Line, LineType, Types
<1>4. Line(i).unit_price = price(i) /\ price(i) \in Nat
  BY <1>1, <1>2 DEF LineOf
<1>5. Decreasing /\ Printed = LinesFor(Above(price(i)))
  BY DEF GroupInv
<1>6. ASSUME NEW a \in DOMAIN lines PROVE lines[a].unit_price > price(i)
  <2>1. lines[a] \in Printed
    BY DEF Printed
  <2>2. PICK b \in Above(price(i)) : lines[a] = LineOf(price(b))
    BY <1>5, <2>1 DEF LinesFor
  <2>3. lines[a].unit_price = price(b)
    BY <2>2 DEF LineOf
  <2> QED
    BY <2>2, <2>3 DEF Above
<1> DEFINE line == Line(i)
           x == price(i)
<1>7. line \in LineType /\ x \in Nat /\ line.unit_price = x /\ lines' = Append(lines, line)
      /\ \A a \in DOMAIN lines : lines[a].unit_price > x
  BY <1>3, <1>4, <1>6
<1> HIDE DEF line, x
<1>8. Decreasing' /\ Printed' = Printed \cup {line}
  BY <1>2, <1>5, <1>7, LineAppended
<1> QED
  BY <1>1, <1>5, <1>8 DEF line, x

\* Grouping adds up the orders of a level and prints it with its last order.
LEMMA GroupKeeps ==
    ASSUME ReportInv, SortInv, GroupInv, [RNext]_rvars
    PROVE  GroupInv'
<1>t. Types /\ n \in Nat /\ i \in Nat \ {0} /\ n = Len(matched) /\ DOMAIN matched = 1..n
      /\ \A a \in 1..n : price(a) \in Nat
  BY Facts DEF ReportInv, Types, n
<1>1. CASE Collect \/ Compare \/ NextPlace
  <2>1. /\ pc \in {"collect", "sort"} /\ pc' \in {"collect", "sort"}
        /\ UNCHANGED <<matching_orders_count, matching_orders_total_quantity, lines>>
    BY <1>1 DEF Collect, Compare, NextPlace, totals
  <2> QED
    BY <2>1 DEF GroupInv
<1>2. CASE CollectDone
  <2>1. /\ pc = "collect" /\ pc' \in {"sort", "done"} /\ (pc' = "done" => matched = <<>>)
        /\ matched' = matched
        /\ UNCHANGED <<matching_orders_count, matching_orders_total_quantity, lines>>
    BY <1>2 DEF CollectDone, totals
  <2>2. lines' = <<>>
    BY <2>1 DEF GroupInv
  <2>3. CASE pc' = "done"
    <3>1. n' = 0
      BY <2>1, <2>3, <1>t DEF n
    <3>2. LinesFor(1..n)' = {}
      BY <3>1 DEF LinesFor
    <3>3. Printed' = {} /\ Decreasing'
      BY <2>2 DEF Printed, Decreasing
    <3> QED
      BY <2>3, <3>2, <3>3 DEF GroupInv
  <2>4. CASE pc' = "sort"
    BY <2>1, <2>4 DEF GroupInv
  <2> QED
    BY <2>1, <2>3, <2>4
<1>3. CASE SortDone
  <2>1. /\ pc = "sort" /\ i > n /\ i' = 1
        /\ pc' = (IF sort = "orderSort" THEN "done" ELSE "group")
        /\ UNCHANGED <<book, sort, matched, lines,
                       matching_orders_count, matching_orders_total_quantity>>
    BY <1>3 DEF SortDone, totals, n
  <2>2. CASE sort = "orderSort"
    BY <2>1, <2>2 DEF GroupInv
  <2>3. CASE sort # "orderSort"
    <3>1. pc' = "group" /\ sort = "orderSortReverse" /\ sort' = sort
      BY <2>1, <2>3, <1>t DEF Types
    <3>2. 1 \in 1..n
      BY <2>1, <1>t DEF ReportInv, FirstPlace
    <3>3. \A b \in 1..n : price(b) <= price(1)
      <4> SUFFICES ASSUME NEW b \in 1..n PROVE price(b) <= price(1)
        OBVIOUS
      <4>1. b = 1 \/ 1 < b
        OBVIOUS
      <4>2. 1 < b => ~OutOfOrder(1, b)
        BY <2>1, <3>2, <1>t DEF SortInv
      <4>3. price(1) \in Nat /\ price(b) \in Nat
        BY <3>2, <1>t
      <4> QED
        BY <3>1, <4>1, <4>2, <4>3 DEF OutOfOrder
    <3>4. Before(1) = {} /\ Above(price(1)) = {}
      <4>1. \A b \in 1..n : ~(b < 1) /\ ~(price(b) > price(1))
        BY <3>2, <3>3, <1>t
      <4> QED
        BY <4>1 DEF Before, Above
    <3>5. Cardinality({}) = 0 /\ Sum({}) = 0
      BY FS_EmptySet, SumEmpty DEF Sum
    <3>6. /\ n' = n /\ Before(i)' = {} /\ Above(price(i))' = {}
          /\ LinesFor(Above(price(i)))' = {} /\ Sum(Before(i))' = 0
      <4>1. n' = n /\ Before(i)' = Before(1) /\ Above(price(i))' = Above(price(1))
        BY <2>1 DEF n, Before, Above, price
      <4>2. Above(price(i))' = {} /\ Before(i)' = {}
        BY <3>4, <4>1
      <4>3. LinesFor(Above(price(i)))' = {}
        BY <4>2 DEF LinesFor
      <4>4. Sum(Before(i))' = 0
        BY <4>2, SumEmpty DEF Sum
      <4> QED
        BY <4>1, <4>2, <4>3, <4>4
    <3>7. Printed' = {} /\ Decreasing'
      BY <2>1 DEF Printed, Decreasing, GroupInv
    <3>8. matching_orders_count' = 0 /\ matching_orders_total_quantity' = 0
      BY <2>1 DEF GroupInv
    <3> QED
      BY <2>1, <3>1, <3>2, <3>5, <3>6, <3>7, <3>8, ZenonT(20) DEF GroupInv
  <2> QED
    BY <2>2, <2>3
<1>g. ASSUME pc = "group", UNCHANGED <<book, matched, sort>>
      PROVE  /\ \A a \in 1..n : quantity(a) \in Nat /\ matched[a] \in DOMAIN book
             /\ \A a, b \in 1..n : a < b => price(a) >= price(b)
             /\ \A a, b \in 1..n : matched[a] = matched[b] => a = b
             /\ sort' = "orderSortReverse" /\ n' = n /\ i \in 1..n
             /\ LinesFor(1..n)' = LinesFor(1..n)
             /\ i' \in 1..n =>
                  /\ Before(i)' = Before(i') /\ Sum(Before(i))' = Sum(Before(i'))
                  /\ price(i)' = price(i')
                  /\ LinesFor(Above(price(i)))' = LinesFor(Above(price(i')))
  <2>1. /\ \A a \in 1..n : quantity(a) \in Nat /\ matched[a] \in DOMAIN book
        /\ \A a, b \in 1..n : a < b => price(a) >= price(b)
        /\ \A a, b \in 1..n : matched[a] = matched[b] => a = b
        /\ i \in 1..n
    BY <1>g, GroupFacts
  <2>2. sort' = "orderSortReverse"
    BY <1>g DEF GroupInv
  <2>3. /\ n' = n /\ LinesFor(1..n)' = LinesFor(1..n)
        /\ Before(i)' = Before(i') /\ Sum(Before(i))' = Sum(Before(i'))
        /\ price(i)' = price(i')
        /\ LinesFor(Above(price(i)))' = LinesFor(Above(price(i')))
    BY <1>g, SameLines
  <2> QED
    BY <2>1, <2>2, <2>3
<1>4. CASE SameLevel
  <2>1. /\ pc = "group" /\ pc' = "group" /\ i < n /\ price(i) = price(i + 1) /\ i' = i + 1
        /\ matching_orders_count' = matching_orders_count + 1
        /\ matching_orders_total_quantity' = matching_orders_total_quantity + quantity(i)
        /\ UNCHANGED <<book, sort, matched, lines>>
    BY <1>4 DEF SameLevel, n
  <2>2. i + 1 \in 1..n /\ i \in 1..n
    BY <2>1, <1>t
  <2>3. Before(i + 1) = Before(i) \cup {matched[i]}
    <3>1. \A b \in 1..n : b < i + 1 <=> b < i \/ b = i
      BY <2>2
    <3> QED
      BY <2>1, <2>2, <3>1 DEF Before
  <2>4. matched[i] \notin Before(i) /\ Before(i) \subseteq DOMAIN book /\ matched[i] \in DOMAIN book
    BY <1>g, <2>1, <2>2 DEF Before
  <2>5. /\ Sum(Before(i + 1)) = Sum(Before(i)) + quantity(i)
        /\ Cardinality(Before(i + 1)) = Cardinality(Before(i)) + 1
    BY <1>t, <2>3, <2>4, OneMoreOrder DEF quantity
  <2>6. Printed' = Printed /\ Decreasing' = Decreasing
    BY <2>1 DEF Printed, Decreasing
  <2>7. /\ matching_orders_count = Cardinality(Before(i))
        /\ matching_orders_total_quantity = Sum(Before(i))
        /\ Printed = LinesFor(Above(price(i))) /\ Decreasing
    BY <2>1 DEF GroupInv
  <2>8. /\ sort' = "orderSortReverse" /\ n' = n
        /\ Before(i)' = Before(i + 1) /\ Sum(Before(i))' = Sum(Before(i + 1))
        /\ LinesFor(Above(price(i)))' = LinesFor(Above(price(i)))
    BY <1>g, <2>1, <2>2
  <2> QED
    BY <2>1, <2>2, <2>5, <2>6, <2>7, <2>8 DEF GroupInv
<1>5. CASE EndOfLevel
  <2>1. /\ pc = "group" /\ pc' = "group" /\ i < n /\ price(i) # price(i + 1) /\ i' = i + 1
        /\ matching_orders_count' = 0 /\ matching_orders_total_quantity' = 0
        /\ lines' = Append(lines, Line(i))
        /\ UNCHANGED <<book, sort, matched>>
    BY <1>5 DEF EndOfLevel, n
  <2>2. i + 1 \in 1..n /\ i \in 1..n
    BY <2>1, <1>t
  <2>3. price(i) > price(i + 1) /\ price(i) \in Nat /\ price(i + 1) \in Nat
    <3>1. price(i) >= price(i + 1)
      BY <1>g, <2>1, <2>2
    <3>2. price(i) \in Nat /\ price(i + 1) \in Nat
      BY <1>t, <2>2
    <3> QED
      BY <2>1, <3>1, <3>2
  <2>4. \A b \in 1..n : (b <= i => price(b) >= price(i)) /\ (b > i => price(b) <= price(i + 1))
    <3> SUFFICES ASSUME NEW b \in 1..n
                 PROVE  (b <= i => price(b) >= price(i)) /\ (b > i => price(b) <= price(i + 1))
      OBVIOUS
    <3>1. (b <= i => b < i \/ b = i) /\ (b > i => i + 1 < b \/ b = i + 1)
      BY <2>2
    <3>2. price(b) \in Nat
      BY <1>t
    <3> QED
      BY <1>g, <2>1, <2>2, <2>3, <3>1, <3>2
  <2>5. Before(i + 1) = {}
    <3>1. \A b \in 1..n : b < i + 1 => price(b) # price(i + 1)
      BY <1>t, <2>2, <2>3, <2>4
    <3> QED
      BY <3>1 DEF Before
  <2>6. \A b \in 1..n : price(b) > price(i + 1) <=> price(b) > price(i) \/ price(b) = price(i)
    BY <1>t, <2>2, <2>3, <2>4
  <2>7. LinesFor(Above(price(i + 1))) = LinesFor(Above(price(i))) \cup {LineOf(price(i))}
    BY <2>2, <2>6 DEF LinesFor, Above
  <2>8. Decreasing' /\ Printed' = LinesFor(Above(price(i + 1)))
    BY <2>1, <2>7, NextLine, ZenonT(20)
  <2>9. /\ sort' = "orderSortReverse" /\ n' = n
        /\ Before(i)' = {} /\ Sum(Before(i))' = Sum({})
        /\ LinesFor(Above(price(i)))' = LinesFor(Above(price(i + 1)))
    BY <1>g, <2>1, <2>2, <2>5, ZenonT(20)
  <2>10. Cardinality({}) = 0 /\ Sum({}) = 0
    BY FS_EmptySet, SumEmpty DEF Sum
  <2> QED
    BY <2>1, <2>2, <2>8, <2>9, <2>10, ZenonT(20) DEF GroupInv
<1>6. CASE LastLevel
  <2>1. /\ pc = "group" /\ pc' = "done" /\ i = n /\ i' = i
        /\ lines' = Append(lines, Line(i))
        /\ UNCHANGED <<book, sort, matched>>
    BY <1>6 DEF LastLevel, n
  <2>2. i \in 1..n /\ ~(i < n)
    BY <2>1, <1>t
  <2>3. \A b \in 1..n : price(b) > price(i) \/ price(b) = price(i)
    <3> SUFFICES ASSUME NEW b \in 1..n PROVE price(b) > price(i) \/ price(b) = price(i)
      OBVIOUS
    <3>1. b < i \/ b = i
      BY <2>1, <2>2
    <3>2. price(b) \in Nat /\ price(i) \in Nat
      BY <1>t, <2>2
    <3> QED
      BY <1>g, <2>1, <2>2, <3>1, <3>2
  <2>4. LinesFor(1..n) = LinesFor(Above(price(i))) \cup {LineOf(price(i))}
    BY <2>2, <2>3 DEF LinesFor, Above
  <2>5. Decreasing' /\ Printed' = LinesFor(1..n)
    BY <2>1, <2>2, <2>4, NextLine, ZenonT(20)
  <2>6. LinesFor(1..n)' = LinesFor(1..n)
    BY <1>g, <2>1
  <2> QED
    BY <2>1, <2>5, <2>6 DEF GroupInv
<1>7. CASE UNCHANGED rvars
  <2>1. /\ UNCHANGED <<book, sort, pc, matched, level, i, j, lines,
                       matching_orders_count, matching_orders_total_quantity>>
    BY <1>7 DEF rvars, totals
  <2>2. /\ n' = n /\ Before(i)' = Before(i) /\ Sum(Before(i))' = Sum(Before(i))
        /\ LinesFor(1..n)' = LinesFor(1..n)
        /\ LinesFor(Above(price(i)))' = LinesFor(Above(price(i)))
    BY <2>1, SameLines
  <2>3. Printed' = Printed /\ Decreasing' = Decreasing
    BY <2>1 DEF Printed, Decreasing
  <2> QED
    BY <2>1, <2>2, <2>3 DEF GroupInv
<1> QED
  BY <1>1, <1>2, <1>3, <1>4, <1>5, <1>6, <1>7 DEF RNext, Returned

\* The inductive invariant of the report.
ExactInv == ReportInv /\ SortInv /\ LevelInv /\ GroupInv

\* It holds at the start and every step of the report keeps it.
LEMMA ExactAlways == RSpec => []ExactInv
<1>1. RInit => SortInv /\ LevelInv /\ GroupInv
  <2> SUFFICES ASSUME RInit PROVE SortInv /\ LevelInv /\ GroupInv
    OBVIOUS
  <2>1. PICK m \in 0..MaxBook : book \in [1..m -> BookOrder]
    BY DEF RInit
  <2>2. pc = "collect" /\ i = 1 /\ level = 0
    BY DEF RInit
  <2>3. Prices = {}
    BY <2>1, <2>2 DEF Prices, Selected, Listed
  <2> QED
    BY <2>2, <2>3, FS_EmptySet DEF RInit, SortInv, LevelInv, GroupInv
<1>2. ReportInv /\ SortInv /\ LevelInv /\ GroupInv /\ [RNext]_rvars
        => SortInv' /\ LevelInv' /\ GroupInv'
  BY SortKeeps, LevelKeeps, GroupKeeps
<1> QED
  BY <1>1, <1>2, ReportAlways, PTL DEF RSpec, ExactInv

\* As many lines as prices: each line has a price of its own.
LEMMA AsManyLines ==
    ASSUME lines \in Seq(LineType), Decreasing, NEW S,
           {lines[a].unit_price : a \in DOMAIN lines} = S
    PROVE  Len(lines) = Cardinality(S)
<1> DEFINE m == Len(lines)
           f == [a \in 1..m |-> lines[a].unit_price]
<1>1. m \in Nat /\ DOMAIN lines = 1..m
  OBVIOUS
<1>2. \A a \in 1..m : lines[a].unit_price \in Nat
  <2>1. \A l \in LineType : l.unit_price \in Nat
    BY DEF LineType
  <2>2. \A a \in 1..m : lines[a] \in LineType
    BY <1>1
  <2> QED
    BY <2>1, <2>2
<1>3. \A a, b \in 1..m : f[a] = f[b] => a = b
  <2> SUFFICES ASSUME NEW a \in 1..m, NEW b \in 1..m, f[a] = f[b] PROVE a = b
    BY <1>1, ZenonT(20)
  <2>1. lines[a].unit_price = lines[b].unit_price /\ lines[a].unit_price \in Nat
    BY <1>2
  <2>2. ~(a < b) /\ ~(b < a)
    BY <1>1, <2>1 DEF Decreasing
  <2> QED
    BY <1>1, <2>2
<1>4. f \in [1..m -> S] /\ \A s \in S : \E a \in 1..m : f[a] = s
  BY <1>1
<1> HIDE DEF f
<1>5. f \in Bijection(1..m, S)
  BY <1>3, <1>4 DEF Bijection, Injection, Surjection, IsInjective
<1>6. IsFiniteSet(1..m) /\ Cardinality(1..m) = m
  BY <1>1, FS_Interval
<1> QED
  BY <1>5, <1>6, FS_Bijection DEF ExistsBijection

\* The report of the order book, as ReportExact says it: one line for each
\* price, the highest first, with the number and the units of the orders at
\* that price, and as many lines as levels announced, for every book.
THEOREM ReportIsExact == RSpec => []ReportExact
<1>1. ExactInv => ReportExact
  <2> SUFFICES ASSUME ExactInv, pc = "done", sort = "orderSortReverse"
               PROVE  /\ level = Len(lines)
                      /\ Decreasing
                      /\ Printed = {LineOf(book[p].unit_price) : p \in Listed}
    BY DEF ReportExact, Decreasing, Printed, LineOf
  <2>1. Types /\ Permuted /\ LevelInv /\ Decreasing /\ Printed = LinesFor(1..n)
    BY DEF ExactInv, ReportInv, GroupInv
  <2>2. DOMAIN matched = 1..n
    BY <2>1, Facts
  <2>3. Selected = Listed
    BY DEF Selected
  <2>4. Listed = {matched[a] : a \in 1..n}
    BY <2>1, <2>2, <2>3 DEF Permuted
  <2>5. LinesFor(1..n) = {LineOf(book[p].unit_price) : p \in Listed}
    <3>1. \A a \in 1..n : matched[a] \in Listed
      BY <2>4
    <3>2. \A p \in Listed : \E a \in 1..n : p = matched[a]
      BY <2>4
    <3> QED
      BY <3>1, <3>2 DEF LinesFor, price
  <2>6. \A x : LineOf(x).unit_price = x
    BY DEF LineOf
  <2>7. {lines[a].unit_price : a \in DOMAIN lines} = Prices
    <3>1. \A a \in DOMAIN lines : \E p \in Listed : lines[a] = LineOf(book[p].unit_price)
      BY <2>1, <2>5 DEF Printed
    <3>2. \A p \in Listed : \E a \in DOMAIN lines : lines[a] = LineOf(book[p].unit_price)
      BY <2>1, <2>5 DEF Printed
    <3> QED
      BY <2>3, <2>6, <3>1, <3>2 DEF Prices
  <2>8. Len(lines) = Cardinality(Prices)
    BY <2>1, <2>7, AsManyLines DEF Types
  <2> QED
    BY <2>1, <2>5, <2>8 DEF LevelInv
<1> QED
  BY <1>1, ExactAlways, PTL
=============================================================================
