------------------------- MODULE AzureQueriesProofs -------------------------
(***************************************************************************)
(* What holds of the assertions on listings, secrets and caches for every  *)
(* length of the collections and the pages, and any number of changes.     *)
(***************************************************************************)
EXTENDS AzureQueries, FiniteSetTheorems, WellFoundedInduction, TLAPS

\* Whether the link leads to a page before an item or at it.
Behind(i) == IF check \in ByOffset THEN Place(i, items) > link ELSE i > link

\* Between two pages: what has been there all the time has been appended, is on the
\* page, or follows; and nothing that has been appended or is on the page follows.
ListInv ==
  Reading =>
    /\ NoneMissed /\ link = 0 => always \subseteq results \cup page
    /\ NoneMissed /\ link # 0 => \A i \in always : i \in results \cup page \/ Behind(i)
    /\ NoneTwice => length = Cardinality(results) /\ results \cap page = {}
    /\ NoneTwice /\ link # 0 =>
         \A i \in results \cup page : (i \notin items /\ check \in ByOffset) \/ ~Behind(i)
    /\ check \in FirstPage /\ Cardinality(ever) <= PageSize => always \subseteq results \cup page

\* A collection nobody changes.
StillInv == changed = {} => always = ever

SecretInv ==
  /\ \A s \in Secret : read[s] \in {NoValue, Output}
  /\ Asserting(Secrets, "comparing") => \A s \in Secret : read[s] = Output

IInv ==
  /\ TypeOK /\ ListInv /\ StillInv /\ SecretInv
  /\ ListingComplete /\ PassIsJustified /\ OthersDoNotInterfere

-----------------------------------------------------------------------------
(* Pages.                                                                  *)

LEMMA MaxExists ==
  ASSUME NEW S \in SUBSET Nat, IsFiniteSet(S), S # {}
  PROVE  \E m \in S : \A j \in S : j <= m
<1> DEFINE Above(i) == {j \in S : j > i}
           Aboves == {Above(i) : i \in S}
<1>1. Aboves \subseteq FiniteSubsetsOf(S)
  BY FS_Subset DEF FiniteSubsetsOf
<1>2. Aboves # {}
  OBVIOUS
<1>3. IsWellFoundedOn(StrictSubsetOrdering(S), FiniteSubsetsOf(S))
  BY FS_StrictSubsetOrderingWellFounded
<1>4. PICK U \in Aboves : \A V \in Aboves : <<V, U>> \notin StrictSubsetOrdering(S)
  <2> HIDE DEF Aboves
  <2> QED BY <1>1, <1>2, <1>3, WFMin
<1>5. PICK m \in S : U = Above(m)
  OBVIOUS
<1>6. ASSUME NEW j \in S, j > m
      PROVE  FALSE
  <2>1. S \subseteq Nat /\ (\A x \in S : x > j => x > m) /\ ~(j > j)
    BY <1>6
  <2>2. Above(j) \subseteq Above(m) /\ j \in Above(m) /\ j \notin Above(j)
    BY <1>6, <2>1
  <2>3. <<Above(j), Above(m)>> \in StrictSubsetOrdering(S)
    BY <2>2 DEF StrictSubsetOrdering
  <2> QED BY <1>4, <1>5, <2>3
<1> QED BY <1>6

LEMMA MinExists ==
  ASSUME NEW S \in SUBSET Nat, IsFiniteSet(S), S # {}
  PROVE  \E m \in S : \A j \in S : m <= j
<1> DEFINE Below(i) == {j \in S : j < i}
           Belows == {Below(i) : i \in S}
<1>1. Belows \subseteq FiniteSubsetsOf(S)
  BY FS_Subset DEF FiniteSubsetsOf
<1>2. Belows # {}
  OBVIOUS
<1>3. IsWellFoundedOn(StrictSubsetOrdering(S), FiniteSubsetsOf(S))
  BY FS_StrictSubsetOrderingWellFounded
<1>4. PICK U \in Belows : \A V \in Belows : <<V, U>> \notin StrictSubsetOrdering(S)
  <2> HIDE DEF Belows
  <2> QED BY <1>1, <1>2, <1>3, WFMin
<1>5. PICK m \in S : U = Below(m)
  OBVIOUS
<1>6. ASSUME NEW j \in S, j < m
      PROVE  FALSE
  <2>1. S \subseteq Nat /\ (\A x \in S : x < j => x < m) /\ ~(j < j)
    BY <1>6
  <2>2. Below(j) \subseteq Below(m) /\ j \in Below(m) /\ j \notin Below(j)
    BY <1>6, <2>1
  <2>3. <<Below(j), Below(m)>> \in StrictSubsetOrdering(S)
    BY <2>2 DEF StrictSubsetOrdering
  <2> QED BY <1>4, <1>5, <2>3
<1> QED BY <1>6

LEMMA ItemsFinite ==
  ASSUME NEW S \in SUBSET Item
  PROVE  /\ IsFiniteSet(S) /\ Cardinality(S) \in Nat
         /\ S \in SUBSET Nat /\ \A i \in S : i > 0
<1>1. IsFiniteSet(Item) /\ Item \subseteq Nat /\ \A i \in Item : i > 0
  BY QueryAssumption, FS_Interval DEF Item
<1> QED BY <1>1, FS_Subset, FS_CardinalityType

LEMMA LastOfIsLast ==
  ASSUME NEW S \in SUBSET Item, S # {}
  PROVE  LastOf(S) \in S /\ \A j \in S : j <= LastOf(S)
BY ItemsFinite, MaxExists DEF LastOf

\* Places count the items up to one.
LEMMA Places ==
  ASSUME NEW now \in SUBSET Item
  PROVE  /\ \A i : Place(i, now) \in Nat /\ Place(i, now) <= Cardinality(now)
         /\ \A i, j \in Nat : i <= j => Place(i, now) <= Place(j, now)
         /\ \A i \in Nat, j \in now : i < j => Place(i, now) < Place(j, now)
<1> DEFINE Upto(i) == {k \in now : k <= i}
<1>1. now \in SUBSET Nat /\ IsFiniteSet(now)
  BY ItemsFinite
<1>2. \A i : IsFiniteSet(Upto(i)) /\ Cardinality(Upto(i)) <= Cardinality(now)
  BY <1>1, FS_Subset
<1>3. \A i : Cardinality(Upto(i)) \in Nat /\ Place(i, now) = Cardinality(Upto(i))
  BY <1>2, FS_CardinalityType DEF Place
<1>4. ASSUME NEW i \in Nat, NEW j \in Nat, i <= j
      PROVE  Upto(i) \subseteq Upto(j) /\ Cardinality(Upto(i)) <= Cardinality(Upto(j))
  <2>0. \A k \in Nat : k <= i => k <= j
    BY <1>4
  <2>1. Upto(i) \in SUBSET Upto(j)
    BY <1>1, <2>0
  <2> QED BY <2>1, <1>2, FS_Subset
<1>5. ASSUME NEW i \in Nat, NEW j \in now, i < j
      PROVE  Cardinality(Upto(i)) < Cardinality(Upto(j))
  <2>1. j \in Nat /\ i <= j
    BY <1>1, <1>5
  <2>2. j \in Upto(j) /\ j \notin Upto(i)
    BY <1>5, <2>1
  <2>3. Upto(i) \in SUBSET Upto(j) /\ Upto(i) # Upto(j)
    BY <1>4, <2>1, <2>2
  <2>4. Cardinality(Upto(i)) <= Cardinality(Upto(j)) /\ Cardinality(Upto(i)) # Cardinality(Upto(j))
    BY <1>2, <2>3, FS_Subset
  <2> QED BY <1>3, <2>4
<1> HIDE DEF Upto
<1> QED BY <1>2, <1>3, <1>4, <1>5

\* Creations move items on, and deletions back.
LEMMA PlacesMove ==
  ASSUME NEW now \in SUBSET Item, NEW then \in SUBSET Item, now \subseteq then, NEW i
  PROVE  Place(i, now) <= Place(i, then)
<1>1. {k \in now : k <= i} \in SUBSET {k \in then : k <= i}
  OBVIOUS
<1>2. {k \in then : k <= i} \in SUBSET Item
  OBVIOUS
<1> QED BY <1>1, <1>2, ItemsFinite, FS_Subset DEF Place

\* The items before one are one fewer than its place.
LEMMA OneFewer ==
  ASSUME NEW now \in SUBSET Item, NEW m \in now
  PROVE  LET before == {j \in now : j < m}
         IN  before \in SUBSET Item /\ Cardinality(before) = Place(m, now) - 1
<1> DEFINE before == {j \in now : j < m}
           upto == {j \in now : j <= m}
<1>1. \A j \in Nat, k \in Nat : (j < k <=> j <= k /\ j # k) /\ k <= k
  OBVIOUS
<1>2. now \in SUBSET Nat
  BY ItemsFinite
<1>3. before = upto \ {m} /\ m \in upto
  BY <1>1, <1>2
<1>4. upto \in SUBSET Item /\ before \in SUBSET Item /\ Cardinality(upto) = Place(m, now)
  BY DEF Place
<1> HIDE DEF before, upto
<1>5. Cardinality(before) = Place(m, now) - 1
  BY <1>3, <1>4, ItemsFinite, FS_RemoveElement
<1> QED BY <1>4, <1>5 DEF before

LEMMA PageIsShort ==
  ASSUME NEW now \in SUBSET Item, NEW skip \in Nat
  PROVE  Cardinality(PageAfter(skip, now)) <= PageSize
<1> DEFINE p == PageAfter(skip, now)
<1>1. p \in SUBSET Item /\ p \in SUBSET now /\ PageSize \in Nat
  BY QueryAssumption DEF PageAfter
<1>2. \A i \in p : skip < Place(i, now) /\ Place(i, now) <= skip + PageSize
  BY DEF PageAfter
<1> HIDE DEF p
<1>3. ASSUME p = {}
      PROVE  Cardinality(p) <= PageSize
  <2>1. Cardinality({}) = 0
    BY FS_EmptySet
  <2> QED BY <1>1, <1>3, <2>1
<1>4. ASSUME p # {}
      PROVE  Cardinality(p) <= PageSize
  <2>1. LastOf(p) \in p /\ \A j \in p : j <= LastOf(p)
    BY <1>1, <1>4, LastOfIsLast
  <2>2. PICK m \in p : \A j \in p : m <= j
    BY <1>1, <1>4, ItemsFinite, MinExists
  <2> DEFINE upto == {j \in now : j <= LastOf(p)}
             before == {j \in now : j < m}
  <2>3. upto \in SUBSET Item /\ before \in SUBSET Item /\ now \in SUBSET Nat
    BY ItemsFinite
  <2>4. Cardinality(upto) = Place(LastOf(p), now) /\ Cardinality(before) = Place(m, now) - 1
    BY <1>1, <2>2, OneFewer DEF Place
  <2>5. upto \cap p = p
    BY <1>1, <2>1
  <2>6. before \in SUBSET (upto \ p)
    <3>1. \A j \in before : j <= LastOf(p) /\ j \notin p
      <4>1. \A j \in before : j \in Nat /\ m \in Nat /\ LastOf(p) \in Nat /\ j < m /\ m <= LastOf(p)
        BY <1>1, <2>1, <2>2, <2>3
      <4>2. \A j \in before : j <= LastOf(p) /\ ~(m <= j)
        BY <4>1
      <4> QED BY <2>2, <4>2
    <3> QED BY <3>1
  <2> HIDE DEF upto, before
  <2>7. Cardinality(upto \ p) = Cardinality(upto) - Cardinality(p)
    BY <2>3, <2>5, ItemsFinite, FS_Difference
  <2>8. Cardinality(before) <= Cardinality(upto \ p)
    <3>1. IsFiniteSet(upto \ p)
      BY <2>3, ItemsFinite, FS_Difference
    <3> QED BY <2>6, <3>1, FS_Subset
  <2>9. /\ Place(m, now) > skip /\ Place(LastOf(p), now) <= skip + PageSize
        /\ Place(m, now) \in Nat /\ Place(LastOf(p), now) \in Nat /\ Cardinality(p) \in Nat
    BY <1>1, <1>2, <2>1, <2>2, Places, ItemsFinite
  <2> QED BY <1>1, <2>4, <2>7, <2>8, <2>9
<1> QED BY <1>3, <1>4 DEF p

\* A page is empty only if it is the last one.
LEMMA PageHasItems ==
  ASSUME NEW now \in SUBSET Item, NEW skip \in Nat, Cardinality(now) > skip + PageSize
  PROVE  PageAfter(skip, now) # {}
<1> SUFFICES ASSUME PageAfter(skip, now) = {} PROVE FALSE
  OBVIOUS
<1> DEFINE rest == {i \in now : skip < Place(i, now)}
<1>1. now \in SUBSET Nat /\ Cardinality(now) \in Nat /\ PageSize \in Nat \ {0}
  BY ItemsFinite, QueryAssumption
<1>2. \A i \in rest : Place(i, now) > skip + PageSize
  <2>1. \A i \in now : Place(i, now) \in Nat
    BY Places
  <2>2. \A i \in rest : ~(Place(i, now) <= skip + PageSize)
    BY DEF PageAfter
  <2> QED BY <1>1, <2>1, <2>2
<1>3. rest # {}
  <2>1. now # {}
    BY <1>1, FS_EmptySet
  <2>2. LastOf(now) \in now /\ \A j \in now : j <= LastOf(now)
    BY <2>1, LastOfIsLast
  <2>3. {j \in now : j <= LastOf(now)} = now
    BY <2>2
  <2>4. Place(LastOf(now), now) = Cardinality(now)
    BY <2>3 DEF Place
  <2> QED BY <1>1, <2>2, <2>4
<1>4. PICK m \in rest : \A j \in rest : m <= j
  <2>1. rest \in SUBSET Item
    OBVIOUS
  <2> QED BY <1>3, <2>1, ItemsFinite, MinExists
<1> DEFINE before == {j \in now : j < m}
<1>5. before \in SUBSET Item /\ Cardinality(before) = Place(m, now) - 1
  BY <1>4, OneFewer
<1>6. Cardinality(before) > skip
  <2>1. Place(m, now) \in Nat /\ Place(m, now) > skip + PageSize
    BY <1>2, <1>4, Places
  <2> QED BY <1>1, <1>5, <2>1
<1>7. before # {}
  BY <1>6, FS_EmptySet
<1>8. LastOf(before) \in before /\ \A j \in before : j <= LastOf(before)
  BY <1>5, <1>7, LastOfIsLast
<1>9. {j \in now : j <= LastOf(before)} = before
  <2>1. \A j \in now : j <= LastOf(before) => j < m
    <3>1. LastOf(before) \in Nat /\ m \in Nat /\ LastOf(before) < m
      BY <1>1, <1>4, <1>8
    <3> QED BY <1>1, <3>1
  <2> QED BY <1>8, <2>1
<1>10. Place(LastOf(before), now) > skip
  BY <1>6, <1>9 DEF Place
<1>11. LastOf(before) \in rest /\ LastOf(before) < m
  BY <1>8, <1>10
<1>12. m \in Nat /\ LastOf(before) \in Nat
  BY <1>1, <1>4, <1>8
<1>13. m <= LastOf(before)
  BY <1>4, <1>11
<1> HIDE DEF before, rest
<1> QED BY <1>11, <1>12, <1>13

\* What is read next: all that follows is on the page or behind its link.
LEMMA FetchReadsOn ==
  ASSUME NEW now \in SUBSET Item, NEW skip \in Nat, NEW l, Fetch(l, skip, now)
  PROVE  /\ page' \subseteq now /\ Cardinality(page') <= PageSize /\ link' \in Nat
         /\ \A i \in page' : skip < Place(i, now)
         /\ link' = 0 => \A i \in now : skip < Place(i, now) => i \in page'
         /\ Cardinality(now) <= PageSize => \A i \in now : skip < Place(i, now) => i \in page'
         /\ link' # 0 /\ l \in ByOffset =>
              /\ skip < link'
              /\ \A i \in page' : Place(i, now) <= link'
              /\ \A i \in now : skip < Place(i, now) => i \in page' \/ Place(i, now) > link'
         /\ link' # 0 /\ l \notin ByOffset =>
              /\ link' \in page' /\ \A i \in page' : i <= link'
              /\ \A i \in now : skip < Place(i, now) => i \in page' \/ i > link'
<1>1. /\ page' = {i \in now : skip < Place(i, now) /\ Place(i, now) <= skip + PageSize}
      /\ link' = IF Cardinality(now) <= skip + PageSize THEN 0
                 ELSE IF l \in ByOffset THEN skip + PageSize ELSE LastOf(page')
  BY DEF Fetch, PageAfter
<1>2. PageSize \in Nat \ {0} /\ now \in SUBSET Nat /\ Cardinality(now) \in Nat
  BY QueryAssumption, ItemsFinite
<1>3. \A i \in now : i \in Nat /\ Place(i, now) \in Nat /\ Place(i, now) <= Cardinality(now)
  BY <1>2, Places
<1>4. Cardinality(page') <= PageSize
  BY PageIsShort DEF Fetch
<1>5. CASE Cardinality(now) <= skip + PageSize
  <2>1. link' = 0
    BY <1>1, <1>5
  <2>2. \A i \in now : skip < Place(i, now) => i \in page'
    BY <1>1, <1>2, <1>3, <1>5
  <2> QED BY <1>1, <1>4, <2>1, <2>2
<1>6. CASE ~(Cardinality(now) <= skip + PageSize)
  <2>0. Cardinality(now) > skip + PageSize
    BY <1>2, <1>6
  <2>1. page' # {} /\ page' \in SUBSET Item
    BY <1>1, <2>0, PageHasItems DEF Fetch
  <2>2. LastOf(page') \in page' /\ (\A i \in page' : i <= LastOf(page')) /\ LastOf(page') > 0
    BY <2>1, LastOfIsLast, ItemsFinite
  <2>3. link' = IF l \in ByOffset THEN skip + PageSize ELSE LastOf(page')
    BY <1>1, <1>6
  <2>4. link' \in Nat /\ link' # 0 /\ ~(Cardinality(now) <= PageSize)
    BY <1>1, <1>2, <1>6, <2>2, <2>3
  <2>5. ASSUME l \in ByOffset
        PROVE  /\ skip < link'
               /\ \A i \in page' : Place(i, now) <= link'
               /\ \A i \in now : skip < Place(i, now) => i \in page' \/ Place(i, now) > link'
    BY <1>1, <1>2, <1>3, <2>3, <2>5
  <2>6. ASSUME l \notin ByOffset, NEW i \in now, skip < Place(i, now), i \notin page'
        PROVE  i > link'
    <3>1. Place(i, now) > skip + PageSize /\ Place(LastOf(page'), now) <= skip + PageSize
      BY <1>1, <1>2, <1>3, <2>2, <2>6
    <3>2. LastOf(page') \in now
      BY <1>1, <2>2
    <3>3. ~(Place(i, now) <= Place(LastOf(page'), now))
      <4> DEFINE here == Place(i, now)
                 there == Place(LastOf(page'), now)
      <4>1. here \in Nat /\ there \in Nat /\ here > skip + PageSize /\ there <= skip + PageSize
        BY <1>3, <3>1, <3>2
      <4> HIDE DEF here, there
      <4>2. ~(here <= there)
        BY <1>2, <4>1
      <4> QED BY <4>2 DEF here, there
    <3>4. ~(i <= LastOf(page'))
      BY <1>3, <3>2, <3>3, Places
    <3> QED BY <1>3, <2>3, <2>6, <3>2, <3>4
  <2> QED BY <1>1, <1>4, <2>2, <2>3, <2>4, <2>5, <2>6
<1> QED BY <1>5, <1>6

-----------------------------------------------------------------------------
(* Listings and the assertions on them.                                    *)

LEMMA ListInvariant ==
  ASSUME IInv, NEW l \in Listing, List(l)
  PROVE  IInv'
<1> USE DEF IInv
<1>0. /\ check' = l /\ phase' = "reading" /\ results' = {} /\ length' = 0
      /\ items' \in SUBSET Item /\ always' = items' /\ ever' = items' /\ changed' = {}
      /\ UNCHANGED <<latest, read, entries, changes>>
      /\ l \notin {Secrets, Cache} /\ Fetch(l, 0, items')
  BY QueryAssumption DEF List, NoResults
<1>1. Cardinality({}) = 0 /\ 0 \in Nat
  BY FS_EmptySet
<1>2. \A i \in items' : i \in Nat /\ 0 < Place(i, items')
  <2>1. \A i \in items' : i \in Nat /\ 0 < i
    BY <1>0, ItemsFinite
  <2>2. \A i \in items' : Place(0, items') < Place(i, items') /\ Place(0, items') \in Nat
    BY <1>0, <2>1, Places
  <2>3. \A i \in items' : Place(i, items') \in Nat
    BY <1>0, Places
  <2> QED BY <2>1, <2>2, <2>3
<1>3. /\ page' \subseteq items' /\ Cardinality(page') <= PageSize /\ link' \in Nat
      /\ link' = 0 => items' \subseteq page'
      /\ Cardinality(items') <= PageSize => items' \subseteq page'
      /\ link' # 0 /\ l \in ByOffset =>
           /\ \A i \in page' : Place(i, items') <= link'
           /\ \A i \in items' : i \in page' \/ Place(i, items') > link'
      /\ link' # 0 /\ l \notin ByOffset =>
           /\ \A i \in page' : i <= link'
           /\ \A i \in items' : i \in page' \/ i > link'
  BY <1>0, <1>1, <1>2, FetchReadsOn
<1>4. TypeOK'
  BY <1>0, <1>1, <1>3 DEF TypeOK
<1>5. ListInv'
  <2>1. link' # 0 => \A i \in always' : i \in page' \/ Behind(i)'
    BY <1>0, <1>3 DEF Behind
  <2>2. link' # 0 => \A i \in page' : ~Behind(i)'
    <3>1. \A i \in page' : i \in Nat /\ Place(i, items') \in Nat /\ link' \in Nat
      BY <1>0, <1>2, <1>3, Places
    <3>2. link' # 0 => \A i \in page' :
            IF l \in ByOffset THEN ~(Place(i, items') > link') ELSE ~(i > link')
      BY <1>3, <3>1
    <3> QED BY <1>0, <3>2 DEF Behind
  <2> QED BY <1>0, <1>1, <1>3, <2>1, <2>2 DEF ListInv
<1>6. SecretInv' /\ StillInv'
  BY <1>0 DEF SecretInv, StillInv, Asserting
<1>7. ListingComplete' /\ PassIsJustified' /\ OthersDoNotInterfere'
  BY <1>0 DEF ListingComplete, PassIsJustified, OthersDoNotInterfere, Returned, Asserting
<1> QED BY <1>4, <1>5, <1>6, <1>7

\* What is appended is counted, and counted once unless it came before.
LEMMA AppendCounts ==
  ASSUME TypeOK, ListInv, Reading, Append
  PROVE  /\ results' \subseteq Item /\ results' \subseteq ever
         /\ length' \in Nat /\ length' >= Cardinality(results')
         /\ NoneTwice => length' = Cardinality(results')
<1>1. results \in SUBSET Item /\ page \in SUBSET Item /\ results \cap page \in SUBSET Item
  BY DEF TypeOK
<1>2. /\ IsFiniteSet(results) /\ IsFiniteSet(page)
      /\ Cardinality(results) \in Nat /\ Cardinality(page) \in Nat
      /\ Cardinality(results \cap page) \in Nat
  BY <1>1, ItemsFinite
<1>3. Cardinality(results \cup page)
        = Cardinality(results) + Cardinality(page) - Cardinality(results \cap page)
  BY <1>2, FS_Union
<1>4. NoneTwice => length = Cardinality(results) /\ Cardinality(results \cap page) = 0
  BY FS_EmptySet DEF ListInv
<1>5. length \in Nat /\ length >= Cardinality(results) /\ results \cup page \subseteq ever
  BY DEF TypeOK
<1>6. results' = results \cup page /\ length' = length + Cardinality(page)
  BY DEF Append
<1>7. length' \in Nat /\ length' >= Cardinality(results')
  BY <1>2, <1>3, <1>5, <1>6
<1>8. NoneTwice => length' = Cardinality(results')
  BY <1>2, <1>3, <1>4, <1>5, <1>6
<1> QED BY <1>1, <1>5, <1>6, <1>7, <1>8

\* Of the items that are there, those behind the link are the ones that come next.
LEMMA BehindComesNext ==
  ASSUME TypeOK, NEW i \in Item
  PROVE  /\ Skipped(items) \in Nat
         /\ i \in items => (Behind(i) <=> Skipped(items) < Place(i, items))
<1>1. items \in SUBSET Item /\ link \in Nat /\ i \in Nat
  BY QueryAssumption, ItemsFinite DEF TypeOK, Item
<1>2. Place(i, items) \in Nat /\ Place(link, items) \in Nat
  BY <1>1, Places
<1>3. CASE check \in ByOffset
  BY <1>1, <1>2, <1>3 DEF Skipped, Behind
<1>4. CASE check \notin ByOffset
  <2>1. i \in items /\ link < i => Place(link, items) < Place(i, items)
    BY <1>1, Places
  <2>2. i <= link => Place(i, items) <= Place(link, items)
    BY <1>1, Places
  <2> QED BY <1>1, <1>2, <1>4, <2>1, <2>2 DEF Skipped, Behind
<1> QED BY <1>3, <1>4

LEMMA NextPageInvariant ==
  ASSUME IInv, NextPage
  PROVE  IInv'
<1> USE DEF IInv
<1>0. /\ Reading /\ Append /\ results' = results \cup page
      /\ UNCHANGED <<check, always, ever, changed, items, latest, read, entries, changes>>
      /\ check \in Listing /\ check \notin {Secrets, Cache} /\ phase = "reading"
  BY QueryAssumption DEF NextPage, Append, Reading, history
<1>1. /\ results' \subseteq Item /\ results' \subseteq ever
      /\ length' \in Nat /\ length' >= Cardinality(results')
      /\ NoneTwice => length' = Cardinality(results')
  BY <1>0, AppendCounts
<1>2. /\ SecretInv' /\ StillInv' /\ PassIsJustified' /\ OthersDoNotInterfere'
      /\ phase' \in {"reading", "returned"}
  BY <1>0 DEF NextPage, SecretInv, StillInv, PassIsJustified, OthersDoNotInterfere, Asserting
<1>3. (NoneMissed' <=> NoneMissed) /\ (NoneTwice' <=> NoneTwice)
  BY <1>0 DEF NoneMissed, NoneTwice
<1>4. CASE AnotherPage
  <2> DEFINE skip == Skipped(items)
  <2>1. /\ phase' = "reading" /\ Fetch(check, skip, items) /\ link # 0
        /\ check \notin FirstPage
    BY <1>4, <1>0 DEF NextPage, AnotherPage
  <2>2. /\ items \in SUBSET Item /\ results \cup page \in SUBSET Item
        /\ always \in SUBSET items /\ items \in SUBSET ever /\ link \in Nat
    BY DEF TypeOK
  <2>3. \A i \in Item : i \in Nat /\ Place(i, items) \in Nat
    BY <2>2, Places, ItemsFinite
  <2>4. /\ skip \in Nat
        /\ \A i \in items : Behind(i) <=> skip < Place(i, items)
    <3>1. CASE Item = {}
      <4>1. skip \in Nat
        BY <2>2, Places DEF Skipped
      <4> QED BY <3>1, <2>2, <4>1
    <3>2. CASE Item # {}
      BY <3>2, <2>2, BehindComesNext
    <3> QED BY <3>1, <3>2
  <2> HIDE DEF skip
  <2>5. /\ page' \subseteq items /\ Cardinality(page') <= PageSize /\ link' \in Nat
        /\ \A i \in page' : skip < Place(i, items)
        /\ link' = 0 => \A i \in items : skip < Place(i, items) => i \in page'
        /\ link' # 0 /\ check \in ByOffset =>
             /\ skip < link'
             /\ \A i \in page' : Place(i, items) <= link'
             /\ \A i \in items : skip < Place(i, items) => i \in page' \/ Place(i, items) > link'
        /\ link' # 0 /\ check \notin ByOffset =>
             /\ link' \in page' /\ \A i \in page' : i <= link'
             /\ \A i \in items : skip < Place(i, items) => i \in page' \/ i > link'
    BY <2>1, <2>2, <2>4, FetchReadsOn
  <2>6. TypeOK'
    BY <1>0, <1>1, <2>1, <2>2, <2>5 DEF TypeOK
  <2>7. ASSUME NoneMissed, NEW i \in always
        PROVE  i \in results' \cup page' \/ (link' # 0 /\ Behind(i)')
    <3>1. i \in results' \/ skip < Place(i, items)
      BY <1>0, <2>1, <2>2, <2>4, <2>7 DEF ListInv
    <3>2. i \in items
      BY <2>2
    <3>3. ASSUME link' # 0, skip < Place(i, items), i \notin page'
          PROVE  Behind(i)'
      BY <1>0, <2>5, <3>2, <3>3 DEF Behind
    <3> QED BY <2>5, <3>1, <3>2, <3>3
  <2>8. ASSUME NoneTwice
        PROVE  /\ results' \cap page' = {}
               /\ link' # 0 => \A i \in results' \cup page' :
                                 (i \notin items' /\ check' \in ByOffset) \/ ~Behind(i)'
    <3>1. \A i \in results' : (i \notin items /\ check \in ByOffset) \/ ~Behind(i)
      BY <1>0, <2>1, <2>8 DEF ListInv
    <3>2. \A i \in page' : i \in items /\ Behind(i)
      BY <2>4, <2>5
    <3>3. results' \cap page' = {}
      BY <3>1, <3>2
    <3>4. ASSUME link' # 0, check \in ByOffset, NEW i \in results' \cup page', i \in items
          PROVE  ~Behind(i)'
      <4>1. Place(i, items) <= link'
        <5>1. CASE i \in page'
          BY <5>1, <2>5, <3>4
        <5>2. CASE i \in results'
          <6>1. ~(skip < Place(i, items))
            BY <5>2, <2>4, <3>1, <3>4
          <6> QED BY <6>1, <2>2, <2>3, <2>4, <2>5, <3>4
        <5> QED BY <5>1, <5>2
      <4> QED BY <1>0, <2>2, <2>3, <2>5, <3>4, <4>1 DEF Behind
    <3>5. ASSUME link' # 0, check \notin ByOffset, NEW i \in results' \cup page'
          PROVE  ~Behind(i)'
      <4>1. i <= link'
        <5>1. CASE i \in page'
          BY <5>1, <2>5, <3>5
        <5>2. CASE i \in results'
          <6>1. i <= link
            BY <5>2, <1>0, <2>2, <2>3, <3>1, <3>5 DEF Behind
          <6>2. link < link'
            BY <2>5, <3>2, <3>5 DEF Behind
          <6> QED BY <5>2, <1>0, <2>2, <2>3, <2>5, <6>1, <6>2
        <5> QED BY <5>1, <5>2
      <4>2. i \in Nat
        BY <1>0, <2>2, <2>3, <2>5
      <4> QED BY <1>0, <2>5, <3>5, <4>1, <4>2 DEF Behind
    <3> QED BY <1>0, <3>3, <3>4, <3>5
  <2>9. ListInv'
    <3>1. NoneMissed' /\ link' = 0 => always' \subseteq results' \cup page'
      BY <1>0, <1>3, <2>7
    <3>2. NoneMissed' /\ link' # 0 => \A i \in always' : i \in results' \cup page' \/ Behind(i)'
      BY <1>0, <1>3, <2>7
    <3> QED BY <1>0, <1>1, <1>3, <2>1, <2>8, <3>1, <3>2 DEF ListInv
  <2>10. ListingComplete'
    BY <2>1 DEF ListingComplete, Returned
  <2> QED BY <1>2, <2>6, <2>9, <2>10
<1>5. CASE ~AnotherPage
  <2>1. phase' = "returned" /\ UNCHANGED <<page, link>> /\ (link = 0 \/ check \in FirstPage)
    BY <1>5 DEF NextPage, AnotherPage
  <2>2. TypeOK'
    BY <1>0, <1>1, <2>1 DEF TypeOK
  <2>3. ListInv'
    BY <2>1 DEF ListInv, Reading
  <2>4. ListingComplete'
    <3>1. NoneMissed /\ (check \in FirstPage => Cardinality(ever) <= PageSize) =>
            always \subseteq results'
      BY <1>0, <2>1 DEF ListInv
    <3> QED BY <1>0, <1>1, <1>3, <3>1 DEF ListingComplete
  <2> QED BY <1>2, <2>2, <2>3, <2>4
<1> QED BY <1>4, <1>5

LEMMA AssertListingInvariant ==
  ASSUME IInv, AssertListing
  PROVE  IInv'
<1> USE DEF IInv
<1>0. /\ check \in Listing /\ phase = "returned" /\ phase' \in {"passed", "differs"}
      /\ check \notin {Secrets, Cache}
      /\ UNCHANGED <<check, page, link, results, length, always, ever, changed, items>>
      /\ UNCHANGED <<latest, read, entries, changes>>
  BY QueryAssumption DEF AssertListing, Require, listVars, history
<1>1. TypeOK'
  BY <1>0 DEF TypeOK
<1>2. ListInv' /\ SecretInv' /\ StillInv' /\ OthersDoNotInterfere'
  BY <1>0 DEF ListInv, SecretInv, StillInv, OthersDoNotInterfere, Reading, Asserting
<1>3. ListingComplete'
  BY <1>0 DEF ListingComplete, Returned, NoneMissed, NoneTwice
<1>4. PassIsJustified'
  <2> SUFFICES ASSUME phase' = "passed", check \in Exact, check \notin FirstPage
               PROVE  /\ Expected[check] \subseteq ever
                      /\ NoneMissed => always \subseteq Expected[check]
    BY <1>0 DEF PassIsJustified, NoneMissed
  <2>1. length = Cardinality(Expected[check]) /\ Expected[check] \subseteq results
    BY QueryAssumption DEF AssertListing, Require, Matches
  <2>2. results \subseteq ever /\ (NoneMissed => always \subseteq results)
    BY <1>0 DEF ListingComplete, Returned
  <2>3. Expected[check] = results
    <3>1. results \in SUBSET Item /\ length \in Nat /\ length >= Cardinality(results)
      BY DEF TypeOK
    <3>2. /\ IsFiniteSet(results) /\ Cardinality(results) \in Nat
          /\ Cardinality(Expected[check]) <= Cardinality(results)
          /\ Cardinality(results) = Cardinality(Expected[check]) => results = Expected[check]
      BY <2>1, <3>1, ItemsFinite, FS_Subset
    <3> QED BY <2>1, <3>1, <3>2
  <2> QED BY <2>2, <2>3
<1> QED BY <1>1, <1>2, <1>3, <1>4

\* The collection changes between two pages.
LEMMA ObserveInvariant ==
  ASSUME IInv, Create \/ Delete
  PROVE  IInv'
<1> USE DEF IInv
<1>0. /\ Reading /\ changes < MaxChanges /\ changes' = changes + 1
      /\ UNCHANGED <<check, phase, page, link, results, length, latest, read, entries>>
      /\ check \in Listing /\ phase = "reading" /\ check \notin {Secrets, Cache}
  BY QueryAssumption DEF Create, Delete, Others, Reading, testVars, listVars
<1>1. /\ items' \subseteq Item /\ always' = always \cap items' /\ ever' = ever \cup items'
      /\ \/ changed' = changed \cup {"created"} /\ items \subseteq items'
         \/ changed' = changed \cup {"deleted"} /\ items' \subseteq items
  BY DEF Create, Delete, Observe, TypeOK
<1>2. changes' \in 0..MaxChanges
  BY <1>0, QueryAssumption DEF TypeOK
<1>3. TypeOK'
  BY <1>0, <1>1, <1>2 DEF TypeOK
<1>4. Cardinality(ever') <= PageSize => Cardinality(ever) <= PageSize
  <2>1. ever' \in SUBSET Item /\ ever \in SUBSET ever'
    BY <1>1 DEF TypeOK
  <2>2. Cardinality(ever) <= Cardinality(ever')
    BY <2>1, ItemsFinite, FS_Subset
  <2> QED BY <2>1, <2>2, ItemsFinite, QueryAssumption
<1>5. (NoneMissed' => NoneMissed) /\ (NoneTwice' => NoneTwice)
  BY <1>0, <1>1 DEF NoneMissed, NoneTwice
<1>6. \A i : Place(i, items) \in Nat /\ Place(i, items') \in Nat
  BY <1>1, Places DEF TypeOK
<1>7. ASSUME NoneMissed', NEW i \in Item, Behind(i)
      PROVE  Behind(i)'
  <2>1. CASE check \in ByOffset
    <3>1. items \subseteq items'
      BY <1>0, <1>1, <1>7, <2>1 DEF NoneMissed
    <3>2. Place(i, items) <= Place(i, items')
      BY <1>1, <3>1, PlacesMove
    <3> QED BY <1>0, <1>6, <1>7, <2>1, <3>2 DEF Behind, TypeOK
  <2> QED BY <1>0, <1>7, <2>1 DEF Behind
<1>8. ASSUME NoneTwice', NEW i \in Item, (i \notin items /\ check \in ByOffset) \/ ~Behind(i)
      PROVE  (i \notin items' /\ check \in ByOffset) \/ ~Behind(i)'
  <2>1. CASE check \in ByOffset
    <3>1. items' \subseteq items /\ items \subseteq Item
      BY <1>0, <1>1, <1>8, <2>1 DEF NoneTwice, TypeOK
    <3>2. Place(i, items') <= Place(i, items)
      BY <1>1, <3>1, PlacesMove
    <3> QED BY <1>0, <1>6, <1>8, <2>1, <3>1, <3>2 DEF Behind, TypeOK
  <2> QED BY <1>0, <1>8, <2>1 DEF Behind
<1>9. ListInv'
  <2>1. always' \subseteq always /\ always \subseteq Item /\ results \cup page \subseteq Item
    BY <1>1 DEF TypeOK
  <2>2. NoneMissed' /\ link # 0 => \A i \in always' : i \in results \cup page \/ Behind(i)'
    BY <1>0, <1>5, <1>7, <2>1 DEF ListInv
  <2>3. NoneTwice' /\ link # 0 =>
          \A i \in results \cup page : (i \notin items' /\ check \in ByOffset) \/ ~Behind(i)'
    BY <1>0, <1>5, <1>8, <2>1 DEF ListInv
  <2> QED BY <1>0, <1>4, <1>5, <2>1, <2>2, <2>3 DEF ListInv
<1>10. StillInv'
  BY <1>1 DEF StillInv
<1>11. SecretInv' /\ ListingComplete' /\ PassIsJustified' /\ OthersDoNotInterfere'
  BY <1>0 DEF SecretInv, ListingComplete, PassIsJustified, OthersDoNotInterfere, Returned, Asserting
<1> QED BY <1>3, <1>9, <1>10, <1>11

-----------------------------------------------------------------------------
(* Secrets, the cache, and calls that fail.                                *)

LEMMA BeginInvariant ==
  ASSUME IInv, CompareSecrets \/ Connect
  PROVE  IInv'
<1> USE DEF IInv
<1>0. /\ items' = {} /\ page' = {} /\ link' = 0 /\ results' = {} /\ length' = 0
      /\ always' = {} /\ ever' = {} /\ changed' = {} /\ UNCHANGED <<latest, entries, changes>>
      /\ \/ check' = Secrets /\ phase' = "reading" /\ read' = NothingRead
         \/ check' = Cache /\ phase' = "connected" /\ read' = read
      /\ Secrets \notin Listing /\ Cache \notin Listing /\ Secrets # Cache
  BY QueryAssumption DEF CompareSecrets, Connect, Begin
<1>1. Cardinality({}) = 0 /\ 0 <= PageSize /\ 0 \in Nat
  BY FS_EmptySet, QueryAssumption
<1>2. read' \in [Secret -> {NoValue} \cup Version]
  BY <1>0 DEF NothingRead, TypeOK
<1>3. TypeOK'
  <2>1. Cardinality(page') <= PageSize /\ length' >= Cardinality(results')
    BY <1>0, <1>1
  <2> QED BY <1>0, <1>1, <1>2, <2>1 DEF TypeOK
<1>4. SecretInv' /\ StillInv'
  BY <1>0 DEF SecretInv, StillInv, NothingRead, Asserting
<1>5. ListInv' /\ ListingComplete' /\ PassIsJustified' /\ OthersDoNotInterfere'
  BY <1>0 DEF ListInv, ListingComplete, PassIsJustified, OthersDoNotInterfere,
              Reading, Returned, Asserting
<1> QED BY <1>3, <1>4, <1>5

LEMMA SecretsInvariant ==
  ASSUME IInv, (\E s \in Secret : GetSecret(s)) \/ AssertSecrets
  PROVE  IInv'
<1> USE DEF IInv
<1>0. /\ check = Secrets /\ phase' \in {"reading", "comparing", "passed", "differs"}
      /\ UNCHANGED <<check, items, page, link, results, length, always, ever, changed>>
      /\ UNCHANGED <<latest, entries, changes>>
      /\ Secrets \notin Listing /\ Secrets # Cache
  BY QueryAssumption DEF GetSecret, AssertSecrets, Require, Asserting, listVars, history
<1>1. Output \in Version
  BY QueryAssumption DEF Output
<1>2. /\ read' \in [Secret -> {NoValue} \cup Version] /\ SecretInv' /\ phase' # "differs"
  <2>1. CASE \E s \in Secret : GetSecret(s)
    <3>1. PICK s \in Secret : GetSecret(s)
      BY <2>1
    <3>2. /\ read' = [read EXCEPT ![s] = Output]
          /\ phase' = IF \A u \in Secret \ {s} : read[u] # NoValue THEN "comparing" ELSE "reading"
      BY <3>1 DEF GetSecret, SecretValue
    <3>3. read' \in [Secret -> {NoValue} \cup Version]
      BY <1>1, <3>2 DEF TypeOK
    <3>4. \A u \in Secret : read'[u] = IF u = s THEN Output ELSE read[u]
      BY <3>2 DEF TypeOK
    <3> QED BY <1>0, <3>2, <3>3, <3>4 DEF SecretInv, Asserting
  <2>2. CASE AssertSecrets
    BY <1>0, <2>2 DEF AssertSecrets, Require, SecretInv, Asserting, TypeOK
  <2> QED BY <2>1, <2>2
<1>3. TypeOK'
  BY <1>0, <1>2 DEF TypeOK
<1>4. ListInv' /\ StillInv' /\ ListingComplete' /\ PassIsJustified' /\ OthersDoNotInterfere'
  <2>1. check' \notin Listing /\ check' \notin Exact /\ check' # Cache
    BY <1>0, QueryAssumption
  <2> QED BY <1>0, <1>2, <2>1 DEF ListInv, StillInv, ListingComplete, PassIsJustified,
                            OthersDoNotInterfere, Reading, Returned, Asserting
<1> QED BY <1>2, <1>3, <1>4

LEMMA CacheInvariant ==
  ASSUME IInv, SetEntry \/ GetEntry \/ RemoveEntry
  PROVE  IInv'
<1> USE DEF IInv
<1>0. /\ check = Cache
      /\ UNCHANGED <<check, items, page, link, results, length, always, ever, changed>>
      /\ UNCHANGED <<latest, read, changes>>
      /\ Cache \notin Listing /\ Secrets # Cache
  BY QueryAssumption DEF SetEntry, GetEntry, RemoveEntry, Asserting, listVars, history
<1>1. /\ entries' \subseteq {Key} \cup OtherKey
      /\ \/ phase' = "set" /\ Key \in entries'
         \/ phase' = "got" /\ Key \in entries'
         \/ phase' = "passed" /\ Key \notin entries'
  BY <1>0 DEF SetEntry, GetEntry, RemoveEntry, Require, CacheKey, Asserting, TypeOK,
              OthersDoNotInterfere
<1>2. TypeOK'
  BY <1>0, <1>1 DEF TypeOK
<1>3. ListInv' /\ StillInv' /\ ListingComplete' /\ PassIsJustified'
  <2>1. check' \notin Listing /\ check' \notin Exact
    BY <1>0, QueryAssumption
  <2> QED BY <1>0, <2>1 DEF ListInv, StillInv, ListingComplete, PassIsJustified, Reading, Returned
<1>4. SecretInv' /\ OthersDoNotInterfere'
  BY <1>0, <1>1 DEF SecretInv, OthersDoNotInterfere, CacheKey, Asserting
<1> QED BY <1>2, <1>3, <1>4

LEMMA FailureInvariant ==
  ASSUME IInv, NextFails \/ CallFails \/ AnswerLost
  PROVE  IInv'
<1> USE DEF IInv
<1>0. /\ phase' = "failed" /\ entries' \subseteq {Key} \cup OtherKey
      /\ UNCHANGED <<check, items, page, link, results, length, always, ever, changed>>
      /\ UNCHANGED <<latest, read, changes>>
  BY DEF NextFails, ReadFails, CallFails, AnswerLost, CacheKey, listVars, history, TypeOK
<1>1. TypeOK'
  BY <1>0 DEF TypeOK
<1>2. /\ ListInv' /\ StillInv' /\ ListingComplete' /\ PassIsJustified' /\ SecretInv'
      /\ OthersDoNotInterfere'
  BY <1>0 DEF ListInv, StillInv, ListingComplete, PassIsJustified, SecretInv, OthersDoNotInterfere,
              Reading, Returned, Asserting
<1> QED BY <1>1, <1>2

\* Others rotate secrets and use the cache with keys of their own.
LEMMA OthersInvariant ==
  ASSUME IInv, (\E s \in Secret : Rotate(s)) \/ (\E k \in OtherKey : OtherEntry(k))
  PROVE  IInv'
<1> USE DEF IInv
<1>0. /\ check \in {Secrets, Cache} /\ changes < MaxChanges /\ changes' = changes + 1
      /\ UNCHANGED <<check, phase, items, page, link, results, length, always, ever, changed, read>>
      /\ Secrets \notin Listing /\ Cache \notin Listing
  BY QueryAssumption DEF Rotate, OtherEntry, Others, testVars, listVars, history
<1>1. changes' \in 0..MaxChanges
  BY <1>0, QueryAssumption DEF TypeOK
<1>2. /\ latest' \in [Secret -> Version]
      /\ entries' \subseteq {Key} \cup OtherKey /\ (Key \in entries' <=> Key \in entries)
  <2>1. CASE \E s \in Secret : Rotate(s)
    BY <2>1 DEF Rotate, TypeOK
  <2>2. CASE \E k \in OtherKey : OtherEntry(k)
    BY <2>2, KeysDiffer DEF OtherEntry, TypeOK
  <2> QED BY <2>1, <2>2
<1>3. TypeOK'
  BY <1>0, <1>1, <1>2 DEF TypeOK
<1>4. ListInv' /\ StillInv' /\ ListingComplete' /\ PassIsJustified'
  <2>1. check' \notin Listing /\ check' \notin Exact
    BY <1>0, QueryAssumption
  <2> QED BY <1>0, <2>1 DEF ListInv, StillInv, ListingComplete, PassIsJustified, Reading, Returned
<1>5. SecretInv' /\ OthersDoNotInterfere'
  BY <1>0, <1>2 DEF SecretInv, OthersDoNotInterfere, CacheKey, Asserting
<1> QED BY <1>3, <1>4, <1>5

-----------------------------------------------------------------------------
(* The invariant.                                                          *)

LEMMA InitInvariant == Init => IInv
<1> SUFFICES ASSUME Init PROVE IInv
  OBVIOUS
<1>0. /\ NoCheck \notin Listing /\ NoCheck # Secrets /\ NoCheck # Cache
      /\ Output \in Version /\ PageSize \in Nat /\ 0 \in 0..MaxChanges
  BY QueryAssumption DEF Output
<1>1. Cardinality(page) <= PageSize /\ length >= Cardinality(results)
  BY <1>0, FS_EmptySet DEF Init
<1>2. TypeOK
  BY <1>0, <1>1 DEF Init, TypeOK, NothingRead
<1>3. /\ ListInv /\ StillInv /\ SecretInv /\ ListingComplete /\ PassIsJustified
      /\ OthersDoNotInterfere
  BY <1>0 DEF Init, ListInv, StillInv, SecretInv, ListingComplete, PassIsJustified,
              OthersDoNotInterfere, Reading, Returned, Asserting, NothingRead
<1> QED BY <1>2, <1>3 DEF IInv

LEMMA NextInvariant == IInv /\ [Next]_vars => IInv'
<1> SUFFICES ASSUME IInv, [Next]_vars PROVE IInv'
  OBVIOUS
<1>1. ASSUME NEW l \in Listing, List(l) PROVE IInv'
  BY <1>1, ListInvariant
<1>2. CASE CompareSecrets \/ Connect
  BY <1>2, BeginInvariant
<1>3. CASE NextPage
  BY <1>3, NextPageInvariant
<1>4. CASE AssertListing
  BY <1>4, AssertListingInvariant
<1>5. CASE (\E s \in Secret : GetSecret(s)) \/ AssertSecrets
  BY <1>5, SecretsInvariant
<1>6. CASE SetEntry \/ GetEntry \/ RemoveEntry
  BY <1>6, CacheInvariant
<1>7. CASE NextFails \/ CallFails \/ AnswerLost
  BY <1>7, FailureInvariant
<1>8. CASE Create \/ Delete
  BY <1>8, ObserveInvariant
<1>9. CASE (\E s \in Secret : Rotate(s)) \/ (\E k \in OtherKey : OtherEntry(k))
  BY <1>9, OthersInvariant
<1>10. CASE UNCHANGED vars
  <2> USE <1>10 DEF vars, testVars, listVars, history
  <2>1. TypeOK'
    BY DEF IInv, TypeOK
  <2>2. ListInv' /\ StillInv' /\ SecretInv'
    BY DEF IInv, ListInv, Behind, NoneMissed, NoneTwice, StillInv, SecretInv, Reading, Asserting
  <2>3. ListingComplete' /\ PassIsJustified' /\ OthersDoNotInterfere'
    BY DEF IInv, ListingComplete, PassIsJustified, OthersDoNotInterfere, NoneMissed, NoneTwice,
           Returned, Asserting
  <2> QED BY <2>1, <2>2, <2>3 DEF IInv
<1> QED
  BY <1>1, <1>2, <1>3, <1>4, <1>5, <1>6, <1>7, <1>8, <1>9, <1>10 DEF Next, Start, Continue

LEMMA Invariant == Spec => []IInv
BY InitInvariant, NextInvariant, PTL DEF Spec

\* No page is longer than asked for, and every item listed is counted: the
\* types hold for collections, pages and runs of any size.
THEOREM TypeCorrect == Spec => []TypeOK
<1>1. IInv => TypeOK
  BY DEF IInv
<1> QED BY <1>1, Invariant, PTL

\* However many pages there are, the List functions return none that was there at no
\* time; and every item that was there from the first page to the last, and none
\* twice, whatever others create and delete between two pages, if the links say
\* where the page ended.  If they count items, as those of the topics and of the
\* subscriptions of a topic do, the former holds as long as others only create and
\* the latter as long as they only delete.
THEOREM ListingsComplete == Spec => []ListingComplete
<1>1. IInv => ListingComplete
  BY DEF IInv
<1> QED BY <1>1, Invariant, PTL

\* The comparison of the lengths and the search for every name justify the
\* verdict of VerifySubscriptionsList and its like, even if items come twice:
\* what is expected is there, and nothing else all the time.  The second half is
\* lost where links count items and others have deleted some.
THEOREM PassesJustified == Spec => []PassIsJustified
<1>1. IInv => PassIsJustified
  BY DEF IInv
<1> QED BY <1>1, Invariant, PTL

\* No other test and no later deployment makes the assertions on secrets and on
\* the cache fail.
THEOREM Undisturbed == Spec => []OthersDoNotInterfere
<1>1. IInv => OthersDoNotInterfere
  BY DEF IInv
<1> QED BY <1>1, Invariant, PTL

-----------------------------------------------------------------------------
(* Verdicts.                                                               *)

\* A verdict is that of the assertion on what was returned.
VerdictInv ==
  check \in Listing /\ phase \in {"passed", "differs"} =>
    (phase = "passed" <=> IF check \in RoleCheck THEN RolesMatch(check) ELSE Matches(check))

LEMMA VerdictStep ==
  ASSUME TypeOK, VerdictInv, [Next]_vars
  PROVE  VerdictInv'
<1> SUFFICES ASSUME check' \in Listing, phase' \in {"passed", "differs"}
             PROVE  phase' = "passed" <=>
                      IF check' \in RoleCheck THEN RolesMatch(check)' ELSE Matches(check)'
  BY DEF VerdictInv
<1>1. CASE AssertListing
  <2>1. /\ check' = check /\ results' = results /\ length' = length
        /\ phase' = IF IF check \in RoleCheck THEN RolesMatch(check) ELSE Matches(check)
                    THEN "passed" ELSE "differs"
    BY <1>1 DEF AssertListing, Require, listVars
  <2> HIDE DEF RolesMatch, Matches
  <2>2. (RolesMatch(check)' <=> RolesMatch(check)) /\ (Matches(check)' <=> Matches(check))
    BY <2>1 DEF RolesMatch, RoleMap, Matches
  <2> QED BY <2>1, <2>2
<1>2. CASE ~AssertListing
  <2>1. UNCHANGED <<check, phase, results, length>>
    <3>1. Cache \notin Listing /\ Secrets \notin Listing
      BY QueryAssumption
    <3>2. CASE Start
      BY <3>1, <3>2 DEF Start, List, CompareSecrets, Connect, Begin
    <3>3. CASE Continue
      BY <1>2, <3>1, <3>3
         DEF Continue, NextPage, Reading, Fetch, NextFails, ReadFails, GetSecret, AssertSecrets,
             SetEntry, GetEntry, RemoveEntry, Require, CallFails, AnswerLost, Asserting
    <3>4. CASE Create \/ Delete
      BY <3>4 DEF Create, Delete, testVars, listVars
    <3>5. CASE (\E s \in Secret : Rotate(s)) \/ (\E k \in OtherKey : OtherEntry(k))
      BY <3>5 DEF Rotate, OtherEntry, testVars, listVars
    <3>6. CASE UNCHANGED vars
      BY <3>6 DEF vars, testVars, listVars
    <3> QED BY <3>2, <3>3, <3>4, <3>5, <3>6 DEF Next
  <2>2. (RolesMatch(check)' <=> RolesMatch(check)) /\ (Matches(check)' <=> Matches(check))
    BY <2>1 DEF RolesMatch, RoleMap, Matches
  <2> QED BY <2>1, <2>2 DEF VerdictInv
<1> QED BY <1>1, <1>2

\* The role of a scope that has one assignment is that of the assignment.
LEMMA SoleRole ==
  ASSUME NEW A \in SUBSET Item, NEW i \in A, \A j \in A : ScopeOf[j] = ScopeOf[i] => j = i
  PROVE  RoleMap(A)[ScopeOf[i]] = RoleOf[i]
<1>1. {j \in A : ScopeOf[j] = ScopeOf[i]} = {i}
  OBVIOUS
<1>2. LastOf({i}) = i
  BY LastOfIsLast
<1> QED BY <1>1, <1>2 DEF RoleMap

\* Where each scope expected has one assignment, all of them are there if the
\* maps agree, and the maps agree if all of them are there.
LEMMA SoleScopes ==
  ASSUME NEW l \in Listing, results \subseteq Item, NEW S, results \subseteq S,
         \A i \in Expected[l] : \A j \in Expected[l] \cup S : ScopeOf[j] = ScopeOf[i] => j = i
  PROVE  RolesMatch(l) <=> Expected[l] \subseteq results
<1> DEFINE E == Expected[l]
<1>1. E \subseteq Item
  BY QueryAssumption
<1>2. /\ DOMAIN RoleMap(E) = {ScopeOf[i] : i \in E}
      /\ DOMAIN RoleMap(results) = {ScopeOf[i] : i \in results}
  BY DEF RoleMap
<1>3. ASSUME RolesMatch(l), NEW i \in E
      PROVE  i \in results
  <2>1. ScopeOf[i] \in DOMAIN RoleMap(results)
    BY <1>2, <1>3 DEF RolesMatch
  <2>2. PICK j \in results : ScopeOf[j] = ScopeOf[i]
    BY <1>2, <2>1
  <2> QED BY <2>2
<1>4. ASSUME E \subseteq results
      PROVE  RolesMatch(l)
  <2> SUFFICES ASSUME NEW s \in DOMAIN RoleMap(E)
               PROVE  s \in DOMAIN RoleMap(results) /\ RoleMap(results)[s] = RoleMap(E)[s]
    BY DEF RolesMatch
  <2>1. PICK i \in E : s = ScopeOf[i]
    BY <1>2
  <2>2. i \in results /\ s \in DOMAIN RoleMap(results)
    BY <1>2, <1>4, <2>1
  <2>3. RoleMap(results)[s] = RoleOf[i] /\ RoleMap(E)[s] = RoleOf[i]
    BY <1>1, <2>1, <2>2, SoleRole
  <2> QED BY <2>2, <2>3
<1> QED BY <1>3, <1>4

\* As many as expected, and all that are expected, are just those expected.
LEMMA SameLength ==
  ASSUME IInv, Returned, check \in Exact, changed = {}
  PROVE  Matches(check) <=> results = Expected[check]
<1>1. length = Cardinality(results) /\ IsFiniteSet(results)
  BY ItemsFinite DEF IInv, ListingComplete, NoneTwice, TypeOK
<1> QED BY <1>1, FS_Subset DEF Matches

LEMMA ExactVerdict ==
  IInv /\ VerdictInv => VerdictExact
<1> SUFFICES ASSUME IInv, VerdictInv, phase \in {"passed", "differs"}, check \in Listing,
                    changed = {}
             PROVE  VerdictExact
  BY DEF VerdictExact
<1> DEFINE expected == Expected[check]
           listed == check \in FirstPage => Cardinality(ever) <= PageSize
           Sole(i) == \A j \in expected \cup ever : ScopeOf[j] = ScopeOf[i] => j = i
           ByItem == /\ phase = "passed" => expected \subseteq ever
                     /\ expected \subseteq ever /\ listed => phase = "passed"
<1>1. /\ Returned /\ results \subseteq ever /\ (listed => results = ever)
      /\ results \subseteq Item
  BY DEF IInv, StillInv, ListingComplete, NoneMissed, Returned, TypeOK
<1>2. CASE check \in Exact
  <2>1. check \notin RoleCheck
    BY <1>2, QueryAssumption
  <2>2. phase = "passed" <=> results = expected
    BY <1>1, <1>2, <2>1, SameLength DEF VerdictInv
  <2> QED BY <1>1, <1>2, <2>1, <2>2 DEF VerdictExact
<1>3. CASE check \in RoleCheck
  <2>1. phase = "passed" <=> RolesMatch(check)
    BY <1>3 DEF VerdictInv
  <2>2. check \notin Exact
    BY <1>3, QueryAssumption
  <2>3. ASSUME phase = "passed", NEW i \in expected
        PROVE  \E j \in ever : ScopeOf[j] = ScopeOf[i]
    <3>1. ScopeOf[i] \in {ScopeOf[j] : j \in results}
      BY <2>1, <2>3 DEF RolesMatch, RoleMap
    <3> QED BY <1>1, <3>1
  <2>4. ASSUME \A i \in expected : Sole(i)
        PROVE  ByItem
    <3>1. RolesMatch(check) <=> expected \subseteq results
      BY <1>1, <2>4, SoleScopes
    <3> QED BY <1>1, <2>1, <3>1
  <2> QED BY <1>3, <2>2, <2>3, <2>4 DEF VerdictExact
<1>4. CASE check \notin Exact \cup RoleCheck
  <2>1. phase = "passed" <=> expected \subseteq results
    BY <1>4 DEF VerdictInv, Matches
  <2> QED BY <1>1, <1>4, <2>1 DEF VerdictExact
<1> QED BY <1>2, <1>3, <1>4

\* On a collection nobody changes the assertions tell exactly whether what the
\* outputs of Terraform name is there: VerifySubscriptionsList and its like, the
\* containers of an account that fit on a page, and role assignments with a scope
\* each.
THEOREM VerdictsExact == Spec => []VerdictExact
<1>1. Init => VerdictInv
  BY DEF Init, VerdictInv
<1>2. IInv /\ VerdictInv /\ [Next]_vars => VerdictInv'
  BY VerdictStep DEF IInv
<1>3. IInv /\ VerdictInv => VerdictExact
  BY ExactVerdict
<1> QED BY <1>1, <1>2, <1>3, Invariant, PTL DEF Spec
=============================================================================
