-------------------------- MODULE StorefrontProofs --------------------------
(* Proofs about Storefront: the Job and the walk together, and the loaders *)
(* for every page, however the database orders the rows it finds.          *)
EXTENDS Storefront, OrdersPagesProofs, SeedingProofs, WellFoundedInduction

-----------------------------------------------------------------------------
(* The Job and the walk together. *)

(* The Job and the clients write as in Seeding alone. *)
LEMMA SeedingInStorefront == [Next]_vars => [SeedNext]_seedVars
  BY DEF Next, JobStep, ClientStep, WalkStep, SeedNext, ClientNext, vars

LEMMA SeedingAlone == Spec => SeedSpec
  BY SeedingInStorefront, PTL DEF Spec, SeedSpec, Init

(* The rows that there may come to be. *)
LEMMA RowsInBounds ==
  ASSUME SeedTypeOK, TablesAgree, SeedNext
  PROVE  rows'["order"] \subseteq OrderRows /\ rows'["order_item"] \subseteq ItemRows
<1>1. rows["order"] \subseteq OrderRows /\ rows["order_item"] \subseteq ItemRows
  BY DEF TablesAgree
<1>2. CASE UpsertBatch
  <2>1. run \in 1 .. MaxRuns
    BY <1>2 DEF SeedTypeOK, UpsertBatch
  <2>2. ASSUME Tables[at] = "order" PROVE Written \subseteq OrderRows
    BY <2>1, <2>2, KindsOfTables DEF Written, Batch, Owner, OrderRows, FixedIds
  <2>3. ASSUME Tables[at] = "order_item" PROVE Written \subseteq ItemRows
    BY <2>1, <2>3, KindsOfTables DEF Written, Batch, Owner, ItemRows
  <2> QED
    BY <1>1, <1>2, <2>2, <2>3, UpsertWrites, KindsOfTables
<1>3. CASE ClientNext
  <2>1. ASSUME NEW n \in 1 .. MaxPlaced, PlaceOrder(n)
        PROVE  /\ rows'["order"] \subseteq rows["order"] \union {<<Clients, n>>}
               /\ rows'["order_item"] \subseteq rows["order_item"] \union {<<Clients, n>>}
    BY <2>1, KindsOfTables DEF PlaceOrder, SeedTypeOK
  <2>2. ASSUME NEW order, DeleteOrder(order)
        PROVE  rows'["order"] \subseteq rows["order"]
               /\ rows'["order_item"] \subseteq rows["order_item"]
    BY <2>2, KindsOfTables DEF DeleteOrder, SeedTypeOK
  <2>3. \A n \in 1 .. MaxPlaced : <<Clients, n>> \in OrderRows /\ <<Clients, n>> \in ItemRows
    BY DEF OrderRows, ItemRows
  <2> QED
    BY <1>1, <1>3, <2>1, <2>2, <2>3 DEF ClientNext
<1>4. CASE StartJob \/ CountItems \/ UpsertRefused \/ JobFails
  BY <1>1, <1>4 DEF StartJob, CountItems, UpsertRefused, JobFails
<1> QED
  BY <1>2, <1>3, <1>4 DEF SeedNext, JobNext, SeedStep

(* What is inserted into "order" appears in the walk's view. *)
LEMMA AppearInserts ==
  ASSUME PagesTypeOK, SeedTypeOK, TablesAgree, SeedNext,
         NEW T \in SUBSET Times, Appear(T), gone' = gone, rows["order"] \subseteq rows'["order"]
  PROVE  PagesNext /\ TablesAgree'
<1>1. rows'["order"] \subseteq OrderRows /\ rows'["order_item"] \subseteq ItemRows
  BY RowsInBounds
<1>2. NewOrders \in SUBSET Orders
  BY <1>1, StorefrontAssumption DEF NewOrders
<1>3. PICK when \in [NewOrders -> T], status \in Statuses : Insert(NewOrders, when, status)
  BY DEF Appear
<1>4. PagesNext
  <2>1. when \in [NewOrders -> Times]
    OBVIOUS
  <2> QED
    BY <1>2, <1>3, <2>1 DEF PagesNext
<1>5. /\ \A o \in NewOrders : stage[o] = "absent" /\ stage'[o] \in Statuses
      /\ \A o \in Orders \ NewOrders : stage'[o] = stage[o]
  BY <1>2, <1>3 DEF Insert
<1>6. ASSUME NEW row \in OrderRows
      PROVE  /\ stage'[IdOf[row]] \in Statuses <=> row \in rows'["order"]
             /\ stage'[IdOf[row]] = "deleted" <=> row \in gone["order"]
  <2>1. IdOf[row] \in Orders
    BY StorefrontAssumption
  <2>2. /\ stage[IdOf[row]] \in Statuses <=> row \in rows["order"]
        /\ stage[IdOf[row]] = "deleted" <=> row \in gone["order"]
    BY DEF TablesAgree
  <2>3. CASE row \in rows'["order"] \ rows["order"]
    <3>1. IdOf[row] \in NewOrders
      BY <2>3 DEF NewOrders
    <3> QED
      BY <1>5, <2>2, <2>3, <3>1 DEF Statuses
  <2>4. CASE row \notin rows'["order"] \ rows["order"]
    <3>1. IdOf[row] \notin NewOrders
      BY <1>1, <2>4, StorefrontAssumption DEF NewOrders
    <3> QED
      BY <1>5, <2>1, <2>2, <2>4, <3>1
  <2> QED
    BY <2>3, <2>4
<1> QED
  BY <1>1, <1>4, <1>6 DEF TablesAgree

(* Every step is one of the walk's, and the two parts keep one table. *)
LEMMA OneTable ==
  ASSUME PagesTypeOK, SeedTypeOK, TablesAgree, [Next]_vars
  PROVE  [PagesNext]_pagesVars /\ TablesAgree'
<1>1. /\ 0 .. clock \in SUBSET Times
      /\ {Milli[t] : t \in 0 .. clock} \in SUBSET Times
  <2>1. \A t \in 0 .. clock : t \in Times
    BY TimeAssumption DEF PagesTypeOK, Times
  <2> QED
    BY <2>1, TimeAssumption
<1>2. CASE JobStep
  <2>1. SeedNext /\ Appear({Milli[t] : t \in 0 .. clock})
    BY <1>2 DEF JobStep, SeedNext
  <2>2. gone' = gone /\ rows["order"] \subseteq rows'["order"]
    <3>1. CASE UpsertBatch
      BY <3>1, UpsertWrites, KindsOfTables DEF UpsertBatch
    <3> QED
      BY <1>2, <3>1 DEF JobStep, JobNext, SeedStep, StartJob, CountItems, UpsertRefused, JobFails
  <2> QED
    BY <1>1, <2>1, <2>2, AppearInserts
<1>3. ASSUME NEW n \in 1 .. MaxPlaced, PlaceOrder(n), Appear(0 .. clock)
      PROVE  PagesNext /\ TablesAgree'
  <2>1. SeedNext
    BY <1>3 DEF SeedNext, ClientNext
  <2>2. gone' = gone /\ rows["order"] \subseteq rows'["order"]
    BY <1>3, KindsOfTables DEF PlaceOrder, SeedTypeOK
  <2> QED
    BY <1>1, <1>3, <2>1, <2>2, AppearInserts
<1>4. ASSUME NEW order \in rows["order"], DeleteOrder(order), Drop(IdOf[order])
      PROVE  PagesNext /\ TablesAgree'
  <2>1. order \in OrderRows /\ IdOf[order] \in Orders
    BY StorefrontAssumption DEF TablesAgree
  <2>2. PagesNext
    BY <1>4, <2>1 DEF PagesNext
  <2>3. /\ rows'["order"] = rows["order"] \ {order}
        /\ rows'["order_item"] \subseteq rows["order_item"]
        /\ gone'["order"] = gone["order"] \union {order}
    BY <1>4, KindsOfTables DEF DeleteOrder, SeedTypeOK, OrderTables
  <2>4. /\ stage'[IdOf[order]] = "deleted"
        /\ \A o \in Orders : o # IdOf[order] => stage'[o] = stage[o]
    BY <1>4, <2>1 DEF Drop, PagesTypeOK
  <2>5. ASSUME NEW row \in OrderRows
        PROVE  /\ stage'[IdOf[row]] \in Statuses <=> row \in rows'["order"]
               /\ stage'[IdOf[row]] = "deleted" <=> row \in gone'["order"]
    <3>1. CASE row = order
      BY <2>3, <2>4, <3>1 DEF Statuses
    <3>2. CASE row # order
      <4>1. IdOf[row] \in Orders /\ IdOf[row] # IdOf[order]
        BY <2>1, <3>2, StorefrontAssumption
      <4> QED
        BY <2>3, <2>4, <3>2, <4>1 DEF TablesAgree
    <3> QED
      BY <3>1, <3>2
  <2> QED
    BY <2>2, <2>3, <2>5 DEF TablesAgree
<1>5. CASE WalkStep
  <2>1. PagesNext /\ UNCHANGED <<rows, gone>>
    BY <1>5 DEF WalkStep, PagesNext, seedVars
  <2>2. ASSUME NEW o \in Orders
        PROVE  /\ stage'[o] \in Statuses <=> stage[o] \in Statuses
               /\ stage'[o] = "deleted" <=> stage[o] = "deleted"
    <3>1. ASSUME NEW a \in Orders, Change(a)
          PROVE  /\ \A b \in Orders : b # a => stage'[b] = stage[b]
                 /\ stage[a] \in Statuses /\ stage'[a] \in Statuses
      BY <3>1 DEF Change, PagesTypeOK, Statuses
    <3>2. CASE \E a \in Orders : Change(a)
      BY <3>1, <3>2 DEF Statuses
    <3>3. CASE Tick \/ WalkNext
      BY <3>3 DEF Tick, WalkNext, Ask, Count, Fetch, Answer, AnswerThrows, AskElsewhere, table
    <3> QED
      BY <1>5, <3>2, <3>3 DEF WalkStep
  <2>3. \A row \in OrderRows : IdOf[row] \in Orders
    BY StorefrontAssumption
  <2> QED
    BY <2>1, <2>2, <2>3 DEF TablesAgree
<1>6. CASE UNCHANGED vars
  BY <1>6 DEF vars, pagesVars, seedVars, table, TablesAgree
<1> QED
  BY <1>2, <1>3, <1>4, <1>5, <1>6 DEF Next, ClientStep

LEMMA StorefrontInitInv == Init => StorefrontInv
<1> SUFFICES ASSUME Init PROVE StorefrontInv
  OBVIOUS
<1>1. PagesInv /\ SeedInv
  BY PagesInitInv, SeedInitInv DEF Init
<1>2. rows["order"] = {} /\ rows["order_item"] = {} /\ gone["order"] = {}
  BY KindsOfTables DEF Init, SeedInit
<1>3. \A row \in OrderRows : stage[IdOf[row]] = "absent"
  BY StorefrontAssumption DEF Init, PagesInit
<1> QED
  BY <1>1, <1>2, <1>3 DEF StorefrontInv, TablesAgree, Statuses

LEMMA StorefrontStep == StorefrontInv /\ [Next]_vars => StorefrontInv'
<1> SUFFICES ASSUME StorefrontInv, [Next]_vars PROVE StorefrontInv'
  OBVIOUS
<1>1. PagesInv /\ SeedInv /\ TablesAgree /\ PagesTypeOK /\ SeedTypeOK
  BY DEF StorefrontInv, PagesInv, WalkInv, SeedInv
<1>2. [PagesNext]_pagesVars /\ TablesAgree'
  BY <1>1, OneTable
<1>3. SeedInv'
  BY <1>1, SeedingInStorefront, SeedStepInv
<1> QED
  BY <1>1, <1>2, <1>3, PagesStep DEF StorefrontInv

(* In a shop that deploys its Job again and again, the walk and the Job    *)
(* look at one table of orders: what either inserts or deletes there is    *)
(* there, or gone, for both (seed.ts:417-449, orders.repo.ts:38-60,        *)
(* orders.service.ts:209-259).                                             *)
THEOREM StorefrontSafety == Spec => []StorefrontInv
  BY StorefrontInitInv, StorefrontStep, PTL DEF Spec

(* No order is shown twice, what is missed shares a page's last            *)
(* millisecond and the pages told fit, in the whole Storefront too         *)
(* (orders.service.ts:213-246).                                            *)
THEOREM WalkInStorefront == Spec => [](NoOrderTwice /\ OnlyCutsAreMissed /\ ToldPagesFit)
<1>1. StorefrontInv => NoOrderTwice /\ OnlyCutsAreMissed /\ ToldPagesFit
  BY NotTwice, MissesCutsOnly, ToldFits DEF StorefrontInv
<1> QED
  BY <1>1, StorefrontSafety, PTL

(* Whatever walks go on and whatever clients place and delete, a run that  *)
(* ends well leaves every table complete but for what they deleted, roles  *)
(* follow scopes, and sold stock comes back only when all that some run    *)
(* wrote of the orders, or of their items, was deleted                     *)
(* (seed.ts:417-449, orders.repo.ts:38-60).                                *)
THEOREM JobInStorefront == Spec => [](SeededIsComplete /\ RolesFollowScopes) /\ SeededOnce
  BY SeedingAlone, SeededCompletely, RolesWithScopes, WrittenOnce, PTL

-----------------------------------------------------------------------------
(* The loaders. *)

(* A bounded set of positions has a last one. *)
LEMMA LastPosition ==
  ASSUME NEW c \in Nat, NEW places \in SUBSET (1 .. c), places # {}
  PROVE  Max(places) \in places
<1> DEFINE FromEnd == {c - n : n \in places}
           Less == {ss \in Nat \X Nat : ss[1] < ss[2]}
<1>1. FromEnd \subseteq Nat /\ FromEnd # {}
  <2>1. \A n \in places : c - n \in Nat
    OBVIOUS
  <2> QED
    BY <2>1
<1>2. IsWellFoundedOn(Less, Nat)
  BY NatLessThanWellFounded DEF OpToRel
<1>3. PICK k \in FromEnd : \A m \in FromEnd : ~ (m < k)
  <2> HIDE DEF FromEnd, Less
  <2>1. PICK k \in FromEnd : \A m \in FromEnd : <<m, k>> \notin Less
    BY <1>1, <1>2, WFMin
  <2>2. \A m, q \in Nat : m < q => <<m, q>> \in Less
    BY DEF Less
  <2> QED
    BY <1>1, <2>1, <2>2
<1>4. PICK x \in places : k = c - x
  OBVIOUS
<1>5. \A y \in places : x >= y
  <2> SUFFICES ASSUME NEW y \in places PROVE x >= y
    OBVIOUS
  <2>1. ~ (c - y < c - x)
    BY <1>3, <1>4
  <2> QED
    BY <2>1
<1> QED
  BY <1>5 DEF Max

(* A SELECT that finds every row of a set once. *)
LEMMA FoundAll ==
  ASSUME NEW S, IsFiniteSet(S), NEW found \in SetToSeqs(S)
  PROVE  /\ Cardinality(S) \in Nat /\ DOMAIN found = 1 .. Cardinality(S)
         /\ \A n \in DOMAIN found : found[n] \in S
         /\ \A x \in S : \E n \in DOMAIN found : found[n] = x
<1> DEFINE c == Cardinality(S)
<1>1. c \in Nat
  BY FS_CardinalityType
<1>2. found \in [1 .. c -> S] /\ \A i, j \in 1 .. c : i # j => found[i] # found[j]
  BY DEF SetToSeqs
<1>3. found \in Injection(1 .. c, S)
  BY <1>2 DEF Injection, IsInjective
<1>4. Cardinality(1 .. c) = c
  BY <1>1, FS_Interval
<1>5. found \in Surjection(1 .. c, S)
  BY <1>3, <1>4, FS_Injection
<1> QED
  BY <1>1, <1>2, <1>5 DEF Surjection

(* The last row with the key, or Null if there is none. *)
LEMMA LastInFinds ==
  ASSUME NEW S, IsFiniteSet(S), NEW found \in SetToSeqs(S), NEW own
  PROVE  IF S \cap own = {} THEN LastIn(found, own) = Null
                           ELSE LastIn(found, own) \in S \cap own
<1> DEFINE places == {n \in DOMAIN found : found[n] \in own}
<1>1. /\ Cardinality(S) \in Nat /\ places \subseteq 1 .. Cardinality(S)
      /\ \A n \in places : found[n] \in S \cap own
      /\ \A x \in S \cap own : \E n \in places : found[n] = x
  BY FoundAll
<1>2. LastIn(found, own) = IF places = {} THEN Null ELSE found[Max(places)]
  BY DEF LastIn
<1>3. places # {} => Max(places) \in places
  <2> HIDE DEF places
  <2> QED
    BY <1>1, LastPosition
<1> QED
  BY <1>1, <1>2, <1>3

(* The keys of a page, one for each of its orders. *)
LEMMA KeysAre ==
  ASSUME NEW S, IsFiniteSet(S)
  PROVE  /\ SetToSeq(S) \in Seq(S)
         /\ DOMAIN SetToSeq(S) = 1 .. Len(SetToSeq(S))
         /\ Len(SetToSeq(S)) \in Nat
<1> DEFINE c == Cardinality(S)
<1>1. c \in Nat /\ \E f \in [1 .. c -> S] : IsInjective(f)
  BY FS_CardinalityType DEF ExistsBijection, Bijection, Injection
<1>2. SetToSeq(S) \in [1 .. c -> S]
  BY <1>1 DEF SetToSeq
<1>3. SetToSeq(S) \in Seq(S)
  BY <1>1, <1>2
<1> QED
  BY <1>1, <1>2, <1>3

LEMMA ItemsAligned ==
  ASSUME TablesAgree, NEW O, NEW keys, NEW found \in SetToSeqs(ItemsOf(O)),
         NEW n \in DOMAIN keys
  PROVE  LET loaded == getOptimizedOrderItems(keys, found)
         IN  /\ loaded[n] \subseteq ItemsOf({keys[n]} \cap O)
             /\ loaded[n] = {} => ItemsOf({keys[n]} \cap O) = {}
<1> DEFINE own == {i \in Items : OrderOf[i] = keys[n]}
<1>0. rows["order_item"] \subseteq Items
  BY StorefrontAssumption DEF TablesAgree
<1>1. IsFiniteSet(ItemsOf(O))
  <2>1. ItemsOf(O) \subseteq Items
    BY <1>0 DEF ItemsOf
  <2> QED
    BY <2>1, StorefrontAssumption, FS_Subset
<1>2. ItemsOf(O) \cap own = ItemsOf({keys[n]} \cap O)
  BY <1>0 DEF ItemsOf
<1>3. getOptimizedOrderItems(keys, found)[n] = {LastIn(found, own)} \ {Null}
  BY DEF getOptimizedOrderItems
<1>4. IF ItemsOf(O) \cap own = {} THEN LastIn(found, own) = Null
                                  ELSE LastIn(found, own) \in ItemsOf(O) \cap own
  BY <1>1, LastInFinds
<1>5. Null \notin ItemsOf(O)
  BY <1>0, StorefrontAssumption DEF ItemsOf
<1> QED
  BY <1>2, <1>3, <1>4, <1>5

(* The items there are belong to orders that there are. *)
LEMMA ItemsOfPresent ==
  ASSUME TablesAgree, ItemsHaveOrders, NEW o
  PROVE  stage[o] = "deleted" => ItemsOf({o}) = {}
<1> SUFFICES ASSUME stage[o] = "deleted", NEW i \in rows["order_item"], OrderOf[i] = o
             PROVE  FALSE
  BY DEF ItemsOf
<1>1. i \in ItemRows /\ OrderRow(i) \in rows["order"] /\ OrderRow(i) \in OrderRows
  BY DEF TablesAgree, ItemsHaveOrders
<1>2. o = IdOf[OrderRow(i)]
  BY <1>1, StorefrontAssumption
<1> QED
  BY <1>1, <1>2 DEF TablesAgree, Statuses

LEMMA RowsAligned ==
  ASSUME NEW O \in SUBSET Orders, NEW keys, NEW found \in SetToSeqs(O),
         NEW n \in DOMAIN keys
  PROVE  byKey(keys, found)[n] = IF keys[n] \in O THEN keys[n] ELSE Null
<1>1. IsFiniteSet(O)
  BY OrdersAssumption, FS_Subset
<1>2. IF O \cap {keys[n]} = {} THEN LastIn(found, {keys[n]}) = Null
                               ELSE LastIn(found, {keys[n]}) \in O \cap {keys[n]}
  BY <1>1, LastInFinds
<1> QED
  BY <1>2 DEF byKey

LEMMA AnyPageIsAligned ==
  ASSUME PagesTypeOK, TablesAgree, ItemsHaveOrders
  PROVE  LoadedAreAligned
<1> DEFINE keys == SetToSeq(OnPage)
           present == {o \in OnPage : stage[o] # "deleted"}
<1>1. OnPage \in SUBSET Orders /\ IsFiniteSet(OnPage) /\ present \in SUBSET Orders
  <2>1. OnPage \in SUBSET Orders
    BY DEF OnPage, PagesTypeOK
  <2> QED
    BY <2>1, OrdersAssumption, FS_Subset
<1>2. Len(keys) \in Nat /\ DOMAIN keys = 1 .. Len(keys) /\ keys \in Seq(OnPage)
  BY <1>1, KeysAre
<1>3. \A n \in DOMAIN keys : keys[n] \in OnPage
  <2> HIDE DEF keys
  <2> QED
    BY <1>2
<1>4. \A n \in DOMAIN keys : /\ ItemsOf({keys[n]} \cap OnPage) = ItemsOf({keys[n]})
                             /\ ItemsOf({keys[n]}) \subseteq ItemsOf({keys[n]} \cap present)
  <2> SUFFICES ASSUME NEW n \in DOMAIN keys
               PROVE  /\ ItemsOf({keys[n]} \cap OnPage) = ItemsOf({keys[n]})
                      /\ ItemsOf({keys[n]}) \subseteq ItemsOf({keys[n]} \cap present)
    OBVIOUS
  <2> HIDE DEF keys
  <2>1. {keys[n]} \cap OnPage = {keys[n]}
    BY <1>3
  <2>2. CASE stage[keys[n]] = "deleted"
    BY <2>1, <2>2, ItemsOfPresent
  <2>3. CASE stage[keys[n]] # "deleted"
    <3>1. {keys[n]} \cap present = {keys[n]}
      BY <1>3, <2>3
    <3> QED
      BY <2>1, <3>1
  <2> QED
    BY <2>2, <2>3
<1> HIDE DEF keys, present
<1>5. \A found : /\ Len(getOptimizedOrderItems(keys, found)) = Len(keys)
                 /\ Len(byKey(keys, found)) = Len(keys)
  BY <1>2 DEF getOptimizedOrderItems, byKey
<1>6. \A found \in SetToSeqs(ItemsOf(OnPage)) : \A n \in DOMAIN keys :
        /\ getOptimizedOrderItems(keys, found)[n] \subseteq ItemsOf({keys[n]} \cap present)
        /\ getOptimizedOrderItems(keys, found)[n] = {} => ItemsOf({keys[n]}) = {}
  <2> SUFFICES ASSUME NEW found \in SetToSeqs(ItemsOf(OnPage)), NEW n \in DOMAIN keys
               PROVE  LET loaded == getOptimizedOrderItems(keys, found)
                      IN  /\ loaded[n] \subseteq ItemsOf({keys[n]} \cap present)
                          /\ loaded[n] = {} => ItemsOf({keys[n]}) = {}
    OBVIOUS
  <2>1. /\ getOptimizedOrderItems(keys, found)[n] \subseteq ItemsOf({keys[n]} \cap OnPage)
        /\ getOptimizedOrderItems(keys, found)[n] = {} => ItemsOf({keys[n]} \cap OnPage) = {}
    BY ItemsAligned
  <2> QED
    BY <1>4, <2>1
<1>7. \A found \in SetToSeqs(present) : \A n \in DOMAIN keys :
        byKey(keys, found)[n] = IF keys[n] \in present THEN keys[n] ELSE Null
  BY <1>1, RowsAligned
<1> QED
  BY <1>5, <1>6, <1>7 DEF LoadedAreAligned, keys, present

(* For every page, whatever was deleted since and however the rows are     *)
(* found, each loader's results are those of its keys, in their order      *)
(* (data.loader.ts:34-84).                                                 *)
THEOREM LoadersAlign == Spec => []LoadedAreAligned
<1>1. StorefrontInv => LoadedAreAligned
  BY AnyPageIsAligned DEF StorefrontInv, PagesInv, WalkInv, SeedInv
<1> QED
  BY <1>1, StorefrontSafety, PTL
=============================================================================
