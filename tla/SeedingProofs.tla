--------------------------- MODULE SeedingProofs ---------------------------
(* Proofs about Seeding, for every size of batch, every number of rows and *)
(* every number of runs.                                                   *)
EXTENDS Seeding, TLAPS

USE SeedAssumption

(* What the proofs need to know of the list of tables. *)
LEMMA NineTables ==
  /\ DOMAIN Tables = 1 .. 9 /\ Len(Tables) = 9
  /\ \A n \in 1 .. 9 : Tables[n] \in TableNames
  /\ \A m, n \in 1 .. 9 : m # n => Tables[m] # Tables[n]
  /\ \A t \in TableNames : \E n \in 1 .. 9 : t = Tables[n]
<1>1. DOMAIN Tables = 1 .. 9 /\ Len(Tables) = 9
  BY DEF Tables
<1>2. \A m, n \in 1 .. 9 : m # n => Tables[m] # Tables[n]
  BY DEF Tables
<1> QED
  BY <1>1, <1>2 DEF TableNames

LEMMA NamedTables ==
  /\ Tables[3] = "product" /\ Tables[4] = "order" /\ Tables[5] = "order_item"
  /\ Tables[7] = "scope" /\ Tables[9] = "user_role"
  /\ \A n \in 1 .. 9 : /\ n # 3 => Tables[n] # "product"
                       /\ n # 5 => Tables[n] # "order_item"
                       /\ n # 7 => Tables[n] # "scope"
                       /\ n # 9 => Tables[n] # "user_role"
  BY DEF Tables

LEMMA KindsOfTables ==
  /\ \A n \in 1 .. 6 : Tables[n] \in FixedIds \union OrderTables
  /\ OrderTables \subseteq TableNames /\ FixedIds \subseteq TableNames
  /\ FixedIds \cap OrderTables = {}
  /\ "order" \in OrderTables /\ "order_item" \in OrderTables \ FixedIds
  /\ "scope" \in TableNames \ (OrderTables \union FixedIds)
  /\ "user_role" \in TableNames \ (OrderTables \union FixedIds \union CountedFirst)
  /\ CountedFirst \subseteq TableNames
<1>1. /\ Tables[1] = "user" /\ Tables[2] = "category" /\ Tables[3] = "product"
      /\ Tables[4] = "order" /\ Tables[5] = "order_item" /\ Tables[6] = "role"
      /\ Tables[7] = "scope" /\ Tables[8] = "role_to_scope" /\ Tables[9] = "user_role"
  BY DEF Tables
<1>2. /\ "user" \in TableNames /\ "product" \in TableNames /\ "order" \in TableNames
      /\ "category" \in TableNames /\ "order_item" \in TableNames
      /\ "role" \in TableNames /\ "scope" \in TableNames /\ "user_role" \in TableNames
  BY <1>1, NineTables
<1>3. \A n \in 1 .. 6 : n = 1 \/ n = 2 \/ n = 3 \/ n = 4 \/ n = 5 \/ n = 6
  OBVIOUS
<1> QED
  BY <1>1, <1>2, <1>3 DEF OrderTables, FixedIds, CountedFirst

(* Runs are numbered below the clients. *)
LEMMA RunNumbers ==
  ASSUME SeedTypeOK
  PROVE  /\ run \in 0 .. MaxRuns /\ run \in 0 .. Clients /\ run # Clients
         /\ \A t \in TableNames : Owner(t) \in 0 .. MaxRuns /\ Owner(t) \in 0 .. Clients
         /\ Clients \in 0 .. Clients
<1>1. run \in 0 .. MaxRuns /\ MaxRuns \in Nat
  BY DEF SeedTypeOK
<1> QED
  BY <1>1 DEF Clients, Owner

LEMMA SeedInitInv == SeedInit => SeedInv
<1> SUFFICES ASSUME SeedInit PROVE SeedInv
  OBVIOUS
<1>1. \A t \in TableNames : rows[t] = {}
  BY DEF SeedInit
<1>2. rows["scope"] = {} /\ rows["user_role"] = {} /\ rows["order_item"] = {}
  BY <1>1, KindsOfTables
<1>3. SeedTypeOK
  <2>1. 0 \in 0 .. MaxRuns /\ 1 \in DOMAIN Tables /\ "none" \in Ended
    BY NineTables DEF Ended
  <2> QED
    BY <2>1 DEF SeedInit, SeedTypeOK
<1>4. FixedIds \subseteq TableNames
  BY KindsOfTables
<1> QED
  BY <1>1, <1>2, <1>3, <1>4
  DEF SeedInit, SeedInv, InOrder, OwnScopes, OwnIds, RolesComeLast, RolesFollowScopes,
      AgainForClients, Again, ItemsHaveOrders, Open

(* What is complete stays so as long as no row is lost but to clients. *)
LEMMA CompleteStays ==
  ASSUME NEW t \in TableNames, Ever(t) \subseteq Ever(t)', Complete(t)
  PROVE  Complete(t)'
  BY DEF Complete

(* A complete table is empty only if clients deleted what a run wrote. *)
LEMMA EmptyByClients ==
  ASSUME NEW t \in TableNames, Complete(t), rows[t] = {}
  PROVE  WrittenAndGone(t)
<1>1. PICK r \in 0 .. MaxRuns : {r} \X (1 .. Length[t]) \subseteq Ever(t)
  BY DEF Complete
<1>2. <<r, 1>> \in Ever(t)
  BY <1>1
<1> QED
  BY <1>1, <1>2 DEF Ever, WrittenAndGone

(* Steps that write no row and go on with no run. *)
LEMMA RunOver ==
  ASSUME SeedInv, UNCHANGED <<rows, gone, sold, run>>, SeedTypeOK',
         job' \in Ended, job' = "seeded" => Open
  PROVE  SeedInv'
<1>1. job' # "upserting" /\ job' # "counting"
  BY DEF Ended
<1>2. (InOrder /\ OwnScopes /\ OwnIds /\ RolesFollowScopes /\ AgainForClients)'
  BY <1>1 DEF SeedInv, InOrder, OwnScopes, OwnIds, RolesFollowScopes, AgainForClients, Again
<1>3. RolesComeLast'
  BY <1>1 DEF SeedInv, RolesComeLast, Complete, Ever, Open
<1>4. ItemsHaveOrders'
  BY DEF SeedInv, ItemsHaveOrders, OrderRow
<1> QED
  BY <1>2, <1>3, <1>4 DEF SeedInv

(* What one upsert writes. *)
LEMMA UpsertWrites ==
  ASSUME SeedTypeOK, UpsertBatch
  PROVE  /\ at \in 1 .. 9 /\ Tables[at] \in TableNames
         /\ rows'[Tables[at]] = rows[Tables[at]] \union Written
         /\ \A t \in TableNames : t # Tables[at] => rows'[t] = rows[t]
         /\ \A t \in TableNames : rows[t] \subseteq rows'[t] /\ Ever(t) \subseteq Ever(t)'
         /\ \A i \in 1 .. Length[Tables[at]] :
              start < i /\ i =< start + BatchSize
                => <<Owner(Tables[at]), i>> \in rows'[Tables[at]]
         /\ \A row \in Written : row[1] = Owner(Tables[at])
         /\ Written \subseteq (0 .. Clients) \X Nat
<1>1. at \in 1 .. 9 /\ Tables[at] \in TableNames /\ DOMAIN rows = TableNames
  BY NineTables DEF SeedTypeOK
<1>2. /\ rows'[Tables[at]] = rows[Tables[at]] \union Written
      /\ \A t \in TableNames : t # Tables[at] => rows'[t] = rows[t]
  BY <1>1 DEF UpsertBatch
<1>3. \A t \in TableNames : rows[t] \subseteq rows'[t]
  BY <1>2
<1>4. \A t \in TableNames : Ever(t) \subseteq Ever(t)'
  BY <1>3 DEF Ever, UpsertBatch
<1>5. Owner(Tables[at]) \in 0 .. Clients
  BY <1>1, RunNumbers
<1>6. /\ \A row \in Written : row[1] = Owner(Tables[at])
      /\ Written \subseteq (0 .. Clients) \X Nat
  BY <1>1, <1>5 DEF Written, Batch
<1>7. \A i \in 1 .. Length[Tables[at]] :
        start < i /\ i =< start + BatchSize => <<Owner(Tables[at]), i>> \in Written
  BY DEF Written, Batch
<1> QED
  BY <1>1, <1>2, <1>3, <1>4, <1>6, <1>7

(* Where one upsert goes on. *)
LEMMA UpsertMoves ==
  ASSUME SeedTypeOK, UpsertBatch
  PROVE  /\ job = "upserting" /\ UNCHANGED <<run, gone>> /\ ~Violates(Tables[at])
         /\ \/ ~LastBatch(Tables[at]) /\ start' = start + BatchSize
               /\ UNCHANGED <<at, job, empty>>
            \/ LastBatch(Tables[at]) /\ at < 9 /\ at' = at + 1 /\ start' = 0
               /\ UNCHANGED <<job, empty>>
            \/ LastBatch(Tables[at]) /\ at = 9 /\ Ends("seeded")
  BY NineTables DEF UpsertBatch, NextStart, SeedTypeOK

(* The batches of a table follow on each other without a gap, and the last *)
(* one reaches its end.                                                    *)
LEMMA UpsertKeepsOrder ==
  ASSUME SeedInv, UpsertBatch
  PROVE  /\ SeedTypeOK' /\ InOrder'
<1>1. SeedTypeOK /\ InOrder
  BY DEF SeedInv
<1>2. SeedTypeOK'
  <2>1. rows' \in [TableNames -> SUBSET ((0 .. Clients) \X Nat)]
    BY <1>1, UpsertWrites DEF UpsertBatch, SeedTypeOK
  <2>2. /\ at' \in 1 .. 9 /\ start' \in Nat /\ job' \in {"upserting", "seeded"}
        /\ empty' \in SUBSET TableNames
    BY <1>1, UpsertMoves, UpsertWrites DEF SeedTypeOK, Ends
  <2>3. sold' \in BOOLEAN
    BY DEF UpsertBatch
  <2> QED
    BY <1>1, UpsertMoves, <2>1, <2>2, <2>3, NineTables DEF SeedTypeOK, Ended
<1>0. at \in 1 .. 9 /\ start \in Nat
  BY <1>1, UpsertWrites DEF SeedTypeOK
<1>3. ASSUME NEW n \in 1 .. 9, n = at, NEW i \in 1 .. Length[Tables[n]],
             i =< start + BatchSize
      PROVE  <<Owner(Tables[n]), i>> \in Ever(Tables[n])'
  <2>1. CASE i =< start
    <3>1. <<Owner(Tables[n]), i>> \in Ever(Tables[n])
      BY <1>0, <1>1, <1>3, <2>1, UpsertMoves DEF InOrder
    <3> QED
      BY <1>1, <3>1, UpsertWrites, NineTables
  <2>2. CASE start < i
    <3>1. <<Owner(Tables[n]), i>> \in rows'[Tables[n]]
      BY <1>1, <1>3, <2>2, UpsertWrites
    <3> QED
      BY <3>1 DEF Ever
  <2> QED
    BY <1>0, <2>1, <2>2
<1>4. ASSUME NEW n \in 1 .. 9, n = at, LastBatch(Tables[at]),
             NEW i \in 1 .. Length[Tables[n]]
      PROVE  <<Owner(Tables[n]), i>> \in Ever(Tables[n])'
  <2>1. Length[Tables[n]] \in Nat
    BY NineTables
  <2>2. start + BatchSize > Length[Tables[n]]
    BY <1>4 DEF LastBatch
  <2>3. i =< start + BatchSize
    BY <1>0, <2>1, <2>2
  <2> QED
    BY <1>3, <1>4, <2>3
<1>5. ASSUME NEW n \in 1 .. 9, n < at, NEW i \in 1 .. Length[Tables[n]]
      PROVE  <<Owner(Tables[n]), i>> \in Ever(Tables[n])'
  <2>1. <<Owner(Tables[n]), i>> \in Ever(Tables[n])
    BY <1>0, <1>1, <1>5, UpsertMoves DEF InOrder
  <2> QED
    BY <1>1, <2>1, UpsertWrites, NineTables
<1>7. InOrder'
  <2> SUFFICES ASSUME job' = "upserting", NEW n \in 1 .. at',
                      NEW i \in 1 .. Length[Tables[n]], n < at' \/ i =< start'
               PROVE  <<Owner(Tables[n])', i>> \in Ever(Tables[n])'
    BY DEF InOrder
  <2>1. Owner(Tables[n])' = Owner(Tables[n])
    BY <1>1, UpsertMoves DEF Owner
  <2>0. at' \in 1 .. 9
    BY <1>2, NineTables DEF SeedTypeOK
  <2>2. at' \in 1 .. 9 /\ n \in 1 .. 9
    BY <2>0
  <2>3. CASE n < at
    BY <1>5, <2>1, <2>2, <2>3
  <2>4. CASE n = at
    <3>1. CASE at' = at /\ start' = start + BatchSize
      BY <1>0, <1>3, <2>1, <2>2, <2>4, <3>1
    <3>2. CASE at' = at + 1 /\ LastBatch(Tables[at])
      BY <1>4, <2>1, <2>2, <2>4, <3>2
    <3> QED
      BY <1>1, UpsertMoves, <3>1, <3>2 DEF Ends
  <2>5. CASE at < n
    <3>1. at' = at + 1 /\ start' = 0 /\ n = at'
      BY <1>0, <1>1, <2>2, <2>5, UpsertMoves DEF Ends
    <3> QED
      BY <3>1
  <2> QED
    BY <1>0, <2>2, <2>3, <2>4, <2>5
<1> QED
  BY <1>2, <1>7

(* Each item of a batch has its order. *)
LEMMA UpsertKeepsItems ==
  ASSUME SeedInv, UpsertBatch
  PROVE  ItemsHaveOrders'
<1>1. SeedTypeOK /\ ItemsHaveOrders
  BY DEF SeedInv
<1>2. \A i : OrderRow(i)' = OrderRow(i)
  BY DEF OrderRow
<1>3. rows["order"] \subseteq rows'["order"]
  BY <1>1, UpsertWrites, KindsOfTables
<1>4. ASSUME at # 5 PROVE rows'["order_item"] = rows["order_item"]
  BY <1>1, <1>4, UpsertWrites, NamedTables, KindsOfTables
<1>5. ASSUME at = 5, NEW i \in Written PROVE OrderRow(i) \in rows["order"]
  <2>1. Tables[at] = "order_item" /\ Owner("order_item") = run
    BY <1>5, NamedTables, KindsOfTables DEF Owner
  <2>2. PICK n \in Batch("order_item") : i = <<run, n>>
    BY <1>5, <2>1 DEF Written
  <2>3. <<run, ItemOrder[n]>> \in rows["order"]
    BY <1>1, <2>1, UpsertMoves DEF Violates
  <2>4. OrderRow(i) = <<run, ItemOrder[n]>>
    BY <1>1, <2>2, RunNumbers DEF OrderRow
  <2> QED
    BY <2>3, <2>4
<1> QED
  BY <1>1, <1>2, <1>3, <1>4, <1>5, UpsertWrites, NamedTables DEF ItemsHaveOrders

(* The first batch of scopes finds none, and later ones only its own. *)
LEMMA UpsertKeepsScopes ==
  ASSUME SeedInv, UpsertBatch
  PROVE  /\ OwnScopes'
         /\ at # 7 => rows'["scope"] = rows["scope"]
         /\ AtScopes /\ at = 7 => rows["scope"] = {}
<1>1. SeedTypeOK /\ OwnScopes /\ job = "upserting" /\ run' = run /\ SeedTypeOK'
  BY UpsertMoves, UpsertKeepsOrder DEF SeedInv
<1>2. at \in 1 .. 9 /\ at' \in 1 .. 9 /\ start \in Nat /\ run \in Nat
  BY <1>1, NineTables DEF SeedTypeOK
<1>3. at # 7 => rows'["scope"] = rows["scope"]
  BY <1>1, <1>2, NamedTables, KindsOfTables, UpsertWrites
<1>4. AtScopes /\ at = 7 => rows["scope"] = {}
  <2> SUFFICES ASSUME at = 7, start = 0, NEW s \in rows["scope"] PROVE FALSE
    BY <1>2 DEF AtScopes
  <2>1. s[1] # run
    BY <1>1 DEF OwnScopes, AtScopes
  <2>2. 1 \in Batch("scope")
    BY KindsOfTables DEF Batch
  <2> QED
    BY <1>1, <2>1, <2>2, UpsertMoves, NamedTables DEF Violates
<1>5. ASSUME at = 7, NEW s \in rows'["scope"] PROVE s[1] = run
  <2>1. Tables[at] = "scope" /\ Owner(Tables[at]) = run
    BY <1>5, NamedTables, KindsOfTables DEF Owner
  <2>2. CASE s \in Written
    BY <1>1, <2>1, <2>2, UpsertWrites
  <2>3. CASE s \in rows["scope"]
    BY <1>1, <1>4, <1>5, <2>3 DEF OwnScopes
  <2> QED
    BY <1>1, <1>5, <2>1, <2>2, <2>3, UpsertWrites
<1>6. CASE at = 7
  <2>1. job' = "upserting" => ~AtScopes'
    BY <1>1, <1>2, <1>6, UpsertMoves DEF AtScopes, Ends
  <2>2. job' # "counting"
    BY <1>1, UpsertMoves DEF Ends
  <2>3. \A s \in rows'["scope"] : s[1] = run /\ s[1] =< run
    BY <1>2, <1>5, <1>6
  <2> QED
    BY <1>1, <1>3, <1>4, <2>1, <2>2, <2>3 DEF OwnScopes
<1>7. CASE at # 7
  <2>1. job' = "upserting" => (AtScopes' <=> AtScopes)
    BY <1>1, <1>2, <1>7, UpsertMoves DEF AtScopes, Ends
  <2>2. job' # "counting"
    BY <1>1, UpsertMoves DEF Ends
  <2> QED
    BY <1>1, <1>3, <1>4, <1>7, <2>1, <2>2 DEF OwnScopes
<1> QED
  BY <1>6, <1>7

(* A run that found users' roles stops before it writes scopes. *)
LEMMA AgainStops ==
  ASSUME SeedInv, UpsertBatch, "user_role" \notin empty
  PROVE  Open /\ at < 7
<1>1. SeedTypeOK /\ Open /\ AtScopes /\ Complete("scope")
  BY UpsertMoves, KindsOfTables DEF SeedInv, AgainForClients, RolesComeLast
<1>2. rows["scope"] # {}
  BY <1>1, EmptyByClients, KindsOfTables DEF WrittenAndGone
<1> QED
  BY <1>1, <1>2, UpsertKeepsScopes DEF AtScopes

(* The last table: its rows are of this run, and all else is complete. *)
LEMMA UpsertRoles ==
  ASSUME SeedInv, UpsertBatch, at = 9
  PROVE  /\ Open' /\ \A u \in rows'["user_role"] : u[1] = run
         /\ \A t \in TableNames : Complete(t)'
         /\ start > 0 => rows' = rows /\ Open
<1>1. SeedTypeOK /\ InOrder /\ RolesComeLast /\ job = "upserting" /\ run' = run
  BY UpsertMoves DEF SeedInv
<1>2. "user_role" \in empty
  BY AgainStops
<1>3. Tables[at] = "user_role" /\ Owner("user_role") = run /\ run \in 0 .. MaxRuns
      /\ start \in Nat
  BY <1>1, NamedTables, KindsOfTables DEF Owner, SeedTypeOK
<1>4. \A u \in rows'["user_role"] : u[1] = run
  BY <1>1, <1>2, <1>3, UpsertWrites DEF RolesComeLast
<1>5. ASSUME start > 0
      PROVE  /\ Open
             /\ \A i \in 1 .. Length["user_role"] : <<run, i>> \in rows["user_role"]
  <2>0. 1 \in 1 .. Length["user_role"] /\ 1 =< start
    BY <1>3, <1>5, KindsOfTables
  <2>1. <<run, 1>> \in Ever("user_role")
    BY <1>1, <1>3, <2>0, NamedTables DEF InOrder
  <2>2. Open
    BY <2>1, KindsOfTables DEF Ever, Open
  <2>3. PICK r \in 0 .. MaxRuns :
          {r} \X (1 .. Length["user_role"]) \subseteq rows["user_role"]
    BY <1>1, <2>2, KindsOfTables DEF RolesComeLast, Complete, Ever
  <2>4. <<r, 1>> \in rows["user_role"]
    BY <2>0, <2>3
  <2>5. r = run
    BY <1>1, <1>2, <2>4 DEF RolesComeLast
  <2> QED
    BY <2>2, <2>3, <2>5
<1>6. ASSUME start > 0 PROVE rows' = rows
  <2>1. Written \subseteq rows["user_role"]
    BY <1>3, <1>5, <1>6 DEF Written, Batch
  <2>2. rows' = [rows EXCEPT !["user_role"] = @ \union Written]
    BY <1>3 DEF UpsertBatch
  <2>3. rows["user_role"] \union Written = rows["user_role"]
    BY <2>1
  <2> QED
    BY <1>1, <2>2, <2>3, KindsOfTables DEF SeedTypeOK
<1>7. ASSUME NEW i \in 1 .. Length["user_role"] PROVE <<run, i>> \in rows'["user_role"]
  <2>1. i =< BatchSize /\ i \in Nat
    BY KindsOfTables
  <2>2. CASE start = 0
    BY <1>1, <1>3, <2>1, <2>2, UpsertWrites
  <2>3. CASE start > 0
    BY <1>5, <1>6, <2>3
  <2> QED
    BY <1>3, <2>2, <2>3
<1>8. Complete("user_role")'
  BY <1>3, <1>7, KindsOfTables DEF Complete, Ever
<1>9. ASSUME NEW n \in 1 .. 8 PROVE Complete(Tables[n])'
  <2>1. Owner(Tables[n]) \in 0 .. MaxRuns /\ Tables[n] \in TableNames
    <3>1. n \in 1 .. 9
      OBVIOUS
    <3> QED
      BY <1>1, <3>1, NineTables, RunNumbers
  <2>2. {Owner(Tables[n])} \X (1 .. Length[Tables[n]]) \subseteq Ever(Tables[n])
    <3>1. \A i \in 1 .. Length[Tables[n]] : <<Owner(Tables[n]), i>> \in Ever(Tables[n])
      BY <1>1 DEF InOrder
    <3> QED
      BY <3>1
  <2>3. Ever(Tables[n]) \subseteq Ever(Tables[n])'
    BY <1>1, <2>1, UpsertWrites
  <2> QED
    BY <2>1, <2>2, <2>3 DEF Complete
<1>10. \A t \in TableNames : Complete(t)'
  <2>1. \A n \in 1 .. 9 : Complete(Tables[n])'
    BY <1>8, <1>9, NamedTables
  <2> QED
    BY <2>1, NineTables
<1>11. Open'
  <2>1. 1 \in 1 .. Length["user_role"]
    BY KindsOfTables
  <2> QED
    BY <1>7, <2>1 DEF Open
<1> QED
  BY <1>3, <1>4, <1>5, <1>6, <1>10, <1>11

LEMMA UpsertKeepsInv ==
  ASSUME SeedInv, UpsertBatch
  PROVE  SeedInv'
<1>1. SeedTypeOK /\ OwnScopes /\ OwnIds /\ RolesComeLast /\ RolesFollowScopes
      /\ AgainForClients
  BY DEF SeedInv
<1>2. SeedTypeOK' /\ InOrder' /\ OwnScopes' /\ ItemsHaveOrders'
  BY UpsertKeepsOrder, UpsertKeepsScopes, UpsertKeepsItems
<1>3. at \in 1 .. 9 /\ at' \in 1 .. 9 /\ start \in Nat /\ job = "upserting"
      /\ UNCHANGED <<run, gone>>
  BY <1>1, <1>2, NineTables, UpsertMoves DEF SeedTypeOK
<1>4. at # 9 => rows'["user_role"] = rows["user_role"]
  BY <1>1, <1>3, NamedTables, KindsOfTables, UpsertWrites
<1>5. OwnIds'
  <2> SUFFICES ASSUME NEW t \in FixedIds, NEW row \in rows'[t] PROVE row[1] = 0
    BY DEF OwnIds
  <2>1. t \in TableNames
    BY KindsOfTables
  <2>2. CASE row \in rows[t]
    BY <1>1, <2>2 DEF OwnIds
  <2>3. CASE t = Tables[at] /\ row \in Written
    BY <1>1, <2>3, UpsertWrites DEF Owner
  <2> QED
    BY <1>1, <2>1, <2>2, <2>3, UpsertWrites
<1>6. sold' => sold
  BY DEF UpsertBatch
<1>7. RolesComeLast'
  <2>1. CASE at = 9
    <3>1. /\ job' = "upserting" => at' = 9 /\ start' # 0
      BY <1>1, <1>3, <2>1, UpsertMoves DEF Ends
    <3> QED
      BY <1>3, <2>1, <3>1, UpsertRoles DEF RolesComeLast
  <2>2. CASE at # 9
    <3>1. job' = "upserting" /\ empty' = empty /\ (Open' <=> Open)
          /\ (at' = 9 => start' = 0)
      BY <1>1, <1>3, <1>4, <2>2, UpsertMoves DEF Open
    <3>2. ASSUME Open, NEW t \in TableNames PROVE Complete(t)'
      BY <1>1, <3>2, UpsertWrites, CompleteStays DEF RolesComeLast
    <3>3. "user_role" \in empty => ~Open /\ \A u \in rows["user_role"] : u[1] = run
      BY <1>1, <1>3, <2>2 DEF RolesComeLast
    <3>4. job' # "seeded" /\ (sold' => Open')
      BY <1>1, <1>3, <1>6, <3>1 DEF RolesComeLast
    <3>5. job' = "upserting" /\ "user_role" \in empty' =>
            ~Open' /\ \A u \in rows'["user_role"] : u[1] = run'
      BY <1>3, <1>4, <2>2, <3>1, <3>3
    <3>6. Open' => \A t \in TableNames : Complete(t)'
      BY <3>1, <3>2
    <3> QED
      BY <3>4, <3>5, <3>6 DEF RolesComeLast
  <2> QED
    BY <2>1, <2>2
<1>8. RolesFollowScopes'
  <2>1. CASE at = 9
    <3>1. ~AtScopes /\ rows'["scope"] = rows["scope"]
      BY <1>3, <2>1, UpsertKeepsScopes DEF AtScopes
    <3> QED
      BY <1>1, <1>3, <2>1, <3>1, UpsertRoles DEF RolesFollowScopes, OwnScopes
  <2>2. CASE at # 9 /\ ~Open
    BY <1>4, <2>2 DEF RolesFollowScopes, Open
  <2>3. CASE at # 9 /\ Open
    <3>1. "user_role" \notin empty
      BY <1>1, <1>3, <2>3 DEF RolesComeLast
    <3>2. at < 7
      BY <3>1, AgainStops
    <3> QED
      BY <1>1, <1>3, <1>4, <2>3, <3>2, UpsertKeepsScopes DEF RolesFollowScopes
  <2> QED
    BY <2>1, <2>2, <2>3
<1>9. AgainForClients'
  <2> SUFFICES ASSUME Again' PROVE /\ \A t \in empty' : WrittenAndGone(t)'
                                   /\ Open' /\ AtScopes' /\ empty' # {}
    BY DEF AgainForClients, Again
  <2>1. job' = "upserting" /\ empty' = empty /\ "user_role" \notin empty
    BY <1>1, <1>3, UpsertMoves DEF Again, Ends
  <2>2. Open /\ at < 7 /\ empty # {} /\ \A t \in empty : WrittenAndGone(t)
    BY <1>1, <1>3, <2>1, AgainStops DEF AgainForClients, Again
  <2>3. AtScopes' /\ Open'
    BY <1>1, <1>3, <1>4, <2>1, <2>2, UpsertMoves DEF AtScopes, Ends, Open
  <2> QED
    BY <1>3, <2>1, <2>2, <2>3 DEF WrittenAndGone
<1> QED
  BY <1>2, <1>5, <1>7, <1>8, <1>9 DEF SeedInv

LEMMA StartKeepsInv ==
  ASSUME SeedInv, StartJob
  PROVE  SeedInv'
<1>1. SeedTypeOK /\ OwnScopes /\ RolesComeLast
  BY DEF SeedInv
<1>2. /\ UNCHANGED <<rows, gone, sold, at, start>>
      /\ run' = run + 1 /\ empty' = Empty(CountedFirst) /\ job' = "counting"
      /\ run < MaxRuns
  BY DEF StartJob
<1>3. run \in Nat /\ \A s \in rows["scope"] : s[1] \in Nat
  BY <1>1, KindsOfTables DEF SeedTypeOK
<1>4. SeedTypeOK'
  BY <1>1, <1>2, KindsOfTables DEF SeedTypeOK, Empty
<1>5. OwnScopes'
  BY <1>1, <1>2, <1>3 DEF OwnScopes
<1>6. (InOrder /\ OwnIds /\ RolesFollowScopes /\ ItemsHaveOrders)'
  BY <1>2 DEF SeedInv, InOrder, OwnIds, RolesFollowScopes, ItemsHaveOrders, OrderRow
<1>7. RolesComeLast'
  BY <1>1, <1>2 DEF RolesComeLast, Complete, Ever, Open
<1>8. AgainForClients'
  <2>1. ASSUME Open, NEW t \in Empty(CountedFirst) PROVE WrittenAndGone(t)
    BY <1>1, <2>1, EmptyByClients, KindsOfTables DEF Empty, RolesComeLast
  <2> QED
    BY <1>2, <2>1 DEF AgainForClients, Again, Open, WrittenAndGone
<1> QED
  BY <1>4, <1>5, <1>6, <1>7, <1>8 DEF SeedInv

LEMMA CountKeepsInv ==
  ASSUME SeedInv, CountItems
  PROVE  SeedInv'
<1> DEFINE found == empty \union Empty(TableNames \ CountedFirst)
<1>1. SeedTypeOK /\ OwnScopes /\ RolesComeLast /\ AgainForClients
  BY DEF SeedInv
<1>2. job = "counting" /\ UNCHANGED <<rows, gone, sold, run>>
  BY DEF CountItems
<1>3. found \subseteq TableNames
  BY <1>1 DEF SeedTypeOK, Empty
<1>4. ASSUME Open, NEW t \in found PROVE WrittenAndGone(t)
  <2>1. CASE t \in empty
    BY <1>1, <1>2, <1>4, <2>1 DEF AgainForClients, Again
  <2>2. CASE t \in Empty(TableNames \ CountedFirst)
    BY <1>1, <1>4, <2>2, EmptyByClients DEF Empty, RolesComeLast
  <2> QED
    BY <2>1, <2>2
<1>5. "user_role" \in found <=> ~Open
  <2>1. ASSUME Open, "user_role" \in found PROVE FALSE
    BY <1>4, <2>1, KindsOfTables DEF WrittenAndGone
  <2>2. ASSUME ~Open PROVE "user_role" \in found
    BY <2>2, KindsOfTables DEF Empty, Open
  <2> QED
    BY <2>1, <2>2
<1>6. CASE NeedsSeeding(found) /\ job' = "upserting" /\ empty' = found
           /\ at' = 1 /\ start' = 0
  <2> HIDE DEF found
  <2>0. found # {} /\ AtScopes'
    BY <1>6 DEF NeedsSeeding, AtScopes
  <2>1. SeedTypeOK'
    BY <1>1, <1>2, <1>3, <1>6, NineTables DEF SeedTypeOK
  <2>2. InOrder'
    <3> SUFFICES ASSUME NEW n \in 1 .. 1, NEW i \in 1 .. Length[Tables[n]],
                        n < 1 \/ i =< 0
                 PROVE  FALSE
      BY <1>6 DEF InOrder
    <3> QED
      OBVIOUS
  <2>3. OwnScopes'
    BY <1>1, <1>2, <1>6, <2>0 DEF OwnScopes
  <2>4. (OwnIds /\ RolesFollowScopes /\ ItemsHaveOrders)'
    BY <1>2 DEF SeedInv, OwnIds, RolesFollowScopes, ItemsHaveOrders, OrderRow
  <2>5. RolesComeLast'
    BY <1>1, <1>2, <1>5, <1>6 DEF RolesComeLast, Complete, Ever, Open
  <2>6. AgainForClients'
    BY <1>2, <1>4, <1>5, <1>6, <2>0 DEF AgainForClients, Again, Open, WrittenAndGone
  <2> QED
    BY <2>1, <2>2, <2>3, <2>4, <2>5, <2>6 DEF SeedInv
<1>7. CASE ~NeedsSeeding(found) /\ Ends("seeded")
  <2>1. Open
    BY <1>5, <1>7 DEF NeedsSeeding
  <2>2. SeedTypeOK'
    BY <1>1, <1>2, <1>7, NineTables DEF SeedTypeOK, Ends, Ended
  <2> QED
    BY <1>2, <1>7, <2>1, <2>2, RunOver DEF Ends, Ended
<1> QED
  BY <1>6, <1>7 DEF CountItems

(* What clients do leaves the run alone, and no row gets lost from sight. *)
LEMMA ClientsKeepInv ==
  ASSUME SeedInv, SeedTypeOK', ItemsHaveOrders', UNCHANGED <<run, empty, at, start, job>>,
         \A t \in TableNames \ OrderTables : rows'[t] = rows[t],
         \A t \in OrderTables : Ever(t) \subseteq Ever(t)' /\ gone[t] \subseteq gone'[t],
         sold' => sold \/ Open
  PROVE  SeedInv'
<1>1. /\ rows'["scope"] = rows["scope"] /\ rows'["user_role"] = rows["user_role"]
      /\ \A t \in FixedIds : rows'[t] = rows[t] /\ t \in TableNames
      /\ Open' <=> Open
  BY KindsOfTables DEF Open
<1>2. ASSUME NEW t \in TableNames PROVE Ever(t) \subseteq Ever(t)'
  BY DEF Ever
<1>3. InOrder'
  <2> SUFFICES ASSUME job = "upserting", NEW n \in 1 .. at,
                      NEW i \in 1 .. Length[Tables[n]], n < at \/ i =< start
               PROVE  <<Owner(Tables[n])', i>> \in Ever(Tables[n])'
    BY DEF InOrder
  <2>1. Owner(Tables[n])' = Owner(Tables[n])
    BY DEF Owner
  <2>2. Tables[n] \in TableNames
    BY NineTables DEF SeedInv, SeedTypeOK
  <2>3. <<Owner(Tables[n]), i>> \in Ever(Tables[n])
    BY DEF SeedInv, InOrder
  <2> QED
    BY <1>2, <2>1, <2>2, <2>3
<1>4. (OwnScopes /\ OwnIds /\ RolesFollowScopes)'
  BY <1>1 DEF SeedInv, OwnScopes, AtScopes, OwnIds, RolesFollowScopes
<1>5. RolesComeLast'
  <2>1. ASSUME Open, NEW t \in TableNames PROVE Complete(t)'
    BY <1>2, <2>1, CompleteStays DEF SeedInv, RolesComeLast
  <2> QED
    BY <1>1, <2>1 DEF SeedInv, RolesComeLast
<1>6. AgainForClients'
  <2>1. ASSUME NEW t, WrittenAndGone(t) PROVE WrittenAndGone(t)'
    BY <2>1 DEF WrittenAndGone
  <2> QED
    BY <1>1, <2>1 DEF SeedInv, AgainForClients, Again, AtScopes
<1> QED
  BY <1>3, <1>4, <1>5, <1>6 DEF SeedInv

LEMMA PlaceKeepsInv ==
  ASSUME SeedInv, NEW n \in 1 .. MaxPlaced, PlaceOrder(n)
  PROVE  SeedInv'
<1> DEFINE order == <<Clients, n>>
<1>1. SeedTypeOK /\ ItemsHaveOrders /\ Open
  BY DEF SeedInv, PlaceOrder
<1>2. /\ rows'["order"] = rows["order"] \union {order}
      /\ rows'["order_item"] = rows["order_item"]
         \/ rows'["order_item"] = rows["order_item"] \union {order}
      /\ \A t \in TableNames \ OrderTables : rows'[t] = rows[t]
      /\ UNCHANGED <<gone, run, empty, at, start, job>> /\ sold' \in BOOLEAN
  BY <1>1, KindsOfTables DEF PlaceOrder, SeedTypeOK, OrderTables
<1>3. SeedTypeOK'
  <2>1. order \in (0 .. Clients) \X Nat
    BY <1>1, RunNumbers
  <2>2. rows' \in [TableNames -> SUBSET ((0 .. Clients) \X Nat)]
    <3>1. rows' = [rows EXCEPT !["order"] = @ \union {order},
                               !["order_item"] = IF n \in Bare THEN @ ELSE @ \union {order}]
      BY DEF PlaceOrder
    <3> QED
      BY <1>1, <2>1, <3>1 DEF SeedTypeOK
  <2> QED
    BY <1>1, <1>2, <2>2 DEF SeedTypeOK
<1>4. ItemsHaveOrders'
  <2>1. OrderRow(order) = order /\ \A i : OrderRow(i)' = OrderRow(i)
    BY DEF OrderRow
  <2> QED
    BY <1>1, <1>2, <2>1 DEF ItemsHaveOrders
<1>5. \A t \in OrderTables : Ever(t) \subseteq Ever(t)' /\ gone[t] \subseteq gone'[t]
  BY <1>2 DEF Ever, OrderTables
<1> QED
  BY <1>1, <1>2, <1>3, <1>4, <1>5, ClientsKeepInv

LEMMA DeleteKeepsInv ==
  ASSUME SeedInv, NEW order \in rows["order"], DeleteOrder(order)
  PROVE  SeedInv'
<1>1. SeedTypeOK /\ ItemsHaveOrders
  BY DEF SeedInv
<1>2. /\ rows'["order"] = rows["order"] \ {order}
      /\ rows'["order_item"] = rows["order_item"] \ Lines(order)
      /\ gone'["order"] = gone["order"] \union {order}
      /\ gone'["order_item"] = gone["order_item"] \union Lines(order)
      /\ \A t \in TableNames \ OrderTables : rows'[t] = rows[t]
      /\ UNCHANGED <<sold, run, empty, at, start, job>>
  BY <1>1, KindsOfTables DEF DeleteOrder, SeedTypeOK, OrderTables
<1>3. SeedTypeOK'
  <2>1. order \in (0 .. Clients) \X Nat /\ Lines(order) \subseteq (0 .. Clients) \X Nat
    BY <1>1, KindsOfTables DEF SeedTypeOK, Lines, OrderTables
  <2>2. rows' \in [TableNames -> SUBSET ((0 .. Clients) \X Nat)]
    <3>1. rows' = [rows EXCEPT !["order"] = @ \ {order},
                               !["order_item"] = @ \ Lines(order)]
      BY DEF DeleteOrder
    <3> QED
      BY <1>1, <3>1 DEF SeedTypeOK
  <2>3. gone' \in [OrderTables -> SUBSET ((0 .. Clients) \X Nat)]
    <3>1. gone' = [gone EXCEPT !["order"] = @ \union {order},
                               !["order_item"] = @ \union Lines(order)]
      BY DEF DeleteOrder
    <3> QED
      BY <1>1, <2>1, <3>1 DEF SeedTypeOK
  <2> QED
    BY <1>1, <1>2, <2>2, <2>3 DEF SeedTypeOK
<1>4. ItemsHaveOrders'
  <2>1. \A i : OrderRow(i)' = OrderRow(i)
    BY DEF OrderRow
  <2>2. ASSUME NEW i \in rows["order_item"] \ Lines(order) PROVE OrderRow(i) # order
    BY <2>2 DEF Lines
  <2> QED
    BY <1>1, <1>2, <2>1, <2>2 DEF ItemsHaveOrders
<1>5. \A t \in OrderTables : Ever(t) \subseteq Ever(t)' /\ gone[t] \subseteq gone'[t]
  BY <1>2 DEF Ever, OrderTables
<1> QED
  BY <1>2, <1>3, <1>4, <1>5, ClientsKeepInv

LEMMA SeedStepInv == SeedInv /\ [SeedNext]_seedVars => SeedInv'
<1> SUFFICES ASSUME SeedInv, [SeedNext]_seedVars PROVE SeedInv'
  OBVIOUS
<1>1. ASSUME UpsertRefused \/ JobFails PROVE SeedInv'
  <2>1. Ends("failed") /\ UNCHANGED <<rows, gone, sold, run>> /\ job # "none"
    BY <1>1 DEF UpsertRefused, JobFails, Running
  <2>2. SeedTypeOK'
    <3>1. 1 \in DOMAIN Tables
      BY NineTables
    <3> QED
      BY <2>1, <3>1 DEF SeedInv, SeedTypeOK, Ends, Ended
  <2> QED
    BY <2>1, <2>2, RunOver DEF Ends, Ended
<1>2. ASSUME UNCHANGED seedVars PROVE SeedInv'
  BY <1>2 DEF seedVars, SeedInv, SeedTypeOK, InOrder, OwnScopes, AtScopes, OwnIds,
              RolesComeLast, RolesFollowScopes, AgainForClients, Again, WrittenAndGone,
              ItemsHaveOrders, OrderRow, Complete, Ever, Owner, Open
<1> QED
  BY <1>1, <1>2, UpsertKeepsInv, StartKeepsInv, CountKeepsInv, PlaceKeepsInv, DeleteKeepsInv
  DEF SeedNext, JobNext, SeedStep, ClientNext

(* Wherever runs die, the tables are written in order, scopes before the   *)
(* roles that need them, and users' roles only when all else is complete   *)
(* (seed.ts:423-449).                                                      *)
THEOREM SeedSafety == SeedSpec => []SeedInv
  BY SeedInitInv, SeedStepInv, PTL DEF SeedSpec

(* A run that ends well leaves every table complete, although it may have  *)
(* written nothing itself (seed.ts:423-435).                               *)
THEOREM SeededCompletely == SeedSpec => []SeededIsComplete
<1>1. SeedInv => SeededIsComplete
  BY DEF SeedInv, SeededIsComplete, RolesComeLast
<1> QED
  BY <1>1, SeedSafety, PTL

(* The roles of users and the scopes are of one and the same run           *)
(* (seed.ts:446-448, 1772098907075-generateDb.ts:11).                      *)
THEOREM RolesWithScopes == SeedSpec => []RolesFollowScopes
<1>1. SeedInv => RolesFollowScopes
  BY DEF SeedInv
<1> QED
  BY <1>1, SeedSafety, PTL

(* What a step does to the tables once clients are let in. *)
WritesAgainForClients ==
  Open =>
    /\ \A t \in TableNames \ OrderTables : rows'[t] = rows[t]
    /\ sold /\ ~sold' => \E t \in empty : WrittenAndGone(t)

LEMMA AgainStep == SeedInv /\ [SeedNext]_seedVars => [WritesAgainForClients]_seedVars
<1> SUFFICES ASSUME SeedInv, SeedNext, Open
             PROVE  /\ \A t \in TableNames \ OrderTables : rows'[t] = rows[t]
                    /\ sold /\ ~sold' => \E t \in empty : WrittenAndGone(t)
  BY DEF WritesAgainForClients
<1>1. SeedTypeOK /\ RolesComeLast /\ OwnIds /\ AgainForClients
  BY DEF SeedInv
<1>2. CASE UpsertBatch /\ "user_role" \in empty
  <2>1. at = 9 /\ start > 0 /\ Tables[at] # "product"
    BY <1>1, <1>2, NineTables, NamedTables, UpsertMoves DEF RolesComeLast, SeedTypeOK
  <2> QED
    BY <1>2, <2>1, UpsertRoles DEF UpsertBatch
<1>3. CASE UpsertBatch /\ "user_role" \notin empty
  <2>1. at < 7 /\ at \in 1 .. 9 /\ job = "upserting"
    BY <1>1, <1>3, AgainStops, UpsertMoves, UpsertWrites
  <2>2. empty # {} /\ \A t \in empty : WrittenAndGone(t)
    BY <1>1, <1>3, <2>1 DEF AgainForClients, Again
  <2>3. CASE Tables[at] \in OrderTables
    BY <1>1, <1>3, <2>2, <2>3, UpsertWrites
  <2>4. CASE Tables[at] \in FixedIds
    <3>1. Tables[at] \in TableNames \ OrderTables /\ Complete(Tables[at])
      BY <1>1, <2>4, KindsOfTables DEF RolesComeLast
    <3>2. PICK r \in 0 .. MaxRuns :
            {r} \X (1 .. Length[Tables[at]]) \subseteq rows[Tables[at]]
      BY <3>1 DEF Complete, Ever
    <3>3. <<r, 1>> \in rows[Tables[at]]
      BY <3>1, <3>2
    <3>4. r = 0 /\ Owner(Tables[at]) = 0
      BY <1>1, <2>4, <3>3 DEF OwnIds, Owner
    <3>5. Written \subseteq rows[Tables[at]]
      BY <3>2, <3>4 DEF Written, Batch
    <3> QED
      BY <1>1, <1>3, <2>2, <3>5, UpsertWrites
  <2> QED
    BY <2>1, <2>3, <2>4, KindsOfTables
<1>4. CASE StartJob \/ CountItems \/ UpsertRefused \/ JobFails
  BY <1>4 DEF StartJob, CountItems, UpsertRefused, JobFails
<1>5. CASE ClientNext
  BY <1>1, <1>5, KindsOfTables DEF ClientNext, PlaceOrder, DeleteOrder, SeedTypeOK, OrderTables
<1> QED
  BY <1>2, <1>3, <1>4, <1>5 DEF SeedNext, JobNext, SeedStep

(* Once clients are let in, runs add rows to the two tables of orders only, *)
(* and put sold stock back only after clients have deleted all orders, or   *)
(* all their items, that some run wrote: whatever else clients place and    *)
(* delete, before the run or while it is at work (seed.ts:417-449,          *)
(* orders.repo.ts:38-60).                                                   *)
THEOREM WrittenOnce == SeedSpec => SeededOnce
  BY AgainStep, SeedSafety, PTL DEF SeedSpec, SeededOnce, WritesAgainForClients

-----------------------------------------------------------------------------
(* Every run comes to an end. *)

(* A run goes from the counts through the tables, and within a table from  *)
(* batch to batch as long as there are rows, whatever clients do.          *)
Onward ==
  IF run' # run THEN ~Running
  ELSE \/ Running /\ ~Running'
       \/ job = "counting" /\ job' = "upserting" /\ at' = 1 /\ start' = 0
       \/ /\ job = "upserting" /\ job' = "upserting"
          /\ \/ at < at' /\ at' =< Len(Tables)
             \/ at' = at /\ start < start' /\ start' =< Length[Tables[at]]
RunsAdvance == [][Onward]_<<run, at, start, job>>

LEMMA OnwardInRun == SeedInv /\ [SeedNext]_seedVars => [Onward]_<<run, at, start, job>>
<1> SUFFICES ASSUME SeedTypeOK, SeedNext, ~UNCHANGED <<run, at, start, job>> PROVE Onward
  BY DEF SeedInv, seedVars
<1>1. run \in Int /\ start \in Nat /\ at \in 1 .. 9 /\ run + 1 # run
  BY NineTables DEF SeedTypeOK
<1>2. CASE StartJob
  BY <1>1, <1>2 DEF StartJob, Onward, Running, Ended
<1>3. CASE CountItems
  BY <1>3 DEF CountItems, Ends, Onward, Running
<1>4. CASE UpsertBatch
  <2>1. Length[Tables[at]] \in Nat
    BY <1>1, NineTables
  <2>2. CASE ~LastBatch(Tables[at])
    BY <1>1, <1>4, <2>1, <2>2 DEF UpsertBatch, LastBatch, NextStart, Onward
  <2>3. CASE LastBatch(Tables[at])
    BY <1>1, <1>4, <2>3, NineTables DEF UpsertBatch, Ends, Onward, Running
  <2> QED
    BY <2>2, <2>3
<1>5. CASE UpsertRefused \/ JobFails
  BY <1>5 DEF UpsertRefused, JobFails, Ends, Onward, Running
<1>6. CASE ClientNext
  BY <1>6 DEF ClientNext, PlaceOrder, DeleteOrder
<1> QED
  BY <1>2, <1>3, <1>4, <1>5, <1>6 DEF SeedNext, JobNext, SeedStep

(* A run never writes a batch twice or goes back to a table: each batch    *)
(* begins behind the last and before the table's end, although the         *)
(* variable of the loops is not what moves (seed.ts:457-473).              *)
THEOREM RunsAreFinite == SeedSpec => RunsAdvance
  BY SeedSafety, OnwardInRun, PTL DEF SeedSpec, RunsAdvance
=============================================================================
