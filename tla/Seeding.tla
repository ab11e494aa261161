------------------------------ MODULE Seeding ------------------------------
(***************************************************************************)
(* seeds/seed.ts: the Job that fills nine tables, in the order of their    *)
(* foreign keys, unless all of them have rows.  Each table is upserted in  *)
(* batches of BatchSize rows, one statement each and no transaction around *)
(* them, so a run that dies leaves what it has written; a later deployment *)
(* runs the Job again.                                                     *)
(*                                                                         *)
(* An upsert is by primary key.  Users, categories, products and roles     *)
(* have the same ids in every run; the rows of the other tables get random *)
(* ones (save three of the orders), and "scope" also has a unique index on *)
(* the scope itself.  With NODE_ENV=production a run fails at once.        *)
(*                                                                         *)
(* Once a user has a role, clients are let in: they place orders, and      *)
(* delete them with their items, also while a later run is at work.        *)
(***************************************************************************)
EXTENDS Integers, Sequences

CONSTANTS
  BatchSize,  \* 5000
  Length,     \* how many rows a run has for each table
  ItemOrder,  \* orderItems[n].orderId: the number of an order of the same run
  MaxRuns,    \* bound of the model on runs of the Job
  MaxPlaced,  \* bound of the model on the orders of clients
  Bare,       \* those of them that have no lines
  MayFail     \* statements may fail, and the process may be killed

Tables == <<"user", "category", "product", "order", "order_item",
            "role", "scope", "role_to_scope", "user_role">>
TableNames == {Tables[n] : n \in DOMAIN Tables}
FixedIds == {"user", "category", "product", "role"}
(* Clients write and delete rows in these only. *)
OrderTables == {"order", "order_item"}

(* The rows for "user_role", the last table, fit in one batch: 3 in 5000. *)
ASSUME SeedAssumption ==
  /\ BatchSize \in Nat \ {0}
  /\ Length \in [TableNames -> Nat \ {0}]
  /\ Length["user_role"] =< BatchSize
  /\ ItemOrder \in [1 .. Length["order_item"] -> 1 .. Length["order"]]
  /\ MaxRuns \in Nat /\ MayFail \in BOOLEAN
  /\ MaxPlaced \in Nat /\ Bare \subseteq 1 .. MaxPlaced

VARIABLES
  rows,   \* the rows <<run, n>> of each table; run is 0 in tables with fixed ids
  gone,   \* history: the rows of OrderTables that clients deleted
  sold,   \* products have less stock than a run of the Job gives them
  run,    \* which run of the Job this is
  empty,  \* the tables this run has counted no rows in
  at,     \* the number in Tables of the table being written
  start,  \* `start' of upsertBatchElements
  job     \* what the Job is doing, or how its last run ended

seedVars == <<rows, gone, sold, run, empty, at, start, job>>

(* The `run' of the rows of clients. *)
Clients == MaxRuns + 1

SeedInit ==
  /\ rows = [t \in TableNames |-> {}]
  /\ gone = [t \in OrderTables |-> {}]
  /\ sold = FALSE
  /\ run = 0
  /\ empty = {}
  /\ at = 1
  /\ start = 0
  /\ job = "none"

Running == job \in {"counting", "upserting"}
Ended == {"none", "seeded", "failed"}

(* The local variables end with the process. *)
Ends(how) == job' = how /\ empty' = {} /\ at' = 1 /\ start' = 0

Empty(T) == {t \in T : rows[t] = {}}

(* A deployment deletes the Job and applies it again.  The tables are      *)
(* counted one by one; clients change only OrderTables, so the others are  *)
(* counted here together with the orders, and below with the items.        *)
CountedFirst == {"user", "product", "order"}
StartJob ==
  /\ job \in Ended
  /\ run < MaxRuns
  /\ run' = run + 1
  /\ empty' = Empty(CountedFirst)
  /\ job' = "counting"
  /\ UNCHANGED <<rows, gone, sold, at, start>>

(* Seeded fault: the counts are not looked at. *)
NeedsSeedingAlways(found) == TRUE
(* Seeded fault: only the orders' count is. *)
NeedsSeedingByOrders(found) == "order" \in found
NeedsSeeding(found) == found # {}

CountItems ==
  LET found == empty \union Empty(TableNames \ CountedFirst)
  IN  /\ job = "counting"
      /\ \/ /\ NeedsSeeding(found)
            /\ job' = "upserting" /\ empty' = found /\ at' = 1 /\ start' = 0
         \/ /\ ~NeedsSeeding(found)
            /\ Ends("seeded")
      /\ UNCHANGED <<rows, gone, sold, run>>

Owner(t) == IF t \in FixedIds THEN 0 ELSE run
(* arr.slice(start, start + 5000) *)
Batch(t) == {n \in 1 .. Length[t] : start < n /\ n =< start + BatchSize}
Written == {<<Owner(Tables[at]), n>> : n \in Batch(Tables[at])}

(* Seeded fault: the unique index is missing. *)
ViolatesNothing(t) == FALSE
(* The unique index on "scope" refuses the scopes of another run; the      *)
(* foreign key refuses items of orders that clients have deleted already.  *)
Violates(t) ==
  \/ t = "scope" /\ \E row \in rows[t] : row[1] # run /\ Batch(t) # {}
  \/ t = "order_item" /\ \E n \in Batch(t) : <<run, ItemOrder[n]>> \notin rows["order"]

(* Seeded fault: the batches advance like the loop's variable, not at all. *)
NextStartStuck == start
NextStart == start + BatchSize
LastBatch(t) == start + BatchSize > Length[t]

(* One upsert; after the last one of a table, on to the next table.  A     *)
(* product gets back the quantity it has in the seed.                      *)
UpsertBatch ==
  /\ job = "upserting"
  /\ ~Violates(Tables[at])
  /\ rows' = [rows EXCEPT ![Tables[at]] = @ \union Written]
  /\ sold' = (sold /\ ~ (Tables[at] = "product" /\ Written # {}))
  /\ IF ~LastBatch(Tables[at]) THEN
       start' = NextStart /\ UNCHANGED <<empty, at, job>>
     ELSE IF at < Len(Tables) THEN
       at' = at + 1 /\ start' = 0 /\ UNCHANGED <<empty, job>>
     ELSE Ends("seeded")
  /\ UNCHANGED <<gone, run>>

UpsertRefused ==
  /\ job = "upserting"
  /\ Violates(Tables[at])
  /\ Ends("failed")
  /\ UNCHANGED <<rows, gone, sold, run>>

JobFails ==
  /\ MayFail
  /\ Running
  /\ Ends("failed")
  /\ UNCHANGED <<rows, gone, sold, run>>

-----------------------------------------------------------------------------
(* Clients, whom @Roles lets in once a user has a role. *)

Open == rows["user_role"] # {}

(* The order a row of "order_item" refers to. *)
OrderRow(i) == <<i[1], IF i[1] = Clients THEN i[2] ELSE ItemOrder[i[2]]>>
Lines(order) == {i \in rows["order_item"] : OrderRow(i) = order}

(* POST /orders in one step; one row stands for all its items. *)
PlaceOrder(n) ==
  LET order == <<Clients, n>>
  IN  /\ Open
      /\ order \notin rows["order"] \union gone["order"]
      /\ rows' = [rows EXCEPT
           !["order"] = @ \union {order},
           !["order_item"] = IF n \in Bare THEN @ ELSE @ \union {order}]
      /\ sold' = (sold \/ n \notin Bare)
      /\ UNCHANGED <<gone, run, empty, at, start, job>>

(* DELETE /orders: the items go with their order; no stock comes back. *)
DeleteOrder(order) ==
  /\ Open
  /\ order \in rows["order"]
  /\ rows' = [rows EXCEPT !["order"] = @ \ {order},
                          !["order_item"] = @ \ Lines(order)]
  /\ gone' = [gone EXCEPT !["order"] = @ \union {order},
                          !["order_item"] = @ \union Lines(order)]
  /\ UNCHANGED <<sold, run, empty, at, start, job>>

SeedStep == CountItems \/ UpsertBatch \/ UpsertRefused
JobNext == StartJob \/ SeedStep \/ JobFails
ClientNext ==
  \/ \E n \in 1 .. MaxPlaced : PlaceOrder(n)
  \/ \E order \in rows["order"] : DeleteOrder(order)
SeedNext == JobNext \/ ClientNext

SeedSpec == SeedInit /\ [][SeedNext]_seedVars

-----------------------------------------------------------------------------
(* Properties. *)

SeedTypeOK ==
  /\ rows \in [TableNames -> SUBSET ((0 .. Clients) \X Nat)]
  /\ gone \in [OrderTables -> SUBSET ((0 .. Clients) \X Nat)]
  /\ sold \in BOOLEAN
  /\ run \in 0 .. MaxRuns
  /\ empty \in SUBSET TableNames
  /\ at \in DOMAIN Tables
  /\ start \in Nat
  /\ job \in Ended \union {"counting", "upserting"}
  /\ run = 0 => job = "none"

(* Some run has written all its rows of the table, whichever of them       *)
(* clients have deleted since.                                             *)
Ever(t) == IF t \in OrderTables THEN rows[t] \union gone[t] ELSE rows[t]
Complete(t) == \E r \in 0 .. MaxRuns : {r} \X (1 .. Length[t]) \subseteq Ever(t)

(* A run that ends well, the one that finds every table non-empty included, *)
(* leaves every table complete but for what clients deleted: earlier runs   *)
(* may have died between any two batches (seed.ts:417-449, 457-473).        *)
SeededIsComplete == job = "seeded" => \A t \in TableNames : Complete(t)

(* Only the run that wrote the scopes can ever give a user a role.  If it  *)
(* dies between the two, no later run ends well: each is refused by the    *)
(* unique index on the scopes it left (seed.ts:446-448,                    *)
(* 1772098907075-generateDb.ts:11), and @Roles lets nobody in.             *)
RolesFollowScopes ==
  \A s \in rows["scope"], u \in rows["user_role"] : s[1] = u[1]

(* What these rest on: a run writes the tables in order, and each in order; *)
(* from its first batch of scopes on there are no scopes but its own, until *)
(* then none of its own; and users have roles only when all is complete.    *)
InOrder ==
  job = "upserting" =>
    \A n \in 1 .. at : \A i \in 1 .. Length[Tables[n]] :
      n < at \/ i =< start => <<Owner(Tables[n]), i>> \in Ever(Tables[n])
AtScopes == at < 7 \/ (at = 7 /\ start = 0)
OwnScopes ==
  /\ job = "upserting" /\ ~AtScopes => \A s \in rows["scope"] : s[1] = run
  /\ job = "counting" \/ (job = "upserting" /\ AtScopes)
       => \A s \in rows["scope"] : s[1] # run
  /\ \A s \in rows["scope"] : s[1] =< run
OwnIds == \A t \in FixedIds : \A row \in rows[t] : row[1] = 0
RolesComeLast ==
  /\ Open => \A t \in TableNames : Complete(t)
  /\ job = "seeded" \/ sold => Open
  /\ job = "upserting" /\ "user_role" \in empty =>
       /\ at < 9 \/ start = 0 => ~Open
       /\ \A u \in rows["user_role"] : u[1] = run

(* A run that finds users' roles writes again only because clients deleted *)
(* all that some run had written of the orders or of their items, and it   *)
(* gets no further than the scopes.                                        *)
WrittenAndGone(t) ==
  t \in OrderTables /\ \E r \in 0 .. MaxRuns : {r} \X (1 .. Length[t]) \subseteq gone[t]
Again == job = "counting" \/ (job = "upserting" /\ "user_role" \notin empty)
AgainForClients ==
  /\ Open /\ Again => \A t \in empty : WrittenAndGone(t)
  /\ job = "upserting" /\ "user_role" \notin empty => Open /\ AtScopes /\ empty # {}

(* The foreign key: batches, deletions and the cascade keep it. *)
ItemsHaveOrders == \A i \in rows["order_item"] : OrderRow(i) \in rows["order"]

SeedInv ==
  /\ SeedTypeOK /\ InOrder /\ OwnScopes /\ OwnIds
  /\ RolesComeLast /\ RolesFollowScopes /\ AgainForClients /\ ItemsHaveOrders

(* Once users have roles, a deployment puts sold stock back only after     *)
(* clients have deleted every order, or every item, that some run wrote;   *)
(* and never does a run add to another table than these two                *)
(* (seed.ts:417-449, orders.repo.ts:38-60).                                *)
SeededOnce ==
  [][Open =>
       /\ \A t \in TableNames \ OrderTables : rows'[t] = rows[t]
       /\ sold /\ ~sold' => \E t \in empty : WrittenAndGone(t)]_seedVars

(* Every run ends, although the variable of its loops never moves          *)
(* (seed.ts:457-473).                                                      *)
EveryRunEnds == Running ~> ~Running
=============================================================================
