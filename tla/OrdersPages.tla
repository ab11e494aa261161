---------------------------- MODULE OrdersPages ----------------------------
(***************************************************************************)
(* The GraphQL query ordersFiltered: a client walks through the orders of  *)
(* one status, newest first, one page per request, and hands the cursor of *)
(* each page to the next request.  Between the requests, and between the   *)
(* count and the rows of one of them, orders are placed, change status and *)
(* are deleted, and other clients' requests change the service's one field *)
(* limitFirst.                                                             *)
(*                                                                         *)
(* PostgreSQL keeps created_at in microseconds; a JavaScript Date, and so  *)
(* the cursor and the default dateTo, has milliseconds.                    *)
(***************************************************************************)
EXTENDS Integers, FiniteSets

CONSTANTS
  Orders,     \* ids of orders; PostgreSQL compares them
  Limits,     \* limits clients ask for
  WalkLimits, \* those of them the walk may ask for
  DateFrom,   \* filter.dateFrom, or the epoch
  MaxTime,    \* bound of the model on the database's clock
  StartTime,  \* the time at which it starts
  Milli,      \* each time, cut to milliseconds
  NoCursor    \* the createdAt a first request does not have

Times == 0 .. MaxTime
Statuses == {"listed", "other"}

ASSUME OrdersAssumption == Orders \subseteq Nat /\ IsFiniteSet(Orders)
ASSUME LimitsAssumption == WalkLimits \subseteq Limits /\ Limits \subseteq Nat \ {0}
ASSUME TimeAssumption ==
  /\ MaxTime \in Nat /\ StartTime \in Times /\ DateFrom \in Int
  /\ Milli \in [Times -> Times]
  /\ \A t \in Times : Milli[t] =< t /\ Milli[Milli[t]] = Milli[t]
  /\ \A t, u \in Times : t =< u => Milli[t] =< Milli[u]
ASSUME CursorAssumption == NoCursor \notin Times \X Orders

VARIABLES
  clock,       \* the time
  stage,       \* each order: absent, in the status asked for or another, or deleted
  created,     \* order.created_at, 0 where there is no row
  limitFirst,  \* OrdersService.limitFirst
  limit,       \* the limit the walk asks for
  step,        \* how far the walk's current request has come
  dateTo,      \* the dateTo of that request
  cursor,      \* the cursor it carries
  counted,     \* what its getCount returned
  page,        \* what its getMany returned: <<createdAt, id>> of each order
  shown,       \* history: the orders the walk has shown
  steady,      \* history: orders the walk should show: in its first result, and still
  cuts,        \* history: the cursors the walk was given
  disturbed    \* history: another request set another limit meanwhile

table == <<clock, stage, created>>
answer == <<cursor, shown, cuts>>
pagesVars == <<table, limitFirst, limit, step, dateTo, counted, page, answer,
               steady, disturbed>>

InRange(o, to) == stage[o] = "listed" /\ created[o] > DateFrom /\ created[o] < to
Row(o) == <<created[o], o>>

(* Seeded fault: ordered by id alone. *)
NewerById(r, s) == r[2] > s[2]
(* ORDER BY created_at DESC, id DESC. *)
Newer(r, s) == r[1] > s[1] \/ (r[1] = s[1] /\ r[2] > s[2])

(* Seeded fault: the tie-breaker is left out. *)
PastUntied(r, k) == r[1] =< k[1]
(* (created_at, id) < (:createdAt, :id). *)
Past(r, k) == r[1] < k[1] \/ (r[1] = k[1] /\ r[2] < k[2])

Ahead(r) == cursor = NoCursor \/ Past(r, cursor)
Matching == {Row(o) : o \in {a \in Orders : InRange(a, dateTo) /\ Ahead(Row(a))}}

PagesInit ==
  /\ clock = StartTime
  /\ stage = [o \in Orders |-> "absent"]
  /\ created = [o \in Orders |-> 0]
  /\ limitFirst = 2
  /\ limit \in WalkLimits
  /\ step = "idle"
  /\ dateTo = 0
  /\ cursor = NoCursor
  /\ counted = 0
  /\ page = {}
  /\ shown = {}
  /\ steady = {}
  /\ cuts = {}
  /\ disturbed = FALSE

-----------------------------------------------------------------------------
(* One request of the walk; the first one starts it. *)

(* Seeded fault: the limit is taken over only if none was. *)
AskKeepingLimit ==
  /\ step = "idle"
  /\ limitFirst' = IF limitFirst = 0 THEN limit ELSE limitFirst
  /\ disturbed' = FALSE
  /\ dateTo' = Milli[clock]
  /\ steady' = IF cursor = NoCursor THEN {o \in Orders : InRange(o, Milli[clock])}
                                    ELSE steady
  /\ step' = "counting"
  /\ UNCHANGED <<table, limit, counted, page, answer>>

Ask ==
  /\ step = "idle"
  /\ limitFirst' = limit
  /\ disturbed' = FALSE
  /\ dateTo' = Milli[clock]
  /\ steady' = IF cursor = NoCursor THEN {o \in Orders : InRange(o, Milli[clock])}
                                    ELSE steady
  /\ step' = "counting"
  /\ UNCHANGED <<table, limit, counted, page, answer>>

Count ==
  /\ step = "counting"
  /\ counted' = Cardinality(Matching)
  /\ step' = "fetching"
  /\ UNCHANGED <<table, limitFirst, limit, dateTo, page, answer, steady, disturbed>>

(* take(limit).getMany(): the first of them. *)
Fetch ==
  /\ step = "fetching"
  /\ \E S \in SUBSET Matching :
       /\ Cardinality(S) = IF Cardinality(Matching) < limit THEN Cardinality(Matching)
                                                            ELSE limit
       /\ \A r \in S, s \in Matching \ S : Newer(r, s)
       /\ page' = S
  /\ step' = "answering"
  /\ UNCHANGED <<table, limitFirst, limit, dateTo, counted, answer, steady, disturbed>>

(* The request's local variables end with it. *)
Forget == dateTo' = 0 /\ counted' = 0 /\ page' = {} /\ disturbed' = FALSE

OnPage == {r[2] : r \in page}
LastOfPage(r) == \A s \in page \ {r} : Newer(s, r)

(* Math.ceil of a quotient, and one more when there is no remainder. *)
CountOfPages(n, l) ==
  LET numberOfPages == (n + l - 1) \div l
  IN  IF n % l # 0 THEN numberOfPages ELSE numberOfPages + 1

(* The page, its cursor, and countOfPages, which no later step depends on. *)
Told == CountOfPages(counted, limitFirst)
Answer ==
  /\ step = "answering"
  /\ \E r \in page :
       /\ LastOfPage(r)
       /\ cursor' = <<Milli[r[1]], r[2]>>
       /\ cuts' = cuts \union {Milli[r[1]]}
  /\ shown' = shown \union OnPage
  /\ step' = "idle"
  /\ Forget
  /\ UNCHANGED <<table, limitFirst, limit, steady>>

(* An empty page has no last order: a TypeError ends the walk. *)
AnswerThrows ==
  /\ step = "answering"
  /\ page = {}
  /\ step' = "over"
  /\ Forget
  /\ UNCHANGED <<table, limitFirst, limit, answer, steady>>

-----------------------------------------------------------------------------
(* What goes on meanwhile. *)

walk == <<limit, step, dateTo, counted, page, answer>>

(* Another request of ordersFiltered runs its first statement. *)
AskElsewhere ==
  /\ \E l \in Limits :
       /\ l # limitFirst
       /\ limitFirst' = l
       /\ disturbed' = (disturbed \/ (step \notin {"idle", "over"} /\ l # limit))
  /\ UNCHANGED <<table, walk, steady>>

(* A transaction that inserts the orders O commits.  created_at is the     *)
(* begin of the transaction, or a Date the program had made before.        *)
Insert(O, when, status) ==
  /\ \A o \in O : stage[o] = "absent" /\ when[o] =< clock
  /\ stage' = [o \in Orders |-> IF o \in O THEN status ELSE stage[o]]
  /\ created' = [o \in Orders |-> IF o \in O THEN when[o] ELSE created[o]]
  /\ UNCHANGED <<clock, walk, limitFirst, steady, disturbed>>

(* A worker or a payment writes another status, or the one asked for.      *)
Change(o) ==
  /\ \/ stage[o] = "listed" /\ stage' = [stage EXCEPT ![o] = "other"]
     \/ stage[o] = "other" /\ stage' = [stage EXCEPT ![o] = "listed"]
  /\ steady' = steady \ {o}
  /\ UNCHANGED <<clock, created, walk, limitFirst, disturbed>>

(* DELETE /orders. *)
Drop(o) ==
  /\ stage[o] \in Statuses
  /\ stage' = [stage EXCEPT ![o] = "deleted"]
  /\ created' = [created EXCEPT ![o] = 0]
  /\ steady' = steady \ {o}
  /\ UNCHANGED <<clock, walk, limitFirst, disturbed>>

Tick ==
  /\ clock < MaxTime
  /\ clock' = clock + 1
  /\ UNCHANGED <<stage, created, walk, limitFirst, steady, disturbed>>

WalkNext == Ask \/ Count \/ Fetch \/ Answer \/ AnswerThrows \/ AskElsewhere

PagesNext ==
  \/ WalkNext \/ Tick
  \/ \E O \in SUBSET Orders, status \in Statuses :
       \E when \in [O -> Times] : Insert(O, when, status)
  \/ \E o \in Orders : Change(o) \/ Drop(o)

PagesSpec == PagesInit /\ [][PagesNext]_pagesVars

-----------------------------------------------------------------------------
(* Properties. *)

PagesTypeOK ==
  /\ clock \in Times
  /\ stage \in [Orders -> Statuses \union {"absent", "deleted"}]
  /\ created \in [Orders -> Times]
  /\ limitFirst \in Nat \ {0}
  /\ limit \in WalkLimits
  /\ step \in {"idle", "counting", "fetching", "answering", "over"}
  /\ dateTo \in Times
  /\ cursor \in {NoCursor} \union (Times \X Orders)
  /\ counted \in Nat
  /\ page \in SUBSET (Times \X Orders)
  /\ shown \in SUBSET Orders
  /\ steady \in SUBSET Orders
  /\ cuts \in SUBSET Times
  /\ disturbed \in BOOLEAN

(* No order is on two pages of one walk, whatever is placed, changed and   *)
(* deleted meanwhile (orders.service.ts:226-235).                          *)
NoOrderTwice == step = "answering" => OnPage \cap shown = {}

(* An order that is there all the walk long is shown by it, unless it was  *)
(* placed within the millisecond at which a page ended: the cursor's       *)
(* createdAt is cut to milliseconds, the column is not                     *)
(* (orders.service.ts:231-234, order.entity.ts:77).                        *)
OnlyCutsAreMissed ==
  step = "over" => \A o \in steady \ shown : Milli[created[o]] \in cuts

(* What the two rest on: the orders shown so far are not past the cursor,  *)
(* unless they are gone; those of the page in hand are, and none of them   *)
(* was shown; and an order the walk should show is shown, cut off, past    *)
(* the cursor still or, with a page in hand, on the page or older than all *)
(* of it.                                                                  *)
InRequest == step \in {"counting", "fetching", "answering"}
SteadyStays ==
  \A o \in steady :
    /\ InRange(o, Milli[clock])
    /\ InRequest => created[o] < dateTo
ShownIsBehind ==
  /\ cursor = NoCursor => shown = {}
  /\ cursor # NoCursor => cursor[1] \in cuts
  /\ \A o \in shown : stage[o] # "absent" /\ (stage[o] \in Statuses => ~Ahead(Row(o)))
PageIsAhead ==
  /\ step # "answering" => page = {}
  /\ \A r \in page :
       /\ stage[r[2]] # "absent" /\ (stage[r[2]] \in Statuses => r = Row(r[2]))
       /\ Ahead(r) /\ r[2] \notin shown
Covered(o) == o \in shown \union OnPage \/ Milli[created[o]] \in cuts
SteadyIsCovered ==
  \A o \in steady :
    \/ Covered(o)
    \/ step \in {"idle", "counting", "fetching"} /\ Ahead(Row(o))
    \/ step = "answering" /\ page # {} /\ \A r \in page : Newer(r, Row(o))

WalkInv ==
  PagesTypeOK /\ SteadyStays /\ ShownIsBehind /\ PageIsAhead /\ SteadyIsCovered

(* Until another request sets another limit, limitFirst is the walk's own; *)
(* a page has no more orders than the walk's limit.                        *)
LimitIsOwn ==
  /\ InRequest /\ ~disturbed => limitFirst = limit
  /\ step = "answering" => Cardinality(page) =< limit

PagesInv == WalkInv /\ LimitIsOwn

(* No page is longer than the walk asked for, and the pages a client is    *)
(* told have room for the orders counted, the last of them only for fewer  *)
(* than a page.  But these pages have the length of the latest limit,      *)
(* limitFirst being shared: it is the walk's own unless a request with     *)
(* another one came in between (orders.service.ts:213-246).                *)
ToldPagesFit ==
  step = "answering" =>
    /\ Cardinality(page) =< limit
    /\ (Told - 1) * limitFirst =< counted /\ counted < Told * limitFirst
    /\ ~disturbed => limitFirst = limit
=============================================================================
