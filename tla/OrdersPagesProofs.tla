------------------------- MODULE OrdersPagesProofs -------------------------
(* Proofs about OrdersPages, for every set of orders, every limit and      *)
(* every way to cut times.                                                 *)
EXTENDS OrdersPages, FiniteSetTheorems, TLAPS

USE OrdersAssumption, LimitsAssumption, TimeAssumption, CursorAssumption

(* Rows are pairs of numbers, and there are finitely many. *)
LEMMA MatchingRows ==
  ASSUME PagesTypeOK
  PROVE  /\ \A o \in Orders : Row(o) \in Times \X Orders
         /\ Matching \subseteq Times \X Orders
         /\ IsFiniteSet(Matching) /\ Cardinality(Matching) \in Nat
         /\ \A r \in Matching : /\ r[2] \in Orders /\ r = Row(r[2])
                               /\ InRange(r[2], dateTo) /\ Ahead(r)
<1>1. \A o \in Orders : Row(o) \in Times \X Orders
  BY DEF PagesTypeOK, Row
<1>2. Matching \subseteq Times \X Orders
  BY <1>1 DEF Matching
<1>3. IsFiniteSet(Times \X Orders)
  <2>1. IsFiniteSet(Times)
    BY FS_Interval DEF Times
  <2> QED
    BY <2>1, FS_Product
<1>4. \A r \in Matching : /\ r[2] \in Orders /\ r = Row(r[2])
                         /\ InRange(r[2], dateTo) /\ Ahead(r)
  <2> SUFFICES ASSUME NEW r \in Matching
               PROVE  /\ r[2] \in Orders /\ r = Row(r[2])
                      /\ InRange(r[2], dateTo) /\ Ahead(r)
    OBVIOUS
  <2>1. PICK o \in Orders : r = Row(o) /\ InRange(o, dateTo) /\ Ahead(Row(o))
    BY DEF Matching
  <2>2. r[2] = o
    BY <2>1 DEF Row
  <2> QED
    BY <2>1, <2>2
<1> QED
  BY <1>1, <1>2, <1>3, <1>4, FS_Subset, FS_CardinalityType

LEMMA WalkInit == PagesInit => WalkInv
<1> SUFFICES ASSUME PagesInit PROVE WalkInv
  OBVIOUS
<1>1. PagesTypeOK
  <2>1. 0 \in Times /\ 2 \in Nat \ {0}
    BY DEF Times
  <2> QED
    BY <2>1 DEF PagesInit, PagesTypeOK
<1>2. SteadyStays /\ ShownIsBehind /\ PageIsAhead /\ SteadyIsCovered
  BY DEF PagesInit, SteadyStays, ShownIsBehind, PageIsAhead, SteadyIsCovered, InRequest
<1> QED
  BY <1>1, <1>2 DEF WalkInv

(* A page has at most as many orders as the limit; one without orders was  *)
(* read from no orders at all.                                             *)
LEMMA PageSize ==
  ASSUME PagesTypeOK, Fetch
  PROVE  Cardinality(page') =< limit /\ (page' = {} => Matching = {})
<1>1. IsFiniteSet(Matching) /\ Cardinality(Matching) \in Nat
  BY MatchingRows
<1>2. limit \in Nat \ {0}
  BY DEF PagesTypeOK
<1>3. Cardinality(page') = IF Cardinality(Matching) < limit
                           THEN Cardinality(Matching) ELSE limit
  BY DEF Fetch
<1>4. ASSUME page' = {} PROVE Matching = {}
  <2>1. Cardinality(page') = 0
    BY <1>4, FS_EmptySet
  <2>2. Cardinality(Matching) = 0
    BY <1>1, <1>2, <1>3, <2>1
  <2> QED
    BY <1>1, <2>2, FS_EmptySet
<1> QED
  BY <1>1, <1>2, <1>3, <1>4

(* What is not newer than the last row of a page comes after its cursor,   *)
(* or in the same millisecond.                                             *)
LEMMA AfterLast ==
  ASSUME NEW r \in Times \X Orders, NEW s \in Times \X Orders, Newer(r, s)
  PROVE  Past(s, <<Milli[r[1]], r[2]>>) \/ Milli[s[1]] = Milli[r[1]]
<1>1. r[1] \in Times /\ s[1] \in Times /\ s[1] =< r[1]
  BY DEF Newer, Times
<1>2. Milli[r[1]] \in Times /\ Milli[s[1]] \in Times
  BY <1>1
<1>3. CASE s[1] < Milli[r[1]]
  BY <1>3 DEF Past
<1>4. CASE Milli[r[1]] =< s[1]
  <2>1. Milli[Milli[r[1]]] =< Milli[s[1]]
    BY <1>1, <1>2, <1>4
  <2>2. Milli[s[1]] =< Milli[r[1]]
    BY <1>1
  <2>3. Milli[Milli[r[1]]] = Milli[r[1]]
    BY <1>1
  <2> QED
    BY <1>2, <2>1, <2>2, <2>3 DEF Times
<1> QED
  BY <1>1, <1>2, <1>3, <1>4 DEF Times

(* Nothing a page shows, and nothing shown before, is past its cursor. *)
LEMMA LastIsBehind ==
  ASSUME NEW r \in Times \X Orders, NEW s \in Times \X Orders, s = r \/ Newer(s, r)
  PROVE  ~Past(s, <<Milli[r[1]], r[2]>>)
<1>0. r[2] \in Nat /\ s[2] \in Nat
  OBVIOUS
<1>1. r[1] \in Times /\ s[1] \in Times /\ r[1] =< s[1]
  BY DEF Newer, Times
<1>2. Milli[r[1]] \in Times /\ Milli[r[1]] =< r[1]
  BY <1>1
<1> QED
  BY <1>0, <1>1, <1>2 DEF Past, Newer, Times

LEMMA ShownStaysBehind ==
  ASSUME NEW r \in Times \X Orders, NEW s \in Times \X Orders,
         NEW k \in Times \X Orders, Past(r, k), ~Past(s, k)
  PROVE  ~Past(s, <<Milli[r[1]], r[2]>>)
<1>0. Times \subseteq Nat /\ Orders \subseteq Nat
  BY DEF Times
<1>1. /\ r[1] \in Nat /\ r[2] \in Nat /\ s[1] \in Nat
      /\ s[2] \in Nat /\ k[1] \in Nat /\ k[2] \in Nat
  BY <1>0
<1>2. Milli[r[1]] \in Nat /\ Milli[r[1]] =< r[1]
  BY <1>0
<1> QED
  BY <1>1, <1>2 DEF Past

(* Steps that leave the walk alone, and the rows of the orders there are   *)
(* but for those they delete.                                              *)
LEMMA SameWalk ==
  ASSUME WalkInv, UNCHANGED <<limit, step, dateTo, page, answer>>,
         PagesTypeOK', steady' \subseteq steady, Milli[clock] =< Milli[clock'],
         \A o \in Orders : stage[o] # "absent" =>
           /\ stage'[o] # "absent"
           /\ stage'[o] \in Statuses => stage[o] \in Statuses /\ created'[o] = created[o],
         \A o \in steady' : stage'[o] = stage[o]
  PROVE  WalkInv'
<1> USE DEF WalkInv, answer
<1>0. ASSUME NEW o \in steady'
      PROVE  /\ o \in steady /\ o \in Orders /\ stage[o] = "listed"
             /\ stage'[o] = stage[o] /\ created'[o] = created[o]
  <2>1. o \in steady /\ o \in Orders /\ stage[o] = "listed" /\ stage'[o] = stage[o]
    BY <1>0 DEF PagesTypeOK, SteadyStays, InRange
  <2> QED
    BY <2>1 DEF Statuses
<1>1. SteadyStays'
  <2> SUFFICES ASSUME NEW o \in steady'
               PROVE  InRange(o, Milli[clock])' /\ (InRequest' => created'[o] < dateTo')
    BY DEF SteadyStays
  <2>1. o \in steady /\ o \in Orders /\ stage'[o] = stage[o] /\ created'[o] = created[o]
    BY <1>0
  <2>2. InRange(o, Milli[clock]) /\ (InRequest => created[o] < dateTo)
    BY <2>1 DEF SteadyStays
  <2>3. clock \in Times /\ clock' \in Times /\ created[o] \in Times
    BY <2>1 DEF PagesTypeOK
  <2>4. Milli[clock] \in Nat /\ Milli[clock'] \in Nat /\ created[o] \in Nat
    BY <2>3 DEF Times
  <2>5. created[o] < Milli[clock']
    BY <2>2, <2>4 DEF InRange
  <2> QED
    BY <2>1, <2>2, <2>5 DEF InRange, InRequest
<1>2. ShownIsBehind'
  <2>1. ASSUME NEW o \in shown
        PROVE  stage'[o] # "absent" /\ (stage'[o] \in Statuses => ~Ahead(Row(o))')
    BY <2>1 DEF ShownIsBehind, PagesTypeOK, Ahead, Past, Row
  <2> QED
    BY <2>1 DEF ShownIsBehind
<1>3. PageIsAhead'
  <2>1. ASSUME NEW r \in page
        PROVE  /\ stage'[r[2]] # "absent"
               /\ stage'[r[2]] \in Statuses => r = Row(r[2])'
               /\ Ahead(r)' /\ r[2] \notin shown
    BY <2>1 DEF PageIsAhead, PagesTypeOK, Ahead, Past, Row
  <2> QED
    BY <2>1 DEF PageIsAhead
<1>4. SteadyIsCovered'
  <2> SUFFICES ASSUME NEW o \in steady'
               PROVE  \/ Covered(o)'
                      \/ step \in {"idle", "counting", "fetching"} /\ Ahead(Row(o))'
                      \/ step = "answering" /\ page # {} /\ \A r \in page : Newer(r, Row(o)')
    BY DEF SteadyIsCovered, Newer, Row
  <2>1. o \in steady /\ created'[o] = created[o]
    BY <1>0
  <2> QED
    BY <2>1 DEF SteadyIsCovered, Covered, OnPage, Ahead, Past, Newer, Row
<1> QED
  BY <1>1, <1>2, <1>3, <1>4

LEMMA WalkKeepsInv == WalkInv /\ [PagesNext]_pagesVars => WalkInv'
<1> SUFFICES ASSUME WalkInv, [PagesNext]_pagesVars PROVE WalkInv'
  OBVIOUS
<1> USE DEF table, answer, walk
<1>0. PagesTypeOK /\ SteadyStays /\ ShownIsBehind /\ PageIsAhead /\ SteadyIsCovered
  BY DEF WalkInv
<1>1. ASSUME Ask PROVE WalkInv'
  <2>1. clock \in Times /\ Milli[clock] \in Times
    BY <1>0 DEF PagesTypeOK
  <2>2. PagesTypeOK'
    BY <1>0, <1>1, <2>1 DEF Ask, PagesTypeOK
  <2>3. steady' = {o \in Orders : InRange(o, Milli[clock])} \/ steady' = steady
    BY <1>1 DEF Ask
  <2>4. \A o \in steady' : InRange(o, Milli[clock])
    BY <1>0, <2>3 DEF SteadyStays
  <2>5. SteadyStays'
    BY <1>1, <2>4 DEF Ask, SteadyStays, InRange, InRequest
  <2>6. ShownIsBehind' /\ PageIsAhead'
    BY <1>0, <1>1 DEF Ask, ShownIsBehind, PageIsAhead, Ahead, Past, Row
  <2>7. ASSUME cursor = NoCursor PROVE SteadyIsCovered'
    BY <1>1, <2>7 DEF Ask, SteadyIsCovered, Ahead
  <2>8. ASSUME cursor # NoCursor PROVE SteadyIsCovered'
    <3>1. steady' = steady
      BY <1>1, <2>8 DEF Ask
    <3> QED
      BY <1>0, <1>1, <3>1 DEF Ask, SteadyIsCovered, Covered, OnPage, Ahead, Past, Row
  <2>9. SteadyIsCovered'
    BY <2>7, <2>8
  <2> QED
    BY <2>2, <2>5, <2>6, <2>9 DEF WalkInv
<1>2. ASSUME Count PROVE WalkInv'
  <2>1. Cardinality(Matching) \in Nat
    BY <1>0, MatchingRows
  <2>2. PagesTypeOK'
    BY <1>0, <1>2, <2>1 DEF Count, PagesTypeOK
  <2>3. SteadyStays' /\ ShownIsBehind' /\ PageIsAhead'
    BY <1>0, <1>2 DEF Count, SteadyStays, InRange, InRequest, ShownIsBehind, PageIsAhead,
                      Ahead, Past, Row
  <2>4. SteadyIsCovered'
    BY <1>0, <1>2 DEF Count, SteadyIsCovered, Covered, OnPage, Ahead, Past, Row
  <2> QED
    BY <2>2, <2>3, <2>4 DEF WalkInv
<1>3. ASSUME Fetch PROVE WalkInv'
  <2>1. /\ page' \subseteq Matching
        /\ \A r \in page', s \in Matching \ page' : Newer(r, s)
    BY <1>3 DEF Fetch
  <2>2. step = "fetching" /\ step' = "answering" /\ page = {}
        /\ UNCHANGED <<table, limitFirst, limit, dateTo, counted, answer, steady, disturbed>>
    BY <1>0, <1>3 DEF Fetch, PageIsAhead
  <2>3. PagesTypeOK'
    <3>1. page' \subseteq Times \X Orders
      BY <1>0, <2>1, MatchingRows
    <3> QED
      BY <1>0, <2>2, <3>1 DEF PagesTypeOK
  <2>4. SteadyStays'
    BY <1>0, <2>2 DEF SteadyStays, InRange, InRequest
  <2>5. ShownIsBehind'
    BY <1>0, <2>2 DEF ShownIsBehind, Ahead, Past, Row
  <2>6. PageIsAhead'
    <3> SUFFICES ASSUME NEW r \in page'
                 PROVE  /\ stage[r[2]] # "absent" /\ r = Row(r[2])
                        /\ Ahead(r) /\ r[2] \notin shown
      BY <2>2 DEF PageIsAhead, Ahead, Past, Row
    <3>1. r[2] \in Orders /\ r = Row(r[2]) /\ InRange(r[2], dateTo) /\ Ahead(r)
      BY <1>0, <2>1, MatchingRows
    <3> QED
      BY <1>0, <3>1 DEF ShownIsBehind, InRange, Statuses
  <2>7. ASSUME NEW o \in steady, ~Covered(o)' PROVE Row(o) \in Matching \ page'
    <3>1. Ahead(Row(o)) /\ InRange(o, dateTo) /\ o \in Orders
      BY <1>0, <2>2, <2>7
      DEF SteadyIsCovered, SteadyStays, Covered, OnPage, InRange, InRequest, PagesTypeOK
    <3>2. Row(o) \notin page'
      BY <2>7 DEF Covered, OnPage, Row
    <3> QED
      BY <3>1, <3>2 DEF Matching
  <2>8. SteadyIsCovered'
    <3>1. ASSUME NEW o \in steady, ~Covered(o)'
          PROVE  page' # {} /\ \A r \in page' : Newer(r, Row(o))
      BY <1>0, <1>3, <2>1, <2>7, <3>1, PageSize
    <3> QED
      BY <2>2, <3>1 DEF SteadyIsCovered, Newer, Row
  <2> QED
    BY <2>3, <2>4, <2>5, <2>6, <2>8 DEF WalkInv
<1>4. ASSUME Answer PROVE WalkInv'
  <2>1. PICK r \in page : /\ \A s \in page : s = r \/ Newer(s, r)
                          /\ cursor' = <<Milli[r[1]], r[2]>>
                          /\ cuts' = cuts \union {Milli[r[1]]}
    BY <1>4 DEF Answer, LastOfPage
  <2>2. /\ step = "answering" /\ step' = "idle" /\ page' = {}
        /\ shown' = shown \union OnPage
        /\ UNCHANGED <<table, limit, limitFirst, steady>>
        /\ dateTo' = 0 /\ counted' = 0 /\ disturbed' = FALSE
    BY <1>4 DEF Answer, Forget
  <2>3. /\ page \subseteq Times \X Orders /\ r \in Times \X Orders
        /\ r[2] \in Orders /\ Milli[r[1]] \in Times
        /\ OnPage \subseteq Orders
    <3>1. page \subseteq Times \X Orders
      BY <1>0 DEF PagesTypeOK
    <3> QED
      BY <2>1, <3>1 DEF OnPage
  <2>4. cursor' \in Times \X Orders /\ cursor' # NoCursor /\ cursor'[1] \in cuts'
    BY <2>1, <2>3
  <2>5. PagesTypeOK'
    <3>1. 0 \in Times
      BY DEF Times
    <3> QED
      BY <1>0, <2>1, <2>2, <2>3, <2>4, <3>1 DEF PagesTypeOK
  <2>6. SteadyStays'
    BY <1>0, <2>2 DEF SteadyStays, InRange, InRequest
  <2>7. ASSUME NEW a \in shown \union OnPage
        PROVE  stage[a] # "absent" /\ (stage[a] \in Statuses => ~Past(Row(a), cursor'))
    <3>1. CASE a \in OnPage
      <4>1. PICK s \in page : a = s[2]
        BY <3>1 DEF OnPage
      <4>2. stage[a] # "absent" /\ (stage[a] \in Statuses => s = Row(a))
        BY <1>0, <4>1 DEF PageIsAhead
      <4>3. ~Past(s, cursor')
        BY <2>1, <2>3, <4>1, LastIsBehind
      <4> QED
        BY <4>2, <4>3
    <3>2. CASE a \in shown
      <4>1. a \in Orders /\ stage[a] # "absent" /\ cursor # NoCursor
            /\ (stage[a] \in Statuses => ~Past(Row(a), cursor))
        BY <1>0, <3>2 DEF ShownIsBehind, Ahead, PagesTypeOK
      <4>2. cursor \in Times \X Orders /\ Past(r, cursor)
        BY <1>0, <2>1, <4>1 DEF PagesTypeOK, PageIsAhead, Ahead
      <4>3. Row(a) \in Times \X Orders
        BY <1>0, <4>1, MatchingRows
      <4> QED
        BY <2>1, <2>3, <4>1, <4>2, <4>3, ShownStaysBehind
    <3> QED
      BY <3>1, <3>2
  <2>8. ShownIsBehind' /\ PageIsAhead'
    BY <2>2, <2>4, <2>7 DEF ShownIsBehind, PageIsAhead, Ahead, Past, Row
  <2>9. ASSUME NEW b \in steady PROVE Covered(b)' \/ Past(Row(b), cursor')
    <3>1. CASE Covered(b)
      BY <2>1, <2>2, <3>1 DEF Covered, OnPage
    <3>2. CASE Newer(r, Row(b))
      <4>1. b \in Orders /\ Row(b) \in Times \X Orders /\ Row(b)[1] = created[b]
        BY <1>0, MatchingRows DEF PagesTypeOK, Row
      <4>2. Past(Row(b), cursor') \/ Milli[created[b]] \in cuts'
        BY <2>1, <2>3, <3>2, <4>1, AfterLast
      <4> QED
        BY <2>2, <4>2 DEF Covered
    <3> QED
      BY <1>0, <2>1, <2>2, <3>1, <3>2 DEF SteadyIsCovered
  <2>10. SteadyIsCovered'
    BY <2>2, <2>9 DEF SteadyIsCovered, Ahead, Past, Row
  <2> QED
    BY <2>5, <2>6, <2>8, <2>10 DEF WalkInv
<1>5. ASSUME AnswerThrows PROVE WalkInv'
  <2>1. /\ step = "answering" /\ page = {} /\ step' = "over" /\ page' = {}
        /\ UNCHANGED <<table, limit, limitFirst, steady, answer>>
        /\ dateTo' = 0 /\ counted' = 0 /\ disturbed' = FALSE
    BY <1>5 DEF AnswerThrows, Forget
  <2>2. PagesTypeOK'
    <3>1. 0 \in Times
      BY DEF Times
    <3> QED
      BY <1>0, <2>1, <3>1 DEF PagesTypeOK
  <2>3. SteadyStays' /\ ShownIsBehind' /\ PageIsAhead'
    BY <1>0, <2>1 DEF SteadyStays, InRange, InRequest, ShownIsBehind, PageIsAhead,
                      Ahead, Past, Row
  <2>4. SteadyIsCovered'
    BY <1>0, <2>1 DEF SteadyIsCovered, Covered, OnPage
  <2> QED
    BY <2>2, <2>3, <2>4 DEF WalkInv
<1>6. ASSUME AskElsewhere PROVE WalkInv'
  <2>1. PagesTypeOK'
    BY <1>0, <1>6 DEF AskElsewhere, PagesTypeOK
  <2> QED
    BY <1>6, <2>1, SameWalk DEF AskElsewhere, PagesTypeOK, Times
<1>7. ASSUME NEW O \in SUBSET Orders, NEW status \in Statuses,
             NEW when \in [O -> Times], Insert(O, when, status)
      PROVE  WalkInv'
  <2>1. PagesTypeOK'
    BY <1>0, <1>7 DEF Insert, PagesTypeOK
  <2>2. /\ \A a \in Orders \ O : stage'[a] = stage[a] /\ created'[a] = created[a]
        /\ \A a \in O : stage[a] = "absent"
        /\ UNCHANGED <<clock, walk, steady>>
    BY <1>0, <1>7 DEF Insert, PagesTypeOK
  <2>3. \A a \in steady : a \in Orders /\ stage[a] = "listed"
    BY <1>0 DEF SteadyStays, InRange, PagesTypeOK
  <2> QED
    BY <1>0, <2>1, <2>2, <2>3, SameWalk DEF PagesTypeOK, Times
<1>8. ASSUME NEW o \in Orders, Change(o) PROVE WalkInv'
  <2>1. PagesTypeOK'
    BY <1>0, <1>8 DEF Change, PagesTypeOK, Statuses
  <2>2. /\ \A a \in Orders : a # o => stage'[a] = stage[a]
        /\ stage[o] \in Statuses /\ stage'[o] \in Statuses
    BY <1>0, <1>8 DEF Change, PagesTypeOK, Statuses
  <2>3. stage'[o] # "absent"
    BY <2>2 DEF Statuses
  <2> QED
    BY <1>0, <1>8, <2>1, <2>2, <2>3, SameWalk DEF Change, PagesTypeOK, Times
<1>9. ASSUME NEW o \in Orders, Drop(o) PROVE WalkInv'
  <2>1. PagesTypeOK'
    <3>1. 0 \in Times
      BY DEF Times
    <3> QED
      BY <1>0, <1>9, <3>1 DEF Drop, PagesTypeOK
  <2>2. /\ \A a \in Orders : a # o => stage'[a] = stage[a] /\ created'[a] = created[a]
        /\ stage'[o] = "deleted"
    BY <1>0, <1>9 DEF Drop, PagesTypeOK
  <2>3. "deleted" \notin Statuses
    BY DEF Statuses
  <2> QED
    BY <1>0, <1>9, <2>1, <2>2, <2>3, SameWalk DEF Drop, PagesTypeOK, Times
<1>10. ASSUME Tick PROVE WalkInv'
  <2>1. clock' = clock + 1 /\ clock \in Times /\ clock' \in Times
    BY <1>0, <1>10 DEF Tick, PagesTypeOK, Times
  <2>2. PagesTypeOK' /\ clock =< clock'
    BY <1>0, <1>10, <2>1 DEF Tick, PagesTypeOK, Times
  <2>3. Milli[clock] =< Milli[clock']
    BY <2>1, <2>2
  <2> QED
    BY <1>10, <2>2, <2>3, SameWalk DEF Tick
<1>11. ASSUME UNCHANGED pagesVars PROVE WalkInv'
  <2>1. PagesTypeOK'
    BY <1>0, <1>11 DEF pagesVars, PagesTypeOK
  <2> QED
    BY <1>0, <1>11, <2>1, SameWalk DEF pagesVars, PagesTypeOK, Times
<1> QED
  BY <1>1, <1>2, <1>3, <1>4, <1>5, <1>6, <1>7, <1>8, <1>9, <1>10, <1>11
  DEF PagesNext, WalkNext

(* Nobody else's limit gets between the walk's request and its answer      *)
(* without being noted.                                                    *)
LEMMA LimitStep == WalkInv /\ LimitIsOwn /\ [PagesNext]_pagesVars => LimitIsOwn'
<1> SUFFICES ASSUME WalkInv, LimitIsOwn, [PagesNext]_pagesVars PROVE LimitIsOwn'
  OBVIOUS
<1> USE DEF LimitIsOwn, InRequest
<1>1. CASE Ask
  BY <1>1 DEF Ask
<1>2. CASE Count
  BY <1>2 DEF Count
<1>3. CASE Fetch
  BY <1>3, PageSize DEF Fetch, WalkInv
<1>4. CASE Answer \/ AnswerThrows
  BY <1>4 DEF Answer, AnswerThrows
<1>5. CASE AskElsewhere
  BY <1>5 DEF AskElsewhere, walk
<1>6. CASE \/ Tick \/ \E o \in Orders : Change(o) \/ Drop(o)
           \/ \E O \in SUBSET Orders, status \in Statuses :
                \E when \in [O -> Times] : Insert(O, when, status)
  BY <1>6 DEF Tick, Change, Drop, Insert, walk
<1> QED
  BY <1>1, <1>2, <1>3, <1>4, <1>5, <1>6 DEF PagesNext, WalkNext, pagesVars

LEMMA PagesInitInv == PagesInit => PagesInv
  BY WalkInit DEF PagesInit, PagesInv, LimitIsOwn, InRequest

LEMMA PagesStep == PagesInv /\ [PagesNext]_pagesVars => PagesInv'
  BY WalkKeepsInv, LimitStep DEF PagesInv

(* However the table changes between the requests of a walk and within     *)
(* them, the cursor separates what is shown from what is to come.          *)
THEOREM PagesSafety == PagesSpec => []PagesInv
  BY PagesInitInv, PagesStep, PTL DEF PagesSpec

LEMMA NotTwice == PagesInv => NoOrderTwice
  BY DEF PagesInv, WalkInv, NoOrderTwice, PageIsAhead, OnPage

LEMMA MissesCutsOnly == PagesInv => OnlyCutsAreMissed
  BY DEF PagesInv, WalkInv, OnlyCutsAreMissed, SteadyIsCovered, Covered, OnPage, PageIsAhead

(* No walk shows an order twice, whatever the limit and whatever happens   *)
(* to the orders meanwhile (orders.service.ts:226-235).                    *)
THEOREM ShownOnce == PagesSpec => []NoOrderTwice
  BY NotTwice, PagesSafety, PTL

(* What a walk misses of the orders that were there all along shares its   *)
(* millisecond with the end of a page (orders.service.ts:231-234).         *)
THEOREM MissedAtCuts == PagesSpec => []OnlyCutsAreMissed
  BY MissesCutsOnly, PagesSafety, PTL

-----------------------------------------------------------------------------
(* The number of pages. *)

LEMMA Division ==
  ASSUME NEW n \in Nat, NEW l \in Nat \ {0}
  PROVE  /\ n \div l \in Nat /\ n % l \in 0 .. l - 1
         /\ n = l * (n \div l) + (n % l)
  OBVIOUS

(* The rounded quotient, and the one more without a remainder, are both    *)
(* one more than the quotient.                                             *)
LEMMA CountOfPagesIs ==
  ASSUME NEW n \in Nat, NEW l \in Nat \ {0}
  PROVE  CountOfPages(n, l) = n \div l + 1
<1> DEFINE q == n \div l
           m == n % l
           a == n + l - 1
           k == a \div l
           e == a % l
<1>1. q \in Nat /\ m \in 0 .. l - 1 /\ n = l * q + m
  BY Division
<1>2. k \in Nat /\ e \in 0 .. l - 1 /\ a = l * k + e
  <2>1. a \in Nat
    OBVIOUS
  <2> HIDE DEF a
  <2> QED
    BY <2>1, Division
<1>3. CountOfPages(n, l) = IF m # 0 THEN k ELSE k + 1
  BY DEF CountOfPages
<1> HIDE DEF q, m, k, e
<1>4. CASE m = 0
  <2>1. l * (k - q) = l - 1 - e
    BY <1>1, <1>2, <1>4
  <2>2. k = q
    BY <1>1, <1>2, <2>1
  <2> QED
    BY <1>1, <1>3, <1>4, <2>2 DEF q
<1>5. CASE m # 0
  <2>1. l * (k - q - 1) = m - 1 - e
    BY <1>1, <1>2
  <2>2. k = q + 1
    BY <1>1, <1>2, <1>5, <2>1
  <2> QED
    BY <1>3, <1>5, <2>2 DEF q
<1> QED
  BY <1>4, <1>5

LEMMA ToldFits == PagesInv => ToldPagesFit
<1> SUFFICES ASSUME PagesInv, step = "answering"
             PROVE  (Told - 1) * limitFirst =< counted /\ counted < Told * limitFirst
  BY DEF ToldPagesFit, PagesInv, LimitIsOwn, InRequest
<1>1. counted \in Nat /\ limitFirst \in Nat \ {0}
  BY DEF PagesInv, WalkInv, PagesTypeOK
<1> DEFINE q == counted \div limitFirst
<1>2. Told = q + 1
  BY <1>1, CountOfPagesIs DEF Told
<1>3. q \in Nat /\ counted % limitFirst \in 0 .. limitFirst - 1
      /\ counted = limitFirst * q + (counted % limitFirst)
  BY <1>1, Division
<1> HIDE DEF q
<1> QED
  BY <1>1, <1>2, <1>3

(* The number of pages a client is told has room for all orders counted,   *)
(* and no page too many but the last, which is then short or empty, for    *)
(* the limit in limitFirst: the walk's own, unless another request's came  *)
(* between; and no page is longer than the walk asked for                  *)
(* (orders.service.ts:213-246).                                            *)
THEOREM PagesFit == PagesSpec => []ToldPagesFit
  BY ToldFits, PagesSafety, PTL
=============================================================================
