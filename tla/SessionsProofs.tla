--------------------------- MODULE SessionsProofs ---------------------------
(* Proofs about Sessions, for every set of requests and users, every       *)
(* lifetime of tokens and every combination of faults.                     *)
EXTENDS Sessions, TLAPS

USE SessionsAssumption
USE DEF InHandler, Phases, Answers, HasRow, Active, GoTo, table, received, InGuard,
        InExchange, WasActive

(* What every step leaves true of the table: the body of EndedForGood. *)
RowsLast ==
  \A t \in Tokens : HasRow(t) => /\ row'[t] \in {row[t], "inactive"}
                                 /\ created'[t] = created[t]

(* What SafetyInv says of one request. *)
Refused(r) ==
  /\ answer[r] = "session" /\ asked[r].kind = "refresh"
       => asked[r].refreshToken \in before[r] \union {Unset}
  /\ answer[r] = "served" /\ ~asked[r].refresh_token
       => asked[r].bearer \in before[r]
Ended(r) ==
  /\ answer[r] \in {"session", "Revoked"} =>
       \A t \in before[r] : row[t] = "inactive"
  /\ answer[r] = "session" /\ asked[r].kind = "refresh" =>
       row[found[r]] = "inactive"
Agrees(r) == Arrived(r) /\ Guarded(r) /\ Replacing(r) /\ Refused(r) /\ Ended(r)

LEMMA SafetyByRequest ==
  SafetyInv <=> /\ TypeOK
                /\ \A t \in given : HasRow(t)
                /\ \A r \in Requests : Agrees(r)
  BY DEF SafetyInv, RequestsAgree, StaleIsRefused, SessionsEnd, Refused, Ended, Agrees

LEMMA SafetyByRequestNext ==
  ASSUME TypeOK', (\A t \in given : HasRow(t))', \A r \in Requests : Agrees(r)'
  PROVE  SafetyInv'
  BY DEF SafetyInv, RequestsAgree, StaleIsRefused, SessionsEnd, Refused, Ended, Agrees

(* The requests that arrive. *)
Arrives(r) ==
  \/ \E u \in Users : LogIn(r, u)
  \/ \E t \in Tokens, field \in BOOLEAN :
       \/ Call(r, t, field)
       \/ \E body \in Tokens \union {Unset} : Refresh(r, t, body, field)

(* The steps of a request's handler. *)
Handles(r) ==
  \/ ValidateUser(r)
  \/ Look(r) \/ Admit(r) \/ TurnAway(r)
  \/ Exchange(r) \/ Weigh(r) \/ Revoke(r)
  \/ Clear(r) \/ Insert(r) \/ InsertRefused(r)
  \/ StatementFails(r)

LEMMA StepShapes ==
  ASSUME [Next]_vars
  PROVE  \/ \E r \in Requests : Arrives(r) \/ Handles(r)
         \/ Tick \/ Crash \/ UNCHANGED vars
  BY DEF Next, Arrives, Handles, Quiescent

LEMMA ArrivesShape ==
  ASSUME NEW r \in Requests, Arrives(r), SafetyInv
  PROVE  \E a \in Asked :
           /\ Receive(r, a)
           /\ UNCHANGED <<clock, table, given, found, fresh, answer>>
           /\ \/ pc' = [pc EXCEPT ![r] = "validating"] /\ a.kind = "login"
              \/ /\ pc' = [pc EXCEPT ![r] = "looking"]
                 /\ a.kind \in {"call", "refresh"}
                 /\ a.bearer \in given /\ UserOf(a.bearer) = a.user
                 /\ a.refreshToken \in given \union {Unset}
<1>1. CASE \E u \in Users : LogIn(r, u)
  <2>1. PICK u \in Users : LogIn(r, u)
    BY <1>1
  <2> DEFINE b == [kind |-> "login", user |-> u, bearer |-> Unset,
                   refreshToken |-> Unset, refresh_token |-> FALSE]
  <2>2. b \in Asked /\ b.kind = "login"
    BY DEF Asked
  <2>3. /\ Receive(r, b)
        /\ UNCHANGED <<clock, table, given, found, fresh, answer>>
        /\ pc' = [pc EXCEPT ![r] = "validating"]
    BY <2>1 DEF LogIn
  <2> HIDE DEF b
  <2> QED
    BY <2>2, <2>3
<1>2. ASSUME NEW t \in Tokens, UserOf(t) \in Users
      PROVE  /\ \A field \in BOOLEAN :
                  [kind |-> "call", user |-> UserOf(t), bearer |-> t,
                   refreshToken |-> Unset, refresh_token |-> field] \in Asked
             /\ \A field \in BOOLEAN, body \in Tokens \union {Unset} :
                  [kind |-> "refresh", user |-> UserOf(t), bearer |-> t,
                   refreshToken |-> body, refresh_token |-> field] \in Asked
  BY <1>2 DEF Asked
<1>3. \A t \in Tokens : UserOf(t) \in Users
  BY DEF Tokens, UserOf
<1>4. CASE \E t \in Tokens, field \in BOOLEAN : Call(r, t, field)
  BY <1>2, <1>3, <1>4 DEF Call
<1>5. CASE \E t \in Tokens, field \in BOOLEAN, body \in Tokens \union {Unset} :
             Refresh(r, t, body, field)
  BY <1>2, <1>3, <1>5 DEF Refresh
<1> QED
  BY <1>1, <1>4, <1>5 DEF Arrives

-----------------------------------------------------------------------------
(* Types. *)

LEMMA DeactivateType ==
  ASSUME NEW u, TypeOK, Deactivate(u)
  PROVE  row' \in [Tokens -> {"none", "active", "inactive"}]
  BY DEF Deactivate, TypeOK

LEMMA SignType ==
  ASSUME NEW r \in Requests, TypeOK, asked[r] \in Asked, Sign(r)
  PROVE  /\ fresh' \in [Requests -> Tokens \union {Unset}]
         /\ fresh'[r] \in Tokens
         /\ pc' \in [Requests -> Phases]
  BY DEF Sign, TypeOK, Tokens, Asked

LEMMA TypeStep == SafetyInv /\ [Next]_vars => TypeOK'
<1> SUFFICES ASSUME SafetyInv, [Next]_vars
             PROVE  TypeOK'
  OBVIOUS
<1>0. TypeOK /\ \A r \in Requests : Agrees(r)
  BY SafetyByRequest
<1>a. \A r \in Requests : pc[r] # "idle" => asked[r] \in Asked
  BY <1>0 DEF Agrees, Arrived
<1> USE <1>0 DEF TypeOK
<1>1. ASSUME NEW r \in Requests, Arrives(r) PROVE TypeOK'
  <2>1. PICK a \in Asked :
          /\ Receive(r, a)
          /\ UNCHANGED <<clock, table, given, found, fresh, answer>>
          /\ \/ pc' = [pc EXCEPT ![r] = "validating"]
             \/ pc' = [pc EXCEPT ![r] = "looking"]
    BY <1>1, ArrivesShape
  <2>2. ActiveOf(a.user) \in SUBSET Tokens
    BY DEF ActiveOf
  <2> QED
    BY <2>1, <2>2 DEF Receive
<1>2. ASSUME NEW r \in Requests, ValidateUser(r) PROVE TypeOK'
  <2>1. CASE Sign(r) /\ UNCHANGED answer
    BY <1>2, <1>a, <2>1, SignType DEF ValidateUser
  <2>2. CASE \E refusal \in {"NotFound", "Unauthorized"} : Answer(r, refusal) /\ UNCHANGED fresh
    BY <1>2, <2>2 DEF ValidateUser, Answer
  <2> QED
    BY <1>2, <2>1, <2>2 DEF ValidateUser
<1>3. ASSUME NEW r \in Requests, Look(r) PROVE TypeOK'
  <2>1. asked[r].bearer \in Tokens
    BY <1>3 DEF Look, Agrees, Guarded
  <2> QED
    BY <1>3, <2>1 DEF Look, Read
<1>4. ASSUME NEW r \in Requests, Admit(r) \/ TurnAway(r) PROVE TypeOK'
  BY <1>4 DEF Admit, TurnAway, Answer
<1>5. ASSUME NEW r \in Requests, Exchange(r) PROVE TypeOK'
  BY <1>5 DEF Exchange, FindToken, Matches, Read
<1>6. ASSUME NEW r \in Requests, Weigh(r) PROVE TypeOK'
  BY <1>6, <1>a, SignType DEF Weigh
<1>7. ASSUME NEW r \in Requests, Revoke(r) \/ Clear(r) PROVE TypeOK'
  BY <1>7, DeactivateType DEF Revoke, Clear, Answer
<1>8. ASSUME NEW r \in Requests, Insert(r) PROVE TypeOK'
  <2>1. fresh[r] \in Tokens
    BY <1>8 DEF Insert, Agrees, Replacing
  <2> QED
    BY <1>8, <2>1 DEF Insert, InsertRow, Answer
<1>9. ASSUME NEW r \in Requests, InsertRefused(r) PROVE TypeOK'
  BY <1>9 DEF InsertRefused
<1>10. ASSUME NEW r \in Requests, StatementFails(r) PROVE TypeOK'
  <2>1. /\ row' \in [Tokens -> {"none", "active", "inactive"}]
        /\ created' \in [Tokens -> Seconds]
    <3>1. CASE UNCHANGED table
      BY <3>1
    <3>2. CASE Deactivate(asked[r].user) /\ UNCHANGED created
      BY <3>2, DeactivateType
    <3>3. CASE InsertRow(fresh[r])
      BY <3>3 DEF InsertRow
    <3> QED
      BY <1>10, <3>1, <3>2, <3>3 DEF StatementFails
  <2> QED
    BY <1>10, <2>1 DEF StatementFails
<1>11. ASSUME Tick PROVE TypeOK'
  BY <1>11 DEF Tick, Seconds
<1>12. ASSUME Crash PROVE TypeOK'
  BY <1>12 DEF Crash
<1>13. ASSUME UNCHANGED vars PROVE TypeOK'
  BY <1>13 DEF vars
<1> QED
  BY StepShapes, <1>1, <1>2, <1>3, <1>4, <1>5, <1>6, <1>7, <1>8, <1>9, <1>10,
     <1>11, <1>12, <1>13 DEF Handles

-----------------------------------------------------------------------------
(* Rows only end. *)

LEMMA RowsLastStep ==
  ASSUME SafetyInv, [Next]_vars
  PROVE  RowsLast /\ \A t \in given' : HasRow(t)'
<1>1. /\ TypeOK
      /\ \A t \in given : HasRow(t)
      /\ \A r \in Requests : Agrees(r)
  BY SafetyByRequest
<1> DEFINE Goal == RowsLast /\ \A t \in given' : HasRow(t)'
<1> USE <1>1 DEF TypeOK, RowsLast
<1>2. ASSUME NEW u, Deactivate(u), UNCHANGED <<created, given>> PROVE Goal
  BY <1>2 DEF Deactivate
<1>3. ASSUME NEW r \in Requests, pc[r] = "inserting", InsertRow(fresh[r]),
             given' \in {given, given \union {fresh[r]}}
      PROVE  Goal
  <2>1. fresh[r] \in Tokens
    BY <1>3 DEF Agrees, Replacing
  <2> QED
    BY <1>3, <2>1 DEF InsertRow
<1>4. ASSUME UNCHANGED <<table, given>> PROVE Goal
  BY <1>4
<1>5. ASSUME NEW r \in Requests, Arrives(r) PROVE Goal
  BY <1>4, <1>5, ArrivesShape
<1>6. ASSUME NEW r \in Requests, Handles(r) PROVE Goal
  <2>1. CASE Revoke(r) \/ Clear(r)
    BY <1>2, <2>1 DEF Revoke, Clear
  <2>2. CASE Insert(r)
    BY <1>3, <2>2 DEF Insert
  <2>3. CASE StatementFails(r)
    <3>1. UNCHANGED given
      BY <2>3 DEF StatementFails
    <3>2. \/ UNCHANGED table
          \/ Deactivate(asked[r].user) /\ UNCHANGED created
          \/ pc[r] = "inserting" /\ InsertRow(fresh[r])
      BY <2>3 DEF StatementFails
    <3> QED
      BY <1>2, <1>3, <1>4, <3>1, <3>2
  <2>4. CASE ValidateUser(r) \/ Look(r) \/ Admit(r) \/ TurnAway(r) \/ Exchange(r)
               \/ Weigh(r) \/ InsertRefused(r)
    BY <1>4, <2>4
    DEF ValidateUser, Look, Admit, TurnAway, Exchange, Weigh, InsertRefused
  <2> QED
    BY <1>6, <2>1, <2>2, <2>3, <2>4 DEF Handles
<1> QED
  BY StepShapes, <1>4, <1>5, <1>6 DEF Tick, Crash, vars

-----------------------------------------------------------------------------
(* A request that takes no step keeps what holds of it. *)

LEMMA AgreesLasts ==
  ASSUME NEW r \in Requests, TypeOK, TypeOK', Agrees(r), RowsLast,
         UNCHANGED <<pc[r], asked[r], before[r], found[r], fresh[r], answer[r]>>
  PROVE  Agrees(r)'
<1> USE DEF TypeOK, RowsLast
<1>1. before[r] \in SUBSET Tokens /\ found[r] \in Tokens \union {Unset}
  OBVIOUS
<1>2. pc[r] # "idle" => asked[r].refreshToken \in Tokens \union {Unset}
  BY DEF Agrees, Arrived, Asked
<1>3. Arrived(r)'
  BY <1>1 DEF Agrees, Arrived
<1>4. Guarded(r)'
  BY <1>1, <1>2 DEF Agrees, Guarded
<1>5. Replacing(r)'
  <2>1. Exchanged(r) /\ found[r] \in Tokens => Exchanged(r)'
    BY DEF Exchanged
  <2>2. \A t \in Tokens : row[t] = "inactive" => row'[t] = "inactive"
    OBVIOUS
  <2> QED
    BY <1>1, <2>1, <2>2 DEF Agrees, Replacing
<1>6. Refused(r)'
  BY DEF Agrees, Refused
<1>7. Ended(r)'
  <2>1. answer[r] = "session" /\ asked[r].kind = "refresh" => found[r] \in Tokens
    BY DEF Agrees, Arrived
  <2> QED
    BY <1>1, <2>1 DEF Agrees, Ended
<1> QED
  BY <1>3, <1>4, <1>5, <1>6, <1>7 DEF Agrees

-----------------------------------------------------------------------------
(* A request that takes a step. *)

LEMMA AgreesArrives ==
  ASSUME NEW r \in Requests, SafetyInv, TypeOK', Arrives(r)
  PROVE  Agrees(r)'
<1>1. TypeOK /\ Agrees(r) /\ \A t \in given : HasRow(t)
  BY SafetyByRequest
<1> USE <1>1 DEF TypeOK
<1>2. PICK a \in Asked :
        /\ Receive(r, a)
        /\ UNCHANGED <<clock, table, given, found, fresh, answer>>
        /\ \/ pc' = [pc EXCEPT ![r] = "validating"] /\ a.kind = "login"
           \/ /\ pc' = [pc EXCEPT ![r] = "looking"]
              /\ a.kind \in {"call", "refresh"}
              /\ a.bearer \in given /\ UserOf(a.bearer) = a.user
              /\ a.refreshToken \in given \union {Unset}
  BY ArrivesShape
<1>3. /\ asked'[r] = a
      /\ before'[r] = ActiveOf(a.user)
      /\ answer'[r] = "none"
      /\ UNCHANGED row
      /\ pc'[r] \in {"validating", "looking"}
      /\ pc'[r] = "validating" => a.kind = "login"
  BY <1>2 DEF Receive, Agrees, Arrived
<1>4. ASSUME NEW t \in given, UserOf(t) = a.user
      PROVE  t \in ActiveOf(a.user) \/ row[t] = "inactive"
  BY <1>4 DEF ActiveOf
<1>5. Guarded(r)'
  BY <1>2, <1>3, <1>4 DEF Guarded
<1>6. Arrived(r)'
  BY <1>3 DEF Arrived, ActiveOf
<1> QED
  BY <1>3, <1>5, <1>6 DEF Agrees, Replacing, Refused, Ended

LEMMA AgreesHandles ==
  ASSUME NEW r \in Requests, SafetyInv, TypeOK', RowsLast, Handles(r)
  PROVE  Agrees(r)'
<1>1. TypeOK /\ Agrees(r) /\ \A t \in given : HasRow(t)
  BY SafetyByRequest
<1> USE <1>1 DEF TypeOK
<1>2. /\ pc[r] \in InHandler
      /\ UNCHANGED received
  BY DEF Handles, ValidateUser, Look, Admit, TurnAway, Exchange, Weigh, Revoke, Clear,
         Insert, InsertRefused, StatementFails
<1>3. /\ asked[r] \in Asked
      /\ \A t \in before[r] : HasRow(t) /\ UserOf(t) = asked[r].user
      /\ answer[r] = "none"
  BY <1>2 DEF Agrees, Arrived
<1>4. \A t \in before'[r] : HasRow(t)' /\ UserOf(t) = asked'[r].user
  BY <1>2, <1>3 DEF RowsLast
<1>a. asked[r].user \in Users /\ asked[r].refreshToken \in Tokens \union {Unset}
  BY <1>3 DEF Asked
<1> DEFINE a == asked[r]
<1>5. CASE ValidateUser(r)
  <2>1. a.kind = "login"
    BY <1>5 DEF ValidateUser, Agrees, Replacing
  <2>2. CASE Sign(r) /\ UNCHANGED answer
    <3>1. fresh'[r] \in Tokens /\ pc'[r] = "clearing" /\ answer'[r] = "none"
      BY <1>3, <2>2, SignType DEF Sign
    <3> QED
      BY <1>2, <1>3, <1>4, <2>1, <3>1 DEF Agrees, Arrived, Guarded, Replacing, Refused, Ended
  <2>3. CASE \E refusal \in {"NotFound", "Unauthorized"} : Answer(r, refusal) /\ UNCHANGED fresh
    <3>1. pc'[r] = "answered" /\ answer'[r] \in {"NotFound", "Unauthorized"}
      BY <2>3 DEF Answer
    <3> QED
      BY <1>2, <1>3, <1>4, <3>1 DEF Agrees, Arrived, Guarded, Replacing, Refused, Ended
  <2> QED
    BY <1>5, <2>2, <2>3 DEF ValidateUser
<1>6. CASE Look(r)
  <2>1. /\ a.bearer \in Tokens
        /\ WasActive(r, a.bearer)
        /\ UNCHANGED <<row, answer>>
    BY <1>6 DEF Look, Agrees, Guarded
  <2>2. found'[r] # Unset => found'[r] = a.bearer /\ found'[r] \in before[r]
    BY <1>6, <2>1 DEF Look, Read
  <2>3. \/ pc[r] = "looking" /\ pc'[r] = "admitting"
        \/ pc[r] = "lookingAgain" /\ pc'[r] = "admittingAgain"
    BY <1>6 DEF Look
  <2>4. Guarded(r)'
    BY <1>2, <2>1, <2>2, <2>3 DEF Agrees, Guarded
  <2> QED
    BY <1>2, <1>3, <1>4, <2>1, <2>3, <2>4 DEF Agrees, Arrived, Replacing, Refused, Ended
<1>7. CASE Admit(r)
  <2>1. /\ pc[r] \in {"admitting", "admittingAgain"}
        /\ UNCHANGED <<row, found>>
        /\ found[r] # Unset \/ a.refresh_token
    BY <1>7 DEF Admit, Passes
  <2>2. CASE a.kind = "call" /\ Answer(r, "served")
    <3>1. pc'[r] = "answered" /\ answer'[r] = "served"
      BY <2>2 DEF Answer
    <3>2. ~a.refresh_token => a.bearer \in before[r]
      BY <2>1 DEF Agrees, Guarded
    <3> QED
      BY <1>2, <1>3, <1>4, <3>1, <3>2 DEF Agrees, Arrived, Guarded, Replacing, Refused, Ended
  <2>3. CASE a.kind = "refresh" /\ UNCHANGED answer
    <3>1. pc'[r] \in {"lookingAgain", "exchanging"} /\ answer'[r] = "none"
      BY <1>3, <1>7, <2>3 DEF Admit
    <3>2. Guarded(r)'
      BY <1>2, <2>1, <2>3, <3>1 DEF Agrees, Guarded
    <3> QED
      BY <1>2, <1>3, <1>4, <3>1, <3>2 DEF Agrees, Arrived, Replacing, Refused, Ended
  <2> QED
    BY <1>7, <2>2, <2>3 DEF Admit
<1>8. CASE TurnAway(r)
  <2>1. pc'[r] = "answered" /\ answer'[r] = "Unauthorized"
    BY <1>8 DEF TurnAway, Answer
  <2> QED
    BY <1>2, <1>3, <1>4, <2>1 DEF Agrees, Arrived, Guarded, Replacing, Refused, Ended
<1>9. CASE Exchange(r)
  <2>1. /\ pc[r] = "exchanging" /\ pc'[r] = "weighing"
        /\ UNCHANGED <<row, answer>>
    BY <1>9 DEF Exchange
  <2>2. Guarded(r)'
    BY <1>2, <2>1 DEF Agrees, Guarded
  <2>3. found'[r] = Unset \/ Exchanged(r)'
    <3>1. CASE found'[r] = Unset
      BY <3>1
    <3>2. CASE found'[r] # Unset
      <4>1. /\ found'[r] \in Matches(r)
            /\ Active(found'[r])
        BY <1>9, <3>2 DEF Exchange, FindToken, Read
      <4>2. /\ found'[r] \in Tokens
            /\ HasRow(found'[r])
            /\ UserOf(found'[r]) = a.user
            /\ a.refreshToken \in {found'[r], Unset}
        BY <4>1 DEF Matches
      <4>3. a.refreshToken # Unset => found'[r] \in before[r]
        BY <2>1, <4>1, <4>2 DEF Agrees, Guarded
      <4> QED
        BY <1>2, <2>1, <4>2, <4>3 DEF Exchanged
    <3> QED
      BY <3>1, <3>2
  <2> QED
    BY <1>2, <1>3, <1>4, <2>1, <2>2, <2>3 DEF Agrees, Arrived, Replacing, Refused, Ended
<1>10. CASE Weigh(r)
  <2>1. /\ pc[r] = "weighing"
        /\ a.kind = "refresh"
        /\ UNCHANGED <<row, found, answer>>
    BY <1>10 DEF Weigh, Agrees, Guarded
  <2>2. CASE Exchangeable(r) /\ Sign(r)
    <3>1. /\ fresh'[r] \in Tokens /\ pc'[r] = "clearing"
          /\ found[r] \in Tokens
      <4>1. fresh'[r] \in Tokens
        BY <1>3, <2>2, SignType
      <4>2. pc'[r] = "clearing"
        BY <2>2 DEF Sign
      <4>3. found[r] \in Tokens
        BY <2>2 DEF Exchangeable
      <4> QED
        BY <4>1, <4>2, <4>3
    <3>2. Exchanged(r)
      BY <2>1, <2>2 DEF Agrees, Replacing, Exchangeable
    <3>3. Exchanged(r)'
      BY <1>2, <2>1, <3>2 DEF Exchanged
    <3> QED
      BY <1>2, <1>3, <1>4, <2>1, <3>1, <3>3
      DEF Agrees, Arrived, Guarded, Replacing, Refused, Ended
  <2>3. CASE pc'[r] = "revoking"
    <3>1. Guarded(r)'
      BY <1>2, <2>1, <2>3 DEF Agrees, Guarded
    <3> QED
      BY <1>2, <1>3, <1>4, <2>1, <2>3, <3>1 DEF Agrees, Arrived, Replacing, Refused, Ended
  <2> QED
    BY <1>10, <2>2, <2>3 DEF Weigh
<1>11. CASE Revoke(r)
  <2>1. pc'[r] = "answered" /\ answer'[r] = "Revoked"
    BY <1>11 DEF Revoke, Answer
  <2>2. \A t \in before[r] : row'[t] = "inactive"
    BY <1>3, <1>11 DEF Revoke, Deactivate
  <2> QED
    BY <1>2, <1>3, <1>4, <2>1, <2>2 DEF Agrees, Arrived, Guarded, Replacing, Refused, Ended
<1>12. CASE Clear(r)
  <2>1. /\ pc[r] = "clearing" /\ pc'[r] = "inserting"
        /\ UNCHANGED <<found, fresh, answer>>
    BY <1>12 DEF Clear
  <2>2. /\ a.kind \in {"login", "refresh"}
        /\ fresh[r] \in Tokens
        /\ a.kind = "refresh" => found[r] \in Tokens /\ Exchanged(r)
    BY <2>1 DEF Agrees, Replacing
  <2>3. \A t \in before[r] : row'[t] = "inactive"
    BY <1>3, <1>12 DEF Clear, Deactivate
  <2>4. a.kind = "refresh" => row'[found[r]] = "inactive"
    BY <1>12, <2>2 DEF Clear, Deactivate, Exchanged
  <2>5. a.kind = "refresh" => Exchanged(r)'
    BY <1>2, <2>1, <2>2, <2>4 DEF Exchanged
  <2> QED
    BY <1>2, <1>3, <1>4, <2>1, <2>2, <2>3, <2>4, <2>5
    DEF Agrees, Arrived, Guarded, Replacing, Refused, Ended
<1>13. CASE Insert(r)
  <2>1. /\ pc[r] = "inserting" /\ pc'[r] = "answered" /\ answer'[r] = "session"
        /\ UNCHANGED found
    BY <1>13 DEF Insert, Answer
  <2>2. /\ \A t \in before[r] : row[t] = "inactive"
        /\ a.kind = "refresh" =>
             found[r] \in Tokens /\ Exchanged(r) /\ row[found[r]] = "inactive"
    BY <2>1 DEF Agrees, Replacing
  <2>3. \A t \in Tokens : row[t] = "inactive" => row'[t] = "inactive"
    BY DEF RowsLast
  <2>4. Ended(r)'
    BY <1>2, <2>1, <2>2, <2>3 DEF Ended
  <2>5. Refused(r)'
    BY <1>2, <2>1, <2>2 DEF Refused, Exchanged
  <2> QED
    BY <1>2, <1>3, <1>4, <2>1, <2>2, <2>4, <2>5 DEF Agrees, Arrived, Guarded, Replacing
<1>14. CASE InsertRefused(r) \/ StatementFails(r)
  <2>1. pc'[r] = "unanswered" /\ answer'[r] = "none"
    BY <1>3, <1>14 DEF InsertRefused, StatementFails
  <2> QED
    BY <1>2, <1>3, <1>4, <2>1 DEF Agrees, Arrived, Guarded, Replacing, Refused, Ended
<1> QED
  BY <1>5, <1>6, <1>7, <1>8, <1>9, <1>10, <1>11, <1>12, <1>13, <1>14 DEF Handles

-----------------------------------------------------------------------------
(* The invariant. *)

LEMMA OthersWait ==
  ASSUME NEW r \in Requests, NEW q \in Requests, q # r, TypeOK, SafetyInv,
         Arrives(r) \/ Handles(r)
  PROVE  UNCHANGED <<pc[q], asked[q], before[q], found[q], fresh[q], answer[q]>>
<1> USE DEF TypeOK
<1>1. CASE Arrives(r)
  BY <1>1, ArrivesShape DEF Receive
<1>2. CASE Handles(r)
  BY <1>2
  DEF Handles, ValidateUser, Look, Admit, TurnAway, Exchange, Weigh, Revoke, Clear,
      Insert, InsertRefused, StatementFails, Answer, Sign, Read, FindToken
<1> QED
  BY <1>1, <1>2

LEMMA SafetyStep == SafetyInv /\ [Next]_vars => SafetyInv'
<1> SUFFICES ASSUME SafetyInv, [Next]_vars, NEW q \in Requests
             PROVE  Agrees(q)'
  BY TypeStep, RowsLastStep, SafetyByRequestNext
<1>1. /\ TypeOK /\ TypeOK' /\ RowsLast
      /\ \A r \in Requests : Agrees(r)
  BY SafetyByRequest, TypeStep, RowsLastStep
<1>2. ASSUME UNCHANGED <<pc[q], asked[q], before[q], found[q], fresh[q], answer[q]>>
      PROVE  Agrees(q)'
  BY <1>1, <1>2, AgreesLasts
<1>3. ASSUME NEW r \in Requests, Arrives(r) \/ Handles(r) PROVE Agrees(q)'
  <2>1. CASE q # r
    BY <1>1, <1>2, <1>3, <2>1, OthersWait
  <2>2. CASE q = r
    BY <1>1, <1>3, <2>2, AgreesArrives, AgreesHandles
  <2> QED
    BY <2>1, <2>2
<1>4. ASSUME Tick PROVE Agrees(q)'
  BY <1>2, <1>4 DEF Tick
<1>5. ASSUME Crash PROVE Agrees(q)'
  <2>1. CASE pc[q] \in InHandler
    <3>1. /\ pc'[q] = "dead"
          /\ UNCHANGED <<asked, before, found, answer, row>>
          /\ answer[q] = "none"
      BY <1>1, <1>5, <2>1 DEF Crash, TypeOK, Agrees, Arrived
    <3> QED
      BY <1>1, <2>1, <3>1 DEF Agrees, Arrived, Guarded, Replacing, Refused, Ended
  <2>2. CASE pc[q] \notin InHandler
    BY <1>1, <1>2, <1>5, <2>2 DEF Crash, TypeOK
  <2> QED
    BY <2>1, <2>2
<1>6. ASSUME UNCHANGED vars PROVE Agrees(q)'
  BY <1>2, <1>6 DEF vars
<1> QED
  BY StepShapes, <1>3, <1>4, <1>5, <1>6

LEMMA SafetyInit == Init => SafetyInv
  BY DEF Init, SafetyInv, TypeOK, RequestsAgree, Arrived, Guarded, Replacing,
         StaleIsRefused, SessionsEnd, Seconds

-----------------------------------------------------------------------------
(* The theorems. *)

(* Whatever requests interleave, fail or are cut short: what was           *)
(* deactivated before a request arrived gets it neither a session nor in,  *)
(* and a new session, or a refused exchange, ends those the user had when  *)
(* the request arrived (auth.service.ts:30-74, jwt.strategy.ts:26-58).     *)
THEOREM Safety == Spec => []SafetyInv
  BY SafetyInit, SafetyStep, PTL DEF Spec

(* Of its conjuncts: a deactivated token is refused                        *)
(* (auth.service.ts:55-71, jwt.strategy.ts:41-46).                         *)
THEOREM StaleRefused == Spec => []StaleIsRefused
<1>1. SafetyInv => StaleIsRefused
  BY DEF SafetyInv
<1> QED
  BY <1>1, Safety, PTL

(* And a token is good for one exchange (auth.service.ts:34-42).           *)
THEOREM SessionsAreReplaced == Spec => []SessionsEnd
<1>1. SafetyInv => SessionsEnd
  BY DEF SafetyInv
<1> QED
  BY <1>1, Safety, PTL

(* A row once inactive stays so, at the age it had                         *)
(* (refreshTokens.entity.ts:13, auth.service.ts:34-42).                    *)
THEOREM EndsForGood == Spec => EndedForGood
<1>1. SafetyInv /\ [Next]_vars
        => [\A t \in Tokens : HasRow(t) => /\ row'[t] \in {row[t], "inactive"}
                                           /\ created'[t] = created[t]]_vars
  BY RowsLastStep DEF RowsLast
<1> QED
  BY <1>1, Safety, PTL DEF Spec, EndedForGood
=============================================================================
