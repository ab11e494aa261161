------------------------------ MODULE Sessions ------------------------------
(***************************************************************************)
(* Logging in, refreshing, and the guard of every other request.           *)
(*                                                                         *)
(* An access token names its user and the second it was signed in, and its *)
(* SHA-256 hash is the refresh token: one token of the model is both, and  *)
(* table refresh_token has at most one row for it (unique index).  login   *)
(* deactivates the user's rows and inserts the new one in two statements;  *)
(* the guard and refreshToken read a row before an await and act on it     *)
(* after.  Nothing deletes users or rows.  Throttled requests never reach  *)
(* this code, and roles, which nothing changes, are left out.              *)
(***************************************************************************)
EXTENDS Integers

CONSTANTS
  Requests,     \* HTTP requests
  Users,        \* ids of users
  AccessLife,   \* expiresIn of auth.module.ts, in seconds
  RefreshLife,  \* the ten days of auth.service.ts, in seconds
  MaxTime,      \* bound: the clock stops there
  Faults,       \* what may go wrong: some of "database", "crash"
  Unset         \* no value

Seconds == 0 .. MaxTime
Tokens == Users \X Seconds
UserOf(t) == t[1]
SignedAt(t) == t[2]

ASSUME SessionsAssumption ==
  /\ AccessLife \in Nat /\ RefreshLife \in Nat /\ MaxTime \in Nat
  /\ Unset \notin Users \union Tokens
  /\ Faults \subseteq {"database", "crash"}

VARIABLES
  clock,    \* the time, in seconds
  row,      \* is_active of each token's row, "none" without a row
  created,  \* created_at of each token's row
  given,    \* tokens that clients hold
  pc,       \* where each request's handler stands
  asked,    \* what each request asks for
  before,   \* history: active rows of the request's user when it arrived
  found,    \* the active row the handler read last
  fresh,    \* the token the handler signed
  answer    \* what each request was answered

vars == <<clock, row, created, given, pc, asked, before, found, fresh, answer>>
table == <<row, created>>
received == <<asked, before>>

InHandler == {"validating", "looking", "admitting", "lookingAgain", "admittingAgain",
              "exchanging", "weighing", "revoking", "clearing", "inserting"}
Phases == InHandler \union {"idle", "answered", "unanswered", "dead"}
Answers == {"none", "session", "served", "Unauthorized", "NotFound", "Revoked"}

(* A body may have a field refresh_token, refreshToken, both or neither.   *)
Asked == [kind : {"login", "refresh", "call"}, user : Users,
          bearer : Tokens \union {Unset}, refreshToken : Tokens \union {Unset},
          refresh_token : BOOLEAN]

HasRow(t) == row[t] # "none"
Active(t) == row[t] = "active"
ActiveOf(u) == {t \in Tokens : UserOf(t) = u /\ Active(t)}
Expired(t) == SignedAt(t) + AccessLife <= clock
Young(t) == clock < created[t] + RefreshLife
GoTo(r, p) == pc' = [pc EXCEPT ![r] = p]
Answer(r, v) == GoTo(r, "answered") /\ answer' = [answer EXCEPT ![r] = v]
Read(r, t) == found' = [found EXCEPT ![r] = IF Active(t) THEN t ELSE Unset]

Receive(r, a) ==
  /\ pc[r] = "idle"
  /\ asked' = [asked EXCEPT ![r] = a]
  /\ before' = [before EXCEPT ![r] = ActiveOf(a.user)]

Init ==
  /\ clock = 0
  /\ row = [t \in Tokens |-> "none"]
  /\ created = [t \in Tokens |-> 0]
  /\ given = {}
  /\ pc = [r \in Requests |-> "idle"]
  /\ asked = [r \in Requests |-> Unset]
  /\ before = [r \in Requests |-> {}]
  /\ found = [r \in Requests |-> Unset]
  /\ fresh = [r \in Requests |-> Unset]
  /\ answer = [r \in Requests |-> "none"]

-----------------------------------------------------------------------------
(* login, of POST /auth/login and of the end of POST /auth/refresh. *)

(* jwtService.sign: the same user in the same second, the same token. *)
Sign(r) ==
  /\ fresh' = [fresh EXCEPT ![r] = <<asked[r].user, clock>>]
  /\ GoTo(r, "clearing")

(* Seeded fault: only rows of expired tokens are deactivated. *)
DeactivateExpired(u) ==
  row' = [t \in Tokens |-> IF UserOf(t) = u /\ HasRow(t) /\ Expired(t)
                            THEN "inactive" ELSE row[t]]
Deactivate(u) ==
  row' = [t \in Tokens |-> IF UserOf(t) = u /\ HasRow(t) THEN "inactive" ELSE row[t]]

Clear(r) ==
  /\ pc[r] = "clearing"
  /\ Deactivate(asked[r].user)
  /\ GoTo(r, "inserting")
  /\ UNCHANGED <<clock, created, given, received, found, fresh, answer>>

(* Seeded fault: an upsert in place of the INSERT. *)
UpsertRow(t) ==
  /\ row' = [row EXCEPT ![t] = "active"]
  /\ created' = [created EXCEPT ![t] = clock]
(* The unique index refuses a token that has a row already. *)
InsertRow(t) ==
  /\ ~HasRow(t)
  /\ row' = [row EXCEPT ![t] = "active"]
  /\ created' = [created EXCEPT ![t] = clock]

Insert(r) ==
  /\ pc[r] = "inserting"
  /\ InsertRow(fresh[r])
  /\ given' = given \union {fresh[r]}
  /\ Answer(r, "session")
  /\ UNCHANGED <<clock, received, found, fresh>>

(* QueryFailedError is no HttpException: the filter answers nothing.       *)
InsertRefused(r) ==
  /\ pc[r] = "inserting"
  /\ HasRow(fresh[r])
  /\ GoTo(r, "unanswered")
  /\ UNCHANGED <<clock, table, given, received, found, fresh, answer>>

-----------------------------------------------------------------------------
(* POST /auth/login. *)

LogIn(r, u) ==
  /\ Receive(r, [kind |-> "login", user |-> u, bearer |-> Unset,
                 refreshToken |-> Unset, refresh_token |-> FALSE])
  /\ GoTo(r, "validating")
  /\ UNCHANGED <<clock, table, given, found, fresh, answer>>

(* The login may be unknown, or the password another's. *)
ValidateUser(r) ==
  /\ pc[r] = "validating"
  /\ \/ /\ Sign(r)
        /\ UNCHANGED answer
     \/ /\ \E refusal \in {"NotFound", "Unauthorized"} : Answer(r, refusal)
        /\ UNCHANGED fresh
  /\ UNCHANGED <<clock, table, given, received, found>>

-----------------------------------------------------------------------------
(* The guard: global, and named again by POST /auth/refresh, which so      *)
(* passes it twice.                                                        *)

Call(r, t, field) ==
  /\ t \in given
  /\ Receive(r, [kind |-> "call", user |-> UserOf(t), bearer |-> t,
                 refreshToken |-> Unset, refresh_token |-> field])
  /\ GoTo(r, "looking")
  /\ UNCHANGED <<clock, table, given, found, fresh, answer>>

Refresh(r, t, body, field) ==
  /\ t \in given
  /\ body \in given \union {Unset}
  /\ Receive(r, [kind |-> "refresh", user |-> UserOf(t), bearer |-> t,
                 refreshToken |-> body, refresh_token |-> field])
  /\ GoTo(r, "looking")
  /\ UNCHANGED <<clock, table, given, found, fresh, answer>>

Look(r) ==
  /\ \/ /\ pc[r] = "looking"
        /\ GoTo(r, "admitting")
     \/ /\ pc[r] = "lookingAgain"
        /\ GoTo(r, "admittingAgain")
  /\ Read(r, asked[r].bearer)
  /\ UNCHANGED <<clock, table, given, received, fresh, answer>>

(* An access token that has not expired needs its active row; one that has *)
(* needs a field refresh_token in the body.                                *)
Passes(r) ==
  IF Expired(asked[r].bearer) THEN asked[r].refresh_token ELSE found[r] # Unset

Admit(r) ==
  /\ pc[r] \in {"admitting", "admittingAgain"}
  /\ Passes(r)
  /\ \/ /\ asked[r].kind = "call"
        /\ Answer(r, "served")
     \/ /\ asked[r].kind = "refresh"
        /\ GoTo(r, IF pc[r] = "admitting" THEN "lookingAgain" ELSE "exchanging")
        /\ UNCHANGED answer
  /\ UNCHANGED <<clock, table, given, received, found, fresh>>

TurnAway(r) ==
  /\ pc[r] \in {"admitting", "admittingAgain"}
  /\ ~Passes(r)
  /\ Answer(r, "Unauthorized")
  /\ UNCHANGED <<clock, table, given, received, found, fresh>>

-----------------------------------------------------------------------------
(* POST /auth/refresh, past the guards. *)

(* A field that is absent is no condition: any row of the user will do.    *)
Matches(r) ==
  {t \in Tokens : /\ HasRow(t)
                  /\ UserOf(t) = asked[r].user
                  /\ asked[r].refreshToken \in {t, Unset}}

(* Seeded fault: a row is taken whether it is active or not. *)
FindAnyToken(r) ==
  \/ \E t \in Matches(r) : found' = [found EXCEPT ![r] = t]
  \/ /\ Matches(r) = {}
     /\ found' = [found EXCEPT ![r] = Unset]
FindToken(r) ==
  \/ \E t \in Matches(r) : Read(r, t)
  \/ /\ Matches(r) = {}
     /\ found' = [found EXCEPT ![r] = Unset]

Exchange(r) ==
  /\ pc[r] = "exchanging"
  /\ FindToken(r)
  /\ GoTo(r, "weighing")
  /\ UNCHANGED <<clock, table, given, received, fresh, answer>>

Exchangeable(r) == found[r] # Unset /\ Young(found[r])

Weigh(r) ==
  /\ pc[r] = "weighing"
  /\ \/ /\ Exchangeable(r)
        /\ Sign(r)
     \/ /\ ~Exchangeable(r)
        /\ GoTo(r, "revoking")
        /\ UNCHANGED fresh
  /\ UNCHANGED <<clock, table, given, received, found, answer>>

Revoke(r) ==
  /\ pc[r] = "revoking"
  /\ Deactivate(asked[r].user)
  /\ Answer(r, "Revoked")
  /\ UNCHANGED <<clock, created, given, received, found, fresh>>

-----------------------------------------------------------------------------
(* The environment. *)

Tick ==
  /\ clock < MaxTime
  /\ clock' = clock + 1
  /\ UNCHANGED <<table, given, pc, received, found, fresh, answer>>

(* A statement fails, with or without having taken effect. *)
StatementFails(r) ==
  /\ "database" \in Faults
  /\ \/ /\ pc[r] \in {"validating", "looking", "lookingAgain", "exchanging",
                      "revoking", "clearing", "inserting"}
        /\ UNCHANGED table
     \/ /\ pc[r] \in {"revoking", "clearing"}
        /\ Deactivate(asked[r].user)
        /\ UNCHANGED created
     \/ /\ pc[r] = "inserting"
        /\ InsertRow(fresh[r])
  /\ GoTo(r, "unanswered")
  /\ UNCHANGED <<clock, given, received, found, fresh, answer>>

Crash ==
  /\ "crash" \in Faults
  /\ \E r \in Requests : pc[r] \in InHandler
  /\ pc' = [r \in Requests |-> IF pc[r] \in InHandler THEN "dead" ELSE pc[r]]
  /\ UNCHANGED <<clock, table, given, received, found, fresh, answer>>

Quiescent ==
  /\ \A r \in Requests : pc[r] \in {"answered", "unanswered", "dead"}
  /\ UNCHANGED vars

Next ==
  \/ \E r \in Requests :
       \/ \E u \in Users : LogIn(r, u)
       \/ \E t \in Tokens, field \in BOOLEAN :
            \/ Call(r, t, field)
            \/ \E body \in Tokens \union {Unset} : Refresh(r, t, body, field)
       \/ ValidateUser(r)
       \/ Look(r) \/ Admit(r) \/ TurnAway(r)
       \/ Exchange(r) \/ Weigh(r) \/ Revoke(r)
       \/ Clear(r) \/ Insert(r) \/ InsertRefused(r)
       \/ StatementFails(r)
  \/ Tick \/ Crash \/ Quiescent

Spec == Init /\ [][Next]_vars

-----------------------------------------------------------------------------
(* Properties. *)

TypeOK ==
  /\ clock \in Seconds
  /\ row \in [Tokens -> {"none", "active", "inactive"}]
  /\ created \in [Tokens -> Seconds]
  /\ given \in SUBSET Tokens
  /\ pc \in [Requests -> Phases]
  /\ asked \in [Requests -> Asked \union {Unset}]
  /\ before \in [Requests -> SUBSET Tokens]
  /\ found \in [Requests -> Tokens \union {Unset}]
  /\ fresh \in [Requests -> Tokens \union {Unset}]
  /\ answer \in [Requests -> Answers]

(* What was deactivated before a request arrived does not get it in: a     *)
(* refresh token gets no session, an access token is served only by the    *)
(* other way past the guard (jwt.strategy.ts:36-52,                        *)
(* auth.service.ts:51-73).                                                 *)
StaleIsRefused ==
  \A r \in Requests :
    /\ answer[r] = "session" /\ asked[r].kind = "refresh"
         => asked[r].refreshToken \in before[r] \union {Unset}
    /\ answer[r] = "served" /\ ~asked[r].refresh_token
         => asked[r].bearer \in before[r]

(* Who has a new session, or was refused one, has none of those the user   *)
(* had when the request arrived, the one exchanged included: a refresh     *)
(* token is good for one exchange (auth.service.ts:34-42, 64-67).          *)
SessionsEnd ==
  \A r \in Requests :
    /\ answer[r] \in {"session", "Revoked"} =>
         \A t \in before[r] : row[t] = "inactive"
    /\ answer[r] = "session" /\ asked[r].kind = "refresh" =>
         row[found[r]] = "inactive"

(* What a client holds has a row, and a token a request came with is       *)
(* inactive unless it was active on arrival: what the guard and            *)
(* refreshToken read is never more than that                               *)
(* (jwt.strategy.ts:36-41, auth.service.ts:51-54).                         *)
InGuard == {"looking", "admitting", "lookingAgain", "admittingAgain"}
InExchange == {"exchanging", "weighing", "revoking"}
WasActive(r, t) == t \in before[r] \/ row[t] = "inactive"
Guarded(r) ==
  LET a == asked[r]
  IN  pc[r] \in InGuard \union InExchange =>
        /\ a.kind \in {"call", "refresh"}
        /\ pc[r] \notin {"looking", "admitting"} => a.kind = "refresh"
        /\ a.bearer \in Tokens /\ WasActive(r, a.bearer)
        /\ a.refreshToken # Unset /\ UserOf(a.refreshToken) = a.user
             => WasActive(r, a.refreshToken)
        /\ pc[r] \in {"admitting", "admittingAgain"} /\ found[r] # Unset
             => found[r] = a.bearer /\ found[r] \in before[r]

(* A request that will have a session has a token for it, and replaces the *)
(* sessions before it before it inserts its own (auth.service.ts:32-42).   *)
Exchanged(r) ==
  /\ HasRow(found[r])
  /\ UserOf(found[r]) = asked[r].user
  /\ asked[r].refreshToken # Unset
       => asked[r].refreshToken = found[r] /\ found[r] \in before[r]
Replacing(r) ==
  LET a == asked[r]
  IN  /\ pc[r] = "validating" => a.kind = "login"
      /\ pc[r] = "weighing" => found[r] = Unset \/ Exchanged(r)
      /\ pc[r] \in {"clearing", "inserting"} =>
           /\ a.kind \in {"login", "refresh"}
           /\ fresh[r] \in Tokens
           /\ a.kind = "refresh" => found[r] \in Tokens /\ Exchanged(r)
      /\ pc[r] = "inserting" =>
           /\ \A t \in before[r] : row[t] = "inactive"
           /\ a.kind = "refresh" => row[found[r]] = "inactive"

Arrived(r) ==
  /\ pc[r] # "idle" =>
       /\ asked[r] \in Asked
       /\ \A t \in before[r] : HasRow(t) /\ UserOf(t) = asked[r].user
  /\ answer[r] # "none" => pc[r] = "answered"
  /\ answer[r] = "session" /\ asked[r].kind = "refresh" => found[r] \in Tokens

RequestsAgree ==
  /\ \A t \in given : HasRow(t)
  /\ \A r \in Requests : Arrived(r) /\ Guarded(r) /\ Replacing(r)

SafetyInv ==
  /\ TypeOK
  /\ RequestsAgree
  /\ StaleIsRefused
  /\ SessionsEnd

(* An ended session stays ended: no interleaving of requests makes a row   *)
(* active a second time or young again (auth.service.ts:34-42).            *)
EndedForGood ==
  [][\A t \in Tokens : HasRow(t) => /\ row'[t] \in {row[t], "inactive"}
                                    /\ created'[t] = created[t]]_vars

(* Seconds go by between the refused guard and the docs' promise: an       *)
(* expired access token is exchanged with an active, young refresh token   *)
(* (Homework#9.md:17, app.controller.ts:41-55).                            *)
ExpiredIsExchanged ==
  [][\A r \in Requests :
       answer'[r] = "Unauthorized" /\ answer[r] = "none" /\ asked[r].kind = "refresh"
         => LET t == asked[r].refreshToken
            IN  ~(/\ Expired(asked[r].bearer)
                  /\ t # Unset
                  /\ UserOf(t) = asked[r].user
                  /\ Active(t)
                  /\ Young(t))]_vars
=============================================================================
