------------------------------- MODULE Files --------------------------------
(***************************************************************************)
(* Uploaded files and avatars.  POST /files/presign saves a pending row    *)
(* and signs a URL; the client puts the object into the bucket on its own; *)
(* POST /files/complete looks for the object and makes the file ready and  *)
(* the user's avatar; POST /users/avatar chooses another ready file, and   *)
(* GET /files/:id reads one.                                               *)
(*                                                                         *)
(* The row, the object and the avatar are three places that no transaction *)
(* spans, and requests interleave at every await.  Nothing deletes users,  *)
(* rows or objects.                                                        *)
(***************************************************************************)
CONSTANTS
  Requests,  \* HTTP requests
  Users,     \* ids of users
  FileIds,   \* ids of rows of table "file", one object key each
  Faults,    \* what may go wrong: some of "storage", "database", "crash"
  NoId,      \* what a request without a file id asks for, or one of null
  BadId,     \* what a request asks for whose file id is no UUID
  Unset      \* no value

ASSUME FilesAssumption ==
  /\ Unset \notin Users \union FileIds \union {NoId, BadId}
  /\ NoId \notin FileIds /\ BadId \notin FileIds /\ NoId # BadId
  /\ Faults \subseteq {"storage", "database", "crash"}

VARIABLES
  status,  \* file.status, "none" without a row
  owner,   \* file.user_id
  avatar,  \* user.avatar_id
  urls,    \* files whose presigned URL a client has and may still use
  stored,  \* files whose object is in the bucket
  pc,      \* where each request's handler stands
  caller,  \* the user of each request
  about,   \* the file id each request brings, or presign gave its row
  file,    \* the row its handler has found
  answer   \* what each request was answered

vars == <<status, owner, avatar, urls, stored, pc, caller, about, file, answer>>
rows == <<status, owner, avatar>>
objects == <<urls, stored>>
request == <<caller, about>>
Asked == FileIds \union {NoId, BadId}

InHandler == {"signing", "fetching", "finding", "heading", "completing", "rereading",
              "checking", "choosing"}
Phases == InHandler \union {"idle", "answered", "unanswered", "dead"}
Answers == {"none", "url", "file", "completed", "set",
            "Nothing", "NotFound", "Forbidden", "ServerError"}

HasRow(f) == status[f] # "none"
Ready(f) == status[f] = "ready"
OwnedBy(f, u) == HasRow(f) /\ owner[f] = u
(* findOneBy({ id }): without an id there is no condition either. *)
Finds(id) == {f \in FileIds : HasRow(f) /\ id \in {f, NoId}}
GoTo(r, p) == pc' = [pc EXCEPT ![r] = p]
Answer(r, v) == GoTo(r, "answered") /\ answer' = [answer EXCEPT ![r] = v]

(* A request is received, and has found no row yet. *)
Receive(r, u, f) ==
  /\ pc[r] = "idle"
  /\ UNCHANGED file
  /\ caller' = [caller EXCEPT ![r] = u]
  /\ about' = [about EXCEPT ![r] = f]

Init ==
  /\ status = [f \in FileIds |-> "none"]
  /\ owner = [f \in FileIds |-> Unset]
  /\ avatar = [u \in Users |-> Unset]
  /\ urls = {}
  /\ stored = {}
  /\ pc = [r \in Requests |-> "idle"]
  /\ caller = [r \in Requests |-> Unset]
  /\ about = [r \in Requests |-> Unset]
  /\ file = [r \in Requests |-> Unset]
  /\ answer = [r \in Requests |-> "none"]

-----------------------------------------------------------------------------
(* POST /files/presign. *)

(* Seeded fault: the row of an earlier upload is written over. *)
SaveMetadataOver(r, u, f) ==
  /\ Receive(r, u, f)
  /\ ~HasRow(f) \/ owner[f] = u
  /\ status' = [status EXCEPT ![f] = "pending"]
  /\ owner' = [owner EXCEPT ![f] = u]
  /\ GoTo(r, "signing")
  /\ UNCHANGED <<avatar, objects, answer>>

(* The row goes in under a new id and a new key ... *)
SaveMetadata(r, u, f) ==
  /\ Receive(r, u, f)
  /\ ~HasRow(f)
  /\ status' = [status EXCEPT ![f] = "pending"]
  /\ owner' = [owner EXCEPT ![f] = u]
  /\ GoTo(r, "signing")
  /\ UNCHANGED <<avatar, objects, answer>>

(* ... unless the INSERT fails, which no catch answers ... *)
SaveFails(r, u, f) ==
  /\ "database" \in Faults
  /\ Receive(r, u, f)
  /\ ~HasRow(f)
  /\ GoTo(r, "unanswered")
  /\ UNCHANGED <<rows, objects, answer>>

(* ... and then the URL is signed. *)
SignUrl(r) ==
  /\ pc[r] = "signing"
  /\ urls' = urls \union {about[r]}
  /\ Answer(r, "url")
  /\ UNCHANGED <<rows, stored, request, file>>

-----------------------------------------------------------------------------
(* GET /files/:id. *)

GetFileById(r, u, f) ==
  /\ Receive(r, u, f)
  /\ GoTo(r, "fetching")
  /\ UNCHANGED <<rows, objects, answer>>

FetchFile(r) ==
  /\ pc[r] = "fetching"
  /\ about[r] # BadId
  /\ \/ /\ OwnedBy(about[r], caller[r])
        /\ Answer(r, "file")
     \/ /\ HasRow(about[r])
        /\ owner[about[r]] # caller[r]
        /\ Answer(r, "Forbidden")
     \/ /\ ~HasRow(about[r])
        /\ Answer(r, "NotFound")
  /\ UNCHANGED <<rows, objects, request, file>>

-----------------------------------------------------------------------------
(* POST /files/complete. *)

Complete(r, u, f) ==
  /\ Receive(r, u, f)
  /\ GoTo(r, "finding")
  /\ UNCHANGED <<rows, objects, answer>>

(* A file that does not exist has no owner either: 403, never 404. *)
FindFile(r) ==
  /\ pc[r] = "finding"
  /\ about[r] # BadId
  /\ \/ \E f \in Finds(about[r]) :
          /\ owner[f] = caller[r]
          /\ file' = [file EXCEPT ![r] = f]
          /\ GoTo(r, "heading")
          /\ UNCHANGED answer
     \/ /\ Finds(about[r]) = {} \/ \E f \in Finds(about[r]) : owner[f] # caller[r]
        /\ Answer(r, "Forbidden")
        /\ UNCHANGED file
  /\ UNCHANGED <<rows, objects, request>>

(* Seeded fault: the object is not looked for. *)
HeadObjectSkipped(r) ==
  /\ pc[r] = "heading"
  /\ GoTo(r, "completing")
  /\ UNCHANGED <<rows, objects, request, file, answer>>

(* HEAD throws for a missing object as it does for an unreachable bucket:  *)
(* 500, and never the 404 of line 87.                                      *)
HeadObject(r) ==
  /\ pc[r] = "heading"
  /\ \/ /\ file[r] \in stored
        /\ GoTo(r, "completing")
        /\ UNCHANGED answer
     \/ /\ file[r] \notin stored \/ "storage" \in Faults
        /\ Answer(r, "ServerError")
  /\ UNCHANGED <<rows, objects, request, file>>

(* The avatar becomes the id the request brought: without one the column   *)
(* is left out of the UPDATE, and an id of null clears it.                 *)
Chosen(r) == IF about[r] = NoId THEN {avatar[caller[r]], Unset} ELSE {about[r]}
ChooseAvatar(r) ==
  \E f \in Chosen(r) : avatar' = [avatar EXCEPT ![caller[r]] = f]

(* Seeded fault: the status is left to a later step that may not happen. *)
AvatarWithoutStatus(r) ==
  /\ ChooseAvatar(r)
  /\ UNCHANGED <<status, owner>>
(* One transaction for the avatar and the status; no row has no id. *)
AvatarAndStatus(r) ==
  /\ ChooseAvatar(r)
  /\ status' = [f \in FileIds |-> IF f = about[r] THEN "ready" ELSE status[f]]
  /\ UNCHANGED owner

WriteCompleted(r) ==
  /\ pc[r] = "completing"
  /\ AvatarAndStatus(r)
  /\ GoTo(r, "rereading")
  /\ UNCHANGED <<objects, request, file, answer>>

(* Without an id, whatever row is found is told as the completed one. *)
Reread(r) ==
  /\ pc[r] = "rereading"
  /\ Finds(about[r]) # {}
  /\ Answer(r, "completed")
  /\ UNCHANGED <<rows, objects, request, file>>

-----------------------------------------------------------------------------
(* POST /users/avatar; the user is found, as nothing removes users. *)

SetAvatar(r, u, f) ==
  /\ Receive(r, u, f)
  /\ GoTo(r, "checking")
  /\ UNCHANGED <<rows, objects, answer>>

(* Seeded fault: whether the file is ready is not asked. *)
UsablePending(r, f) == owner[f] = caller[r]
Usable(r, f) == Ready(f) /\ owner[f] = caller[r]

(* The catch of setAvatarId throws only what is not an HttpException: the  *)
(* refusals thrown in the try are answered 201 with nothing.               *)
CheckFile(r) ==
  /\ pc[r] = "checking"
  /\ about[r] # BadId
  /\ \/ \E f \in Finds(about[r]) :
          /\ Usable(r, f)
          /\ file' = [file EXCEPT ![r] = f]
          /\ GoTo(r, "choosing")
          /\ UNCHANGED answer
     \/ /\ Finds(about[r]) = {} \/ \E f \in Finds(about[r]) : ~Usable(r, f)
        /\ Answer(r, "Nothing")
        /\ UNCHANGED file
  /\ UNCHANGED <<rows, objects, request>>

WriteAvatar(r) ==
  /\ pc[r] = "choosing"
  /\ ChooseAvatar(r)
  /\ Answer(r, "set")
  /\ UNCHANGED <<status, owner, objects, request, file>>

-----------------------------------------------------------------------------
(* The client's part and the environment. *)

(* PUT to the presigned URL, with no help of the application. *)
Upload(f) ==
  /\ f \in urls
  /\ f \notin stored
  /\ stored' = stored \union {f}
  /\ UNCHANGED <<rows, urls, pc, request, file, answer>>

(* FILES_PRESIGN_EXPIRES_IN_SEC is over. *)
UrlExpires(f) ==
  /\ f \in urls
  /\ urls' = urls \ {f}
  /\ UNCHANGED <<rows, stored, pc, request, file, answer>>

(* Signing fails, or a statement of the other three: the error is no       *)
(* HttpException, and HttpExceptionFilter sends nothing.  An id that is no *)
(* UUID fails the lookup by itself; the transaction may have taken effect. *)
FailsUnanswered(r) ==
  /\ \/ /\ "storage" \in Faults
        /\ pc[r] = "signing"
        /\ UNCHANGED rows
     \/ /\ "database" \in Faults
        /\ pc[r] \in {"completing", "rereading"}
        /\ UNCHANGED rows
     \/ /\ "database" \in Faults \/ about[r] = BadId
        /\ pc[r] \in {"fetching", "finding"}
        /\ UNCHANGED rows
     \/ /\ "database" \in Faults
        /\ pc[r] = "completing"
        /\ AvatarAndStatus(r)
  /\ GoTo(r, "unanswered")
  /\ UNCHANGED <<objects, request, file, answer>>

(* A statement of setAvatarId fails: 500 `Setting avatar failed'. *)
AvatarFails(r) ==
  /\ \/ "database" \in Faults /\ pc[r] \in {"checking", "choosing"}
     \/ about[r] = BadId /\ pc[r] = "checking"
  /\ Answer(r, "ServerError")
  /\ UNCHANGED <<rows, objects, request, file>>

Crash ==
  /\ "crash" \in Faults
  /\ \E r \in Requests : pc[r] \in InHandler
  /\ pc' = [r \in Requests |-> IF pc[r] \in InHandler THEN "dead" ELSE pc[r]]
  /\ UNCHANGED <<rows, objects, request, file, answer>>

Quiescent ==
  /\ \A r \in Requests : pc[r] \in {"answered", "unanswered", "dead"}
  /\ UNCHANGED vars

Step(r) ==
  \/ SignUrl(r) \/ FetchFile(r)
  \/ FindFile(r) \/ HeadObject(r) \/ WriteCompleted(r) \/ Reread(r)
  \/ CheckFile(r) \/ WriteAvatar(r)

Next ==
  \/ \E r \in Requests :
       \/ \E u \in Users :
            \/ \E f \in FileIds : SaveMetadata(r, u, f) \/ SaveFails(r, u, f)
            \/ \E f \in FileIds \union {BadId} : GetFileById(r, u, f)
            \/ \E f \in Asked : Complete(r, u, f) \/ SetAvatar(r, u, f)
       \/ Step(r) \/ FailsUnanswered(r) \/ AvatarFails(r)
  \/ \E f \in FileIds : Upload(f) \/ UrlExpires(f)
  \/ Crash \/ Quiescent

Spec == Init /\ [][Next]_vars

-----------------------------------------------------------------------------
(* Properties. *)

TypeOK ==
  /\ status \in [FileIds -> {"none", "pending", "ready"}]
  /\ owner \in [FileIds -> Users \union {Unset}]
  /\ avatar \in [Users -> FileIds \union {Unset}]
  /\ urls \in SUBSET FileIds
  /\ stored \in SUBSET FileIds
  /\ pc \in [Requests -> Phases]
  /\ caller \in [Requests -> Users \union {Unset}]
  /\ about \in [Requests -> Asked \union {Unset}]
  /\ file \in [Requests -> FileIds \union {Unset}]
  /\ answer \in [Requests -> Answers]

(* An avatar is a ready file of its own user, and its object is in the     *)
(* bucket, whichever requests of whichever users interleave                *)
(* (file.service.ts:61-71, users.service.ts:34-48).                        *)
AvatarIsShowable ==
  \A u \in Users :
    avatar[u] # Unset =>
      /\ Ready(avatar[u])
      /\ owner[avatar[u]] = u
      /\ avatar[u] \in stored

(* A file is ready only if its object is in the bucket, and only a file    *)
(* with a row has a URL or an object (file.service.ts:61-63, 109-116).     *)
ReadyIsStored ==
  /\ \A f \in FileIds : Ready(f) => f \in stored
  /\ \A f \in urls \union stored : HasRow(f)

(* The row a request has found is its user's, has an object or is ready as *)
(* it was when checked, and is the one asked for, if an id was brought; an *)
(* answer still holds of that row, if not of the avatar                    *)
(* (file.service.ts:72-83, users.service.ts:50-54).                        *)
ChecksOutlastAwaits ==
  \A r \in Requests :
    LET mine == OwnedBy(file[r], caller[r])
    IN  /\ pc[r] # "idle" => caller[r] \in Users /\ about[r] \in Asked
        /\ pc[r] = "fetching" => about[r] # NoId
        /\ pc[r] = "signing" \/ answer[r] \in {"url", "file"}
             => about[r] \in FileIds /\ OwnedBy(about[r], caller[r])
        /\ pc[r] \in {"heading", "completing", "rereading", "choosing"}
             \/ answer[r] \in {"completed", "set"}
             => file[r] \in FileIds /\ mine /\ about[r] \in {file[r], NoId}
        /\ pc[r] = "completing" => file[r] \in stored
        /\ pc[r] = "choosing" \/ answer[r] = "set" => Ready(file[r])
        /\ pc[r] = "rereading" \/ answer[r] = "completed"
             => Ready(file[r]) \/ about[r] = NoId
        /\ answer[r] # "none" => pc[r] = "answered"

SafetyInv ==
  /\ TypeOK
  /\ AvatarIsShowable
  /\ ReadyIsStored
  /\ ChecksOutlastAwaits

(* An avatar changes only to the file of a request of its own user that is *)
(* being served, or goes by one that brought no file; and a ready file is  *)
(* never pending again (file.service.ts:64-71, users.service.ts:45).       *)
OnlyItsUserChangesAnAvatar ==
  [][/\ \A u \in Users :
          avatar'[u] # avatar[u] =>
            \E r \in Requests : /\ caller[r] = u
                                /\ \/ about[r] = avatar'[u]
                                   \/ about[r] = NoId /\ avatar'[u] = Unset
                                /\ pc[r] \in {"completing", "choosing"}
     /\ \A f \in FileIds : Ready(f) => status'[f] = "ready"]_vars
=============================================================================
