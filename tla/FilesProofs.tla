---------------------------- MODULE FilesProofs -----------------------------
(* Proofs about Files, for every set of requests, users and files and      *)
(* every combination of faults.                                            *)
EXTENDS Files, TLAPS

USE FilesAssumption
USE DEF InHandler, Phases, Answers, Asked, HasRow, Ready, OwnedBy, Finds, GoTo, rows, objects, request

(* What every step leaves true of the files: no row is removed, no row     *)
(* changes its user, no ready file is pending again, no object goes.       *)
FilesLast ==
  /\ \A f \in FileIds : HasRow(f) => HasRow(f)' /\ owner'[f] = owner[f]
  /\ \A f \in FileIds : Ready(f) => Ready(f)'
  /\ stored \subseteq stored'

(* What holds of one request past its checks: the body of                  *)
(* ChecksOutlastAwaits.                                                    *)
Checked(r) ==
  LET mine == OwnedBy(file[r], caller[r])
  IN  /\ pc[r] # "idle" => caller[r] \in Users /\ about[r] \in Asked
      /\ pc[r] = "fetching" => about[r] # NoId
      /\ pc[r] = "signing" \/ answer[r] \in {"url", "file"}
           => about[r] \in FileIds /\ OwnedBy(about[r], caller[r])
      /\ pc[r] \in {"heading", "completing", "rereading", "choosing"}
           \/ answer[r] \in {"completed", "set"}
           => file[r] \in FileIds /\ mine /\ about[r] \in {file[r], NoId}
      /\ pc[r] = "completing" => file[r] \in stored
      /\ pc[r] = "choosing" \/ answer[r] = "set" => Ready(file[r])
      /\ pc[r] = "rereading" \/ answer[r] = "completed"
           => Ready(file[r]) \/ about[r] = NoId
      /\ answer[r] # "none" => pc[r] = "answered"

LEMMA CheckedAll == ChecksOutlastAwaits <=> \A r \in Requests : Checked(r)
  BY DEF ChecksOutlastAwaits, Checked

(* The steps the proofs below distinguish. *)
LEMMA StepShapes ==
  ASSUME [Next]_vars
  PROVE  \/ \E r \in Requests :
              \/ \E u \in Users, f \in FileIds : SaveMetadata(r, u, f)
              \/ \E u \in Users, f \in Asked :
                   \/ SaveFails(r, u, f) \/ (f # NoId /\ GetFileById(r, u, f))
                   \/ Complete(r, u, f) \/ SetAvatar(r, u, f)
              \/ SignUrl(r) \/ FetchFile(r) \/ FindFile(r) \/ HeadObject(r)
              \/ WriteCompleted(r) \/ Reread(r) \/ CheckFile(r) \/ WriteAvatar(r)
              \/ FailsUnanswered(r) \/ AvatarFails(r)
         \/ \E f \in FileIds : Upload(f) \/ UrlExpires(f)
         \/ Crash
         \/ UNCHANGED vars
<1>1. ASSUME NEW r \in Requests, NEW u \in Users,
             \/ \E f \in FileIds : SaveFails(r, u, f)
             \/ \E f \in FileIds \union {BadId} : GetFileById(r, u, f)
             \/ \E f \in Asked : Complete(r, u, f) \/ SetAvatar(r, u, f)
      PROVE  \E f \in Asked :
               \/ SaveFails(r, u, f) \/ (f # NoId /\ GetFileById(r, u, f))
               \/ Complete(r, u, f) \/ SetAvatar(r, u, f)
  <2>1. \A f \in FileIds \union {BadId} : f \in Asked /\ f # NoId
    OBVIOUS
  <2> QED
    BY <1>1, <2>1
<1> QED
  BY <1>1 DEF Next, Step, Quiescent

(* An avatar that is written is the file found, one there was, or none. *)
LEMMA ChosenIsFound ==
  ASSUME TypeOK, NEW r \in Requests, Checked(r),
         pc[r] \in {"completing", "choosing"}, ChooseAvatar(r)
  PROVE  \E f \in {file[r], avatar[caller[r]], Unset} :
           /\ avatar' = [avatar EXCEPT ![caller[r]] = f]
           /\ f \in FileIds \union {Unset}
  BY DEF TypeOK, Checked, ChooseAvatar, Chosen

-----------------------------------------------------------------------------
(* Types. *)

LEMMA TypeStep == SafetyInv /\ [Next]_vars => TypeOK'
<1> SUFFICES ASSUME TypeOK, \A r \in Requests : Checked(r), [Next]_vars
             PROVE  TypeOK'
  BY CheckedAll DEF SafetyInv
<1> USE DEF TypeOK
<1>0. ASSUME NEW r \in Requests, NEW u \in Users, NEW f \in FileIds, SaveMetadata(r, u, f)
      PROVE  TypeOK'
  BY <1>0 DEF SaveMetadata, Receive
<1>1. ASSUME NEW r \in Requests, NEW u \in Users, NEW f \in Asked,
             \/ SaveFails(r, u, f) \/ GetFileById(r, u, f)
             \/ Complete(r, u, f) \/ SetAvatar(r, u, f)
      PROVE  TypeOK'
  BY <1>1 DEF SaveFails, GetFileById, Complete, SetAvatar, Receive
<1>11. ASSUME NEW r \in Requests, pc[r] \in {"completing", "choosing"}, ChooseAvatar(r)
       PROVE  avatar' \in [Users -> FileIds \union {Unset}]
  BY <1>11, ChosenIsFound
<1>2. ASSUME NEW r \in Requests, SignUrl(r) PROVE TypeOK'
  BY <1>2 DEF SignUrl, Answer, Checked
<1>3. ASSUME NEW r \in Requests,
             FetchFile(r) \/ FindFile(r) \/ HeadObject(r) \/ Reread(r) \/ CheckFile(r)
      PROVE  TypeOK'
  BY <1>3 DEF FetchFile, FindFile, HeadObject, Reread, CheckFile, Answer
<1>4. ASSUME NEW r \in Requests, WriteCompleted(r) PROVE TypeOK'
  BY <1>4, <1>11 DEF WriteCompleted, AvatarAndStatus
<1>5. ASSUME NEW r \in Requests, WriteAvatar(r) PROVE TypeOK'
  BY <1>5, <1>11 DEF WriteAvatar, Answer
<1>6. ASSUME NEW r \in Requests, FailsUnanswered(r) PROVE TypeOK'
  <2>1. UNCHANGED rows \/ (pc[r] = "completing" /\ AvatarAndStatus(r))
    BY <1>6 DEF FailsUnanswered
  <2>2. /\ status' \in [FileIds -> {"none", "pending", "ready"}]
        /\ owner' \in [FileIds -> Users \union {Unset}]
        /\ avatar' \in [Users -> FileIds \union {Unset}]
    BY <1>11, <2>1 DEF AvatarAndStatus
  <2> QED
    BY <1>6, <2>2 DEF FailsUnanswered
<1>7. ASSUME NEW r \in Requests, AvatarFails(r) PROVE TypeOK'
  BY <1>7 DEF AvatarFails, Answer
<1>8. ASSUME NEW f \in FileIds, Upload(f) \/ UrlExpires(f) PROVE TypeOK'
  BY <1>8 DEF Upload, UrlExpires
<1>9. ASSUME Crash PROVE TypeOK'
  BY <1>9 DEF Crash
<1>10. ASSUME UNCHANGED vars PROVE TypeOK'
  BY <1>10 DEF vars
<1> QED
  BY StepShapes, <1>0, <1>1, <1>2, <1>3, <1>4, <1>5, <1>6, <1>7, <1>8, <1>9, <1>10

-----------------------------------------------------------------------------
(* Files only gain. *)

LEMMA FilesLastStep ==
  ASSUME SafetyInv, [Next]_vars
  PROVE  FilesLast
<1>1. TypeOK /\ \A r \in Requests : Checked(r)
  BY CheckedAll DEF SafetyInv
<1> USE <1>1 DEF TypeOK, FilesLast
<1>2. ASSUME NEW r \in Requests, NEW u \in Users, NEW f \in FileIds,
             SaveMetadata(r, u, f)
      PROVE  FilesLast
  BY <1>2 DEF SaveMetadata
<1>3. ASSUME NEW r \in Requests, pc[r] = "completing", AvatarAndStatus(r), UNCHANGED objects
      PROVE  FilesLast
  BY <1>3 DEF AvatarAndStatus, Checked
<1>4. ASSUME UNCHANGED <<status, owner>>, stored \subseteq stored'
      PROVE  FilesLast
  BY <1>4
<1> QED
  BY StepShapes, <1>2, <1>3, <1>4
  DEF SaveFails, GetFileById, Complete, SetAvatar, SignUrl, FetchFile, FindFile,
      HeadObject, WriteCompleted, Reread, CheckFile, WriteAvatar, FailsUnanswered,
      AvatarFails, Upload, UrlExpires, Crash, vars

(* So a request that takes no step keeps what its checks found. *)
LEMMA CheckedLasts ==
  ASSUME NEW r \in Requests, TypeOK, Checked(r), FilesLast,
         UNCHANGED <<pc[r], caller[r], about[r], file[r], answer[r]>>
  PROVE  Checked(r)'
  BY DEF Checked, FilesLast

-----------------------------------------------------------------------------
(* Requests past their checks. *)

LEMMA ChecksStep == SafetyInv /\ [Next]_vars => ChecksOutlastAwaits'
<1> SUFFICES ASSUME SafetyInv, [Next]_vars, NEW q \in Requests
             PROVE  Checked(q)'
  BY CheckedAll DEF ChecksOutlastAwaits, Checked
<1>1. /\ TypeOK
      /\ \A r \in Requests : Checked(r)
      /\ ReadyIsStored
      /\ FilesLast
  BY CheckedAll, FilesLastStep DEF SafetyInv
<1>2. ASSUME UNCHANGED <<pc[q], caller[q], about[q], file[q], answer[q]>>
      PROVE  Checked(q)'
  BY <1>1, <1>2, CheckedLasts
<1> USE DEF TypeOK
<1>3. ASSUME NEW r \in Requests, NEW u \in Users, NEW f \in Asked, Receive(r, u, f),
             UNCHANGED answer,
             \/ f \in FileIds /\ SaveMetadata(r, u, f)
             \/ SaveFails(r, u, f) \/ (f # NoId /\ GetFileById(r, u, f))
             \/ Complete(r, u, f) \/ SetAvatar(r, u, f)
      PROVE  Checked(q)'
  <2>1. CASE q # r
    <3>1. UNCHANGED <<pc[q], caller[q], about[q], file[q], answer[q]>>
      BY <1>1, <1>3, <2>1
      DEF Receive, SaveMetadata, SaveFails, GetFileById, Complete, SetAvatar
    <3> QED
      BY <1>2, <3>1
  <2>2. CASE q = r
    <3>1. caller'[q] = u /\ about'[q] = f /\ answer'[q] = "none"
      BY <1>1, <1>3, <2>2 DEF Receive, Checked
    <3>2. pc'[q] = "signing" => f \in FileIds /\ status'[f] = "pending" /\ owner'[f] = u
      BY <1>1, <1>3, <2>2
      DEF SaveMetadata, SaveFails, GetFileById, Complete, SetAvatar
    <3>3. pc'[q] \in {"signing", "unanswered", "fetching", "finding", "checking"}
      BY <1>1, <1>3, <2>2
      DEF SaveMetadata, SaveFails, GetFileById, Complete, SetAvatar
    <3>4. pc'[q] = "fetching" => f # NoId
      BY <1>1, <1>3, <2>2
      DEF SaveMetadata, SaveFails, GetFileById, Complete, SetAvatar
    <3> QED
      BY <3>1, <3>2, <3>3, <3>4 DEF Checked
  <2> QED
    BY <2>1, <2>2
<1>4. ASSUME NEW r \in Requests, UNCHANGED request,
             \/ SignUrl(r) \/ FetchFile(r) \/ FindFile(r) \/ HeadObject(r)
             \/ WriteCompleted(r) \/ Reread(r) \/ CheckFile(r) \/ WriteAvatar(r)
             \/ FailsUnanswered(r) \/ AvatarFails(r)
      PROVE  Checked(q)'
  <2>1. CASE q # r
    <3>1. UNCHANGED <<pc[q], caller[q], about[q], file[q], answer[q]>>
      BY <1>1, <1>4, <2>1
      DEF SignUrl, FetchFile, FindFile, HeadObject, WriteCompleted, Reread, CheckFile,
          WriteAvatar, FailsUnanswered, AvatarFails, Answer
    <3> QED
      BY <1>2, <3>1
  <2>2. CASE q = r
    <3>1. pc[q] \in InHandler
      BY <1>4, <2>2
      DEF SignUrl, FetchFile, FindFile, HeadObject, WriteCompleted, Reread,
          CheckFile, WriteAvatar, FailsUnanswered, AvatarFails
    <3>a. /\ caller[q] \in Users /\ about[q] \in Asked
          /\ UNCHANGED <<caller[q], about[q]>>
          /\ answer[q] = "none"
      BY <1>1, <1>4, <3>1 DEF Checked
    <3> USE <1>1, <2>2, <3>a DEF FilesLast, Checked, Answer
    <3>2. CASE SignUrl(r)
      BY <3>2 DEF SignUrl
    <3>3. CASE FetchFile(r)
      BY <3>3 DEF FetchFile
    <3>4. CASE FindFile(r)
      BY <3>4 DEF FindFile
    <3>5. CASE HeadObject(r)
      BY <3>5 DEF HeadObject
    <3>6. CASE WriteCompleted(r)
      BY <3>6 DEF WriteCompleted, AvatarAndStatus
    <3>7. CASE Reread(r)
      BY <3>7 DEF Reread
    <3>8. CASE CheckFile(r)
      BY <3>8 DEF CheckFile, Usable
    <3>9. CASE WriteAvatar(r)
      BY <3>9 DEF WriteAvatar
    <3>10. CASE FailsUnanswered(r)
      BY <3>10 DEF FailsUnanswered
    <3>11. CASE AvatarFails(r)
      BY <3>11 DEF AvatarFails
    <3> QED
      BY <1>4, <3>2, <3>3, <3>4, <3>5, <3>6, <3>7, <3>8, <3>9, <3>10, <3>11
  <2> QED
    BY <2>1, <2>2
<1>5. ASSUME Crash PROVE Checked(q)'
  <2>1. CASE pc[q] \in InHandler
    BY <1>1, <1>5, <2>1 DEF Crash, Checked
  <2>2. CASE pc[q] \notin InHandler
    BY <1>2, <1>5, <2>2 DEF Crash
  <2> QED
    BY <2>1, <2>2
<1>6. ASSUME NEW f \in FileIds, Upload(f) \/ UrlExpires(f) PROVE Checked(q)'
  BY <1>2, <1>6 DEF Upload, UrlExpires
<1>7. ASSUME UNCHANGED vars PROVE Checked(q)'
  BY <1>2, <1>7 DEF vars
<1>8. ASSUME NEW r \in Requests, NEW u \in Users, NEW f \in Asked,
             \/ SaveMetadata(r, u, f)
             \/ SaveFails(r, u, f) \/ (f # NoId /\ GetFileById(r, u, f))
             \/ Complete(r, u, f) \/ SetAvatar(r, u, f)
      PROVE  Receive(r, u, f) /\ UNCHANGED answer
  BY <1>8 DEF SaveMetadata, SaveFails, GetFileById, Complete, SetAvatar
<1>9. ASSUME NEW r \in Requests,
             \/ SignUrl(r) \/ FetchFile(r) \/ FindFile(r) \/ HeadObject(r)
             \/ WriteCompleted(r) \/ Reread(r) \/ CheckFile(r) \/ WriteAvatar(r)
             \/ FailsUnanswered(r) \/ AvatarFails(r)
      PROVE  UNCHANGED request
  BY <1>9 DEF SignUrl, FetchFile, FindFile, HeadObject, WriteCompleted, Reread, CheckFile,
         WriteAvatar, FailsUnanswered, AvatarFails
<1> QED
  BY StepShapes, <1>3, <1>4, <1>5, <1>6, <1>7, <1>8, <1>9

-----------------------------------------------------------------------------
(* Ready files and avatars. *)

LEMMA StoredStep == SafetyInv /\ [Next]_vars => ReadyIsStored'
<1> SUFFICES ASSUME SafetyInv, [Next]_vars
             PROVE  ReadyIsStored'
  OBVIOUS
<1>1. /\ TypeOK
      /\ \A r \in Requests : Checked(r)
      /\ ReadyIsStored
      /\ FilesLast
  BY CheckedAll, FilesLastStep DEF SafetyInv
<1> USE <1>1 DEF TypeOK, ReadyIsStored, FilesLast
<1>2. ASSUME NEW r \in Requests, NEW u \in Users, NEW f \in FileIds,
             SaveMetadata(r, u, f)
      PROVE  ReadyIsStored'
  BY <1>2 DEF SaveMetadata
<1>3. ASSUME NEW r \in Requests, SignUrl(r) PROVE ReadyIsStored'
  BY <1>3 DEF SignUrl, Checked
<1>4. ASSUME NEW r \in Requests, pc[r] = "completing", AvatarAndStatus(r), UNCHANGED objects
      PROVE  ReadyIsStored'
  BY <1>4 DEF AvatarAndStatus, Checked
<1>5. ASSUME NEW f \in FileIds, Upload(f) \/ UrlExpires(f) PROVE ReadyIsStored'
  BY <1>5 DEF Upload, UrlExpires
<1>6. ASSUME UNCHANGED <<status, owner, objects>> PROVE ReadyIsStored'
  BY <1>6
<1> QED
  BY StepShapes, <1>2, <1>3, <1>4, <1>5, <1>6
  DEF SaveFails, GetFileById, Complete, SetAvatar, FetchFile, FindFile, HeadObject,
      WriteCompleted, Reread, CheckFile, WriteAvatar, FailsUnanswered, AvatarFails,
      Crash, vars

LEMMA AvatarStep == SafetyInv /\ [Next]_vars => AvatarIsShowable'
<1> SUFFICES ASSUME SafetyInv, [Next]_vars
             PROVE  AvatarIsShowable'
  OBVIOUS
<1>1. /\ TypeOK
      /\ \A r \in Requests : Checked(r)
      /\ AvatarIsShowable
      /\ ReadyIsStored
      /\ FilesLast
  BY CheckedAll, FilesLastStep DEF SafetyInv
<1> USE <1>1 DEF TypeOK, AvatarIsShowable, FilesLast
<1>2. ASSUME NEW r \in Requests, pc[r] = "completing", AvatarAndStatus(r), UNCHANGED objects
      PROVE  AvatarIsShowable'
  <2>1. PICK f \in Chosen(r) : avatar' = [avatar EXCEPT ![caller[r]] = f]
    BY <1>2 DEF AvatarAndStatus, ChooseAvatar
  <2>2. /\ caller[r] \in Users /\ file[r] \in FileIds
        /\ owner[file[r]] = caller[r] /\ file[r] \in stored
    BY <1>2 DEF Checked
  <2>3. \A g \in FileIds : Ready(g) \/ g = about[r] => Ready(g)'
    BY <1>2 DEF AvatarAndStatus
  <2>4. CASE f = file[r] /\ about[r] = file[r]
    <3>1. Ready(f)' /\ owner' = owner /\ stored' = stored
      BY <1>2, <2>2, <2>3, <2>4 DEF AvatarAndStatus
    <3> QED
      BY <2>1, <2>2, <2>3, <2>4, <3>1
  <2>5. CASE f \in {avatar[caller[r]], Unset}
    BY <1>2, <2>1, <2>2, <2>5 DEF AvatarAndStatus
  <2> QED
    BY <1>2, <2>1, <2>4, <2>5 DEF Chosen, Checked
<1>3. ASSUME NEW r \in Requests, WriteAvatar(r) PROVE AvatarIsShowable'
  <2>1. PICK f \in {file[r], avatar[caller[r]], Unset} :
          avatar' = [avatar EXCEPT ![caller[r]] = f]
    BY <1>3, ChosenIsFound DEF WriteAvatar
  <2>2. /\ caller[r] \in Users /\ file[r] \in FileIds
        /\ owner[file[r]] = caller[r] /\ Ready(file[r]) /\ file[r] \in stored
    BY <1>3 DEF WriteAvatar, Checked, ReadyIsStored
  <2> QED
    BY <1>3, <2>1, <2>2 DEF WriteAvatar
<1>4. ASSUME UNCHANGED avatar PROVE AvatarIsShowable'
  BY <1>4
<1> QED
  BY StepShapes, <1>2, <1>3, <1>4
  DEF SaveMetadata, SaveFails, GetFileById, Complete, SetAvatar, SignUrl, FetchFile,
      FindFile, HeadObject, WriteCompleted, Reread, CheckFile, FailsUnanswered,
      AvatarFails, Upload, UrlExpires, Crash, vars

-----------------------------------------------------------------------------
(* The theorems. *)

LEMMA SafetyInit == Init => SafetyInv
  BY DEF Init, SafetyInv, TypeOK, AvatarIsShowable, ReadyIsStored, ChecksOutlastAwaits

LEMMA SafetyStep == SafetyInv /\ [Next]_vars => SafetyInv'
  BY TypeStep, AvatarStep, StoredStep, ChecksStep DEF SafetyInv

(* However the requests of all users interleave, fail or are cut short:    *)
(* what a request checked before an await still holds after it, a ready    *)
(* file has its object in the bucket, and an avatar is a ready file of its *)
(* own user (file.service.ts:47-71, users.service.ts:26-48).               *)
THEOREM Safety == Spec => []SafetyInv
  BY SafetyInit, SafetyStep, PTL DEF Spec

(* In particular every avatar can be shown (file.service.ts:61-71).        *)
THEOREM Showable == Spec => []AvatarIsShowable
<1>1. SafetyInv => AvatarIsShowable
  BY DEF SafetyInv
<1> QED
  BY <1>1, Safety, PTL

(* An avatar changes only by a request of its own user, to the file that   *)
(* request names or to none, and a ready file stays ready                  *)
(* (file.service.ts:64-71, users.service.ts:45).                           *)
THEOREM AvatarChanges == Spec => OnlyItsUserChangesAnAvatar
<1> DEFINE OfItsUser(u) ==
      \E r \in Requests : /\ caller[r] = u
                          /\ \/ about[r] = avatar'[u]
                             \/ about[r] = NoId /\ avatar'[u] = Unset
                          /\ pc[r] \in {"completing", "choosing"}
<1>1. ASSUME SafetyInv, [Next]_vars, NEW u \in Users, avatar'[u] # avatar[u]
      PROVE  OfItsUser(u)
  <2>1. TypeOK /\ \A r \in Requests : Checked(r)
    BY <1>1, CheckedAll DEF SafetyInv
  <2>2. \E r \in Requests : pc[r] \in {"completing", "choosing"} /\ ChooseAvatar(r)
    BY <1>1, StepShapes
    DEF SaveMetadata, SaveFails, GetFileById, Complete, SetAvatar, SignUrl, FetchFile,
        FindFile, HeadObject, WriteCompleted, Reread, CheckFile, WriteAvatar,
        AvatarAndStatus, FailsUnanswered, AvatarFails, Upload, UrlExpires, Crash, vars
  <2>3. PICK r \in Requests : pc[r] \in {"completing", "choosing"} /\ ChooseAvatar(r)
    BY <2>2
  <2>4. PICK f \in Chosen(r) : avatar' = [avatar EXCEPT ![caller[r]] = f]
    BY <2>3 DEF ChooseAvatar
  <2>5. caller[r] = u /\ avatar'[u] = f
    BY <1>1, <2>1, <2>4 DEF TypeOK
  <2>6. about[r] = f \/ (about[r] = NoId /\ f = Unset)
    BY <1>1, <2>4, <2>5 DEF Chosen
  <2> QED
    BY <2>3, <2>5, <2>6
<1>2. SafetyInv /\ [Next]_vars
        => [/\ \A u \in Users : avatar'[u] # avatar[u] => OfItsUser(u)
            /\ \A f \in FileIds : Ready(f) => status'[f] = "ready"]_vars
  BY <1>1, FilesLastStep DEF FilesLast
<1> QED
  BY <1>2, Safety, PTL DEF Spec, OnlyItsUserChangesAnAvatar
=============================================================================
