-------------------------- MODULE UserAccountsProofs --------------------------
(***************************************************************************)
(* The handlers, for any requests, addresses, event types, errors and      *)
(* crashes: the safety properties of UserAccounts, and that the handlers   *)
(* implement what AccountStore says may happen.                            *)
(*                                                                         *)
(* The invariant is built in layers, each inductive over the ones before.  *)
(* TypeInv: types, and which handler gets to which step.  PersonInv: the   *)
(* document in the handler's hands is the one in the database, or a new    *)
(* one with nobody's ID.  RoleInv: what the handler has read of the roles  *)
(* is still so.  AvatarInv: the old avatar is deleted only when no         *)
(* document names it.  FileInv: as long as nothing went wrong, a file is   *)
(* named by a user or is the one in work.  EmailInv: the address the       *)
(* handler found free is still free.  AnswerInv: what the handler is about *)
(* to answer is true.  LogoutInv: why a logout is about to fail.           *)
(*                                                                         *)
(* Arrival, Starting, Registers, ..., UpdatesUser each say of one action   *)
(* what all layers need to know of it, so that a layer's proof, which goes *)
(* through the actions, does not expand them again.                        *)
(***************************************************************************)
EXTENDS UserAccounts, TLAPS

Creating(r) == event[r].type \in {"UserRegistered", "AdminCreate"}

\* Which handlers get to which step, and that they have read their event.
Stages ==
    /\ step \notin {"down", "idle", "start", "ack"} => Readable
    /\ step \in {"role", "saveRole", "save"} => Creating(current)
    /\ step = "upload" => payload.type \in {"AdminCreate", "AdminUpdated"}
    /\ step \in {"update", "delete"} => payload.type \in {"UpdateProfile", "AdminUpdated"}
    /\ \A r \in Requests : event[r].avatar => event[r].type \in WithAvatar

\* Requests wait once, and have arrived.
Waiting ==
    /\ \A i, j \in 1..Len(queue) : queue[i] = queue[j] => i = j
    /\ \A i \in 1..Len(queue) : event[queue[i]].type \in Types

-----------------------------------------------------------------------------
(* Documents and jobs, by their fields.                                     *)

Addresses == Emails \cup {"none", "super", "admin", "user"}

LEMMA Records ==
    ASSUME NEW N, NEW E, NEW d \in [id : N, email : E, role : N, avatar : N]
    PROVE  /\ d.id \in N /\ d.email \in E /\ d.role \in N /\ d.avatar \in N
           /\ \A e \in E : [d EXCEPT !.email = e] \in [id : N, email : E, role : N, avatar : N]
           /\ \A n \in N : /\ [d EXCEPT !.id = n] \in [id : N, email : E, role : N, avatar : N]
                           /\ [d EXCEPT !.role = n] \in [id : N, email : E, role : N, avatar : N]
                           /\ [d EXCEPT !.avatar = n] \in [id : N, email : E, role : N, avatar : N]
OBVIOUS

LEMMA Updates ==
    ASSUME NEW N, NEW E, NEW d \in [id : N, email : E, role : N, avatar : N], NEW x
    PROVE  /\ [d EXCEPT !.email = x].id = d.id /\ [d EXCEPT !.email = x].email = x
           /\ [d EXCEPT !.email = x].role = d.role /\ [d EXCEPT !.email = x].avatar = d.avatar
           /\ [d EXCEPT !.role = x].id = d.id /\ [d EXCEPT !.role = x].email = d.email
           /\ [d EXCEPT !.role = x].role = x /\ [d EXCEPT !.role = x].avatar = d.avatar
           /\ [d EXCEPT !.avatar = x].id = d.id /\ [d EXCEPT !.avatar = x].email = d.email
           /\ [d EXCEPT !.avatar = x].role = d.role /\ [d EXCEPT !.avatar = x].avatar = x
           /\ [d EXCEPT !.id = x].id = x /\ [d EXCEPT !.id = x].email = d.email
           /\ [d EXCEPT !.id = x].role = d.role /\ [d EXCEPT !.id = x].avatar = d.avatar
OBVIOUS

\* The jobs the handlers set up and change.
LEMMA Jobs ==
    ASSUME NEW D, NEW N, NEW j \in [doc : D, old : N], NEW x
    PROVE  /\ j.doc \in D /\ j.old \in N
           /\ [j EXCEPT !.doc.role = x].doc = [j.doc EXCEPT !.role = x]
           /\ [j EXCEPT !.doc.avatar = x].doc = [j.doc EXCEPT !.avatar = x]
           /\ [j EXCEPT !.doc.id = x].doc = [j.doc EXCEPT !.id = x]
           /\ [j EXCEPT !.doc.role = x].old = j.old
           /\ [j EXCEPT !.doc.avatar = x].old = j.old
           /\ [j EXCEPT !.doc.id = x].old = j.old
OBVIOUS

LEMMA JobChanges ==
    ASSUME NEW N, NEW M, NEW E, N \subseteq M, NEW x \in M,
           NEW j \in [doc : [id : N, email : E, role : N, avatar : N], old : N]
    PROVE  {j, [j EXCEPT !.doc.role = x], [j EXCEPT !.doc.avatar = x], [j EXCEPT !.doc.id = x]}
              \subseteq [doc : [id : M, email : E, role : M, avatar : M], old : M]
OBVIOUS

LEMMA NewJobs ==
    ASSUME NEW x
    PROVE  /\ [NoJob EXCEPT !.doc.email = x] = [doc |-> [NoUser EXCEPT !.email = x], old |-> 0]
           /\ [NoJob EXCEPT !.doc = x] = [doc |-> x, old |-> 0]
           /\ [NoUser EXCEPT !.email = x] = [id |-> 0, email |-> x, role |-> 0, avatar |-> 0]
BY DEF NoJob, NoUser

\* What is drawn stays drawn.
LEMMA Drawing ==
    ASSUME fresh \in Nat \ {0}
    PROVE  /\ fresh' = fresh => Drawn' = Drawn /\ Documents' = Documents
           /\ fresh' = fresh + 1 => /\ fresh' \in Nat \ {0} /\ Drawn' = Drawn \cup {fresh}
                                    /\ Documents \subseteq Documents'
           /\ 0 \in Drawn /\ fresh \notin Drawn /\ fresh # 0
           /\ \A n \in Drawn : n \in Nat /\ n < fresh
<1>1. fresh' = fresh => Drawn' = Drawn
  BY DEF Drawn
<1>2. fresh' = fresh => Documents' = Documents
  BY <1>1 DEF Documents
<1>3. ASSUME fresh' = fresh + 1 PROVE Drawn' = Drawn \cup {fresh} /\ fresh' \in Nat \ {0}
  BY <1>3 DEF Drawn
<1>4. ASSUME fresh' = fresh + 1 PROVE Documents \subseteq Documents'
  BY <1>3, <1>4 DEF Documents
<1>5. 0 \in Drawn /\ fresh \notin Drawn /\ \A n \in Drawn : n \in Nat /\ n < fresh
  BY DEF Drawn
<1> QED BY <1>1, <1>2, <1>3, <1>4, <1>5

-----------------------------------------------------------------------------
(* Types, and which handler gets where.                                     *)

TypeInv == TypeOK /\ Stages /\ Waiting

LEMMA NoneIsNoType == "none" \notin Types /\ NoEvent.type = "none"
BY TypesAssumption DEF EventTypes, NoEvent

LEMMA TypeInit == Init => TypeInv
<1> SUFFICES ASSUME Init PROVE TypeInv
  OBVIOUS
<1>1. fresh \in Nat \ {0} /\ migrated \in BOOLEAN
  BY MigrationsAssumption DEF Init
<1>2. NoUser \in Documents /\ 0 \in Drawn
  BY <1>1 DEF NoUser, Documents, Drawn
<1>3. users \subseteq Documents
  BY DEF Init, SeededUsers, Documents, Drawn
<1>4. roles \subseteq [id : Drawn \ {0}, name : {"SUPER_ADMIN", "ADMIN", "USER"}]
  BY DEF Init, SeededRoles, Drawn
<1>5. event \in [Requests -> [type : Types \cup {"none"}, email : Emails \cup {"none"},
                              user : Drawn, avatar : BOOLEAN, age : {"fits", "overflows"}]]
  BY <1>2 DEF Init, NoEvent
<1>6. job \in [doc : Documents, old : Drawn]
  BY <1>2 DEF Init, NoJob
<1>7. crashes \in 0..MaxCrashes /\ faults \in 0..MaxFaults
  BY BoundsAssumption DEF Init
<1>8. Stages /\ Waiting
  BY DEF Init, Stages, Waiting, NoEvent
<1>9. disturbed \in [Troubles -> SUBSET Requests]
  BY DEF Init
<1>10. queue \in Seq(Requests)
  BY DEF Init
<1> QED
  BY <1>1, <1>3, <1>4, <1>5, <1>6, <1>7, <1>8, <1>9, <1>10 DEF Init, TypeInv, TypeOK

\* What a step of a handler has in hand.
LEMMA InHand ==
    ASSUME TypeInv, step \notin {"down", "idle"}
    PROVE  /\ queue # << >> /\ current \in Requests /\ current = queue[1] /\ 1 \in 1..Len(queue)
           /\ payload = event[current] /\ payload.type \in Types
           /\ payload # NoEvent
BY NoneIsNoType DEF TypeInv, TypeOK, Waiting, current, payload

\* An error is counted and noted.
LEMMA Errors ==
    ASSUME TypeInv, step \notin {"down", "idle"}, NEW kind \in FaultKinds, Error(kind)
    PROVE  /\ faults' \in 0..MaxFaults /\ disturbed' \in [Troubles -> SUBSET Requests]
           /\ disturbed'[kind] = disturbed[kind] \cup {current}
           /\ \A t \in Troubles : disturbed[t] \subseteq disturbed'[t]
           /\ \A t \in Troubles \ {kind} : disturbed'[t] = disturbed[t]
BY InHand, BoundsAssumption DEF Error, TypeInv, TypeOK, Troubles

\* The outcomes of a database write, one by one.
LEMMA Writes ==
    ASSUME NEW rejected \in BOOLEAN, NEW done \in BOOLEAN, NEW err \in BOOLEAN,
           Write(rejected, done, err)
    PROVE  \/ done /\ ~err /\ ~rejected /\ NoError
           \/ ~done /\ err /\ rejected /\ NoError
           \/ ~done /\ err /\ Error("write")
           \/ done /\ err /\ ~rejected /\ Error("ambiguous")
BY DEF Write

\* Whatever comes of a lookup or a write, the errors stay well typed.
ErrorsKept ==
    /\ faults' \in 0..MaxFaults /\ disturbed' \in [Troubles -> SUBSET Requests]
    /\ \A t \in Troubles : disturbed[t] \subseteq disturbed'[t]

LEMMA ErrorsStay ==
    ASSUME TypeInv, step \notin {"down", "idle"},
           NoError \/ \E kind \in FaultKinds : Error(kind)
    PROVE  ErrorsKept
<1>1. CASE NoError
  BY <1>1 DEF NoError, errors, ErrorsKept, TypeInv, TypeOK
<1>2. CASE \E kind \in FaultKinds : Error(kind)
  BY <1>2, Errors DEF ErrorsKept
<1> QED BY <1>1, <1>2

\* A step of a handler that draws at most one number, leaves event and queue alone
\* and types what it changes.
LEMMA TypeStep ==
    ASSUME TypeInv, UNCHANGED <<migrated, event, queue, crashes>>,
           step \notin {"down", "idle"}, Readable, ErrorsKept,
           fresh' \in {fresh, fresh + 1},
           users' \subseteq Documents',
           roles' \subseteq [id : Drawn' \ {0}, name : {"SUPER_ADMIN", "ADMIN", "USER"}],
           logs' \subseteq [user : Drawn', activity : Types],
           files' \subseteq Drawn' \ {0},
           job' \in [doc : Documents', old : Drawn'],
           replied' \in [Requests -> SUBSET {"success", "failure"}],
           created' \in [Requests -> SUBSET (Drawn' \ {0})],
           step' \in {"start", "role", "saveRole", "upload", "save", "update", "delete", "log",
                      "success", "failure", "ack"},
           step' \in {"role", "saveRole", "save"} => Creating(current),
           step' = "upload" => payload.type \in {"AdminCreate", "AdminUpdated"},
           step' \in {"update", "delete"} => payload.type \in {"UpdateProfile", "AdminUpdated"}
    PROVE  TypeInv'
<1>1. fresh' \in Nat \ {0} /\ Drawn \subseteq Drawn'
  BY Drawing DEF TypeInv, TypeOK
<1>2. event' \in [Requests -> [type : Types \cup {"none"}, email : Emails \cup {"none"},
                               user : Drawn', avatar : BOOLEAN, age : {"fits", "overflows"}]]
  BY <1>1 DEF TypeInv, TypeOK
<1>3. TypeOK'
  BY <1>1, <1>2 DEF TypeInv, TypeOK, ErrorsKept
<1>4. Stages' /\ Waiting'
  BY DEF TypeInv, Stages, Waiting, current, payload, Creating, Readable
<1> QED BY <1>3, <1>4 DEF TypeInv

\* A step that writes nothing: a lookup, or the start of a handler.
LEMMA TypeRead ==
    ASSUME TypeInv, unchanged, step \notin {"down", "idle"}, Readable,
           NoError \/ \E kind \in FaultKinds : Error(kind),
           job' \in [doc : Documents, old : Drawn],
           step' \in {"role", "saveRole", "upload", "save", "update", "log",
                      "success", "failure", "ack"},
           step' \in {"role", "saveRole", "save"} => Creating(current),
           step' = "upload" => payload.type \in {"AdminCreate", "AdminUpdated"},
           step' = "update" => payload.type \in {"UpdateProfile", "AdminUpdated"}
    PROVE  TypeInv'
<1>1. ErrorsKept
  BY ErrorsStay
<1>2. UNCHANGED <<database, migrated, files, event, queue, crashes, history>>
  BY DEF unchanged
<1>3. Drawn' = Drawn /\ Documents' = Documents
  BY <1>2, Drawing DEF database, TypeInv, TypeOK
<1> QED BY <1>1, <1>2, <1>3, TypeStep DEF database, history, TypeInv, TypeOK

\* The documents and numbers of the present, for the jobs.
LEMMA Known ==
    ASSUME TypeInv
    PROVE  /\ NoUser \in Documents /\ 0 \in Drawn /\ NoJob \in [doc : Documents, old : Drawn]
           /\ \A u \in users : /\ u \in Documents
                               /\ u.id \in Drawn /\ u.role \in Drawn /\ u.avatar \in Drawn
           /\ \A e \in Emails \cup {"none"} : [NoUser EXCEPT !.email = e] \in Documents
           /\ \A u \in users, e \in Emails \cup {"none"} : [u EXCEPT !.email = e] \in Documents
           /\ job.doc \in Documents /\ job.old \in Drawn
           /\ \A r \in Requests : event[r].email \in Emails \cup {"none"}
<1>1. NoUser \in Documents /\ 0 \in Drawn
  BY DEF NoUser, Documents, Drawn, TypeInv, TypeOK
<1>2. \A u \in users : u \in Documents
  BY DEF TypeInv, TypeOK
<1>3. \A u \in Documents : u.id \in Drawn /\ u.role \in Drawn /\ u.avatar \in Drawn
  BY DEF Documents
<1>4. \A u \in Documents, e \in Emails \cup {"none"} : [u EXCEPT !.email = e] \in Documents
  BY DEF Documents
<1> QED BY <1>1, <1>2, <1>3, <1>4 DEF NoJob, TypeInv, TypeOK

LEMMA TypeStart ==
    ASSUME TypeInv,
           \/ Register \/ Login \/ ReadUser \/ UpdateProfile
           \/ CreateAdmin \/ UpdateAdmin \/ GetAllAdmins
    PROVE  TypeInv'
<1>0. /\ unchanged /\ step \notin {"down", "idle"} /\ Readable
      /\ NoError \/ \E kind \in FaultKinds : Error(kind)
  BY DEF Register, Login, ReadUser, UpdateProfile, CreateAdmin, UpdateAdmin, GetAllAdmins,
         Starts, Missing, FaultKinds
<1>1. CASE Register
  <2>1. payload.type = "UserRegistered" /\ step' \in {"failure", "role"}
    BY <1>1 DEF Register, Starts, Goto
  <2>2. job' \in {job, [doc |-> [id |-> 0, email |-> payload.email, role |-> 0, avatar |-> 0],
                         old |-> 0]}
    BY <1>1 DEF Register, NoJob, NoUser
  <2>3. payload.email \in Emails \cup {"none"}
    BY <1>0, InHand, Known
  <2>4. job' \in [doc : Documents, old : Drawn]
    BY <2>2, <2>3, Known DEF Documents, TypeInv, TypeOK
  <2> QED BY <1>0, <2>1, <2>4, TypeRead, InHand DEF Creating
<1>2. CASE Login
  <2>1. step' \in {"failure", "log"}
    BY <1>2 DEF Login, Goto
  <2>3. job' = job \/ \E u \in users : job' = [doc |-> u, old |-> 0]
    BY <1>2 DEF Login, WithEmail, NoJob
  <2>2. job' \in [doc : Documents, old : Drawn]
    BY <2>3, Known DEF TypeInv, TypeOK
  <2> QED BY <1>0, <2>1, <2>2, TypeRead
<1>3. CASE ReadUser
  <2>1. step' \in {"failure", "log"}
    BY <1>3 DEF ReadUser, Goto
  <2>3. job' = job \/ \E u \in users : job' = [doc |-> u, old |-> 0]
    BY <1>3 DEF ReadUser, WithID, NoJob
  <2>2. job' \in [doc : Documents, old : Drawn]
    BY <2>3, Known DEF TypeInv, TypeOK
  <2> QED BY <1>0, <2>1, <2>2, TypeRead
<1>4. CASE UpdateProfile
  <2>1. payload.type = "UpdateProfile" /\ step' \in {"failure", "update"}
    BY <1>4 DEF UpdateProfile, Starts, Goto
  <2>2. job' = job \/ \E u \in users : job' = [doc |-> u, old |-> u.avatar]
    BY <1>4 DEF UpdateProfile, WithID
  <2>3. job' \in [doc : Documents, old : Drawn]
    BY <2>2, Known DEF TypeInv, TypeOK
  <2> QED BY <1>0, <2>1, <2>3, TypeRead
<1>5. CASE CreateAdmin
  <2>1. payload.type = "AdminCreate" /\ step' \in {"failure", "role"}
    BY <1>5 DEF CreateAdmin, Starts, Goto
  <2>2. job' \in {job, [doc |-> [id |-> 0, email |-> payload.email, role |-> 0, avatar |-> 0],
                         old |-> 0]}
    BY <1>5 DEF CreateAdmin, NoJob, NoUser
  <2>3. payload.email \in Emails \cup {"none"}
    BY <1>0, InHand, Known
  <2>4. job' \in [doc : Documents, old : Drawn]
    BY <2>2, <2>3, Known DEF Documents, TypeInv, TypeOK
  <2> QED BY <1>0, <2>1, <2>4, TypeRead, InHand DEF Creating
<1>6. CASE UpdateAdmin
  <2>1. payload.type = "AdminUpdated" /\ step' \in {"failure", "upload", "update"}
    BY <1>6 DEF UpdateAdmin, Starts, Goto, Hash
  <2>2. \/ job' = job
        \/ \E u \in users : job' = [doc |-> [u EXCEPT !.email = IF payload.email = "none" THEN @
                                                               ELSE payload.email],
                                    old |-> u.avatar]
    BY <1>6 DEF UpdateAdmin, WithID
  <2>3. payload.email \in Emails \cup {"none"}
    BY <1>0, InHand, Known
  <2>4. ASSUME NEW u \in users
        PROVE  [u EXCEPT !.email = IF payload.email = "none" THEN @ ELSE payload.email] \in Documents
    <3>1. CASE payload.email = "none"
      BY <3>1, Known, Records DEF Documents
    <3>2. CASE payload.email # "none"
      BY <2>3, <3>2, Known
    <3> QED BY <3>1, <3>2
  <2>5. job' \in [doc : Documents, old : Drawn]
    BY <2>2, <2>4, Known DEF TypeInv, TypeOK
  <2> QED BY <1>0, <2>1, <2>5, TypeRead
<1>7. CASE GetAllAdmins
  BY <1>0, <1>7, TypeRead DEF GetAllAdmins, Goto, TypeInv, TypeOK
<1> QED BY <1>1, <1>2, <1>3, <1>4, <1>5, <1>6, <1>7

\* A job stays well typed when one of its numbers becomes the one just drawn.
LEMMA JobTypes ==
    ASSUME TypeInv, Drawn' = Drawn \cup {fresh},
           job' \in {job, [job EXCEPT !.doc.role = fresh], [job EXCEPT !.doc.avatar = fresh],
                      [job EXCEPT !.doc.id = fresh]}
    PROVE  job' \in [doc : Documents', old : Drawn']
<1>1. job \in [doc : [id : Drawn, email : Addresses, role : Drawn, avatar : Drawn], old : Drawn]
  BY DEF TypeInv, TypeOK, Documents, Addresses
<1>2. job' \in [doc : [id : Drawn', email : Addresses, role : Drawn', avatar : Drawn'], old : Drawn']
  BY <1>1, JobChanges
<1> QED BY <1>2 DEF Documents, Addresses

LEMMA TypeRest ==
    ASSUME TypeInv,
           \/ FindRole \/ SaveRole \/ Upload \/ SaveUser
           \/ UpdateUser \/ DeleteAvatar \/ SaveLog
    PROVE  TypeInv'
<1>0. step \notin {"down", "idle"} /\ Readable
  BY DEF FindRole, SaveRole, Upload, SaveUser, UpdateUser, DeleteAvatar, SaveLog, TypeInv, Stages
<1>1. CASE FindRole
  <2>1. step = "role" /\ unchanged /\ step' \in {"upload", "save", "saveRole", "failure"}
    BY <1>1 DEF FindRole, Goto, Hash, AfterRole
  <2>2. step' = "upload" => payload.avatar
    BY <1>1 DEF FindRole, Goto, Hash, AfterRole
  <2>3. Creating(current) /\ (payload.avatar => payload.type \in WithAvatar)
    BY <2>1, <1>0, InHand DEF TypeInv, Stages
  <2>4. step' = "upload" => payload.type = "AdminCreate"
    BY <2>2, <2>3 DEF Creating, payload, WithAvatar
  <2>5. NoError \/ \E kind \in FaultKinds : Error(kind)
    BY <1>1 DEF FindRole, Missing, FaultKinds
  <2>6. job' = job \/ \E id \in Drawn : job' = [job EXCEPT !.doc.role = id]
    BY <1>1 DEF FindRole, RoleIDs, TypeInv, TypeOK
  <2>7. job' \in [doc : Documents, old : Drawn]
    BY <2>6 DEF Documents, TypeInv, TypeOK
  <2> QED BY <1>0, <2>1, <2>3, <2>4, <2>5, <2>7, TypeRead
<1>2. CASE SaveRole
  <2>1. /\ step = "saveRole" /\ fresh' = fresh + 1
        /\ UNCHANGED <<users, logs, files, migrated, event, queue, crashes, history>>
        /\ step' \in {"upload", "save", "failure"}
    BY <1>2 DEF SaveRole, Goto, Hash, AfterRole
  <2>2. step' = "upload" => payload.avatar
    BY <1>2 DEF SaveRole, Goto, Hash, AfterRole
  <2>3. Creating(current) /\ (payload.avatar => payload.type \in WithAvatar)
    BY <2>1, <1>0, InHand DEF TypeInv, Stages
  <2>4. step' = "upload" => payload.type = "AdminCreate"
    BY <2>2, <2>3 DEF Creating, payload, WithAvatar
  <2>5. ErrorsKept
    BY <1>0, <1>2, ErrorsStay DEF SaveRole, Write, FaultKinds
  <2>6. Drawn' = Drawn \cup {fresh} /\ Documents \subseteq Documents' /\ fresh # 0 /\ fresh \in Drawn'
    BY <2>1, Drawing DEF TypeInv, TypeOK
  <2>7. job' = job \/ job' = [job EXCEPT !.doc.role = fresh]
    BY <1>2 DEF SaveRole
  <2>8. job' \in [doc : Documents', old : Drawn']
    BY <2>6, <2>7, JobTypes
  <2>9. roles' = roles \/ roles' = roles \cup {[id |-> fresh, name |-> NewRole]}
    BY <1>2 DEF SaveRole
  <2>10. roles' \subseteq [id : Drawn' \ {0}, name : {"SUPER_ADMIN", "ADMIN", "USER"}]
    BY <2>6, <2>9 DEF NewRole, TypeInv, TypeOK
  <2> QED
    BY <1>0, <2>1, <2>3, <2>4, <2>5, <2>6, <2>8, <2>10, TypeStep DEF history, TypeInv, TypeOK
<1>3. CASE Upload
  <2>1. /\ step = "upload" /\ step' \in {"save", "update", "failure"}
        /\ UNCHANGED <<users, roles, logs, migrated, event, queue, crashes, history>>
        /\ fresh' \in {fresh, fresh + 1}
    BY <1>3 DEF Upload, Goto
  <2>2. /\ step' = "save" => Creating(current)
        /\ step' = "update" => payload.type \in {"UpdateProfile", "AdminUpdated"}
    BY <1>3 DEF Upload, Goto, TypeInv, Stages, Creating, payload
  <2>3. ErrorsKept
    BY <1>0, <1>3, ErrorsStay DEF Upload, FaultKinds
  <2>4. CASE fresh' = fresh + 1
    <3>1. Drawn' = Drawn \cup {fresh} /\ Documents \subseteq Documents' /\ fresh # 0
      BY <2>4, Drawing DEF TypeInv, TypeOK
    <3>2. files' \subseteq files \cup {fresh} /\ job' \in {job, [job EXCEPT !.doc.avatar = fresh]}
      BY <1>3 DEF Upload
    <3>3. job' \in [doc : Documents', old : Drawn']
      BY <3>1, <3>2, JobTypes
    <3> QED BY <1>0, <2>1, <2>2, <2>3, <3>1, <3>2, <3>3, TypeStep DEF history, TypeInv, TypeOK
  <2>5. CASE fresh' = fresh
    <3>1. Drawn' = Drawn /\ Documents' = Documents
      BY <2>5, Drawing DEF TypeInv, TypeOK
    <3>2. files' = files /\ job' = job
      BY <1>3, <2>5 DEF Upload, TypeInv, TypeOK
    <3> QED BY <1>0, <2>1, <2>2, <2>3, <3>1, <3>2, TypeStep DEF history, TypeInv, TypeOK
  <2> QED BY <2>1, <2>4, <2>5
<1>4. CASE SaveUser
  <2>1. /\ step = "save" /\ step' \in {"failure", "log"} /\ fresh' = fresh + 1
        /\ UNCHANGED <<roles, logs, files, migrated, event, queue, crashes, replied>>
        /\ users' \subseteq users \cup {NewUser}
    BY <1>4 DEF SaveUser, Goto
  <2>2. ErrorsKept
    BY <1>0, <1>4, ErrorsStay DEF SaveUser, Write, FaultKinds
  <2>3. Drawn' = Drawn \cup {fresh} /\ Documents \subseteq Documents' /\ fresh # 0 /\ fresh \in Drawn'
    BY <2>1, Drawing DEF TypeInv, TypeOK
  <2>4. NewUser \in Documents'
    BY <2>3 DEF NewUser, Documents, TypeInv, TypeOK
  <2>5. job' = job \/ job' = [job EXCEPT !.doc.id = fresh]
    BY <1>4 DEF SaveUser
  <2>6. job' \in [doc : Documents', old : Drawn']
    BY <2>3, <2>5, JobTypes
  <2>7. created' \in [Requests -> SUBSET (Drawn' \ {0})]
    BY <1>0, <1>4, <2>3, InHand DEF SaveUser, TypeInv, TypeOK
  <2> QED
    BY <1>0, <2>1, <2>2, <2>3, <2>4, <2>6, <2>7, TypeStep DEF TypeInv, TypeOK
<1>5. CASE UpdateUser
  <2>1. /\ step = "update" /\ step' \in {"failure", "delete", "log"}
        /\ UNCHANGED <<roles, logs, fresh, files, migrated, event, queue, job, crashes, history>>
        /\ users' \subseteq users \cup {job.doc}
    BY <1>5 DEF UpdateUser, Goto
  <2>2. ErrorsKept
    BY <1>0, <1>5, ErrorsStay DEF UpdateUser, Write, FaultKinds
  <2>3. Drawn' = Drawn /\ Documents' = Documents
    BY <2>1, Drawing DEF TypeInv, TypeOK
  <2>4. payload.type \in {"UpdateProfile", "AdminUpdated"}
    BY <2>1 DEF TypeInv, Stages
  <2>5. users' \subseteq Documents'
    BY <2>1, <2>3, Known
  <2> QED
    BY <1>0, <2>1, <2>2, <2>3, <2>4, <2>5, TypeStep DEF history, TypeInv, TypeOK
<1>6. CASE DeleteAvatar
  <2>1. /\ UNCHANGED <<database, migrated, event, queue, job, crashes, history>>
        /\ files' \subseteq files /\ step' = "log"
    BY <1>6 DEF DeleteAvatar, Goto
  <2>2. ErrorsKept
    BY <1>0, <1>6, ErrorsStay DEF DeleteAvatar, FaultKinds
  <2>3. Drawn' = Drawn /\ Documents' = Documents
    BY <2>1, Drawing DEF database, TypeInv, TypeOK
  <2> QED
    BY <1>0, <2>1, <2>2, <2>3, TypeStep DEF database, history, TypeInv, TypeOK
<1>7. CASE SaveLog
  <2>1. /\ step = "log" /\ step' \in {"failure", "success"}
        /\ UNCHANGED <<users, roles, fresh, files, migrated, event, queue, job, crashes, history>>
        /\ logs' \subseteq logs \cup {[user |-> job.doc.id, activity |-> payload.type]}
    BY <1>7 DEF SaveLog, Goto
  <2>2. ErrorsKept
    BY <1>0, <1>7, ErrorsStay DEF SaveLog, Write, FaultKinds
  <2>3. Drawn' = Drawn /\ Documents' = Documents
    BY <2>1, Drawing DEF TypeInv, TypeOK
  <2>4. payload.type \in Types /\ job.doc.id \in Drawn
    BY <1>0, InHand DEF Documents, TypeInv, TypeOK
  <2>5. logs' \subseteq [user : Drawn', activity : Types]
    BY <2>1, <2>3, <2>4 DEF TypeInv, TypeOK
  <2> QED
    BY <1>0, <2>1, <2>2, <2>3, <2>5, TypeStep DEF history, TypeInv, TypeOK
<1> QED BY <1>1, <1>2, <1>3, <1>4, <1>5, <1>6, <1>7

LEMMA TypeOther ==
    ASSUME TypeInv,
           \/ \E r \in Requests : Arrive(r)
           \/ Restart \/ Take \/ Ignore \/ Answer \/ Ack \/ Crash \/ UNCHANGED vars
    PROVE  TypeInv'
<1>1. ASSUME NEW r \in Requests, Arrive(r) PROVE TypeInv'
  <2>1. PICK e \in Payloads : event' = [event EXCEPT ![r] = e]
    BY <1>1 DEF Arrive
  <2>2. UNCHANGED <<database, migrated, files, step, job, crashes, history, errors>>
    BY <1>1 DEF Arrive
  <2>3. Drawn' = Drawn /\ Documents' = Documents
    BY <2>2, Drawing DEF database, TypeInv, TypeOK
  <2>4. /\ e \in [type : Types \cup {"none"}, email : Emails \cup {"none"},
                  user : Drawn, avatar : BOOLEAN, age : {"fits", "overflows"}]
        /\ e.type \in Types /\ (e.avatar => e.type \in WithAvatar)
    BY Known DEF Payloads
  <2>5. event' \in [Requests -> [type : Types \cup {"none"}, email : Emails \cup {"none"},
                                 user : Drawn, avatar : BOOLEAN, age : {"fits", "overflows"}]]
    BY <2>1, <2>4 DEF TypeInv, TypeOK
  <2>6. /\ event[r] = NoEvent /\ event'[r] = e
        /\ \A x \in Requests \ {r} : event'[x] = event[x]
        /\ queue \in Seq(Requests) /\ queue' = Append(queue, r)
    BY <1>1, <2>1 DEF Arrive, TypeInv, TypeOK
  <2>7. /\ Len(queue') = Len(queue) + 1 /\ queue'[Len(queue) + 1] = r
        /\ \A i \in 1..Len(queue) : queue'[i] = queue[i] /\ queue[i] \in Requests
        /\ Len(queue) \in Nat /\ queue' \in Seq(Requests)
    BY <2>6
  <2>8. \A i \in 1..Len(queue) : queue[i] # r
    BY <2>6, NoneIsNoType DEF TypeInv, Waiting
  <2>9. Waiting'
    BY <2>4, <2>6, <2>7, <2>8 DEF TypeInv, Waiting
  <2>10. step \notin {"down", "idle"} => queue # << >> /\ current' = current /\ current # r
                                         /\ current \in Requests
    BY <2>6, <2>7, <2>8, InHand DEF current
  <2>11. step \notin {"down", "idle"} => payload' = payload
    BY <2>6, <2>10 DEF payload
  <2>12. Stages'
    BY <2>2, <2>4, <2>6, <2>10, <2>11 DEF TypeInv, Stages, Creating, payload, Readable
  <2>13. step' \notin {"down", "idle"} => queue' # << >>
    BY <2>6, <2>7
  <2>14. TypeOK'
    BY <2>2, <2>3, <2>5, <2>7, <2>13 DEF database, history, errors, TypeInv, TypeOK
  <2> QED BY <2>9, <2>12, <2>14 DEF TypeInv
<1>2. CASE Restart
  <2>1. step' = "idle" /\ UNCHANGED <<database, files, migrated, event, queue, job, crashes, history, errors>>
    BY <1>2 DEF Restart, Goto
  <2>2. Drawn' = Drawn /\ Documents' = Documents
    BY <2>1, Drawing DEF database, TypeInv, TypeOK
  <2> QED BY <2>1, <2>2 DEF database, history, errors, TypeInv, TypeOK, Stages, Waiting
<1>3. CASE Take
  <2>1. step' = "start" /\ queue # << >>
        /\ UNCHANGED <<database, files, migrated, event, queue, job, crashes, history, errors>>
    BY <1>3 DEF Take, Goto
  <2>2. Drawn' = Drawn /\ Documents' = Documents
    BY <2>1, Drawing DEF database, TypeInv, TypeOK
  <2> QED BY <2>1, <2>2 DEF database, history, errors, TypeInv, TypeOK, Stages, Waiting
<1>4. CASE Answer
  <2>1. step \in {"success", "failure"} /\ step' = "ack"
        /\ replied' = [replied EXCEPT ![current] = @ \cup {step}]
        /\ UNCHANGED <<database, files, migrated, event, queue, job, crashes, created, errors>>
    BY <1>4 DEF Answer, Goto
  <2>2. replied' \in [Requests -> SUBSET {"success", "failure"}]
    BY <2>1, InHand DEF TypeInv, TypeOK
  <2>3. Drawn' = Drawn /\ Documents' = Documents
    BY <2>1, Drawing DEF database, TypeInv, TypeOK
  <2> QED BY <2>1, <2>2, <2>3 DEF database, errors, TypeInv, TypeOK, Stages, Waiting
<1>5. CASE Ack
  <2>1. step = "ack" /\ step' = "idle" /\ queue' = Tail(queue) /\ job' = NoJob
        /\ UNCHANGED <<database, files, migrated, event, crashes, history, errors>>
    BY <1>5 DEF Ack, Goto
  <2>2. Drawn' = Drawn /\ Documents' = Documents
    BY <2>1, Drawing DEF database, TypeInv, TypeOK
  <2>3. /\ queue' \in Seq(Requests) /\ Len(queue) \in Nat /\ Len(queue') = Len(queue) - 1
        /\ \A i \in 1..Len(queue') : queue'[i] = queue[i + 1] /\ i + 1 \in 1..Len(queue)
    BY <2>1 DEF TypeInv, TypeOK
  <2>4. Waiting'
    BY <2>1, <2>3 DEF TypeInv, Waiting
  <2>5. TypeOK'
    BY <2>1, <2>2, <2>3, Known DEF database, history, errors, TypeInv, TypeOK
  <2> QED BY <2>1, <2>4, <2>5 DEF TypeInv, Stages
<1>6. CASE Crash
  <2>1. step # "down" /\ step' = "down" /\ job' = NoJob /\ crashes < MaxCrashes
        /\ crashes' = crashes + 1
        /\ disturbed' = [disturbed EXCEPT !["crash"] =
                            IF step = "idle" THEN @ ELSE @ \cup {current}]
        /\ UNCHANGED <<database, files, migrated, event, queue, history, faults>>
    BY <1>6 DEF Crash, Goto
  <2>2. Drawn' = Drawn /\ Documents' = Documents
    BY <2>1, Drawing DEF database, TypeInv, TypeOK
  <2>3. disturbed' \in [Troubles -> SUBSET Requests]
    BY <2>1, InHand DEF Troubles, TypeInv, TypeOK
  <2>4. crashes' \in 0..MaxCrashes
    BY <2>1, BoundsAssumption DEF TypeInv, TypeOK
  <2> QED
    BY <2>1, <2>2, <2>3, <2>4, Known DEF database, history, TypeInv, TypeOK, Stages, Waiting
<1>7. CASE UNCHANGED vars
  <2>1. Drawn' = Drawn /\ Documents' = Documents
    BY <1>7, Drawing DEF vars, database, TypeInv, TypeOK
  <2> QED
    BY <1>7, <2>1 DEF vars, database, history, errors, TypeInv, TypeOK, Stages, Waiting,
                      Creating, payload, current, Readable
<1>8. CASE Ignore
  <2>1. step = "start" /\ step' = "ack"
        /\ UNCHANGED <<database, files, migrated, event, queue, job, crashes, history, errors>>
    BY <1>8 DEF Ignore, Goto, NoError, unchanged
  <2>2. Drawn' = Drawn /\ Documents' = Documents
    BY <2>1, Drawing DEF database, TypeInv, TypeOK
  <2> QED BY <2>1, <2>2 DEF database, history, errors, TypeInv, TypeOK, Stages, Waiting
<1> QED BY <1>1, <1>2, <1>3, <1>4, <1>5, <1>6, <1>7, <1>8

\* One case of the proofs below per action.
LEMMA Steps ==
    ASSUME [Next]_vars
    PROVE  \/ \E r \in Requests : Arrive(r)
           \/ Restart \/ Take \/ Ignore \/ Answer \/ Ack \/ Crash \/ UNCHANGED vars
           \/ Register \/ Login \/ ReadUser \/ UpdateProfile
           \/ CreateAdmin \/ UpdateAdmin \/ GetAllAdmins
           \/ FindRole \/ SaveRole \/ Upload \/ SaveUser
           \/ UpdateUser \/ DeleteAvatar \/ SaveLog
BY DEF Next, Consumer, Handle, Quiescent

LEMMA TypeNext == TypeInv /\ [Next]_vars => TypeInv'
BY Steps, TypeOther, TypeStart, TypeRest

\* The variables are well typed, ObjectIDs and files are below the counter they
\* are drawn from, and a handler only runs with an event in hand.
THEOREM AccountTypes == Spec => []TypeOK
<1>1. TypeInv => TypeOK
  BY DEF TypeInv
<1> QED BY <1>1, TypeInit, TypeNext, PTL DEF Spec

-----------------------------------------------------------------------------
(* What the actions do, for the invariants below.                            *)

\* A new event comes in behind the others and disturbs no handler.
LEMMA Arrival ==
    ASSUME TypeInv, NEW r \in Requests, Arrive(r)
    PROVE  /\ UNCHANGED <<users, roles, logs, fresh, migrated, files, step, job, crashes,
                          replied, created, faults, disturbed>>
           /\ event[r] = NoEvent /\ event'[r].type \in Types
           /\ \A x \in Requests \ {r} : event'[x] = event[x]
           /\ Len(queue) \in Nat /\ Len(queue') = Len(queue) + 1 /\ queue'[Len(queue) + 1] = r
           /\ \A i \in 1..Len(queue) : queue'[i] = queue[i] /\ queue[i] # r
           /\ queue # << >> => /\ queue' # << >> /\ current' = current /\ current # r
                               /\ current \in Requests /\ payload' = payload
<1>1. PICK e \in Payloads : event' = [event EXCEPT ![r] = e]
  BY DEF Arrive
<1>2. e.type \in Types
  BY DEF Payloads
<1>3. /\ event[r] = NoEvent /\ event'[r] = e
      /\ \A x \in Requests \ {r} : event'[x] = event[x]
      /\ queue \in Seq(Requests) /\ queue' = Append(queue, r)
  BY <1>1 DEF Arrive, TypeInv, TypeOK
<1>4. /\ Len(queue') = Len(queue) + 1 /\ queue'[Len(queue) + 1] = r
      /\ \A i \in 1..Len(queue) : queue'[i] = queue[i] /\ queue[i] \in Requests
      /\ Len(queue) \in Nat
  BY <1>3
<1>5. \A i \in 1..Len(queue) : queue[i] # r
  BY <1>3, NoneIsNoType DEF TypeInv, Waiting
<1>6. queue # << >> => queue' # << >> /\ current' = current /\ current # r /\ current \in Requests
  BY <1>3, <1>4, <1>5 DEF current
<1>7. queue # << >> => payload' = payload
  BY <1>3, <1>6 DEF payload
<1>8. UNCHANGED <<users, roles, logs, fresh, migrated, files, step, job, crashes,
                  replied, created, faults, disturbed>>
  BY DEF Arrive, database, history, errors
<1> QED BY <1>2, <1>3, <1>4, <1>5, <1>6, <1>7, <1>8

\* The steps of a handler keep its event in hand.
LEMMA StillInHand ==
    ASSUME UNCHANGED <<event, queue>>
    PROVE  current' = current /\ payload' = payload /\ Registering' = Registering
           /\ \A r : Creating(r)' = Creating(r)
BY DEF current, payload, Registering, Creating

\* The steps that change no document, no file and no event, and lead to no write.
LEMMA Passing ==
    ASSUME \/ Restart \/ Take \/ Ignore \/ Answer \/ Crash
           \/ Login \/ ReadUser \/ GetAllAdmins \/ SaveLog
    PROVE  /\ UNCHANGED <<users, roles, fresh, migrated, files, event, queue>>
           /\ step' \notin {"role", "saveRole", "upload", "save", "update", "delete"}
BY DEF Restart, Take, Ignore, Answer, Crash, Login, ReadUser, GetAllAdmins, SaveLog, Goto,
       unchanged, database

\* The start of a handler.
LEMMA Starting ==
    ASSUME \/ Register \/ Login \/ ReadUser \/ UpdateProfile
           \/ CreateAdmin \/ UpdateAdmin \/ GetAllAdmins
    PROVE  /\ step = "start"
           /\ UNCHANGED <<users, roles, logs, fresh, migrated, files, event, queue, crashes,
                          replied, created>>
           /\ NoError \/ Error("read")
BY DEF Register, Login, ReadUser, UpdateProfile, CreateAdmin, UpdateAdmin, GetAllAdmins,
       Starts, Missing, unchanged, database, history

\* FindUserByEmail found nothing, or failed.
LEMMA Registers ==
    ASSUME Register, step' # "failure"
    PROVE  /\ step' = "role" /\ Registering
           /\ Missing(WithEmail(payload.email))
           /\ job' = [doc |-> [id |-> 0, email |-> payload.email, role |-> 0, avatar |-> 0],
                      old |-> 0]
BY DEF Register, Goto, Starts, Registering, NoJob, NoUser

LEMMA Creates ==
    ASSUME CreateAdmin, step' # "failure"
    PROVE  /\ step' = "role" /\ payload.type = "AdminCreate" /\ NoError
           /\ \E u \in users : "SUPER_ADMIN" \in RoleNames(u.role)
           /\ job' = [doc |-> [id |-> 0, email |-> payload.email, role |-> 0, avatar |-> 0],
                      old |-> 0]
BY DEF CreateAdmin, Goto, Starts, WithID, NoJob, NoUser

\* HandleUpdateAdmin works on a document it has read.
LEMMA ChangesAdmin ==
    ASSUME TypeInv, UpdateAdmin, step' # "failure"
    PROVE  /\ step' \in {"update", "upload"} /\ payload.type = "AdminUpdated" /\ NoError
           /\ \E u \in users : /\ "ADMIN" \in RoleNames(u.role)
                               /\ job'.doc.id = u.id /\ job'.doc.role = u.role
                               /\ job'.doc.avatar = u.avatar /\ job'.old = u.avatar
<1>1. /\ step' \in {"update", "upload"} /\ payload.type = "AdminUpdated" /\ NoError
      /\ \E u \in users : /\ "ADMIN" \in RoleNames(u.role)
                          /\ job' = [doc |-> [u EXCEPT !.email = IF payload.email = "none" THEN @
                                                                 ELSE payload.email],
                                     old |-> u.avatar]
  BY DEF UpdateAdmin, Goto, Hash, Starts, WithID
<1>2. PICK u \in users : /\ "ADMIN" \in RoleNames(u.role)
                         /\ job' = [doc |-> [u EXCEPT !.email = IF payload.email = "none" THEN @
                                                                ELSE payload.email],
                                    old |-> u.avatar]
  BY <1>1
<1>3. u \in [id : Drawn, email : Addresses, role : Drawn, avatar : Drawn]
  BY Known DEF Documents, Addresses
<1>4. job'.doc.id = u.id /\ job'.doc.role = u.role /\ job'.doc.avatar = u.avatar
      /\ job'.old = u.avatar
  BY <1>2, <1>3
<1> QED BY <1>1, <1>2, <1>4

LEMMA FindsRole ==
    ASSUME TypeInv, FindRole
    PROVE  /\ step = "role" /\ step' \in {"saveRole", "upload", "save", "failure"}
           /\ Creating(current)
           /\ step' = "upload" => ~Registering
           /\ UNCHANGED <<users, roles, logs, fresh, migrated, files, event, queue, crashes,
                          replied, created>>
           /\ \/ /\ step' # "saveRole" /\ NoError
                 /\ RoleNames(job'.doc.role) # {}
                 /\ \E id \in Drawn : job' = [job EXCEPT !.doc.role = id]
              \/ step' = "saveRole" /\ job' = job /\ Missing(RoleIDs(NewRole))
           /\ job'.doc.id = job.doc.id /\ job'.doc.email = job.doc.email
           /\ job'.doc.avatar = job.doc.avatar
<1>1. /\ step = "role" /\ step' \in {"saveRole", "upload", "save", "failure"}
      /\ UNCHANGED <<users, roles, logs, fresh, migrated, files, event, queue, crashes,
                     replied, created>>
  BY DEF FindRole, Goto, Hash, AfterRole, unchanged, database, history
<1>2. Creating(current) /\ (payload.avatar => payload.type \in WithAvatar)
  BY <1>1, InHand DEF TypeInv, Stages
<1>3. step' = "upload" => payload.avatar
  BY DEF FindRole, Goto, Hash, AfterRole
<1>4. step' = "upload" => ~Registering
  BY <1>2, <1>3 DEF WithAvatar, Registering
<1>5. CASE step' = "saveRole"
  BY <1>1, <1>2, <1>4, <1>5 DEF FindRole, Goto, Hash, AfterRole
<1>6. CASE step' # "saveRole"
  <2>1. PICK id \in RoleIDs(NewRole) : NoError /\ job' = [job EXCEPT !.doc.role = id]
    BY <1>6 DEF FindRole, Goto
  <2>2. id \in Drawn /\ RoleNames(id) # {}
    BY DEF RoleIDs, RoleNames, TypeInv, TypeOK
  <2>3. job \in [doc : [id : Drawn, email : Addresses, role : Drawn, avatar : Drawn], old : Drawn]
    BY DEF TypeInv, TypeOK, Documents, Addresses
  <2>4. /\ job'.doc.role = id /\ job'.doc.id = job.doc.id /\ job'.doc.email = job.doc.email
        /\ job'.doc.avatar = job.doc.avatar
    BY <2>1, <2>3
  <2> QED BY <1>1, <1>2, <1>4, <1>6, <2>1, <2>2, <2>4
<1> QED BY <1>5, <1>6

LEMMA SavesRole ==
    ASSUME TypeInv, SaveRole
    PROVE  /\ step = "saveRole" /\ step' \in {"failure", "upload", "save"} /\ Creating(current)
           /\ step' = "upload" => ~Registering
           /\ UNCHANGED <<users, logs, migrated, files, event, queue, crashes, replied, created>>
           /\ fresh' = fresh + 1 /\ fresh # 0 /\ fresh \notin Drawn
           /\ roles' = roles \/ roles' = roles \cup {[id |-> fresh, name |-> NewRole]}
           /\ Registering => job' = job
           /\ ~Registering => job'.doc.role = fresh
           /\ ~Registering /\ step' # "failure" => [id |-> fresh, name |-> NewRole] \in roles'
           /\ NoError \/ Error("write") \/ Error("ambiguous")
           /\ job'.doc.id = job.doc.id /\ job'.doc.email = job.doc.email
           /\ job'.doc.avatar = job.doc.avatar
<1>1. /\ step = "saveRole" /\ step' \in {"failure", "upload", "save"} /\ fresh' = fresh + 1
      /\ UNCHANGED <<users, logs, migrated, files, event, queue, crashes, replied, created>>
      /\ roles' = roles \/ roles' = roles \cup {[id |-> fresh, name |-> NewRole]}
      /\ job' = IF Registering THEN job ELSE [job EXCEPT !.doc.role = fresh]
  BY DEF SaveRole, Goto, Hash, AfterRole, history
<1>2. fresh # 0 /\ fresh \notin Drawn
  BY Drawing DEF TypeInv, TypeOK
<1>3. Creating(current) /\ (payload.avatar => payload.type \in WithAvatar)
  BY <1>1, InHand DEF TypeInv, Stages
<1>4. ~Registering /\ step' # "failure" => [id |-> fresh, name |-> NewRole] \in roles'
  BY DEF SaveRole, Goto, Hash, Write
<1>5. NoError \/ Error("write") \/ Error("ambiguous")
  BY DEF SaveRole, Write
<1>6. step' = "upload" => payload.avatar
  BY DEF SaveRole, Goto, Hash, AfterRole
<1>7. job \in [doc : [id : Drawn, email : Addresses, role : Drawn, avatar : Drawn], old : Drawn]
  BY DEF TypeInv, TypeOK, Documents, Addresses
<1>8. /\ ~Registering => job'.doc.role = fresh
      /\ job'.doc.id = job.doc.id /\ job'.doc.email = job.doc.email
      /\ job'.doc.avatar = job.doc.avatar
  BY <1>1, <1>7
<1>9. step' = "upload" => ~Registering
  BY <1>3, <1>6 DEF WithAvatar, Registering
<1> QED BY <1>1, <1>2, <1>3, <1>4, <1>5, <1>8, <1>9

LEMMA Uploads ==
    ASSUME TypeInv, Upload
    PROVE  /\ step = "upload" /\ ~Registering
           /\ UNCHANGED <<users, roles, logs, migrated, event, queue, crashes, replied, created>>
           /\ fresh # 0 /\ fresh \notin Drawn
           /\ \/ /\ step' = (IF Creating(current) THEN "save" ELSE "update") /\ NoError
                 /\ files' = files \cup {fresh} /\ fresh' = fresh + 1
                 /\ job'.doc.avatar = fresh /\ job'.doc.id = job.doc.id
                 /\ job'.doc.email = job.doc.email /\ job'.doc.role = job.doc.role
                 /\ job'.old = job.old
              \/ step' = "failure" /\ Error("write") /\ UNCHANGED <<files, job, fresh>>
<1>1. /\ step = "upload"
      /\ UNCHANGED <<users, roles, logs, migrated, event, queue, crashes, replied, created>>
  BY DEF Upload, history
<1>2. payload.type \in {"AdminCreate", "AdminUpdated"}
  BY <1>1 DEF TypeInv, Stages
<1>3. ~Registering /\ (Creating(current) <=> payload.type = "AdminCreate")
  BY <1>2 DEF Registering, Creating, payload
<1>4. fresh # 0 /\ fresh \notin Drawn
  BY Drawing DEF TypeInv, TypeOK
<1>5. \/ /\ step' = (IF payload.type = "AdminCreate" THEN "save" ELSE "update") /\ NoError
         /\ files' = files \cup {fresh} /\ fresh' = fresh + 1
         /\ job' = [job EXCEPT !.doc.avatar = fresh]
      \/ step' = "failure" /\ Error("write") /\ UNCHANGED <<files, job, fresh>>
  BY DEF Upload, Goto
<1>6. job \in [doc : [id : Drawn, email : Addresses, role : Drawn, avatar : Drawn], old : Drawn]
  BY DEF TypeInv, TypeOK, Documents, Addresses
<1>7. job' = [job EXCEPT !.doc.avatar = fresh] =>
          /\ job'.doc.avatar = fresh /\ job'.doc.id = job.doc.id
          /\ job'.doc.email = job.doc.email /\ job'.doc.role = job.doc.role
          /\ job'.old = job.old
  BY <1>6
<1> QED BY <1>1, <1>3, <1>4, <1>5, <1>7

LEMMA SavesUser ==
    ASSUME TypeInv, SaveUser
    PROVE  /\ step = "save" /\ step' \in {"failure", "log"} /\ Creating(current)
           /\ UNCHANGED <<roles, logs, files, migrated, event, queue, crashes, replied>>
           /\ fresh' = fresh + 1 /\ fresh # 0 /\ fresh \notin Drawn
           /\ NewUser.id = fresh /\ NewUser.email = job.doc.email
           /\ NewUser.role = job.doc.role /\ NewUser.avatar = job.doc.avatar
           /\ \A x \in Requests \ {current} : created'[x] = created[x]
           /\ \/ /\ users' = users \cup {NewUser} /\ ~EmailTaken(job.doc.email, 0)
                 /\ created'[current] = created[current] \cup {fresh}
                 /\ created' = [created EXCEPT ![current] = @ \cup {fresh}]
                 /\ \/ step' = "log" /\ NoError
                    \/ step' = "failure" /\ Error("ambiguous")
              \/ /\ UNCHANGED <<users, created>> /\ step' = "failure"
                 /\ NoError \/ Error("write")
<1>1. /\ step = "save" /\ step' \in {"failure", "log"} /\ fresh' = fresh + 1
      /\ UNCHANGED <<roles, logs, files, migrated, event, queue, crashes, replied>>
  BY DEF SaveUser, Goto
<1>2. fresh # 0 /\ fresh \notin Drawn /\ Creating(current) /\ current \in Requests
  BY <1>1, Drawing, InHand DEF TypeInv, TypeOK, Stages
<1>3. job.doc \in [id : Drawn, email : Addresses, role : Drawn, avatar : Drawn]
  BY DEF TypeInv, TypeOK, Documents, Addresses
<1>4. /\ NewUser.id = fresh /\ NewUser.email = job.doc.email
      /\ NewUser.role = job.doc.role /\ NewUser.avatar = job.doc.avatar
  BY <1>3 DEF NewUser
<1>5. PICK done \in BOOLEAN, err \in BOOLEAN :
          /\ Write(EmailTaken(job.doc.email, 0), done, err)
          /\ users' = IF done THEN users \cup {NewUser} ELSE users
          /\ created' = [created EXCEPT ![current] = @ \cup (IF done THEN {fresh} ELSE {})]
          /\ step' = IF err THEN "failure" ELSE "log"
  BY DEF SaveUser, Goto
<1>6. /\ \A x \in Requests \ {current} : created'[x] = created[x]
      /\ created'[current] = created[current] \cup (IF done THEN {fresh} ELSE {})
      /\ ~done => created' = created
  BY <1>2, <1>5 DEF TypeInv, TypeOK
<1>7. EmailTaken(job.doc.email, 0) \in BOOLEAN
  BY DEF EmailTaken, TypeInv, TypeOK
<1>8. \/ done /\ ~err /\ ~EmailTaken(job.doc.email, 0) /\ NoError
      \/ ~done /\ err /\ NoError
      \/ ~done /\ err /\ Error("write")
      \/ done /\ err /\ ~EmailTaken(job.doc.email, 0) /\ Error("ambiguous")
  BY <1>5, <1>7, Writes
<1>9. \/ /\ users' = users \cup {NewUser} /\ ~EmailTaken(job.doc.email, 0)
         /\ created'[current] = created[current] \cup {fresh}
         /\ created' = [created EXCEPT ![current] = @ \cup {fresh}]
         /\ \/ step' = "log" /\ NoError
            \/ step' = "failure" /\ Error("ambiguous")
      \/ /\ UNCHANGED <<users, created>> /\ step' = "failure"
         /\ NoError \/ Error("write")
  BY <1>5, <1>6, <1>8
<1> QED BY <1>1, <1>2, <1>4, <1>6, <1>9

LEMMA UpdatesUser ==
    ASSUME TypeInv, UpdateUser
    PROVE  /\ step = "update" /\ step' \in {"failure", "delete", "log"}
           /\ payload.type \in {"UpdateProfile", "AdminUpdated"} /\ ~Creating(current)
           /\ UNCHANGED <<roles, logs, fresh, files, migrated, event, queue, job, crashes,
                          replied, created>>
           /\ \/ /\ users' = (users \ WithID(job.doc.id)) \cup {job.doc}
                 /\ ~EmailTaken(job.doc.email, job.doc.id)
                 /\ \/ step' = (IF Superseded THEN "delete" ELSE "log") /\ NoError
                    \/ step' = "failure" /\ Error("ambiguous")
              \/ users' = users /\ step' = "failure" /\ (NoError \/ Error("write"))
<1>1. /\ step = "update" /\ step' \in {"failure", "delete", "log"}
      /\ UNCHANGED <<roles, logs, fresh, files, migrated, event, queue, job, crashes,
                     replied, created>>
  BY DEF UpdateUser, Goto, history
<1>2. payload.type \in {"UpdateProfile", "AdminUpdated"} /\ ~Creating(current)
  BY <1>1 DEF TypeInv, Stages, Creating, payload
<1>3. PICK done \in BOOLEAN, err \in BOOLEAN :
          /\ Write(EmailTaken(job.doc.email, job.doc.id), done, err)
          /\ users' = IF done THEN (users \ WithID(job.doc.id)) \cup {job.doc} ELSE users
          /\ step' = IF err THEN "failure" ELSE IF Superseded THEN "delete" ELSE "log"
  BY DEF UpdateUser, Goto
<1>4. EmailTaken(job.doc.email, job.doc.id) \in BOOLEAN
  BY DEF EmailTaken, TypeInv, TypeOK
<1>5. \/ done /\ ~err /\ ~EmailTaken(job.doc.email, job.doc.id) /\ NoError
      \/ ~done /\ err /\ NoError
      \/ ~done /\ err /\ Error("write")
      \/ done /\ err /\ ~EmailTaken(job.doc.email, job.doc.id) /\ Error("ambiguous")
  BY <1>3, <1>4, Writes
<1> QED BY <1>1, <1>2, <1>3, <1>5

-----------------------------------------------------------------------------
(* The documents a handler works on.                                         *)

\* ObjectIDs are unique.  A migrated database keeps the seeded roles; without them
\* there is no role but the one registrations look for, so no handler of the
\* admins gets to a write, and no document changes but by its avatar.  A handler that
\* updates a document has it from the database, as nobody else writes.
PersonInv ==
    /\ \A u \in users : u.id # 0
    /\ \A u, v \in users : u.id = v.id => u = v
    /\ migrated => SeededRoles \subseteq roles
    /\ ~migrated => \A x \in roles : x.name = "USER"
    /\ ~migrated /\ step \in {"role", "saveRole", "upload", "save"} => Registering
    /\ ~migrated /\ step = "update" => job.doc \in users
    /\ step = "update" \/ (step = "upload" /\ ~Creating(current)) =>
          \E u \in users : u.id = job.doc.id /\ u.role = job.doc.role /\ u.avatar = job.old
    /\ step = "delete" => job.doc \in users /\ job.old # job.doc.avatar

\* Without a migration nobody is an admin.
LEMMA Admins ==
    ASSUME PersonInv, NEW name \in {"SUPER_ADMIN", "ADMIN"}, NEW id, name \in RoleNames(id)
    PROVE  migrated
BY DEF PersonInv, RoleNames

LEMMA PersonInit == Init => PersonInv
BY MigrationsAssumption DEF Init, PersonInv, SeededRoles, SeededUsers

LEMMA PersonNext == TypeInv /\ PersonInv /\ [Next]_vars => PersonInv'
<1> SUFFICES ASSUME TypeInv, PersonInv, [Next]_vars PROVE PersonInv'
  OBVIOUS
<1>1. ASSUME NEW r \in Requests, Arrive(r) PROVE PersonInv'
  <2>1. UNCHANGED <<users, roles, migrated, step, job>>
    BY <1>1, Arrival
  <2>2. step \notin {"down", "idle"} =>
            /\ payload' = payload /\ Registering' = Registering
            /\ Creating(current)' = Creating(current)
    BY <1>1, Arrival, InHand DEF payload, current, Registering, Creating
  <2> QED BY <2>1, <2>2 DEF PersonInv
<1>2. CASE \/ Restart \/ Take \/ Ignore \/ Answer \/ Crash \/ Login \/ ReadUser \/ GetAllAdmins
           \/ SaveLog
  BY <1>2, Passing DEF PersonInv
<1>3. CASE UNCHANGED vars
  BY <1>3 DEF vars, database, PersonInv, Registering, Creating, payload, current
<1>4. CASE Ack
  BY <1>4 DEF Ack, Goto, database, PersonInv
<1>5. CASE Register
  BY <1>5, Starting, Registers, StillInHand DEF PersonInv
<1>6. CASE UpdateProfile
  <2>1. CASE step' = "failure"
    BY <1>6, <2>1, Starting DEF PersonInv
  <2>2. CASE step' # "failure"
    <3>1. PICK u \in users : job'.doc = u /\ job'.old = u.avatar
      BY <1>6, <2>2 DEF UpdateProfile, Goto, WithID
    <3>2. step' = "update"
      BY <1>6, <2>2 DEF UpdateProfile, Goto
    <3> QED BY <1>6, <3>1, <3>2, Starting DEF PersonInv
  <2> QED BY <2>1, <2>2
<1>7. CASE CreateAdmin
  <2>1. CASE step' = "failure"
    BY <1>7, <2>1, Starting DEF PersonInv
  <2>2. CASE step' # "failure"
    <3>1. PICK u \in users : "SUPER_ADMIN" \in RoleNames(u.role)
      BY <1>7, <2>2, Creates
    <3>2. migrated /\ step' = "role"
      BY <1>7, <2>2, <3>1, Admins, Creates
    <3> QED BY <1>7, <3>2, Starting DEF PersonInv
  <2> QED BY <2>1, <2>2
<1>8. CASE UpdateAdmin
  <2>1. CASE step' = "failure"
    BY <1>8, <2>1, Starting DEF PersonInv
  <2>2. CASE step' # "failure"
    <3>1. PICK u \in users : /\ "ADMIN" \in RoleNames(u.role)
                             /\ job'.doc.id = u.id /\ job'.doc.role = u.role
                             /\ job'.doc.avatar = u.avatar /\ job'.old = u.avatar
      BY <1>8, <2>2, ChangesAdmin
    <3>2. migrated /\ step' \in {"update", "upload"}
      BY <1>8, <2>2, <3>1, Admins, ChangesAdmin
    <3> QED BY <1>8, <3>1, <3>2, Starting DEF PersonInv
  <2> QED BY <2>1, <2>2
<1>9. CASE FindRole
  <2>1. current' = current /\ Registering' = Registering /\ Creating(current)'
    BY <1>9, FindsRole, StillInHand
  <2> QED BY <1>9, <2>1, FindsRole DEF PersonInv
<1>10. CASE SaveRole
  <2>1. current' = current /\ Registering' = Registering /\ Creating(current)'
    BY <1>10, SavesRole, StillInHand
  <2>2. ~migrated => NewRole = "USER"
    BY <1>10, SavesRole DEF PersonInv, NewRole
  <2> QED BY <1>10, <2>1, <2>2, SavesRole DEF PersonInv
<1>11. CASE Upload
  <2>1. current' = current /\ Registering' = Registering /\ Creating(current)' = Creating(current)
    BY <1>11, Uploads, StillInHand
  <2>2. migrated
    BY <1>11, Uploads DEF PersonInv
  <2> QED BY <1>11, <2>1, <2>2, Uploads DEF PersonInv
<1>12. CASE SaveUser
  <2>1. \A u \in users : u.id # fresh
    BY <1>12, SavesUser, Known
  <2> QED BY <1>12, <2>1, SavesUser DEF PersonInv
<1>13. CASE UpdateUser
  <2>1. \A u \in users : u \in WithID(job.doc.id) <=> u.id = job.doc.id
    BY DEF WithID
  <2>2. \A u, v \in users' : u.id = v.id => u = v
    BY <1>13, <2>1, UpdatesUser DEF PersonInv
  <2>3. step' = "delete" => job'.doc \in users' /\ job'.old # job'.doc.avatar
    BY <1>13, UpdatesUser DEF Superseded
  <2> QED BY <1>13, <2>2, <2>3, UpdatesUser DEF PersonInv
<1>14. CASE DeleteAvatar
  BY <1>14 DEF DeleteAvatar, Goto, database, PersonInv
<1> QED
  BY Steps, <1>1, <1>2, <1>3, <1>4, <1>5, <1>6, <1>7, <1>8, <1>9, <1>10, <1>11, <1>12, <1>13, <1>14

-----------------------------------------------------------------------------
(* RolesResolve.                                                             *)

\* No step takes a role away or forgets an error.
LEMMA Keeps ==
    ASSUME TypeInv, [Next]_vars
    PROVE  /\ migrated' = migrated /\ roles \subseteq roles'
           /\ \A t \in Troubles : disturbed[t] \subseteq disturbed'[t]
<1>1. CASE \E r \in Requests : Arrive(r)
  BY <1>1, Arrival
<1>2. CASE \/ Restart \/ Take \/ Ignore \/ Answer \/ Ack \/ UNCHANGED vars
  BY <1>2 DEF Restart, Take, Ignore, NoError, unchanged, Answer, Ack, vars, database, errors
<1>3. CASE Crash
  <2>1. /\ migrated' = migrated /\ roles' = roles
        /\ disturbed' = [disturbed EXCEPT !["crash"] = IF step = "idle" THEN @ ELSE @ \cup {current}]
    BY <1>3 DEF Crash, database
  <2> QED BY <2>1 DEF TypeInv, TypeOK
<1>4. CASE \/ Register \/ Login \/ ReadUser \/ UpdateProfile
           \/ CreateAdmin \/ UpdateAdmin \/ GetAllAdmins
  <2>1. ErrorsKept
    BY <1>4, Starting, ErrorsStay DEF FaultKinds
  <2> QED BY <1>4, <2>1, Starting DEF ErrorsKept
<1>5. CASE FindRole
  <2>1. ErrorsKept
    BY <1>5, FindsRole, ErrorsStay DEF Missing, FaultKinds
  <2> QED BY <1>5, <2>1, FindsRole DEF ErrorsKept
<1>6. CASE SaveRole
  <2>1. ErrorsKept
    BY <1>6, SavesRole, ErrorsStay DEF FaultKinds
  <2> QED BY <1>6, <2>1, SavesRole DEF ErrorsKept
<1>7. CASE Upload
  <2>1. ErrorsKept
    BY <1>7, Uploads, ErrorsStay DEF FaultKinds
  <2> QED BY <1>7, <2>1, Uploads DEF ErrorsKept
<1>8. CASE SaveUser
  <2>1. ErrorsKept
    BY <1>8, SavesUser, ErrorsStay DEF FaultKinds
  <2> QED BY <1>8, <2>1, SavesUser DEF ErrorsKept
<1>9. CASE UpdateUser
  <2>1. ErrorsKept
    BY <1>9, UpdatesUser, ErrorsStay DEF FaultKinds
  <2> QED BY <1>9, <2>1, UpdatesUser DEF ErrorsKept
<1>10. CASE DeleteAvatar
  <2>1. step = "delete" /\ (NoError \/ Error("write")) /\ UNCHANGED <<migrated, roles>>
    BY <1>10 DEF DeleteAvatar, database
  <2>2. ErrorsKept
    BY <2>1, ErrorsStay DEF FaultKinds
  <2> QED BY <2>1, <2>2 DEF ErrorsKept
<1>11. CASE SaveLog
  <2>1. /\ step = "log" /\ UNCHANGED <<migrated, roles>>
        /\ NoError \/ Error("write") \/ Error("ambiguous")
    BY <1>11 DEF SaveLog, Write
  <2>2. ErrorsKept
    BY <2>1, ErrorsStay DEF FaultKinds
  <2> QED BY <2>1, <2>2 DEF ErrorsKept
<1> QED
  BY Steps, <1>1, <1>2, <1>3, <1>4, <1>5, <1>6, <1>7, <1>8, <1>9, <1>10, <1>11

\* A lookup that failed is remembered.
LEMMA Failed ==
    ASSUME TypeInv, step \notin {"down", "idle"}, Error("read")
    PROVE  Misread'
BY Errors DEF FaultKinds, Troubles, Misread

\* What RolesResolve asks of a user's role.
RoleOK(x) == RoleNames(x) # {} \/ (x = 0 /\ (~migrated \/ Misread))

\* A registration gets to save a role only where none was found, and then keeps the
\* NilObjectID.  Every other role a handler is about to write has a document.
RoleInv ==
    /\ RolesResolve
    /\ step \in {"role", "saveRole"} /\ Registering => job.doc.role = 0
    /\ step = "saveRole" /\ Registering => ~migrated \/ Misread
    /\ step \in {"upload", "save", "update"} => RoleOK(job.doc.role)

LEMMA RoleKept ==
    ASSUME TypeInv, [Next]_vars
    PROVE  /\ \A x : RoleOK(x) => RoleOK(x)'
           /\ Misread => Misread'
<1>1. /\ migrated' = migrated /\ roles \subseteq roles'
      /\ disturbed["read"] \subseteq disturbed'["read"]
  BY Keeps DEF Troubles, FaultKinds
<1>2. \A x : RoleNames(x) \subseteq RoleNames(x)'
  BY <1>1 DEF RoleNames
<1> QED BY <1>1, <1>2 DEF RoleOK, Misread

LEMMA RoleInit == Init => RoleInv
<1> SUFFICES ASSUME Init PROVE RoleInv
  OBVIOUS
<1>1. \A u \in users : \E x \in roles : x.id = u.role
  <2>1. migrated => users = SeededUsers /\ roles = SeededRoles
    BY DEF Init
  <2>2. ~migrated => users = {}
    BY DEF Init
  <2>3. \A u \in SeededUsers : \E x \in SeededRoles : x.id = u.role
    <3>1. \A u \in SeededUsers : u.role \in {1, 2, 3}
      BY DEF SeededUsers
    <3>2. \A i \in {1, 2, 3} : \E x \in SeededRoles : x.id = i
      BY DEF SeededRoles
    <3> QED BY <3>1, <3>2
  <2> QED BY <2>1, <2>2, <2>3
<1>2. RolesResolve
  BY <1>1 DEF RolesResolve, RoleNames
<1> QED BY <1>2 DEF Init, RoleInv

LEMMA RoleNext == TypeInv /\ PersonInv /\ RoleInv /\ [Next]_vars => RoleInv'
<1> SUFFICES ASSUME TypeInv, PersonInv, RoleInv, [Next]_vars PROVE RoleInv'
  OBVIOUS
<1>0. ASSUME \A u \in users' : RoleOK(u.role) PROVE RolesResolve'
  BY <1>0, RoleKept DEF RolesResolve, RoleOK
<1>a. \A u \in users : RoleOK(u.role)
  BY DEF RoleInv, RolesResolve, RoleOK
<1>b. migrated' = migrated /\ (Misread => Misread')
  BY Keeps, RoleKept
<1>1. ASSUME NEW r \in Requests, Arrive(r) PROVE RoleInv'
  <2>1. UNCHANGED <<users, step, job>>
    BY <1>1, Arrival
  <2>2. step \notin {"down", "idle"} => Registering' = Registering
    BY <1>1, Arrival, InHand DEF payload, current, Registering
  <2> QED BY <1>0, <1>a, <1>b, <2>1, <2>2, RoleKept DEF RoleInv
<1>2. CASE \/ Restart \/ Take \/ Ignore \/ Answer \/ Crash \/ Login \/ ReadUser \/ GetAllAdmins
           \/ SaveLog
  BY <1>0, <1>a, <1>2, Passing DEF RoleInv
<1>3. CASE UNCHANGED vars
  <2>1. UNCHANGED <<users, step, job>> /\ Registering' = Registering
    BY <1>3 DEF vars, database, Registering, payload, current
  <2> QED BY <1>0, <1>a, <1>b, <2>1, RoleKept DEF RoleInv
<1>4. CASE Ack
  BY <1>0, <1>a, <1>4 DEF Ack, Goto, database, RoleInv
<1>5. CASE Register
  <2>1. CASE step' = "failure"
    BY <1>0, <1>a, <1>5, <2>1, Starting DEF RoleInv
  <2>2. CASE step' # "failure"
    BY <1>0, <1>a, <1>5, <2>2, Starting, Registers DEF RoleInv
  <2> QED BY <2>1, <2>2
<1>6. CASE UpdateProfile
  <2>1. CASE step' = "failure"
    BY <1>0, <1>a, <1>6, <2>1, Starting DEF RoleInv
  <2>2. CASE step' # "failure"
    <3>1. PICK u \in users : job'.doc = u
      BY <1>6, <2>2 DEF UpdateProfile, Goto, WithID
    <3>2. step' = "update"
      BY <1>6, <2>2 DEF UpdateProfile, Goto
    <3> QED BY <1>0, <1>a, <1>6, <3>1, <3>2, Starting, RoleKept DEF RoleInv
  <2> QED BY <2>1, <2>2
<1>7. CASE CreateAdmin
  <2>1. CASE step' = "failure"
    BY <1>0, <1>a, <1>7, <2>1, Starting DEF RoleInv
  <2>2. CASE step' # "failure"
    BY <1>0, <1>a, <1>7, <2>2, Starting, Creates DEF RoleInv
  <2> QED BY <2>1, <2>2
<1>8. CASE UpdateAdmin
  <2>1. CASE step' = "failure"
    BY <1>0, <1>a, <1>8, <2>1, Starting DEF RoleInv
  <2>2. CASE step' # "failure"
    <3>1. PICK u \in users : job'.doc.role = u.role
      BY <1>8, <2>2, ChangesAdmin
    <3>2. step' \in {"update", "upload"}
      BY <1>8, <2>2, ChangesAdmin
    <3> QED BY <1>0, <1>a, <1>8, <3>1, <3>2, Starting, RoleKept DEF RoleInv
  <2> QED BY <2>1, <2>2
<1>9. CASE FindRole
  <2>1. Registering' = Registering /\ users' = users /\ step = "role"
    BY <1>9, FindsRole, StillInHand
  <2>2. CASE step' # "saveRole"
    <3>1. RoleOK(job'.doc.role) /\ step' \in {"upload", "save", "failure"}
      BY <1>9, <2>2, FindsRole DEF RoleOK
    <3> QED BY <1>0, <1>a, <2>1, <3>1, RoleKept DEF RoleInv
  <2>3. CASE step' = "saveRole"
    <3>1. job' = job /\ Missing(RoleIDs(NewRole))
      BY <1>9, <2>3, FindsRole
    <3>2. Registering /\ RoleIDs(NewRole) = {} => ~migrated
      BY DEF PersonInv, RoleIDs, NewRole, SeededRoles
    <3>3. Registering => ~migrated \/ Misread'
      BY <2>1, <3>1, <3>2, Failed DEF Missing
    <3> QED BY <1>0, <1>a, <1>b, <2>1, <2>3, <3>1, <3>3 DEF RoleInv
  <2> QED BY <2>2, <2>3
<1>10. CASE SaveRole
  <2>1. Registering' = Registering /\ users' = users /\ step' \in {"failure", "upload", "save"}
    BY <1>10, SavesRole, StillInHand
  <2>2. ASSUME step' # "failure" PROVE RoleOK(job.doc.role)'
    <3>1. CASE Registering
      <4>1. job'.doc.role = 0 /\ (~migrated \/ Misread)
        BY <1>10, <3>1, SavesRole DEF RoleInv
      <4> QED BY <4>1, <1>b DEF RoleOK
    <3>2. CASE ~Registering
      <4>1. job'.doc.role = fresh /\ [id |-> fresh, name |-> NewRole] \in roles'
        BY <1>10, <2>2, <3>2, SavesRole
      <4> QED BY <4>1 DEF RoleOK, RoleNames
    <3> QED BY <3>1, <3>2
  <2> QED BY <1>0, <1>a, <2>1, <2>2 DEF RoleInv
<1>11. CASE Upload
  <2>1. /\ users' = users /\ step = "upload" /\ step' \in {"failure", "save", "update"}
        /\ step' # "failure" => job'.doc.role = job.doc.role
    BY <1>11, Uploads
  <2> QED BY <1>0, <1>a, <2>1, RoleKept DEF RoleInv
<1>12. CASE SaveUser
  <2>1. /\ users' = users \/ users' = users \cup {NewUser}
        /\ NewUser.role = job.doc.role /\ step = "save" /\ step' \in {"failure", "log"}
    BY <1>12, SavesUser
  <2> QED BY <1>0, <1>a, <2>1 DEF RoleInv
<1>13. CASE UpdateUser
  <2>1. /\ users' \subseteq users \cup {job.doc}
        /\ step = "update" /\ step' \in {"failure", "delete", "log"}
    BY <1>13, UpdatesUser
  <2> QED BY <1>0, <1>a, <2>1 DEF RoleInv
<1>14. CASE DeleteAvatar
  BY <1>0, <1>a, <1>14 DEF DeleteAvatar, Goto, database, RoleInv
<1> QED
  BY Steps, <1>1, <1>2, <1>3, <1>4, <1>5, <1>6, <1>7, <1>8, <1>9, <1>10, <1>11, <1>12, <1>13, <1>14

-----------------------------------------------------------------------------
(* AvatarExists.                                                             *)

\* No two users share an avatar, a new account has none before its upload, and what a
\* handler is about to write is on disk and nobody else's; what it is about to
\* delete is no longer anybody's.
AvatarInv ==
    /\ AvatarExists
    /\ \A u, v \in users : u.avatar = v.avatar /\ u.avatar # 0 => u.id = v.id
    /\ step \in {"role", "saveRole"} \/ (step = "upload" /\ Creating(current)) =>
          job.doc.avatar = 0
    /\ step \in {"save", "update"} => job.doc.avatar \in files \cup {0}
    /\ step = "save" => \A u \in users : u.avatar = job.doc.avatar => u.avatar = 0
    /\ step = "update" =>
          \A u \in users : u.avatar = job.doc.avatar => u.avatar = 0 \/ u.id = job.doc.id
    /\ step = "delete" => \A u \in users : u.avatar # job.old

LEMMA AvatarInit == Init => AvatarInv
<1> SUFFICES ASSUME Init PROVE AvatarInv
  OBVIOUS
<1>1. \A u \in users : u.avatar = 0
  <2>1. migrated => users = SeededUsers
    BY DEF Init
  <2>2. ~migrated => users = {}
    BY DEF Init
  <2>3. \A u \in SeededUsers : u.avatar = 0
    BY DEF SeededUsers
  <2> QED BY <2>1, <2>2, <2>3
<1> QED BY <1>1 DEF Init, AvatarInv, AvatarExists

LEMMA AvatarNext == TypeInv /\ PersonInv /\ AvatarInv /\ [Next]_vars => AvatarInv'
<1> SUFFICES ASSUME TypeInv, PersonInv, AvatarInv, [Next]_vars PROVE AvatarInv'
  OBVIOUS
<1>1. ASSUME NEW r \in Requests, Arrive(r) PROVE AvatarInv'
  <2>1. UNCHANGED <<users, files, step, job>>
    BY <1>1, Arrival
  <2>2. step \notin {"down", "idle"} => Creating(current)' = Creating(current)
    BY <1>1, Arrival, InHand DEF Creating
  <2> QED BY <2>1, <2>2 DEF AvatarInv, AvatarExists
<1>2. CASE \/ Restart \/ Take \/ Ignore \/ Answer \/ Crash \/ Login \/ ReadUser \/ GetAllAdmins
           \/ SaveLog
  BY <1>2, Passing DEF AvatarInv, AvatarExists
<1>3. CASE UNCHANGED vars
  BY <1>3 DEF vars, database, AvatarInv, AvatarExists, Creating, current
<1>4. CASE Ack
  BY <1>4 DEF Ack, Goto, database, AvatarInv, AvatarExists
<1>5. CASE Register
  <2>1. CASE step' = "failure"
    BY <1>5, <2>1, Starting DEF AvatarInv, AvatarExists
  <2>2. CASE step' # "failure"
    BY <1>5, <2>2, Starting, Registers DEF AvatarInv, AvatarExists
  <2> QED BY <2>1, <2>2
<1>6. CASE UpdateProfile
  <2>1. CASE step' = "failure"
    BY <1>6, <2>1, Starting DEF AvatarInv, AvatarExists
  <2>2. CASE step' # "failure"
    <3>1. PICK u \in users : job'.doc = u
      BY <1>6, <2>2 DEF UpdateProfile, Goto, WithID
    <3>2. step' = "update"
      BY <1>6, <2>2 DEF UpdateProfile, Goto
    <3> QED BY <1>6, <3>1, <3>2, Starting DEF AvatarInv, AvatarExists
  <2> QED BY <2>1, <2>2
<1>7. CASE CreateAdmin
  <2>1. CASE step' = "failure"
    BY <1>7, <2>1, Starting DEF AvatarInv, AvatarExists
  <2>2. CASE step' # "failure"
    BY <1>7, <2>2, Starting, Creates DEF AvatarInv, AvatarExists
  <2> QED BY <2>1, <2>2
<1>8. CASE UpdateAdmin
  <2>1. CASE step' = "failure"
    BY <1>8, <2>1, Starting DEF AvatarInv, AvatarExists
  <2>2. CASE step' # "failure"
    <3>1. PICK u \in users : job'.doc.id = u.id /\ job'.doc.avatar = u.avatar
      BY <1>8, <2>2, ChangesAdmin
    <3>2. step' \in {"update", "upload"} /\ payload.type = "AdminUpdated"
      BY <1>8, <2>2, ChangesAdmin
    <3>3. ~Creating(current)'
      BY <1>8, <3>2, Starting, StillInHand DEF Creating, payload
    <3> QED BY <1>8, <3>1, <3>2, <3>3, Starting DEF AvatarInv, AvatarExists
  <2> QED BY <2>1, <2>2
<1>9. CASE FindRole
  BY <1>9, FindsRole DEF AvatarInv, AvatarExists
<1>10. CASE SaveRole
  BY <1>10, SavesRole DEF AvatarInv, AvatarExists
<1>11. CASE Upload
  <2>1. CASE step' = "failure"
    <3>1. UNCHANGED <<users, files>>
      BY <1>11, <2>1, Uploads
    <3> QED BY <2>1, <3>1 DEF AvatarInv, AvatarExists
  <2>2. CASE step' # "failure"
    <3>1. /\ users' = users /\ files' = files \cup {fresh} /\ job'.doc.avatar = fresh
          /\ fresh \notin Drawn /\ step' \in {"save", "update"}
      BY <1>11, <2>2, Uploads
    <3>2. \A u \in users : u.avatar # fresh
      BY <3>1, Known
    <3> QED BY <3>1, <3>2 DEF AvatarInv, AvatarExists
  <2> QED BY <2>1, <2>2
<1>12. CASE SaveUser
  <2>1. /\ users' = users \/ users' = users \cup {NewUser}
        /\ NewUser.avatar = job.doc.avatar /\ files' = files
        /\ step = "save" /\ step' \in {"failure", "log"}
    BY <1>12, SavesUser
  <2> QED BY <2>1 DEF AvatarInv, AvatarExists
<1>13. CASE UpdateUser
  <2>1. /\ step = "update" /\ step' \in {"failure", "delete", "log"}
        /\ UNCHANGED <<files, job>>
    BY <1>13, UpdatesUser
  <2>2. CASE users' = users /\ step' = "failure"
    BY <2>1, <2>2 DEF AvatarInv, AvatarExists
  <2>3. CASE users' = (users \ WithID(job.doc.id)) \cup {job.doc}
    <3>1. \A v \in users' : (v \in users /\ v.id # job.doc.id) \/ v = job.doc
      BY <2>3 DEF WithID
    <3>2. AvatarExists'
      BY <2>1, <3>1 DEF AvatarInv, AvatarExists
    <3>3. \A u, v \in users' : u.avatar = v.avatar /\ u.avatar # 0 => u.id = v.id
      BY <2>1, <3>1 DEF AvatarInv
    <3>4. ASSUME step' = "delete" PROVE \A v \in users' : v.avatar # job.old
      <4>1. PICK u \in users : u.id = job.doc.id /\ u.avatar = job.old
        BY <2>1 DEF PersonInv
      <4>2. job.old # 0 /\ job.old # job.doc.avatar
        BY <1>13, <3>4, UpdatesUser DEF Superseded
      <4> QED BY <3>1, <4>1, <4>2 DEF AvatarInv
    <3> QED BY <2>1, <3>2, <3>3, <3>4 DEF AvatarInv
  <2> QED BY <1>13, <2>2, <2>3, UpdatesUser
<1>14. CASE DeleteAvatar
  <2>1. /\ step = "delete" /\ step' = "log" /\ users' = users
        /\ files' = files \/ files' = files \ {job.old}
    BY <1>14 DEF DeleteAvatar, Goto, database
  <2> QED BY <2>1 DEF AvatarInv, AvatarExists
<1> QED
  BY Steps, <1>1, <1>2, <1>3, <1>4, <1>5, <1>6, <1>7, <1>8, <1>9, <1>10, <1>11, <1>12, <1>13, <1>14

-----------------------------------------------------------------------------
(* NoLeftoverFiles.                                                          *)

\* Nothing has gone wrong so far.
Clean == \A r \in Requests : Undisturbed(r) /\ "failure" \notin replied[r]

\* The file a handler still has to put into a document, or to delete.
InWork == IF step \in {"save", "update"} THEN {job.doc.avatar}
          ELSE IF step = "delete" THEN {job.old} ELSE {}

\* A handler that answers a failure ends the reign of Clean, and may leave a file.
FileInv ==
    Clean /\ step # "failure" => \A f \in files : f \in InWork \/ \E u \in users : u.avatar = f

LEMMA AnswersStay ==
    ASSUME TypeInv, [Next]_vars
    PROVE  \A r \in Requests : replied[r] \subseteq replied'[r]
<1>1. CASE replied' = replied
  BY <1>1
<1>2. CASE Answer
  BY <1>2 DEF Answer, TypeInv, TypeOK
<1>3. CASE \E r \in Requests : Arrive(r)
  BY <1>3, Arrival
<1>4. CASE FindRole \/ SaveRole \/ Upload \/ SaveUser \/ UpdateUser
  BY <1>4, FindsRole, SavesRole, Uploads, SavesUser, UpdatesUser
<1>5. CASE \/ Register \/ Login \/ ReadUser \/ UpdateProfile
           \/ CreateAdmin \/ UpdateAdmin \/ GetAllAdmins
  BY <1>5, Starting
<1>6. CASE Restart \/ Take \/ Ignore \/ Ack \/ Crash \/ UNCHANGED vars \/ DeleteAvatar \/ SaveLog
  BY <1>6 DEF Restart, Take, Ignore, unchanged, Ack, Crash, vars, DeleteAvatar, SaveLog, history
<1> QED BY Steps, <1>2, <1>3, <1>4, <1>5, <1>6

LEMMA CleanBefore ==
    ASSUME TypeInv, [Next]_vars, Clean'
    PROVE  Clean /\ ~\E kind \in FaultKinds : step \notin {"down", "idle"} /\ Error(kind)
<1>1. Clean
  BY AnswersStay, Keeps DEF Clean, Undisturbed
<1>2. ASSUME NEW kind \in FaultKinds, step \notin {"down", "idle"}, Error(kind) PROVE FALSE
  <2>1. current \in Requests /\ current \in disturbed'[kind] /\ kind \in Troubles
    BY <1>2, InHand, Errors DEF Troubles
  <2> QED BY <2>1 DEF Clean, Undisturbed
<1> QED BY <1>1, <1>2

LEMMA FileInit == Init => FileInv
BY DEF Init, FileInv

LEMMA FileNext == TypeInv /\ PersonInv /\ FileInv /\ [Next]_vars => FileInv'
<1> SUFFICES ASSUME TypeInv, PersonInv, FileInv, [Next]_vars, Clean', step' # "failure",
                    NEW f \in files'
             PROVE  f \in InWork' \/ \E u \in users' : u.avatar = f
  BY DEF FileInv
<1>0. Clean /\ ~\E kind \in FaultKinds : step \notin {"down", "idle"} /\ Error(kind)
  BY CleanBefore
<1>a. /\ step # "failure" => \A g \in files : g \in InWork \/ \E u \in users : u.avatar = g
      /\ \A g \in files : g # 0
  BY <1>0 DEF FileInv, TypeInv, TypeOK
<1>1. CASE \E r \in Requests : Arrive(r)
  <2>1. UNCHANGED <<users, files, step, job>>
    BY <1>1, Arrival
  <2> QED BY <1>a, <2>1 DEF InWork
<1>2. CASE UNCHANGED vars
  BY <1>a, <1>2 DEF InWork, vars, database
<1>3. CASE Restart \/ Take \/ Ignore \/ Ack
  BY <1>a, <1>3 DEF Restart, Take, Ignore, unchanged, Ack, Goto, InWork, database
<1>4. CASE Answer
  <2>1. step # "failure"
    <3>1. step = "failure" => "failure" \in replied'[current] /\ current \in Requests
      BY <1>4, InHand DEF Answer, TypeInv, TypeOK
    <3> QED BY <3>1 DEF Clean
  <2>2. step = "success" /\ UNCHANGED <<users, files>>
    BY <1>4, <2>1 DEF Answer, database
  <2> QED BY <1>a, <2>2 DEF InWork
<1>5. CASE Crash
  <2>1. step = "idle"
    <3>1. step # "idle" => current \in disturbed'["crash"] /\ current \in Requests
      BY <1>5, InHand DEF Crash, Troubles, TypeInv, TypeOK
    <3> QED BY <3>1 DEF Clean, Undisturbed, Troubles
  <2> QED BY <1>a, <1>5, <2>1 DEF Crash, InWork, database
<1>6. CASE \/ Register \/ Login \/ ReadUser \/ UpdateProfile
           \/ CreateAdmin \/ UpdateAdmin \/ GetAllAdmins
  BY <1>a, <1>6, Starting DEF InWork
<1>7. CASE FindRole
  BY <1>a, <1>7, FindsRole DEF InWork
<1>8. CASE SaveRole
  BY <1>a, <1>8, SavesRole DEF InWork
<1>9. CASE Upload
  <2>1. /\ step = "upload" /\ users' = users /\ files' = files \cup {fresh}
        /\ step' \in {"save", "update"} /\ job'.doc.avatar = fresh
    BY <1>9, Uploads
  <2> QED BY <1>a, <2>1 DEF InWork
<1>10. CASE SaveUser
  <2>1. /\ step = "save" /\ users' = users \cup {NewUser} /\ files' = files
        /\ NewUser.avatar = job.doc.avatar
    BY <1>10, SavesUser
  <2> QED BY <1>a, <2>1 DEF InWork
<1>11. CASE UpdateUser
  <2>1. /\ step = "update" /\ users' = (users \ WithID(job.doc.id)) \cup {job.doc}
        /\ UNCHANGED <<files, job>> /\ step' = (IF Superseded THEN "delete" ELSE "log")
    BY <1>11, UpdatesUser
  <2>2. PICK u \in users : u.id = job.doc.id /\ u.avatar = job.old
    BY <2>1 DEF PersonInv
  <2>3. \A v \in users : v.id # job.doc.id => v \in users'
    BY <2>1 DEF WithID
  <2>4. CASE f = job.doc.avatar
    BY <2>1, <2>4
  <2>5. CASE f # job.doc.avatar
    <3>1. PICK v \in users : v.avatar = f
      BY <1>a, <2>1, <2>5 DEF InWork
    <3>2. CASE v.id # job.doc.id
      BY <2>3, <3>1, <3>2
    <3>3. CASE v.id = job.doc.id
      <4>1. f = job.old
        BY <2>2, <3>1, <3>3 DEF PersonInv
      <4>2. Superseded
        BY <1>a, <2>1, <2>5, <4>1 DEF Superseded
      <4> QED BY <2>1, <4>1, <4>2 DEF InWork
    <3> QED BY <3>2, <3>3
  <2> QED BY <2>4, <2>5
<1>12. CASE DeleteAvatar
  <2>1. /\ step = "delete" /\ users' = users
        /\ (NoError /\ files' = files \ {job.old}) \/ Error("write")
    BY <1>12 DEF DeleteAvatar, database
  <2>2. files' = files \ {job.old}
    BY <1>0, <2>1 DEF FaultKinds
  <2> QED BY <1>a, <2>1, <2>2 DEF InWork
<1>13. CASE SaveLog
  BY <1>a, <1>13 DEF SaveLog, Goto, InWork
<1> QED
  BY Steps, <1>1, <1>2, <1>3, <1>4, <1>5, <1>6, <1>7, <1>8, <1>9, <1>10, <1>11, <1>12, <1>13

-----------------------------------------------------------------------------
(* OneAccountPerEmail.                                                       *)

\* Where no index backs it up, a registration has looked, and nobody else writes.
EmailInv ==
    /\ OneAccountPerEmail
    /\ step \in {"role", "saveRole", "save"} /\ Registering =>
          migrated \/ Misread \/ WithEmail(job.doc.email) = {}

LEMMA EmailInit == Init => EmailInv
<1> SUFFICES ASSUME Init PROVE EmailInv
  OBVIOUS
<1>1. \A u, v \in users : u.email = v.email => u = v
  <2>1. migrated => users = SeededUsers
    BY DEF Init
  <2>2. ~migrated => users = {}
    BY DEF Init
  <2>3. \A u, v \in SeededUsers : u.email = v.email => u = v
    BY DEF SeededUsers
  <2> QED BY <2>1, <2>2, <2>3
<1> QED BY <1>1 DEF Init, EmailInv, OneAccountPerEmail

LEMMA EmailNext == TypeInv /\ PersonInv /\ EmailInv /\ [Next]_vars => EmailInv'
<1> SUFFICES ASSUME TypeInv, PersonInv, EmailInv, [Next]_vars PROVE EmailInv'
  OBVIOUS
<1>0. migrated' = migrated /\ (Misread => Misread')
  BY Keeps, RoleKept
<1>a. users' = users => OneAccountPerEmail'
  BY <1>0 DEF EmailInv, OneAccountPerEmail
<1>1. ASSUME NEW r \in Requests, Arrive(r) PROVE EmailInv'
  <2>1. UNCHANGED <<users, step, job>>
    BY <1>1, Arrival
  <2>2. step \notin {"down", "idle"} => Registering' = Registering
    BY <1>1, Arrival, InHand DEF payload, current, Registering
  <2> QED BY <1>0, <1>a, <2>1, <2>2 DEF EmailInv, WithEmail
<1>2. CASE \/ Restart \/ Take \/ Ignore \/ Answer \/ Crash \/ Login \/ ReadUser \/ GetAllAdmins
           \/ SaveLog
  BY <1>a, <1>2, Passing DEF EmailInv
<1>3. CASE UNCHANGED vars
  <2>1. UNCHANGED <<users, step, job>> /\ Registering' = Registering
    BY <1>3 DEF vars, database, Registering, payload, current
  <2> QED BY <1>0, <1>a, <2>1 DEF EmailInv, WithEmail
<1>4. CASE Ack
  BY <1>a, <1>4 DEF Ack, Goto, database, EmailInv
<1>5. CASE Register
  <2>1. CASE step' = "failure"
    BY <1>a, <1>5, <2>1, Starting DEF EmailInv
  <2>2. CASE step' # "failure"
    <3>1. users' = users /\ step = "start" /\ job'.doc.email = payload.email
      BY <1>5, <2>2, Starting, Registers
    <3>2. WithEmail(payload.email) = {} \/ Misread'
      BY <1>5, <2>2, <3>1, Registers, Failed DEF Missing
    <3>3. WithEmail(payload.email) = {} => WithEmail(job.doc.email)' = {}
      BY <3>1 DEF WithEmail
    <3> QED BY <1>a, <3>1, <3>2, <3>3 DEF EmailInv
  <2> QED BY <2>1, <2>2
<1>6. CASE UpdateProfile \/ UpdateAdmin
  <2>1. step' \in {"failure", "update", "upload"}
    BY <1>6 DEF UpdateProfile, UpdateAdmin, Goto, Hash
  <2> QED BY <1>a, <1>6, <2>1, Starting DEF EmailInv
<1>7. CASE CreateAdmin
  <2>1. users' = users /\ ~Registering'
    BY <1>7, Starting, StillInHand DEF CreateAdmin, Starts, Registering
  <2> QED BY <1>a, <2>1 DEF EmailInv
<1>8. CASE FindRole
  <2>1. /\ users' = users /\ Registering' = Registering /\ job'.doc.email = job.doc.email
        /\ step = "role"
    BY <1>8, FindsRole, StillInHand
  <2> QED BY <1>0, <1>a, <2>1 DEF EmailInv, WithEmail
<1>9. CASE SaveRole
  <2>1. /\ users' = users /\ Registering' = Registering /\ job'.doc.email = job.doc.email
        /\ step = "saveRole"
    BY <1>9, SavesRole, StillInHand
  <2> QED BY <1>0, <1>a, <2>1 DEF EmailInv, WithEmail
<1>10. CASE Upload
  <2>1. users' = users /\ ~Registering'
    BY <1>10, Uploads, StillInHand
  <2> QED BY <1>a, <2>1 DEF EmailInv
<1>11. CASE SaveUser
  <2>1. step = "save" /\ step' \in {"failure", "log"}
    BY <1>11, SavesUser
  <2>2. CASE users' = users
    BY <1>a, <2>1, <2>2 DEF EmailInv
  <2>3. CASE users' # users
    <3>1. /\ users' = users \cup {NewUser} /\ ~EmailTaken(job.doc.email, 0)
          /\ NewUser.email = job.doc.email
      BY <1>11, <2>3, SavesUser
    <3>2. ~migrated => Registering
      BY <2>1 DEF PersonInv
    <3>3. (\A u \in users : u.email # job.doc.email) \/ (~migrated /\ Misread)
      BY <2>1, <3>1, <3>2 DEF EmailInv, EmailTaken, WithEmail, PersonInv
    <3>4. OneAccountPerEmail'
      BY <1>0, <3>1, <3>3 DEF EmailInv, OneAccountPerEmail
    <3> QED BY <2>1, <3>4 DEF EmailInv
  <2> QED BY <2>2, <2>3
<1>12. CASE UpdateUser
  <2>1. step = "update" /\ step' \in {"failure", "delete", "log"}
    BY <1>12, UpdatesUser
  <2>2. CASE users' = users
    BY <1>a, <2>1, <2>2 DEF EmailInv
  <2>3. CASE users' # users
    <3>1. /\ users' = (users \ WithID(job.doc.id)) \cup {job.doc}
          /\ ~EmailTaken(job.doc.email, job.doc.id)
      BY <1>12, <2>3, UpdatesUser
    <3>2. \A v \in users' : (v \in users /\ v.id # job.doc.id) \/ v = job.doc
      BY <3>1 DEF WithID
    <3>3. CASE migrated
      <4>1. \A v \in users : v.id # job.doc.id => v.email # job.doc.email
        BY <3>1, <3>3 DEF EmailTaken, WithEmail
      <4> QED BY <1>0, <2>1, <3>2, <4>1 DEF EmailInv, OneAccountPerEmail
    <3>4. CASE ~migrated
      <4>1. job.doc \in users
        BY <2>1, <3>4 DEF PersonInv
      <4> QED BY <1>0, <2>1, <3>2, <4>1 DEF EmailInv, OneAccountPerEmail
    <3> QED BY <3>3, <3>4
  <2> QED BY <2>2, <2>3
<1>13. CASE DeleteAvatar
  BY <1>a, <1>13 DEF DeleteAvatar, Goto, database, EmailInv
<1> QED
  BY Steps, <1>1, <1>2, <1>3, <1>4, <1>5, <1>6, <1>7, <1>8, <1>9, <1>10, <1>11, <1>12, <1>13

-----------------------------------------------------------------------------
(* SuccessIsDurable and FailureIsTruthful.                                   *)

\* The requests whose answers may be wrong.
Doubted(r) == r \in disturbed["crash"] \cup disturbed["ambiguous"]

\* What the event in hand has been answered and has created.
AtHand ==
    /\ queue # << >> /\ ~Doubted(current) =>
          /\ step # "ack" => replied[current] = {}
          /\ step \notin {"log", "success", "ack"} => created[current] = {}
    /\ step \in {"log", "success"} /\ Creating(current) =>
          \E u \in users : u.id \in created[current]

\* What was answered, and is true for good.
Truthful ==
    \A r \in Requests :
        /\ created[r] # {} => Creating(r)
        /\ Creating(r) /\ "success" \in replied[r] => \E u \in users : u.id \in created[r]
        /\ "failure" \in replied[r] /\ created[r] # {} => Doubted(r)

\* An event that no crash and no ambiguous write has touched is answered once, at the end, and
\* creates its account in the last step that can fail.
AnswerInv ==
    /\ \A r \in Requests : event[r] = NoEvent => replied[r] = {} /\ created[r] = {}
    /\ \A i \in 2..Len(queue) : replied[queue[i]] = {} /\ created[queue[i]] = {}
    /\ AtHand
    /\ Truthful

LEMMA AnswerInit == Init => AnswerInv
<1> SUFFICES ASSUME Init PROVE AnswerInv
  OBVIOUS
<1>1. \A r \in Requests : replied[r] = {} /\ created[r] = {}
  BY DEF Init
<1> QED BY <1>1 DEF Init, AnswerInv, AtHand, Truthful

\* Accounts and what is known of who created them stay.
LEMMA AccountsStay ==
    ASSUME TypeInv, PersonInv, [Next]_vars
    PROVE  /\ \A u \in users : \E v \in users' : v.id = u.id
           /\ \A r \in Requests : created[r] \subseteq created'[r]
           /\ \A r \in Requests : Doubted(r) => Doubted(r)'
<1>1. \A r \in Requests : Doubted(r) => Doubted(r)'
  BY Keeps DEF Doubted, Troubles, FaultKinds
<1>2. CASE users' = users /\ created' = created
  BY <1>1, <1>2
<1>3. CASE SaveUser
  BY <1>1, <1>3, SavesUser
<1>4. CASE UpdateUser
  <2>1. created' = created /\ \/ users' = users
                              \/ users' = (users \ WithID(job.doc.id)) \cup {job.doc}
    BY <1>4, UpdatesUser
  <2>2. \A u \in users : u.id # job.doc.id => u \notin WithID(job.doc.id)
    BY DEF WithID
  <2> QED BY <1>1, <2>1, <2>2
<1>5. CASE \E r \in Requests : Arrive(r)
  BY <1>2, <1>5, Arrival
<1>6. CASE \/ Restart \/ Take \/ Ignore \/ Answer \/ Ack \/ Crash \/ UNCHANGED vars
           \/ DeleteAvatar \/ SaveLog
  BY <1>2, <1>6 DEF Restart, Take, Ignore, unchanged, Answer, Ack, Crash, vars, DeleteAvatar, SaveLog,
                    history, database
<1>7. CASE \/ Register \/ Login \/ ReadUser \/ UpdateProfile
           \/ CreateAdmin \/ UpdateAdmin \/ GetAllAdmins
  BY <1>2, <1>7, Starting
<1>8. CASE FindRole \/ SaveRole \/ Upload
  BY <1>2, <1>8, FindsRole, SavesRole, Uploads
<1> QED BY Steps, <1>3, <1>4, <1>5, <1>6, <1>7, <1>8

\* The part of AnswerInv about the events that are not in hand, for the steps of a handler.
LEMMA Others ==
    ASSUME TypeInv, PersonInv, AnswerInv, [Next]_vars, queue # << >>,
           UNCHANGED <<event, queue>>,
           \A x \in Requests \ {current} : replied'[x] = replied[x] /\ created'[x] = created[x]
    PROVE  /\ \A r \in Requests : event'[r] = NoEvent => replied'[r] = {} /\ created'[r] = {}
           /\ \A i \in 2..Len(queue') : replied'[queue'[i]] = {} /\ created'[queue'[i]] = {}
           /\ current \in Requests /\ event[current] # NoEvent /\ current' = current
<1>1. /\ current \in Requests /\ event[current] # NoEvent /\ current = queue[1]
      /\ 1 \in 1..Len(queue) /\ current' = current
  BY NoneIsNoType DEF TypeInv, TypeOK, Waiting, current
<1>2. \A i \in 2..Len(queue) : queue[i] \in Requests \ {current}
  <2>1. \A i \in 2..Len(queue) : i \in 1..Len(queue) /\ i # 1 /\ queue[i] \in Requests
    BY DEF TypeInv, TypeOK
  <2> QED BY <1>1, <2>1 DEF TypeInv, Waiting
<1> QED BY <1>1, <1>2 DEF AnswerInv

\* A step that answers and creates nothing only has AtHand to disturb.
LEMMA Silent ==
    ASSUME TypeInv, PersonInv, AnswerInv, [Next]_vars, queue # << >>,
           UNCHANGED <<event, queue, replied, created>>, AtHand'
    PROVE  AnswerInv'
<1>1. \A r \in Requests : Creating(r)' = Creating(r)
  BY StillInHand
<1>2. Truthful'
  BY <1>1, AccountsStay DEF AnswerInv, Truthful
<1> QED BY <1>2, Others DEF AnswerInv

LEMMA AnswerNext == TypeInv /\ PersonInv /\ AnswerInv /\ [Next]_vars => AnswerInv'
<1> SUFFICES ASSUME TypeInv, PersonInv, AnswerInv, [Next]_vars PROVE AnswerInv'
  OBVIOUS
<1>0. \A r \in Requests : ~Doubted(r)' => ~Doubted(r)
  BY AccountsStay
<1>1. ASSUME NEW r \in Requests, Arrive(r) PROVE AnswerInv'
  <2>1. /\ UNCHANGED <<users, step, replied, created, disturbed>>
        /\ event[r] = NoEvent /\ \A x \in Requests \ {r} : event'[x] = event[x]
        /\ replied[r] = {} /\ created[r] = {} /\ event'[r] # NoEvent
    BY <1>1, Arrival, NoneIsNoType DEF AnswerInv
  <2>2. /\ Len(queue) \in Nat /\ Len(queue') = Len(queue) + 1 /\ queue'[Len(queue) + 1] = r
        /\ \A i \in 1..Len(queue) : queue'[i] = queue[i]
    BY <1>1, Arrival
  <2>3. \A i \in 2..Len(queue') : replied[queue'[i]] = {} /\ created[queue'[i]] = {}
    BY <2>1, <2>2 DEF AnswerInv
  <2>4. \A x \in Requests : Doubted(x)' = Doubted(x)
    BY <2>1 DEF Doubted
  <2>5. Truthful'
    BY <2>1, <2>4 DEF AnswerInv, Truthful, Creating
  <2>6. AtHand'
    <3>1. CASE queue # << >>
      <4>1. queue' # << >> /\ current' = current /\ current # r /\ current \in Requests
        BY <1>1, <3>1, Arrival
      <4>2. Creating(current)' = Creating(current)
        BY <2>1, <4>1 DEF Creating
      <4>3. Doubted(current)' = Doubted(current)
        BY <2>1, <4>1 DEF Doubted
      <4> QED BY <2>1, <3>1, <4>1, <4>2, <4>3 DEF AnswerInv, AtHand
    <3>2. CASE queue = << >>
      <4>1. current' = r /\ step \in {"down", "idle"}
        BY <2>2, <3>2 DEF current, TypeInv, TypeOK
      <4> QED BY <2>1, <4>1 DEF AtHand
    <3> QED BY <3>1, <3>2
  <2> QED BY <2>1, <2>3, <2>5, <2>6 DEF AnswerInv
<1>2. CASE Restart \/ UNCHANGED vars
  <2>1. /\ UNCHANGED <<users, replied, created, disturbed, event, queue>>
        /\ \/ step' = step
           \/ step' = "idle" /\ step = "down"
    <3>1. CASE Restart
      BY <3>1 DEF Restart, Goto, database, history, errors
    <3>2. CASE UNCHANGED vars
      BY <3>2 DEF vars, database, history, errors
    <3> QED BY <1>2, <3>1, <3>2
  <2>2. current' = current /\ \A x : Doubted(x)' = Doubted(x) /\ Creating(x)' = Creating(x)
    BY <2>1, StillInHand DEF Doubted
  <2>3. Doubted(current)' = Doubted(current) /\ Creating(current)' = Creating(current)
    BY <2>1 DEF Doubted, Creating, current
  <2>4. AtHand'
    BY <2>1, <2>2, <2>3 DEF AnswerInv, AtHand
  <2>5. Truthful'
    BY <2>1, <2>2 DEF AnswerInv, Truthful
  <2> QED BY <2>1, <2>4, <2>5 DEF AnswerInv
<1>3. CASE Take
  <2>1. /\ UNCHANGED <<users, replied, created, disturbed, event, queue>>
        /\ step = "idle" /\ step' = "start" /\ queue # << >>
    BY <1>3 DEF Take, Goto, database, history, errors
  <2>2. Doubted(current)' = Doubted(current) /\ current' = current
    BY <2>1 DEF Doubted, current
  <2>3. AtHand'
    BY <2>1, <2>2 DEF AnswerInv, AtHand
  <2> QED BY <2>1, <2>3, Silent
<1>4. CASE Answer
  <2>1. /\ step \in {"success", "failure"} /\ step' = "ack"
        /\ UNCHANGED <<users, created, event, queue, disturbed>>
    BY <1>4 DEF Answer, Goto, database, errors
  <2>2. /\ queue # << >> /\ current \in Requests /\ replied'[current] = replied[current] \cup {step}
        /\ \A x \in Requests \ {current} : replied'[x] = replied[x]
    BY <1>4, <2>1, InHand DEF Answer, TypeInv, TypeOK
  <2>3. AtHand'
    BY <2>1, <2>2, Others DEF AnswerInv, AtHand
  <2>4. \A r \in Requests : Creating(r)' = Creating(r) /\ Doubted(r)' = Doubted(r)
    BY <2>1, StillInHand DEF Doubted
  <2>5. Truthful'
    BY <2>1, <2>2, <2>4 DEF AnswerInv, AtHand, Truthful
  <2> QED BY <2>1, <2>2, <2>3, <2>5, Others DEF AnswerInv
<1>5. CASE Ack
  <2>1. /\ step' = "idle" /\ queue' = Tail(queue) /\ queue # << >>
        /\ UNCHANGED <<users, replied, created, event, disturbed>>
    BY <1>5 DEF Ack, Goto, database, history, errors, TypeInv, TypeOK
  <2>2. /\ Len(queue) \in Nat /\ Len(queue') = Len(queue) - 1
        /\ \A i \in 1..Len(queue') : queue'[i] = queue[i + 1] /\ i + 1 \in 2..Len(queue)
    BY <2>1 DEF TypeInv, TypeOK
  <2>3. \A i \in 1..Len(queue') : replied[queue'[i]] = {} /\ created[queue'[i]] = {}
    BY <2>2 DEF AnswerInv
  <2>4. queue' # << >> => current' = queue'[1] /\ 1 \in 1..Len(queue')
    BY <2>1, <2>2 DEF current, TypeInv, TypeOK
  <2>5. AtHand'
    BY <2>1, <2>3, <2>4 DEF AtHand
  <2>6. Truthful'
    BY <2>1 DEF AnswerInv, Truthful, Creating, Doubted
  <2>7. \A i \in 2..Len(queue') : i \in 1..Len(queue')
    BY <2>2
  <2> QED BY <2>1, <2>3, <2>5, <2>6, <2>7 DEF AnswerInv
<1>6. CASE Crash
  <2>1. /\ step' = "down" /\ UNCHANGED <<users, replied, created, event, queue>>
        /\ disturbed' = [disturbed EXCEPT !["crash"] =
                            IF step = "idle" THEN @ ELSE @ \cup {current}]
        /\ step # "down"
    BY <1>6 DEF Crash, Goto, database, history
  <2>2. step # "idle" => Doubted(current)'
    <3>1. step # "idle" => current \in disturbed'["crash"] /\ current' = current
      BY <2>1 DEF TypeInv, TypeOK, Troubles, current
    <3> QED BY <3>1 DEF Doubted
  <2>3. step = "idle" => Doubted(current)' = Doubted(current)
    <3>1. step = "idle" => disturbed' = disturbed /\ current' = current
      BY <2>1 DEF TypeInv, TypeOK, Troubles, current
    <3> QED BY <3>1 DEF Doubted
  <2>4. current' = current
    BY <2>1 DEF current
  <2>5. AtHand'
    BY <2>1, <2>2, <2>3, <2>4 DEF AnswerInv, AtHand
  <2>6. \A r \in Requests : Creating(r)' = Creating(r)
    BY <2>1, StillInHand
  <2>7. Truthful'
    BY <2>1, <2>6, AccountsStay DEF AnswerInv, Truthful
  <2> QED BY <2>1, <2>5, <2>7 DEF AnswerInv
<1>7. CASE \/ Register \/ Login \/ ReadUser \/ UpdateProfile
           \/ CreateAdmin \/ UpdateAdmin \/ GetAllAdmins
  <2>1. step = "start" /\ UNCHANGED <<users, replied, created, event, queue>>
    BY <1>7, Starting
  <2>2. queue # << >> /\ current \in Requests /\ current' = current
    BY <2>1, InHand, StillInHand
  <2>3. step' \in {"log", "success"} => ~Creating(current)'
    <3>1. Register \/ UpdateProfile \/ CreateAdmin \/ UpdateAdmin => step' \notin {"log", "success"}
      BY DEF Register, UpdateProfile, CreateAdmin, UpdateAdmin, Goto, Hash
    <3>2. Login \/ ReadUser \/ GetAllAdmins => ~Creating(current)
      BY DEF Login, ReadUser, GetAllAdmins, Starts, Creating, payload
    <3> QED BY <1>7, <2>1, <2>2, <3>1, <3>2 DEF Creating
  <2>4. ~Doubted(current)' => ~Doubted(current)
    BY <1>0, <2>2 DEF Doubted
  <2>5. AtHand'
    BY <2>1, <2>2, <2>3, <2>4 DEF AnswerInv, AtHand
  <2> QED BY <2>1, <2>2, <2>5, Silent
<1>8. CASE FindRole \/ SaveRole \/ Upload
  <2>1. /\ step \in {"role", "saveRole", "upload"}
        /\ step' \in {"saveRole", "upload", "save", "update", "failure"}
        /\ UNCHANGED <<users, replied, created, event, queue>>
    BY <1>8, FindsRole, SavesRole, Uploads
  <2>2. queue # << >> /\ current \in Requests /\ current' = current
    BY <2>1, InHand, StillInHand
  <2>3. ~Doubted(current)' => ~Doubted(current)
    BY <1>0, <2>2 DEF Doubted
  <2>4. AtHand'
    BY <2>1, <2>2, <2>3 DEF AnswerInv, AtHand
  <2> QED BY <2>1, <2>2, <2>4, Silent
<1>9. CASE SaveUser
  <2>1. /\ step = "save" /\ step' \in {"failure", "log"} /\ Creating(current)
        /\ UNCHANGED <<replied, event, queue>> /\ NewUser.id = fresh
        /\ \A x \in Requests \ {current} : created'[x] = created[x]
    BY <1>9, SavesUser
  <2>2. queue # << >> /\ current \in Requests /\ current' = current
    BY <2>1, InHand, StillInHand
  <2>3. \A r \in Requests : Creating(r)' = Creating(r)
    BY <2>1, StillInHand
  <2>4. ~Doubted(current)' => ~Doubted(current)
    BY <1>0, <2>2 DEF Doubted
  <2>5. step' = "log" => \E u \in users' : u.id \in created'[current]
    BY <1>9, <2>1, SavesUser
  <2>6. ~Doubted(current)' => replied'[current] = {}
    BY <2>1, <2>2, <2>4 DEF AnswerInv, AtHand
  <2>7. step' = "failure" /\ ~Doubted(current)' => created'[current] = {}
    <3>1. Error("ambiguous") => Doubted(current)'
      BY <2>1, <2>2, Errors DEF Doubted, FaultKinds, Troubles
    <3>2. step' = "failure" /\ ~Error("ambiguous") => created' = created
      BY <1>9, SavesUser
    <3> QED BY <2>1, <2>2, <2>4, <3>1, <3>2 DEF AnswerInv, AtHand
  <2>8. AtHand'
    BY <2>1, <2>2, <2>5, <2>6, <2>7 DEF AtHand
  <2>9. Truthful'
    <3> SUFFICES ASSUME NEW r \in Requests
                 PROVE  /\ created'[r] # {} => Creating(r)'
                        /\ Creating(r)' /\ "success" \in replied'[r] =>
                              \E u \in users' : u.id \in created'[r]
                        /\ "failure" \in replied'[r] /\ created'[r] # {} => Doubted(r)'
      BY DEF Truthful
    <3>1. created'[r] # {} => Creating(r)'
      BY <2>1, <2>3 DEF AnswerInv, Truthful
    <3>2. Creating(r)' /\ "success" \in replied'[r] => \E u \in users' : u.id \in created'[r]
      BY <2>1, <2>3, AccountsStay DEF AnswerInv, Truthful
    <3>3. "failure" \in replied'[r] /\ created'[r] # {} => Doubted(r)'
      <4>1. CASE r = current
        <5>1. Doubted(r)' = Doubted(current)'
          BY <2>2, <4>1 DEF Doubted
        <5> QED BY <2>6, <4>1, <5>1
      <4>2. CASE r # current
        BY <2>1, <4>2, <1>0 DEF AnswerInv, Truthful
      <4> QED BY <4>1, <4>2
    <3> QED BY <3>1, <3>2, <3>3
  <2> QED BY <2>1, <2>2, <2>8, <2>9, Others DEF AnswerInv
<1>10. CASE UpdateUser \/ DeleteAvatar
  <2>1. /\ step \in {"update", "delete"} /\ step' \in {"failure", "delete", "log"}
        /\ UNCHANGED <<replied, created, event, queue>>
    BY <1>10, UpdatesUser DEF DeleteAvatar, Goto, history
  <2>2. queue # << >> /\ current \in Requests /\ current' = current
    BY <2>1, InHand, StillInHand
  <2>3. ~Creating(current) /\ created[current] = {}
    BY <2>1, <2>2 DEF TypeInv, Stages, Creating, payload, AnswerInv, Truthful
  <2>4. ~Creating(current)'
    BY <2>1, <2>2, <2>3 DEF Creating
  <2>5. ~Doubted(current)' => ~Doubted(current)
    BY <1>0, <2>2 DEF Doubted
  <2>6. AtHand'
    BY <2>1, <2>2, <2>3, <2>4, <2>5 DEF AnswerInv, AtHand
  <2> QED BY <2>1, <2>2, <2>6, Silent
<1>11. CASE SaveLog
  <2>1. /\ step = "log" /\ UNCHANGED <<users, replied, created, event, queue>>
        /\ step' \in {"success", "failure"}
        /\ step' = "failure" => payload.type = "UserLogout"
    BY <1>11 DEF SaveLog, Goto, history
  <2>2. queue # << >> /\ current \in Requests /\ current' = current
    BY <2>1, InHand, StillInHand
  <2>3. Creating(current)' = Creating(current)
    BY <2>1, <2>2 DEF Creating
  <2>4. step' = "failure" => created[current] = {}
    BY <2>1, <2>2 DEF Creating, payload, AnswerInv, Truthful
  <2>5. ~Doubted(current)' => ~Doubted(current)
    BY <1>0, <2>2 DEF Doubted
  <2>6. AtHand'
    BY <2>1, <2>2, <2>3, <2>4, <2>5 DEF AnswerInv, AtHand
  <2> QED BY <2>1, <2>2, <2>6, Silent
<1>12. CASE Ignore
  <2>1. /\ UNCHANGED <<users, replied, created, disturbed, event, queue>>
        /\ step = "start" /\ step' = "ack" /\ queue # << >>
    BY <1>12, InHand DEF Ignore, NoError, unchanged, Goto, database, history, errors
  <2>2. Doubted(current)' = Doubted(current) /\ current' = current
    BY <2>1 DEF Doubted, current
  <2>3. AtHand'
    BY <2>1, <2>2 DEF AnswerInv, AtHand
  <2> QED BY <2>1, <2>3, Silent
<1> QED
  BY Steps, <1>1, <1>2, <1>3, <1>4, <1>5, <1>6, <1>7, <1>8, <1>9, <1>10, <1>11, <1>12

-----------------------------------------------------------------------------
(* The theorems.                                                             *)

AccountInv == TypeInv /\ PersonInv /\ RoleInv /\ AvatarInv /\ FileInv /\ EmailInv /\ AnswerInv

LEMMA AccountsHold == Spec => []AccountInv
<1>1. Init => AccountInv
  BY TypeInit, PersonInit, RoleInit, AvatarInit, FileInit, EmailInit, AnswerInit DEF AccountInv
<1>2. AccountInv /\ [Next]_vars => AccountInv'
  BY TypeNext, PersonNext, RoleNext, AvatarNext, FileNext, EmailNext, AnswerNext DEF AccountInv
<1> QED BY <1>1, <1>2, PTL DEF Spec

\* Every user's role exists, whatever write of the role or the user failed, was
\* repeated or was cut off by a crash.
THEOREM RolesHold == Spec => []RolesResolve
<1>1. AccountInv => RolesResolve
  BY DEF AccountInv, RoleInv
<1> QED BY <1>1, AccountsHold, PTL

\* The avatar a user document names is on disk, also after a crash or a failed update
\* between the upload and the deletion of the old one.
THEOREM AvatarsHold == Spec => []AvatarExists
<1>1. AccountInv => AvatarExists
  BY DEF AccountInv, AvatarInv
<1> QED BY <1>1, AccountsHold, PTL

\* If every event so far succeeded and none met a crash or an error, every file
\* in the directory is some user's avatar.
THEOREM FilesHold == Spec => []NoLeftoverFiles
<1>1. AccountInv => NoLeftoverFiles
  BY DEF AccountInv, FileInv, Clean, InWork, NoLeftoverFiles
<1> QED BY <1>1, AccountsHold, PTL

\* An account that was reported created is there, crashes and errors or not.
THEOREM SuccessHolds == Spec => []SuccessIsDurable
<1>1. AccountInv => SuccessIsDurable
  BY DEF AccountInv, AnswerInv, Truthful, Creating, SuccessIsDurable
<1> QED BY <1>1, AccountsHold, PTL

\* An account that was reported not created is not there, unless a crash or a write
\* that timed out met its event.
THEOREM FailureHolds == Spec => []FailureIsTruthful
<1>1. AccountInv => FailureIsTruthful
  BY DEF AccountInv, AnswerInv, Truthful, Doubted, FailureIsTruthful
<1> QED BY <1>1, AccountsHold, PTL

\* One account per e-mail address, also when a registration is delivered twice.
THEOREM EmailsHold == Spec => []OneAccountPerEmail
<1>1. AccountInv => OneAccountPerEmail
  BY DEF AccountInv, EmailInv
<1> QED BY <1>1, AccountsHold, PTL

-----------------------------------------------------------------------------
(* The handlers implement AccountStore.                                      *)

Accounts == {Account(u) : u \in users}
Excused  == ~migrated /\ Misread

LEMMA StoreInit == Init => Store!Init
<1> SUFFICES ASSUME Init PROVE Store!Init
  OBVIOUS
<1>1. \A a, b \in Accounts : a.email = b.email \/ a.id = b.id => a = b
  <2>1. migrated => users = SeededUsers
    BY DEF Init
  <2>2. ~migrated => users = {}
    BY DEF Init
  <2>3. \A u, v \in SeededUsers : u.email = v.email \/ u.id = v.id => u = v
    BY DEF SeededUsers
  <2>4. \A u, v \in users : u.email = v.email \/ u.id = v.id => u = v
    BY <2>1, <2>2, <2>3
  <2> QED BY <2>4 DEF Accounts, Account
<1>2. Asked = [r \in Requests |-> "none"]
  BY DEF Init, Asked
<1>3. disturbed["crash"] \cup disturbed["ambiguous"] = {} /\ ~Misread
  BY DEF Init, Misread, Troubles, FaultKinds
<1>4. created = [r \in Requests |-> {}] /\ replied = [r \in Requests |-> {}]
  BY DEF Init
<1> QED BY <1>1, <1>2, <1>3, <1>4 DEF Store!Init, Accounts

\* A handler that is past its start could read its event.
LEMMA InReach ==
    ASSUME TypeInv, step \notin {"down", "idle", "start", "ack"}
    PROVE  current \notin Unreadable
BY InHand DEF TypeInv, Stages, Readable, Unreadable

\* A step that leaves accounts, events and answers alone is one the abstract service may
\* take at any time.
LEMMA StoreDisturb ==
    ASSUME TypeInv, [Next]_vars, Accounts' = Accounts, UNCHANGED <<event, created, replied>>
    PROVE  Store!Next
<1>1. disturbed["crash"] \cup disturbed["ambiguous"]
          \subseteq disturbed'["crash"] \cup disturbed'["ambiguous"]
  BY Keeps DEF Troubles, FaultKinds
<1>2. Excused => Excused'
  BY Keeps, RoleKept DEF Excused
<1>3. Asked' = Asked
  BY DEF Asked, Unreadable
<1> QED BY <1>1, <1>2, <1>3 DEF Store!Next, Store!Disturb, Store!Worse, Accounts, Excused

LEMMA StoreNext == AccountInv /\ [Next]_vars => [Store!Next]_Store!vars
<1> SUFFICES ASSUME AccountInv, [Next]_vars PROVE Store!Next \/ UNCHANGED Store!vars
  OBVIOUS
<1>0. TypeInv /\ PersonInv /\ EmailInv /\ AnswerInv
  BY DEF AccountInv
<1>a. ASSUME users' = users PROVE Accounts' = Accounts
  BY <1>a DEF Accounts, Account
<1>1. ASSUME NEW r \in Requests, Arrive(r) PROVE Store!Next
  <2>1. /\ UNCHANGED <<users, migrated, created, replied, disturbed>>
        /\ event[r] = NoEvent /\ event'[r].type \in Types
        /\ \A x \in Requests \ {r} : event'[x] = event[x]
    BY <1>0, <1>1, Arrival
  <2>2. /\ Asked[r] = "none" /\ Asked'[r] \in {"account", "other", "garbled"}
        /\ Asked' = [Asked EXCEPT ![r] = Asked'[r]]
    BY <2>1, NoneIsNoType DEF Asked, Unreadable
  <2>3. Accounts' = Accounts /\ Excused' = Excused
    BY <2>1, <1>a DEF Excused, Misread
  <2>4. disturbed'["crash"] \cup disturbed'["ambiguous"] = disturbed["crash"] \cup disturbed["ambiguous"]
    BY <2>1
  <2>5. Store!Ask(r)
    BY <2>1, <2>2, <2>3, <2>4 DEF Store!Ask, Accounts, Excused
  <2> QED BY <2>5 DEF Store!Next
<1>2. CASE \/ Restart \/ Take \/ Ignore \/ Ack \/ Crash \/ UNCHANGED vars \/ DeleteAvatar \/ SaveLog
  <2>1. UNCHANGED <<users, event, created, replied>>
    BY <1>2 DEF Restart, Take, Ignore, unchanged, Ack, Crash, vars, DeleteAvatar, SaveLog, database, history
  <2> QED BY <1>0, <1>a, <2>1, StoreDisturb
<1>3. CASE \/ Register \/ Login \/ ReadUser \/ UpdateProfile
           \/ CreateAdmin \/ UpdateAdmin \/ GetAllAdmins
  BY <1>0, <1>a, <1>3, Starting, StoreDisturb
<1>4. CASE FindRole \/ SaveRole \/ Upload
  BY <1>0, <1>a, <1>4, FindsRole, SavesRole, Uploads, StoreDisturb
<1>5. CASE Answer
  <2>1. /\ step \in {"success", "failure"} /\ UNCHANGED <<users, migrated, created, event, disturbed>>
        /\ replied' = [replied EXCEPT ![current] = @ \cup {step}]
    BY <1>5 DEF Answer, database, errors
  <2>2. /\ queue # << >> /\ current \in Requests /\ event[current] # NoEvent
        /\ current \notin Unreadable
    BY <1>0, <2>1, InHand, InReach
  <2>3. Asked[current] = IF Creating(current) THEN "account" ELSE "other"
    BY <2>2 DEF Asked, Creating
  <2>4. Creating(current) => \/ (step = "success") = (created[current] # {})
                             \/ step = "failure" /\ Doubted(current)
    BY <1>0, <2>1, <2>2 DEF AnswerInv, AtHand
  <2>5. step \in Store!True(current)
    BY <2>1, <2>3, <2>4 DEF Store!True, Doubted
  <2>6. Accounts' = Accounts /\ Asked' = Asked /\ Excused' = Excused
    BY <2>1, <1>a DEF Asked, Unreadable, Excused, Misread
  <2>7. Store!Answer(current)
    BY <2>1, <2>5, <2>6 DEF Store!Answer, Accounts, Excused
  <2> QED BY <2>2, <2>7 DEF Store!Next
<1>6. CASE SaveUser
  <2>1. /\ step = "save" /\ Creating(current) /\ UNCHANGED <<migrated, event, queue, replied>>
        /\ NewUser.id = fresh /\ NewUser.email = job.doc.email /\ fresh \notin Drawn
    BY <1>0, <1>6, SavesUser
  <2>2. CASE users' = users
    <3>1. NewUser \notin users
      BY <1>0, <2>1, Known
    <3>2. created' = created
      BY <1>0, <1>6, <2>2, <3>1, SavesUser
    <3> QED BY <1>0, <1>a, <2>1, <2>2, <3>2, StoreDisturb
  <2>3. CASE users' # users
    <3>1. /\ users' = users \cup {NewUser} /\ ~EmailTaken(job.doc.email, 0)
          /\ created' = [created EXCEPT ![current] = @ \cup {fresh}]
      BY <1>0, <1>6, <2>3, SavesUser
    <3>2. (\A u \in users : u.email # job.doc.email) \/ Excused
      <4>1. ~migrated => Registering
        BY <1>0, <2>1 DEF PersonInv
      <4> QED BY <1>0, <2>1, <3>1, <4>1 DEF EmailInv, EmailTaken, WithEmail, PersonInv, Excused
    <3>3. \A u \in users : u.id # fresh
      BY <1>0, <2>1, Known
    <3>4. DEFINE a == Account(NewUser)
    <3>5. /\ a \in Accounts' /\ Accounts' = Accounts \cup {a} /\ a.id = fresh /\ a.email = job.doc.email
          /\ \A b \in Accounts : b.id # a.id
          /\ (\A b \in Accounts : b.email # a.email) \/ Excused
      BY <2>1, <3>1, <3>2, <3>3 DEF Accounts, Account
    <3>6. current \in Requests /\ Asked[current] = "account"
      BY <1>0, <2>1, InHand, InReach DEF Asked, Creating
    <3>7. Asked' = Asked /\ (Excused => Excused')
      BY <1>0, <2>1, Keeps, RoleKept DEF Asked, Unreadable, Excused
    <3>8. disturbed["crash"] \cup disturbed["ambiguous"]
              \subseteq disturbed'["crash"] \cup disturbed'["ambiguous"]
      BY <1>0, Keeps DEF Troubles, FaultKinds
    <3>9. Store!Create(current)
      BY <2>1, <3>1, <3>5, <3>6, <3>7, <3>8 DEF Store!Create, Store!Free, Store!Worse, Accounts, Excused
    <3> QED BY <3>6, <3>9 DEF Store!Next
  <2> QED BY <2>2, <2>3
<1>7. CASE UpdateUser
  <2>1. /\ step = "update" /\ ~Creating(current) /\ UNCHANGED <<migrated, event, replied, created>>
    BY <1>0, <1>7, UpdatesUser
  <2>2. PICK u \in users : u.id = job.doc.id /\ u.role = job.doc.role
    BY <1>0, <2>1 DEF PersonInv
  <2>3. CASE users' = users
    BY <1>0, <1>a, <2>1, <2>3, StoreDisturb
  <2>4. CASE users' # users
    <3>1. /\ users' = (users \ WithID(job.doc.id)) \cup {job.doc}
          /\ ~EmailTaken(job.doc.email, job.doc.id)
      BY <1>0, <1>7, <2>4, UpdatesUser
    <3>2. WithID(job.doc.id) = {u}
      BY <1>0, <2>2 DEF PersonInv, WithID
    <3>3. migrated
      BY <1>0, <2>1, <2>2, <2>4, <3>1, <3>2 DEF PersonInv
    <3>4. DEFINE a == Account(u)  b == Account(job.doc)
    <3>5. \A v \in users : v # u => Account(v) # a
      BY <1>0, <2>2 DEF PersonInv, Account
    <3>6. /\ a \in Accounts /\ b \in Accounts' /\ Accounts' = (Accounts \ {a}) \cup {b}
          /\ b.id = a.id /\ b.role = a.role
      BY <2>2, <3>1, <3>2, <3>5 DEF Accounts, Account
    <3>7. CASE job.doc.email = u.email
      <4>1. a = b
        BY <2>2, <3>7 DEF Account
      <4> QED BY <1>0, <2>1, <3>6, <4>1, StoreDisturb
    <3>8. CASE job.doc.email # u.email
      <4>1. \A v \in users : v.email # job.doc.email
        BY <1>0, <2>2, <3>1, <3>3, <3>8 DEF EmailTaken, WithEmail, PersonInv
      <4>2. \A c \in Accounts : c.email # b.email
        BY <4>1 DEF Accounts, Account
      <4>3. current \in Requests /\ Asked[current] = "other"
        BY <1>0, <2>1, InHand, InReach DEF Asked, Creating
      <4>4. Asked' = Asked /\ (Excused => Excused')
        BY <1>0, <2>1, Keeps, RoleKept DEF Asked, Unreadable, Excused
      <4>5. disturbed["crash"] \cup disturbed["ambiguous"]
                \subseteq disturbed'["crash"] \cup disturbed'["ambiguous"]
        BY <1>0, Keeps DEF Troubles, FaultKinds
      <4>6. Store!Move(current)
        BY <2>1, <3>6, <4>2, <4>3, <4>4, <4>5
           DEF Store!Move, Store!Free, Store!Worse, Accounts, Excused
      <4> QED BY <4>3, <4>6 DEF Store!Next
    <3> QED BY <3>7, <3>8
  <2> QED BY <2>3, <2>4
<1> QED BY Steps, <1>1, <1>2, <1>3, <1>4, <1>5, <1>6, <1>7

\* The handlers keep the safety part of what AccountStore promises: accounts stay, keep
\* their IDs and roles, come only from requests for them, at free addresses, and the
\* answers about them are true.
THEOREM StoreHolds == Spec => Store!Safety
BY StoreInit, StoreNext, AccountsHold, PTL DEF Spec, Store!Safety

-----------------------------------------------------------------------------
(* LogoutFailsByIndexOnly.                                                   *)

\* A logout about to report a failure has met an error, or the index that is full.
LogoutInv ==
    /\ LogoutFailsByIndexOnly
    /\ step = "failure" /\ payload.type = "UserLogout" /\ Undisturbed(current)
          => migrated /\ logs # {}

LEMMA LogoutInit == Init => LogoutInv
BY DEF Init, LogoutInv, LogoutFailsByIndexOnly

\* A step of a handler that a logout does not take, or that does not fail it.
LEMMA LogoutPasses ==
    ASSUME TypeInv,
           \/ Register \/ Login \/ UpdateProfile \/ CreateAdmin \/ UpdateAdmin \/ GetAllAdmins
           \/ FindRole \/ SaveRole \/ Upload \/ SaveUser \/ UpdateUser \/ DeleteAvatar
    PROVE  /\ UNCHANGED <<event, queue, replied, logs>>
           /\ step' # "failure" \/ payload.type # "UserLogout"
<1>1. UNCHANGED <<event, queue, replied, logs>>
  BY DEF Register, Login, UpdateProfile, CreateAdmin, UpdateAdmin, GetAllAdmins, FindRole, SaveRole,
         Upload, SaveUser, UpdateUser, DeleteAvatar, unchanged, database, history
<1>2. CASE Register \/ Login \/ UpdateProfile \/ CreateAdmin \/ UpdateAdmin \/ GetAllAdmins
  BY <1>1, <1>2 DEF Register, Login, UpdateProfile, CreateAdmin, UpdateAdmin, GetAllAdmins, Starts
<1>3. CASE FindRole \/ SaveRole \/ Upload \/ SaveUser \/ UpdateUser
  <2>1. step \in {"role", "saveRole", "upload", "save", "update"}
    BY <1>3 DEF FindRole, SaveRole, Upload, SaveUser, UpdateUser
  <2>2. payload.type # "UserLogout"
    BY <2>1 DEF TypeInv, Stages, Creating, payload
  <2> QED BY <1>1, <2>2
<1>4. CASE DeleteAvatar
  BY <1>1, <1>4 DEF DeleteAvatar, Goto
<1> QED BY <1>2, <1>3, <1>4

LEMMA LogoutNext == TypeInv /\ AnswerInv /\ LogoutInv /\ [Next]_vars => LogoutInv'
<1> SUFFICES ASSUME TypeInv, AnswerInv, LogoutInv, [Next]_vars PROVE LogoutInv'
  OBVIOUS
<1>1. migrated' = migrated /\ \A r \in Requests : Undisturbed(r)' => Undisturbed(r)
  BY Keeps DEF Undisturbed
<1>2. ASSUME UNCHANGED <<event, replied>>, logs \subseteq logs' PROVE LogoutFailsByIndexOnly'
  BY <1>1, <1>2 DEF LogoutInv, LogoutFailsByIndexOnly
<1>3. ASSUME step \notin {"down", "idle"}, UNCHANGED <<event, queue>>,
             NEW kind \in FaultKinds, Error(kind)
      PROVE  ~Undisturbed(current)'
  <2>1. current \in disturbed'[kind] /\ kind \in Troubles /\ current' = current
    BY <1>3, Errors, StillInHand DEF Troubles
  <2> QED BY <2>1 DEF Undisturbed
<1>4. ASSUME NEW r \in Requests, Arrive(r) PROVE LogoutInv'
  <2>1. /\ UNCHANGED <<logs, step, replied, disturbed>>
        /\ event[r] = NoEvent /\ \A x \in Requests \ {r} : event'[x] = event[x]
        /\ queue # << >> => current' = current /\ payload' = payload
    BY <1>4, Arrival
  <2>2. replied[r] = {}
    BY <2>1 DEF AnswerInv
  <2>3. LogoutFailsByIndexOnly'
    BY <1>1, <2>1, <2>2 DEF LogoutInv, LogoutFailsByIndexOnly
  <2>4. step = "failure" => queue # << >> /\ current \in Requests
    BY InHand
  <2> QED BY <1>1, <2>1, <2>3, <2>4 DEF LogoutInv
<1>5. CASE Answer
  <2>1. /\ UNCHANGED <<event, logs>> /\ step' = "ack" /\ step \in {"success", "failure"}
        /\ replied' = [replied EXCEPT ![current] = @ \cup {step}]
    BY <1>5 DEF Answer, Goto, database
  <2>2. current \in Requests /\ payload = event[current]
    BY <2>1, InHand
  <2>3. ASSUME NEW r \in Requests, Undisturbed(r)', event'[r].type = "UserLogout",
               "failure" \in replied'[r]
        PROVE  migrated' /\ logs' # {}
    <3>1. "failure" \in replied[r] \/ (r = current /\ step = "failure")
      BY <2>1, <2>2, <2>3 DEF TypeInv, TypeOK
    <3> QED BY <1>1, <2>1, <2>2, <2>3, <3>1 DEF LogoutInv, LogoutFailsByIndexOnly
  <2> QED BY <2>1, <2>3 DEF LogoutInv, LogoutFailsByIndexOnly
<1>6. CASE Restart \/ Take \/ Ignore \/ Ack \/ Crash
  <2>1. UNCHANGED <<event, replied, logs>> /\ step' # "failure"
    BY <1>6 DEF Restart, Take, Ignore, unchanged, Ack, Crash, Goto, database, history
  <2> QED BY <1>2, <2>1 DEF LogoutInv
<1>7. CASE UNCHANGED vars
  <2>1. UNCHANGED <<event, queue, step, replied, logs>>
    BY <1>7 DEF vars, database, history
  <2>2. step = "failure" => current \in Requests
    BY InHand
  <2> QED BY <1>1, <1>2, <2>1, <2>2, StillInHand DEF LogoutInv
<1>8. CASE \/ Register \/ Login \/ UpdateProfile \/ CreateAdmin \/ UpdateAdmin \/ GetAllAdmins
           \/ FindRole \/ SaveRole \/ Upload \/ SaveUser \/ UpdateUser \/ DeleteAvatar
  BY <1>2, <1>8, LogoutPasses, StillInHand DEF LogoutInv
<1>9. CASE ReadUser
  <2>1. UNCHANGED <<event, queue, replied, logs>> /\ step \notin {"down", "idle"}
    BY <1>9, Starting
  <2>2. step' = "failure" => Error("read")
    BY <1>9 DEF ReadUser, Goto
  <2> QED BY <1>2, <1>3, <2>1, <2>2 DEF LogoutInv, FaultKinds
<1>10. CASE SaveLog
  <2>1. /\ UNCHANGED <<event, queue, replied>> /\ logs \subseteq logs'
        /\ step \notin {"down", "idle"}
    BY <1>10 DEF SaveLog, history
  <2>2. step' = "failure" => LogTaken \/ Error("write") \/ Error("ambiguous")
    BY <1>10 DEF SaveLog, Goto, Write
  <2>3. LogTaken => migrated' /\ logs' # {}
    BY <1>1, <2>1 DEF LogTaken
  <2> QED BY <1>2, <1>3, <2>1, <2>2, <2>3 DEF LogoutInv, FaultKinds
<1> QED BY Steps, <1>4, <1>5, <1>6, <1>7, <1>8, <1>9, <1>10

\* The index on a field that does not exist is the only thing that fails a logout which
\* no crash and no database error has met: without it, or on an empty log, it succeeds.
THEOREM LogoutsHold == Spec => []LogoutFailsByIndexOnly
<1>1. Init => LogoutInv
  BY LogoutInit
<1>2. AccountInv /\ LogoutInv /\ [Next]_vars => LogoutInv'
  BY LogoutNext DEF AccountInv
<1>3. LogoutInv => LogoutFailsByIndexOnly
  BY DEF LogoutInv
<1> QED BY <1>1, <1>2, <1>3, AccountsHold, PTL DEF Spec

-----------------------------------------------------------------------------
(* The handlers and their loop implement EventConsumer.                      *)

Sent == {r \in Requests : event[r] # NoEvent}

LEMMA ServiceInit == Init => Service!Init
BY DEF Init, Service!Init, State, Unreadable, NoEvent

\* What goes on inside a handler that has read its event, up to the answer, is
\* invisible to the consumer: no step of it, failed or not, ends the handling
\* without one.
LEMMA HandlingIsSilent ==
    ASSUME TypeInv,
           \/ Register \/ Login \/ ReadUser \/ UpdateProfile
           \/ CreateAdmin \/ UpdateAdmin \/ GetAllAdmins
           \/ FindRole \/ SaveRole \/ Upload \/ SaveUser
           \/ UpdateUser \/ DeleteAvatar \/ SaveLog
    PROVE  UNCHANGED Service!vars
<1>1. UNCHANGED <<event, queue, replied>>
  BY DEF Register, Login, ReadUser, UpdateProfile, CreateAdmin, UpdateAdmin, GetAllAdmins,
         FindRole, SaveRole, Upload, SaveUser, UpdateUser, DeleteAvatar, SaveLog, unchanged, history
<1>2. step \notin {"down", "idle", "ack"}
  BY DEF Register, Login, ReadUser, UpdateProfile, CreateAdmin, UpdateAdmin, GetAllAdmins, Starts,
         FindRole, SaveRole, Upload, SaveUser, UpdateUser, DeleteAvatar, SaveLog
<1>3. step' \notin {"down", "idle", "ack"}
  BY DEF Register, Login, ReadUser, UpdateProfile, CreateAdmin, UpdateAdmin, GetAllAdmins, Goto,
         FindRole, SaveRole, Upload, SaveUser, UpdateUser, DeleteAvatar, SaveLog, Hash, AfterRole
<1> QED BY <1>1, <1>2, <1>3 DEF Service!vars, State, Unreadable

LEMMA ServiceNext == TypeInv /\ [Next]_vars => [Service!Next]_Service!vars
<1> SUFFICES ASSUME TypeInv, [Next]_vars PROVE Service!Next \/ UNCHANGED Service!vars
  BY DEF Service!vars
<1>1. ASSUME NEW r \in Requests, Arrive(r) PROVE Service!Next
  <2>1. /\ UNCHANGED <<step, replied>> /\ queue' = Append(queue, r)
        /\ event[r] = NoEvent /\ event'[r].type \in Types
        /\ \A x \in Requests \ {r} : event'[x] = event[x]
    BY <1>1, Arrival DEF Arrive
  <2>2. /\ r \notin Sent /\ Sent' = Sent \cup {r}
        /\ Unreadable' \in {Unreadable, Unreadable \cup {r}}
    BY <2>1, NoneIsNoType DEF Sent, Unreadable, NoEvent
  <2>3. Service!Send(r)
    BY <2>1, <2>2 DEF Service!Send, Sent, State
  <2> QED BY <2>3 DEF Service!Next
<1>2. CASE Answer
  <2>1. current \notin Unreadable
    BY <1>2, InReach DEF Answer
  <2>2. Service!Answer
    BY <1>2, <2>1 DEF Answer, Service!Answer, State, Goto, current, Unreadable
  <2> QED BY <2>2 DEF Service!Next, Service!Work
<1>3. CASE Restart \/ Take \/ Ack \/ Crash
  <2>1. UNCHANGED <<event, replied>>
    BY <1>3 DEF Restart, Take, Ack, Crash, history
  <2>2. Service!Start \/ Service!Take \/ Service!Acknowledge \/ Service!Crash
    BY <1>3, <2>1
       DEF Restart, Take, Ack, Crash, Goto, State, Unreadable, TypeInv, TypeOK,
           Service!Start, Service!Take, Service!Acknowledge, Service!Crash
  <2> QED BY <2>2 DEF Service!Next, Service!Work
<1>4. CASE UNCHANGED vars
  BY <1>4 DEF vars, history, State, Unreadable, Service!vars
<1>5. CASE Ignore
  <2>1. /\ current \in Unreadable /\ UNCHANGED <<event, queue, replied>>
        /\ step = "start" /\ step' = "ack"
    BY <1>5, InHand DEF Ignore, Readable, Unreadable, unchanged, history, Goto, TypeInv, TypeOK
  <2>2. Service!Discard
    BY <2>1 DEF Service!Discard, State, current, Unreadable
  <2> QED BY <2>2 DEF Service!Next, Service!Work
<1> QED BY Steps, HandlingIsSilent, <1>1, <1>2, <1>3, <1>4, <1>5

\* What RequestReply takes for granted of the service is what the handlers do: an
\* event that can be read is acknowledged after exactly one answer, one that cannot
\* be read without any.
THEOREM HandlersImplementConsumer == Spec => Service!Safety
BY TypeInit, TypeNext, ServiceInit, ServiceNext, PTL DEF Spec, Service!Safety

\* The consequences of that promise are proved once, for all consumers.
Delivery == INSTANCE EventConsumerProofs WITH
                sent       <- {r \in Requests : event[r] # NoEvent},
                unreadable <- Unreadable,
                state      <- State,
                answers    <- replied

\* No readable event is lost or forgotten, and none is answered before its turn.
THEOREM DeliveryIsInOrder == Spec => []DeliveredInOrder
<1>1. Service!Init => Delivery!Init
  BY DEF Service!Init, Delivery!Init
<1>2. [Service!Next]_Service!vars => [Delivery!Next]_Delivery!vars
  BY DEF Service!Next, Service!vars, Service!Send, Service!Work, Service!Start, Service!Take,
         Service!Answer, Service!Discard, Service!Acknowledge, Service!Crash,
         Delivery!Next, Delivery!vars, Delivery!Send, Delivery!Work, Delivery!Start, Delivery!Take,
         Delivery!Answer, Delivery!Discard, Delivery!Acknowledge, Delivery!Crash
<1>3. Service!Safety => Delivery!Safety
  BY <1>1, <1>2, PTL DEF Service!Safety, Delivery!Safety
<1>4. Delivery!Safety => [](Delivery!AtLeastOnce /\ Delivery!OnlySent /\ Delivery!InOrder)
  BY Delivery!DeliveryHolds
<1>5. Delivery!AtLeastOnce /\ Delivery!InOrder => DeliveredInOrder
  BY DEF Delivery!AtLeastOnce, Delivery!InOrder, Service!AtLeastOnce, Service!InOrder, DeliveredInOrder
<1> QED BY HandlersImplementConsumer, <1>3, <1>4, <1>5, PTL

=============================================================================
