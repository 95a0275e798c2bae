---------------------------- MODULE UserAccounts ----------------------------
(***************************************************************************)
(* The user service's handlers against MongoDB and the avatar directory.   *)
(*                                                                         *)
(* One consumer goroutine handles one event at a time: it runs the handler *)
(* of the event's type, which reads and writes through UserRepo, publishes *)
(* one reply and returns, and then acknowledges the event.  An event whose *)
(* payload the handler cannot read is acknowledged without a reply.        *)
(* Nobody else uses the database after boot, so the reads of a handler     *)
(* belong to the step of the write, the file operation or the reply that   *)
(* follows them.                                                           *)
(* Every write, every file operation and every reply is a step of its own, *)
(* and the process may crash between any two of them: the database and the *)
(* directory stay as they are and the event is delivered again.            *)
(*                                                                         *)
(* A database call may fail: a read returns an error, a write has no       *)
(* effect and returns an error, or has its effect and returns an error     *)
(* (the answer is lost, or the 5 s context ends before it arrives).        *)
(***************************************************************************)
EXTENDS Integers, Sequences, FiniteSets

CONSTANTS Requests,    \* events, named by their correlation IDs
          Emails,      \* e-mail addresses of registrations and new admins
          Types,       \* the event types sent in this instance
          Migrations,  \* whether the service once started with AUTO_MIGRATE
          Faults,      \* the kinds of database error that may happen
          MaxFaults,   \* bound on the errors
          MaxCrashes   \* bound on the crashes

EventTypes == {"UserRegistered", "UserLogin", "GetProfile", "UpdateProfile",
               "UserLogout", "AdminCreate", "AdminUpdated", "GetAllAdmin"}
FaultKinds == {"read", "write", "ambiguous"}
Troubles   == FaultKinds \cup {"crash"}

ASSUME TypesAssumption == Types \subseteq EventTypes
ASSUME MigrationsAssumption == Migrations \subseteq BOOLEAN
ASSUME FaultsAssumption == Faults \subseteq FaultKinds
ASSUME BoundsAssumption == MaxFaults \in Nat /\ MaxCrashes \in Nat

VARIABLES
    \* the database: documents with an ObjectID, a number here; 0 is NilObjectID
    users,     \* [id, email, role, avatar]
    roles,     \* [id, name]
    logs,      \* [user, activity]
    fresh,     \* the next ObjectID
    migrated,  \* the collections have their unique indexes
    \* the avatar directory: files, named by the request and the upload
    files,
    \* the consumer
    event,     \* the payload of each event
    queue,     \* the durable queue, the event being handled first
    step,      \* "down", "idle" or what the handler does next
    job,       \* the handler's local variables
    crashes,
    faults,
    \* history
    replied,   \* replies published for each request
    created,   \* ObjectIDs of the users each request created
    disturbed  \* what went wrong while each request was handled

database == <<users, roles, logs, fresh>>
history  == <<replied, created>>
errors   == <<faults, disturbed>>
vars == <<database, migrated, files, event, queue, step, job, crashes, history, errors>>

NoEvent == [type |-> "none", email |-> "none", user |-> 0, avatar |-> FALSE, age |-> "fits"]
NoUser  == [id |-> 0, email |-> "none", role |-> 0, avatar |-> 0]
NoJob   == [doc |-> NoUser, old |-> 0]

\* What RoleSeeder and SeedUsers leave behind, cut down to a user per role.  The
\* avatars of seeded users are external links, which are no files: 0.
SeededRoles == {[id |-> 1, name |-> "SUPER_ADMIN"], [id |-> 2, name |-> "ADMIN"],
                [id |-> 3, name |-> "USER"]}
SeededUsers == {[id |-> 4, email |-> "super", role |-> 1, avatar |-> 0],
                [id |-> 5, email |-> "admin", role |-> 2, avatar |-> 0],
                [id |-> 6, email |-> "user",  role |-> 3, avatar |-> 0]}

Init ==
    /\ migrated \in Migrations
    /\ users = (IF migrated THEN SeededUsers ELSE {})
    /\ roles = (IF migrated THEN SeededRoles ELSE {})
    /\ logs = {} /\ fresh = (IF migrated THEN 7 ELSE 1) /\ files = {}
    /\ event = [r \in Requests |-> NoEvent] /\ queue = << >>
    /\ step = "down" /\ job = NoJob /\ crashes = 0 /\ faults = 0
    /\ replied = [r \in Requests |-> {}]
    /\ created = [r \in Requests |-> {}]
    /\ disturbed = [t \in Troubles |-> {}]

-----------------------------------------------------------------------------
(* UserRepo.                                                                *)

WithEmail(email) == {u \in users : u.email = email}
WithID(id)       == {u \in users : u.id = id}
RoleIDs(name)    == {x.id : x \in {y \in roles : y.name = name}}
RoleNames(id)    == {x.name : x \in {y \in roles : y.id = id}}

current == Head(queue)
payload == event[current]

NoError == UNCHANGED errors
Error(kind) ==
    /\ kind \in Faults /\ faults < MaxFaults
    /\ faults' = faults + 1
    /\ disturbed' = [disturbed EXCEPT ![kind] = @ \cup {current}]

\* A lookup that yields nothing: there is nothing, or the read failed.
Missing(found) == (found = {} /\ NoError) \/ Error("read")

\* A write that a unique index rejects, or not, is done or not and reports an
\* error or not.
Write(rejected, done, err) ==
    \/ done = ~rejected /\ err = rejected /\ NoError
    \/ ~done /\ err /\ Error("write")
    \/ ~rejected /\ done /\ err /\ Error("ambiguous")

\* The unique indexes that Migrate creates.  The one on the activity log is on a
\* field no document has, userID, so all documents have the same key.
EmailTaken(email, id) == migrated /\ \E u \in WithEmail(email) : u.id # id
RoleTaken(name)       == migrated /\ RoleIDs(name) # {}
LogTaken              == migrated /\ logs # {}

-----------------------------------------------------------------------------
(* The consumer.                                                            *)

Goto(s) == step' = s

\* Events that a client can cause.  A token names a user who could log in; only
\* the user of an AdminUpdated comes from a form, and may be anybody or nobody.  An
\* age near the end of int passes the gateway as a float and comes out beyond it.
CanLogin    == {u.id : u \in {v \in users : RoleNames(v.role) # {}}}
WithAddress == {"UserRegistered", "UserLogin", "AdminCreate"}
WithToken   == {"GetProfile", "UpdateProfile", "UserLogout", "AdminCreate"}
WithAvatar  == {"UpdateProfile", "AdminCreate", "AdminUpdated"}
CarryingAge == {"UserRegistered", "UpdateProfile"}
Payloads ==
    {e \in [type : Types, email : Emails \cup {"none"}, user : {u.id : u \in users} \cup {0},
            avatar : BOOLEAN, age : {"fits", "overflows"}] :
        /\ e.type \in WithAddress => e.email # "none"
        /\ e.email # "none" => e.type \in WithAddress \cup {"AdminUpdated"}
        /\ e.type \in WithToken => e.user \in CanLogin
        /\ e.user # 0 => e.type \in WithToken \cup {"AdminUpdated"}
        /\ e.avatar => e.type \in WithAvatar
        /\ e.age = "overflows" => e.type \in CarryingAge}

Arrive(r) ==
    /\ event[r] = NoEvent
    /\ \E e \in Payloads : event' = [event EXCEPT ![r] = e]
    /\ queue' = Append(queue, r)
    /\ UNCHANGED <<database, migrated, files, step, job, crashes, history, errors>>

Restart ==
    /\ step = "down"
    /\ Goto("idle")
    /\ UNCHANGED <<database, files, migrated, event, queue, job, crashes, history, errors>>

Take ==
    /\ step = "idle" /\ queue # << >>
    /\ Goto("start")
    /\ UNCHANGED <<database, files, migrated, event, queue, job, crashes, history, errors>>

\* SendingToMessage; the handlers only log its error.
Answer ==
    /\ step \in {"success", "failure"}
    /\ replied' = [replied EXCEPT ![current] = @ \cup {step}]
    /\ Goto("ack")
    /\ UNCHANGED <<database, files, migrated, event, queue, job, crashes, created, errors>>

\* Mutant: the loop goes on with the next event, there or not.
AckWithoutWaiting ==
    /\ step = "ack"
    /\ queue' = Tail(queue)
    /\ job' = NoJob
    /\ Goto("start")
    /\ UNCHANGED <<database, files, migrated, event, crashes, history, errors>>

\* d.Ack once the handler has returned; the range then waits for the next event.
Ack ==
    /\ step = "ack"
    /\ queue' = Tail(queue)
    /\ job' = NoJob
    /\ Goto("idle")
    /\ UNCHANGED <<database, files, migrated, event, crashes, history, errors>>

\* The process dies wherever it is; what it was handling is delivered again.
Crash ==
    /\ step # "down" /\ crashes < MaxCrashes
    /\ crashes' = crashes + 1
    /\ disturbed' = [disturbed EXCEPT !["crash"] =
                        IF step = "idle" THEN @ ELSE @ \cup {current}]
    /\ job' = NoJob
    /\ Goto("down")
    /\ UNCHANGED <<database, files, migrated, event, queue, history, faults>>

-----------------------------------------------------------------------------
(* The handlers, up to their first write, file operation or reply.          *)

Readable     == payload.age = "fits"
Starts(type) == step = "start" /\ payload.type = type /\ Readable
unchanged == UNCHANGED <<database, files, migrated, event, queue, crashes, history>>

\* The function around the handler returns when json.Unmarshal fails, with nothing
\* but a line in the log.
Ignore ==
    /\ step = "start" /\ ~Readable
    /\ Goto("ack") /\ NoError
    /\ UNCHANGED job /\ unchanged

\* HashPassword, and what comes after it; bcrypt takes no more than 72 bytes.
Hash(next) == Goto(next) \/ Goto("failure")

\* Mutant: the early return for a known address forgets the reply.
RegisterSilently ==
    /\ Starts("UserRegistered")
    /\ \/ /\ WithEmail(payload.email) # {} /\ NoError
          /\ Goto("ack") /\ UNCHANGED job
       \/ /\ Missing(WithEmail(payload.email))
          /\ Goto("role")
          /\ job' = [NoJob EXCEPT !.doc.email = payload.email]
    /\ unchanged

\* Mutant: no look at the users before the new one is saved.
RegisterUnchecked ==
    /\ Starts("UserRegistered")
    /\ NoError
    /\ Goto("role")
    /\ job' = [NoJob EXCEPT !.doc.email = payload.email]
    /\ unchanged

\* HandleUserRegistered.  An error of FindUserByEmail counts as "not found".
Register ==
    /\ Starts("UserRegistered")
    /\ \/ /\ WithEmail(payload.email) # {} /\ NoError
          /\ Goto("failure") /\ UNCHANGED job
       \/ /\ Missing(WithEmail(payload.email))
          /\ Goto("role")
          /\ job' = [NoJob EXCEPT !.doc.email = payload.email]
    /\ unchanged

\* HandleUserLogin.  The password may be wrong.
Login ==
    /\ Starts("UserLogin")
    /\ \/ \E u \in WithEmail(payload.email) :
             /\ RoleNames(u.role) # {} /\ NoError
             /\ job' = [NoJob EXCEPT !.doc = u] /\ Goto("log")
       \/ (NoError \/ Error("read")) /\ Goto("failure") /\ UNCHANGED job
    /\ unchanged

\* HandleGetProfile and HandleUserLogout: the user, then the activity log.
ReadUser ==
    /\ Starts("GetProfile") \/ Starts("UserLogout")
    /\ \/ \E u \in WithID(payload.user) :
             NoError /\ job' = [NoJob EXCEPT !.doc = u] /\ Goto("log")
       \/ Error("read") /\ Goto("failure") /\ UNCHANGED job
    /\ unchanged

\* HandleUpdateProfile.  The gateway sends an upload as avatar_base64; the
\* service's UpdateProfileEvent only has the field avatar, so req.Avatar is empty
\* and the avatar stays what it is.
UpdateProfile ==
    /\ Starts("UpdateProfile")
    /\ \/ \E u \in WithID(payload.user) :
             NoError /\ job' = [doc |-> u, old |-> u.avatar] /\ Goto("update")
       \/ Error("read") /\ Goto("failure") /\ UNCHANGED job
    /\ unchanged

\* HandleCreateAdmin: only a super admin may.
CreateAdmin ==
    /\ Starts("AdminCreate")
    /\ \/ \E u \in WithID(payload.user) :
             /\ NoError
             /\ IF "SUPER_ADMIN" \in RoleNames(u.role)
                THEN job' = [NoJob EXCEPT !.doc.email = payload.email] /\ Goto("role")
                ELSE Goto("failure") /\ UNCHANGED job
       \/ Error("read") /\ Goto("failure") /\ UNCHANGED job
    /\ unchanged

\* HandleUpdateAdmin: only an admin is changed.  The ID may be malformed or unknown.
UpdateAdmin ==
    /\ Starts("AdminUpdated")
    /\ \/ \E u \in WithID(payload.user) :
             /\ NoError
             /\ IF "ADMIN" \in RoleNames(u.role)
                THEN /\ job' = [doc |-> [u EXCEPT !.email = IF payload.email = "none" THEN @
                                                            ELSE payload.email],
                                old |-> u.avatar]
                     /\ Hash(IF payload.avatar THEN "upload" ELSE "update")
                ELSE Goto("failure") /\ UNCHANGED job
       \/ Missing(WithID(payload.user)) /\ Goto("failure") /\ UNCHANGED job
    /\ unchanged

\* HandleGetAllAdmins: two reads.
GetAllAdmins ==
    /\ Starts("GetAllAdmin")
    /\ \/ NoError /\ Goto(IF RoleIDs("ADMIN") # {} THEN "success" ELSE "failure")
       \/ Error("read") /\ Goto("failure")
    /\ UNCHANGED job /\ unchanged

-----------------------------------------------------------------------------
(* The rest of the handlers, one step per write or file operation.          *)

Registering == payload.type = "UserRegistered"
NewRole     == IF Registering THEN "USER" ELSE "ADMIN"
AfterRole   == IF payload.avatar THEN "upload" ELSE "save"

\* GetRoleIDByName; whatever its error, the handler takes the role for missing.
FindRole ==
    /\ step = "role"
    /\ \/ \E id \in RoleIDs(NewRole) :
             NoError /\ job' = [job EXCEPT !.doc.role = id] /\ Hash(AfterRole)
       \/ /\ Missing(RoleIDs(NewRole))
          /\ Goto("saveRole") /\ UNCHANGED job
    /\ unchanged

\* Mutant: registration uses the ID of the role it tried to save, unchecked.
SaveRoleUnchecked ==
    /\ step = "saveRole"
    /\ \E done, err \in BOOLEAN :
          /\ Write(RoleTaken(NewRole), done, err)
          /\ roles' = IF done THEN roles \cup {[id |-> fresh, name |-> NewRole]} ELSE roles
          /\ IF err /\ ~Registering THEN Goto("failure") ELSE Hash(AfterRole)
    /\ job' = [job EXCEPT !.doc.role = fresh]
    /\ fresh' = fresh + 1
    /\ UNCHANGED <<users, logs, files, migrated, event, queue, crashes, history>>

\* SaveRole.  Registration saves the role, ignores the error and goes on with the
\* NilObjectID the lookup returned; CreateAdmin uses the new role or fails.
SaveRole ==
    /\ step = "saveRole"
    /\ \E done, err \in BOOLEAN :
          /\ Write(RoleTaken(NewRole), done, err)
          /\ roles' = IF done THEN roles \cup {[id |-> fresh, name |-> NewRole]} ELSE roles
          /\ IF err /\ ~Registering THEN Goto("failure") ELSE Hash(AfterRole)
    /\ job' = IF Registering THEN job ELSE [job EXCEPT !.doc.role = fresh]
    /\ fresh' = fresh + 1
    /\ UNCHANGED <<users, logs, files, migrated, event, queue, crashes, history>>

\* UploadAvatarFromBase64: a file with a name of its own.
Upload ==
    /\ step = "upload"
    /\ \/ /\ NoError
          /\ files' = files \cup {fresh}
          /\ job' = [job EXCEPT !.doc.avatar = fresh]
          /\ fresh' = fresh + 1
          /\ Goto(IF payload.type = "AdminCreate" THEN "save" ELSE "update")
       \/ Error("write") /\ Goto("failure") /\ UNCHANGED <<files, job, fresh>>
    /\ UNCHANGED <<users, roles, logs, migrated, event, queue, crashes, history>>

\* The document SaveUser inserts; the driver or the handler gives it its ObjectID.
NewUser == [job.doc EXCEPT !.id = fresh]

\* Mutant: the error of SaveUser is logged like the one of SaveToActivityLog.
SaveUserUnchecked ==
    /\ step = "save"
    /\ \E done, err \in BOOLEAN :
          /\ Write(EmailTaken(job.doc.email, 0), done, err)
          /\ users' = IF done THEN users \cup {NewUser} ELSE users
          /\ created' = [created EXCEPT ![current] = @ \cup (IF done THEN {fresh} ELSE {})]
          /\ Goto("log")
    /\ job' = IF Registering THEN job ELSE [job EXCEPT !.doc.id = fresh]
    /\ fresh' = fresh + 1
    /\ UNCHANGED <<roles, logs, files, migrated, event, queue, crashes, replied>>

\* SaveUser.  The ObjectID the driver makes up for a registration stays unknown to
\* the handler.
SaveUser ==
    /\ step = "save"
    /\ \E done, err \in BOOLEAN :
          /\ Write(EmailTaken(job.doc.email, 0), done, err)
          /\ users' = IF done THEN users \cup {NewUser} ELSE users
          /\ created' = [created EXCEPT ![current] = @ \cup (IF done THEN {fresh} ELSE {})]
          /\ Goto(IF err THEN "failure" ELSE "log")
    /\ job' = IF Registering THEN job ELSE [job EXCEPT !.doc.id = fresh]
    /\ fresh' = fresh + 1
    /\ UNCHANGED <<roles, logs, files, migrated, event, queue, crashes, replied>>

Superseded == job.old # 0 /\ job.old # job.doc.avatar

\* Mutant: the old avatar is never deleted.
UpdateUserKeepingAvatar ==
    /\ step = "update"
    /\ \E done, err \in BOOLEAN :
          /\ Write(EmailTaken(job.doc.email, job.doc.id), done, err)
          /\ users' = IF done THEN (users \ WithID(job.doc.id)) \cup {job.doc} ELSE users
          /\ Goto(IF err THEN "failure" ELSE "log")
    /\ UNCHANGED <<roles, logs, fresh, files, migrated, event, queue, job, crashes, history>>

\* Mutant: the old avatar is deleted before the document is updated.
UpdateUserAfterDelete ==
    /\ step = "update"
    /\ files' = IF Superseded THEN files \ {job.old} ELSE files
    /\ \E done, err \in BOOLEAN :
          /\ Write(EmailTaken(job.doc.email, job.doc.id), done, err)
          /\ users' = IF done THEN (users \ WithID(job.doc.id)) \cup {job.doc} ELSE users
          /\ Goto(IF err THEN "failure" ELSE "log")
    /\ UNCHANGED <<roles, logs, fresh, migrated, event, queue, job, crashes, history>>

\* Mutant: the handler builds the document anew and leaves the role out.
UpdateUserWithoutRole ==
    /\ step = "update"
    /\ \E done, err \in BOOLEAN :
          /\ Write(EmailTaken(job.doc.email, job.doc.id), done, err)
          /\ users' = IF done THEN (users \ WithID(job.doc.id)) \cup {[job.doc EXCEPT !.role = 0]}
                              ELSE users
          /\ Goto(IF err THEN "failure" ELSE IF Superseded THEN "delete" ELSE "log")
    /\ UNCHANGED <<roles, logs, fresh, files, migrated, event, queue, job, crashes, history>>

\* UpdateUser: $set of the whole document.
UpdateUser ==
    /\ step = "update"
    /\ \E done, err \in BOOLEAN :
          /\ Write(EmailTaken(job.doc.email, job.doc.id), done, err)
          /\ users' = IF done THEN (users \ WithID(job.doc.id)) \cup {job.doc} ELSE users
          /\ Goto(IF err THEN "failure" ELSE IF Superseded THEN "delete" ELSE "log")
    /\ UNCHANGED <<roles, logs, fresh, files, migrated, event, queue, job, crashes, history>>

\* DeleteOldAvatar; its error is logged.
DeleteAvatar ==
    /\ step = "delete"
    /\ \/ NoError /\ files' = files \ {job.old}
       \/ Error("write") /\ UNCHANGED files
    /\ Goto("log")
    /\ UNCHANGED <<database, migrated, event, queue, job, crashes, history>>

\* Mutant: every handler takes an error of the activity log as seriously as
\* HandleUserLogout does.
SaveLogStrictly ==
    /\ step = "log"
    /\ \E done, err \in BOOLEAN :
          /\ Write(LogTaken, done, err)
          /\ logs' = IF done
                     THEN logs \cup {[user |-> job.doc.id, activity |-> payload.type]}
                     ELSE logs
          /\ Goto(IF err THEN "failure" ELSE "success")
    /\ UNCHANGED <<users, roles, fresh, files, migrated, event, queue, job, crashes, history>>

\* Mutant: HandleUserLogout tests err == nil.
SaveLogInverted ==
    /\ step = "log"
    /\ \E done, err \in BOOLEAN :
          /\ Write(LogTaken, done, err)
          /\ logs' = IF done
                     THEN logs \cup {[user |-> job.doc.id, activity |-> payload.type]}
                     ELSE logs
          /\ Goto(IF ~err /\ payload.type = "UserLogout" THEN "failure" ELSE "success")
    /\ UNCHANGED <<users, roles, fresh, files, migrated, event, queue, job, crashes, history>>

\* SaveToActivityLog; only HandleUserLogout fails on its error.
SaveLog ==
    /\ step = "log"
    /\ \E done, err \in BOOLEAN :
          /\ Write(LogTaken, done, err)
          /\ logs' = IF done
                     THEN logs \cup {[user |-> job.doc.id, activity |-> payload.type]}
                     ELSE logs
          /\ Goto(IF err /\ payload.type = "UserLogout" THEN "failure" ELSE "success")
    /\ UNCHANGED <<users, roles, fresh, files, migrated, event, queue, job, crashes, history>>

-----------------------------------------------------------------------------

Handle ==
    \/ Ignore \/ Register \/ Login \/ ReadUser \/ UpdateProfile
    \/ CreateAdmin \/ UpdateAdmin \/ GetAllAdmins
    \/ FindRole \/ SaveRole \/ Upload \/ SaveUser \/ UpdateUser \/ DeleteAvatar \/ SaveLog

Consumer == Restart \/ Take \/ Handle \/ Answer \/ Ack

\* All events have been sent and acknowledged.
Quiescent ==
    /\ step = "idle" /\ queue = << >> /\ \A r \in Requests : event[r] # NoEvent
    /\ UNCHANGED vars

Next == (\E r \in Requests : Arrive(r)) \/ Consumer \/ Crash \/ Quiescent

\* The consumer goroutine runs and a dead process is restarted; nobody has to
\* send anything.
Spec == Init /\ [][Next]_vars /\ WF_vars(Consumer)

-----------------------------------------------------------------------------
(* Properties.                                                              *)

Drawn == 0..(fresh - 1)
Documents == [id : Drawn, email : Emails \cup {"none", "super", "admin", "user"},
              role : Drawn, avatar : Drawn]

\* The variables are well typed, ObjectIDs and files are below the counter they
\* are drawn from, and a handler only runs with an event in hand.
TypeOK ==
    /\ fresh \in Nat \ {0} /\ migrated \in BOOLEAN
    /\ users \subseteq Documents
    /\ roles \subseteq [id : Drawn \ {0}, name : {"SUPER_ADMIN", "ADMIN", "USER"}]
    /\ logs \subseteq [user : Drawn, activity : Types]
    /\ files \subseteq Drawn \ {0}
    /\ event \in [Requests -> [type : Types \cup {"none"}, email : Emails \cup {"none"},
                               user : Drawn, avatar : BOOLEAN, age : {"fits", "overflows"}]]
    /\ queue \in Seq(Requests)
    /\ step \in {"down", "idle", "start", "role", "saveRole", "upload", "save", "update",
                 "delete", "log", "success", "failure", "ack"}
    /\ step \notin {"down", "idle"} => queue # << >>
    /\ job \in [doc : Documents, old : Drawn]
    /\ crashes \in 0..MaxCrashes /\ faults \in 0..MaxFaults
    /\ replied \in [Requests -> SUBSET {"success", "failure"}]
    /\ created \in [Requests -> SUBSET (Drawn \ {0})]
    /\ disturbed \in [Troubles -> SUBSET Requests]

Undisturbed(r) == \A t \in Troubles : r \notin disturbed[t]
Misread        == disturbed["read"] # {}

\* Every user's role exists, whatever write of the role or the user failed, was
\* repeated or was cut off by a crash.  A user without any role comes from a
\* registration that found no USER role: none on a seeded database where no
\* read fails.
RolesResolve ==
    \A u \in users : RoleNames(u.role) # {} \/ (u.role = 0 /\ (~migrated \/ Misread))

\* The avatar a user document names is on disk: it is written before the
\* document and the old one is deleted after, so neither a crash nor a failed
\* update in between leaves a document that points nowhere.
AvatarExists == \A u \in users : u.avatar # 0 => u.avatar \in files

\* If every event so far succeeded and none met a crash or an error, every file
\* in the directory is some user's avatar.
NoLeftoverFiles ==
    (/\ step = "idle"
     /\ \A r \in Requests : Undisturbed(r) /\ "failure" \notin replied[r])
    => \A f \in files : \E u \in users : u.avatar = f

\* An account that was reported created is there, crashes and errors or not.
SuccessIsDurable ==
    \A r \in Requests :
        /\ event[r].type \in {"UserRegistered", "AdminCreate"}
        /\ "success" \in replied[r]
        => \E u \in users : u.id \in created[r]

\* An account that was reported not created is not there, unless the service
\* crashed over it, so that a redelivered registration found its own account, or
\* a write was done but timed out.
FailureIsTruthful ==
    \A r \in Requests :
        "failure" \in replied[r] /\ created[r] # {} =>
            r \in disturbed["crash"] \cup disturbed["ambiguous"]

\* One account per e-mail address, also when a registration is delivered twice,
\* a write fails or times out, and no index backs the check up; only a lookup
\* that failed, without the index, lets a second account in.
OneAccountPerEmail ==
    \A u, v \in users : u.email = v.email => u = v \/ (~migrated /\ Misread)

\* Events whose payload does not fit the handler's struct.
Unreadable == {r \in Requests : event[r].age = "overflows"}

\* Every event that can be read is eventually answered, on every path through its
\* handler and across crashes and restarts, whatever unreadable events are in
\* between: no early return but the one of json.Unmarshal forgets the reply.
EveryEventIsAnswered ==
    \A r \in Requests : event[r] # NoEvent /\ r \notin Unreadable ~> replied[r] # {}

\* The handlers keep what AccountStore promises, step by step: among others no
\* update, redelivery or failed write makes an account disappear or change its
\* role, none is made but by a request for it, and every request that can be read
\* gets an answer.
Asked == [r \in Requests |->
             IF event[r] = NoEvent THEN "none"
             ELSE IF r \in Unreadable THEN "garbled"
             ELSE IF event[r].type \in {"UserRegistered", "AdminCreate"} THEN "account"
             ELSE "other"]

Account(u) == [id |-> u.id, email |-> u.email, role |-> u.role]

Store == INSTANCE AccountStore WITH
             accounts <- {Account(u) : u \in users},
             asked    <- Asked,
             made     <- created,
             answers  <- replied,
             doubted  <- disturbed["crash"] \cup disturbed["ambiguous"],
             excused  <- ~migrated /\ Misread

StoreSpec == Store!Spec

\* The handlers and the loop around them are the consumer RequestReply relies on:
\* every path through a handler that can read its event answers exactly once before
\* the event is acknowledged, whatever fails, an event that cannot be read leaves
\* without an answer, and a crash loses no event.
State == CASE step \in {"down", "idle"} -> step
           [] step = "ack"              -> "returned"
           [] OTHER                     -> "handling"

Service == INSTANCE EventConsumer WITH
               sent       <- {r \in Requests : event[r] # NoEvent},
               unreadable <- Unreadable,
               state      <- State,
               answers    <- replied

ConsumerSpec == Service!Spec

\* No readable event is lost or forgotten, and none is answered before its turn:
\* what a crash, an error or an early return leaves unanswered is still in the
\* queue, and nothing behind the event at work has an answer.
DeliveredInOrder == Service!AtLeastOnce /\ Service!InOrder

\* A logout that met no crash and no database error fails for one reason only: the
\* unique index of the activity log, which holds a document already.
LogoutFailsByIndexOnly ==
    \A r \in Requests :
        /\ Undisturbed(r) /\ event[r].type = "UserLogout"
        /\ "failure" \in replied[r]
        => migrated /\ logs # {}

-----------------------------------------------------------------------------
(* What the repository says of the handlers and the code does not do.       *)

\* The activity log exists to record the users' activities, among them "User
\* Logout": a logout that meets no error is recorded and succeeds.
LogoutSucceeds ==
    \A r \in Requests :
        Undisturbed(r) /\ event[r].type = "UserLogout" => "failure" \notin replied[r]

=============================================================================
