----------------------------- MODULE EventNames -----------------------------
(***************************************************************************)
(* The event vocabulary the gateway and the user service share.  The two   *)
(* sides spell it independently: the gateway's handlers name the events    *)
(* they publish and wait for, the service's handlers name the ones they    *)
(* send.  The tables are kept apart here for the same reason, so that a    *)
(* disagreement shows up as a reply nobody waits for.                      *)
(***************************************************************************)

\* The gateway operations that become an event.
OperationNames ==
    {"Register", "Login", "GetProfile", "UpdateProfile", "Logout",
     "GetAllAdmins", "CreateAdmin", "UpdateAdmin"}

\* CreateAdmin and UpdateAdmin read the context key "role", which the token
\* middleware never sets, and answer 401 before they publish anything.
ReachableOperations == OperationNames \ {"CreateAdmin", "UpdateAdmin"}

\* The event a gateway handler publishes.
RequestEvent ==
    [Register      |-> "UserRegistered",
     Login         |-> "UserLogin",
     GetProfile    |-> "GetProfile",
     UpdateProfile |-> "UpdateProfile",
     Logout        |-> "UserLogout",
     GetAllAdmins  |-> "GetAllAdmin",
     CreateAdmin   |-> "AdminCreate",
     UpdateAdmin   |-> "AdminUpdated"]

\* The events the user service binds its queue to.
ConsumedEvents ==
    {"UserRegistered", "UserLogin", "GetProfile", "UpdateProfile", "UserLogout",
     "AdminCreate", "AdminUpdated", "GetAllAdmin"}

\* The success event a gateway handler waits for.
AwaitedSuccess ==
    [Register      |-> "UserRegisteredSuccess",
     Login         |-> "UserLoginSuccess",
     GetProfile    |-> "GetProfileSuccess",
     UpdateProfile |-> "UpdateProfileSuccess",
     Logout        |-> "UserLogoutSuccess",
     GetAllAdmins  |-> "GetAdminSuccess",
     CreateAdmin   |-> "AdminRegisteredSuccess",
     UpdateAdmin   |-> "AdminUpdatedSuccess"]

\* Mutant: a slip of the hand: GetProfile waits for the failure of Register.
AwaitedFailureCopied ==
    [Register      |-> "UserRegisteredFailed",
     Login         |-> "UserLoginFailed",
     GetProfile    |-> "UserRegisteredFailed",
     UpdateProfile |-> "UpdateProfileFailed",
     Logout        |-> "UserLogoutFailed",
     GetAllAdmins  |-> "GetAdminFailed",
     CreateAdmin   |-> "AdminRegisteredFailed",
     UpdateAdmin   |-> "AdminUpdatedFailed"]

\* The failure event a gateway handler waits for.
AwaitedFailure ==
    [Register      |-> "UserRegisteredFailed",
     Login         |-> "UserLoginFailed",
     GetProfile    |-> "GetProfileFailed",
     UpdateProfile |-> "UpdateProfileFailed",
     Logout        |-> "UserLogoutFailed",
     GetAllAdmins  |-> "GetAdminFailed",
     CreateAdmin   |-> "AdminRegisteredFailed",
     UpdateAdmin   |-> "AdminUpdatedFailed"]

Awaited(op) == {AwaitedSuccess[op], AwaitedFailure[op]}

\* The event the service sends when it has served the operation.
PublishedSuccess ==
    [Register      |-> "UserRegisteredSuccess",
     Login         |-> "UserLoginSuccess",
     GetProfile    |-> "GetProfileSuccess",
     UpdateProfile |-> "UpdateProfileSuccess",
     Logout        |-> "UserLogoutSuccess",
     GetAllAdmins  |-> "GetAdminSuccess",
     CreateAdmin   |-> "AdminCreateSuccess",
     UpdateAdmin   |-> "AdminUpdateSuccess"]

\* The event the service sends when it could not.
PublishedFailure ==
    [Register      |-> "UserRegisteredFailed",
     Login         |-> "UserLoginFailed",
     GetProfile    |-> "GetProfileFailed",
     UpdateProfile |-> "UpdateProfileFailed",
     Logout        |-> "UserLogoutFailed",
     GetAllAdmins  |-> "GetAdminFailed",
     CreateAdmin   |-> "AdminCreateFailed",
     UpdateAdmin   |-> "AdminUpdateFailed"]

\* The routing key a message goes out under and the correlation ID it carries.
SendingToMessage(eventType, correlationID) ==
    [type |-> eventType, corr |-> correlationID]

SuccessReply(op, id) == SendingToMessage(PublishedSuccess[op], id)

\* HandleGetProfile passes the two arguments of SendingToMessage in each
\* other's place, so its failure goes out under a key nobody binds.
FailureReply(op, id) ==
    IF op = "GetProfile" THEN SendingToMessage(id, PublishedFailure[op])
                         ELSE SendingToMessage(PublishedFailure[op], id)

Replies(op, id) == {SuccessReply(op, id), FailureReply(op, id)}

AwaitedEvents == UNION {Awaited(op) : op \in OperationNames}

\* The reply answers the request with correlation ID id, whichever of its two
\* fields carries the ID.
RepliesTo(m, id) == m.corr = id \/ m.type = id

=============================================================================
