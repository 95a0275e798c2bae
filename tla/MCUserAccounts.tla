--------------------------- MODULE MCUserAccounts ---------------------------
(* Small instances of UserAccounts for TLC. *)
EXTENDS UserAccounts, TLC

\* Requests are interchangeable, and so are the addresses.
DataSymmetry == Permutations(Requests) \cup Permutations(Emails)

\* The event types each instance sends.
AllTypes == EventTypes
Accounts == {"UserRegistered", "AdminCreate", "AdminUpdated"}
Sessions == {"UserLogin", "UserLogout"}

MigratedOrNot == BOOLEAN
MigratedOnly == {TRUE}

AnyFault == FaultKinds
NoFault == {}
=============================================================================
