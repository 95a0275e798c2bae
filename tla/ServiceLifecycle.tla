--------------------------- MODULE ServiceLifecycle ---------------------------
(***************************************************************************)
(* The user service from its start to its end: migration and seeding as    *)
(* AUTO_MIGRATE and AUTO_DROP ask for, the connection to RabbitMQ, the     *)
(* signals it waits for, and the restart by docker-compose.                *)
(*                                                                         *)
(* Every database call is a step; the process may die between any two of   *)
(* them, and a call that fails ends it (logrus.Fatal).  Either way it is   *)
(* started again with the same environment and what is in the database.    *)
(* Handled events appear as registrations only: they are what puts roles,  *)
(* users and log entries into a database nobody seeded (see UserAccounts). *)
(***************************************************************************)
EXTENDS Integers, Sequences

CONSTANT MaxTroubles  \* bound on crashes, failed calls, signals and redeployments

ASSUME MaxTroublesAssumption == MaxTroubles \in Nat

\* The migrations, in the order they are listed in.
Collections == <<"roles", "users", "userActivityLog">>
CollectionNames == {"roles", "users", "userActivityLog"}

\* The roles, in the order they are inserted in.
RoleNames == {"SUPER_ADMIN", "ADMIN", "USER"}

VARIABLES
    env,       \* AUTO_MIGRATE and AUTO_DROP
    pc,        \* "down" or what the process does next
    at,        \* the migration it is at, as a position in Collections
    indexed,   \* the collections that have their unique index
    roles,     \* the names in roles
    users,     \* the role of each kind of user in users; "nil" is NilObjectID
    logs,      \* documents in userActivityLog: 0, 1 or 2 for more
    notified,  \* who has registered for signals: "run", "consumer"
    heard,     \* who has received one
    asked,     \* the signals that came when both had registered
    troubles

database == <<indexed, roles, users, logs>>
signals  == <<notified, heard, asked>>
vars == <<env, pc, at, database, signals, troubles>>

Init ==
    /\ env \in [migrate : BOOLEAN, drop : BOOLEAN]
    /\ pc = "down" /\ at = 0
    /\ indexed = {} /\ roles = {} /\ users = {} /\ logs = 0
    /\ notified = {} /\ heard = {} /\ asked = {}
    /\ troubles = 0

Trouble == troubles < MaxTroubles /\ troubles' = troubles + 1
NoTrouble == UNCHANGED troubles

-----------------------------------------------------------------------------
(* Migrate and SeedAll                                                      *)

Migrating(position) == pc' = "migrate" /\ at' = position
Connecting == pc' = "connect" /\ UNCHANGED at
Fatal == pc' = "down" /\ UNCHANGED at

Boot ==
    /\ pc = "down"
    /\ \/ env.drop /\ pc' = "rollback" /\ at' = Len(Collections)
       \/ ~env.drop /\ env.migrate /\ Migrating(1)
       \/ ~env.drop /\ ~env.migrate /\ Connecting
    /\ notified' = {} /\ heard' = {} /\ asked' = {}
    /\ UNCHANGED <<env, database, troubles>>

\* Drop takes the documents and the indexes of a collection.
Drop(c) ==
    /\ roles' = IF c = "roles" THEN {} ELSE roles
    /\ users' = IF c = "users" THEN {} ELSE users
    /\ logs' = IF c = "userActivityLog" THEN 0 ELSE logs
    /\ indexed' = indexed \ {c}

\* Mutant: roles, the first in the list, before the users that refer to them.
RollbackForwards ==
    /\ pc = "rollback"
    /\ \/ /\ Drop(Collections[Len(Collections) + 1 - at]) /\ NoTrouble
          /\ \/ at > 1 /\ at' = at - 1 /\ UNCHANGED pc
             \/ at = 1 /\ env.migrate /\ Migrating(1)
             \/ at = 1 /\ ~env.migrate /\ Connecting
       \/ Trouble /\ Fatal /\ UNCHANGED database
    /\ UNCHANGED <<env, signals>>

\* Mutant: the loop ends before the first migration of the list (i > 0).
RollbackAllButFirst ==
    /\ pc = "rollback"
    /\ \/ /\ Drop(Collections[at]) /\ NoTrouble
          /\ \/ at > 2 /\ at' = at - 1 /\ UNCHANGED pc
             \/ at = 2 /\ env.migrate /\ Migrating(1)
             \/ at = 2 /\ ~env.migrate /\ Connecting
       \/ Trouble /\ Fatal /\ UNCHANGED database
    /\ UNCHANGED <<env, signals>>

\* Mutant: the loop does not stop at the first migration (i >= -1).
RollbackOnceMore ==
    /\ pc = "rollback"
    /\ \/ /\ Drop(Collections[at]) /\ NoTrouble
          /\ \/ at >= 1 /\ at' = at - 1 /\ UNCHANGED pc
             \/ at = 0 /\ env.migrate /\ Migrating(1)
             \/ at = 0 /\ ~env.migrate /\ Connecting
       \/ Trouble /\ Fatal /\ UNCHANGED database
    /\ UNCHANGED <<env, signals>>

\* The rollbacks run from the last migration to the first.
Rollback ==
    /\ pc = "rollback"
    /\ \/ /\ Drop(Collections[at]) /\ NoTrouble
          /\ \/ at > 1 /\ at' = at - 1 /\ UNCHANGED pc
             \/ at = 1 /\ env.migrate /\ Migrating(1)
             \/ at = 1 /\ ~env.migrate /\ Connecting
       \/ Trouble /\ Fatal /\ UNCHANGED database
    /\ UNCHANGED <<env, signals>>

\* The log's index is on a field no document has, so that any two documents clash.
Indexable(c) == c = "userActivityLog" => logs < 2

CreateIndex ==
    /\ pc = "migrate"
    /\ \/ /\ Indexable(Collections[at]) /\ NoTrouble
          /\ indexed' = indexed \cup {Collections[at]}
          /\ IF at < Len(Collections) THEN Migrating(at + 1)
                                      ELSE pc' = "seedRoles" /\ UNCHANGED at
       \/ ~Indexable(Collections[at]) /\ NoTrouble /\ Fatal /\ UNCHANGED indexed
       \/ Trouble /\ Fatal /\ UNCHANGED indexed
    /\ UNCHANGED <<env, roles, users, logs, signals>>

\* What an ordered InsertMany may have inserted when it fails on the
\* way: the first name that is there already stops it.
Insertable ==
    {names \in {{}, {"SUPER_ADMIN"}, {"SUPER_ADMIN", "ADMIN"}, RoleNames} :
        names \cap roles = {}}

\* Mutant: a failed RoleSeeder is logged and SeedAll goes on.
SeedRolesUnchecked ==
    /\ pc = "seedRoles"
    /\ \/ roles = {} /\ NoTrouble /\ roles' = RoleNames
       \/ roles # {} /\ NoTrouble /\ roles' = roles \cup UNION Insertable
       \/ Trouble /\ \E names \in Insertable : roles' = roles \cup names
    /\ pc' = "seedUsers"
    /\ UNCHANGED <<env, at, indexed, users, logs, signals>>

\* RoleSeeder: an error ends the process, also that of a duplicate name.
SeedRoles ==
    /\ pc = "seedRoles"
    /\ \/ roles = {} /\ NoTrouble /\ roles' = RoleNames /\ pc' = "seedUsers"
       \/ /\ \/ roles # {} /\ NoTrouble /\ roles' = roles \cup UNION Insertable
             \/ Trouble /\ \E names \in Insertable : roles' = roles \cup names
          /\ pc' = "down"
    /\ UNCHANGED <<env, at, indexed, users, logs, signals>>

\* SeedUsers: fifteen users with the role ADMIN or USER by chance and a super admin,
\* with the roles it finds; an unordered insertion that fails leaves any of them.
SeedUsers ==
    /\ pc = "seedUsers"
    /\ \/ /\ "SUPER_ADMIN" \in roles /\ NoTrouble
          /\ \E drawn \in SUBSET {"ADMIN", "USER"} :
                /\ drawn # {} /\ drawn \subseteq roles
                /\ users' = users \cup drawn \cup {"SUPER_ADMIN"}
          /\ pc' = "connect"
       \/ ~(RoleNames \subseteq roles) /\ NoTrouble /\ pc' = "down" /\ UNCHANGED users
       \/ /\ Trouble /\ pc' = "down"
          /\ \E inserted \in SUBSET roles : users' = users \cup inserted
    /\ UNCHANGED <<env, at, indexed, roles, logs, signals>>

-----------------------------------------------------------------------------
(* NewRabbitMQConnection and Run                                            *)

\* The broker may be too slow for the three dials: exit, after the seeding.
Connect ==
    /\ pc = "connect"
    /\ \/ NoTrouble /\ pc' = "run"
       \/ Trouble /\ pc' = "down"
    /\ UNCHANGED <<env, at, database, signals>>

\* Run and RunConsumer register for signals, each in its goroutine.
Notify ==
    /\ pc = "run"
    /\ \E who \in {"run", "consumer"} \ notified : notified' = notified \cup {who}
    /\ UNCHANGED <<env, pc, at, database, heard, asked, troubles>>

\* Mutant: the consumer only waits for SIGTERM, as Run only for SIGINT.
WaitsForEither(who) == IF who = "run" THEN {"SIGINT"} ELSE {"SIGTERM"}

\* What each has registered for.
WaitsFor(who) == IF who = "run" THEN {"SIGINT"} ELSE {"SIGINT", "SIGTERM"}

\* A signal nobody has registered for kills the process.
Signal ==
    /\ pc = "run" /\ Trouble
    /\ \E s \in {"SIGINT", "SIGTERM"} :
          LET receivers == {who \in notified : s \in WaitsFor(who)} IN
          /\ heard' = heard \cup receivers
          /\ asked' = IF notified = {"run", "consumer"} THEN asked \cup {s} ELSE asked
          /\ pc' = IF receivers = {} THEN "down" ELSE pc
    /\ UNCHANGED <<env, at, database, notified>>

\* Run returns when it was interrupted and RunConsumer has returned.  Nothing is
\* drained or closed.
Exit ==
    /\ pc = "run" /\ heard = {"run", "consumer"}
    /\ pc' = "down"
    /\ UNCHANGED <<env, at, database, signals, troubles>>

\* A registration is handled: it saves the role if that is missing, and an entry
\* of the activity log if the index lets it.
Register ==
    /\ pc = "run"
    /\ users' = users \cup {IF "USER" \in roles THEN "USER" ELSE "nil"}
    /\ roles' = roles \cup {"USER"}
    /\ logs' = IF "userActivityLog" \in indexed \/ logs = 0 THEN 1 ELSE 2
    /\ UNCHANGED <<env, pc, at, indexed, signals, troubles>>

-----------------------------------------------------------------------------
(* The environment.                                                         *)

Crash ==
    /\ pc # "down" /\ Trouble
    /\ pc' = "down"
    /\ UNCHANGED <<env, at, database, signals>>

\* Somebody edits .env and the container is made anew.
Redeploy ==
    /\ Trouble
    /\ env' \in [migrate : BOOLEAN, drop : BOOLEAN] /\ env' # env
    /\ pc' = "down"
    /\ UNCHANGED <<at, database, signals>>

-----------------------------------------------------------------------------

ProcessStep ==
    \/ Boot \/ Rollback \/ CreateIndex \/ SeedRoles \/ SeedUsers \/ Connect
    \/ Notify \/ Exit

Next == ProcessStep \/ Signal \/ Register \/ Crash \/ Redeploy

\* The process runs and is started again; nobody has to send it anything.
Spec == Init /\ [][Next]_vars /\ WF_vars(ProcessStep)

-----------------------------------------------------------------------------
(* Properties.                                                              *)

\* The variables are well typed.
TypeOK ==
    /\ env \in [migrate : BOOLEAN, drop : BOOLEAN]
    /\ pc \in {"down", "rollback", "migrate", "seedRoles", "seedUsers", "connect", "run"}
    /\ at \in 0..3 /\ (pc \in {"rollback", "migrate"} => at # 0)
    /\ indexed \subseteq CollectionNames
    /\ roles \subseteq RoleNames /\ users \subseteq RoleNames \cup {"nil"}
    /\ logs \in 0..2
    /\ notified \subseteq {"run", "consumer"} /\ heard \subseteq notified
    /\ asked \subseteq {"SIGINT", "SIGTERM"}
    /\ troubles \in 0..MaxTroubles

\* No user refers to a role that is gone, at no moment of a rollback, a migration
\* or a seeding, wherever it is cut off and however the next start differs: roles
\* are inserted before the users and dropped after them.
RolesOutliveUsers == users \ {"nil"} \subseteq roles

\* A service that was started with AUTO_MIGRATE and handles events has all its
\* indexes, the three roles and a super admin, whatever earlier starts left in
\* the database and wherever they failed: half a seeding never goes into service.
MigratedServiceIsComplete ==
    pc = "run" /\ env.migrate =>
        indexed = CollectionNames /\ roles = RoleNames /\ "SUPER_ADMIN" \in users

\* A start fails for good only with AUTO_MIGRATE alone, on a database that has a
\* role already, its own from an earlier start included, or two entries in the
\* activity log: with any other setting the service is up again after every
\* crash, failed call or signal.
FailsOnlyOnOldData ==
    \/ <>[](pc = "run")
    \/ <>[](env.migrate /\ ~env.drop /\ (roles # {} \/ logs = 2))

\* An interrupt stops the service, provided it comes when both Run and
\* RunConsumer have registered for it: earlier only one of them hears it and
\* waits for the other.
InterruptStops == "SIGINT" \in asked ~> (pc = "down")

=============================================================================
