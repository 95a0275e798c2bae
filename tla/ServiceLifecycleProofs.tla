------------------------ MODULE ServiceLifecycleProofs ------------------------
(***************************************************************************)
(* Migration and seeding, for any number of crashes, failed calls, signals *)
(* and redeployments: no user refers to a role that is gone, and a service *)
(* started with AUTO_MIGRATE is complete when it handles events.           *)
(*                                                                         *)
(* Both are inductive together with what each stage of the boot has behind *)
(* it: the users are dropped when the rollback reaches the roles, and the  *)
(* indexes and roles are there when the next stage relies on them.         *)
(***************************************************************************)
EXTENDS ServiceLifecycle, TLAPS

\* What each stage has behind it.
Stages ==
    /\ pc = "rollback" /\ at = 1 => users = {}
    /\ pc \in {"migrate", "seedRoles", "seedUsers"} => env.migrate
    /\ pc = "migrate" /\ at >= 2 => "roles" \in indexed
    /\ pc = "migrate" /\ at = 3 => "users" \in indexed
    /\ pc \in {"seedRoles", "seedUsers"} => indexed = CollectionNames
    /\ pc = "seedUsers" => roles = RoleNames
    /\ pc = "connect" /\ env.migrate =>
          indexed = CollectionNames /\ roles = RoleNames /\ "SUPER_ADMIN" \in users

LifeInv == TypeOK /\ RolesOutliveUsers /\ MigratedServiceIsComplete /\ Stages

-----------------------------------------------------------------------------

\* The three migrations by their positions.
LEMMA Positions ==
    /\ Len(Collections) = 3
    /\ Collections[1] = "roles" /\ Collections[2] = "users"
    /\ Collections[3] = "userActivityLog"
BY DEF Collections

LEMMA LifeInit == Init => LifeInv
BY MaxTroublesAssumption
   DEF Init, LifeInv, TypeOK, RolesOutliveUsers, MigratedServiceIsComplete, Stages,
       CollectionNames, RoleNames

LEMMA BootKeeps == LifeInv /\ Boot => LifeInv'
BY Positions
   DEF Boot, LifeInv, TypeOK, RolesOutliveUsers, MigratedServiceIsComplete, Stages,
       Migrating, Connecting, database

LEMMA RollbackKeeps == LifeInv /\ Rollback => LifeInv'
<1> SUFFICES ASSUME LifeInv, Rollback PROVE LifeInv'
  OBVIOUS
<1> USE DEF LifeInv, TypeOK, RolesOutliveUsers, MigratedServiceIsComplete, Stages,
            CollectionNames, RoleNames, signals
<1>1. CASE Trouble /\ Fatal /\ UNCHANGED database
  BY <1>1, MaxTroublesAssumption DEF Rollback, Trouble, Fatal, database
<1>2. CASE at = 3 /\ Drop(Collections[3]) /\ NoTrouble /\ at' = 2 /\ UNCHANGED pc
  BY <1>2, Positions DEF Rollback, Drop, NoTrouble
<1>3. CASE at = 2 /\ Drop(Collections[2]) /\ NoTrouble /\ at' = 1 /\ UNCHANGED pc
  BY <1>3, Positions DEF Rollback, Drop, NoTrouble
<1>4. CASE /\ at = 1 /\ Drop(Collections[1]) /\ NoTrouble
           /\ (env.migrate /\ Migrating(1)) \/ (~env.migrate /\ Connecting)
  BY <1>4, Positions DEF Rollback, Drop, NoTrouble, Migrating, Connecting
<1>5. at \in {1, 2, 3}
  BY DEF Rollback
<1> QED BY <1>1, <1>2, <1>3, <1>4, <1>5 DEF Rollback

LEMMA CreateIndexKeeps == LifeInv /\ CreateIndex => LifeInv'
<1> SUFFICES ASSUME LifeInv, CreateIndex PROVE LifeInv'
  OBVIOUS
<1> USE DEF LifeInv, TypeOK, RolesOutliveUsers, MigratedServiceIsComplete, Stages,
            CollectionNames, RoleNames, signals, Trouble, NoTrouble, Fatal
<1>1. at \in {1, 2, 3}
  BY DEF CreateIndex
<1>2. CASE pc' = "down" /\ UNCHANGED <<at, indexed>> /\ troubles' \in 0..MaxTroubles
  <2>1. UNCHANGED <<env, roles, users, logs, signals>>
    BY DEF CreateIndex
  <2> QED BY <1>2, <2>1
<1>3. CASE /\ NoTrouble /\ indexed' = indexed \cup {Collections[at]}
           /\ at < 3 /\ Migrating(at + 1)
  <2>1. pc = "migrate" /\ pc' = "migrate" /\ UNCHANGED <<env, roles, users, logs, signals,
            troubles>>
    BY <1>3 DEF CreateIndex, Migrating
  <2>2. CASE at = 1
    BY <1>3, <2>1, <2>2, Positions DEF Migrating
  <2>3. CASE at = 2
    BY <1>3, <2>1, <2>3, Positions DEF Migrating
  <2> QED BY <1>1, <1>3, <2>2, <2>3
<1>4. CASE /\ NoTrouble /\ indexed' = indexed \cup {Collections[at]}
           /\ at = 3 /\ pc' = "seedRoles" /\ UNCHANGED at
  <2>1. /\ pc = "migrate" /\ pc' = "seedRoles" /\ at' = 3
        /\ UNCHANGED <<env, roles, users, logs, signals, troubles>>
    BY <1>4 DEF CreateIndex
  <2>2. indexed' = CollectionNames
    <3>1. "roles" \in indexed /\ "users" \in indexed
      BY <1>4, <2>1
    <3>2. indexed' = indexed \cup {"userActivityLog"}
      BY <1>4, Positions
    <3> QED BY <3>1, <3>2
  <2> QED BY <1>4, <2>1, <2>2
<1>5. Fatal /\ UNCHANGED indexed /\ (NoTrouble \/ Trouble) =>
      pc' = "down" /\ UNCHANGED <<at, indexed>> /\ troubles' \in 0..MaxTroubles
  BY MaxTroublesAssumption
<1> QED BY <1>1, <1>2, <1>3, <1>4, <1>5, Positions DEF CreateIndex

\* Whatever is inserted into the roles, they only grow, and within their names.
LEMMA SeedRolesKeeps == LifeInv /\ SeedRoles => LifeInv'
<1> SUFFICES ASSUME LifeInv, SeedRoles PROVE LifeInv'
  OBVIOUS
<1>1. roles \subseteq roles' /\ roles' \subseteq RoleNames
  BY DEF SeedRoles, Insertable, RoleNames, LifeInv, TypeOK
<1>2. troubles' \in 0..MaxTroubles
  BY MaxTroublesAssumption DEF SeedRoles, Trouble, NoTrouble, LifeInv, TypeOK
<1>3. pc' \in {"seedUsers", "down"} /\ (pc' = "seedUsers" => roles' = RoleNames)
  BY DEF SeedRoles
<1> QED
  BY <1>1, <1>2, <1>3
  DEF SeedRoles, signals, LifeInv, TypeOK, RolesOutliveUsers, MigratedServiceIsComplete, Stages

LEMMA SeedUsersKeeps == LifeInv /\ SeedUsers => LifeInv'
<1> SUFFICES ASSUME LifeInv, SeedUsers PROVE LifeInv'
  OBVIOUS
<1>1. users' \ {"nil"} \subseteq roles /\ users' \subseteq RoleNames \cup {"nil"}
  BY DEF SeedUsers, LifeInv, TypeOK, RolesOutliveUsers
<1>2. troubles' \in 0..MaxTroubles
  BY MaxTroublesAssumption DEF SeedUsers, Trouble, NoTrouble, LifeInv, TypeOK
<1>3. pc' \in {"connect", "down"} /\ (pc' = "connect" => "SUPER_ADMIN" \in users')
  BY DEF SeedUsers
<1> QED
  BY <1>1, <1>2, <1>3
  DEF SeedUsers, signals, LifeInv, TypeOK, RolesOutliveUsers, MigratedServiceIsComplete, Stages

\* Connecting, signals, the end of the process and a new start.
LEMMA OtherKeeps ==
    LifeInv /\ (Connect \/ Notify \/ Exit \/ Signal \/ Register \/ Crash \/ Redeploy)
    => LifeInv'
<1> SUFFICES ASSUME LifeInv PROVE
      Connect \/ Notify \/ Exit \/ Signal \/ Register \/ Crash \/ Redeploy => LifeInv'
  OBVIOUS
<1> USE MaxTroublesAssumption
    DEF LifeInv, TypeOK, RolesOutliveUsers, MigratedServiceIsComplete, Stages,
        CollectionNames, RoleNames, signals, database, Trouble, NoTrouble
<1>1. Connect => LifeInv'
  BY DEF Connect
<1>2. Notify => LifeInv'
  BY DEF Notify
<1>3. Exit => LifeInv'
  BY DEF Exit
<1>4. ASSUME Signal PROVE LifeInv'
  <2>1. /\ asked' \subseteq {"SIGINT", "SIGTERM"} /\ heard' \subseteq notified
        /\ pc' \in {pc, "down"} /\ pc = "run"
    BY <1>4 DEF Signal
  <2>2. UNCHANGED <<env, at, database, notified>> /\ troubles' \in 0..MaxTroubles
    BY <1>4 DEF Signal
  <2> QED BY <2>1, <2>2
<1>5. Register => LifeInv'
  BY DEF Register
<1>6. Crash => LifeInv'
  BY DEF Crash
<1>7. Redeploy => LifeInv'
  BY DEF Redeploy
<1> QED BY <1>1, <1>2, <1>3, <1>4, <1>5, <1>6, <1>7

LEMMA LifeAlways == Spec => []LifeInv
<1>1. LifeInv /\ UNCHANGED vars => LifeInv'
  BY DEF vars, signals, database, LifeInv, TypeOK, RolesOutliveUsers,
         MigratedServiceIsComplete, Stages
<1>2. LifeInv /\ [Next]_vars => LifeInv'
  BY <1>1, BootKeeps, RollbackKeeps, CreateIndexKeeps, SeedRolesKeeps, SeedUsersKeeps,
     OtherKeeps DEF Next, ProcessStep
<1> QED BY LifeInit, <1>2, PTL DEF Spec

\* Every reachable state is well typed.
THEOREM LifecycleTypes == Spec => []TypeOK
<1>1. LifeInv => TypeOK
  BY DEF LifeInv
<1> QED BY <1>1, LifeAlways, PTL

\* Every user's role is there at every moment of every rollback and seeding.
THEOREM RolesAreThere == Spec => []RolesOutliveUsers
<1>1. LifeInv => RolesOutliveUsers
  BY DEF LifeInv
<1> QED BY <1>1, LifeAlways, PTL

\* What was started with AUTO_MIGRATE and serves is completely migrated and seeded.
THEOREM NoHalfSeedingServes == Spec => []MigratedServiceIsComplete
<1>1. LifeInv => MigratedServiceIsComplete
  BY DEF LifeInv
<1> QED BY <1>1, LifeAlways, PTL

=============================================================================
