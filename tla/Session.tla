------------------------------- MODULE Session -------------------------------
(***************************************************************************)
(* Logins, the tokens they hand out and the requests that carry them: the  *)
(* gateway's HandleEventResponse, GenerateToken, StoreTokenInRedis,        *)
(* JWTMiddleware and RoleMiddleware, concurrently for several requests,    *)
(* over a Redis that may be down, time out or lose its data, a gateway     *)
(* that may crash and a clock that may move on between any two steps.      *)
(*                                                                         *)
(* The reply to a login is a reply to the login of some user: that is all  *)
(* RpcContract promises.  The wait for it is RequestReply's subject.       *)
(***************************************************************************)
EXTENDS Integers

CONSTANTS Requests,  \* the HTTP requests that can be under way at once
          Users,
          Life,      \* the 72 hours, in ticks of the clock
          MaxTime    \* bound on the clock

ASSUME TimeAssumption == Life \in Nat \ {0} /\ MaxTime \in Nat

VARIABLES
    now,      \* the clock, of the gateway and of Redis, in seconds
    roleOf,   \* the users' roles; no handler changes one
    pc,       \* what each request does next, or how the last one ended
    token,    \* the token it carries, or the one it is about to hand out
    \* Redis
    up,       \* it answers
    expires,  \* when each token's record expires; 0: there is none
    lost,     \* tokens whose record Redis has lost
    blacklist,  \* tokens under "blacklist:"; BlacklistToken has no caller
    \* the clients
    held,     \* tokens that have reached a client
    stray     \* tokens stored, perhaps, by a login whose answer does not tell

requests == <<pc, token>>
redis    == <<up, expires, lost, blacklist>>
clients  == <<held, stray>>
vars == <<now, roleOf, requests, redis, clients>>

Tokens  == [user : Users, issued : 0..MaxTime]
NoToken == [user |-> "none", issued |-> 0]
Routes  == {"account", "listAdmins", "changeAdmin"}

Init ==
    /\ now = 0 /\ roleOf \in [Users -> {"SUPER_ADMIN", "ADMIN", "USER"}]
    /\ pc = [r \in Requests |-> "accepted"] /\ token = [r \in Requests |-> NoToken]
    /\ up = "up" /\ expires = [t \in Tokens |-> 0] /\ lost = {} /\ blacklist = {}
    /\ held = {} /\ stray = {}

\* The answers: 200 or 202, 401 or 403 from the middlewares, 401 from a handler,
\* and 500, 504 or none.
Answers  == {"accepted", "unauthorized", "forbidden", "unclaimed", "failed"}
Ended(r) == pc[r] \in Answers

Goto(r, label) == pc' = [pc EXCEPT ![r] = label]
End(r, answer) ==
    /\ pc' = [pc EXCEPT ![r] = answer]
    /\ token' = [token EXCEPT ![r] = NoToken]

\* jwt/v5: the expiration is a whole second, and not valid itself.
Valid(t) == now < t.issued + Life

Recorded(t) == now < expires[t]

-----------------------------------------------------------------------------
(* A login.                                                                 *)

\* The request is published; a request that ended makes room for another.
Login(r) ==
    /\ Ended(r)
    /\ Goto(r, "reply")
    /\ UNCHANGED <<now, roleOf, token, redis, clients>>

\* Mutant: the token is dated a little ahead, against clocks that lag.
GenerateTokenAhead(u) == [user |-> u, issued |-> now + 1]

\* Two logins of a user in one second get the same token: nothing else is in it.
GenerateToken(u) == [user |-> u, issued |-> now]

\* HandleEventResponse.  No reply in time, that of a failed login and that of one
\* that succeeded.
Reply(r) ==
    /\ pc[r] = "reply"
    /\ \/ End(r, "failed") \/ End(r, "unauthorized")
       \/ \E u \in Users : token' = [token EXCEPT ![r] = GenerateToken(u)] /\ Goto(r, "store")
    /\ UNCHANGED <<now, roleOf, redis, clients>>

\* SET with a time to live, that begins now and not when the token was dated.
Set(t) ==
    /\ up = "up"
    /\ expires' = [expires EXCEPT ![t] = now + Life]
    /\ lost' = lost \ {t}
    /\ UNCHANGED <<up, blacklist>>

\* Mutant: an error of StoreTokenInRedis is logged and the token handed out.
StoreUnchecked(r) ==
    /\ pc[r] = "store"
    /\ \/ Set(token[r]) /\ Goto(r, "respond") /\ UNCHANGED <<token, stray>>
       \/ UNCHANGED redis /\ Goto(r, "respond") /\ UNCHANGED <<token, stray>>
    /\ UNCHANGED <<now, roleOf, held>>

\* Mutant: the store is tried again until Redis answers.
StoreWaiting(r) ==
    /\ pc[r] = "store"
    /\ Set(token[r]) /\ Goto(r, "respond") /\ UNCHANGED <<token, stray>>
    /\ UNCHANGED <<now, roleOf, held>>

\* StoreTokenInRedis.  It fails when Redis does not answer, or the client has gone
\* and the request's context with him, and may have had its effect then.
Store(r) ==
    /\ pc[r] = "store"
    /\ \/ Set(token[r]) /\ Goto(r, "respond") /\ UNCHANGED <<token, stray>>
       \/ UNCHANGED redis /\ End(r, "failed") /\ UNCHANGED stray
       \/ Set(token[r]) /\ End(r, "failed") /\ stray' = stray \cup {token[r]}
    /\ UNCHANGED <<now, roleOf, held>>

\* Mutant: whether the reply can carry a token is looked at after storing it.
RespondChecked(r) ==
    /\ pc[r] = "respond"
    /\ \/ End(r, "accepted") /\ held' = held \cup {token[r]} /\ UNCHANGED stray
       \/ End(r, "failed") /\ UNCHANGED clients
       \/ End(r, "failed") /\ stray' = stray \cup {token[r]} /\ UNCHANGED held
    /\ UNCHANGED <<now, roleOf, redis>>

\* The response reaches the client, or there is nobody any more.
Respond(r) ==
    /\ pc[r] = "respond"
    /\ \/ End(r, "accepted") /\ held' = held \cup {token[r]} /\ UNCHANGED stray
       \/ End(r, "failed") /\ stray' = stray \cup {token[r]} /\ UNCHANGED held
    /\ UNCHANGED <<now, roleOf, redis>>

-----------------------------------------------------------------------------
(* A request with a token.                                                  *)

\* It arrives, with a token of its client's.
Present(r) ==
    /\ Ended(r)
    /\ \E t \in held : token' = [token EXCEPT ![r] = t]
    /\ Goto(r, "lookup")
    /\ UNCHANGED <<now, roleOf, redis, clients>>

\* What GET of the token's key under "blacklist:" may come to within three seconds.
Get(t) ==
    {"error"} \cup IF up = "down" THEN {}
                  ELSE IF t \in blacklist THEN {"found"} ELSE {"missing"}

\* Redis is asked first, and the answer used later.
Lookup(r) ==
    /\ pc[r] = "lookup"
    /\ \E answer \in Get(token[r]) : Goto(r, answer)
    /\ UNCHANGED <<now, roleOf, token, redis, clients>>

LookedUp(r) == pc[r] \in {"found", "missing", "error"}

\* Mutant: a token counts as blacklisted when Redis cannot be asked.
IsBlacklistedFailingClosed(answer) == answer \in {"found", "error"}

\* What IsBlacklistedToken makes of the answer.
IsBlacklisted(answer) == answer = "found"

\* RoleMiddleware of the route, where it has one.
Allowed(path) ==
    CASE path = "account"     -> {"SUPER_ADMIN", "ADMIN", "USER"}
      [] path = "listAdmins"  -> {"SUPER_ADMIN", "ADMIN"}
      [] path = "changeAdmin" -> {"SUPER_ADMIN"}

\* The context keys: JWTMiddleware puts the claims under "user"; CreateAdmin and
\* UpdateAdmin look for them under "role".
ClaimsKey == "user"
LooksUnder(path) == IF path = "changeAdmin" THEN "role" ELSE "user"

\* JWTMiddleware after the look at the blacklist, which reads the clock only now,
\* RoleMiddleware, and the handler's own look at the claims, on any of the routes.
Authorize(r) ==
    LET t == token[r] IN
    /\ LookedUp(r)
    /\ \/ (IsBlacklisted(pc[r]) \/ ~Valid(t)) /\ End(r, "unauthorized")
       \/ /\ ~IsBlacklisted(pc[r]) /\ Valid(t)
          /\ \E path \in Routes :
                \/ roleOf[t.user] \notin Allowed(path) /\ End(r, "forbidden")
                \/ /\ roleOf[t.user] \in Allowed(path)
                   /\ End(r, IF LooksUnder(path) = ClaimsKey THEN "accepted" ELSE "unclaimed")
    /\ UNCHANGED <<now, roleOf, redis, clients>>

-----------------------------------------------------------------------------
(* The environment.                                                         *)

Tick ==
    /\ now < MaxTime
    /\ now' = now + 1
    /\ UNCHANGED <<roleOf, requests, redis, clients>>

RedisStops ==
    /\ up = "up" /\ up' = "down"
    /\ UNCHANGED <<now, roleOf, requests, expires, lost, blacklist, clients>>

\* Redis saves a snapshot now and then: what came later is gone.
RedisReturns ==
    /\ up = "down" /\ up' = "up"
    /\ \E gone \in SUBSET {t \in Tokens : Recorded(t)} :
          /\ expires' = [t \in Tokens |-> IF t \in gone THEN 0 ELSE expires[t]]
          /\ lost' = lost \cup gone
    /\ blacklist' \in SUBSET blacklist
    /\ UNCHANGED <<now, roleOf, requests, clients>>

\* The gateway dies with all its requests and is started again.
Crash ==
    /\ pc' = [r \in Requests |-> IF Ended(r) THEN pc[r] ELSE "failed"]
    /\ token' = [r \in Requests |-> NoToken]
    /\ stray' = stray \cup {token[r] : r \in {q \in Requests : pc[q] = "respond"}}
    /\ UNCHANGED <<now, roleOf, redis, held>>

-----------------------------------------------------------------------------

Proceed(r) == Reply(r) \/ Store(r) \/ Respond(r) \/ Lookup(r) \/ Authorize(r)

Next ==
    \/ \E r \in Requests : Login(r) \/ Present(r) \/ Proceed(r)
    \/ Tick \/ RedisStops \/ RedisReturns \/ Crash

\* The goroutines run and the timers fire; Redis need not come back.
Spec == Init /\ [][Next]_vars /\ \A r \in Requests : WF_vars(Proceed(r))

-----------------------------------------------------------------------------
(* Properties.                                                              *)

\* The variables are well typed, and no token is dated in the future.
TypeOK ==
    /\ now \in 0..MaxTime
    /\ roleOf \in [Users -> {"SUPER_ADMIN", "ADMIN", "USER"}]
    /\ pc \in [Requests -> {"reply", "store", "respond", "lookup", "found", "missing", "error"}
                            \cup Answers]
    /\ token \in [Requests -> Tokens \cup {NoToken}]
    /\ \A r \in Requests :
          pc[r] \in {"store", "respond", "lookup"} \/ LookedUp(r) => token[r] \in Tokens
    /\ up \in {"up", "down"}
    /\ expires \in [Tokens -> 0..(MaxTime + Life)]
    /\ lost \subseteq Tokens /\ blacklist \subseteq Tokens
    /\ held \subseteq Tokens /\ stray \subseteq Tokens
    /\ \A t \in held \cup {token[r] : r \in Requests} : t.issued <= now

\* Every token in a client's hands has its record in Redis for as long as
\* JWTMiddleware accepts it, whatever failed while it was stored: unless Redis
\* lost it, a token is stored before it is handed out, and its record expires
\* after it and not before.
RecordOutlivesToken ==
    \A t \in held \ lost : Valid(t) => Recorded(t)

\* Every record in Redis is that of a token a client holds or is about to get,
\* but for logins whose store timed out with effect, whose client had gone, or
\* whose gateway died: a failed login leaves no session behind.
RecordsAreHeld ==
    \A t \in Tokens :
        Recorded(t) => t \in held \cup stray \cup
                             {token[r] : r \in {q \in Requests : pc[q] = "respond"}}

\* A client's token is refused only after its 72 hours: whatever Redis answered to
\* the look at the blacklist, or did not answer, and whatever became of Redis and
\* its data before and since, and of the gateway, no session ends early.
RefusedOnlyWhenExpired ==
    [][\A r \in Requests :
          (pc[r] = "lookup" \/ LookedUp(r)) /\ pc'[r] = "unauthorized"
              => ~Valid(token[r])]_vars

\* Every request ends, also if Redis never comes back: no lookup and no store
\* waits for it.
RequestsEnd ==
    \A r \in Requests : ~Ended(r) ~> Ended(r)

=============================================================================
