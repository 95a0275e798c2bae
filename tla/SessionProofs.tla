---------------------------- MODULE SessionProofs ----------------------------
(***************************************************************************)
(* Sessions, for any number of requests and users, any life time of a      *)
(* token and any number of outages and crashes: records outlive tokens,    *)
(* no other token has a record, and no valid token is refused.             *)
(*                                                                         *)
(* The first needs to be said of a token already when the store has        *)
(* returned and the client waits for the answer, and in terms of the two   *)
(* expirations instead of the clock (Stored); the second is inductive with *)
(* the types alone; the third is about what lookups that were made earlier *)
(* have found (NeverFound).                                                *)
(***************************************************************************)
EXTENDS Session, TLAPS

\* A record expires no earlier than its token.
Covers(t) == expires[t] >= t.issued + Life

Stored ==
    /\ \A t \in held \ lost : Covers(t)
    /\ \A r \in Requests : pc[r] = "respond" => token[r] \in lost \/ Covers(token[r])

\* Nobody puts a token on the blacklist, so no lookup that was made finds one there,
\* however long ago it was made.
NeverFound == blacklist = {} /\ \A r \in Requests : pc[r] # "found"

SessionInv == TypeOK /\ Stored /\ RecordsAreHeld /\ NeverFound

-----------------------------------------------------------------------------
(* Types.                                                                   *)

\* Tokens by what the proofs need of them.
LEMMA Dates ==
    /\ \A t \in Tokens : t.issued \in 0..MaxTime
    /\ NoToken.issued = 0
BY DEF Tokens, NoToken

LEMMA TypeInit == Init => TypeOK
BY TimeAssumption, Dates DEF Init, TypeOK, Answers, LookedUp

LEMMA TypeNext == TypeOK /\ [Next]_vars => TypeOK'
<1> SUFFICES ASSUME TypeOK, [Next]_vars PROVE TypeOK'
  OBVIOUS
<1> USE TimeAssumption, Dates DEF TypeOK, Answers, LookedUp, Goto, End
<1>1. ASSUME NEW r \in Requests, Login(r) PROVE TypeOK'
  BY <1>1 DEF Login, redis, clients
<1>2. ASSUME NEW r \in Requests, Present(r) PROVE TypeOK'
  BY <1>2 DEF Present, redis, clients
<1>3. ASSUME NEW r \in Requests, Reply(r) PROVE TypeOK'
  <2>1. \A u \in Users : GenerateToken(u) \in Tokens /\ GenerateToken(u).issued = now
    BY DEF GenerateToken, Tokens
  <2> QED BY <1>3, <2>1 DEF Reply, redis, clients
<1>4. ASSUME NEW r \in Requests, Store(r) PROVE TypeOK'
  BY <1>4 DEF Store, Set, redis
<1>5. ASSUME NEW r \in Requests, Respond(r) PROVE TypeOK'
  BY <1>5 DEF Respond, redis
<1>6. ASSUME NEW r \in Requests, Lookup(r) PROVE TypeOK'
  BY <1>6 DEF Lookup, Get, redis, clients
<1>7. ASSUME NEW r \in Requests, Authorize(r) PROVE TypeOK'
  BY <1>7 DEF Authorize, redis, clients
<1>8. Tick => TypeOK'
  BY DEF Tick, requests, redis, clients
<1>9. RedisStops => TypeOK'
  BY DEF RedisStops, requests, clients
<1>10. RedisReturns => TypeOK'
  BY DEF RedisReturns, requests, clients
<1>11. Crash => TypeOK'
  BY DEF Crash, Ended, redis
<1>12. UNCHANGED vars => TypeOK'
  BY DEF vars, requests, redis, clients
<1> QED
  BY <1>1, <1>2, <1>3, <1>4, <1>5, <1>6, <1>7, <1>8, <1>9, <1>10, <1>11, <1>12
     DEF Next, Proceed

-----------------------------------------------------------------------------
(* Records outlive tokens.                                                  *)

LEMMA StoredInit == Init => Stored
BY DEF Init, Stored, Answers

\* A fresh record covers its token, since no token is dated in the future.
LEMMA SetCovers ==
    ASSUME TypeOK, NEW t \in Tokens, t.issued <= now, Set(t)
    PROVE  /\ expires'[t] >= t.issued + Life
           /\ \A other \in Tokens \ {t} : expires'[other] = expires[other]
           /\ lost' = lost \ {t}
BY TimeAssumption, Dates DEF TypeOK, Set

LEMMA StoredNext == TypeOK /\ Stored /\ [Next]_vars => Stored'
<1> SUFFICES ASSUME TypeOK, Stored, [Next]_vars PROVE Stored'
  OBVIOUS
<1> USE DEF Stored, Covers
<1>1. CASE \E r \in Requests : Store(r)
  <2> PICK r \in Requests : Store(r)
    BY <1>1
  <2>1. token[r] \in Tokens /\ token[r].issued <= now
    BY DEF Store, TypeOK
  <2>2. UNCHANGED held
    BY DEF Store
  <2>3. CASE UNCHANGED redis /\ End(r, "failed")
    BY <2>2, <2>3 DEF redis, End, TypeOK, Answers
  <2>4. CASE Set(token[r]) /\ Goto(r, "respond") /\ UNCHANGED token
    BY <2>1, <2>2, <2>4, SetCovers DEF Goto, TypeOK
  <2>5. CASE Set(token[r]) /\ End(r, "failed")
    BY <2>1, <2>2, <2>5, SetCovers DEF End, TypeOK
  <2> QED BY <2>3, <2>4, <2>5 DEF Store
<1>2. CASE \E r \in Requests : Respond(r)
  BY <1>2 DEF Respond, End, redis, TypeOK
<1>3. CASE \E r \in Requests : Login(r) \/ Present(r) \/ Reply(r) \/ Lookup(r) \/ Authorize(r)
  BY <1>3 DEF Login, Present, Reply, Lookup, Get, Authorize, Goto, End, redis, clients, TypeOK
<1>4. CASE Tick \/ RedisStops \/ UNCHANGED vars
  BY <1>4 DEF Tick, RedisStops, vars, requests, redis, clients
<1>5. CASE RedisReturns
  BY <1>5 DEF RedisReturns, requests, clients, TypeOK
<1>6. CASE Crash
  BY <1>6 DEF Crash, Ended, Answers, redis
<1> QED BY <1>1, <1>2, <1>3, <1>4, <1>5, <1>6 DEF Next, Proceed

-----------------------------------------------------------------------------
(* No other record.                                                         *)

\* The tokens of answers that are under way.
Responding == {token[r] : r \in {q \in Requests : pc[q] = "respond"}}

LEMMA RecordsInit == Init => RecordsAreHeld
BY DEF Init, RecordsAreHeld, Recorded

LEMMA RecordsNext == TypeOK /\ RecordsAreHeld /\ [Next]_vars => RecordsAreHeld'
<1> SUFFICES ASSUME TypeOK, RecordsAreHeld, [Next]_vars PROVE RecordsAreHeld'
  OBVIOUS
<1> USE DEF RecordsAreHeld, Recorded
<1>1. CASE \E r \in Requests : Store(r)
  <2> PICK r \in Requests : Store(r)
    BY <1>1
  <2>1. UNCHANGED <<now, held>>
    BY DEF Store
  <2>2. CASE UNCHANGED redis /\ End(r, "failed") /\ UNCHANGED stray
    BY <2>1, <2>2 DEF Store, redis, End, TypeOK
  <2>3. CASE Set(token[r]) /\ Goto(r, "respond") /\ UNCHANGED <<token, stray>>
    BY <2>1, <2>3 DEF Set, Goto, TypeOK
  <2>4. CASE Set(token[r]) /\ End(r, "failed") /\ stray' = stray \cup {token[r]}
    BY <2>1, <2>4 DEF Store, Set, End, TypeOK
  <2> QED BY <2>2, <2>3, <2>4 DEF Store
<1>2. CASE \E r \in Requests : Respond(r)
  BY <1>2 DEF Respond, End, redis, TypeOK
<1>3. CASE \E r \in Requests : Login(r) \/ Present(r) \/ Reply(r) \/ Lookup(r) \/ Authorize(r)
  BY <1>3 DEF Login, Present, Reply, Lookup, Get, Authorize, LookedUp, Ended, Answers, Goto,
              End, redis, clients, TypeOK
<1>4. CASE Tick
  BY <1>4, TimeAssumption DEF Tick, requests, redis, clients, TypeOK
<1>5. CASE RedisStops \/ UNCHANGED vars
  BY <1>5 DEF RedisStops, vars, requests, redis, clients
<1>6. CASE RedisReturns
  BY <1>6 DEF RedisReturns, requests, clients, TypeOK
<1>7. CASE Crash
  BY <1>7 DEF Crash, redis
<1> QED BY <1>1, <1>2, <1>3, <1>4, <1>5, <1>6, <1>7 DEF Next, Proceed

-----------------------------------------------------------------------------

LEMMA NeverFoundNext == TypeOK /\ NeverFound /\ [Next]_vars => NeverFound'
<1> SUFFICES ASSUME TypeOK, NeverFound, [Next]_vars PROVE NeverFound'
  OBVIOUS
<1> USE DEF NeverFound, TypeOK
<1>1. CASE \E r \in Requests : Store(r)
  BY <1>1 DEF Store, Set, Goto, End, redis
<1>2. CASE \E r \in Requests : Lookup(r)
  BY <1>2 DEF Lookup, Get, Goto, redis
<1>3. CASE \E r \in Requests : Login(r) \/ Present(r) \/ Reply(r) \/ Respond(r) \/ Authorize(r)
  BY <1>3 DEF Login, Present, Reply, Respond, Authorize, Goto, End, redis
<1>4. CASE Tick \/ RedisStops \/ RedisReturns \/ UNCHANGED vars
  BY <1>4 DEF Tick, RedisStops, RedisReturns, requests, redis, vars
<1>5. CASE Crash
  BY <1>5 DEF Crash, redis
<1> QED BY <1>1, <1>2, <1>3, <1>4, <1>5 DEF Next, Proceed

LEMMA SessionAlways == Spec => []SessionInv
<1>1. Init => SessionInv
  <2>1. Init => NeverFound
    BY DEF Init, NeverFound
  <2> QED BY <2>1, TypeInit, StoredInit, RecordsInit DEF SessionInv
<1>2. SessionInv /\ [Next]_vars => SessionInv'
  BY TypeNext, StoredNext, RecordsNext, NeverFoundNext DEF SessionInv
<1> QED BY <1>1, <1>2, PTL DEF Spec

\* Every reachable state is well typed, and no token is dated in the future.
THEOREM SessionTypes == Spec => []TypeOK
<1>1. SessionInv => TypeOK
  BY DEF SessionInv
<1> QED BY <1>1, SessionAlways, PTL

\* A token that is accepted has its record, unless Redis lost it.
THEOREM RecordsLast == Spec => []RecordOutlivesToken
<1>1. SessionInv => RecordOutlivesToken
  BY TimeAssumption, Dates
     DEF SessionInv, Stored, Covers, RecordOutlivesToken, Valid, Recorded, TypeOK
<1> QED BY <1>1, SessionAlways, PTL

\* A record belongs to a session, or to a login that could not tell how it ended.
THEOREM NoRecordOfFailedLogins == Spec => []RecordsAreHeld
<1>1. SessionInv => RecordsAreHeld
  BY DEF SessionInv
<1> QED BY <1>1, SessionAlways, PTL

\* Whatever Redis answers or does not answer to the look at the blacklist, no step
\* refuses a token that is still valid: an error counts as "not blacklisted", and
\* no lookup finds a token there.
THEOREM SessionsLast == Spec => RefusedOnlyWhenExpired
<1>1. ASSUME SessionInv, [Next]_vars, NEW r \in Requests,
             pc[r] = "lookup" \/ LookedUp(r), pc'[r] = "unauthorized"
      PROVE  ~Valid(token[r])
  <2>1. ~Crash /\ ~UNCHANGED pc
    BY <1>1 DEF Crash, Ended, Answers, LookedUp, SessionInv, TypeOK
  <2>2. PICK q \in Requests : Login(q) \/ Present(q) \/ Proceed(q)
    BY <1>1, <2>1 DEF Next, Tick, RedisStops, RedisReturns, requests, vars
  <2>3. ~Login(q) /\ ~Present(q) /\ ~Reply(q) /\ ~Store(q) /\ ~Respond(q)
    BY <1>1 DEF Login, Present, Reply, Store, Respond, Ended, Answers, LookedUp, Goto, End,
                SessionInv, TypeOK
  <2>4. ~Lookup(q)
    BY <1>1 DEF Lookup, Get, LookedUp, Goto, SessionInv, TypeOK
  <2>5. Authorize(q)
    BY <2>2, <2>3, <2>4 DEF Proceed
  <2>6. q = r
    BY <1>1, <2>5 DEF Authorize, LookedUp, End, SessionInv, TypeOK
  <2> QED BY <1>1, <2>5, <2>6 DEF Authorize, IsBlacklisted, LooksUnder, ClaimsKey, End,
                                  NeverFound, SessionInv, TypeOK
<1>2. SessionInv /\ [Next]_vars =>
        [\A r \in Requests :
            (pc[r] = "lookup" \/ LookedUp(r)) /\ pc'[r] = "unauthorized"
                => ~Valid(token[r])]_vars
  BY <1>1
<1> QED BY <1>2, SessionAlways, PTL DEF Spec, RefusedOnlyWhenExpired

=============================================================================
