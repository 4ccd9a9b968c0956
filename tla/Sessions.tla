----------------------------- MODULE Sessions -----------------------------
(***************************************************************************)
(* Accounts, sessions and rate limits: the IAM service over its postgres   *)
(* store, the limiter both services charge, and the way the gateway finds  *)
(* out who is calling by asking IAM for the actor of a bearer token.       *)
(*                                                                         *)
(* A call is one HTTP request in progress; calls interleave at every store,*)
(* limiter and IAM access.  A founding user and their organisation are     *)
(* created together and stay the only member and the only membership, so   *)
(* the user's number also names the organisation.  A token is the number   *)
(* of its session; digests only make tokens unreadable.                    *)
(*                                                                         *)
(* Time is relative.  A session and a counter hold the ticks they have     *)
(* left, as PTTL reports them, so that a behaviour may go on for ever.     *)
(***************************************************************************)
EXTENDS Integers, Sequences, FiniteSets, FiniteSetsExt, Functions

CONSTANTS Emails,       \* normalised addresses
          SignupKinds,  \* kinds of organisation that sign up
          HttpCalls,    \* HTTP requests in progress
          Limit,        \* policy -> requests per window; 0 switches it off
          Window,       \* policy -> ticks
          SessionTTL,   \* ticks a session lasts
          MaxUsers,     \* bound: accounts
          MaxSessions   \* bound: sessions

Kinds == {"buyer", "provider", "ops"}
Policies == {"iam.signup.ip", "iam.signup.daily_ip", "iam.login.ip",
             "iam.login.subject", "iam.logout.user", "gateway"}

ASSUME SessionsAssumption ==
  /\ SignupKinds \subseteq Kinds
  /\ Limit \in [Policies -> Nat]
  /\ Window \in [Policies -> Nat \ {0}]
  /\ SessionTTL \in Nat

VARIABLES users,     \* account number -> its email and kind, in order of insertion
          sessions,  \* token -> [user, left, revoked]
          counters,  \* key -> [count, ttl]
          recent,    \* key -> age in ticks -> requests admitted then (history)
          call       \* call -> what it is doing

sessionsVars == <<users, sessions, counters, recent, call>>

UserIds == 1 .. MaxUsers
Tokens == 1 .. Len(sessions)
Unknown == 0                          \* buildKey's "unknown" user

Keys ==
  {<<p, "ip">> : p \in {"iam.signup.ip", "iam.signup.daily_ip", "iam.login.ip"}}
    \cup {<<"iam.login.subject", e>> : e \in Emails}
    \cup {<<"iam.logout.user", u>> : u \in UserIds}
    \cup {<<"gateway", u, w>> : u \in UserIds, w \in UserIds \cup {Unknown}}
Policy(key) == key[1]

Idle == [pc |-> "idle"]
Go(c, next) == call' = [call EXCEPT ![c] = next]

SessionsInit ==
  /\ users = <<>>
  /\ sessions = <<>>
  /\ counters = [k \in Keys |-> [count |-> 0, ttl |-> 0]]
  /\ recent = [k \in Keys |-> [age \in 0 .. Window[Policy(k)] - 1 |-> 0]]
  /\ call = [c \in HttpCalls |-> Idle]

-----------------------------------------------------------------------------
(* The limiter: a fixed window that opens with the first request.  Denied  *)
(* requests count too; past the limit the exact count no longer matters.   *)

\* Fault: every request renews the window.
CountAndRenew(k) ==
  [count |-> Min({counters[k].count + 1, Limit[Policy(k)] + 1}),
   ttl   |-> Window[Policy(k)]]

Count(k) ==
  [count |-> Min({counters[k].count + 1, Limit[Policy(k)] + 1}),
   ttl   |-> IF counters[k].count = 0 THEN Window[Policy(k)] ELSE counters[k].ttl]

\* Fault: the window closes one request late.
AllowedOneMore(k) == counters[k].count <= Limit[Policy(k)]

Allowed(k) == counters[k].count + 1 <= Limit[Policy(k)]

(* Service.Allow for the next key a call has to be charged to, by          *)
(* applyRateLimit: a denied call ends with 429.                            *)
Allow(c) ==
  /\ call[c].pc = "limit" /\ call[c].todo # <<>>
  /\ LET k == Head(call[c].todo) IN
     IF Limit[Policy(k)] = 0
       THEN Go(c, [call[c] EXCEPT !.todo = Tail(@)]) /\ UNCHANGED <<counters, recent>>
       ELSE /\ counters' = [counters EXCEPT ![k] = Count(k)]
            /\ IF Allowed(k)
                 THEN /\ recent' = [recent EXCEPT ![k][0] = @ + 1]
                      /\ Go(c, [call[c] EXCEPT !.todo = Tail(@)])
                 ELSE Go(c, Idle) /\ UNCHANGED recent
  /\ UNCHANGED <<users, sessions>>

Admitted(c, what) == call[c].pc = "limit" /\ call[c].todo = <<>> /\ call[c].what = what

(* The store, the limiter or IAM cannot be reached, or the client hangs up:*)
(* the call ends where it is, and what it did stays done.                  *)
Fails(c) == call[c].pc # "idle" /\ Go(c, Idle) /\ UNCHANGED <<users, sessions, counters, recent>>

-----------------------------------------------------------------------------
(* IAM *)

handleSignup(c, e, kind) ==
  /\ call[c].pc = "idle"
  /\ Go(c, [pc |-> "limit", what |-> "signup", email |-> e, kind |-> kind,
            todo |-> <<<<"iam.signup.ip", "ip">>, <<"iam.signup.daily_ip", "ip">>>>])
  /\ UNCHANGED <<users, sessions, counters, recent>>

Registered(e) == \E u \in 1 .. Len(users) : users[u].email = e

(* CreateSignup, the transaction's first query: a known address is a conflict. *)
CheckEmail(c) ==
  /\ Admitted(c, "signup")
  /\ Go(c, IF Registered(call[c].email) THEN Idle
           ELSE [pc |-> "insert", email |-> call[c].email, kind |-> call[c].kind])
  /\ UNCHANGED <<users, sessions, counters, recent>>

\* Fault: the address is not unique in the table.
InsertDuplicate(c) ==
  /\ call[c].pc = "insert" /\ Len(users) < MaxUsers
  /\ users' = Append(users, [email |-> call[c].email, kind |-> call[c].kind])
  /\ Go(c, [pc |-> "issue", user |-> Len(users) + 1])
  /\ UNCHANGED <<sessions, counters, recent>>

(* The inserts and the commit: another transaction may have taken the      *)
(* address meanwhile, and then its UNIQUE column fails this one.           *)
InsertUser(c) ==
  /\ call[c].pc = "insert"
  /\ IF Registered(call[c].email)
       THEN Go(c, Idle) /\ UNCHANGED users
       ELSE /\ Len(users) < MaxUsers
            /\ users' = Append(users, [email |-> call[c].email, kind |-> call[c].kind])
            /\ Go(c, [pc |-> "issue", user |-> Len(users) + 1])
  /\ UNCHANGED <<sessions, counters, recent>>

issueSession(c) ==
  /\ call[c].pc = "issue" /\ Len(sessions) < MaxSessions
  /\ sessions' = Append(sessions, [user |-> call[c].user, left |-> SessionTTL,
                                   revoked |-> FALSE])
  /\ Go(c, Idle)
  /\ UNCHANGED <<users, counters, recent>>

handleCreateSession(c, e, matches) ==
  /\ call[c].pc = "idle"
  /\ Go(c, [pc |-> "limit", what |-> "login", email |-> e, matches |-> matches,
            todo |-> <<<<"iam.login.ip", "ip">>, <<"iam.login.subject", e>>>>])
  /\ UNCHANGED <<users, sessions, counters, recent>>

(* FindUserByEmail and the comparison of the password. *)
FindUserByEmail(c) ==
  /\ Admitted(c, "login")
  /\ \/ /\ ~ (Registered(call[c].email) /\ call[c].matches)
        /\ Go(c, Idle)
     \/ \E u \in 1 .. Len(users) :
          /\ users[u].email = call[c].email /\ call[c].matches
          /\ Go(c, [pc |-> "issue", user |-> u])
  /\ UNCHANGED <<users, sessions, counters, recent>>

(* A session is good up to and including the instant it expires. *)
Live(t) == ~ sessions[t].revoked /\ sessions[t].left >= 0

\* Fault: a revoked session is still answered.
MeUnlessExpired(t) == sessions[t].left >= 0

handleMe(t) == ~ sessions[t].revoked /\ sessions[t].left >= 0

(* An expired session can be logged out: only its existence is looked up. *)
handleLogout(c, t) ==
  /\ call[c].pc = "idle"
  /\ Go(c, [pc |-> "limit", what |-> "logout", token |-> t,
            todo |-> <<<<"iam.logout.user", sessions[t].user>>>>])
  /\ UNCHANGED <<users, sessions, counters, recent>>

RevokeSession(c) ==
  /\ Admitted(c, "logout")
  /\ sessions' = IF sessions[call[c].token].revoked THEN sessions
                 ELSE [sessions EXCEPT ![call[c].token] =
                         [@ EXCEPT !.revoked = TRUE]]
  /\ Go(c, Idle)
  /\ UNCHANGED <<users, counters, recent>>

-----------------------------------------------------------------------------
(* The gateway.  "live" remembers whether the session was good when the    *)
(* request arrived.                                                        *)

GatewayRequest(c, t, route) ==
  /\ call[c].pc = "idle"
  /\ Go(c, [pc |-> "resolve", token |-> t, route |-> route, live |-> Live(t)])
  /\ UNCHANGED <<users, sessions, counters, recent>>

(* GetActor: IAM answers 401, or the user with the one membership. *)
GetActor(t) == IF handleMe(t) THEN {sessions[t].user} ELSE {}

(* resolveBuyerOrg and resolveProviderOrg ask IAM, and need a membership   *)
(* of their kind with one of its roles: the founder's role is one.         *)
resolveOrg(c) ==
  /\ call[c].pc = "resolve" /\ call[c].route \in {"buyer", "provider"}
  /\ Go(c, IF \E u \in GetActor(call[c].token) : users[u].kind = call[c].route
             THEN [pc |-> "whoami", token |-> call[c].token, route |-> call[c].route,
                   live |-> call[c].live, org |-> sessions[call[c].token].user]
             ELSE Idle)
  /\ UNCHANGED <<users, sessions, counters, recent>>

ChargedTo(c, org, user) ==
  [pc |-> "limit", what |-> "gateway", token |-> call[c].token, route |-> call[c].route,
   live |-> call[c].live, org |-> org, todo |-> <<<<"gateway", org, user>>>>]

(* actorUserID asks a second time and takes any error for "nobody": when   *)
(* the session ended in between, or IAM does not answer, the request goes  *)
(* on and is charged to the unknown user.                                  *)
actorUserID(c) ==
  /\ call[c].pc = "whoami"
  /\ \E user \in GetActor(call[c].token) \cup {Unknown} : Go(c, ChargedTo(c, call[c].org, user))
  /\ UNCHANGED <<users, sessions, counters, recent>>

(* resolveOpsUser keeps the actor in the request: IAM is asked only once. *)
resolveOpsUser(c) ==
  /\ call[c].pc = "resolve" /\ call[c].route = "ops"
  /\ Go(c, IF \E u \in GetActor(call[c].token) : users[u].kind = "ops"
             THEN ChargedTo(c, sessions[call[c].token].user, sessions[call[c].token].user)
             ELSE Idle)
  /\ UNCHANGED <<users, sessions, counters, recent>>

(* The handler runs on behalf of the organisation it resolved. *)
Act(c) ==
  /\ Admitted(c, "gateway")
  /\ Go(c, Idle)
  /\ UNCHANGED <<users, sessions, counters, recent>>

-----------------------------------------------------------------------------
(* One tick: windows that have run out are forgotten, sessions age. *)
Aged(k) ==
  [age \in DOMAIN recent[k] |-> IF age = 0 THEN 0 ELSE recent[k][age - 1]]

Tick ==
  /\ counters' = [k \in Keys |->
       IF counters[k].ttl <= 1 THEN [count |-> 0, ttl |-> 0]
                               ELSE [counters[k] EXCEPT !.ttl = @ - 1]]
  /\ recent' = [k \in Keys |-> Aged(k)]
  /\ sessions' = [t \in Tokens |-> [sessions[t] EXCEPT !.left = Max({@ - 1, -1})]]
  /\ UNCHANGED <<users, call>>

SessionsNext ==
  \/ \E c \in HttpCalls :
       \/ \E e \in Emails, kind \in SignupKinds : handleSignup(c, e, kind)
       \/ \E e \in Emails, matches \in BOOLEAN : handleCreateSession(c, e, matches)
       \/ \E t \in Tokens : handleLogout(c, t)
       \/ \E t \in Tokens, route \in Kinds : GatewayRequest(c, t, route)
       \/ Allow(c) \/ CheckEmail(c) \/ InsertUser(c) \/ issueSession(c)
       \/ FindUserByEmail(c) \/ RevokeSession(c)
       \/ resolveOrg(c) \/ actorUserID(c) \/ resolveOpsUser(c) \/ Act(c) \/ Fails(c)
  \/ Tick

(* Time passes. *)
SessionsSpec == SessionsInit /\ [][SessionsNext]_sessionsVars /\ WF_sessionsVars(Tick)

-----------------------------------------------------------------------------
(* Signups that overlap never give one address two accounts, although the  *)
(* lookup in CreateSignup has long passed when the row is inserted.        *)
OneAccountPerEmail ==
  \A u, v \in 1 .. Len(users) : users[u].email = users[v].email => u = v

(* A request that arrives after its session was logged out or had expired  *)
(* never gets past the lookup of its organisation, and one that does acts  *)
(* for the organisation of that session's user, in that user's kind.       *)
OnlySignedInAct ==
  \A c \in HttpCalls :
     call[c].pc \in {"whoami"} \/ (call[c].pc = "limit" /\ call[c].what = "gateway") =>
        /\ call[c].live
        /\ call[c].org = sessions[call[c].token].user
        /\ users[call[c].org].kind = call[c].route

(* In any stretch of time as long as the window, whether or not it starts  *)
(* where a window does, a key is admitted at most twice its limit.         *)
AtMostTwiceTheLimit ==
  \A k \in Keys : SumFunction(recent[k]) <= 2 * Limit[Policy(k)]

(* Being limited passes: however often a blocked client keeps asking, its  *)
(* window ends.                                                            *)
LimitLifts == \A k \in Keys : []<>(counters[k].count <= Limit[Policy(k)])
=============================================================================
