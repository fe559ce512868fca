----------------------------- MODULE AuthSession -----------------------------
(***************************************************************************)
(* A user's session: the handlers of backend/app/api/v1/auth.py in one or   *)
(* more API processes, and a browser with frontend/src/lib/authSession.js. *)
(*                                                                         *)
(* A login or a refresh issues a pair: a refresh token and a CSRF token.    *)
(* The browser keeps the pair in its cookie jar, from the headers of the   *)
(* response, and the CSRF token a second time in localStorage, once the    *)
(* page has parsed the body; the middleware accepts a write of the page if *)
(* the two agree.  All tabs share both.  A refresh token is exchanged by    *)
(* revoking it, in the memory of the process, and issuing a new pair.  A   *)
(* handler gives way to others only where it waits for the database.       *)
(***************************************************************************)
EXTENDS LoginThrottle

CONSTANTS
  Request,   \* slots for the calls of the pages
  MaxPairs,  \* bound: pairs issued
  NoPair,    \* null values
  NoReply,
  NoProcess

Pair == 1 .. MaxPairs

ASSUME PairsAssumption == MaxPairs \in Nat
ASSUME ScopeAssumption == {"login", "register"} \subseteq Scope
ASSUME NullAssumption ==
  /\ NoPair \notin Pair /\ NoReply \notin Pair \cup {NoPair}
  /\ NoProcess \notin Process

VARIABLES
  issued,  \* number of pairs issued
  revoked, \* _revoked_refresh_jti of each process
  jar,     \* the browser's cookies: the pair of the last Set-Cookie
  stored,  \* localStorage: the pair whose csrf_token was saved last
  call,    \* the calls under way
  course,  \* history: "smooth" if no calls have overlapped or failed, else
           \* "rough", or "mending" while a login is the only call
  raced    \* history: refreshes under way that did not hold their token alone

server  == <<issued, revoked>>
browser == <<jar, stored>>
vars    == <<throttle, server, browser, call, course, raced>>

\* A login with a wrong password is "mistyped".
Kind  == {"login", "mistyped", "refresh", "logout"}
Label == {"idle", "sent", "authenticate", "user", "replied", "parse"}

\* at: the process that works on it; reply: the pair its response sets, NoPair
\* if it clears the cookies, NoReply if it leaves them alone.
Call ==
  [pc: Label, kind: Kind, token: Pair \cup {NoPair}, at: Process \cup {NoProcess},
   reply: Pair \cup {NoPair, NoReply}]

Idle ==
  [pc |-> "idle", kind |-> "login", token |-> NoPair, at |-> NoProcess, reply |-> NoReply]

TypeOK ==
  /\ ThrottleTypeOK
  /\ issued \in 0 .. MaxPairs
  /\ revoked \in [Process -> SUBSET Pair]
  /\ jar \in Pair \cup {NoPair}
  /\ stored \in Pair \cup {NoPair}
  /\ call \in [Request -> Call]
  /\ course \in {"smooth", "rough", "mending"}
  /\ raced \subseteq Request

Init ==
  /\ ThrottleInit
  /\ issued = 0
  /\ revoked = [p \in Process |-> {}]
  /\ jar = NoPair
  /\ stored = NoPair
  /\ call = [r \in Request |-> Idle]
  /\ course = "smooth"
  /\ raced = {}

-----------------------------------------------------------------------------

AtRest == \A r \in Request : call[r].pc = "idle"

\* The next state of a call is c.
Turns(r, c) == call' = [call EXCEPT ![r] = c]

\* A page starts a call.
Begin(r, c) ==
  /\ call[r].pc = "idle"
  /\ Turns(r, c)
  /\ course' = IF ~AtRest THEN "rough"
               ELSE IF course # "smooth" /\ c.kind = "login" THEN "mending" ELSE course

\* The course after a login that yields no session: it has mended nothing.
Rough == IF course = "smooth" THEN "smooth" ELSE "rough"

\* _issue_tokens and _set_auth_cookies, in the response to r.
Issue(r) ==
  /\ issued < MaxPairs
  /\ issued' = issued + 1
  /\ Turns(r, [call[r] EXCEPT !.pc = "replied", !.at = NoProcess, !.reply = issued'])

\* An error response: no cookies.
Refuse(r) == Turns(r, [call[r] EXCEPT !.pc = "replied", !.at = NoProcess, !.reply = NoReply])

\* Other refreshes in p have found the token of r unrevoked and will exchange it.
Rivals(r, p) ==
  {q \in Request \ {r} : call[q].pc = "user" /\ call[q].at = p /\ call[q].token = call[r].token}

-----------------------------------------------------------------------------
(* login and register_tenant                                               *)

\* Unless the scope is locked: 429.
Login(r, p) ==
  /\ ~Locked(p, "login")
  /\ \E k \in {"login", "mistyped"} :
       Begin(r, [Idle EXCEPT !.pc = "authenticate", !.kind = k, !.at = p])
  /\ UNCHANGED <<throttle, server, browser, raced>>

Authenticated(r) ==
  /\ call[r].pc = "authenticate" /\ call[r].kind = "login"
  /\ Reset(call[r].at, "login")
  /\ Issue(r)
  /\ UNCHANGED <<revoked, browser, course, raced>>

\* invalid_credentials: 401, or 429 if it reaches the maximum or the scope has
\* been locked meanwhile.  The page shows the error.
Mistyped(r) ==
  /\ call[r].pc = "authenticate" /\ call[r].kind = "mistyped"
  /\ Record(call[r].at, "login")
  /\ Turns(r, Idle)
  /\ course' = Rough
  /\ UNCHANGED <<server, browser, raced>>

\* Every attempt counts; inserting the tenant and its admin comes after that.
Register(p) ==
  /\ ~Locked(p, "register")
  /\ Record(p, "register")
  /\ UNCHANGED <<server, browser, call, course, raced>>

-----------------------------------------------------------------------------
(* refresh and logout                                                      *)

\* The browser sends the refresh cookie along.
Send(r) ==
  /\ \E k \in {"refresh", "logout"} :
       Begin(r, [Idle EXCEPT !.pc = "sent", !.kind = k, !.token = jar])
  /\ UNCHANGED <<throttle, server, browser, raced>>

\* Variant for the run's mutants: refresh without is_refresh_revoked.
AcceptsRevoked(r, p) == call[r].token # NoPair

\* _resolve_refresh_token finds a cookie and is_refresh_revoked does not know it.
Accepts(r, p) == call[r].token # NoPair /\ call[r].token \notin revoked[p]

\* refresh, up to the query of get_user_by_id.
Refresh(r, p) ==
  /\ call[r].pc = "sent" /\ call[r].kind = "refresh"
  /\ \/ /\ Accepts(r, p)
        /\ Turns(r, [call[r] EXCEPT !.pc = "user", !.at = p])
        /\ raced' = raced \cup Rivals(r, p) \cup (IF Rivals(r, p) = {} THEN {} ELSE {r})
     \/ /\ ~Accepts(r, p)
        /\ Refuse(r)
        /\ UNCHANGED raced
  /\ UNCHANGED <<throttle, server, browser, course>>

\* refresh, from revoke_refresh_jti on.
Exchange(r) ==
  /\ call[r].pc = "user"
  /\ revoked' = [revoked EXCEPT ![call[r].at] = @ \cup {call[r].token}]
  /\ Issue(r)
  /\ raced' = raced \ {r}
  /\ UNCHANGED <<throttle, browser, course>>

\* Variant for the run's mutants: the logout leaves the cookies.
LogoutKeepsCookies(r, p) ==
  /\ call[r].pc = "sent" /\ call[r].kind = "logout" /\ call[r].token # NoPair
  /\ revoked' = [revoked EXCEPT ![p] = @ \cup {call[r].token}]
  /\ Refuse(r)
  /\ raced' = raced \cup Rivals(r, p)
  /\ UNCHANGED <<throttle, issued, browser, course>>

\* logout never waits.
Logout(r, p) ==
  /\ call[r].pc = "sent" /\ call[r].kind = "logout"
  /\ \/ /\ call[r].token # NoPair
        /\ revoked' = [revoked EXCEPT ![p] = @ \cup {call[r].token}]
        /\ Turns(r, [call[r] EXCEPT !.pc = "replied", !.reply = NoPair])
        /\ raced' = raced \cup Rivals(r, p)
     \/ /\ call[r].token = NoPair
        /\ Refuse(r)
        /\ UNCHANGED <<revoked, raced>>
  /\ UNCHANGED <<throttle, issued, browser, course>>

\* The query of a login or a refresh raises: 500.
QueryFails(r) ==
  /\ \/ call[r].pc = "authenticate" /\ Turns(r, Idle) /\ course' = Rough
     \/ call[r].pc = "user" /\ Refuse(r) /\ course' = "rough"
  /\ raced' = raced \ {r}
  /\ UNCHANGED <<throttle, server, browser>>

\* A process is replaced: what it kept in memory and the calls it worked on are
\* gone.  The pages' fetch rejects.
Restart(p) ==
  LET Cut == {r \in Request : call[r].at = p} IN
  /\ Forget(p)
  /\ revoked' = [revoked EXCEPT ![p] = {}]
  /\ call' = [r \in Request |-> IF r \in Cut THEN Idle ELSE call[r]]
  /\ course' = IF Cut = {} THEN course ELSE "rough"
  /\ raced' = raced \ Cut
  /\ UNCHANGED <<issued, browser>>

-----------------------------------------------------------------------------
(* The browser                                                             *)

\* Set-Cookie takes effect before the page sees the response.
Receive(r) ==
  /\ call[r].pc = "replied"
  /\ jar' = IF call[r].reply = NoReply THEN jar ELSE call[r].reply
  /\ Turns(r, [call[r] EXCEPT !.pc = "parse"])
  /\ UNCHANGED <<throttle, server, stored, course, raced>>

\* saveAuthSession, or clearAuthSession after a logout or a failed refresh.
SavedAfter(r) ==
  IF call[r].kind = "logout" \/ call[r].reply = NoReply THEN NoPair ELSE call[r].reply

\* A login alone makes up for what went wrong before it.
Parse(r) ==
  /\ call[r].pc = "parse"
  /\ stored' = SavedAfter(r)
  /\ Turns(r, Idle)
  /\ course' = IF course = "mending" THEN "smooth" ELSE course
  /\ UNCHANGED <<throttle, server, jar, raced>>

\* fetch rejects: the request or its response is lost.  logoutAuthSession clears
\* the storage all the same.
ConnectionFails(r) ==
  /\ call[r].pc \in {"sent", "replied"}
  /\ stored' = IF call[r].kind = "logout" THEN NoPair ELSE stored
  /\ Turns(r, Idle)
  /\ course' = "rough"
  /\ UNCHANGED <<throttle, server, jar, raced>>

\* The tab is closed before the page has seen the response.
TabClosed(r) ==
  /\ call[r].pc \in {"replied", "parse"}
  /\ Turns(r, Idle)
  /\ course' = "rough"
  /\ UNCHANGED <<throttle, server, browser, raced>>

\* _csrf_protection_failed, negated: a write of the page is let in without the
\* refresh cookie, or if the header, from localStorage, equals the CSRF cookie.
WriteAccepted == jar = NoPair \/ stored = jar

-----------------------------------------------------------------------------

Tick ==
  /\ Elapse
  /\ UNCHANGED <<server, browser, call, course, raced>>

Handle(r) ==
  \/ \E p \in Process : Login(r, p) \/ Refresh(r, p) \/ Logout(r, p)
  \/ Authenticated(r) \/ Mistyped(r) \/ Exchange(r) \/ QueryFails(r)

Page(r) == Send(r) \/ Receive(r) \/ Parse(r) \/ ConnectionFails(r) \/ TabClosed(r)

Next ==
  \/ Tick
  \/ \E p \in Process : Register(p) \/ Restart(p)
  \/ \E r \in Request : Handle(r) \/ Page(r)

Spec == Init /\ [][Next]_vars

-----------------------------------------------------------------------------
(* Properties                                                              *)

\* In any window, fewer than the maximum of attempts get through: mistyped
\* passwords that are told so, and registrations.  Neither a lockout that ends
\* nor logins that were under way when it began let more of them through.
AttemptsAreLimited ==
  \A p \in Process, s \in Scope : Len(granted[p][s]) < MaxAttempts

\* A lockout runs its time: failures that were under way when it began do not
\* prolong it, and only a login that was, or a restart, ends it early.
LockoutRunsItsTime ==
  [][\A p \in Process, s \in Scope : lockout[p][s] > 0 =>
       \/ lockout'[p][s] \in {lockout[p][s], lockout[p][s] - 1}
       \/ /\ lockout'[p][s] = 0
          /\ \/ s = "login" /\ \E r \in Request : call[r].at = p /\ call'[r].pc = "replied"
             \/ lockout'[p] = Unlocked /\ revoked'[p] = {}]_vars

\* As long as the calls do not overlap or fail, the browser at rest is logged
\* out, or its writes are accepted and its next refresh succeeds, whichever
\* process gets it: the token in the jar is not revoked, and the CSRF token in
\* localStorage is that of the cookie.
SessionContinues ==
  AtRest /\ course = "smooth" =>
    /\ WriteAccepted
    /\ jar = NoPair => stored = NoPair
    /\ \A p \in Process : jar \notin revoked[p]

\* A process exchanges a refresh token once, however often it is presented: a
\* refresh that waits for the database holds a token its process has revoked
\* only if another call held the token at the same time.
ExchangedOnce ==
  \A r \in Request :
    call[r].pc = "user" /\ call[r].token \in revoked[call[r].at] => r \in raced
=============================================================================
