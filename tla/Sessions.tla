------------------------------ MODULE Sessions ------------------------------
(***************************************************************************)
(* The dashboard's login cookie (internal/auth/session.go): requests of    *)
(* one browser, several at a time, handled and answered in any order while *)
(* the cookie expires, is renewed or cleared and the admin password is     *)
(* changed under it.                                                       *)
(*                                                                         *)
(* A request takes the cookie along when it is sent; what its response     *)
(* sets is applied when that is received.  A token is its expiry and the   *)
(* version of the signing key, which is derived from the admin password,   *)
(* so a restart with another password is another key.  A tick is finer     *)
(* than a second, since a token keeps whole seconds only.                  *)
(*                                                                         *)
(* The browser drops a cookie TTL after it was received.  The token in it  *)
(* has expired by then, so that is left out.                               *)
(***************************************************************************)
EXTENDS Integers, FiniteSetsExt

CONSTANTS
    Tabs,           \* requests the browser can have in flight
    TTL,            \* sessionTTL
    Second,         \* ticks in a second
    Flight,         \* a request and its response take at most this long
    MaxTime,        \* bound on the clock
    MaxPasswords    \* bound: passwords in use, one after another

\* Requests take seconds or minutes, a session lasts seven days.
ASSUME SessionsAssumption ==
    /\ {TTL, Second, Flight, MaxTime, MaxPasswords} \subseteq Nat \ {0}
    /\ 2 * Flight + Second <= TTL \div 2

VARIABLES
    clock,
    password,       \* version of the admin password and of the signing key
    jar,            \* the browser's cookie, or NoCookie
    request,        \* the requests
    \* history: when the server handled the latest request, of those answered,
    \* that the cookie or a login authenticated; the browser has logged out
    \* with nothing else in flight and not asked to log in since
    proved, out

sessionVars == <<clock, password, jar, request, proved, out>>

Token(key, expiry) == [key |-> key, expiry |-> expiry]
NoCookie == Token(0, 0)

Idle == [phase |-> "idle", kind |-> "api", cookie |-> NoCookie, since |-> 0,
         sent |-> 0, handled |-> 0, ok |-> FALSE, set |-> "nothing",
         fresh |-> NoCookie]

SessionsInit ==
    /\ clock = 0
    /\ password = 1
    /\ jar = NoCookie
    /\ request = [t \in Tabs |-> Idle]
    /\ proved = 0
    /\ out = FALSE

\* Time passes, but no request is on its way for longer than Flight.
Pass ==
    /\ clock < MaxTime
    /\ \A t \in Tabs :
          request[t].phase # "idle" => clock < request[t].sent + Flight
    /\ clock' = clock + 1
    /\ UNCHANGED <<password, jar, request, proved, out>>
-----------------------------------------------------------------------------
(* Sessions *)

\* token: the expiry in whole seconds, signed with the current key.
NewToken == Token(password, ((clock + TTL) \div Second) * Second)

\* verify: signed with the current key and not expired.
Valid(cookie) ==
    /\ cookie.key = password
    /\ clock < cookie.expiry

\* Mutant: the cookie is renewed in the last second only.
RenewalDueLate(cookie) == cookie.expiry - clock < Second

\* Past half its life.
RenewalDue(cookie) == 2 * (cookie.expiry - clock) < TTL

\* The answer to a request, and what it does to the cookie.
Answer(t, ok, set) ==
    request' = [request EXCEPT ![t] =
        [phase |-> "answered", kind |-> request[t].kind, cookie |-> NoCookie,
         since |-> 0, sent |-> request[t].sent, handled |-> clock, ok |-> ok,
         set |-> set,
         fresh |-> IF set = "cookie" THEN NewToken ELSE NoCookie]]

\* Authenticate, called by RequireScope, AdminOnly and the session endpoint:
\* the cookie passes every scope, and is renewed on the way.
Authenticate(t) ==
    LET cookie == request[t].cookie IN
    /\ request[t].kind = "api"
    /\ IF Valid(cookie)
       THEN Answer(t, TRUE, IF RenewalDue(cookie) THEN "cookie" ELSE "nothing")
       ELSE Answer(t, FALSE, "nothing")

\* Issue, if the password is right.
Login(t, right) ==
    /\ request[t].kind = "login"
    /\ Answer(t, right, IF right THEN "cookie" ELSE "nothing")

\* Mutant: the cleared cookie has another path, and the browser keeps both.
LogoutOtherPath(t) ==
    /\ request[t].kind = "logout"
    /\ Answer(t, TRUE, "nothing")

\* Clear; no credential is asked for.
Logout(t) ==
    /\ request[t].kind = "logout"
    /\ Answer(t, TRUE, "clear")

Handle(t) ==
    /\ request[t].phase = "sent"
    /\ \/ Authenticate(t)
       \/ \E right \in BOOLEAN : Login(t, right)
       \/ Logout(t)
    /\ UNCHANGED <<clock, password, jar, proved, out>>
-----------------------------------------------------------------------------
(* The browser and the operator *)

Send(t, kind) ==
    /\ request[t].phase = "idle"
    /\ request' = [request EXCEPT ![t] =
          [phase |-> "sent", kind |-> kind, cookie |-> jar, since |-> proved,
           sent |-> clock, handled |-> 0, ok |-> FALSE, set |-> "nothing",
           fresh |-> NoCookie]]
    /\ out' = (out /\ kind # "login")
    /\ UNCHANGED <<clock, password, jar, proved>>

Receive(t) ==
    LET r == request[t] IN
    /\ r.phase = "answered"
    /\ jar' = CASE r.set = "cookie" -> r.fresh
                [] r.set = "clear" -> NoCookie
                [] OTHER -> jar
    /\ proved' = IF r.ok /\ r.kind # "logout" /\ r.handled > proved
                 THEN r.handled ELSE proved
    /\ out' = \/ out
              \/ /\ r.kind = "logout"
                 /\ \A u \in Tabs \ {t} : request[u].phase = "idle"
    /\ request' = [request EXCEPT ![t] = Idle]
    /\ UNCHANGED <<clock, password>>

\* The request or its response is lost, also when the process restarts.
Lose(t) ==
    /\ request[t].phase # "idle"
    /\ request' = [request EXCEPT ![t] = Idle]
    /\ UNCHANGED <<clock, password, jar, proved, out>>

\* NewSessions at a restart with another password; requests not yet handled
\* are lost.
ChangePassword ==
    /\ password < MaxPasswords
    /\ password' = password + 1
    /\ request' = [t \in Tabs |->
          IF request[t].phase = "sent" THEN Idle ELSE request[t]]
    /\ UNCHANGED <<clock, jar, proved, out>>

SessionsNext ==
    \/ Pass
    \/ ChangePassword
    \/ \E t \in Tabs :
          \/ \E kind \in {"login", "logout", "api"} : Send(t, kind)
          \/ Handle(t)
          \/ Receive(t)
          \/ Lose(t)
-----------------------------------------------------------------------------
(* Properties *)

\* "An active admin is never logged out mid-task": a request with a cookie
\* signed under the current password is refused only if the browser heard of
\* no authenticated request handled in the half life before, although the
\* responses that renew the cookie may come in any order or not at all.
ActiveStaysIn ==
    [][\A t \in Tabs :
         LET r == request[t] IN
         /\ r.phase = "sent" /\ r.kind = "api"
         /\ request'[t].phase = "answered" /\ ~request'[t].ok
         /\ r.cookie.key = password
         => 2 * (clock - r.since) >= TTL]_sessionVars

\* A logout that nothing overlaps is final: no request the browser sends
\* later brings the cookie back before the next login.  (A renewal under way
\* when the logout is answered does: the gateway keeps no state to stop it.)
LogoutIsFinal == out => jar = NoCookie
=============================================================================
