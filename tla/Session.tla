------------------------------- MODULE Session -------------------------------
(***************************************************************************)
(* Signing in and staying signed in: the auth provider                     *)
(* (lib/auth/context.tsx), the token cookies (lib/auth/session.ts), the    *)
(* request helper that refreshes a rejected token once                     *)
(* (lib/api/client.ts), the route guards (proxy.ts,                        *)
(* components/auth-guard.tsx), the login form and the accounts it          *)
(* remembers (lib/auth/recent-accounts.ts).  Requests overlap with each    *)
(* other, with signing out and with signing in as someone else.            *)
(***************************************************************************)
EXTENDS Naturals, Sequences, FiniteSets, SequencesExt

CONSTANTS
    Accounts,     \* the accounts of the installation
    WithMfa,      \* those that need a second factor
    NoOne,        \* nobody
    MaxRecent,    \* MAX_RECENT_ACCOUNTS
    MaxCalls,     \* requests made by the pages, refreshUser included
    MaxLogins,    \* attempts to sign in, their second factors not counted
    MaxRejects,   \* access tokens the API no longer takes
    MaxFails,     \* requests that fail for another reason
    MaxReloads

VARIABLES
    page,        \* "login", "app" or "off"
    status, user,\* of AuthProvider
    cookies,     \* whose token pair the cookies hold
    calls,       \* requests in flight that use the session token
    recent,      \* the remembered accounts, latest first
    screen,      \* the login form: "credentials" or "mfa"
    mfaFor,      \* whose challenge mfaToken is
    email, code, submitting, loginError,
    attempt,     \* the sign-in request in flight
    made, logins, rejects, fails, reloads,
    proven,      \* history: accounts that passed every factor
    crossing,    \* history: a session began or ended under a request that changes it
    halfIn       \* history: tokens kept although the sign-in was reported failed

sessionVars == <<page, status, user, cookies, calls, recent, screen, mfaFor, email, code,
                 submitting, loginError, attempt, made, logins, rejects, fails, reloads, proven, crossing,
                 halfIn>>

theForm == <<screen, mfaFor, email, code, submitting, loginError>>
theBounds == <<made, logins, rejects, fails, reloads>>
theAuth == <<status, user, cookies, crossing>>

\* No attempt to sign in is in flight.
Idle == [st |-> "none", who |-> NoOne]

\* A request of apiFetch: why it was made, where it stands, whose token it bears.
Request(n, why, whose) == [n |-> n, why |-> why, st |-> "sent", bearer |-> whose]

\* Requests whose end changes the session.
Stale(c) == c.why # "page" \/ c.st = "refresh"
Overtakes(others) == \E c \in others : Stale(c)

-----------------------------------------------------------------------------
(* lib/auth/recent-accounts.ts                                             *)

\* The filter on the address: an account is in the list once, so it drops one.
OtherAccounts(who) ==
    IF who \in Range(recent)
    THEN RemoveAt(recent, CHOOSE i \in DOMAIN recent : recent[i] = who)
    ELSE recent

\* Mutant of rememberAccount: the list is not cut.
rememberAccountAlways(who) == << who >> \o OtherAccounts(who)

rememberAccount(who) ==
    LET next == << who >> \o OtherAccounts(who)
    IN  SubSeq(next, 1, IF Len(next) > MaxRecent THEN MaxRecent ELSE Len(next))

forgetAccount(who) == OtherAccounts(who)

\* readAccounts when the login form mounts: the latest account is filled in.
prefill(r) == IF r = <<>> THEN NoOne ELSE r[1]

-----------------------------------------------------------------------------
SessionClean(p) ==
    /\ page = p /\ user = NoOne
    /\ screen = "credentials" /\ mfaFor = NoOne /\ code = FALSE
    /\ email = IF p = "login" THEN prefill(recent) ELSE NoOne
    /\ submitting = FALSE /\ loginError = FALSE
    /\ attempt = Idle
    /\ made = 0 /\ logins = 0 /\ rejects = 0 /\ fails = 0 /\ reloads = 0
    /\ crossing = FALSE /\ halfIn = FALSE

\* The effect that hydrates the user on the first mount.
hydrate(held) ==
    IF held = NoOne THEN [status |-> "unauthenticated", calls |-> {}]
    ELSE [status |-> "loading", calls |-> {Request(0, "hydrate", held)}]

SessionInit ==
    /\ cookies \in Accounts \cup {NoOne}
    \* Whoever holds tokens signed in here before, and is remembered.
    /\ recent = IF cookies = NoOne THEN <<>> ELSE << cookies >>
    /\ \E p \in {"login", "app"} : SessionClean(p)
    /\ page = "app" => cookies # NoOne
    /\ proven = {cookies} \ {NoOne}
    /\ status = hydrate(cookies).status /\ calls = hydrate(cookies).calls

SessionOff ==
    /\ recent = <<>> /\ SessionClean("off")
    /\ cookies = NoOne /\ status = "unauthenticated" /\ calls = {} /\ proven = {}

Init == SessionInit

\* Mutant of persistSession: cookies that are there are kept.
persistSessionKept(who) == IF cookies = NoOne THEN who ELSE cookies

\* persistSession: the pair replaces the one the cookies hold.
persistSession(who) == who

\* endSession, while the requests in others go on.
endSession(others) ==
    /\ cookies' = NoOne /\ user' = NoOne /\ status' = "unauthenticated"
    /\ crossing' = (crossing \/ Overtakes(others) \/ attempt.st # "none")

\* proxy: a page of the console needs the session cookie.
proxy(p) == IF p = "app" /\ cookies = NoOne THEN "login" ELSE p

-----------------------------------------------------------------------------
(* LoginForm                                                               *)

FreshForm(who) ==
    /\ screen' = "credentials" /\ mfaFor' = NoOne /\ email' = who /\ code' = FALSE
    /\ submitting' = FALSE /\ loginError' = FALSE

\* selectAccount and useAnotherAccount of the list beside either form, which
\* stays usable during a request, and the email input.
TypeEmail(who) ==
    /\ page = "login" /\ who # email
    /\ \/ recent # <<>> /\ who \in Range(recent) \cup {NoOne} /\ loginError' = FALSE
       \/ screen = "credentials" /\ ~submitting /\ UNCHANGED loginError
    /\ email' = who
    /\ UNCHANGED <<page, theAuth, calls, recent, screen, mfaFor, code, submitting, attempt,
                   theBounds, proven, halfIn>>

\* removeAccount: the box is cleared when it held the address.
removeAccount(who) ==
    /\ page = "login" /\ who \in Range(recent)
    /\ recent' = forgetAccount(who)
    /\ email' = IF email = who THEN NoOne ELSE email
    /\ UNCHANGED <<page, theAuth, calls, screen, mfaFor, code, submitting, loginError, attempt,
                   theBounds, proven, halfIn>>

\* onSubmit, onVerify and onPasskey up to their request.
Begin(st) ==
    /\ page = "login" /\ ~submitting /\ (st = "login" => logins < MaxLogins)
    /\ CASE st = "login" -> screen = "credentials"
         [] st = "verify" -> screen = "mfa" /\ code
         [] st = "passkey" -> screen = "mfa"
    /\ attempt' = [st |-> st, who |-> IF st = "login" THEN email ELSE mfaFor]
    /\ submitting' = TRUE /\ loginError' = FALSE
    /\ logins' = IF st = "login" THEN logins + 1 ELSE logins
    /\ UNCHANGED <<page, theAuth, calls, recent, screen, mfaFor, email, code, made, rejects,
                   fails, reloads, proven, halfIn>>

TypeCode ==
    /\ page = "login" /\ screen = "mfa" /\ ~submitting /\ ~code
    /\ code' = TRUE
    /\ UNCHANGED <<page, theAuth, calls, recent, screen, mfaFor, email, submitting, loginError,
                   attempt, theBounds, proven, halfIn>>

\* toggleRecovery empties the code; it may be pressed during a request.
toggleRecovery ==
    /\ page = "login" /\ screen = "mfa" /\ code
    /\ code' = FALSE
    /\ UNCHANGED <<page, theAuth, calls, recent, screen, mfaFor, email, submitting, loginError,
                   attempt, theBounds, proven, halfIn>>

\* cancelMfa: back to the credentials; a code being verified goes on.
cancelMfa ==
    /\ page = "login" /\ screen = "mfa"
    /\ screen' = "credentials" /\ mfaFor' = NoOne /\ code' = FALSE /\ loginError' = FALSE
    /\ UNCHANGED <<page, theAuth, calls, recent, email, submitting, attempt, theBounds, proven,
                   halfIn>>

\* A refused factor, a dismissed passkey prompt, a lost request; a blank
\* address is always refused.
AttemptFails ==
    /\ attempt.st \in {"login", "verify", "passkey"}
    /\ attempt.who # NoOne => fails < MaxFails
    /\ fails' = IF attempt.who = NoOne THEN fails ELSE fails + 1
    /\ attempt' = Idle /\ submitting' = FALSE /\ loginError' = TRUE
    /\ UNCHANGED <<page, theAuth, calls, recent, screen, mfaFor, email, code, made, logins,
                   rejects, reloads, proven, halfIn>>

\* login: a challenge persists nothing.
Challenge ==
    /\ attempt.st = "login" /\ attempt.who \in WithMfa
    /\ screen' = "mfa" /\ mfaFor' = attempt.who /\ submitting' = FALSE /\ attempt' = Idle
    /\ UNCHANGED <<page, theAuth, calls, recent, email, code, loginError, theBounds, proven,
                   halfIn>>

\* finishLogin: the pair is kept, then the user is fetched with it.
finishLogin ==
    /\ \/ attempt.st = "login" /\ attempt.who \in Accounts \ WithMfa
       \/ attempt.st \in {"verify", "passkey"}
    /\ cookies' = persistSession(attempt.who)
    /\ crossing' = (crossing \/ Overtakes(calls))
    /\ proven' = proven \cup {attempt.who}
    /\ attempt' = [attempt EXCEPT !.st = "finish"]
    /\ calls' = calls \cup {Request(0, "finish", attempt.who)}
    /\ UNCHANGED <<page, status, user, recent, theForm, theBounds, halfIn>>

-----------------------------------------------------------------------------
(* apiFetch and what its callers do with the result.                       *)

\* The pages ask for something with the token the cookies hold.
Send(why) ==
    /\ page = "app" /\ status = "authenticated" /\ made < MaxCalls
    /\ made' = made + 1
    /\ calls' = calls \cup {Request(made + 1, why, cookies)}
    /\ UNCHANGED <<page, theAuth, recent, theForm, attempt, logins, rejects, fails, reloads,
                   proven, halfIn>>

\* The request succeeded: hydration, refreshUser and finishLogin take the user
\* it returned; finishLogin also remembers the account and leaves the form.
Succeed(c) ==
    /\ c \in calls /\ c.st \in {"sent", "retry"} /\ c.bearer # NoOne
    /\ calls' = calls \ {c}
    /\ user' = IF c.why = "page" THEN user ELSE c.bearer
    /\ status' = IF c.why \in {"hydrate", "finish"} THEN "authenticated" ELSE status
    /\ IF c.why = "finish"
       THEN /\ recent' = rememberAccount(c.bearer)
            /\ attempt' = Idle /\ page' = proxy("app")
            /\ crossing' = (crossing \/ Overtakes(calls \ {c}))
            /\ halfIn' = FALSE
            /\ IF proxy("app") = "app" THEN FreshForm(NoOne) ELSE UNCHANGED theForm
       ELSE UNCHANGED <<recent, attempt, page, crossing, halfIn, theForm>>
    /\ UNCHANGED <<cookies, theBounds, proven>>

\* What a failed request leaves behind, once it is given up.
GiveUp(c, ended) ==
    /\ calls' = calls \ {c}
    /\ IF ended \/ c.why = "hydrate" THEN endSession(calls \ {c}) ELSE UNCHANGED theAuth
    /\ IF c.why = "finish"
       THEN /\ attempt' = Idle /\ submitting' = FALSE /\ loginError' = TRUE
            /\ halfIn' = (halfIn \/ ~ended)
       ELSE UNCHANGED <<attempt, submitting, loginError, halfIn>>
    /\ UNCHANGED <<page, recent, screen, mfaFor, email, code, made, logins, reloads, proven>>

\* A failure that is not a 401, at the first try or at the retry.
Fail(c) ==
    /\ c \in calls /\ c.st \in {"sent", "retry"} /\ fails < MaxFails /\ fails' = fails + 1
    /\ GiveUp(c, FALSE)
    /\ UNCHANGED rejects

\* The tokenRefresher without a refresh token ends the session.
RejectWithoutRefresh(c) ==
    /\ c \in calls /\ c.st = "sent" /\ cookies = NoOne
    /\ c.bearer = NoOne \/ rejects < MaxRejects
    /\ rejects' = IF c.bearer = NoOne THEN rejects ELSE rejects + 1
    /\ GiveUp(c, TRUE)
    /\ UNCHANGED fails

\* A 401: the refresh token the cookies hold now is traded in.
Reject(c) ==
    /\ c \in calls /\ c.st = "sent" /\ cookies # NoOne
    /\ c.bearer = NoOne \/ rejects < MaxRejects
    /\ rejects' = IF c.bearer = NoOne THEN rejects ELSE rejects + 1
    /\ calls' = (calls \ {c}) \cup {[c EXCEPT !.st = "refresh", !.bearer = cookies]}
    /\ UNCHANGED <<page, theAuth, recent, theForm, attempt, made, logins, fails, reloads,
                   proven, halfIn>>

Refreshed(c) ==
    /\ c \in calls /\ c.st = "refresh"
    /\ cookies' = persistSession(c.bearer)
    /\ calls' = (calls \ {c}) \cup {[c EXCEPT !.st = "retry"]}
    /\ UNCHANGED <<page, status, user, crossing, recent, theForm, attempt, theBounds, proven,
                   halfIn>>

\* A refresh that fails tears the session down.
RefreshFails(c) ==
    /\ c \in calls /\ c.st = "refresh" /\ fails < MaxFails /\ fails' = fails + 1
    /\ GiveUp(c, TRUE)
    /\ UNCHANGED rejects

-----------------------------------------------------------------------------
(* Leaving.                                                                *)

\* A guard or a sign-out shows the login form, which mounts.
ToLogin == page' = "login" /\ FreshForm(prefill(recent))

logout ==
    /\ page = "app" /\ status = "authenticated"
    /\ endSession(calls)
    /\ ToLogin
    /\ UNCHANGED <<calls, recent, attempt, theBounds, proven, halfIn>>

\* AuthGuard.
AuthGuard ==
    /\ page = "app" /\ status = "unauthenticated"
    /\ ToLogin
    /\ UNCHANGED <<theAuth, calls, recent, attempt, theBounds, proven, halfIn>>

\* The browser loads a page anew: what ran in the old one is gone.
Reload(p) ==
    /\ page # "off" /\ reloads < MaxReloads /\ reloads' = reloads + 1
    /\ page' = proxy(p) /\ FreshForm(IF proxy(p) = "app" THEN NoOne ELSE prefill(recent))
    /\ user' = NoOne /\ attempt' = Idle /\ crossing' = FALSE /\ halfIn' = FALSE
    /\ status' = hydrate(cookies).status /\ calls' = hydrate(cookies).calls
    /\ UNCHANGED <<cookies, recent, made, logins, rejects, fails, proven>>

SessionNext ==
    \/ \E who \in Accounts \cup {NoOne} : TypeEmail(who) \/ removeAccount(who)
    \/ \E st \in {"login", "verify", "passkey"} : Begin(st)
    \/ TypeCode \/ toggleRecovery \/ cancelMfa
    \/ AttemptFails \/ Challenge \/ finishLogin
    \/ \E why \in {"page", "me"} : Send(why)
    \/ \E c \in calls :
         \/ Succeed(c) \/ Fail(c) \/ RejectWithoutRefresh(c) \/ Reject(c)
         \/ Refreshed(c) \/ RefreshFails(c)
    \/ logout \/ AuthGuard
    \/ \E p \in {"login", "app"} : Reload(p)

Next == SessionNext

\* Requests are answered and effects run.
SessionFairness ==
    /\ WF_sessionVars(Challenge \/ finishLogin \/ (attempt.who = NoOne /\ AttemptFails))
    /\ WF_sessionVars(\E c \in calls :
           Succeed(c) \/ RejectWithoutRefresh(c) \/ Reject(c) \/ Refreshed(c))
    /\ WF_sessionVars(AuthGuard)

Spec == Init /\ [][Next]_sessionVars /\ SessionFairness

-----------------------------------------------------------------------------
\* Type invariant; the remembered accounts are distinct and few.
SessionTypeOK ==
    /\ page \in {"login", "app", "off"}
    /\ status \in {"loading", "authenticated", "unauthenticated"}
    /\ {user, cookies, email, mfaFor} \subseteq Accounts \cup {NoOne}
    /\ \A c \in calls : c.st \in {"sent", "refresh", "retry"} /\ c.bearer \in Accounts \cup {NoOne}
    /\ Len(recent) <= MaxRecent /\ IsInjective(recent)
    /\ {code, submitting, loginError, crossing, halfIn} \subseteq BOOLEAN
    /\ attempt.st # "none" => submitting

Finishing == attempt.st = "finish"

\* The person the shell shows is the one whose tokens the requests carry, as
\* long as no session began or ended under a request that would still set the
\* user or the cookies (setUser and persistSession are not guarded against it).
UserIsSessionOwner ==
    (status = "authenticated" /\ ~crossing /\ ~halfIn /\ ~Finishing) => user = cookies

\* Signed out means nothing is left to sign in with: sign-out, a failed
\* refresh and an abandoned challenge leave no cookie, again unless a request
\* overtook them.
SignedOutHoldsNothing ==
    (status = "unauthenticated" /\ calls = {} /\ attempt = Idle /\ ~crossing /\ ~halfIn)
        => cookies = NoOne

\* Only accounts that passed every factor are remembered: neither a failed
\* attempt nor an abandoned challenge leaves an address behind.
OnlySignedInRemembered == Range(recent) \subseteq proven

\* The session is found out, every attempt to sign in ends, and nobody stays
\* in the console without being signed in, unless a request overtook.
SessionSettles ==
    <>[](\/ page = "off" \/ crossing
         \/ /\ status # "loading" /\ (page = "login" => ~submitting)
            /\ page = "app" => status = "authenticated")

=============================================================================
