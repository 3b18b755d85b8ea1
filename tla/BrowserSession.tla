---------------------------- MODULE BrowserSession ----------------------------
(***************************************************************************)
(* Who is signed in, in the web application: stores/authStore.ts, the      *)
(* requests of lib/api.ts that refresh the access token and are sent a     *)
(* second time, the timer of ProtectedRoute.tsx, and the server's          *)
(* api/auth.py with core/deps.py.                                          *)
(*                                                                         *)
(* The store is kept in memory and in the browser's storage, and a page    *)
(* that is loaded anew starts from the storage.  Every refresh is its own: *)
(* nothing makes two requests share one.  A token is the number of the     *)
(* grant that issued it.                                                   *)
(***************************************************************************)
EXTENDS Naturals, Sequences, FiniteSets

CONSTANTS
    Accounts,
    NoAccount,
    TwoFactor,          \* the accounts with a second factor
    Calls,
    MaxGrants,          \* bound on tokens issued
    MaxReloads,
    MaxSessionFaults    \* bound on lost answers and deactivations

ASSUME BrowserSessionAssumption ==
    /\ NoAccount \notin Accounts /\ TwoFactor \subseteq Accounts
    /\ {MaxGrants, MaxReloads, MaxSessionFaults} \subseteq Nat

VARIABLES
    authStore,          \* zustand: the tokens, the user, isAuthenticated
    saved,              \* localStorage
    grants,             \* the tokens that were issued
    inactive,           \* accounts an administrator has deactivated
    calls,              \* [Calls -> one request of the application]
    refreshes,          \* [Refreshers -> refreshAccessToken]
    signIn,             \* the login page
    sessionBounds       \* reloads and faults so far

browserVars == <<authStore, saved, grants, inactive, calls, refreshes, signIn, sessionBounds>>

Timer == "timer"
Refreshers == Calls \cup {Timer}
NoToken == 0
SignedOut == [token |-> NoToken, refreshToken |-> NoToken, user |-> NoAccount]

\* An upload or a download is not sent a second time.
Kinds == {"load", "rename", "upload"}
Underway == {"sent", "denied", "served", "refreshing"}

BrowserSessionTypeOK ==
    /\ \A s \in {authStore, saved} :
          {s.token, s.refreshToken} \subseteq 0..Len(grants)
             /\ s.user \in Accounts \cup {NoAccount}
    /\ authStore.isAuthenticated \in BOOLEAN
    /\ Len(grants) <= MaxGrants
    /\ \A c \in Calls : calls[c].at \in Underway \cup {"idle", "over"}
    /\ \A x \in Refreshers : refreshes[x] \in 0..Len(grants)

Authenticated(s) == s.token # NoToken /\ s.user # NoAccount

Loaded(s) == [token |-> s.token, refreshToken |-> s.refreshToken, user |-> s.user,
              isAuthenticated |-> Authenticated(s)]

BrowserSessionInit ==
    /\ authStore = Loaded(SignedOut)
    /\ saved = SignedOut
    /\ grants = <<>>
    /\ inactive = {}
    /\ calls = [c \in Calls |-> [at |-> "idle", kind |-> "load", token |-> NoToken,
                                 sent |-> 0, applied |-> 0]]
    /\ refreshes = [x \in Refreshers |-> NoToken]
    /\ signIn = NoAccount
    /\ sessionBounds = [reloads |-> 0, faults |-> 0]

SessionFault ==
    /\ sessionBounds.faults < MaxSessionFaults
    /\ sessionBounds' = [sessionBounds EXCEPT !.faults = @ + 1]

-----------------------------------------------------------------------------
(* The server.                                                             *)

\* get_current_user answers 401; get_current_active_user answers 403, and the
\* browser refreshes nothing.
Unauthorized(token) == token = NoToken \/ grants[token].age = 2
Forbidden(token) == grants[token].sub \in inactive

\* Mutant of Refreshable: a refresh token is good once.
RefreshableOnce(token) ==
    /\ grants[token].refresh /\ grants[token].sub \notin inactive
    /\ ~\E i \in DOMAIN grants : grants[i].from = token

\* The refresh token is not used up: it is good until it expires.
Refreshable(token) == grants[token].refresh /\ grants[token].sub \notin inactive

Grant(account, refresh, from) ==
    Append(grants, [sub |-> account, age |-> 0, refresh |-> refresh, from |-> from])

Expiring(token) == token # NoToken /\ grants[token].age > 0

MayGrant == Len(grants) < MaxGrants
NewToken == Len(grants) + 1

\* Fresh, about to expire, expired: a minute before it does, an access token
\* counts as expired in the browser.  All live equally long; one that nobody
\* holds any more need not age.
Held == ({authStore.token} \cup {calls[c].token : c \in Calls}) \ {NoToken}

TokenAges(i) ==
    /\ i \in Held /\ grants[i].age < 2
    /\ \A j \in Held : j < i => grants[j].age > grants[i].age
    /\ grants' = [grants EXCEPT ![i].age = @ + 1]
    /\ UNCHANGED <<authStore, saved, inactive, calls, refreshes, signIn, sessionBounds>>

\* It lives longer than the access token, and matters to a refresh under way.
RefreshTokenExpires(i) ==
    /\ i \in DOMAIN grants /\ grants[i].refresh
    /\ i \in {refreshes[x] : x \in Refreshers} /\ (i \in Held => grants[i].age = 2)
    /\ grants' = [grants EXCEPT ![i].refresh = FALSE]
    /\ UNCHANGED <<authStore, saved, inactive, calls, refreshes, signIn, sessionBounds>>

Deactivate(account) ==
    /\ account \notin inactive /\ SessionFault
    /\ inactive' = inactive \cup {account}
    /\ UNCHANGED <<authStore, saved, grants, calls, refreshes, signIn>>

-----------------------------------------------------------------------------
(* Signing in and out.                                                     *)

\* The first try of an account with a second factor only asks for the code.
SubmitLogin(account) ==
    /\ ~authStore.isAuthenticated /\ signIn = NoAccount
    /\ signIn' = account
    /\ UNCHANGED <<authStore, saved, grants, inactive, calls, refreshes, sessionBounds>>

AskForCode ==
    /\ signIn \in TwoFactor \ inactive
    /\ signIn' = NoAccount
    /\ UNCHANGED <<authStore, saved, grants, inactive, calls, refreshes, sessionBounds>>

\* What the server answers replaces whatever the store holds by then.
LoginAnswered ==
    /\ signIn # NoAccount
    /\ signIn' = NoAccount
    /\ IF signIn \in inactive
       THEN UNCHANGED <<authStore, saved, grants>>
       ELSE /\ MayGrant
            /\ grants' = Grant(signIn, TRUE, NoToken)
            /\ saved' = [token |-> NewToken, refreshToken |-> NewToken, user |-> signIn]
            /\ authStore' = Loaded(saved')
    /\ UNCHANGED <<inactive, calls, refreshes, sessionBounds>>

Emptied == authStore' = Loaded(SignedOut) /\ saved' = SignedOut

ClickLogout ==
    /\ authStore.isAuthenticated
    /\ Emptied
    /\ UNCHANGED <<grants, inactive, calls, refreshes, signIn, sessionBounds>>

-----------------------------------------------------------------------------
(* refreshAccessToken.                                                     *)

\* With no refresh token it returns at once and signs nobody out.
MayRefresh == authStore.refreshToken # NoToken

\* ProtectedRoute's effect, and then its interval.
TimerTicks ==
    /\ authStore.isAuthenticated /\ Expiring(authStore.token)
    /\ refreshes[Timer] = NoToken /\ MayRefresh
    /\ refreshes' = [refreshes EXCEPT ![Timer] = authStore.refreshToken]
    /\ UNCHANGED <<authStore, saved, grants, inactive, calls, signIn, sessionBounds>>

Over(call) == [call EXCEPT !.at = "over", !.token = NoToken, !.kind = "load"]

\* A request that was denied is sent again, with the token of now.
SentWith(call, token) == [call EXCEPT !.at = "sent", !.token = token, !.sent = @ + 1]

Refreshed(x) ==
    /\ refreshes[x] # NoToken /\ Refreshable(refreshes[x]) /\ MayGrant
    /\ grants' = Grant(grants[refreshes[x]].sub, FALSE, refreshes[x])
    /\ authStore' = [authStore EXCEPT !.token = NewToken]
    /\ saved' = [saved EXCEPT !.token = NewToken]
    /\ calls' = IF x = Timer THEN calls
                ELSE [calls EXCEPT ![x] = SentWith(@, NewToken)]
    /\ refreshes' = [refreshes EXCEPT ![x] = NoToken]
    /\ UNCHANGED <<inactive, signIn, sessionBounds>>

\* Refused or unanswered: whoever is signed in by now is signed out.
RefreshFails(x) ==
    /\ refreshes[x] # NoToken
    /\ \/ ~Refreshable(refreshes[x]) /\ UNCHANGED sessionBounds
       \/ SessionFault
    /\ Emptied
    /\ calls' = IF x = Timer THEN calls ELSE [calls EXCEPT ![x] = Over(@)]
    /\ refreshes' = [refreshes EXCEPT ![x] = NoToken]
    /\ UNCHANGED <<grants, inactive, signIn>>

-----------------------------------------------------------------------------
(* Requests.                                                               *)

Call(c, kind) ==
    /\ calls[c].at = "idle" /\ authStore.isAuthenticated
    /\ calls' = [calls EXCEPT ![c] = SentWith([@ EXCEPT !.kind = kind], authStore.token)]
    /\ UNCHANGED <<authStore, saved, grants, inactive, refreshes, signIn, sessionBounds>>

CarriedOut(call) ==
    [call EXCEPT !.at = "served", !.applied = IF @ = 2 THEN @ ELSE @ + 1]

\* The server denies it or carries it out; what it changes is committed.
Serve(c) ==
    /\ calls[c].at = "sent"
    /\ calls' = [calls EXCEPT ![c] =
                    CASE Unauthorized(@.token) -> [@ EXCEPT !.at = "denied"]
                      [] Forbidden(@.token) -> Over(@)
                      [] OTHER -> CarriedOut(@)]
    /\ UNCHANGED <<authStore, saved, grants, inactive, refreshes, signIn, sessionBounds>>

\* Only the first denial of a request leads to a refresh.
Retries(call) == call.at = "denied" /\ call.sent = 1 /\ call.kind # "upload"

RefreshFor(c) ==
    /\ Retries(calls[c]) /\ MayRefresh
    /\ calls' = [calls EXCEPT ![c].at = "refreshing"]
    /\ refreshes' = [refreshes EXCEPT ![c] = authStore.refreshToken]
    /\ UNCHANGED <<authStore, saved, grants, inactive, signIn, sessionBounds>>

GiveUp(c) ==
    /\ calls[c].at = "denied" /\ ~(Retries(calls[c]) /\ MayRefresh)
    /\ calls' = [calls EXCEPT ![c] = Over(@)]
    /\ UNCHANGED <<authStore, saved, grants, inactive, refreshes, signIn, sessionBounds>>

\* updateUser keeps the answered user beside the tokens of now.
Answered(c) ==
    /\ calls[c].at = "served"
    /\ calls' = [calls EXCEPT ![c] = Over(@)]
    /\ IF calls[c].kind = "rename"
       THEN /\ authStore' = [authStore EXCEPT !.user = grants[calls[c].token].sub]
            /\ saved' = [token |-> authStore.token, refreshToken |-> authStore.refreshToken,
                         user |-> authStore'.user]
       ELSE UNCHANGED <<authStore, saved>>
    /\ UNCHANGED <<grants, inactive, refreshes, signIn, sessionBounds>>

\* The answer is lost, whether the request was carried out or not.
AnswerLost(c) ==
    /\ calls[c].at \in {"sent", "served"} /\ SessionFault
    /\ calls' = [calls EXCEPT ![c] = Over(@)]
    /\ UNCHANGED <<authStore, saved, grants, inactive, refreshes, signIn>>

\* The page is loaded anew, by the user or for the login page: what was in
\* flight is dropped.
Reload ==
    /\ sessionBounds.reloads < MaxReloads
    /\ authStore' = Loaded(saved)
    /\ calls' = [c \in Calls |-> IF calls[c].at \in Underway
                                 THEN Over(calls[c]) ELSE calls[c]]
    /\ refreshes' = [x \in Refreshers |-> NoToken]
    /\ signIn' = NoAccount
    /\ sessionBounds' = [sessionBounds EXCEPT !.reloads = @ + 1]
    /\ UNCHANGED <<saved, grants, inactive>>

-----------------------------------------------------------------------------
BrowserSessionNext ==
    \/ AskForCode \/ LoginAnswered \/ ClickLogout \/ TimerTicks \/ Reload
    \/ \E account \in Accounts : SubmitLogin(account) \/ Deactivate(account)
    \/ \E i \in 1..MaxGrants : TokenAges(i) \/ RefreshTokenExpires(i)
    \/ \E x \in Refreshers : Refreshed(x) \/ RefreshFails(x)
    \/ \E c \in Calls :
        \/ \E kind \in Kinds : Call(c, kind)
        \/ Serve(c) \/ RefreshFor(c) \/ GiveUp(c) \/ Answered(c) \/ AnswerLost(c)

BrowserSessionSpec == BrowserSessionInit /\ [][BrowserSessionNext]_browserVars

-----------------------------------------------------------------------------
(* Properties.                                                             *)

\* A request is sent at most twice and carried out at most once.
CarriedOutOnce == \A c \in Calls : calls[c].sent <= 2 /\ calls[c].applied <= 1

StoreIsComplete == authStore.isAuthenticated => Authenticated(authStore)

\* Only the user signs out, or a refresh whose own token had expired or belongs
\* to a deactivated account, or one that was not answered.
SignedOutForCause ==
    authStore.isAuthenticated /\ ~authStore'.isAuthenticated =>
        \/ refreshes' = refreshes \/ sessionBounds' # sessionBounds
        \/ \E x \in Refreshers :
            /\ refreshes[x] # NoToken /\ refreshes'[x] = NoToken
            /\ ~grants[refreshes[x]].refresh \/ grants[refreshes[x]].sub \in inactive

\* Requests that are denied at the same time each refresh the token and are
\* sent again: none of them is carried out twice, none ends the session of the
\* others while the refresh token is good, and the store is never half signed in.
SessionIsKept ==
    /\ [](CarriedOutOnce /\ StoreIsComplete)
    /\ [][SignedOutForCause]_browserVars
=============================================================================
