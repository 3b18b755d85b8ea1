-------------------------------- MODULE Accounts --------------------------------
(***************************************************************************)
(* Accounts and what belongs to one: two-factor sign-in and preferences    *)
(* (api/auth.py), what superadmins do to other users (api/admin.py),       *)
(* abbreviations (api/abbreviations.py) and the default workspace          *)
(* (api/workspaces.py).                                                    *)
(*                                                                         *)
(* A request reads the rows it is about when it starts and writes, when it *)
(* commits, the columns it gave a value other than the one it read.  A     *)
(* request that is refused by what it reads changes nothing and is left    *)
(* out.  Requests of one topic may overlap: what one has read, another     *)
(* writes before it commits.                                               *)
(***************************************************************************)
EXTENDS Naturals, FiniteSets

CONSTANTS
    AccountUsers,
    FirstSuperadmins,    \* superadmins at the start
    AccountRequests,     \* each made at most once
    Homes,               \* personal workspaces
    HomeOwner,           \* [Homes -> AccountUsers]
    FirstDefaults,       \* defaults at the start
    Abbreviations,
    NoSecret,
    Nil

ASSUME AccountsAssumption ==
    /\ AccountUsers # {}
    /\ FirstSuperadmins \subseteq AccountUsers
    /\ HomeOwner \in [Homes -> AccountUsers]
    /\ FirstDefaults \subseteq Homes
    /\ \A g, h \in FirstDefaults : HomeOwner[g] = HomeOwner[h] => g = h
    /\ NoSecret \notin AccountRequests

VARIABLES
    accounts,        \* [AccountUsers -> the row of users]
    defaults,        \* workspaces with is_default
    shortForms,      \* [Abbreviations -> the row of abbreviations]
    calls,           \* [AccountRequests -> what the request does, and read]
    proven,          \* history: secrets whose code a user gave
    promoted,        \* history: users made superadmins
    steppedDown,     \* history: superadmins who deactivated their own account
    stored,          \* history: [AccountUsers -> preferences that were saved]
    activated,       \* history: abbreviations a superadmin made active
    clashed          \* history: <<user, topic>> where a request wrote after
                     \* another had written what it read

accountVars == <<accounts, defaults, shortForms, calls, proven, promoted,
                 steppedDown, stored, activated, clashed>>

\* A secret and a preference are named by the request that brought them.
AccountRows ==
    [ there    : BOOLEAN,
      active   : BOOLEAN,                           \* is_active
      super    : BOOLEAN,                           \* is_superadmin
      secret   : AccountRequests \cup {NoSecret},   \* totp_secret
      twofa    : BOOLEAN,                           \* totp_enabled
      prefs    : SUBSET AccountRequests,            \* settings
      password : {"own", "reset"} ]                 \* who chose it

ShortFormRows ==
    [at : {"unknown", "there", "gone"}, user : AccountUsers, active : BOOLEAN]

Topics == {"twofa", "admin", "prefs", "default"}

CallStates ==
    [ at     : {"idle", "setup", "enable", "disable", "prefs", "update", "delete", "reset",
                "default", "suggest", "edit", "over"},
      topic  : Topics \cup {"none"},
      actor  : AccountUsers,
      user   : AccountUsers,              \* whose row it is about
      saw    : AccountRows,               \* that row as read
      active : BOOLEAN,                   \* is_active to write, of a user or abbreviation
      super  : BOOLEAN,                   \* is_superadmin to write
      item   : Homes \cup Abbreviations \cup {Nil},
      others : SUBSET Homes,              \* defaults read
      was    : BOOLEAN,                   \* the abbreviation's is_active as read
      vouch  : BOOLEAN,                   \* the actor is a superadmin, as read
      stale  : BOOLEAN ]                  \* history: written since, on its topic

AccountsTypeOK ==
    /\ accounts \in [AccountUsers -> AccountRows]
    /\ defaults \in SUBSET Homes
    /\ shortForms \in [Abbreviations -> ShortFormRows]
    /\ calls \in [AccountRequests -> CallStates]
    /\ proven \in SUBSET AccountRequests
    /\ promoted \in SUBSET AccountUsers
    /\ steppedDown \in SUBSET AccountUsers
    /\ stored \in [AccountUsers -> SUBSET AccountRequests]
    /\ activated \in SUBSET Abbreviations
    /\ clashed \in SUBSET (AccountUsers \X Topics)

FreshAccount(u) ==
    [there |-> TRUE, active |-> TRUE, super |-> u \in FirstSuperadmins,
     secret |-> NoSecret, twofa |-> FALSE, prefs |-> {}, password |-> "own"]

AnyUser == CHOOSE u \in AccountUsers : TRUE

IdleCall ==
    [at |-> "idle", topic |-> "none", actor |-> AnyUser, user |-> AnyUser,
     saw |-> FreshAccount(AnyUser), active |-> FALSE, super |-> FALSE, item |-> Nil,
     others |-> {}, was |-> FALSE, vouch |-> FALSE, stale |-> FALSE]

AccountsInit ==
    /\ accounts = [u \in AccountUsers |-> FreshAccount(u)]
    /\ defaults = FirstDefaults
    /\ shortForms = [a \in Abbreviations |->
                        [at |-> "unknown", user |-> AnyUser, active |-> FALSE]]
    /\ calls = [q \in AccountRequests |-> IdleCall]
    /\ proven = {}
    /\ promoted = {}
    /\ steppedDown = {}
    /\ stored = [u \in AccountUsers |-> {}]
    /\ activated = {}
    /\ clashed = {}

\* get_current_active_user, and require_superadmin.
MayAct(u) == accounts[u].there /\ accounts[u].active
MayGovern(u) == MayAct(u) /\ accounts[u].super

\* The request has read what it needs.
Calls(q, at, topic, actor, user) ==
    [IdleCall EXCEPT !.at = at, !.topic = topic, !.actor = actor, !.user = user,
                     !.saw = accounts[user], !.vouch = accounts[actor].super]

Called(q, call) ==
    /\ calls[q].at = "idle"
    /\ calls' = [calls EXCEPT ![q] = call]
    /\ UNCHANGED <<accounts, defaults, shortForms, promoted, steppedDown, stored,
                   activated, clashed>>

\* The request is over: others that read on its topic are stale.
Ends(q) ==
    LET user == calls[q].user
        topic == calls[q].topic
    IN  /\ calls' = [r \in AccountRequests |->
              IF r = q THEN [IdleCall EXCEPT !.at = "over"]
              ELSE [calls[r] EXCEPT !.stale = @ \/ (calls[r].topic = topic
                                                    /\ calls[r].user = user)]]
        /\ clashed' = IF calls[q].stale /\ topic # "none"
                         THEN clashed \cup {<<user, topic>>} ELSE clashed

\* The row of the user a request is about is written, if it is there still.
WritesRow(q, at, row) ==
    /\ calls[q].at = at
    /\ accounts[calls[q].user].there
    /\ accounts' = [accounts EXCEPT ![calls[q].user] = row]
    /\ Ends(q)

Row(q) == accounts[calls[q].user]

\* A commit fails, on a row that is gone, a constraint, or the connection.
CallFails(q) ==
    /\ calls[q].at \notin {"idle", "over"}
    /\ calls' = [calls EXCEPT ![q] = [IdleCall EXCEPT !.at = "over"]]
    /\ UNCHANGED <<accounts, defaults, shortForms, proven, promoted, steppedDown, stored,
                   activated, clashed>>

-----------------------------------------------------------------------------
(* The user's own account.                                                 *)

\* two_fa_setup.
SetupReads(q, u) ==
    /\ MayAct(u)
    /\ ~accounts[u].twofa
    /\ Called(q, Calls(q, "setup", "twofa", u, u))
    /\ UNCHANGED proven

\* A fresh secret, pending.
SetupCommits(q) ==
    /\ WritesRow(q, "setup", [Row(q) EXCEPT !.secret = q])
    /\ UNCHANGED <<defaults, shortForms, proven, promoted, steppedDown, stored, activated>>

\* two_fa_enable, with a code of the secret that it reads.
EnableReads(q, u) ==
    /\ MayAct(u)
    /\ ~accounts[u].twofa
    /\ accounts[u].secret # NoSecret
    /\ proven' = proven \cup {accounts[u].secret}
    /\ Called(q, Calls(q, "enable", "twofa", u, u))

EnableCommits(q) ==
    /\ WritesRow(q, "enable", [Row(q) EXCEPT !.twofa = TRUE])
    /\ UNCHANGED <<defaults, shortForms, proven, promoted, steppedDown, stored, activated>>

\* two_fa_disable: with a code or the password, or nothing is enabled and a
\* pending secret is cleared.
DisableReads(q, u) ==
    /\ MayAct(u)
    /\ accounts[u].twofa \/ accounts[u].secret # NoSecret
    /\ Called(q, Calls(q, "disable", "twofa", u, u))
    /\ UNCHANGED proven

\* Mutant: the secret is cleared and the flag is left.
SecretOnly(row, saw) == [row EXCEPT !.secret = NoSecret]

Disabled(row, saw) ==
    [row EXCEPT !.twofa = @ /\ ~saw.twofa,
                !.secret = IF saw.secret = NoSecret THEN @ ELSE NoSecret]

DisableCommits(q) ==
    /\ WritesRow(q, "disable", Disabled(Row(q), calls[q].saw))
    /\ UNCHANGED <<defaults, shortForms, proven, promoted, steppedDown, stored, activated>>

\* update_me, with settings.
PrefsRead(q, u) ==
    /\ MayAct(u)
    /\ Called(q, Calls(q, "prefs", "prefs", u, u))
    /\ UNCHANGED proven

\* They are merged into those it read.
PrefsCommit(q) ==
    /\ WritesRow(q, "prefs", [Row(q) EXCEPT !.prefs = calls[q].saw.prefs \cup {q}])
    /\ stored' = [stored EXCEPT ![calls[q].user] = @ \cup {q}]
    /\ UNCHANGED <<defaults, shortForms, proven, promoted, steppedDown, activated>>

-----------------------------------------------------------------------------
(* What superadmins do.                                                    *)

\* _guard_peer_superadmin.
PeersGuarded(actor, user) == accounts[user].super => user = actor

\* update_user: neither takes a superadmin their own rights.
UpdateReads(q, actor, user, active, super) ==
    /\ MayGovern(actor)
    /\ accounts[user].there
    /\ PeersGuarded(actor, user)
    /\ user = actor => super
    /\ Called(q, [Calls(q, "update", "admin", actor, user)
                     EXCEPT !.active = active, !.super = super])
    /\ UNCHANGED proven

UserUpdated(q) ==
    LET call == calls[q]
    IN  [Row(q) EXCEPT !.active = IF call.active = call.saw.active THEN @ ELSE call.active,
                       !.super = IF call.super = call.saw.super THEN @ ELSE call.super]

UpdateCommits(q) ==
    LET call == calls[q]
    IN  /\ WritesRow(q, "update", UserUpdated(q))
        /\ promoted' = IF call.super /\ ~call.saw.super
                       THEN promoted \cup {call.user} ELSE promoted
        /\ steppedDown' = IF call.user = call.actor /\ ~call.active
                          THEN steppedDown \cup {call.user} ELSE steppedDown
        /\ UNCHANGED <<defaults, shortForms, proven, stored, activated>>

\* delete_user.
DeleteReads(q, actor, user) ==
    /\ MayGovern(actor)
    /\ user # actor
    /\ accounts[user].there
    /\ PeersGuarded(actor, user)
    /\ Called(q, Calls(q, "delete", "admin", actor, user))
    /\ UNCHANGED proven

\* The user's workspaces go with them; abbreviations forbid it.
DeleteCommits(q) ==
    /\ \A a \in Abbreviations :
          ~(shortForms[a].at = "there" /\ shortForms[a].user = calls[q].user)
    /\ WritesRow(q, "delete", [Row(q) EXCEPT !.there = FALSE])
    /\ defaults' = {h \in defaults : HomeOwner[h] # calls[q].user}
    /\ UNCHANGED <<shortForms, proven, promoted, steppedDown, stored, activated>>

\* reset_user_password.
ResetReads(q, actor, user) ==
    /\ MayGovern(actor)
    /\ accounts[user].there
    /\ PeersGuarded(actor, user)
    /\ Called(q, Calls(q, "reset", "admin", actor, user))
    /\ UNCHANGED proven

ResetCommits(q) ==
    /\ WritesRow(q, "reset", [Row(q) EXCEPT !.password =
                              IF calls[q].user = calls[q].actor THEN "own" ELSE "reset"])
    /\ UNCHANGED <<defaults, shortForms, proven, promoted, steppedDown, stored, activated>>

-----------------------------------------------------------------------------
(* Workspaces and abbreviations.                                           *)

\* set_default_workspace, by the owner, reads the defaults there are.
DefaultReads(q, h) ==
    /\ MayAct(HomeOwner[h])
    /\ Called(q, [Calls(q, "default", "default", HomeOwner[h], HomeOwner[h])
                     EXCEPT !.item = h,
                            !.others = {g \in defaults : HomeOwner[g] = HomeOwner[h]}])
    /\ UNCHANGED proven

\* It unsets those and sets its own, which is not written if it was set.
DefaultCommits(q) ==
    LET h == calls[q].item
        others == calls[q].others
    IN  /\ calls[q].at = "default"
        /\ Row(q).there
        /\ defaults' = IF h \in others THEN defaults \ (others \ {h})
                       ELSE (defaults \ others) \cup {h}
        /\ Ends(q)
        /\ UNCHANGED <<accounts, shortForms, proven, promoted, steppedDown, stored, activated>>

\* create_abbreviation.
SuggestReads(q, u, a) ==
    /\ MayAct(u)
    /\ shortForms[a].at = "unknown"
    /\ Called(q, [Calls(q, "suggest", "none", u, u) EXCEPT !.item = a])
    /\ UNCHANGED proven

\* A superadmin's is active at once.  Its user must be there.
SuggestCommits(q) ==
    LET a == calls[q].item
    IN  /\ calls[q].at = "suggest"
        /\ Row(q).there
        /\ shortForms[a].at = "unknown"
        /\ shortForms' = [shortForms EXCEPT ![a] =
                             [at |-> "there", user |-> calls[q].user, active |-> calls[q].vouch]]
        /\ activated' = IF calls[q].vouch THEN activated \cup {a} ELSE activated
        /\ Ends(q)
        /\ UNCHANGED <<accounts, defaults, proven, promoted, steppedDown, stored>>

\* update_abbreviation, by its user or a superadmin; only the latter gives
\* is_active.
EditReads(q, u, a, active) ==
    /\ MayAct(u)
    /\ shortForms[a].at = "there"
    /\ accounts[u].super \/ (shortForms[a].user = u /\ active = shortForms[a].active)
    /\ Called(q, [Calls(q, "edit", "none", u, u)
                     EXCEPT !.item = a, !.active = active, !.was = shortForms[a].active])
    /\ UNCHANGED proven

EditCommits(q) ==
    LET call == calls[q]
    IN  /\ call.at = "edit"
        /\ shortForms[call.item].at = "there"
        /\ shortForms' = [shortForms EXCEPT ![call.item].active =
                             IF call.active = call.was THEN @ ELSE call.active]
        /\ activated' = IF call.active /\ ~call.was
                        THEN activated \cup {call.item} ELSE activated
        /\ Ends(q)
        /\ UNCHANGED <<accounts, defaults, proven, promoted, steppedDown, stored>>

\* delete_abbreviation.
DeleteShortForm(u, a) ==
    /\ MayAct(u)
    /\ shortForms[a].at = "there"
    /\ accounts[u].super \/ shortForms[a].user = u
    /\ shortForms' = [shortForms EXCEPT ![a].at = "gone"]
    /\ UNCHANGED <<accounts, defaults, calls, proven, promoted, steppedDown, stored,
                   activated, clashed>>

AccountsNext ==
    \/ \E q \in AccountRequests :
          \/ \E u \in AccountUsers :
                \/ SetupReads(q, u)
                \/ EnableReads(q, u)
                \/ DisableReads(q, u)
                \/ PrefsRead(q, u)
                \/ \E v \in AccountUsers :
                      \/ \E active, super \in BOOLEAN : UpdateReads(q, u, v, active, super)
                      \/ DeleteReads(q, u, v)
                      \/ ResetReads(q, u, v)
                \/ \E a \in Abbreviations :
                      \/ SuggestReads(q, u, a)
                      \/ \E active \in BOOLEAN : EditReads(q, u, a, active)
          \/ \E h \in Homes : DefaultReads(q, h)
          \/ SetupCommits(q)
          \/ EnableCommits(q)
          \/ DisableCommits(q)
          \/ PrefsCommit(q)
          \/ UpdateCommits(q)
          \/ DeleteCommits(q)
          \/ ResetCommits(q)
          \/ DefaultCommits(q)
          \/ SuggestCommits(q)
          \/ EditCommits(q)
          \/ CallFails(q)
    \/ \E u \in AccountUsers, a \in Abbreviations : DeleteShortForm(u, a)

AccountsSpec == AccountsInit /\ [][AccountsNext]_accountVars

-----------------------------------------------------------------------------
(* Properties.                                                             *)

\* login: with two factors, a code of the secret is needed that the user's
\* authenticator has, which one that gave a code has.
CanSignIn(row) ==
    /\ row.there
    /\ row.active
    /\ row.twofa => row.secret # NoSecret /\ row.secret \in proven

\* Through any interleaving of requests: an active account can sign in, which
\* a second factor nobody proved would prevent; who was made a superadmin stays
\* one, with the account; no preference that was saved is lost; and nobody has
\* two default workspaces.  Each holds but where requests on that topic of one
\* account overlapped.  Superadmins from the start keep account, rights and
\* password from all others even then, and are inactive only by their own
\* request.  And an abbreviation is active only if a superadmin made it so, and
\* its user is there.
AccountsAreKept ==
    /\ \A u \in AccountUsers :
          LET row == accounts[u]
          IN  /\ row.there /\ row.active /\ <<u, "twofa">> \notin clashed => CanSignIn(row)
              /\ u \in promoted /\ <<u, "admin">> \notin clashed => row.there /\ row.super
              /\ u \in FirstSuperadmins =>
                    /\ row.there /\ row.super /\ row.password = "own"
                    /\ row.active \/ u \in steppedDown
              /\ row.there /\ <<u, "prefs">> \notin clashed => row.prefs = stored[u]
              /\ <<u, "default">> \notin clashed =>
                    \A g, h \in defaults : HomeOwner[g] = u /\ HomeOwner[h] = u => g = h
    /\ \A a \in Abbreviations : shortForms[a].at = "there" =>
          /\ shortForms[a].active => a \in activated
          /\ accounts[shortForms[a].user].there
=============================================================================
