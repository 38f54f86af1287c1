--------------------------- MODULE LoginSessions ---------------------------
(***************************************************************************)
(* The sessions of one account: its rows of users and refresh_tokens, the  *)
(* /auth handlers that change them, and the web clients that hold tokens   *)
(* (request, refreshTokens and logout of frontend/assets/app.js).          *)
(*                                                                         *)
(* A handler runs without an await, so it is one step of the server; each  *)
(* of its statements commits by itself, so one that raises ends the        *)
(* handler with the statements before it done.  A client waits for every   *)
(* answer: its calls overlap with each other and with those of other       *)
(* clients.                                                                *)
(*                                                                         *)
(* An access token is issued along with a refresh token and kept along     *)
(* with it: one number, the id of the row, stands for the pair.  A page    *)
(* whose tokens are gone is loaded anew before it shows the login form.    *)
(***************************************************************************)
EXTENDS Naturals, Sequences, FiniteSets

CONSTANTS
  Devices,           \* browsers, each with a localStorage
  Calls,             \* a page's calls that can be under way together
  PageOf,            \* whose page a call is of
  MaxFailures,       \* max_login_failures
  MaxLogins, MaxExpired, MaxPasswords,   \* bounds
  MaxFaults,         \* bound on lost answers and failing statements together
  MayBan             \* does an administrator ban the account?

ASSUME PagesAssumption == PageOf \in [Calls -> Devices]

ASSUME BoundsAreNat ==
  /\ MaxFailures \in Nat \ {0}
  /\ MaxLogins \in Nat /\ MaxExpired \in Nat
  /\ MayBan \in BOOLEAN /\ MaxPasswords \in Nat
  /\ MaxFaults \in Nat

VARIABLES
  \* the server
  tokens,      \* refresh_tokens: what each row was issued for, revoked or not
  expired,     \* the rows whose access token is too old
  lapsed,      \* the rows whose refresh token is too old
  banned,      \* is users.status banned?
  failures,    \* users.login_failed_count
  locked,      \* is users.locked_until to come?
  password,    \* how often the password was changed
  \* the clients
  store,       \* the tokens in localStorage, 0 for none
  call,        \* the calls of each page
  leaving,     \* has the page asked to log out?
  \* history and bounds
  logins,      \* how many logins there were
  losses, dbErrors

server == <<tokens, expired, lapsed, banned, failures, locked, password>>
client == <<store, call, leaving>>
history == <<logins, losses, dbErrors>>
vars == <<server, client, history>>

-----------------------------------------------------------------------------
Rows == DOMAIN tokens
Token == [login : Nat, password : Nat, live : BOOLEAN]
NoCall == [at |-> "idle", token |-> 0, retry |-> TRUE]
Points == {"idle", "asked", "denied", "refreshing", "granted", "refused"}

TypeOK ==
  /\ tokens \in Seq(Token)
  /\ expired \subseteq Rows /\ lapsed \subseteq Rows
  /\ banned \in BOOLEAN
  /\ failures \in 0 .. MaxFailures - 1
  /\ locked \in BOOLEAN
  /\ password \in 0 .. MaxPasswords
  /\ store \in [Devices -> {0} \cup Rows]
  /\ call \in [Calls ->
                 [at : Points, token : {0} \cup Rows, retry : BOOLEAN]]
  /\ leaving \in [Devices -> BOOLEAN]
  /\ logins \in 0 .. MaxLogins
  /\ losses \in 0 .. MaxFaults
  /\ dbErrors \in 0 .. MaxFaults

Init ==
  /\ tokens = <<>> /\ expired = {} /\ lapsed = {}
  /\ banned = FALSE /\ failures = 0 /\ locked = FALSE /\ password = 0
  /\ store = [d \in Devices |-> 0]
  /\ call = [c \in Calls |-> NoCall]
  /\ leaving = [d \in Devices |-> FALSE]
  /\ logins = 0 /\ losses = 0 /\ dbErrors = 0

-----------------------------------------------------------------------------
(* Statements.                                                             *)

Issue(rows, login) ==
  Append(rows, [login |-> login, password |-> password, live |-> TRUE])
Revoke(rows, i) == [rows EXCEPT ![i].live = FALSE]
RevokeAll(rows) == [i \in DOMAIN rows |-> [rows[i] EXCEPT !.live = FALSE]]

(* A statement of the handler raises. *)
Raises == losses + dbErrors < MaxFaults /\ dbErrors' = dbErrors + 1
Completes == UNCHANGED dbErrors

Usable(i) == i \notin expired

(* Loading a page anew ends its calls. *)
Reloaded(d) == [c \in Calls |-> IF PageOf[c] = d THEN NoCall ELSE call[c]]

-----------------------------------------------------------------------------
(* POST /auth/login.  The page has no other call meanwhile, so this one    *)
(* and its answer are one step.                                            *)

Login(d) ==
  /\ store[d] = 0 /\ ~leaving[d]
  /\ ~locked /\ ~banned /\ logins < MaxLogins
  /\ failures' = 0
  /\ \/ /\ Completes
        /\ logins' = logins + 1
        /\ tokens' = Issue(tokens, logins + 1)
        /\ store' = [store EXCEPT ![d] = Len(tokens) + 1]
     \/ Raises /\ UNCHANGED <<logins, tokens, store>>
  /\ call' = Reloaded(d)
  /\ UNCHANGED <<expired, lapsed, banned, locked, password, leaving, losses>>

(* Mutant: the account is locked, but who is logged in stays so. *)
WrongPasswordOnlyLocks ==
  /\ ~locked
  /\ failures' = IF failures + 1 >= MaxFailures THEN 0 ELSE failures + 1
  /\ locked' = (failures + 1 >= MaxFailures)
  /\ UNCHANGED <<tokens, expired, lapsed, banned, password, client, history>>

(* Mutant: the count goes on from the limit. *)
WrongPasswordCountsOn ==
  /\ ~locked
  /\ failures' = failures + 1
  /\ locked' = (failures + 1 >= MaxFailures)
  /\ tokens' = IF locked' THEN RevokeAll(tokens) ELSE tokens
  /\ UNCHANGED <<expired, lapsed, banned, password, client, history>>

(* record_login_failure: at the limit, all sessions end and the account is *)
(* locked for a while.                                                     *)
WrongPassword ==
  /\ ~locked
  /\ IF failures + 1 < MaxFailures
     THEN Completes /\ failures' = failures + 1 /\ UNCHANGED <<tokens, locked>>
     ELSE /\ tokens' = RevokeAll(tokens)
          /\ \/ Completes /\ failures' = 0 /\ locked' = TRUE
             \/ Raises /\ UNCHANGED <<failures, locked>>
  /\ UNCHANGED <<expired, lapsed, banned, password, client, logins, losses>>

LockEnds ==
  /\ locked
  /\ locked' = FALSE
  /\ UNCHANGED <<tokens, expired, lapsed, banned, failures, password, client, history>>

-----------------------------------------------------------------------------
(* request: a call with the stored access token, tried a second time after *)
(* refreshTokens if the answer is 401.                                     *)

At(c, point) == call[c].at = point
Moves(c, point, token, retry) ==
  call' = [call EXCEPT ![c] = [at |-> point, token |-> token, retry |-> retry]]
Ends(c) == call' = [call EXCEPT ![c] = NoCall]

Ask(c) ==
  /\ At(c, "idle") /\ store[PageOf[c]] # 0 /\ ~leaving[PageOf[c]]
  /\ Moves(c, "asked", store[PageOf[c]], TRUE)
  /\ UNCHANGED <<server, store, leaving, history>>

(* get_current_user: 401 for a token that is too old.  Any other answer    *)
(* ends the call, the 403 of a locked or banned account too.               *)
Serve(c) ==
  /\ At(c, "asked")
  /\ IF Usable(call[c].token) THEN Ends(c) ELSE Moves(c, "denied", 0, call[c].retry)
  /\ UNCHANGED <<server, store, leaving, history>>

(* A first 401 sends the stored refresh token; without one, or after a     *)
(* second 401, the client gives its tokens up.                             *)
Denied(c) ==
  /\ At(c, "denied")
  /\ IF call[c].retry /\ store[PageOf[c]] # 0
     THEN Moves(c, "refreshing", store[PageOf[c]], FALSE) /\ UNCHANGED store
     ELSE Ends(c) /\ store' = [store EXCEPT ![PageOf[c]] = 0]
  /\ UNCHANGED <<server, leaving, history>>

(* Mutant: the new token is issued before the old one is revoked. *)
RefreshIssuesFirst(c) ==
  LET i == call[c].token IN
  /\ At(c, "refreshing")
  /\ tokens[i].live /\ i \notin lapsed /\ ~banned
  /\ \/ /\ Completes
        /\ tokens' = Revoke(Issue(tokens, tokens[i].login), i)
        /\ Moves(c, "granted", Len(tokens) + 1, FALSE)
     \/ Raises /\ tokens' = Issue(tokens, tokens[i].login) /\ Moves(c, "refused", 0, FALSE)
  /\ UNCHANGED <<expired, lapsed, banned, failures, locked, password, store, leaving,
                 logins, losses>>

(* Mutant: a row is looked up whether revoked or not. *)
RefreshRevoked(c) ==
  LET i == call[c].token IN
  /\ At(c, "refreshing")
  /\ i \notin lapsed /\ ~banned
  /\ Completes
  /\ tokens' = Issue(Revoke(tokens, i), tokens[i].login)
  /\ Moves(c, "granted", Len(tokens) + 1, FALSE)
  /\ UNCHANGED <<expired, lapsed, banned, failures, locked, password, store, leaving,
                 logins, losses>>

(* POST /auth/refresh: the row is revoked, then another one inserted.      *)
Refresh(c) ==
  LET i == call[c].token IN
  /\ At(c, "refreshing")
  /\ tokens[i].live /\ i \notin lapsed /\ ~banned
  /\ \/ /\ Completes
        /\ tokens' = Issue(Revoke(tokens, i), tokens[i].login)
        /\ Moves(c, "granted", Len(tokens) + 1, FALSE)
     \/ Raises /\ tokens' = Revoke(tokens, i) /\ Moves(c, "refused", 0, FALSE)
  /\ UNCHANGED <<expired, lapsed, banned, failures, locked, password, store, leaving,
                 logins, losses>>

RefuseRefresh(c) ==
  LET i == call[c].token IN
  /\ At(c, "refreshing")
  /\ ~tokens[i].live \/ i \in lapsed \/ banned
  /\ Moves(c, "refused", 0, FALSE)
  /\ UNCHANGED <<server, store, leaving, history>>

Granted(c) ==
  /\ At(c, "granted")
  /\ store' = [store EXCEPT ![PageOf[c]] = call[c].token]
  /\ Moves(c, "asked", call[c].token, FALSE)
  /\ UNCHANGED <<server, leaving, history>>

(* Mutant: a refused refresh is tried again. *)
RefusedRetries(c) ==
  /\ At(c, "refused")
  /\ Moves(c, "denied", 0, TRUE)
  /\ UNCHANGED <<server, store, leaving, history>>

Refused(c) ==
  /\ At(c, "refused")
  /\ store' = [store EXCEPT ![PageOf[c]] = 0]
  /\ Ends(c)
  /\ UNCHANGED <<server, leaving, history>>

(* The answer to a call gets lost: fetch raises, the tokens stay.          *)
Lose(c) ==
  /\ losses + dbErrors < MaxFaults /\ losses' = losses + 1
  /\ ~At(c, "idle")
  /\ Ends(c)
  /\ UNCHANGED <<server, store, leaving, logins, dbErrors>>

-----------------------------------------------------------------------------
(* logout: the stored refresh token is revoked; then the tokens are thrown *)
(* away and the page is loaded anew, which ends its calls.                 *)

LogoutServe(d) ==
  /\ store[d] # 0 /\ ~leaving[d]
  /\ tokens' = Revoke(tokens, store[d])
  /\ leaving' = [leaving EXCEPT ![d] = TRUE]
  /\ UNCHANGED <<expired, lapsed, banned, failures, locked, password, store, call,
                 history>>

LogoutEnds(d) ==
  /\ leaving[d]
  /\ leaving' = [leaving EXCEPT ![d] = FALSE]
  /\ store' = [store EXCEPT ![d] = 0]
  /\ call' = Reloaded(d)
  /\ UNCHANGED <<server, history>>

-----------------------------------------------------------------------------
(* Mutant: the sessions that are open stay so. *)
NewPasswordKeepsSessions ==
  /\ password < MaxPasswords
  /\ password' = password + 1
  /\ UNCHANGED <<tokens, expired, lapsed, banned, failures, locked, client, history>>

(* change_password (with a token) and reset_password (with a code): the    *)
(* password, then all refresh tokens.                                      *)
NewPassword ==
  /\ password < MaxPasswords
  /\ password' = password + 1
  /\ \/ Completes /\ tokens' = RevokeAll(tokens)
     \/ Raises /\ UNCHANGED tokens
  /\ UNCHANGED <<expired, lapsed, banned, failures, locked, client, logins, losses>>

(* admin_set_user_status. *)
SetStatus(ban) ==
  /\ MayBan
  /\ banned # ban
  /\ banned' = ban
  /\ UNCHANGED <<tokens, expired, lapsed, failures, locked, password, client, history>>

(* Time passes. *)
AccessExpires(i) ==
  /\ i \notin expired /\ Cardinality(expired) < MaxExpired
  /\ expired' = expired \cup {i}
  /\ UNCHANGED <<tokens, lapsed, banned, failures, locked, password, client, history>>

RefreshLapses(i) ==
  /\ i \in expired \ lapsed
  /\ lapsed' = lapsed \cup {i}
  /\ UNCHANGED <<tokens, expired, banned, failures, locked, password, client, history>>

-----------------------------------------------------------------------------
CallStep(c) ==
  \/ Serve(c) \/ Denied(c)
  \/ Refresh(c) \/ RefuseRefresh(c) \/ Granted(c) \/ Refused(c)

Next ==
  \/ \E d \in Devices :
       Login(d) \/ LogoutServe(d) \/ LogoutEnds(d)
  \/ \E c \in Calls : Ask(c) \/ CallStep(c) \/ Lose(c)
  \/ WrongPassword \/ LockEnds \/ NewPassword
  \/ \E ban \in BOOLEAN : SetStatus(ban)
  \/ \E i \in Rows : AccessExpires(i) \/ RefreshLapses(i)

Spec == Init /\ [][Next]_vars

(* The server answers, and the page goes on when it does.                  *)
LiveSpec ==
  /\ Spec
  /\ \A d \in Devices : WF_vars(LogoutEnds(d))
  /\ \A c \in Calls : WF_vars(CallStep(c))

-----------------------------------------------------------------------------
(* What sessions are to do right.                                          *)

Live(i) == tokens[i].live

(* A session has one refresh token that works at any time, or none: a      *)
(* token is exchanged at most once, whatever calls overlap, get lost or    *)
(* fail half-way.                                                          *)
OneTokenPerLogin ==
  \A i, j \in Rows : Live(i) /\ Live(j) /\ tokens[i].login = tokens[j].login => i = j

(* A session that has ended, by logout, a lock or a new password, does not *)
(* come to life again, not even by a refresh that was on its way.          *)
EndedStaysEnded ==
  [][\A n \in 1 .. logins :
       (\A i \in Rows : tokens[i].login = n => ~Live(i)) =>
         \A i \in DOMAIN tokens' : tokens'[i].login = n => ~tokens'[i].live]_vars

(* While an account is locked nobody has a session of it: the account is   *)
(* locked only after all of its tokens have been revoked.                  *)
LockedIsLoggedOut == locked => \A i \in Rows : ~Live(i)

(* Every session that works was opened with the password as it is now.     *)
(* (Unless the statement that ends the others raises.)                     *)
NewPasswordEndsSessions ==
  dbErrors = 0 => \A i \in Rows : Live(i) => tokens[i].password = password

(* Every call a page makes ends, it does not refresh for ever.             *)
CallsEnd ==
  \A c \in Calls : At(c, "asked") ~> At(c, "idle")

-----------------------------------------------------------------------------
(* docs/SECURITY_UPGRADE_PLAN.md:8: an access token lasts 30 minutes, but  *)
(* refresh tokens take turns for 7 days: a page gives its tokens up only   *)
(* when it logs out or its session has ended on the server.                *)
SessionsLast ==
  [][\A d \in Devices : store[d] # 0 /\ store'[d] = 0 /\ ~leaving[d] =>
       ~Live(store[d]) \/ store[d] \in lapsed \/ banned]_vars
=============================================================================
