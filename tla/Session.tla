------------------------------ MODULE Session -------------------------------
(***************************************************************************)
(* The sessions of one user: AuthService (login, refreshTokens,            *)
(* resetPassword) with the refresh tokens it keeps, and the client that    *)
(* calls it, request and tryRefreshToken of apps/web/src/lib/api-client.ts *)
(*                                                                         *)
(* A Call is one use of the client from a tab of the browser, at most one  *)
(* at a time; it goes to the API, may come back with 401, then refreshes   *)
(* and is sent again.  The handlers of the API are cut at each await, and  *)
(* a response on its way is a state of the call.                           *)
(***************************************************************************)
EXTENDS Integers, FiniteSets, FiniteSetsExt

CONSTANTS
    Call,         \* calls of the client in flight
    Tab,          \* tabs of the browser: they share the cookie, not the flag
    TabOf,        \* the tab a call is made in
    Jti,          \* ids of refresh tokens, numbered
    None,         \* no cookie, no token
    Resetter,     \* handlers of resetPassword in flight
    MaxFailed,    \* MAX_FAILED_ATTEMPTS
    MaxCalls,     \* bound: calls made
    MaxMishaps,   \* bound: access tokens that expire, lockouts that run out and
                  \* calls cut short by the network or the API, together
    Resets        \* whether a password reset has been requested

ASSUME TabAssumption == TabOf \in [Call -> Tab]
ASSUME JtiAssumption == Jti \subseteq Nat /\ None \notin Jti
ASSUME BoundAssumption ==
    /\ MaxFailed \in Nat \ {0} /\ MaxCalls \in Nat /\ MaxMishaps \in Nat
    /\ Resets \in BOOLEAN

VARIABLES
    user,        \* failedLoginCount, lockedUntil in the future, the password
    token,       \* refresh_tokens
    resetOpen,   \* whether the row of password_resets is unused
    resetter,    \* the handlers of resetPassword
    jar,         \* the cookie hrms_rt
    access,      \* tabs that hold an access token that is still valid
    refreshing,  \* tabs whose flag isRefreshing is set
    call,        \* the calls in flight
    calls,       \* auxiliary: calls made so far
    mistakes,    \* auxiliary: calls made with a wrong password
    mishaps,     \* auxiliary: expiries, unlocks and losses so far
    lost,        \* auxiliary: whether a call was cut short
    epoch,       \* auxiliary: the password each token goes back to
    heirs,       \* auxiliary: tokens issued in exchange for each token
    raced,       \* auxiliary: tokens two refreshes held at the same time
    straddled    \* auxiliary: whether a reset committed under a login or refresh

serverVars == <<user, token, resetOpen, resetter, epoch, heirs, raced, straddled>>
browserVars == <<jar, access, refreshing>>
counters == <<calls, mistakes, mishaps, lost>>
vars == <<serverVars, browserVars, call, counters>>

----------------------------------------------------------------------------
Kind == {"data", "right", "wrong"}   \* a login has the right or a wrong password
RefreshPC == {"refresh", "revoke", "reissue", "renewed", "refused"}
PC == {"idle", "sent", "check", "issue", "welcome", "denied"} \union RefreshPC

Idle == [pc |-> "idle", kind |-> "data", bearer |-> FALSE, jti |-> None, epoch |-> 0,
         failed |-> 0]

\* A token nobody holds and that is not live is as good as a new id; which of
\* the new ids is drawn makes no difference.
Fresh == {j \in Jti : token[j] # "live" /\ j # jar /\ \A c \in Call : call[c].jti # j}
NewJti == Min(Fresh)

Init ==
    /\ user = [failed |-> 0, locked |-> FALSE, password |-> 0]
    /\ token = [j \in Jti |-> "free"]
    /\ resetOpen = Resets
    /\ resetter = [x \in Resetter |-> "idle"]
    /\ jar = None /\ access = {} /\ refreshing = {}
    /\ call = [c \in Call |-> Idle]
    /\ calls = 0 /\ mistakes = 0 /\ mishaps = 0 /\ lost = FALSE
    /\ epoch = [j \in Jti |-> 0]
    /\ heirs = [j \in Jti |-> 0]
    /\ raced = {} /\ straddled = FALSE

Goto(c, label) == call' = [call EXCEPT ![c].pc = label]
Deny(c) == call' = [call EXCEPT ![c] = [Idle EXCEPT !.pc = "denied", !.kind = call[c].kind]]
Resend(c) == call' = [call EXCEPT ![c] = [Idle EXCEPT !.pc = "sent", !.kind = call[c].kind,
                                                     !.bearer = TRUE]]
End(c) == call' = [call EXCEPT ![c] = Idle]

\* issueRefreshToken: sign, then refreshToken.create.
IssueRefreshToken(c, next) ==
    /\ Fresh # {}
    /\ token' = [token EXCEPT ![NewJti] = "live"]
    /\ epoch' = [epoch EXCEPT ![NewJti] = call[c].epoch]
    /\ raced' = raced \ {NewJti}
    /\ call' = [call EXCEPT ![c].pc = next, ![c].jti = NewJti]

----------------------------------------------------------------------------
(* The client: request.                                                    *)

\* fetch, with the access token of the tab if it has one.
Send(c, kind) ==
    /\ call[c] = Idle
    /\ calls < MaxCalls
    /\ calls' = calls + 1
    /\ mistakes' = mistakes + (IF kind = "wrong" THEN 1 ELSE 0)
    /\ call' = [call EXCEPT ![c] = [Idle EXCEPT !.pc = "sent", !.kind = kind,
                                               !.bearer = TabOf[c] \in access]]
    /\ UNCHANGED <<serverVars, browserVars, mishaps, lost>>

\* A 401, whatever its cause, asks for a refresh; if one is under way in the
\* tab the call fails.  The cookie goes with the request.
Denied(c) ==
    /\ call[c].pc = "denied"
    /\ IF TabOf[c] \in refreshing
       THEN End(c) /\ UNCHANGED <<refreshing, raced>>
       ELSE /\ refreshing' = refreshing \union {TabOf[c]}
            /\ call' = [call EXCEPT ![c].pc = "refresh", ![c].jti = jar]
            /\ raced' = IF jar # None /\ \E b \in Call :
                               call[b].jti = jar /\ call[b].pc \in {"refresh", "revoke", "reissue"}
                        THEN raced \union {jar} ELSE raced
    /\ UNCHANGED <<user, token, resetOpen, resetter, epoch, heirs, straddled, jar, access,
                   counters>>

\* Fault: the new cookie is not kept.
RenewedOldCookie(c) ==
    /\ call[c].pc = "renewed"
    /\ access' = access \union {TabOf[c]}
    /\ refreshing' = refreshing \ {TabOf[c]}
    /\ Resend(c)
    /\ UNCHANGED <<serverVars, jar, counters>>

\* The new cookie and access token are stored and the call is sent again.
Renewed(c) ==
    /\ call[c].pc = "renewed"
    /\ jar' = call[c].jti
    /\ access' = access \union {TabOf[c]}
    /\ refreshing' = refreshing \ {TabOf[c]}
    /\ Resend(c)
    /\ UNCHANGED <<serverVars, counters>>

\* Fault: the flag is only cleared after a refresh that worked.
RefusedFlagged(c) ==
    /\ call[c].pc = "refused"
    /\ End(c)
    /\ UNCHANGED <<serverVars, browserVars, counters>>

Refused(c) ==
    /\ call[c].pc = "refused"
    /\ refreshing' = refreshing \ {TabOf[c]}
    /\ End(c)
    /\ UNCHANGED <<serverVars, jar, access, counters>>

\* The response of login.
Welcome(c) ==
    /\ call[c].pc = "welcome"
    /\ jar' = call[c].jti
    /\ access' = access \union {TabOf[c]}
    /\ End(c)
    /\ UNCHANGED <<serverVars, refreshing, counters>>

----------------------------------------------------------------------------
(* The API.                                                                *)

\* The guard of a data route: a valid access token, or 401.
Serve(c) ==
    /\ call[c].pc = "sent" /\ call[c].kind = "data"
    /\ IF call[c].bearer THEN End(c) ELSE Deny(c)
    /\ UNCHANGED <<serverVars, browserVars, counters>>

\* validateUser of a locked account: 429, which the client does not retry.
LoginLocked(c) ==
    /\ call[c].pc = "sent" /\ call[c].kind # "data"
    /\ user.locked
    /\ End(c)
    /\ UNCHANGED <<serverVars, browserVars, counters>>

\* validateUser has read the row; bcrypt.compare takes a while.
LoginRead(c) ==
    /\ call[c].pc = "sent" /\ call[c].kind # "data"
    /\ ~user.locked
    /\ call' = [call EXCEPT ![c].pc = "check", ![c].failed = user.failed,
                           ![c].epoch = user.password]
    /\ UNCHANGED <<serverVars, browserVars, counters>>

\* Fault: failures are not counted.
LoginWrongUncounted(c) ==
    /\ call[c].pc = "check" /\ call[c].kind = "wrong"
    /\ Deny(c)
    /\ UNCHANGED <<serverVars, browserVars, counters>>

\* The failure is added to the count that was read, the fifth locks, and the
\* answer is 401.
LoginWrong(c) ==
    LET count == call[c].failed + 1 IN
    /\ call[c].pc = "check" /\ call[c].kind = "wrong"
    /\ user' = [user EXCEPT !.failed = count, !.locked = @ \/ count >= MaxFailed]
    /\ Deny(c)
    /\ UNCHANGED <<token, resetOpen, resetter, epoch, heirs, raced, straddled, browserVars,
                   counters>>

\* The failures that were read, if any, are forgotten and login goes on.
LoginRight(c) ==
    /\ call[c].pc = "check" /\ call[c].kind = "right"
    /\ user' = IF call[c].failed > 0 THEN [user EXCEPT !.failed = 0, !.locked = FALSE] ELSE user
    /\ call' = [call EXCEPT ![c].pc = "issue", ![c].failed = 0]
    /\ UNCHANGED <<token, resetOpen, resetter, epoch, heirs, raced, straddled, browserVars,
                   counters>>

LoginIssue(c) ==
    /\ call[c].pc = "issue"
    /\ IssueRefreshToken(c, "welcome")
    /\ heirs' = [heirs EXCEPT ![NewJti] = 0]
    /\ UNCHANGED <<user, resetOpen, resetter, straddled, browserVars, counters>>

\* refreshTokens: the token of the cookie is known and not revoked, or 401.
RefreshRead(c) ==
    LET j == call[c].jti IN
    /\ call[c].pc = "refresh"
    /\ IF j # None /\ token[j] = "live"
       THEN call' = [call EXCEPT ![c].pc = "revoke", ![c].epoch = epoch[j]]
       ELSE Goto(c, "refused")
    /\ UNCHANGED <<serverVars, browserVars, counters>>

\* Fault: the old token stays valid.
RefreshKeepsOld(c) ==
    /\ call[c].pc = "revoke"
    /\ Goto(c, "reissue")
    /\ UNCHANGED <<serverVars, browserVars, counters>>

RefreshRevoke(c) ==
    /\ call[c].pc = "revoke"
    /\ token' = [token EXCEPT ![call[c].jti] = "revoked"]
    /\ Goto(c, "reissue")
    /\ UNCHANGED <<user, resetOpen, resetter, epoch, heirs, raced, straddled, browserVars,
                   counters>>

RefreshIssue(c) ==
    /\ call[c].pc = "reissue"
    /\ IssueRefreshToken(c, "renewed")
    /\ heirs' = [heirs EXCEPT ![NewJti] = 0, ![call[c].jti] = @ + 1]
    /\ UNCHANGED <<user, resetOpen, resetter, straddled, browserVars, counters>>

\* resetPassword finds the row unused; hashing the password takes a while.
ResetRead(x) ==
    /\ resetter[x] = "idle"
    /\ resetOpen
    /\ resetter' = [resetter EXCEPT ![x] = "commit"]
    /\ UNCHANGED <<user, token, resetOpen, epoch, heirs, raced, straddled, browserVars, call,
                   counters>>

\* Fault: the transaction revokes no refresh token.
ResetCommitKeepsTokens(x) ==
    /\ resetter[x] = "commit"
    /\ user' = [failed |-> 0, locked |-> FALSE, password |-> user.password + 1]
    /\ resetOpen' = FALSE
    /\ resetter' = [resetter EXCEPT ![x] = "idle"]
    /\ straddled' = (straddled \/ \E c \in Call : call[c].pc \in {"check", "issue", "revoke", "reissue"})
    /\ UNCHANGED <<token, epoch, heirs, raced, browserVars, call, counters>>

\* The transaction: new password, row used, every refresh token revoked.
ResetCommit(x) ==
    /\ resetter[x] = "commit"
    /\ user' = [failed |-> 0, locked |-> FALSE, password |-> user.password + 1]
    /\ resetOpen' = FALSE
    /\ token' = [j \in Jti |-> IF token[j] = "live" THEN "revoked" ELSE token[j]]
    /\ resetter' = [resetter EXCEPT ![x] = "idle"]
    /\ straddled' = (straddled \/ \E c \in Call : call[c].pc \in {"check", "issue", "revoke", "reissue"})
    /\ UNCHANGED <<epoch, heirs, raced, browserVars, call, counters>>

----------------------------------------------------------------------------
(* Time and failures.                                                      *)

Mishap ==
    /\ mishaps < MaxMishaps
    /\ mishaps' = mishaps + 1

\* 15 minutes after it was signed.
Expire(t) ==
    /\ t \in access
    /\ Mishap
    /\ access' = access \ {t}
    /\ UNCHANGED <<serverVars, jar, refreshing, call, calls, mistakes, lost>>

\* lockedUntil passes; failedLoginCount stays.
Unlock ==
    /\ user.locked
    /\ Mishap
    /\ user' = [user EXCEPT !.locked = FALSE]
    /\ UNCHANGED <<token, resetOpen, resetter, epoch, heirs, raced, straddled, browserVars,
                   call, calls, mistakes, lost>>

\* The request or its response is lost, or the handler fails half way: the
\* client gets an error, and finally clears the flag.
Lose(c) ==
    /\ call[c].pc \notin {"idle", "denied", "refused"}
    /\ Mishap
    /\ lost' = TRUE
    /\ refreshing' = IF call[c].pc \in RefreshPC THEN refreshing \ {TabOf[c]} ELSE refreshing
    /\ End(c)
    /\ UNCHANGED <<serverVars, jar, access, calls, mistakes>>

----------------------------------------------------------------------------
CallStep(c) ==
    \/ Denied(c) \/ Renewed(c) \/ Refused(c) \/ Welcome(c)
    \/ Serve(c) \/ LoginLocked(c) \/ LoginRead(c) \/ LoginWrong(c) \/ LoginRight(c)
    \/ LoginIssue(c) \/ RefreshRead(c) \/ RefreshRevoke(c) \/ RefreshIssue(c)

Next ==
    \/ \E c \in Call : CallStep(c) \/ Lose(c) \/ \E kind \in Kind : Send(c, kind)
    \/ \E x \in Resetter : ResetRead(x) \/ ResetCommit(x)
    \/ \E t \in Tab : Expire(t)
    \/ Unlock

Spec == Init /\ [][Next]_vars

\* The network and the API answer, or fail.
FairSpec == Spec /\ \A c \in Call : WF_vars(CallStep(c))

----------------------------------------------------------------------------
TypeOK ==
    /\ user \in [failed : Nat, locked : BOOLEAN, password : Nat]
    /\ token \in [Jti -> {"free", "live", "revoked"}]
    /\ resetOpen \in BOOLEAN /\ straddled \in BOOLEAN
    /\ resetter \in [Resetter -> {"idle", "commit"}]
    /\ jar \in Jti \union {None}
    /\ access \subseteq Tab /\ refreshing \subseteq Tab
    /\ call \in [Call -> [pc : PC, kind : Kind, bearer : BOOLEAN,
                          jti : Jti \union {None}, epoch : Nat, failed : Nat]]
    /\ calls \in Nat /\ mistakes \in Nat /\ mishaps \in Nat /\ lost \in BOOLEAN
    /\ epoch \in [Jti -> Nat] /\ heirs \in [Jti -> Nat] /\ raced \subseteq Jti

Holding(labels) == {c \in Call : call[c].pc \in labels}

\* Rotation: a token is exchanged for at most one other, and is dead once it
\* has been, unless two refreshes held it at the same time (two tabs share
\* the cookie and not the flag).
RotatesOnce ==
    \A j \in Jti \ raced : heirs[j] =< 1 /\ (heirs[j] = 1 => token[j] # "live")

\* "Revoke all refresh tokens for security": after a reset no live token goes
\* back to a login with an earlier password, unless the reset committed while
\* a login or a refresh stood between its check and its insert.
LiveTokensFollowPassword ==
    ~straddled => \A j \in Jti : token[j] = "live" => epoch[j] = user.password

\* Rotation never costs the user the session: when no refresh is under way
\* the cookie is live, in whatever order the answers of two tabs came back,
\* as long as no answer was lost and no password was reset.
CookieIsLive ==
    (jar # None /\ ~lost /\ user.password = 0 /\ Holding(RefreshPC) = {}) =>
        token[jar] = "live"

\* The flag isRefreshing of a tab is set exactly while one call of the tab
\* refreshes: it never sticks, and one tab never races with itself.
OneRefreshPerTab ==
    \A t \in Tab :
        Cardinality({c \in Holding(RefreshPC) : TabOf[c] = t})
            = IF t \in refreshing THEN 1 ELSE 0

\* Every call comes to an end: sending it again after each refresh does not
\* go on for ever.
CallsEnd == \A c \in Call : (call[c].pc = "sent") ~> (call[c].pc = "idle")

\* ADR 0003: five failed attempts lock the account.
LockedByAttempts == user.locked => mistakes >= MaxFailed
=============================================================================
