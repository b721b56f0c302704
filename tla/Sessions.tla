------------------------------ MODULE Sessions ------------------------------
(* Sessions of people who sign in with GitHub: the handlers of                *)
(* services/github_oauth.rs, their tables (db/users.rs,                       *)
(* db/refresh_tokens.rs) and the browser that calls them                      *)
(* (apps/web/src/contexts/auth_context.tsx).  The tabs of a browser share its *)
(* cookies; a tab waits for one request at a time.  Every query is a step.    *)
EXTENDS Clock, Sequences, FiniteSets

CONSTANTS
    Tab, Browser,
    BrowserOf,     \* [Tab -> Browser]
    Account,       \* GitHub accounts that may sign in
    AccessTTL,     \* access_token_ttl_secs
    RefreshTTL,    \* refresh_token_ttl_secs
    Leeway,        \* the leeway of jsonwebtoken's Validation
    Retention,     \* cleanup_expired's older_than_secs
    MaxTokens,     \* bound: refresh tokens issued
    MaxUsers,      \* bound: rows of users
    MaxTroubles,   \* bound: failures, restarts, changes of a role by an operator
    None           \* an absent cookie or value

ASSUME SessionConstants ==
    /\ BrowserOf \in [Tab -> Browser]
    /\ {AccessTTL, RefreshTTL, Leeway, Retention, MaxTokens, MaxUsers,
        MaxTroubles} \subseteq Nat
    /\ None \notin Tab \cup Account \cup Int

VARIABLES
    users,      \* sequence of rows [account, role, changed]; role "gone": deleted
    tokens,     \* sequence of rows [user, expires, revoked, deleted]
    jar,        \* [Browser -> [access, refresh, state]]
    step,       \* [Tab -> where its request is]
    token,      \* [Tab -> the refresh token sent, then the one issued]
    who,        \* [Tab -> the account, then the row of the person]
    minted,     \* [Tab -> the access token for the response]
    page,       \* [Tab -> what AuthContext holds]
    failed,     \* history: a request has failed or the server has restarted
    sessionTroubles

request == <<step, token, who, minted>>
sessionVars == <<users, tokens, jar, request, page, failed, sessionTroubles>>

Never == -1
Active(u) == users[u].role # "gone"
Waiting == {"atGitHub", "findUser", "insertUser", "me", "findToken", "revokeOld",
            "findUserById", "insertToken", "respond", "revokeAtLogout", "clear"}

SessionInit ==
    /\ users = <<>> /\ tokens = <<>>
    /\ jar = [b \in Browser |-> [access |-> None, refresh |-> None, state |-> None]]
    /\ step = [t \in Tab |-> "idle"] /\ token = [t \in Tab |-> None]
    /\ who = [t \in Tab |-> None] /\ minted = [t \in Tab |-> None]
    /\ page = [t \in Tab |-> "signedOut"]
    /\ failed = FALSE /\ sessionTroubles = 0

Cookies(t) == jar[BrowserOf[t]]
GoTo(t, s) == step' = [step EXCEPT ![t] = s]
Finish(t) ==
    /\ GoTo(t, "idle")
    /\ token' = [token EXCEPT ![t] = None]
    /\ who' = [who EXCEPT ![t] = None]
    /\ minted' = [minted EXCEPT ![t] = None]
Show(t, p) == page' = [page EXCEPT ![t] = p]

\* Requests that may end with a new refresh token stay within MaxTokens.
Room ==
    Len(tokens) + Cardinality({t \in Tab :
        step[t] \notin {"idle", "respond", "revokeAtLogout", "clear"}}) < MaxTokens

------------------------------------------------------------------------------
(* Tokens *)

\* find_valid_by_hash
Valid(k) ==
    /\ tokens[k].revoked = Never /\ ~tokens[k].deleted
    /\ tokens[k].expires > now

\* revoke_by_hash: its two queries write nothing but revoked_at.
Revoke(k) ==
    tokens' = IF tokens[k].revoked = Never /\ ~tokens[k].deleted
              THEN [tokens EXCEPT ![k].revoked = now]
              ELSE tokens

\* verify_session_token: the signature and the issuer are right.
Verified(jwt) == jwt # None /\ now <= jwt.exp + Leeway

\* create_access_token, called before anything is awaited.
MintOldRole(t, u) ==
    minted' = [minted EXCEPT ![t] =
        [user |-> u, exp |-> now + AccessTTL,
         role |-> IF Cookies(t).access = None THEN users[u].role
                  ELSE Cookies(t).access.role]]
Mint(t, u) ==
    minted' = [minted EXCEPT ![t] =
        [user |-> u, exp |-> now + AccessTTL, role |-> users[u].role]]

------------------------------------------------------------------------------
(* Signing in *)

\* github_login: the answer sets the state cookie, one per browser.
Login(t) ==
    /\ step[t] = "idle" /\ Room
    /\ jar' = [jar EXCEPT ![BrowserOf[t]].state = t]
    /\ GoTo(t, "atGitHub")
    /\ UNCHANGED <<now, users, tokens, token, who, minted, page, failed, sessionTroubles>>

\* github_callback: another login may have replaced the state; GitHub refuses
\* the code; or the person is in none of the allowed organisations.
CallbackRefused(t) ==
    /\ step[t] = "atGitHub"
    /\ GoTo(t, "idle")
    /\ UNCHANGED <<now, users, tokens, jar, token, who, minted, page, failed, sessionTroubles>>

Callback(t) ==
    /\ step[t] = "atGitHub"
    /\ Cookies(t).state = t
    /\ \E a \in Account : who' = [who EXCEPT ![t] = a]
    /\ GoTo(t, "findUser")
    /\ UNCHANGED <<now, users, tokens, jar, token, minted, page, failed, sessionTroubles>>

\* upsert_from_github: the row that is not deleted is updated, but not its role.
RowsOf(a) == {u \in DOMAIN users : users[u].account = a /\ Active(u)}

FindUserByAccount(t) ==
    /\ step[t] = "findUser"
    /\ IF RowsOf(who[t]) = {}
       THEN GoTo(t, "insertUser") /\ UNCHANGED <<who, minted>>
       ELSE \E u \in RowsOf(who[t]) :
              /\ UNCHANGED who
              /\ Mint(t, u)
              /\ GoTo(t, "insertToken")
    /\ UNCHANGED <<now, users, tokens, jar, token, page, failed, sessionTroubles>>

FindUser(t) ==
    /\ step[t] = "findUser"
    /\ IF RowsOf(who[t]) = {}
       THEN GoTo(t, "insertUser") /\ UNCHANGED <<who, minted>>
       ELSE \E u \in RowsOf(who[t]) :
              /\ who' = [who EXCEPT ![t] = u]
              /\ Mint(t, u)
              /\ GoTo(t, "insertToken")
    /\ UNCHANGED <<now, users, tokens, jar, token, page, failed, sessionTroubles>>

\* idx_users_github_id_active: the second of two first logins answers 500.
RefusedNever(a) == FALSE
Refused(a) == RowsOf(a) # {}

InsertUser(t) ==
    /\ step[t] = "insertUser" /\ Len(users) < MaxUsers
    /\ IF Refused(who[t])
       THEN Finish(t) /\ UNCHANGED users
       ELSE LET u == Len(users) + 1 IN
            /\ users' = Append(users, [account |-> who[t], role |-> "viewer",
                                       changed |-> Never])
            /\ who' = [who EXCEPT ![t] = u]
            /\ minted' = [minted EXCEPT ![t] =
                   [user |-> u, exp |-> now + AccessTTL, role |-> "viewer"]]
            /\ GoTo(t, "insertToken") /\ UNCHANGED token
    /\ UNCHANGED <<now, tokens, jar, page, failed, sessionTroubles>>

\* The rest of issue_token_pair.
InsertToken(t) ==
    /\ step[t] = "insertToken"
    /\ tokens' = Append(tokens, [user |-> who[t], expires |-> now + RefreshTTL,
                                 revoked |-> Never, deleted |-> FALSE])
    /\ token' = [token EXCEPT ![t] = Len(tokens) + 1]
    /\ GoTo(t, "respond")
    /\ UNCHANGED <<now, users, jar, who, minted, page, failed, sessionTroubles>>

\* The response to the callback or the refresh reaches the browser.  A refresh
\* is answered with 302 and no Location: fetch gives the client that response,
\* and response.ok is false.
Respond(t) ==
    /\ step[t] = "respond"
    /\ jar' = [jar EXCEPT ![BrowserOf[t]] =
           [access |-> minted[t], refresh |-> token[t],
            state |-> IF page[t] = "loading" THEN @.state ELSE None]]
    /\ Finish(t)
    /\ Show(t, IF page[t] = "loading" THEN "signedOut" ELSE page[t])
    /\ UNCHANGED <<now, users, tokens, failed, sessionTroubles>>

------------------------------------------------------------------------------
(* A page is loaded: fetchUserWithRefresh *)

LoadPage(t) ==
    /\ step[t] = "idle" /\ Room
    /\ Show(t, "loading") /\ GoTo(t, "me")
    /\ UNCHANGED <<now, users, tokens, jar, token, who, minted, failed, sessionTroubles>>

\* get_current_user, and what the page does with the answer: without a user it
\* sends a refresh, which is refused at once when there is no cookie.
Me(t) ==
    /\ step[t] = "me"
    /\ LET jwt == Cookies(t).access IN
       IF Verified(jwt) /\ Active(jwt.user)
       THEN Show(t, "signedIn") /\ GoTo(t, "idle") /\ UNCHANGED token
       ELSE IF Cookies(t).refresh # None
       THEN /\ token' = [token EXCEPT ![t] = Cookies(t).refresh]
            /\ GoTo(t, "findToken") /\ UNCHANGED page
       ELSE Show(t, "signedOut") /\ GoTo(t, "idle") /\ UNCHANGED token
    /\ UNCHANGED <<now, users, tokens, jar, who, minted, failed, sessionTroubles>>

\* refresh
FindToken(t) ==
    /\ step[t] = "findToken"
    /\ IF Valid(token[t])
       THEN /\ who' = [who EXCEPT ![t] = tokens[token[t]].user]
            /\ GoTo(t, "revokeOld") /\ UNCHANGED <<token, minted, page>>
       ELSE Finish(t) /\ Show(t, "signedOut")
    /\ UNCHANGED <<now, users, tokens, jar, failed, sessionTroubles>>

RevokeAllOfUser(t) ==
    /\ step[t] = "revokeOld"
    /\ tokens' = [k \in DOMAIN tokens |->
                    IF tokens[k].user = who[t] /\ tokens[k].revoked = Never
                    THEN [tokens[k] EXCEPT !.revoked = now] ELSE tokens[k]]
    /\ GoTo(t, "findUserById")
    /\ UNCHANGED <<now, users, jar, token, who, minted, page, failed,
                   sessionTroubles>>

RevokeOld(t) ==
    /\ step[t] = "revokeOld"
    /\ Revoke(token[t])
    /\ GoTo(t, "findUserById")
    /\ UNCHANGED <<now, users, jar, token, who, minted, page, failed, sessionTroubles>>

FindUserById(t) ==
    /\ step[t] = "findUserById"
    /\ IF Active(who[t])
       THEN /\ Mint(t, who[t]) /\ GoTo(t, "insertToken")
            /\ UNCHANGED <<token, who, page>>
       ELSE Finish(t) /\ Show(t, "signedOut")
    /\ UNCHANGED <<now, users, tokens, jar, failed, sessionTroubles>>

------------------------------------------------------------------------------
(* Signing out *)

\* logout: the cookie's token is revoked, whatever comes of it.
Logout(t) ==
    /\ step[t] = "idle" /\ page[t] = "signedIn"
    /\ token' = [token EXCEPT ![t] = Cookies(t).refresh]
    /\ GoTo(t, IF Cookies(t).refresh = None THEN "clear" ELSE "revokeAtLogout")
    /\ UNCHANGED <<now, users, tokens, jar, who, minted, page, failed, sessionTroubles>>

RevokeAtLogout(t) ==
    /\ step[t] = "revokeAtLogout"
    /\ Revoke(token[t])
    /\ GoTo(t, "clear")
    /\ UNCHANGED <<now, users, jar, token, who, minted, page, failed, sessionTroubles>>

\* The answer removes both cookies.
Clear(t) ==
    /\ step[t] = "clear"
    /\ jar' = [jar EXCEPT ![BrowserOf[t]].access = None,
                          ![BrowserOf[t]].refresh = None]
    /\ Finish(t) /\ Show(t, "signedOut")
    /\ UNCHANGED <<now, users, tokens, failed, sessionTroubles>>

------------------------------------------------------------------------------
(* Failures, operators and time *)

Trouble ==
    /\ sessionTroubles < MaxTroubles
    /\ sessionTroubles' = sessionTroubles + 1

\* A query fails, GitHub does not answer, or the answer is lost: the page shows
\* nobody, and a failed logout shows nobody too.
Fail(t) ==
    /\ step[t] \in Waiting \ {"atGitHub"} /\ Trouble
    /\ failed' = TRUE
    /\ Finish(t)
    /\ Show(t, IF step[t] \in {"findUser", "insertUser"} THEN page[t] ELSE "signedOut")
    /\ UNCHANGED <<now, users, tokens, jar>>

\* cleanup_expired deletes what has expired or was revoked long enough ago.
Expired(k) ==
    \/ tokens[k].expires < now - Retention
    \/ tokens[k].revoked # Never /\ tokens[k].revoked < now - Retention

\* The server restarts and cleans up; requests under way get no answer.
RestartServer ==
    /\ Trouble
    /\ failed' = TRUE
    /\ tokens' = [k \in DOMAIN tokens |->
                    [tokens[k] EXCEPT !.deleted = @ \/ Expired(k)]]
    /\ step' = [t \in Tab |-> IF step[t] = "atGitHub" THEN step[t] ELSE "idle"]
    /\ page' = [t \in Tab |-> IF page[t] = "loading" THEN "signedOut" ELSE page[t]]
    /\ token' = [t \in Tab |-> None] /\ who' = [t \in Tab |-> None]
    /\ minted' = [t \in Tab |-> None]
    /\ UNCHANGED <<now, users, jar>>

\* An operator changes a role, or deletes a user, in the database.
Operate(u) ==
    /\ Trouble
    /\ Active(u)
    /\ \E r \in {"contributor", "gone"} :
         users' = [users EXCEPT ![u].role = r, ![u].changed = now]
    /\ UNCHANGED <<now, tokens, jar, request, page, failed>>

SessionTick == Advance /\ UNCHANGED sessionVars

SessionServes(t) ==
    \/ FindUser(t) \/ InsertUser(t) \/ InsertToken(t) \/ Respond(t)
    \/ Me(t) \/ FindToken(t) \/ RevokeOld(t) \/ FindUserById(t)
    \/ RevokeAtLogout(t) \/ Clear(t)

SessionNext ==
    \/ \E t \in Tab : \/ Login(t) \/ Callback(t) \/ CallbackRefused(t)
                      \/ LoadPage(t) \/ Logout(t) \/ SessionServes(t) \/ Fail(t)
    \/ \E u \in DOMAIN users : Operate(u)
    \/ RestartServer \/ SessionTick

SessionSpec == now = 0 /\ SessionInit /\ [][SessionNext]_<<now, sessionVars>>

------------------------------------------------------------------------------
(* Properties *)

AccessToken == [user : DOMAIN users, exp : Int, role : {"viewer", "contributor"}]

SessionTypeOK ==
    /\ now \in 0..MaxNow
    /\ users \in Seq([account : Account, role : {"viewer", "contributor", "gone"},
                      changed : {Never} \cup 0..now])
    /\ tokens \in Seq([user : DOMAIN users, expires : Int, revoked : {Never} \cup 0..now,
                       deleted : BOOLEAN])
    /\ jar \in [Browser -> [access : {None} \cup AccessToken,
                            refresh : {None} \cup DOMAIN tokens,
                            state : {None} \cup Tab]]
    /\ step \in [Tab -> Waiting \cup {"idle"}]
    /\ \A t \in Tab : /\ token[t] \in {None} \cup DOMAIN tokens
                      /\ minted[t] \in {None} \cup AccessToken
    /\ page \in [Tab -> {"loading", "signedOut", "signedIn"}]

\* Whatever two tabs do at the same time, rotation never leaves a browser with a
\* refresh token that refresh() has revoked: while nothing fails, the token of a
\* browser that waits for nothing is not revoked, and is deleted only when it has
\* expired, unless its user was deleted.
RotationStrandsNobody ==
    ~failed =>
        \A b \in Browser :
            /\ jar[b].refresh # None
            /\ \A t \in Tab : BrowserOf[t] = b => step[t] \in {"idle", "atGitHub"}
            => LET row == tokens[jar[b].refresh] IN
               \/ row.revoked = Never /\ (row.deleted => row.expires < now)
               \/ ~Active(row.user)

\* A role in an accepted session cookie is the one in the database, or was
\* changed there at most the lifetime of an access token ago: the extractor does
\* not look at the row, and refresh() reads it again.
RoleFresh ==
    \A b \in Browser :
        LET jwt == jar[b].access IN
        Verified(jwt) =>
            \/ jwt.role = users[jwt.user].role
            \/ /\ users[jwt.user].changed # Never
               /\ now - users[jwt.user].changed <= AccessTTL + Leeway

\* However first logins overlap, one row that is not deleted stands for an
\* account, and both cookies of a browser belong to the same account.
OnePersonPerAccount ==
    /\ \A a \in Account : Cardinality(RowsOf(a)) <= 1
    /\ \A b \in Browser :
         jar[b].access # None /\ jar[b].refresh # None =>
             users[jar[b].access.user].account
               = users[tokens[jar[b].refresh].user].account

\* auth_context.tsx says "Automatically refreshes the access token when it
\* expires.": a page whose refresh has been answered with new tokens does not
\* show the person as signed out.  Fails.
RefreshKeepsSignedIn ==
    [][\A t \in Tab : Respond(t) /\ page[t] = "loading" =>
            page'[t] # "signedOut"]_<<now, sessionVars>>
==============================================================================
