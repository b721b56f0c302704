--------------------------- MODULE Sessions_proofs ---------------------------
(***************************************************************************)
(* Proofs about Sessions: any number of people, browsers and tabs, and any *)
(* lifetimes of the two tokens.                                            *)
(***************************************************************************)
EXTENDS Sessions, SequenceTheorems, FiniteSetTheorems, TLAPS

-----------------------------------------------------------------------------
(* The tables *)

UserRow == [account : Account, role : {"viewer", "contributor", "gone"}, changed : Int]
TokenRow == [user : Int, expires : Int, revoked : Int, deleted : BOOLEAN]

TablesOK ==
    /\ now \in 0..MaxNow
    /\ users \in Seq(UserRow) /\ tokens \in Seq(TokenRow)
    /\ \A u \in 1..Len(users) : users[u].changed \in {Never} \cup 0..now
    /\ \A k \in 1..Len(tokens) : /\ tokens[k].user \in 1..Len(users)
                                 /\ tokens[k].revoked \in {Never} \cup 0..now

\* Where the tab is, it knows the account, the row or the token it needs.
Asking(t) ==
    /\ step[t] \in {"findUser", "insertUser"} => who[t] \in Account
    /\ step[t] = "insertToken" => who[t] \in 1..Len(users)
    /\ step[t] \in {"findToken", "revokeOld", "findUserById", "respond", "revokeAtLogout"} =>
           token[t] \in 1..Len(tokens)
    /\ step[t] \in {"revokeOld", "findUserById"} => who[t] = tokens[token[t]].user

\* Rows are added, and never change hands.
Growth ==
    /\ Len(users) <= Len(users') /\ Len(tokens) <= Len(tokens')
    /\ \A u \in 1..Len(users) :
         /\ users'[u].account = users[u].account
         /\ users'[u] = users[u] \/ (Active(u) /\ users'[u].changed = now)
    /\ \A k \in 1..Len(tokens) : tokens'[k].user = tokens[k].user
    /\ now <= now'

\* A function on 1..n is a sequence.
LEMMA SequenceOfRows ==
    ASSUME NEW S, NEW s \in Seq(S), NEW T, NEW f, f = [i \in DOMAIN s |-> f[i]],
           \A i \in 1..Len(s) : f[i] \in T
    PROVE  f \in Seq(T) /\ Len(f) = Len(s)
<1>1. DOMAIN s = 1..Len(s) /\ Len(s) \in Nat
  BY LenProperties
<1>2. f \in [1..Len(s) -> T]
  BY <1>1
<1> QED BY <1>1, <1>2

\* The records the queries write.
Changed(row, r, n) == [row EXCEPT !.role = r, !.changed = n]
Deleted(row, d) == [row EXCEPT !.deleted = d]

\* A row of users with another role,
LEMMA ChangedRow ==
    ASSUME NEW row \in UserRow, NEW r \in {"contributor", "gone"}, NEW n \in Int
    PROVE  /\ Changed(row, r, n) \in UserRow
           /\ Changed(row, r, n).account = row.account /\ Changed(row, r, n).changed = n
BY DEF UserRow, Changed

\* and a row of refresh_tokens that is deleted or not.
LEMMA DeletedRow ==
    ASSUME NEW row \in TokenRow, NEW d \in BOOLEAN
    PROVE  /\ Deleted(row, d) \in TokenRow
           /\ Deleted(row, d).user = row.user /\ Deleted(row, d).revoked = row.revoked
BY DEF TokenRow, Deleted

\* The tables are empty in the beginning.
LEMMA TablesInit == now = 0 /\ SessionInit => TablesOK
BY MaxNowNat DEF SessionInit, TablesOK

\* One token is revoked, or none.
LEMMA RevokeRow ==
    ASSUME TablesOK, NEW k \in 1..Len(tokens), Revoke(k)
    PROVE  /\ tokens' \in Seq(TokenRow) /\ Len(tokens') = Len(tokens)
           /\ \A l \in 1..Len(tokens) :
                \/ tokens'[l] = tokens[l]
                \/ l = k /\ tokens'[l] = [tokens[l] EXCEPT !.revoked = now]
<1>1. tokens[k] \in TokenRow /\ now \in Int
  BY ElementOfSeq DEF TablesOK
<1>2. [tokens[k] EXCEPT !.revoked = now] \in TokenRow
  BY <1>1 DEF TokenRow
<1>3. tokens' = tokens \/ tokens' = [tokens EXCEPT ![k] = [tokens[k] EXCEPT !.revoked = now]]
  BY DEF Revoke, TablesOK
<1> DEFINE row == [tokens[k] EXCEPT !.revoked = now]
<1>4. CASE tokens' = tokens
  BY <1>4 DEF TablesOK
<1>5. CASE tokens' = [tokens EXCEPT ![k] = row]
  <2>1. tokens \in Seq(TokenRow) /\ row \in TokenRow
    BY <1>2 DEF TablesOK
  <2> HIDE DEF row
  <2>2. /\ tokens' \in Seq(TokenRow) /\ Len(tokens') = Len(tokens)
        /\ \A l \in 1..Len(tokens) : tokens'[l] = IF l = k THEN row ELSE tokens[l]
    BY <1>5, <2>1, ExceptSeq
  <2> QED BY <2>2 DEF row
<1> QED BY <1>3, <1>4, <1>5

\* Every step keeps their types, and rows only grow in number and age.
LEMMA TablesStep ==
    ASSUME TablesOK, \A t \in Tab : Asking(t), [SessionNext]_<<now, sessionVars>>
    PROVE  TablesOK' /\ Growth
<1> DEFINE Goal == TablesOK' /\ Growth
<1> users \in Seq(UserRow) /\ tokens \in Seq(TokenRow) /\ now \in Nat
  BY MaxNowNat DEF TablesOK
<1> Len(users) \in Nat /\ Len(tokens) \in Nat
  OBVIOUS
<1>0. \A k \in 1..Len(tokens) : tokens[k] \in TokenRow
  BY ElementOfSeq
<1>1. CASE UNCHANGED <<users, tokens>> /\ now' \in {now, now + 1} /\ now' \in 0..MaxNow
  BY <1>1 DEF TablesOK, Growth
<1>2. ASSUME NEW t \in Tab, InsertUser(t) PROVE Goal
  <2>1. CASE UNCHANGED users
    BY <1>1, <1>2, <2>1 DEF InsertUser, TablesOK
  <2>2. CASE users' = Append(users, [account |-> who[t], role |-> "viewer", changed |-> Never])
    <3>1. who[t] \in Account
      BY <1>2 DEF InsertUser, Asking
    <3>2. [account |-> who[t], role |-> "viewer", changed |-> Never] \in UserRow
      BY <3>1 DEF UserRow, Never
    <3>3. UNCHANGED <<now, tokens>>
      BY <1>2 DEF InsertUser
    <3> QED BY <2>2, <3>2, <3>3 DEF TablesOK, Growth
  <2> QED BY <1>2, <2>1, <2>2 DEF InsertUser
<1>3. ASSUME NEW t \in Tab, InsertToken(t) PROVE Goal
  <2> DEFINE row == [user |-> who[t], expires |-> now + RefreshTTL, revoked |-> Never,
                     deleted |-> FALSE]
  <2>1. who[t] \in 1..Len(users)
    BY <1>3 DEF InsertToken, Asking
  <2>2. row \in TokenRow /\ row.user = who[t] /\ row.revoked = Never
    BY <2>1, SessionConstants DEF TokenRow, Never
  <2>3. tokens' = Append(tokens, row) /\ UNCHANGED <<now, users>>
    BY <1>3 DEF InsertToken
  <2> HIDE DEF row
  <2> QED BY <2>1, <2>2, <2>3 DEF TablesOK, Growth
<1>4. ASSUME NEW t \in Tab, RevokeOld(t) \/ RevokeAtLogout(t) PROVE Goal
  <2>1. token[t] \in 1..Len(tokens) /\ Revoke(token[t]) /\ UNCHANGED <<now, users>>
    BY <1>4 DEF RevokeOld, RevokeAtLogout, Asking
  <2>2. /\ tokens' \in Seq(TokenRow) /\ Len(tokens') = Len(tokens)
        /\ \A l \in 1..Len(tokens) :
             tokens'[l] = tokens[l] \/ tokens'[l] = [tokens[l] EXCEPT !.revoked = now]
    BY <2>1, RevokeRow
  <2>3. \A l \in 1..Len(tokens) : /\ tokens'[l].user = tokens[l].user
                                  /\ tokens'[l].revoked \in {tokens[l].revoked, now}
    BY <1>0, <2>2 DEF TokenRow
  <2> QED BY <2>1, <2>2, <2>3 DEF TablesOK, Growth
<1>5. CASE RestartServer
  <2>1. /\ tokens' = [k \in DOMAIN tokens |-> [tokens[k] EXCEPT !.deleted = @ \/ Expired(k)]]
        /\ UNCHANGED <<now, users>>
    BY <1>5 DEF RestartServer
  <2>2. \A k \in 1..Len(tokens) : /\ tokens'[k] \in TokenRow
                                  /\ tokens'[k].user = tokens[k].user
                                  /\ tokens'[k].revoked = tokens[k].revoked
    <3>1. DOMAIN tokens = 1..Len(tokens)
      OBVIOUS
    <3> TAKE k \in 1..Len(tokens)
    <3> DEFINE d == tokens[k].deleted \/ Expired(k)
    <3>2. tokens'[k] = Deleted(tokens[k], d)
      BY <1>0, <2>1, <3>1 DEF Deleted, TokenRow
    <3>3. d \in BOOLEAN
      OBVIOUS
    <3> HIDE DEF d
    <3> QED BY <1>0, <3>2, <3>3, DeletedRow
  <2>3. tokens' = [k \in DOMAIN tokens |-> tokens'[k]]
    BY <2>1
  <2>4. tokens' \in Seq(TokenRow) /\ Len(tokens') = Len(tokens)
    <3> DEFINE f == tokens'
    <3>1. f = [k \in DOMAIN tokens |-> f[k]] /\ \A k \in 1..Len(tokens) : f[k] \in TokenRow
      BY <2>2, <2>3
    <3> HIDE DEF f
    <3>2. f \in Seq(TokenRow) /\ Len(f) = Len(tokens)
      BY <3>1, SequenceOfRows
    <3> QED BY <3>2 DEF f
  <2> QED BY <2>1, <2>2, <2>4 DEF TablesOK, Growth
<1>6. ASSUME NEW u \in DOMAIN users, Operate(u) PROVE Goal
  <2>1. PICK r \in {"contributor", "gone"} :
          users' = [users EXCEPT ![u].role = r, ![u].changed = now]
    BY <1>6 DEF Operate
  <2> DEFINE row == Changed(users[u], r, now)
  <2>2. u \in 1..Len(users) /\ users[u] \in UserRow /\ now \in Int
    BY ElementOfSeq
  <2>3. row \in UserRow /\ row.account = users[u].account /\ row.changed = now
    <3> DEFINE old == users[u]
    <3> HIDE DEF old
    <3>1. old \in UserRow
      BY <2>2 DEF old
    <3>2. /\ Changed(old, r, now) \in UserRow /\ Changed(old, r, now).account = old.account
          /\ Changed(old, r, now).changed = now
      BY <2>2, <3>1, ChangedRow, Zenon
    <3> QED BY <3>2 DEF old
  <2>4. users' = [users EXCEPT ![u] = row]
    BY <2>1, <2>2 DEF UserRow, Changed
  <2> HIDE DEF row
  <2>5. /\ users' \in Seq(UserRow) /\ Len(users') = Len(users)
        /\ \A v \in 1..Len(users) : users'[v] = IF v = u THEN row ELSE users[v]
    BY <2>2, <2>3, <2>4, ExceptSeq
  <2>6. Active(u) /\ UNCHANGED <<now, tokens>>
    BY <1>6 DEF Operate
  <2> QED BY <2>3, <2>5, <2>6 DEF TablesOK, Growth
<1>7. ASSUME NEW t \in Tab,
             \/ Login(t) \/ Callback(t) \/ CallbackRefused(t) \/ LoadPage(t) \/ Logout(t)
             \/ FindUser(t) \/ Respond(t) \/ Me(t) \/ FindToken(t) \/ FindUserById(t)
             \/ Clear(t) \/ Fail(t)
      PROVE  UNCHANGED <<now, users, tokens>>
  BY <1>7 DEF Login, Callback, CallbackRefused, LoadPage, Logout, FindUser, Respond, Me,
              FindToken, FindUserById, Clear, Fail
<1>8. CASE SessionTick \/ UNCHANGED <<now, sessionVars>>
  <2>1. UNCHANGED <<users, tokens>> /\ now' \in {now, now + 1} /\ now' \in 0..MaxNow
    BY <1>8, MaxNowNat DEF SessionTick, Advance, sessionVars, TablesOK
  <2> QED BY <1>1, <2>1
<1> QED BY <1>1, <1>2, <1>3, <1>4, <1>5, <1>6, <1>7, <1>8 DEF SessionNext, SessionServes, TablesOK

-----------------------------------------------------------------------------
(* Tabs and browsers *)

Jwt == [user : Int, exp : Int, role : {"viewer", "contributor"}]
JarRow == [access : {None} \cup Jwt, refresh : {None} \cup Int, state : {None} \cup Tab]

\* An access token names a row; its role is the row's, or the row was changed
\* after the token was made.
JwtOK(jwt) ==
    /\ jwt \in Jwt
    /\ jwt.user \in 1..Len(users)
    /\ jwt.exp <= now + AccessTTL
    /\ \/ jwt.role = users[jwt.user].role
       \/ users[jwt.user].changed # Never /\ users[jwt.user].changed >= jwt.exp - AccessTTL

TabOK(t) ==
    /\ Asking(t)
    /\ step[t] \in Waiting \cup {"idle"}
    /\ token[t] \in {None} \cup 1..Len(tokens)
    /\ minted[t] = None \/ JwtOK(minted[t])
    /\ step[t] \in {"insertToken", "respond"} => JwtOK(minted[t])
    /\ step[t] = "insertToken" => minted[t].user = who[t]
    /\ step[t] = "respond" => minted[t].user = tokens[token[t]].user
    /\ page[t] \in {"loading", "signedOut", "signedIn"}

JarOK(b) ==
    /\ jar[b].access = None \/ JwtOK(jar[b].access)
    /\ jar[b].refresh \in {None} \cup 1..Len(tokens)
    /\ jar[b].access # None /\ jar[b].refresh # None =>
           jar[b].access.user = tokens[jar[b].refresh].user

Tabs(f) == f = [t \in Tab |-> f[t]]

SessionInv ==
    /\ TablesOK
    /\ Tabs(step) /\ Tabs(token) /\ Tabs(who) /\ Tabs(minted) /\ Tabs(page)
    /\ jar \in [Browser -> JarRow]
    /\ \A t \in Tab : TabOK(t)
    /\ \A b \in Browser : JarOK(b)

\* A token stays as good as it was.
LEMMA JwtStays ==
    ASSUME TablesOK, TablesOK', Growth, NEW jwt, JwtOK(jwt)
    PROVE  JwtOK(jwt)'
<1> /\ now \in Int /\ now' \in Int /\ now <= now' /\ AccessTTL \in Int
    /\ Len(users) \in Int /\ Len(users') \in Int /\ Len(users) <= Len(users')
  BY MaxNowNat, SessionConstants DEF TablesOK, Growth
<1> DEFINE u == jwt.user
<1>1. u \in 1..Len(users) /\ u \in 1..Len(users') /\ jwt.exp \in Int
  BY DEF JwtOK, Jwt
<1>2. users'[u] = users[u] \/ users'[u].changed = now
  BY <1>1 DEF Growth
<1>3. now \in 0..MaxNow /\ now # Never
  BY MaxNowNat DEF TablesOK, Never
<1> QED BY <1>1, <1>2, <1>3 DEF JwtOK

\* A tab and a browser that a step leaves alone.
LEMMA TabStays ==
    ASSUME TablesOK, TablesOK', Growth, NEW t \in Tab, TabOK(t),
           step'[t] = step[t], token'[t] = token[t], who'[t] = who[t],
           minted'[t] = minted[t], page'[t] = page[t]
    PROVE  TabOK(t)'
<1>1. minted[t] = None \/ JwtOK(minted[t])'
  BY JwtStays DEF TabOK
<1>2. step[t] \in {"insertToken", "respond"} => JwtOK(minted[t])'
  BY JwtStays DEF TabOK
<1>3. /\ 1..Len(tokens) \subseteq 1..Len(tokens') /\ 1..Len(users) \subseteq 1..Len(users')
      /\ \A k \in 1..Len(tokens) : tokens'[k].user = tokens[k].user
  BY DEF TablesOK, Growth
<1> QED BY <1>1, <1>2, <1>3 DEF TabOK, Asking

\* So does a browser's jar.
LEMMA JarStays ==
    ASSUME TablesOK, TablesOK', Growth, NEW b \in Browser, JarOK(b), jar'[b] = jar[b]
    PROVE  JarOK(b)'
<1>1. jar[b].access = None \/ JwtOK(jar[b].access)'
  BY JwtStays DEF JarOK
<1>2. /\ 1..Len(tokens) \subseteq 1..Len(tokens') /\ None \notin Int
      /\ \A k \in 1..Len(tokens) : tokens'[k].user = tokens[k].user
  BY SessionConstants DEF TablesOK, Growth
<1> QED BY <1>1, <1>2 DEF JarOK

\* The invariant is enough for that.
LEMMA SessionInvTables ==
    ASSUME SessionInv, [SessionNext]_<<now, sessionVars>>
    PROVE  TablesOK' /\ Growth
BY TablesStep DEF SessionInv, TabOK

\* It is enough to look at the tab that moves and at its browser.
LEMMA OneTabMoves ==
    ASSUME SessionInv, [SessionNext]_<<now, sessionVars>>, NEW t \in Tab,
           Tabs(step)', Tabs(token)', Tabs(who)', Tabs(minted)', Tabs(page)',
           \A s \in Tab \ {t} : /\ step'[s] = step[s] /\ token'[s] = token[s] /\ who'[s] = who[s]
                                /\ minted'[s] = minted[s] /\ page'[s] = page[s],
           TabOK(t)',
           jar' \in [Browser -> JarRow],
           \A b \in Browser : jar'[b] = jar[b] \/ JarOK(b)'
    PROVE  SessionInv'
<1>1. TablesOK' /\ Growth
  BY SessionInvTables
<1>2. \A s \in Tab : TabOK(s)'
  BY <1>1, TabStays DEF SessionInv
<1>3. \A b \in Browser : JarOK(b)'
  BY <1>1, JarStays DEF SessionInv
<1> QED BY <1>1, <1>2, <1>3 DEF SessionInv

\* A new token carries the role of the row.
LEMMA MintOK ==
    ASSUME SessionInv, NEW t \in Tab, NEW u \in 1..Len(users), Active(u), Mint(t, u),
           UNCHANGED <<now, users>>
    PROVE  JwtOK(minted[t])' /\ minted'[t].user = u
<1> DEFINE jwt == [user |-> u, exp |-> now + AccessTTL, role |-> users[u].role]
<1>1. minted'[t] = jwt
  BY DEF Mint, SessionInv, Tabs
<1>2. users[u] \in UserRow /\ now \in Int /\ AccessTTL \in Int
  BY ElementOfSeq, MaxNowNat, SessionConstants DEF SessionInv, TablesOK
<1>3. jwt \in Jwt /\ jwt.user = u /\ jwt.exp = now + AccessTTL /\ jwt.role = users[u].role
  BY <1>2 DEF Jwt, Active, UserRow
<1> HIDE DEF jwt
<1> QED BY <1>1, <1>2, <1>3 DEF JwtOK

\* The invariant holds in the beginning,
LEMMA SessionInvInit == now = 0 /\ SessionInit => SessionInv
<1> SUFFICES ASSUME now = 0, SessionInit PROVE SessionInv
  OBVIOUS
<1>1. \A t \in Tab : TabOK(t)
  BY DEF SessionInit, TabOK, Asking
<1>2. \A b \in Browser : JarOK(b)
  BY DEF SessionInit, JarOK
<1>3. jar \in [Browser -> JarRow]
  BY DEF SessionInit, JarRow
<1> QED BY <1>1, <1>2, <1>3, TablesInit DEF SessionInit, SessionInv, Tabs

\* Requests that have ended, and pages that show somebody or nobody.
LEMMA FinishOK ==
    ASSUME SessionInv, TablesOK', Growth, NEW t \in Tab, Finish(t),
           UNCHANGED page \/ \E p \in {"loading", "signedOut", "signedIn"} : Show(t, p)
    PROVE  /\ TabOK(t)'
           /\ Tabs(step)' /\ Tabs(token)' /\ Tabs(who)' /\ Tabs(minted)' /\ Tabs(page)'
           /\ \A s \in Tab \ {t} : /\ step'[s] = step[s] /\ token'[s] = token[s]
                                   /\ who'[s] = who[s] /\ minted'[s] = minted[s]
                                   /\ page'[s] = page[s]
<1>1. page'[t] \in {"loading", "signedOut", "signedIn"}
  BY DEF Show, SessionInv, TabOK, Tabs
<1>2. step'[t] = "idle" /\ token'[t] = None /\ minted'[t] = None
  BY DEF Finish, GoTo, SessionInv, Tabs
<1>3. TabOK(t)'
  BY <1>1, <1>2 DEF TabOK, Asking
<1>4. Tabs(step)' /\ Tabs(token)' /\ Tabs(who)' /\ Tabs(minted)' /\ Tabs(page)'
  BY DEF Finish, GoTo, Show, SessionInv, Tabs
<1> QED BY <1>3, <1>4 DEF Finish, GoTo, Show, SessionInv, Tabs

\* every step keeps it,
LEMMA SessionInvStep ==
    ASSUME SessionInv, [SessionNext]_<<now, sessionVars>>
    PROVE  SessionInv'
<1>1. TablesOK' /\ Growth
  BY SessionInvTables
<1>2. /\ Tabs(step) /\ Tabs(token) /\ Tabs(who) /\ Tabs(minted) /\ Tabs(page)
      /\ jar \in [Browser -> JarRow] /\ TablesOK
      /\ \A t \in Tab : TabOK(t) /\ BrowserOf[t] \in Browser
      /\ \A b \in Browser : JarOK(b)
  BY SessionConstants DEF SessionInv
<1>3. ASSUME NEW t \in Tab, Login(t) PROVE SessionInv'
  <2>1. jar' \in [Browser -> JarRow]
    BY <1>2, <1>3 DEF Login, JarRow
  <2>2. \A b \in Browser : jar'[b].access = jar[b].access /\ jar'[b].refresh = jar[b].refresh
    BY <1>2, <1>3 DEF Login, JarRow
  <2>3. \A b \in Browser : JarOK(b)'
    BY <1>2, <1>3, <2>2 DEF JarOK, Login, JwtOK
  <2>4. TabOK(t)'
    BY <1>2, <1>3 DEF Login, GoTo, TabOK, Asking, Tabs, Waiting, JwtOK
  <2> QED BY <1>2, <1>3, <2>1, <2>3, <2>4, OneTabMoves DEF Login, GoTo, Tabs
<1>4. ASSUME NEW t \in Tab, CallbackRefused(t) \/ Callback(t) \/ LoadPage(t) PROVE SessionInv'
  <2>1. TabOK(t)'
    BY <1>2, <1>4 DEF CallbackRefused, Callback, LoadPage, Show, GoTo, TabOK, Asking, Tabs,
                      Waiting, JwtOK
  <2> QED BY <1>2, <1>4, <2>1, OneTabMoves
        DEF CallbackRefused, Callback, LoadPage, Show, GoTo, Tabs
<1>5. ASSUME NEW t \in Tab, FindUser(t) PROVE SessionInv'
  <2>1. CASE step' = [step EXCEPT ![t] = "insertUser"] /\ UNCHANGED <<who, minted>>
    <3>1. TabOK(t)'
      BY <1>2, <1>5, <2>1 DEF FindUser, TabOK, Asking, Tabs, Waiting, JwtOK
    <3> QED BY <1>2, <1>5, <2>1, <3>1, OneTabMoves DEF FindUser, Tabs
  <2>2. ASSUME NEW u \in RowsOf(who[t]), who' = [who EXCEPT ![t] = u], Mint(t, u),
               GoTo(t, "insertToken")
        PROVE  SessionInv'
    <3>1. u \in 1..Len(users) /\ Active(u)
      BY <1>2, LenProperties DEF RowsOf, TablesOK
    <3>2. JwtOK(minted[t])' /\ minted'[t].user = u
      BY <1>5, <3>1, <2>2, MintOK DEF FindUser
    <3>3. TabOK(t)'
      BY <1>2, <1>5, <2>2, <3>1, <3>2 DEF FindUser, GoTo, TabOK, Asking, Tabs, Waiting
    <3>4. Tabs(minted)' /\ \A s \in Tab \ {t} : minted'[s] = minted[s]
      BY <1>2, <2>2 DEF Mint, Tabs
    <3> QED BY <1>2, <1>5, <2>2, <3>3, <3>4, OneTabMoves DEF FindUser, GoTo, Tabs
  <2> QED BY <1>5, <2>1, <2>2 DEF FindUser, GoTo
<1>6. ASSUME NEW t \in Tab, InsertUser(t) PROVE SessionInv'
  <2>1. CASE Finish(t)
    BY <1>1, <1>2, <1>6, <2>1, FinishOK, OneTabMoves DEF InsertUser
  <2>2. CASE ~Refused(who[t])
    <3> DEFINE u == Len(users) + 1
               jwt == [user |-> u, exp |-> now + AccessTTL, role |-> "viewer"]
    <3>1. /\ users' = Append(users, [account |-> who[t], role |-> "viewer", changed |-> Never])
          /\ who' = [who EXCEPT ![t] = u] /\ minted' = [minted EXCEPT ![t] = jwt]
          /\ step' = [step EXCEPT ![t] = "insertToken"]
          /\ UNCHANGED <<now, token, tokens, jar, page>>
      BY <1>6, <2>2 DEF InsertUser, GoTo
    <3>2. /\ users \in Seq(UserRow) /\ now \in Int /\ AccessTTL \in Int /\ Len(users) \in Nat
      BY <1>2, MaxNowNat, SessionConstants DEF TablesOK
    <3>3. u \in 1..Len(users') /\ users'[u].role = "viewer"
      BY <3>1, <3>2
    <3>4. jwt \in Jwt /\ jwt.user = u /\ jwt.exp = now + AccessTTL /\ jwt.role = "viewer"
      BY <3>2 DEF Jwt
    <3> HIDE DEF jwt, u
    <3>5. JwtOK(minted[t])' /\ minted'[t] = jwt
      BY <1>2, <3>1, <3>2, <3>3, <3>4 DEF JwtOK, Tabs
    <3>6. TabOK(t)'
      BY <1>2, <3>1, <3>3, <3>4, <3>5 DEF TabOK, Asking, Tabs, Waiting
    <3> QED BY <1>2, <3>1, <3>6, OneTabMoves DEF Tabs
  <2> QED BY <1>6, <2>1, <2>2 DEF InsertUser
<1>7. ASSUME NEW t \in Tab, InsertToken(t) PROVE SessionInv'
  <2> DEFINE row == [user |-> who[t], expires |-> now + RefreshTTL, revoked |-> Never,
                     deleted |-> FALSE]
             k == Len(tokens) + 1
  <2>1. /\ tokens' = Append(tokens, row) /\ token' = [token EXCEPT ![t] = k]
        /\ step' = [step EXCEPT ![t] = "respond"] /\ step[t] = "insertToken"
        /\ UNCHANGED <<now, users, jar, who, minted, page>>
    BY <1>7 DEF InsertToken, GoTo
  <2>2. tokens \in Seq(TokenRow) /\ Len(tokens) \in Nat /\ row.user = who[t]
    BY <1>2 DEF TablesOK
  <2> HIDE DEF row
  <2>3. k \in 1..Len(tokens') /\ tokens'[k].user = who[t]
    BY <2>1, <2>2
  <2> HIDE DEF k
  <2>4. JwtOK(minted[t])' /\ minted[t].user = who[t]
    BY <1>2, <2>1 DEF TabOK, JwtOK
  <2>5. TabOK(t)'
    BY <1>2, <2>1, <2>3, <2>4 DEF TabOK, Asking, Tabs, Waiting
  <2> QED BY <1>2, <2>1, <2>5, OneTabMoves DEF Tabs
<1>8. ASSUME NEW t \in Tab, Respond(t) PROVE SessionInv'
  <2> DEFINE b == BrowserOf[t]
             st == IF page[t] = "loading" THEN jar[b].state ELSE None
             row == [access |-> minted[t], refresh |-> token[t], state |-> st]
  <2>1. /\ step[t] = "respond" /\ jar' = [jar EXCEPT ![b] = row]
        /\ Finish(t) /\ UNCHANGED <<now, users, tokens>>
        /\ \E p \in {"loading", "signedOut", "signedIn"} : Show(t, p)
    BY <1>2, <1>8 DEF Respond, TabOK
  <2>2. /\ JwtOK(minted[t]) /\ token[t] \in 1..Len(tokens)
        /\ minted[t].user = tokens[token[t]].user
    BY <1>2, <2>1 DEF TabOK, Asking
  <2>3. st \in {None} \cup Tab
    BY <1>2 DEF JarRow
  <2> HIDE DEF st
  <2>4. /\ row \in JarRow /\ row.access = minted[t] /\ row.refresh = token[t]
    BY <2>2, <2>3 DEF JarRow, JwtOK
  <2> HIDE DEF row
  <2>5. jar' \in [Browser -> JarRow]
    BY <1>2, <2>1, <2>4
  <2>6. JarOK(b)'
    BY <1>2, <2>1, <2>2, <2>4 DEF JarOK, JwtOK
  <2>7. \A c \in Browser : jar'[c] = jar[c] \/ JarOK(c)'
    BY <1>2, <2>1, <2>6
  <2> QED BY <1>1, <2>1, <2>5, <2>7, FinishOK, OneTabMoves
<1>9. ASSUME NEW t \in Tab, Me(t) PROVE SessionInv'
  <2> DEFINE k == Cookies(t).refresh
  <2>1. k \in {None} \cup 1..Len(tokens)
    BY <1>2 DEF Cookies, JarOK
  <2>2. \/ step' = [step EXCEPT ![t] = "idle"] /\ UNCHANGED token
        \/ /\ k # None /\ step' = [step EXCEPT ![t] = "findToken"]
           /\ token' = [token EXCEPT ![t] = k]
    BY <1>9 DEF Me, GoTo
  <2>3. \/ UNCHANGED page
        \/ \E p \in {"signedIn", "signedOut"} : page' = [page EXCEPT ![t] = p]
    BY <1>9 DEF Me, Show
  <2>4. UNCHANGED <<now, users, tokens, jar, who, minted>>
    BY <1>9 DEF Me
  <2> HIDE DEF k
  <2>5. TabOK(t)'
    BY <1>2, <2>1, <2>2, <2>3, <2>4 DEF TabOK, Asking, Tabs, Waiting, JwtOK
  <2> QED BY <1>2, <2>2, <2>3, <2>4, <2>5, OneTabMoves DEF Tabs
<1>10. ASSUME NEW t \in Tab, FindToken(t) PROVE SessionInv'
  <2>1. CASE Finish(t) /\ Show(t, "signedOut")
    BY <1>1, <1>2, <1>10, <2>1, FinishOK, OneTabMoves DEF FindToken
  <2>2. CASE Valid(token[t])
    <3>1. TabOK(t)'
      BY <1>2, <1>10, <2>2 DEF FindToken, GoTo, TabOK, Asking, Tabs, Waiting, JwtOK
    <3> QED BY <1>2, <1>10, <2>2, <3>1, OneTabMoves DEF FindToken, GoTo, Tabs
  <2> QED BY <1>10, <2>1, <2>2 DEF FindToken
<1>11. ASSUME NEW t \in Tab, RevokeOld(t) \/ RevokeAtLogout(t) PROVE SessionInv'
  <2>1. /\ \/ step[t] = "revokeOld" /\ step' = [step EXCEPT ![t] = "findUserById"]
           \/ step[t] = "revokeAtLogout" /\ step' = [step EXCEPT ![t] = "clear"]
        /\ UNCHANGED <<now, users, jar, token, who, minted, page>>
    BY <1>11 DEF RevokeOld, RevokeAtLogout, GoTo
  <2>2. token[t] \in 1..Len(tokens) /\ (step[t] = "revokeOld" => who[t] = tokens[token[t]].user)
    BY <1>2, <2>1 DEF TabOK, Asking
  <2>3. token[t] \in 1..Len(tokens') /\ tokens'[token[t]].user = tokens[token[t]].user
    BY <1>1, <1>2, <2>2 DEF Growth, TablesOK
  <2>4. TabOK(t)'
    BY <1>2, <2>1, <2>2, <2>3 DEF TabOK, Asking, Tabs, Waiting, JwtOK
  <2> QED BY <1>2, <2>1, <2>4, OneTabMoves DEF Tabs
<1>12. ASSUME NEW t \in Tab, FindUserById(t) PROVE SessionInv'
  <2>1. CASE Finish(t) /\ Show(t, "signedOut")
    BY <1>1, <1>2, <1>12, <2>1, FinishOK, OneTabMoves DEF FindUserById
  <2>2. CASE Active(who[t]) /\ Mint(t, who[t])
    <3>1. who[t] = tokens[token[t]].user /\ token[t] \in 1..Len(tokens)
      BY <1>2, <1>12 DEF FindUserById, TabOK, Asking
    <3>2. who[t] \in 1..Len(users)
      BY <1>2, <3>1 DEF TablesOK
    <3>3. JwtOK(minted[t])' /\ minted'[t].user = who[t]
      BY <1>12, <2>2, <3>2, MintOK DEF FindUserById
    <3>4. TabOK(t)'
      BY <1>2, <1>12, <2>2, <3>2, <3>3 DEF FindUserById, GoTo, TabOK, Asking, Tabs, Waiting
    <3>5. Tabs(minted)' /\ \A s \in Tab \ {t} : minted'[s] = minted[s]
      BY <1>2, <2>2 DEF Mint, Tabs
    <3> QED BY <1>2, <1>12, <2>2, <3>4, <3>5, OneTabMoves DEF FindUserById, GoTo, Tabs
  <2> QED BY <1>12, <2>1, <2>2 DEF FindUserById
<1>13. ASSUME NEW t \in Tab, Logout(t) PROVE SessionInv'
  <2> DEFINE k == Cookies(t).refresh
  <2>1. k \in {None} \cup 1..Len(tokens)
    BY <1>2 DEF Cookies, JarOK
  <2>2. /\ token' = [token EXCEPT ![t] = k]
        /\ \/ step' = [step EXCEPT ![t] = "clear"]
           \/ k # None /\ step' = [step EXCEPT ![t] = "revokeAtLogout"]
        /\ UNCHANGED <<now, users, tokens, jar, who, minted, page>>
    BY <1>13 DEF Logout, GoTo
  <2> HIDE DEF k
  <2>3. TabOK(t)'
    BY <1>2, <2>1, <2>2 DEF TabOK, Asking, Tabs, Waiting, JwtOK
  <2> QED BY <1>2, <2>2, <2>3, OneTabMoves DEF Tabs
<1>14. ASSUME NEW t \in Tab, Clear(t) PROVE SessionInv'
  <2>1. /\ jar' = [jar EXCEPT ![BrowserOf[t]].access = None, ![BrowserOf[t]].refresh = None]
        /\ Finish(t) /\ Show(t, "signedOut")
    BY <1>14 DEF Clear
  <2>2. jar' \in [Browser -> JarRow]
    BY <1>2, <2>1 DEF JarRow
  <2>3. \A c \in Browser : jar'[c] = jar[c] \/ (jar'[c].access = None /\ jar'[c].refresh = None)
    BY <1>2, <2>1 DEF JarRow
  <2>4. \A c \in Browser : jar'[c] = jar[c] \/ JarOK(c)'
    BY <2>3 DEF JarOK
  <2> QED BY <1>1, <2>1, <2>2, <2>4, FinishOK, OneTabMoves
<1>15. ASSUME NEW t \in Tab, Fail(t) PROVE SessionInv'
  <2>1. Finish(t) /\ UNCHANGED jar /\ \E p \in {"loading", "signedOut", "signedIn"} : Show(t, p)
    BY <1>2, <1>15 DEF Fail, TabOK
  <2> QED BY <1>1, <1>2, <2>1, FinishOK, OneTabMoves
<1>16. CASE RestartServer
  <2>1. UNCHANGED jar
    BY <1>16 DEF RestartServer
  <2>2. \A t \in Tab : TabOK(t)'
    BY <1>2, <1>16 DEF RestartServer, TabOK, Asking, Tabs, Waiting
  <2>3. \A b \in Browser : JarOK(b)'
    BY <1>1, <1>2, <2>1, JarStays
  <2> QED BY <1>1, <1>2, <1>16, <2>1, <2>2, <2>3 DEF RestartServer, SessionInv, Tabs
<1>17. CASE SessionTick \/ UNCHANGED <<now, sessionVars>> \/ \E u \in DOMAIN users : Operate(u)
  <2>1. UNCHANGED <<jar, step, token, who, minted, page>>
    BY <1>17 DEF SessionTick, Operate, sessionVars, request
  <2>2. \A t \in Tab : TabOK(t)'
    BY <1>1, <1>2, <2>1, TabStays
  <2>3. \A b \in Browser : JarOK(b)'
    BY <1>1, <1>2, <2>1, JarStays
  <2> QED BY <1>1, <1>2, <2>1, <2>2, <2>3 DEF SessionInv, Tabs
<1> QED BY <1>3, <1>4, <1>5, <1>6, <1>7, <1>8, <1>9, <1>10, <1>11, <1>12, <1>13, <1>14, <1>15,
           <1>16, <1>17 DEF SessionNext, SessionServes

\* and so it always holds.
LEMMA SessionInvCorrect == SessionSpec => []SessionInv
<1> QED BY SessionInvInit, SessionInvStep, PTL DEF SessionSpec

\* Nobody keeps a role that was taken away longer than an access token lives,
\* however refreshes, sign-ins and changes of the table interleave.
THEOREM RoleAlwaysFresh == SessionSpec => []RoleFresh
<1>1. ASSUME SessionInv, NEW b \in Browser, Verified(jar[b].access)
      PROVE  LET jwt == jar[b].access IN
               \/ jwt.role = users[jwt.user].role
               \/ /\ users[jwt.user].changed # Never
                  /\ now - users[jwt.user].changed <= AccessTTL + Leeway
  <2> DEFINE jwt == jar[b].access
             u == jwt.user
  <2>1. JwtOK(jwt) /\ now <= jwt.exp + Leeway /\ TablesOK
    BY <1>1 DEF SessionInv, JarOK, Verified
  <2>2. u \in 1..Len(users) /\ jwt.exp \in Int
    BY <2>1 DEF JwtOK, Jwt
  <2>3. users[u].changed \in Int /\ now \in Int
    BY <2>1, <2>2, MaxNowNat DEF TablesOK, Never
  <2>4. \/ jwt.role = users[u].role
        \/ users[u].changed # Never /\ users[u].changed >= jwt.exp - AccessTTL
    BY <2>1 DEF JwtOK
  <2>5. \A n, c, e, a, l \in Int : n <= e + l /\ c >= e - a => n - c <= a + l
    OBVIOUS
  <2>6. AccessTTL \in Int /\ Leeway \in Int
    BY SessionConstants
  <2>7. users[u].changed >= jwt.exp - AccessTTL => now - users[u].changed <= AccessTTL + Leeway
    BY <2>1, <2>2, <2>3, <2>5, <2>6
  <2> QED BY <2>4, <2>7
<1>2. SessionInv => RoleFresh
  BY <1>1 DEF RoleFresh
<1> QED BY <1>2, SessionInvCorrect, PTL

\* A row of users with the time of its change in a smaller set,
LEMMA ChangedWhen ==
    ASSUME NEW row \in UserRow, NEW S, row.changed \in S
    PROVE  row \in [account : Account, role : {"viewer", "contributor", "gone"}, changed : S]
BY DEF UserRow

\* and a row of refresh_tokens with that of its revocation in one.
LEMMA RevokedWhen ==
    ASSUME NEW row \in TokenRow, NEW U, NEW S, row.user \in U, row.revoked \in S
    PROVE  row \in [user : U, expires : Int, revoked : S, deleted : BOOLEAN]
BY DEF TokenRow

\* The types of SessionTypeOK.
THEOREM SessionTypeCorrect == SessionSpec => []SessionTypeOK
<1>1. ASSUME SessionInv PROVE SessionTypeOK
  <2>1. TablesOK /\ DOMAIN users = 1..Len(users) /\ DOMAIN tokens = 1..Len(tokens)
    BY <1>1, LenProperties DEF SessionInv, TablesOK
  <2>2. users \in Seq([account : Account, role : {"viewer", "contributor", "gone"},
                       changed : {Never} \cup 0..now])
    <3> DEFINE T == [account : Account, role : {"viewer", "contributor", "gone"},
                     changed : {Never} \cup 0..now]
    <3>1. \A u \in 1..Len(users) : users[u] \in T
      <4> TAKE u \in 1..Len(users)
      <4>1. users[u] \in UserRow /\ users[u].changed \in {Never} \cup 0..now
        BY <2>1, ElementOfSeq DEF TablesOK
      <4> QED BY <4>1, ChangedWhen
    <3> HIDE DEF T
    <3>2. users = [u \in DOMAIN users |-> users[u]] /\ users \in Seq(UserRow)
      BY <2>1, LenProperties DEF TablesOK
    <3> QED BY <3>1, <3>2, SequenceOfRows DEF T
  <2>3. tokens \in Seq([user : DOMAIN users, expires : Int, revoked : {Never} \cup 0..now,
                        deleted : BOOLEAN])
    <3> DEFINE T == [user : DOMAIN users, expires : Int, revoked : {Never} \cup 0..now,
                     deleted : BOOLEAN]
    <3>1. \A k \in 1..Len(tokens) : tokens[k] \in T
      <4> TAKE k \in 1..Len(tokens)
      <4>1. /\ tokens[k] \in TokenRow /\ tokens[k].user \in DOMAIN users
            /\ tokens[k].revoked \in {Never} \cup 0..now
        BY <2>1, ElementOfSeq DEF TablesOK
      <4> QED BY <4>1, RevokedWhen
    <3> HIDE DEF T
    <3>2. tokens = [k \in DOMAIN tokens |-> tokens[k]] /\ tokens \in Seq(TokenRow)
      BY <2>1, LenProperties DEF TablesOK
    <3> QED BY <3>1, <3>2, SequenceOfRows DEF T
  <2>4. \A jwt : JwtOK(jwt) => jwt \in AccessToken
    BY <2>1 DEF JwtOK, Jwt, AccessToken
  <2>5. jar \in [Browser -> [access : {None} \cup AccessToken,
                             refresh : {None} \cup DOMAIN tokens, state : {None} \cup Tab]]
    <3>1. ASSUME NEW b \in Browser
          PROVE  jar[b] \in [access : {None} \cup AccessToken,
                             refresh : {None} \cup DOMAIN tokens, state : {None} \cup Tab]
      BY <1>1, <2>1, <2>4 DEF SessionInv, JarOK, JarRow
    <3> QED BY <1>1, <3>1 DEF SessionInv
  <2>6. \A t \in Tab : /\ token[t] \in {None} \cup DOMAIN tokens
                       /\ minted[t] \in {None} \cup AccessToken
    BY <1>1, <2>1, <2>4 DEF SessionInv, TabOK
  <2>7. /\ step \in [Tab -> Waiting \cup {"idle"}]
        /\ page \in [Tab -> {"loading", "signedOut", "signedIn"}]
    BY <1>1 DEF SessionInv, TabOK, Tabs
  <2> QED BY <2>1, <2>2, <2>3, <2>5, <2>6, <2>7 DEF SessionTypeOK, TablesOK
<1> QED BY <1>1, SessionInvCorrect, PTL

-----------------------------------------------------------------------------
(* One person per account *)

OneRow ==
    \A u, v \in 1..Len(users) :
        Active(u) /\ Active(v) /\ users[u].account = users[v].account => u = v

\* No step adds a second active row for an account.
LEMMA OneRowStep ==
    ASSUME SessionInv, OneRow, [SessionNext]_<<now, sessionVars>>
    PROVE  OneRow'
<1>1. /\ users \in Seq(UserRow) /\ DOMAIN users = 1..Len(users) /\ Len(users) \in Nat
      /\ Growth /\ TablesOK'
  BY LenProperties, SessionInvTables DEF SessionInv, TablesOK
<1>2. ASSUME NEW t \in Tab, InsertUser(t) PROVE OneRow'
  <2> DEFINE row == [account |-> who[t], role |-> "viewer", changed |-> Never]
  <2>1. UNCHANGED users \/ (~Refused(who[t]) /\ users' = Append(users, row))
    BY <1>2 DEF InsertUser
  <2>2. ASSUME ~Refused(who[t]), users' = Append(users, row) PROVE OneRow'
    <3>1. \A u \in 1..Len(users) : users[u].account = who[t] => ~Active(u)
      BY <1>1, <2>2 DEF Refused, RowsOf
    <3>2. /\ Len(users') = Len(users) + 1 /\ users'[Len(users) + 1] = row
          /\ \A u \in 1..Len(users) : users'[u] = users[u]
      BY <1>1, <2>2
    <3>3. row.account = who[t]
      OBVIOUS
    <3> HIDE DEF row
    <3>4. \A u \in 1..Len(users') : u \in 1..Len(users) \/ u = Len(users) + 1
      BY <1>1, <3>2
    <3> QED BY <3>1, <3>2, <3>3, <3>4 DEF OneRow, Active
  <2> QED BY <2>1, <2>2 DEF OneRow, Active
<1>3. ASSUME NEW u \in DOMAIN users, Operate(u) PROVE OneRow'
  <2>1. Len(users') = Len(users)
    BY <1>1, <1>3 DEF Operate
  <2>2. \A v \in 1..Len(users) : /\ users'[v].account = users[v].account
                                 /\ users'[v] = users[v] \/ Active(v)
    BY <1>1 DEF Growth
  <2> QED BY <2>1, <2>2 DEF OneRow, Active
<1>4. UNCHANGED users => OneRow'
  BY DEF OneRow, Active
<1>5. ASSUME NEW t \in Tab,
             \/ Login(t) \/ Callback(t) \/ CallbackRefused(t) \/ LoadPage(t) \/ Logout(t)
             \/ FindUser(t) \/ InsertToken(t) \/ Respond(t) \/ Me(t) \/ FindToken(t)
             \/ RevokeOld(t) \/ FindUserById(t) \/ RevokeAtLogout(t) \/ Clear(t) \/ Fail(t)
      PROVE  UNCHANGED users
  BY <1>5 DEF Login, Callback, CallbackRefused, LoadPage, Logout, FindUser, InsertToken,
              Respond, Me, FindToken, RevokeOld, FindUserById, RevokeAtLogout, Clear, Fail
<1>6. RestartServer \/ SessionTick \/ UNCHANGED <<now, sessionVars>> => UNCHANGED users
  BY DEF RestartServer, SessionTick, sessionVars
<1> QED BY <1>2, <1>3, <1>4, <1>5, <1>6 DEF SessionNext, SessionServes

\* However first logins overlap, an account has one row, and the two cookies of a
\* browser are one person's.
THEOREM OnePersonAlways == SessionSpec => []OnePersonPerAccount
<1>1. now = 0 /\ SessionInit => OneRow
  BY DEF SessionInit, OneRow
<1>2. ASSUME SessionInv, OneRow PROVE OnePersonPerAccount
  <2>1. DOMAIN users = 1..Len(users)
    BY LenProperties DEF SessionInv, TablesOK
  <2>2. ASSUME NEW a \in Account PROVE Cardinality(RowsOf(a)) <= 1
    <3>1. \A u, v \in RowsOf(a) : u = v
      BY <1>2, <2>1 DEF RowsOf, OneRow
    <3>2. RowsOf(a) = {} \/ \E u : RowsOf(a) = {u}
      BY <3>1
    <3>3. CASE RowsOf(a) = {}
      <4>1. Cardinality(RowsOf(a)) = 0
        BY <3>3, FS_EmptySet
      <4> QED BY <4>1
    <3>4. ASSUME NEW u, RowsOf(a) = {u} PROVE Cardinality(RowsOf(a)) <= 1
      <4>1. Cardinality({u}) = 1
        BY FS_Singleton
      <4> QED BY <3>4, <4>1
    <3> QED BY <3>2, <3>3, <3>4
  <2>3. \A b \in Browser : jar[b].access # None /\ jar[b].refresh # None =>
            jar[b].access.user = tokens[jar[b].refresh].user
    BY <1>2 DEF SessionInv, JarOK
  <2> QED BY <2>2, <2>3 DEF OnePersonPerAccount
<1> QED BY <1>1, <1>2, OneRowStep, SessionInvCorrect, PTL DEF SessionSpec
-----------------------------------------------------------------------------
(* Rotation *)

\* A tab of the browser that will replace the revoked token k, or remove it.
Mends(t, k) ==
    \/ step[t] \in {"insertToken", "respond", "clear"}
    \/ step[t] = "findUserById" /\ token[t] = k

KeptRefresh(b) ==
    LET k == jar[b].refresh IN
    k # None =>
        \/ tokens[k].revoked = Never \/ ~Active(tokens[k].user)
        \/ \E t \in Tab : BrowserOf[t] = b /\ Mends(t, k)

Undeleted == \A k \in 1..Len(tokens) : tokens[k].deleted = FALSE

\* A refresh token is known to one browser.
Own ==
    /\ \A t, s \in Tab : token[t] # None /\ token[t] = token[s] => BrowserOf[t] = BrowserOf[s]
    /\ \A t \in Tab, b \in Browser :
         token[t] # None /\ token[t] = jar[b].refresh => BrowserOf[t] = b
    /\ \A b, c \in Browser : jar[b].refresh # None /\ jar[b].refresh = jar[c].refresh => b = c

\* A token that has not been answered yet is known to one request.
UnsharedToken(t) ==
    step[t] = "respond" =>
        /\ tokens[token[t]].revoked = Never
        /\ \A s \in Tab \ {t} : token[s] # token[t]
        /\ \A b \in Browser : jar[b].refresh # token[t]

Unshared == \A t \in Tab : UnsharedToken(t)

RotationInv ==
    ~failed => Undeleted /\ Own /\ Unshared /\ \A b \in Browser : KeptRefresh(b)

\* What the steps below need of the types.
Known ==
    /\ tokens \in Seq(TokenRow) /\ Len(tokens) \in Nat
    /\ \A k \in 1..Len(tokens) : tokens[k] \in TokenRow
    /\ Tabs(step) /\ Tabs(token) /\ jar \in [Browser -> JarRow]
    /\ \A t \in Tab : token[t] \in {None} \cup 1..Len(tokens) /\ BrowserOf[t] \in Browser
    /\ \A t \in Tab : step[t] = "respond" => token[t] \in 1..Len(tokens)
    /\ \A b \in Browser : jar[b].refresh \in {None} \cup 1..Len(tokens)
    /\ None \notin 1..Len(tokens)

\* What the invariant says of the tokens that are known.
LEMMA KnownOfInv == SessionInv => Known
<1> SUFFICES ASSUME SessionInv PROVE Known
  OBVIOUS
<1>1. tokens \in Seq(TokenRow) /\ Len(tokens) \in Nat
  BY DEF SessionInv, TablesOK
<1>2. \A k \in 1..Len(tokens) : tokens[k] \in TokenRow
  BY <1>1, ElementOfSeq
<1> QED BY <1>1, <1>2, SessionConstants DEF SessionInv, Known, TabOK, Asking, JarOK

\* Who was deleted stays deleted.
LEMMA InactiveStays ==
    ASSUME TablesOK, Growth, NEW k \in 1..Len(tokens), ~Active(tokens[k].user)
    PROVE  ~Active(tokens[k].user)'
<1>1. tokens[k].user \in 1..Len(users) /\ tokens'[k].user = tokens[k].user
  BY DEF TablesOK, Growth
<1>2. users'[tokens[k].user] = users[tokens[k].user]
  BY <1>1 DEF Growth
<1> QED BY <1>1, <1>2 DEF Active

\* A request that moves on, and learns at most what its browser knows.
MovesOn(t) ==
    /\ step[t] \notin {"insertToken", "respond", "clear", "findUserById"}
    /\ \E s \in Waiting \cup {"idle"} : s # "respond" /\ step' = [step EXCEPT ![t] = s]
    /\ \E k \in {token[t], None, jar[BrowserOf[t]].refresh} : token' = [token EXCEPT ![t] = k]
    /\ \A b \in Browser : jar'[b].refresh = jar[b].refresh
    /\ UNCHANGED <<tokens, failed>>

\* Such steps keep it,
LEMMA MovesOnKeeps ==
    ASSUME Known, TablesOK, Growth, NEW t \in Tab, MovesOn(t), RotationInv
    PROVE  RotationInv'
<1> SUFFICES ASSUME ~failed
             PROVE  Undeleted' /\ Own' /\ Unshared' /\ \A b \in Browser : KeptRefresh(b)'
  BY DEF RotationInv, MovesOn
<1>1. Undeleted /\ Own /\ Unshared /\ \A b \in Browser : KeptRefresh(b)
  BY DEF RotationInv
<1>2. /\ \A s \in Tab \ {t} : step'[s] = step[s] /\ token'[s] = token[s]
      /\ step'[t] # "respond"
      /\ token'[t] \in {token[t], None, jar[BrowserOf[t]].refresh}
      /\ \A b \in Browser : jar'[b].refresh = jar[b].refresh
      /\ tokens' = tokens
  BY DEF MovesOn, Known, Tabs
<1>3. Undeleted'
  BY <1>1, <1>2 DEF Undeleted
<1>4. Own'
  <2>1. \A s, u \in Tab : token'[s] # None /\ token'[s] = token'[u] => BrowserOf[s] = BrowserOf[u]
    BY <1>1, <1>2 DEF Own, Known
  <2>2. \A s \in Tab, b \in Browser :
          token'[s] # None /\ token'[s] = jar'[b].refresh => BrowserOf[s] = b
    BY <1>1, <1>2 DEF Own, Known
  <2> QED BY <1>1, <1>2, <2>1, <2>2 DEF Own
<1>5. ASSUME NEW s \in Tab PROVE UnsharedToken(s)'
  <2>1. s = t => UnsharedToken(s)'
    BY <1>2 DEF UnsharedToken
  <2>2. ASSUME s # t, step[s] = "respond" PROVE UnsharedToken(s)'
    <3>1. UnsharedToken(s) /\ token[s] # None
      BY <1>1, <2>2 DEF Unshared, Known
    <3>2. token'[t] # token[s]
      BY <1>2, <2>2, <3>1 DEF UnsharedToken, Known
    <3> QED BY <1>2, <2>2, <3>1, <3>2 DEF UnsharedToken
  <2> QED BY <1>2, <2>1, <2>2 DEF UnsharedToken
<1>6. ASSUME NEW b \in Browser, NEW k, k = jar[b].refresh PROVE KeptRefresh(b)'
  <2>1. \A s \in Tab : Mends(s, k) => s # t /\ Mends(s, k)'
    BY <1>2 DEF Mends, MovesOn
  <2>2. k # None /\ ~Active(tokens[k].user) => ~Active(tokens[k].user)'
    <3>1. k # None => k \in 1..Len(tokens)
      BY <1>6 DEF Known
    <3> QED BY <3>1, InactiveStays
  <2>3. jar'[b].refresh = k
    BY <1>2, <1>6
  <2>4. k # None => \/ tokens[k].revoked = Never \/ ~Active(tokens[k].user)
                    \/ \E s \in Tab : BrowserOf[s] = b /\ Mends(s, k)
    BY <1>1, <1>6 DEF KeptRefresh
  <2>5. k # None => \/ tokens'[k].revoked = Never \/ ~Active(tokens[k].user)'
                    \/ \E s \in Tab : BrowserOf[s] = b /\ Mends(s, k)'
    BY <1>2, <2>1, <2>2, <2>4
  <2> QED BY <2>3, <2>5 DEF KeptRefresh, Active
<1>7. \A b \in Browser : KeptRefresh(b)'
  BY <1>6
<1> QED BY <1>3, <1>4, <1>5, <1>7 DEF Unshared

\* a token that is issued,
LEMMA InsertTokenKeeps ==
    ASSUME Known, TablesOK, TablesOK', Growth, NEW t \in Tab, InsertToken(t),
           Undeleted, Own, Unshared,
           \A b \in Browser : KeptRefresh(b)
    PROVE  Undeleted' /\ Own' /\ Unshared' /\ \A b \in Browser : KeptRefresh(b)'
<1> DEFINE row == [user |-> who[t], expires |-> now + RefreshTTL, revoked |-> Never,
                   deleted |-> FALSE]
           n == Len(tokens) + 1
<1>1. /\ step[t] = "insertToken" /\ step' = [step EXCEPT ![t] = "respond"]
      /\ tokens' = Append(tokens, row) /\ token' = [token EXCEPT ![t] = n]
      /\ UNCHANGED <<users, jar>>
  BY DEF InsertToken, GoTo
<1>2. row.revoked = Never /\ row.deleted = FALSE
  OBVIOUS
<1> HIDE DEF row
<1>3. /\ Len(tokens') = n /\ tokens'[n] = row
      /\ \A k \in 1..Len(tokens) : tokens'[k] = tokens[k]
  BY <1>1 DEF Known
<1>4. /\ \A s \in Tab : token[s] # n /\ (token[s] # None => token[s] \in 1..Len(tokens))
      /\ \A b \in Browser : jar[b].refresh # n
      /\ n \in Nat /\ n # None
  BY SessionConstants DEF Known
<1>5. \A k \in 1..n : k \in 1..Len(tokens) \/ k = n
  BY DEF Known
<1> HIDE DEF n
<1>6. /\ \A s \in Tab \ {t} : token'[s] = token[s] /\ step'[s] = step[s]
      /\ token'[t] = n /\ step'[t] = "respond"
  BY <1>1 DEF Known, Tabs
<1>7. Undeleted'
  BY <1>2, <1>3, <1>5 DEF Undeleted
<1>8. Own'
  <2>1. \A s, u \in Tab : token'[s] # None /\ token'[s] = token'[u] => BrowserOf[s] = BrowserOf[u]
    BY <1>4, <1>6 DEF Own
  <2>2. \A s \in Tab, b \in Browser :
          token'[s] # None /\ token'[s] = jar[b].refresh => BrowserOf[s] = b
    BY <1>4, <1>6 DEF Own
  <2> QED BY <1>1, <2>1, <2>2 DEF Own
<1>9. ASSUME NEW s \in Tab PROVE UnsharedToken(s)'
  <2>1. CASE s = t
    BY <1>1, <1>2, <1>3, <1>4, <1>6, <2>1 DEF UnsharedToken
  <2>2. CASE s # t
    BY <1>1, <1>3, <1>4, <1>6, <2>2 DEF UnsharedToken, Unshared, Known
  <2> QED BY <2>1, <2>2
<1>10. ASSUME NEW b \in Browser PROVE KeptRefresh(b)'
  <2>1. \A k, s : s \in Tab /\ Mends(s, k) => Mends(s, k)'
    BY <1>1, <1>6 DEF Mends
  <2>2. jar[b].refresh # None => tokens'[jar[b].refresh] = tokens[jar[b].refresh]
    BY <1>3 DEF Known
  <2> QED BY <1>1, <2>1, <2>2 DEF KeptRefresh, Active
<1> QED BY <1>7, <1>8, <1>9, <1>10 DEF Unshared

\* one that is stored,
LEMMA RespondKeeps ==
    ASSUME Known, NEW t \in Tab, Respond(t), Undeleted, Own, Unshared,
           \A b \in Browser : KeptRefresh(b)
    PROVE  Undeleted' /\ Own' /\ Unshared' /\ \A b \in Browser : KeptRefresh(b)'
<1> DEFINE o == BrowserOf[t]
<1>1. /\ step[t] = "respond" /\ step' = [step EXCEPT ![t] = "idle"]
      /\ token' = [token EXCEPT ![t] = None]
      /\ UNCHANGED <<users, tokens>>
  BY DEF Respond, Finish, GoTo
<1>2. /\ jar'[o].refresh = token[t] /\ \A b \in Browser \ {o} : jar'[b] = jar[b]
      /\ o \in Browser
  BY DEF Respond, Known
<1>3. /\ \A s \in Tab \ {t} : token'[s] = token[s] /\ step'[s] = step[s]
      /\ token'[t] = None /\ step'[t] = "idle"
  BY <1>1 DEF Known, Tabs
<1>4. /\ tokens[token[t]].revoked = Never /\ token[t] # None
      /\ \A s \in Tab \ {t} : token[s] # token[t]
      /\ \A b \in Browser : jar[b].refresh # token[t]
      /\ \A s \in Tab : step[s] = "respond" => token[s] # None
  BY <1>1 DEF Unshared, UnsharedToken, Known
<1> HIDE DEF o
<1>5. Own'
  <2>1. \A s, u \in Tab : token'[s] # None /\ token'[s] = token'[u] => BrowserOf[s] = BrowserOf[u]
    BY <1>3 DEF Own
  <2>2. \A s \in Tab, b \in Browser :
          token'[s] # None /\ token'[s] = jar'[b].refresh => BrowserOf[s] = b
    BY <1>2, <1>3, <1>4 DEF Own
  <2>3. \A b, c \in Browser : jar'[b].refresh # None /\ jar'[b].refresh = jar'[c].refresh => b = c
    BY <1>2, <1>4 DEF Own
  <2> QED BY <2>1, <2>2, <2>3 DEF Own
<1>6. Unshared'
  BY <1>1, <1>2, <1>3, <1>4 DEF Unshared, UnsharedToken
<1>7. ASSUME NEW b \in Browser PROVE KeptRefresh(b)'
  <2>1. CASE b = o
    BY <1>1, <1>2, <1>4, <2>1 DEF KeptRefresh
  <2>2. CASE b # o
    <3>1. \A k, s : s \in Tab /\ BrowserOf[s] = b /\ Mends(s, k) => Mends(s, k)'
      BY <1>3, <2>2 DEF Mends, o
    <3> QED BY <1>1, <1>2, <2>2, <3>1 DEF KeptRefresh, Active
  <2> QED BY <2>1, <2>2
<1> QED BY <1>1, <1>5, <1>6, <1>7 DEF Undeleted

\* one that is cleared,
LEMMA ClearKeeps ==
    ASSUME Known, NEW t \in Tab, Clear(t), Undeleted, Own, Unshared,
           \A b \in Browser : KeptRefresh(b)
    PROVE  Undeleted' /\ Own' /\ Unshared' /\ \A b \in Browser : KeptRefresh(b)'
<1> DEFINE o == BrowserOf[t]
<1>1. /\ step[t] = "clear" /\ step' = [step EXCEPT ![t] = "idle"]
      /\ token' = [token EXCEPT ![t] = None]
      /\ UNCHANGED <<users, tokens>>
  BY DEF Clear, Finish, GoTo
<1>2. /\ jar'[o].refresh = None /\ \A b \in Browser \ {o} : jar'[b] = jar[b]
      /\ o \in Browser
  BY DEF Clear, Known, JarRow
<1>3. /\ \A s \in Tab \ {t} : token'[s] = token[s] /\ step'[s] = step[s]
      /\ token'[t] = None /\ step'[t] = "idle"
  BY <1>1 DEF Known, Tabs
<1>4. \A s \in Tab : step[s] = "respond" => token[s] # None
  BY DEF Known
<1> HIDE DEF o
<1>5. Own'
  <2>1. \A s, u \in Tab : token'[s] # None /\ token'[s] = token'[u] => BrowserOf[s] = BrowserOf[u]
    BY <1>3 DEF Own
  <2>2. \A s \in Tab, b \in Browser :
          token'[s] # None /\ token'[s] = jar'[b].refresh => BrowserOf[s] = b
    BY <1>2, <1>3 DEF Own
  <2>3. \A b, c \in Browser : jar'[b].refresh # None /\ jar'[b].refresh = jar'[c].refresh => b = c
    BY <1>2 DEF Own
  <2> QED BY <2>1, <2>2, <2>3 DEF Own
<1>6. Unshared'
  BY <1>1, <1>2, <1>3, <1>4 DEF Unshared, UnsharedToken
<1>7. ASSUME NEW b \in Browser PROVE KeptRefresh(b)'
  <2>1. CASE b = o
    BY <1>2, <2>1 DEF KeptRefresh
  <2>2. CASE b # o
    <3>1. \A k, s : s \in Tab /\ BrowserOf[s] = b /\ Mends(s, k) => Mends(s, k)'
      BY <1>3, <2>2 DEF Mends, o
    <3> QED BY <1>1, <1>2, <2>2, <3>1 DEF KeptRefresh, Active
  <2> QED BY <2>1, <2>2
<1> QED BY <1>1, <1>5, <1>6, <1>7 DEF Undeleted

\* one that is revoked,
LEMMA RevokeKeeps ==
    ASSUME Known, TablesOK, Growth, NEW t \in Tab, Asking(t), RevokeOld(t) \/ RevokeAtLogout(t),
           Undeleted, Own, Unshared, \A b \in Browser : KeptRefresh(b)
    PROVE  Undeleted' /\ Own' /\ Unshared' /\ \A b \in Browser : KeptRefresh(b)'
<1> DEFINE k == token[t]
<1>1. /\ \/ step[t] = "revokeOld" /\ step' = [step EXCEPT ![t] = "findUserById"]
         \/ step[t] = "revokeAtLogout" /\ step' = [step EXCEPT ![t] = "clear"]
      /\ Revoke(k) /\ UNCHANGED <<users, jar, token>>
  BY DEF RevokeOld, RevokeAtLogout, GoTo
<1>2. k \in 1..Len(tokens) /\ k # None
  BY <1>1 DEF Asking, Known
<1>3. /\ tokens' \in Seq(TokenRow) /\ Len(tokens') = Len(tokens)
      /\ \A l \in 1..Len(tokens) :
           tokens'[l] = tokens[l] \/ (l = k /\ tokens'[l] = [tokens[l] EXCEPT !.revoked = now])
  BY <1>1, <1>2, RevokeRow
<1>4. \A l \in 1..Len(tokens) : /\ tokens'[l].user = tokens[l].user
                                /\ tokens'[l].deleted = tokens[l].deleted
                                /\ l # k => tokens'[l] = tokens[l]
  BY <1>3 DEF Known, TokenRow
<1>5. /\ \A s \in Tab \ {t} : step'[s] = step[s]
      /\ step'[t] = "findUserById" \/ step'[t] = "clear"
  BY <1>1 DEF Known, Tabs
<1>6. Undeleted'
  BY <1>3, <1>4 DEF Undeleted
<1>7. Own'
  BY <1>1 DEF Own
<1>8. ASSUME NEW s \in Tab PROVE UnsharedToken(s)'
  <2> SUFFICES ASSUME step'[s] = "respond" PROVE UnsharedToken(s)'
    BY DEF UnsharedToken
  <2>1. s # t /\ step[s] = "respond" /\ token[s] \in 1..Len(tokens)
    BY <1>5 DEF Known
  <2>2. UnsharedToken(s) /\ token[s] # k
    BY <2>1 DEF Unshared, UnsharedToken
  <2> QED BY <1>1, <1>4, <2>1, <2>2 DEF UnsharedToken
<1>9. ASSUME NEW b \in Browser PROVE KeptRefresh(b)'
  <2> SUFFICES ASSUME jar[b].refresh # None PROVE KeptRefresh(b)'
    BY <1>1 DEF KeptRefresh
  <2>0. jar[b].refresh \in 1..Len(tokens)
    BY DEF Known
  <2>1. CASE jar[b].refresh = k
    <3>1. BrowserOf[t] = b
      BY <1>2, <2>1 DEF Own
    <3>2. Mends(t, k)'
      BY <1>1, <1>5 DEF Mends
    <3> QED BY <1>1, <2>1, <3>1, <3>2 DEF KeptRefresh, Mends
  <2>2. CASE jar[b].refresh # k
    <3>1. tokens'[jar[b].refresh] = tokens[jar[b].refresh]
      BY <1>4, <2>0, <2>2
    <3>2. \A l, s : s \in Tab /\ Mends(s, l) => Mends(s, l)'
      BY <1>1, <1>5 DEF Mends
    <3> QED BY <1>1, <3>1, <3>2 DEF KeptRefresh, Active
  <2> QED BY <2>1, <2>2
<1> QED BY <1>6, <1>7, <1>8, <1>9 DEF Unshared

\* and the query for its user,
LEMMA FindUserByIdKeeps ==
    ASSUME Known, NEW t \in Tab, Asking(t), FindUserById(t), Undeleted, Own, Unshared,
           \A b \in Browser : KeptRefresh(b)
    PROVE  Undeleted' /\ Own' /\ Unshared' /\ \A b \in Browser : KeptRefresh(b)'
<1>1. /\ step[t] = "findUserById" /\ who[t] = tokens[token[t]].user
      /\ UNCHANGED <<users, tokens, jar>>
      /\ \/ step' = [step EXCEPT ![t] = "insertToken"] /\ UNCHANGED token
         \/ /\ ~Active(who[t]) /\ step' = [step EXCEPT ![t] = "idle"]
            /\ token' = [token EXCEPT ![t] = None]
  BY DEF FindUserById, Asking, Finish, GoTo
<1>2. /\ \A s \in Tab \ {t} : token'[s] = token[s] /\ step'[s] = step[s]
      /\ \/ step'[t] = "insertToken" /\ token'[t] = token[t]
         \/ ~Active(who[t]) /\ step'[t] = "idle" /\ token'[t] = None
  BY <1>1 DEF Known, Tabs
<1>3. Own'
  <2>1. \A s, u \in Tab : token'[s] # None /\ token'[s] = token'[u] => BrowserOf[s] = BrowserOf[u]
    BY <1>2 DEF Own
  <2>2. \A s \in Tab, b \in Browser :
          token'[s] # None /\ token'[s] = jar[b].refresh => BrowserOf[s] = b
    BY <1>2 DEF Own
  <2> QED BY <1>1, <2>1, <2>2 DEF Own
<1>4. \A s \in Tab : step[s] = "respond" => token[s] # None
  BY DEF Known
<1>5. Unshared'
  BY <1>1, <1>2, <1>4 DEF Unshared, UnsharedToken
<1>6. ASSUME NEW b \in Browser PROVE KeptRefresh(b)'
  <2> DEFINE k == jar[b].refresh
  <2>1. \A s \in Tab : Mends(s, k) => Mends(s, k)' \/ ~Active(tokens[k].user)
    BY <1>1, <1>2 DEF Mends
  <2> QED BY <1>1, <2>1 DEF KeptRefresh, Active
<1> QED BY <1>1, <1>3, <1>5, <1>6 DEF Undeleted

\* and so every step.
LEMMA RotationStep ==
    ASSUME SessionInv, RotationInv, [SessionNext]_<<now, sessionVars>>
    PROVE  RotationInv'
<1>1. /\ Known /\ TablesOK /\ Growth /\ TablesOK'
      /\ \A t \in Tab : step[t] \in Waiting \cup {"idle"} /\ Asking(t)
  BY KnownOfInv, SessionInvTables DEF SessionInv, TabOK
<1>2. ASSUME NEW t \in Tab,
             \/ Login(t) \/ Callback(t) \/ CallbackRefused(t) \/ LoadPage(t) \/ Logout(t)
             \/ FindUser(t) \/ InsertUser(t) \/ Me(t) \/ FindToken(t)
      PROVE  RotationInv'
  <2>1. UNCHANGED <<tokens, failed>> /\ \A b \in Browser : jar'[b].refresh = jar[b].refresh
    <3>1. CASE Login(t)
      BY <1>1, <3>1 DEF Login, Known, JarRow
    <3>2. CASE ~Login(t)
      BY <1>2, <3>2 DEF Callback, CallbackRefused, LoadPage, Logout, FindUser, InsertUser, Me,
                        FindToken
    <3> QED BY <3>1, <3>2
  <2>2. step[t] \notin {"insertToken", "respond", "clear", "findUserById"}
    BY <1>2 DEF Login, Callback, CallbackRefused, LoadPage, Logout, FindUser, InsertUser, Me,
                FindToken
  <2>3. \E s \in Waiting \cup {"idle"} : s # "respond" /\ step' = [step EXCEPT ![t] = s]
    <3>1. \E s \in {"idle", "atGitHub", "findUser", "insertUser", "me", "findToken", "revokeOld",
                    "insertToken", "revokeAtLogout", "clear"} :
             step' = [step EXCEPT ![t] = s]
      BY <1>2 DEF Login, Callback, CallbackRefused, LoadPage, Logout, FindUser, InsertUser, Me,
                  FindToken, GoTo, Finish
    <3> QED BY <3>1 DEF Waiting
  <2>4. \E k \in {token[t], None, jar[BrowserOf[t]].refresh} : token' = [token EXCEPT ![t] = k]
    <3>1. UNCHANGED token \/ token' = [token EXCEPT ![t] = None]
            \/ token' = [token EXCEPT ![t] = jar[BrowserOf[t]].refresh]
      BY <1>2 DEF Login, Callback, CallbackRefused, LoadPage, Logout, FindUser, InsertUser, Me,
                  FindToken, Finish, Cookies
    <3>2. token = [token EXCEPT ![t] = token[t]]
      BY <1>1 DEF Known, Tabs
    <3> QED BY <3>1, <3>2
  <2> QED BY <1>1, <2>1, <2>2, <2>3, <2>4, MovesOnKeeps DEF MovesOn
<1>3. ASSUME NEW t \in Tab, Fail(t) PROVE RotationInv'
  BY <1>3 DEF Fail, RotationInv
<1>4. CASE RestartServer
  BY <1>4 DEF RestartServer, RotationInv
<1>5. CASE SessionTick \/ UNCHANGED <<now, sessionVars>> \/ \E u \in DOMAIN users : Operate(u)
  <2>1. UNCHANGED <<tokens, jar, step, token, failed>>
    BY <1>5 DEF SessionTick, Operate, sessionVars, request
  <2>2. \A k \in 1..Len(tokens) : ~Active(tokens[k].user) => ~Active(tokens[k].user)'
    BY <1>1, InactiveStays
  <2>3. ASSUME NEW b \in Browser, KeptRefresh(b) PROVE KeptRefresh(b)'
    BY <1>1, <2>1, <2>2, <2>3 DEF KeptRefresh, Mends, Known, Active
  <2> QED BY <2>1, <2>3 DEF RotationInv, Undeleted, Own, Unshared, UnsharedToken
\* From here on nothing has failed.
<1>6. ASSUME NEW t \in Tab, ~failed,
             \/ InsertToken(t) \/ Respond(t) \/ RevokeOld(t) \/ FindUserById(t)
             \/ RevokeAtLogout(t) \/ Clear(t)
      PROVE  Undeleted' /\ Own' /\ Unshared' /\ \A b \in Browser : KeptRefresh(b)'
  <2>0. Undeleted /\ Own /\ Unshared /\ \A b \in Browser : KeptRefresh(b)
    BY <1>6 DEF RotationInv
  <2>1. CASE InsertToken(t)
    BY <1>1, <2>0, <2>1, InsertTokenKeeps
  <2>2. CASE Respond(t)
    BY <1>1, <2>0, <2>2, RespondKeeps
  <2>3. CASE RevokeOld(t) \/ RevokeAtLogout(t)
    BY <1>1, <2>0, <2>3, RevokeKeeps
  <2>4. CASE FindUserById(t)
    BY <1>1, <2>0, <2>4, FindUserByIdKeeps
  <2>5. CASE Clear(t)
    BY <1>1, <2>0, <2>5, ClearKeeps
  <2> QED BY <1>6, <2>1, <2>2, <2>3, <2>4, <2>5
<1>7. ASSUME NEW t \in Tab,
             \/ InsertToken(t) \/ Respond(t) \/ RevokeOld(t) \/ FindUserById(t)
             \/ RevokeAtLogout(t) \/ Clear(t)
      PROVE  UNCHANGED failed
  BY <1>7 DEF InsertToken, Respond, RevokeOld, FindUserById, RevokeAtLogout, Clear
<1>8. ASSUME NEW t \in Tab,
             \/ InsertToken(t) \/ Respond(t) \/ RevokeOld(t) \/ FindUserById(t)
             \/ RevokeAtLogout(t) \/ Clear(t)
      PROVE  RotationInv'
  BY <1>6, <1>7, <1>8 DEF RotationInv
<1> QED BY <1>2, <1>3, <1>4, <1>5, <1>8 DEF SessionNext, SessionServes

\* Whatever the tabs of a browser do at the same time, rotation leaves it no
\* revoked token, unless a request fails or its user is deleted.
THEOREM RotationNeverStrands == SessionSpec => []RotationStrandsNobody
<1>1. now = 0 /\ SessionInit => RotationInv
  <2> SUFFICES ASSUME now = 0, SessionInit PROVE RotationInv
    OBVIOUS
  <2>1. /\ \A t \in Tab : step[t] = "idle" /\ token[t] = None
        /\ \A b \in Browser : jar[b].refresh = None
        /\ Len(tokens) = 0
    BY DEF SessionInit
  <2> QED BY <2>1 DEF RotationInv, Undeleted, Own, Unshared, UnsharedToken, KeptRefresh
<1>2. ASSUME SessionInv, RotationInv PROVE RotationStrandsNobody
  <2> SUFFICES ASSUME ~failed, NEW b \in Browser, jar[b].refresh # None,
                      \A t \in Tab : BrowserOf[t] = b => step[t] \in {"idle", "atGitHub"}
               PROVE  LET row == tokens[jar[b].refresh] IN
                        \/ row.revoked = Never /\ (row.deleted => row.expires < now)
                        \/ ~Active(row.user)
    BY DEF RotationStrandsNobody
  <2>1. jar[b].refresh \in 1..Len(tokens)
    BY <1>2, KnownOfInv DEF Known
  <2>2. tokens[jar[b].refresh].deleted = FALSE
    BY <1>2, <2>1 DEF RotationInv, Undeleted
  <2>3. \A t \in Tab : BrowserOf[t] = b => ~Mends(t, jar[b].refresh)
    BY DEF Mends
  <2> QED BY <1>2, <2>2, <2>3 DEF RotationInv, KeptRefresh
<1> QED BY <1>1, <1>2, RotationStep, SessionInvCorrect, PTL DEF SessionSpec
=============================================================================
