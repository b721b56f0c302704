-------------------------- MODULE MCAuthentication --------------------------
(* An instance of the three authentication components for TLC.  They share    *)
(* the clock and nothing else, so their steps are not interleaved: one        *)
(* component moves in a run.  The extractor (auth/extractor.rs) hands a       *)
(* request to one of the three.                                               *)
EXTENDS Sessions, OidcAccess, ApiKeys, TLC

CONSTANTS t1, t2, b1, p1, p2, k1, k2, k3,
          Moving   \* the components that move in this run, one in a behaviour

OneBrowser == [t \in {t1, t2} |-> b1]

TwoRepos == {<<"org", "app">>, <<"other", "app">>}
\* Policies match the first repository, or have been given the empty pattern, which
\* matches none.
Patterns == {<<"org", "*">>, <<>>}
OtherRepo == {<<"other", "app">>}
\* An operator has written a policy into the table with a role the service refuses.
AdminPolicy ==
    [p \in {p1, p2} |-> [state |-> IF p = p1 THEN "active" ELSE "absent",
                         pattern |-> <<"org", "*">>, role |-> "admin",
                         enabled |-> TRUE, changed |-> 0]]

\* Two administrators, one of them with a key that expires.
TwoKeys ==
    [k \in {k1, k2, k3} |-> [state |-> IF k = k3 THEN "absent" ELSE "active",
                             role |-> "admin",
                             expires |-> IF k = k2 THEN 1 ELSE NoExpiry,
                             used |-> NoExpiry]]
\* A day, and a unit that parse_duration does not know.
Durations == {[count |-> 1, unit |-> "d"], [count |-> 1, unit |-> "hours"]}

Symmetry == Permutations(Tab) \cup Permutations(Check) \cup Permutations(Admin)
              \cup Permutations(Call)

\* Policies are edited once while two workflows of the first repository call, or twice
\* while one does, or keys rotate and fetches fail while workflows of both call.
OneKind ==
    \/ edits = 0
    \/ /\ published = {1} /\ outages = 0
       /\ edits = 1 \/ \E c \in Check : check[c].step = "idle"
       /\ \A c \in Check : "repo" \in DOMAIN check[c] => check[c].repo = <<"org", "app">>

VARIABLE kind   \* the component that moves

AuthInit ==
    /\ kind \in Moving
    /\ now = 0 /\ SessionInit /\ OidcInit /\ KeysInit

SessionsAlone == kind = "session" /\ SessionNext /\ UNCHANGED <<kind, oidcVars, keyVars>>
OidcAlone == /\ kind = "oidc" /\ OidcNext /\ OneKind'
             /\ UNCHANGED <<kind, sessionVars, keyVars>>
KeysAlone == kind = "key" /\ KeysNext /\ UNCHANGED <<kind, sessionVars, oidcVars>>

AuthNext == SessionsAlone \/ OidcAlone \/ KeysAlone
AuthSpec == AuthInit /\ [][AuthNext]_<<kind, now, sessionVars, oidcVars, keyVars>>
=============================================================================
