----------------------------- MODULE OidcAccess -----------------------------
(* GitHub Actions workflows authenticate with OIDC tokens: the verifier of    *)
(* services/github_oidc.rs with its two caches, the policies administrators   *)
(* keep (services/oidc_policy.rs, db/github_oidc_policies.rs) and the issuer  *)
(* that rotates its keys.  Tokens are genuine: what is modelled is which key  *)
(* and which policies a verification meets.  A repository is a sequence of    *)
(* path components, a pattern too.                                            *)
EXTENDS Clock, Sequences

CONSTANTS
    Repo,          \* repositories whose workflows call
    Pattern,       \* patterns administrators use
    AllowedRepos,  \* TSIO_GITHUB_OIDC_ALLOWED_REPOS
    Policy,        \* ids of policy rows
    Seeded,        \* the rows an operator has put into the database
    Admin,         \* requests of administrators
    Check,         \* verifications
    PolicyTTL,     \* POLICY_CACHE_TTL
    KeyTTL,        \* JWKS_CACHE_TTL
    FetchTime,     \* JWKS_REQUEST_TIMEOUT, and the longest query of policies
    MaxKid,        \* bound: keys the issuer ever has
    MaxEdits,      \* bound: requests of administrators
    MaxOutages     \* bound: fetches of keys and queries of policies that fail

Role == {"admin", "contributor", "viewer"}

ASSUME OidcConstants ==
    /\ {PolicyTTL, KeyTTL, FetchTime, MaxKid, MaxEdits, MaxOutages} \subseteq Nat
    /\ PolicyTTL > 0 /\ KeyTTL > 0 /\ MaxKid > 0
    /\ "environment" \notin Policy
    /\ Repo \cup Pattern \subseteq Seq(STRING)
    /\ Seeded \in [Policy -> [state : {"absent", "active"}, pattern : Pattern,
                              role : Role, enabled : BOOLEAN, changed : {0}]]

VARIABLES
    policies,     \* github_oidc_policies: [Policy -> row]
    edit,         \* [Admin -> what the request does]
    policyCache,  \* None, or [rows, fetched]
    keyCache,     \* None, or [keys, fetched]
    published,    \* the keys the issuer publishes; it signs with the newest
    check,        \* [Check -> the state of the verification]
    edits, outages

oidcVars == <<policies, edit, policyCache, keyCache, published, check, edits, outages>>

NoCache == [fetched |-> -1]
Signing == CHOOSE k \in published : \A l \in published : l <= k
Resting == [step |-> "idle"]
Enabled == {p \in Policy : policies[p].state = "active" /\ policies[p].enabled}

OidcInit ==
    /\ policies = Seeded
    /\ edit = [a \in Admin |-> Resting]
    /\ policyCache = NoCache /\ keyCache = NoCache
    /\ published = {1}
    /\ check = [c \in Check |-> Resting]
    /\ edits = 0 /\ outages = 0

------------------------------------------------------------------------------
(* Administrators *)

HasOrg(pattern) == Len(pattern) > 1

\* idx_oidc_policies_pattern_active
PatternTaken(pattern, id) ==
    \E p \in Policy \ {id} : policies[p].state = "active" /\ policies[p].pattern = pattern

\* create_policy: an unknown role becomes contributor; admin is refused.
CreatePolicy ==
    \E p \in Policy, pattern \in Pattern, r \in Role \ {"admin"} :
        /\ edits < MaxEdits /\ edits' = edits + 1
        /\ policies[p].state = "absent" /\ HasOrg(pattern)
        /\ ~PatternTaken(pattern, p)
        /\ policies' = [policies EXCEPT ![p] =
               [state |-> "active", pattern |-> pattern, role |-> r,
                enabled |-> TRUE, changed |-> now]]
        /\ UNCHANGED <<now, edit, policyCache, keyCache, published, check, outages>>

\* update_policy and delete_policy read the row and write it in a second query.
FindPolicy(a) ==
    /\ edit[a] = Resting /\ edits < MaxEdits
    /\ edits' = edits + 1
    /\ \E p \in Policy, s \in {"update", "delete"} :
         /\ policies[p].state = "active"
         /\ edit' = [edit EXCEPT ![a] = [step |-> s, id |-> p, row |-> policies[p]]]
    /\ UNCHANGED <<now, policies, policyCache, keyCache, published, check, outages>>

\* A request may set any of the columns, in one UPDATE.  A new pattern needs an
\* organisation, or is empty (and then matches nothing); one that is taken makes
\* the index refuse the whole request.
WriteRow(a, row) ==
    /\ \E q \in {row.pattern} \cup {x \in Pattern : HasOrg(x) \/ x = <<>>},
          r \in {row.role} \cup (Role \ {"admin"}), e \in BOOLEAN :
         IF row.state = "active" /\ PatternTaken(q, edit[a].id)
         THEN UNCHANGED policies
         ELSE policies' = [policies EXCEPT ![edit[a].id] =
                  [row EXCEPT !.pattern = q, !.role = r, !.enabled = e, !.changed = now]]
    /\ edit' = [edit EXCEPT ![a] = Resting]
    /\ UNCHANGED <<now, policyCache, keyCache, published, check, edits, outages>>

UpdateWholeRow(a) == edit[a].step = "update" /\ WriteRow(a, edit[a].row)

\* The columns that the request leaves out stay as the table has them by now.
UpdatePolicy(a) == edit[a].step = "update" /\ WriteRow(a, policies[edit[a].id])

DeletePolicy(a) ==
    /\ edit[a].step = "delete"
    /\ policies' = [policies EXCEPT ![edit[a].id].state = "deleted",
                                    ![edit[a].id].changed = now]
    /\ edit' = [edit EXCEPT ![a] = Resting]
    /\ UNCHANGED <<now, policyCache, keyCache, published, check, edits, outages>>

------------------------------------------------------------------------------
(* Keys: find_key_with_retry and get_or_fetch_keys *)

Put(c, record) == check' = [check EXCEPT ![c] = record]
Move(c, s) == Put(c, [check[c] EXCEPT !.step = s])

\* verify_token: a token signed with the key the issuer uses now.
Begin(c) ==
    /\ check[c].step \in {"idle", "granted", "refused"}
    /\ \E repo \in Repo :
         Put(c, [step |-> "keys", repo |-> repo, kid |-> Signing,
                 excused |-> FALSE])
    /\ UNCHANGED <<now, policies, edit, policyCache, keyCache, published, edits, outages>>

\* The first attempt with keys, then a forced refresh, then the end.
RefuseAtOnce(forced) == "refused"
NextAttempt(forced) == IF forced THEN "refused" ELSE "forced"

TryKeys(c, keys, forced) ==
    IF check[c].kid \in keys THEN "policies" ELSE NextAttempt(forced)

FreshTooLong(cache, ttl) == cache # NoCache /\ now - cache.fetched <= ttl
Fresh(cache, ttl) == cache # NoCache /\ now - cache.fetched < ttl

FindKey(c) ==
    /\ check[c].step = "keys"
    /\ Move(c, IF Fresh(keyCache, KeyTTL) THEN TryKeys(c, keyCache.keys, FALSE)
                                          ELSE "fetch")
    /\ UNCHANGED <<now, policies, edit, policyCache, keyCache, published, edits, outages>>

\* fetch_jwks: the answer has the keys published when the issuer sent it.
FetchKeys(c) ==
    /\ check[c].step \in {"fetch", "forced"}
    /\ Put(c, [step |-> "storeKeys", repo |-> check[c].repo, kid |-> check[c].kid,
               excused |-> check[c].excused, forced |-> check[c].step = "forced",
               keys |-> published, asked |-> now])
    /\ UNCHANGED <<now, policies, edit, policyCache, keyCache, published, edits, outages>>

StoreKeys(c) ==
    /\ check[c].step = "storeKeys"
    /\ keyCache' = [keys |-> check[c].keys, fetched |-> now]
    /\ Put(c, [step |-> TryKeys(c, check[c].keys, check[c].forced),
               repo |-> check[c].repo, kid |-> check[c].kid,
               excused |-> check[c].excused])
    /\ UNCHANGED <<now, policies, edit, policyCache, published, edits, outages>>

\* The fetch fails: without force, keys of any age are better than none.
FetchFails(c) ==
    /\ check[c].step \in {"fetch", "forced"} /\ outages < MaxOutages
    /\ outages' = outages + 1
    /\ Put(c, [check[c] EXCEPT
                 !.excused = TRUE,
                 !.step = IF @ = "fetch" /\ keyCache # NoCache
                          THEN TryKeys(c, keyCache.keys, FALSE) ELSE "refused"])
    /\ UNCHANGED <<now, policies, edit, policyCache, keyCache, published, edits>>

\* The issuer publishes a new key, or withdraws all but the one it signs with.
PublishKey ==
    /\ Signing < MaxKid
    /\ published' = published \cup {Signing + 1}
    /\ UNCHANGED <<now, policies, edit, policyCache, keyCache, check, edits, outages>>

\* A token signed with a withdrawn key may be refused.
WithdrawKeys ==
    /\ published # {Signing}
    /\ published' = {Signing}
    /\ check' = [c \in Check |->
           IF check[c].step \in {"keys", "fetch", "forced", "storeKeys"}
               /\ check[c].kid # Signing
           THEN [check[c] EXCEPT !.excused = TRUE] ELSE check[c]]
    /\ UNCHANGED <<now, policies, edit, policyCache, keyCache, edits, outages>>

------------------------------------------------------------------------------
(* Policies: resolve_role and get_or_fetch_policies *)

\* matches_pattern
Matches(pattern, repo) ==
    /\ HasOrg(pattern)
    /\ IF pattern[Len(pattern)] = "*"
       THEN /\ Len(repo) >= Len(pattern)
            /\ \A i \in 1..(Len(pattern) - 1) : repo[i] = pattern[i]
       ELSE pattern = repo

UnclampedRole(row) == row.role
PolicyRole(row) == IF row.role = "admin" THEN "contributor" ELSE row.role

\* The rows in the order the database returns them, which nothing fixes: any
\* match may be the first.  Without one, the allow-list of the environment.
Decide(c, rows) ==
    LET repo == check[c].repo
        matching == {p \in DOMAIN rows : Matches(rows[p].pattern, repo)} IN
    \/ \E p \in matching :
         Put(c, [step |-> "granted", by |-> p, role |-> PolicyRole(rows[p]),
                 repo |-> repo, at |-> now])
    \/ /\ matching = {}
       /\ \E pattern \in AllowedRepos : Matches(pattern, repo)
       /\ Put(c, [step |-> "granted", by |-> "environment", role |-> "contributor",
                  repo |-> repo, at |-> now])
    \/ /\ matching = {}
       /\ \A pattern \in AllowedRepos : ~Matches(pattern, repo)
       /\ Put(c, [step |-> "refused", excused |-> TRUE])

UseCachedPolicies(c) ==
    /\ check[c].step = "policies" /\ Fresh(policyCache, PolicyTTL)
    /\ Decide(c, policyCache.rows)
    /\ UNCHANGED <<now, policies, edit, policyCache, keyCache, published, edits, outages>>

\* list_enabled
ReadPolicies(c) ==
    /\ check[c].step = "policies" /\ ~Fresh(policyCache, PolicyTTL)
    /\ Put(c, [step |-> "storePolicies", repo |-> check[c].repo, asked |-> now,
               rows |-> [p \in Enabled |-> [pattern |-> policies[p].pattern,
                                            role |-> policies[p].role]]])
    /\ UNCHANGED <<now, policies, edit, policyCache, keyCache, published, edits, outages>>

\* Rows in the cache that are too old are no help: the token is refused.
ReadPoliciesFails(c) ==
    /\ check[c].step = "policies" /\ ~Fresh(policyCache, PolicyTTL)
    /\ outages < MaxOutages /\ outages' = outages + 1
    /\ Put(c, [step |-> "refused", excused |-> TRUE])
    /\ UNCHANGED <<now, policies, edit, policyCache, keyCache, published, edits>>

\* The rows read may be older than the ones another verification has cached.
StorePolicies(c) ==
    /\ check[c].step = "storePolicies"
    /\ policyCache' = [rows |-> check[c].rows, fetched |-> now]
    /\ Decide(c, check[c].rows)
    /\ UNCHANGED <<now, policies, edit, keyCache, published, edits, outages>>

\* Time: a fetch or a query takes at most FetchTime.
OidcTick ==
    /\ \A c \in Check : check[c].step \in {"storeKeys", "storePolicies"} =>
                            now - check[c].asked < FetchTime
    /\ Advance
    /\ UNCHANGED oidcVars

OidcNext ==
    \/ CreatePolicy
    \/ \E a \in Admin : FindPolicy(a) \/ UpdatePolicy(a) \/ DeletePolicy(a)
    \/ \E c \in Check : \/ Begin(c) \/ FindKey(c) \/ FetchKeys(c) \/ StoreKeys(c)
                        \/ FetchFails(c) \/ UseCachedPolicies(c) \/ ReadPolicies(c)
                        \/ ReadPoliciesFails(c) \/ StorePolicies(c)
    \/ PublishKey \/ WithdrawKeys \/ OidcTick

OidcSpec == now = 0 /\ OidcInit /\ [][OidcNext]_<<now, oidcVars>>

------------------------------------------------------------------------------
(* Properties *)

Checking == {"keys", "fetch", "forced", "storeKeys", "policies", "storePolicies"}

\* Types; in particular no verification grants admin, whatever is in the table.
OidcTypeOK ==
    /\ now \in 0..MaxNow
    /\ \A p \in Policy : /\ policies[p].state \in {"absent", "active", "deleted"}
                         /\ policies[p].pattern \in Pattern
                         /\ policies[p].role \in Role
                         /\ policies[p].changed \in 0..now
    /\ \A a \in Admin : edit[a].step \in {"idle", "update", "delete"}
    /\ published # {} /\ published \subseteq 1..MaxKid
    /\ policyCache.fetched \in -1..now /\ keyCache.fetched \in -1..now
    /\ \A c \in Check : /\ check[c].step \in Checking \cup {"idle", "granted", "refused"}
                        /\ check[c].step = "granted" =>
                               check[c].role \in {"contributor", "viewer"}

\* A policy that was deleted, disabled or changed stops counting in bounded time:
\* the policy that grants a role to a repository has that role and a pattern that
\* matches the repository, or had them until less than POLICY_CACHE_TTL and one
\* query ago, even when a slow reader puts old rows into the cache with a new date.
ChangedPolicyFades ==
    \A c \in Check :
        check[c].step = "granted" /\ check[c].by \in Policy =>
            LET row == policies[check[c].by] IN
            \/ /\ row.state = "active" /\ row.enabled
               /\ PolicyRole(row) = check[c].role
               /\ Matches(row.pattern, check[c].repo)
            \/ check[c].at - row.changed < PolicyTTL + FetchTime

\* Key rotation locks nobody out: a token signed with a published key is refused
\* only when a fetch of keys or a query of policies failed, its key was withdrawn
\* meanwhile, or no policy allows its repository, however old the cache is and
\* whoever writes it.
PublishedKeyAccepted ==
    \A c \in Check : check[c].step = "refused" => check[c].excused

\* An update that read a policy before it was deleted does not bring it back.
DeletedStaysDeleted ==
    [][\A p \in Policy : policies[p].state = "deleted" =>
            policies'[p].state = "deleted"]_<<now, oidcVars>>
==============================================================================
