------------------------ MODULE MachineAccess_proofs ------------------------
(***************************************************************************)
(* Proofs about ApiKeys, for any number of keys, requests, administrators  *)
(* and commands at the same time, and about OidcAccess, for any number of  *)
(* policies, administrators and verifications and any lifetimes of the two *)
(* caches.  The two have the clock in common and nothing else.             *)
(***************************************************************************)
EXTENDS ApiKeys, OidcAccess, TLAPS

-----------------------------------------------------------------------------
(* ApiKeys: types *)

\* What a request holds between two queries.
CallFields ==
    [step : CallStep \ {"written"}, key : Key \cup {Bootstrap, Cli},
     op : {"use", "create", "revoke", "restore"}, id : Key, canonical : BOOLEAN]
WrittenFields ==
    [step : {"written"}, key : Key, op : {"use", "create", "revoke", "restore"},
     id : Key, canonical : BOOLEAN, row : KeyRow]

KeysInv ==
    /\ KeysTypeOK
    /\ now \in Nat
    /\ call \in [Call -> {Done} \cup CallFields \cup WrittenFields]

\* A duration in days, weeks, months or years is a whole number of days.
LEMMA ExpiryType ==
    ASSUME now \in Nat, NEW d \in Duration
    PROVE  Expiry(d) \in Int
<1>1. d.count \in Int
  BY KeyConstants
<1>2. \A u \in DOMAIN UnitDays : UnitDays[u] \in Int
  BY DEF UnitDays
<1>3. ASSUME d.unit \in DOMAIN UnitDays PROVE d.count * UnitDays[d.unit] \in Int
  <2>1. UnitDays[d.unit] \in Int
    BY <1>2, <1>3
  <2>2. \A a, b \in Int : a * b \in Int
    OBVIOUS
  <2> QED BY <1>1, <2>1, <2>2
<1> DEFINE days == d.count * UnitDays[d.unit]
<1>4. d.unit \in DOMAIN UnitDays => days \in Int
  BY <1>3
<1> HIDE DEF days
<1>5. Expiry(d) = IF d.unit \in DOMAIN UnitDays THEN now + days
                  ELSE IF d.unit = "" THEN now + d.count ELSE NoExpiry
  BY DEF Expiry, days
<1>6. CASE d.unit \in DOMAIN UnitDays
  <2>1. Expiry(d) = now + days
    BY <1>5, <1>6
  <2> QED BY <1>4, <1>6, <2>1
<1>7. CASE d.unit \notin DOMAIN UnitDays
  <2>1. Expiry(d) \in {now + d.count, NoExpiry}
    BY <1>5, <1>7
  <2> QED BY <1>1, <2>1 DEF NoExpiry
<1> QED BY <1>6, <1>7

\* The types hold in the beginning,
LEMMA KeysTypeInit == now = 0 /\ KeysInit => KeysInv
BY KeyConstants DEF KeysInit, KeysInv, KeysTypeOK, Done, KeyRow

\* Every step keeps the types.
LEMMA KeysTypeStep ==
    ASSUME KeysInv, [KeysNext]_<<now, keyVars>>
    PROVE  KeysInv'
<1> USE DEF KeysInv
<1>1. ASSUME NEW r \in Call, BeginCall(r) PROVE KeysInv'
  BY <1>1 DEF BeginCall, CallRecord, KeysTypeOK, CallFields, CallStep, Done, Busy
<1>2. ASSUME NEW r \in Call, GenerateCommand(r) \/ ManageCommand(r) PROVE KeysInv'
  <2>1. PICK o \in {"create", "revoke", "restore"}, i \in Key : TypeCommand(r, o, i)
    BY <1>2 DEF GenerateCommand, ManageCommand
  <2>2. /\ UNCHANGED <<now, keys>>
        /\ call' = [call EXCEPT ![r] = CallRecord(o, Cli, o, i, TRUE)]
    BY <2>1 DEF TypeCommand
  <2> QED BY <2>1, <2>2 DEF CallRecord, KeysTypeOK, CallFields, CallStep, Done
<1>3. ASSUME NEW r \in Call, FindByHash(r) PROVE KeysInv'
  BY <1>3 DEF FindByHash, To, End, KeysTypeOK, CallFields, WrittenFields, CallStep, Done
<1>4. ASSUME NEW r \in Call, ReadForTouch(r) PROVE KeysInv'
  BY <1>4 DEF ReadForTouch, KeysTypeOK, CallFields, WrittenFields, CallStep, Done
<1>5. ASSUME NEW r \in Call, Touch(r) PROVE KeysInv'
  BY <1>5 DEF Touch, Authorized, CallRecord, End, KeysTypeOK, CallFields, WrittenFields,
              CallStep, Done, KeyRow, NoExpiry
<1>12. ASSUME NEW r \in Call, TouchFails(r) PROVE KeysInv'
  BY <1>12 DEF TouchFails, Authorized, CallRecord, End, KeysTypeOK, CallFields, WrittenFields,
               CallStep, Done
<1>6. ASSUME NEW r \in Call, CreateKey(r) PROVE KeysInv'
  BY <1>6, ExpiryType DEF CreateKey, InsertKey, NewKey, End, KeysTypeOK, KeyRow, NoExpiry, Done
<1>7. ASSUME NEW r \in Call, CreateNothing(r) \/ CallFails(r) PROVE KeysInv'
  BY <1>7 DEF CreateNothing, CallFails, End, KeysTypeOK, Done
<1>8. ASSUME NEW r \in Call, FindToRevoke(r) \/ FindToRestore(r) PROVE KeysInv'
  BY <1>8 DEF FindToRevoke, FindToRestore, To, End, KeysTypeOK, CallFields,
              WrittenFields, CallStep, Done
<1>9. ASSUME NEW r \in Call, RevokeKey(r) \/ RestoreKey(r) PROVE KeysInv'
  <2>1. call[r] \in CallFields /\ call[r].id \in Key
    BY <1>9 DEF RevokeKey, RestoreKey, CallFields, WrittenFields, Done
  <2>2. /\ call' = [call EXCEPT ![r] = Done] /\ UNCHANGED now
        /\ \E s \in {"active", "revoked"} : keys' = [keys EXCEPT ![call[r].id].state = s]
    BY <1>9 DEF RevokeKey, RestoreKey, End
  <2>3. PICK s \in {"active", "revoked"} : keys' = [keys EXCEPT ![call[r].id].state = s]
    BY <2>2
  <2> QED BY <2>1, <2>2, <2>3 DEF KeysTypeOK, KeyRow, Done
<1>10. CASE KeysTick
  BY <1>10 DEF KeysTick, keyVars, Advance, KeysTypeOK, Outdated
<1>11. CASE UNCHANGED <<now, keyVars>>
  BY <1>11 DEF keyVars, KeysTypeOK
<1> QED BY <1>1, <1>2, <1>3, <1>4, <1>5, <1>6, <1>7, <1>8, <1>9, <1>10, <1>11, <1>12
        DEF KeysNext

\* and so always.
LEMMA KeysInvCorrect == KeysSpec => []KeysInv
<1> QED BY KeysTypeInit, KeysTypeStep, PTL DEF KeysSpec

\* The types of KeysTypeOK, for any number of keys and requests.
THEOREM KeysTypeCorrect == KeysSpec => []KeysTypeOK
<1>1. KeysInv => KeysTypeOK
  BY DEF KeysInv
<1> QED BY <1>1, KeysInvCorrect, PTL

-----------------------------------------------------------------------------
(* ApiKeys: what becomes of a row *)

\* The steps that write a row, and what they write.
LEMMA KeyWrites ==
    ASSUME KeysInv, [KeysNext]_<<now, keyVars>>
    PROVE  \/ keys' = keys
           \/ \E r \in Call : RestoreKey(r)
           \/ \E r \in Call : call[r].id \in Key /\ RevokeKey(r)
           \/ \E k \in Key : keys' = [keys EXCEPT ![k].used = now]
           \/ \E k \in Key, row \in [state : {"active"}, role : KeyRole, expires : Int,
                                     used : {NoExpiry}] : InsertKey(k, row)
<1>1. ASSUME NEW r \in Call, Touch(r)
      PROVE  \E k \in Key : keys' = [keys EXCEPT ![k].used = now]
  <2>1. call[r].key \in Key
    BY <1>1 DEF Touch, KeysInv, KeysTypeOK, Done
  <2> QED BY <1>1, <2>1 DEF Touch
<1>2. ASSUME NEW r \in Call, CreateKey(r)
      PROVE  \E k \in Key, row \in [state : {"active"}, role : KeyRole, expires : Int,
                                     used : {NoExpiry}] : InsertKey(k, row)
  BY <1>2, ExpiryType DEF CreateKey, NewKey, KeysInv
<1>3. ASSUME NEW r \in Call, RevokeKey(r) PROVE call[r].id \in Key
  BY <1>3 DEF RevokeKey, KeysInv, KeysTypeOK, Done
<1>4. ASSUME NEW r \in Call,
             \/ BeginCall(r) \/ GenerateCommand(r) \/ ManageCommand(r) \/ FindByHash(r)
             \/ ReadForTouch(r) \/ CreateNothing(r) \/ FindToRevoke(r) \/ FindToRestore(r)
             \/ TouchFails(r) \/ CallFails(r)
      PROVE  keys' = keys
  BY <1>4 DEF BeginCall, GenerateCommand, ManageCommand, TypeCommand, FindByHash,
              ReadForTouch, TouchFails, CreateNothing, FindToRevoke, FindToRestore, CallFails
<1>5. CASE KeysTick \/ UNCHANGED <<now, keyVars>>
  BY <1>5 DEF KeysTick, keyVars
<1> QED BY <1>1, <1>2, <1>3, <1>4, <1>5 DEF KeysNext

\* Only a restoration of a revoked key and only a revocation of an active one
\* changes its state, however many requests were using it at the time.
THEOREM RevocationAlwaysHolds == KeysSpec => RevocationHolds
<1> DEFINE Holds(k) ==
      /\ keys[k].state = "revoked" /\ keys'[k].state # "revoked" => Writing("restoreRow", k)
      /\ keys[k].state = "active" /\ keys'[k].state # "active" => Writing("revokeRow", k)
<1>1. ASSUME KeysInv, [KeysNext]_<<now, keyVars>>, NEW k \in Key PROVE Holds(k)
  <2> keys \in [Key -> KeyRow]
    BY <1>1 DEF KeysInv, KeysTypeOK
  <2>1. ASSUME NEW r \in Call, RestoreKey(r) PROVE Holds(k)
    BY <2>1 DEF RestoreKey, KeyRow, Writing
  <2>2. ASSUME NEW r \in Call, call[r].id \in Key, RevokeKey(r) PROVE Holds(k)
    BY <2>2 DEF RevokeKey, KeyRow, Writing
  <2>3. ASSUME NEW l \in Key, keys' = [keys EXCEPT ![l].used = now] PROVE Holds(k)
    BY <2>3 DEF KeyRow
  <2>4. ASSUME NEW l \in Key, NEW row, InsertKey(l, row) PROVE Holds(k)
    BY <2>4 DEF InsertKey
  <2> QED BY <1>1, <2>1, <2>2, <2>3, <2>4, KeyWrites
<1>2. KeysInv /\ [KeysNext]_<<now, keyVars>> => [\A k \in Key : Holds(k)]_<<now, keyVars>>
  BY <1>1
<1> QED BY <1>2, KeysInvCorrect, PTL DEF KeysSpec, RevocationHolds

\* Whatever happens to a key that exists, its expiry stays.
THEOREM ExpiryAlwaysFixed == KeysSpec => ExpiryFixed
<1>1. ASSUME KeysInv, [KeysNext]_<<now, keyVars>>, NEW k \in Key, keys[k].state # "absent"
      PROVE  keys'[k].expires = keys[k].expires
  <2> keys \in [Key -> KeyRow]
    BY <1>1 DEF KeysInv, KeysTypeOK
  <2>1. ASSUME NEW r \in Call, RestoreKey(r) PROVE keys'[k].expires = keys[k].expires
    BY <2>1 DEF RestoreKey, KeyRow
  <2>2. ASSUME NEW r \in Call, RevokeKey(r) PROVE keys'[k].expires = keys[k].expires
    BY <2>2 DEF RevokeKey, KeyRow
  <2>3. ASSUME NEW l \in Key, keys' = [keys EXCEPT ![l].used = now]
        PROVE  keys'[k].expires = keys[k].expires
    BY <2>3 DEF KeyRow
  <2>4. ASSUME NEW l \in Key, NEW row, InsertKey(l, row)
        PROVE  keys'[k].expires = keys[k].expires
    BY <1>1, <2>4 DEF InsertKey
  <2> QED BY <1>1, <2>1, <2>2, <2>3, <2>4, KeyWrites
<1>2. KeysInv /\ [KeysNext]_<<now, keyVars>> =>
        [\A k \in Key : keys[k].state # "absent" =>
            keys'[k].expires = keys[k].expires]_<<now, keyVars>>
  BY <1>1
<1> QED BY <1>2, KeysInvCorrect, PTL DEF KeysSpec, ExpiryFixed

-----------------------------------------------------------------------------
(* ApiKeys: somebody stays in charge *)

SomeAdmin(rows) == \E k \in Key : rows[k].state = "active" /\ rows[k].role = "admin"

\* A request that administers keys is alone, and the key it came with is an
\* active admin key other than the one it revokes.
CallerInCharge(r) ==
    /\ call[r].key \in Key /\ call[r].canonical
    /\ call[r].step # "find" => keys[call[r].key].state = "active"
    /\ call[r].step \notin {"find", "touch", "written"} => keys[call[r].key].role = "admin"
    /\ call[r].step = "revokeRow" => call[r].id # call[r].key

ChargeInv ==
    excuses = {} =>
        /\ \A q, r \in Call : Busy(q) /\ Busy(r) => q = r
        /\ \A r \in Call : Busy(r) => CallerInCharge(r)
        /\ SomeAdmin(keys)

\* The request that moves, and what it leaves of a lonely administrator's call.
LEMMA ChargeStep ==
    ASSUME KeysInv, ChargeInv, [KeysNext]_<<now, keyVars>>
    PROVE  ChargeInv'
<1> USE DEF KeysInv
<1> SUFFICES ASSUME excuses' = {} PROVE ChargeInv'
  BY DEF ChargeInv
<1>1. excuses = {}
  BY ZenonT(30) DEF KeysNext, BeginCall, GenerateCommand, ManageCommand, TypeCommand, FindByHash,
         ReadForTouch, Touch, TouchFails, CreateKey, CreateNothing, FindToRevoke, RevokeKey,
         FindToRestore, RestoreKey, CallFails, KeysTick, keyVars
<1>2. \A q, r \in Call : Busy(q) /\ Busy(r) => q = r
  BY <1>1 DEF ChargeInv
<1>3. \A r \in Call : Busy(r) => CallerInCharge(r)
  BY <1>1 DEF ChargeInv
<1>4. SomeAdmin(keys)
  BY <1>1 DEF ChargeInv
<1>5. ASSUME NEW r \in Call, BeginCall(r) PROVE ChargeInv'
  <2>1. PICK k \in Key \cup {Bootstrap}, o \in {"use", "create", "revoke", "restore"},
             i \in Key, canonical \in BOOLEAN :
          LET record == CallRecord(IF k = Bootstrap THEN o ELSE "find", k, o, i, canonical) IN
            /\ call' = [call EXCEPT ![r] = record]
            /\ excuses' = excuses \cup Excuse(r, record)
    BY ZenonT(30), <1>5 DEF BeginCall
  <2> DEFINE record == CallRecord(IF k = Bootstrap THEN o ELSE "find", k, o, i, canonical)
  <2>2. record.key = k /\ record.canonical = canonical /\ Excuse(r, record) = {}
    BY <2>1 DEF CallRecord
  <2>3. k \in Key /\ canonical /\ \A q \in Call \ {r} : ~Busy(q)
    BY <2>2 DEF Excuse
  <2>4. k # Bootstrap /\ UNCHANGED keys
    BY <1>5, <2>3, KeyConstants DEF BeginCall
  <2>5. call' = [call EXCEPT ![r] = CallRecord("find", k, o, i, TRUE)]
    BY <2>1, <2>3, <2>4
  <2> QED BY <1>4, <2>3, <2>4, <2>5 DEF ChargeInv, CallerInCharge, Busy, SomeAdmin, CallRecord
<1>6. ASSUME NEW r \in Call, GenerateCommand(r) \/ ManageCommand(r) PROVE ChargeInv'
  <2>1. PICK o \in {"create", "revoke", "restore"}, i \in Key : TypeCommand(r, o, i)
    BY <1>6 DEF GenerateCommand, ManageCommand
  <2>2. "no key of its own" \in excuses'
    BY <2>1, KeyConstants DEF TypeCommand, Excuse, CallRecord
  <2> QED BY <2>2
<1>7. ASSUME NEW r \in Call, call[r].step \in CallStep
      PROVE  /\ call[r] \in CallFields \cup WrittenFields /\ Busy(r) /\ CallerInCharge(r)
             /\ \A q \in Call \ {r} : ~Busy(q)
  BY <1>2, <1>3, <1>7 DEF Busy, Done, CallStep
<1>8. ASSUME NEW r \in Call, FindByHash(r) PROVE ChargeInv'
  <2>1. call[r].step \in CallStep
    BY <1>8 DEF FindByHash, CallStep
  <2> QED BY <1>4, <1>7, <1>8, <2>1 DEF FindByHash, Usable, To, End, ChargeInv, CallerInCharge,
            Busy, SomeAdmin, Done, CallFields, WrittenFields, CallStep
<1>9. ASSUME NEW r \in Call, ReadForTouch(r) PROVE ChargeInv'
  <2>1. call[r].step \in CallStep
    BY <1>9 DEF ReadForTouch, CallStep
  <2> QED BY <1>4, <1>7, <1>9, <2>1 DEF ReadForTouch, ChargeInv, CallerInCharge, Busy, SomeAdmin
<1>10. ASSUME NEW r \in Call, Touch(r) PROVE ChargeInv'
  <2>1. call[r].step \in CallStep
    BY <1>10 DEF Touch, CallStep
  <2>2. \A k \in Key : keys'[k].state = keys[k].state /\ keys'[k].role = keys[k].role
    BY <1>10 DEF Touch, KeysTypeOK, KeyRow
  <2> QED BY <1>4, <1>7, <1>10, <2>1, <2>2 DEF Touch, Authorized, CallRecord, End, ChargeInv,
            CallerInCharge, Busy, SomeAdmin, CallFields, WrittenFields, CallStep
<1>18. ASSUME NEW r \in Call, TouchFails(r) PROVE ChargeInv'
  <2>1. call[r].step \in CallStep
    BY <1>18 DEF TouchFails, CallStep
  <2> QED BY <1>4, <1>7, <1>18, <2>1 DEF TouchFails, Authorized, CallRecord, End, ChargeInv,
            CallerInCharge, Busy, SomeAdmin, CallFields, WrittenFields, CallStep
<1>11. ASSUME NEW r \in Call, CreateKey(r) PROVE ChargeInv'
  <2>1. call[r].step \in CallStep /\ call' = [call EXCEPT ![r] = Done]
    BY <1>11 DEF CreateKey, End, CallStep
  <2>2. \A k \in Key : keys[k].state = "active" => keys'[k] = keys[k]
    BY <1>11 DEF CreateKey, InsertKey, KeysTypeOK
  <2> QED BY <1>4, <1>7, <2>1, <2>2 DEF ChargeInv, Busy, SomeAdmin
<1>12. ASSUME NEW r \in Call, CreateNothing(r) \/ CallFails(r) PROVE ChargeInv'
  <2>1. Busy(r) /\ call' = [call EXCEPT ![r] = Done] /\ UNCHANGED keys
    BY <1>12 DEF CreateNothing, CallFails, End, Busy, Done
  <2> QED BY <1>2, <1>4, <2>1 DEF ChargeInv, Busy, SomeAdmin
<1>13. ASSUME NEW r \in Call, FindToRevoke(r) PROVE ChargeInv'
  <2>1. call[r].step \in CallStep
    BY <1>13 DEF FindToRevoke, CallStep
  <2> QED BY <1>4, <1>7, <1>13, <2>1 DEF FindToRevoke, OwnKey, To, End, ChargeInv,
            CallerInCharge, Busy, SomeAdmin, CallFields, WrittenFields, CallStep
<1>14. ASSUME NEW r \in Call, FindToRestore(r) PROVE ChargeInv'
  <2>1. call[r].step \in CallStep
    BY <1>14 DEF FindToRestore, CallStep
  <2> QED BY <1>4, <1>7, <1>14, <2>1 DEF FindToRestore, To, End, ChargeInv,
            CallerInCharge, Busy, SomeAdmin, CallFields, WrittenFields, CallStep
<1>15. ASSUME NEW r \in Call, RevokeKey(r) PROVE ChargeInv'
  <2>1. call[r].step \in CallStep /\ call' = [call EXCEPT ![r] = Done]
    BY <1>15 DEF RevokeKey, End, CallStep
  <2>2. /\ call[r].key \in Key /\ call[r].id # call[r].key
        /\ keys[call[r].key].state = "active" /\ keys[call[r].key].role = "admin"
    BY <1>7, <1>15, <2>1 DEF RevokeKey, CallerInCharge
  <2>3. keys'[call[r].key] = keys[call[r].key]
    BY <1>15, <2>2 DEF RevokeKey, KeysTypeOK
  <2> QED BY <1>7, <2>1, <2>2, <2>3 DEF ChargeInv, Busy, SomeAdmin
<1>16. ASSUME NEW r \in Call, RestoreKey(r) PROVE ChargeInv'
  <2>1. call[r].step \in CallStep /\ call' = [call EXCEPT ![r] = Done]
    BY <1>16 DEF RestoreKey, End, CallStep
  <2>2. \A k \in Key : /\ keys[k].state = "active" => keys'[k].state = "active"
                       /\ keys'[k].role = keys[k].role
    BY <1>16 DEF RestoreKey, KeysTypeOK, KeyRow
  <2> QED BY <1>4, <1>7, <2>1, <2>2 DEF ChargeInv, Busy, SomeAdmin
<1>17. CASE KeysTick \/ UNCHANGED <<now, keyVars>>
  BY <1>2, <1>3, <1>4, <1>17 DEF KeysTick, keyVars, ChargeInv, CallerInCharge, Busy
<1> QED BY <1>5, <1>6, <1>8, <1>9, <1>10, <1>11, <1>12, <1>13, <1>14, <1>15, <1>16, <1>17, <1>18
        DEF KeysNext

\* If an admin key exists in the beginning, one is never revoked as long as
\* requests do not overlap, every caller has a key of its own and ids are spelled
\* as the server spells them: refusing to revoke the own key is then enough,
\* whatever is created, restored or fails on the way.
THEOREM AdminAlwaysRemains == SomeAdmin(Issued) => (KeysSpec => []AdminRemains)
<1>1. SomeAdmin(Issued) /\ KeysInit => ChargeInv
  BY DEF KeysInit, ChargeInv, Busy
<1>2. KeysInv /\ ChargeInv /\ [KeysNext]_<<now, keyVars>> => ChargeInv'
  BY ChargeStep
<1>3. ChargeInv => AdminRemains
  BY DEF ChargeInv, AdminRemains, SomeAdmin
<1> QED BY <1>1, <1>2, <1>3, KeysInvCorrect, PTL DEF KeysSpec

-----------------------------------------------------------------------------
(* OidcAccess: types *)

PolicyRow ==
    [state : {"absent", "active", "deleted"}, pattern : Pattern, role : Role,
     enabled : BOOLEAN, changed : Int]

\* What a verification holds while it looks for its key.
KeySearch ==
    [step : {"keys", "fetch", "forced", "policies", "refused"}, repo : Repo, kid : Int,
     excused : BOOLEAN]
KeysAnswered ==
    [step : {"storeKeys"}, repo : Repo, kid : Int, excused : BOOLEAN, forced : BOOLEAN,
     keys : SUBSET Int, asked : Int]

RowsOK(rows) ==
    \A p \in DOMAIN rows : /\ p \in Policy
                           /\ rows[p].role \in Role /\ rows[p].pattern \in Pattern

CheckTypeOK(c) ==
    /\ check[c].step \in {"keys", "fetch", "forced", "policies"} => check[c] \in KeySearch
    /\ check[c].step = "storeKeys" => check[c] \in KeysAnswered
    /\ check[c].step = "storePolicies" => RowsOK(check[c].rows)

OidcInv ==
    /\ OidcTypeOK
    /\ now \in Nat
    /\ policies \in [Policy -> PolicyRow]
    /\ edit = [a \in Admin |-> edit[a]]
    /\ \A a \in Admin : edit[a].step # "idle" => edit[a].id \in Policy
    /\ check = [c \in Check |-> check[c]]
    /\ \A c \in Check : CheckTypeOK(c)
    /\ policyCache = NoCache \/ RowsOK(policyCache.rows)
    /\ keyCache = NoCache \/ keyCache.keys \subseteq Int
    /\ \E lo, hi \in 1..MaxKid : lo <= hi /\ published = lo..hi

\* The issuer signs with the newest of the keys it publishes.
LEMMA SigningIsNewest ==
    ASSUME NEW lo \in Int, NEW hi \in Int, lo <= hi, published = lo..hi
    PROVE  Signing = hi
<1>1. hi \in published /\ \A l \in published : l <= hi
  OBVIOUS
<1>2. \A k \in published : (\A l \in published : l <= k) => k = hi
  BY <1>1
<1> QED BY <1>1, <1>2 DEF Signing

\* Every key decision leaves a verification searching, refused or at the policies.
LEMMA TryKeysType ==
    ASSUME NEW c \in Check, NEW ks, NEW forced \in BOOLEAN
    PROVE  TryKeys(c, ks, forced) \in {"policies", "forced", "refused"}
BY DEF TryKeys, NextAttempt

\* The outcome of Decide, whatever the rows.
LEMMA DecideType ==
    ASSUME NEW c \in Check, NEW rows, RowsOK(rows), Decide(c, rows)
    PROVE  \E record :
             /\ check' = [check EXCEPT ![c] = record]
             /\ record.step \in {"granted", "refused"}
             /\ record.step = "granted" => record.role \in {"contributor", "viewer"}
<1> DEFINE allowed == [step |-> "granted", by |-> "environment", role |-> "contributor",
                       repo |-> check[c].repo, at |-> now]
           no == [step |-> "refused", excused |-> TRUE]
           by(p) == [step |-> "granted", by |-> p, role |-> PolicyRole(rows[p]),
                     repo |-> check[c].repo, at |-> now]
<1>1. \A p \in DOMAIN rows : PolicyRole(rows[p]) \in {"contributor", "viewer"}
  BY DEF RowsOK, PolicyRole, Role
<1>2. \/ \E p \in DOMAIN rows : check' = [check EXCEPT ![c] = by(p)]
      \/ check' = [check EXCEPT ![c] = allowed]
      \/ check' = [check EXCEPT ![c] = no]
  BY DEF Decide, Put
<1>3. ASSUME NEW p \in DOMAIN rows, check' = [check EXCEPT ![c] = by(p)]
      PROVE  \E record : /\ check' = [check EXCEPT ![c] = record]
                         /\ record.step \in {"granted", "refused"}
                         /\ record.step = "granted" => record.role \in {"contributor", "viewer"}
  <2>1. by(p).step = "granted" /\ by(p).role \in {"contributor", "viewer"}
    BY <1>1
  <2> HIDE DEF by
  <2> QED BY <1>3, <2>1
<1>4. /\ allowed.step = "granted" /\ allowed.role = "contributor"
      /\ no.step = "refused"
  OBVIOUS
<1> HIDE DEF allowed, no, by
<1> QED BY <1>2, <1>3, <1>4

\* The types hold in the beginning,
LEMMA OidcTypeInit == now = 0 /\ OidcInit => OidcInv
<1> SUFFICES ASSUME now = 0, OidcInit PROVE OidcInv
  OBVIOUS
<1>1. published = 1..1 /\ 1 \in 1..MaxKid
  BY OidcConstants DEF OidcInit
<1>2. \E lo, hi \in 1..MaxKid : lo <= hi /\ published = lo..hi
  BY <1>1
<1>3. policies \in [Policy -> PolicyRow] /\ \A p \in Policy : policies[p].changed = 0
  BY OidcConstants DEF OidcInit, PolicyRow
<1>4. OidcTypeOK
  BY <1>1, <1>3, OidcConstants, MaxNowNat
     DEF OidcInit, OidcTypeOK, PolicyRow, Resting, NoCache
<1>5. \A c \in Check : CheckTypeOK(c)
  BY DEF OidcInit, CheckTypeOK, Resting
<1> QED BY <1>2, <1>3, <1>4, <1>5 DEF OidcInit, OidcInv, Resting, NoCache

\* Nothing but the administrators writes the table, and every write dates the row.
LEMMA PolicyWrites ==
    ASSUME OidcInv, [OidcNext]_<<now, oidcVars>>
    PROVE  /\ policies' \in [Policy -> PolicyRow]
           /\ \A p \in Policy :
                /\ policies'[p] = policies[p] \/ policies'[p].changed = now
                /\ policies[p].state = "deleted" => policies'[p].state = "deleted"
<1> DEFINE Goal == /\ policies' \in [Policy -> PolicyRow]
                   /\ \A p \in Policy :
                        /\ policies'[p] = policies[p] \/ policies'[p].changed = now
                        /\ policies[p].state = "deleted" => policies'[p].state = "deleted"
<1> USE DEF OidcInv
<1>1. CASE CreatePolicy
  BY <1>1 DEF CreatePolicy, PolicyRow, Role
<1>2. ASSUME NEW a \in Admin, UpdatePolicy(a) \/ DeletePolicy(a)
      PROVE  Goal
  <2>1. edit[a].id \in Policy
    BY <1>2 DEF UpdatePolicy, DeletePolicy
  <2> DEFINE old == policies[edit[a].id]
  <2>2. old \in PolicyRow
    BY <2>1
  <2>3. ASSUME NEW new \in PolicyRow, new.changed = now,
               old.state = "deleted" => new.state = "deleted",
               policies' = [policies EXCEPT ![edit[a].id] = new]
        PROVE  Goal
    BY <2>1, <2>3
  <2> HIDE DEF old
  <2> now \in Int
    OBVIOUS
  <2>4. CASE UpdatePolicy(a)
    <3>1. PICK q \in {old.pattern} \cup {x \in Pattern : HasOrg(x) \/ x = <<>>},
               r \in {old.role} \cup (Role \ {"admin"}), e \in BOOLEAN :
            \/ policies' = policies
            \/ policies' = [policies EXCEPT ![edit[a].id] =
                   [old EXCEPT !.pattern = q, !.role = r, !.enabled = e, !.changed = now]]
      BY <2>4 DEF UpdatePolicy, WriteRow, old
    <3> DEFINE new == [old EXCEPT !.pattern = q, !.role = r, !.enabled = e, !.changed = now]
    <3>2. new \in PolicyRow /\ new.changed = now /\ new.state = old.state
      <4>1. q \in Pattern /\ r \in Role
        BY <2>2 DEF PolicyRow
      <4> QED BY <2>2, <4>1 DEF PolicyRow
    <3>3. CASE policies' = policies
      BY <3>3
    <3> HIDE DEF new, Goal
    <3> QED BY <2>3, <3>1, <3>2, <3>3 DEF new
  <2>5. CASE DeletePolicy(a)
    <3> DEFINE new == [old EXCEPT !.state = "deleted", !.changed = now]
    <3>1. new \in PolicyRow /\ new.changed = now /\ new.state = "deleted"
      BY <2>2 DEF PolicyRow
    <3>2. policies' = [policies EXCEPT ![edit[a].id] = new]
      BY <2>1, <2>5 DEF DeletePolicy, old, PolicyRow
    <3> HIDE DEF new, Goal
    <3> QED BY <2>3, <3>1, <3>2
  <2> QED BY <1>2, <2>4, <2>5
<1>3. CASE \/ \E a \in Admin : FindPolicy(a)
           \/ \E c \in Check : \/ Begin(c) \/ FindKey(c) \/ FetchKeys(c) \/ StoreKeys(c)
                               \/ FetchFails(c) \/ UseCachedPolicies(c) \/ ReadPolicies(c)
                               \/ ReadPoliciesFails(c) \/ StorePolicies(c)
           \/ PublishKey \/ WithdrawKeys \/ OidcTick \/ UNCHANGED <<now, oidcVars>>
  <2>1. policies' = policies
    BY <1>3 DEF FindPolicy, Begin, FindKey, FetchKeys, StoreKeys, FetchFails,
                UseCachedPolicies, ReadPolicies, ReadPoliciesFails, StorePolicies,
                PublishKey, WithdrawKeys, OidcTick, oidcVars
  <2> QED BY <2>1
<1> QED BY <1>1, <1>2, <1>3 DEF OidcNext

\* An administrator's step leaves the verifications and the caches alone.
LEMMA AdminTypeStep ==
    ASSUME OidcInv,
           \/ CreatePolicy
           \/ \E a \in Admin : FindPolicy(a) \/ UpdatePolicy(a) \/ DeletePolicy(a)
    PROVE  OidcInv'
<1> USE DEF OidcInv
<1>1. policies' \in [Policy -> PolicyRow]
  BY PolicyWrites DEF OidcNext
<1>2. \A p \in Policy : policies'[p].changed \in 0..now
  BY PolicyWrites DEF OidcNext, OidcTypeOK
<1>3. UNCHANGED <<now, policyCache, keyCache, published, check>>
  BY DEF CreatePolicy, FindPolicy, UpdatePolicy, DeletePolicy, WriteRow
<1>4. \/ edit' = edit
      \/ \E a \in Admin : edit' = [edit EXCEPT ![a] = Resting]
      \/ \E a \in Admin, p \in Policy, s \in {"update", "delete"} :
           edit' = [edit EXCEPT ![a] = [step |-> s, id |-> p, row |-> policies[p]]]
  <2>1. ASSUME NEW a \in Admin, FindPolicy(a)
        PROVE  \E p \in Policy, s \in {"update", "delete"} :
                 edit' = [edit EXCEPT ![a] = [step |-> s, id |-> p, row |-> policies[p]]]
    BY <2>1 DEF FindPolicy
  <2>2. ASSUME NEW a \in Admin, UpdatePolicy(a) \/ DeletePolicy(a)
        PROVE  edit' = [edit EXCEPT ![a] = Resting]
    BY <2>2 DEF UpdatePolicy, DeletePolicy, WriteRow
  <2>3. CreatePolicy => edit' = edit
    BY DEF CreatePolicy
  <2> QED BY <2>1, <2>2, <2>3
<1>5. /\ edit' = [a \in Admin |-> edit'[a]]
      /\ \A a \in Admin : /\ edit'[a].step \in {"idle", "update", "delete"}
                          /\ edit'[a].step # "idle" => edit'[a].id \in Policy
  BY <1>4 DEF OidcTypeOK, Resting
<1>6. OidcTypeOK'
  BY <1>1, <1>2, <1>3, <1>5 DEF OidcTypeOK, PolicyRow
<1>7. (\A c \in Check : CheckTypeOK(c))'
  BY <1>3 DEF CheckTypeOK
<1> QED BY <1>1, <1>3, <1>5, <1>6, <1>7

\* A verification's step: what it puts into its record, and into a cache.
LEMMA CheckTypeStep ==
    ASSUME OidcInv, NEW c \in Check,
           UNCHANGED <<now, policies, edit, published>>,
           NEW record, check' = [check EXCEPT ![c] = record],
           record.step \in Checking \cup {"granted", "refused"},
           record.step = "granted" => record.role \in {"contributor", "viewer"},
           record.step \in {"keys", "fetch", "forced", "policies"} => record \in KeySearch,
           record.step = "storeKeys" => record \in KeysAnswered,
           record.step = "storePolicies" => RowsOK(record.rows),
           UNCHANGED policyCache \/ (policyCache'.fetched = now /\ RowsOK(policyCache'.rows)),
           UNCHANGED keyCache \/ (keyCache'.fetched = now /\ keyCache'.keys \subseteq Int)
    PROVE  OidcInv'
<1> USE DEF OidcInv
<1>1. check'[c] = record /\ check' = [d \in Check |-> check'[d]]
      /\ \A d \in Check \ {c} : check'[d] = check[d]
  OBVIOUS
<1>2. policyCache'.fetched \in -1..now /\ keyCache'.fetched \in -1..now
  BY DEF OidcTypeOK
<1>3. OidcTypeOK'
  BY <1>1, <1>2 DEF OidcTypeOK
<1>4. \A d \in Check : CheckTypeOK(d)'
  BY <1>1 DEF CheckTypeOK
<1>5. /\ policyCache' = NoCache \/ RowsOK(policyCache'.rows)
      /\ keyCache' = NoCache \/ keyCache'.keys \subseteq Int
  OBVIOUS
<1> QED BY <1>1, <1>3, <1>4, <1>5

\* The issuer's step: new keys, and marks on the verifications under way.
LEMMA IssuerTypeStep ==
    ASSUME OidcInv, NEW lo \in 1..MaxKid, NEW hi \in 1..MaxKid, lo <= hi, published' = lo..hi,
           UNCHANGED <<now, policies, edit, policyCache, keyCache>>,
           check' = [c \in Check |-> check'[c]],
           \A c \in Check : /\ CheckTypeOK(c)' /\ check'[c].step = check[c].step
                            /\ check[c].step = "granted" => check'[c] = check[c]
    PROVE  OidcInv'
<1>1. \E lo2, hi2 \in 1..MaxKid : lo2 <= hi2 /\ published' = lo2..hi2
  OBVIOUS
<1>2. published' # {} /\ published' \subseteq 1..MaxKid
  <2>1. lo \in published'
    OBVIOUS
  <2> QED BY <2>1, OidcConstants
<1>3. OidcTypeOK'
  BY <1>2 DEF OidcInv, OidcTypeOK
<1> QED BY <1>1, <1>3 DEF OidcInv

\* every step keeps them,
LEMMA OidcTypeStep ==
    ASSUME OidcInv, [OidcNext]_<<now, oidcVars>>
    PROVE  OidcInv'
<1> USE DEF OidcInv
<1>1. ASSUME NEW c \in Check, Begin(c) PROVE OidcInv'
  <2>1. Signing \in Int
    BY SigningIsNewest
  <2>2. PICK repo \in Repo : check' = [check EXCEPT ![c] =
           [step |-> "keys", repo |-> repo, kid |-> Signing, excused |-> FALSE]]
    BY <1>1 DEF Begin, Put
  <2> DEFINE record == [step |-> "keys", repo |-> repo, kid |-> Signing, excused |-> FALSE]
  <2>3. record \in KeySearch /\ record.step = "keys"
    BY <2>1 DEF KeySearch
  <2> QED BY <1>1, <2>2, <2>3, CheckTypeStep DEF Begin, Checking
<1> DEFINE Searching(c, s, e) == [check[c] EXCEPT !.step = s, !.excused = e]
<1>2. ASSUME NEW c \in Check, check[c] \in KeySearch,
             NEW s \in {"fetch", "policies", "forced", "refused"}, NEW e \in BOOLEAN,
             check' = [check EXCEPT ![c] = Searching(c, s, e)],
             UNCHANGED <<now, policies, edit, published, policyCache, keyCache>>
      PROVE  OidcInv'
  <2>1. Searching(c, s, e) \in KeySearch /\ Searching(c, s, e).step = s
    BY <1>2 DEF KeySearch
  <2> QED BY <1>2, <2>1, CheckTypeStep DEF Checking
<1>3. ASSUME NEW c \in Check, FindKey(c) PROVE OidcInv'
  <2>1. check[c] \in KeySearch
    BY <1>3 DEF FindKey, CheckTypeOK
  <2>2. PICK s \in {"fetch", "policies", "forced", "refused"} :
           check' = [check EXCEPT ![c] = [check[c] EXCEPT !.step = s]]
    BY <1>3, TryKeysType DEF FindKey, Move, Put
  <2>3. [check[c] EXCEPT !.step = s] = Searching(c, s, check[c].excused)
        /\ check[c].excused \in BOOLEAN
    BY <2>1 DEF KeySearch
  <2> QED BY <1>2, <1>3, <2>1, <2>2, <2>3 DEF FindKey
<1>4. ASSUME NEW c \in Check, FetchFails(c) PROVE OidcInv'
  <2>1. check[c] \in KeySearch
    BY <1>4 DEF FetchFails, CheckTypeOK
  <2>2. PICK s \in {"fetch", "policies", "forced", "refused"} :
           check' = [check EXCEPT ![c] = [check[c] EXCEPT !.excused = TRUE, !.step = s]]
    BY <1>4, <2>1, TryKeysType DEF FetchFails, Put, KeySearch
  <2>3. [check[c] EXCEPT !.excused = TRUE, !.step = s] = Searching(c, s, TRUE)
    BY <2>1 DEF KeySearch
  <2> QED BY <1>2, <1>4, <2>1, <2>2, <2>3 DEF FetchFails
<1>5. ASSUME NEW c \in Check, FetchKeys(c) PROVE OidcInv'
  <2> DEFINE record == [step |-> "storeKeys", repo |-> check[c].repo, kid |-> check[c].kid,
                        excused |-> check[c].excused, forced |-> check[c].step = "forced",
                        keys |-> published, asked |-> now]
  <2>1. check[c] \in KeySearch /\ published \subseteq Int
    BY <1>5 DEF FetchKeys, CheckTypeOK, OidcTypeOK
  <2>2. record \in KeysAnswered /\ record.step = "storeKeys"
    BY <2>1 DEF KeySearch, KeysAnswered
  <2>3. check' = [check EXCEPT ![c] = record]
    BY <1>5 DEF FetchKeys, Put
  <2> QED BY <1>5, <2>2, <2>3, CheckTypeStep DEF FetchKeys, Checking
<1>6. ASSUME NEW c \in Check, StoreKeys(c) PROVE OidcInv'
  <2> DEFINE s == TryKeys(c, check[c].keys, check[c].forced)
             record == [step |-> s, repo |-> check[c].repo, kid |-> check[c].kid,
                        excused |-> check[c].excused]
  <2>1. check[c] \in KeysAnswered
    BY <1>6 DEF StoreKeys, CheckTypeOK
  <2>2. s \in {"policies", "forced", "refused"}
    BY <2>1, TryKeysType DEF KeysAnswered
  <2> HIDE DEF s
  <2>3. record \in KeySearch /\ record.step = s
    BY <2>1, <2>2 DEF KeySearch, KeysAnswered
  <2>4. /\ check' = [check EXCEPT ![c] = record]
        /\ keyCache' = [keys |-> check[c].keys, fetched |-> now]
        /\ UNCHANGED <<now, policies, edit, published, policyCache>>
    BY <1>6 DEF StoreKeys, Put, s
  <2>5. keyCache'.fetched = now /\ keyCache'.keys \subseteq Int
    BY <2>1, <2>4 DEF KeysAnswered
  <2> QED BY <2>2, <2>3, <2>4, <2>5, CheckTypeStep DEF Checking
<1>7. ASSUME NEW c \in Check, UseCachedPolicies(c) PROVE OidcInv'
  <2>1. RowsOK(policyCache.rows) /\ Decide(c, policyCache.rows)
    BY <1>7 DEF UseCachedPolicies, Fresh
  <2>2. PICK record : /\ check' = [check EXCEPT ![c] = record]
                      /\ record.step \in {"granted", "refused"}
                      /\ record.step = "granted" => record.role \in {"contributor", "viewer"}
    BY <2>1, DecideType
  <2> QED BY <1>7, <2>2, CheckTypeStep DEF UseCachedPolicies, Checking
<1>8. ASSUME NEW c \in Check, ReadPolicies(c) PROVE OidcInv'
  <2> DEFINE rows == [p \in Enabled |-> [pattern |-> policies[p].pattern,
                                         role |-> policies[p].role]]
             record == [step |-> "storePolicies", repo |-> check[c].repo, asked |-> now,
                        rows |-> rows]
  <2>1. RowsOK(rows)
    BY DEF RowsOK, Enabled, PolicyRow
  <2>2. check' = [check EXCEPT ![c] = record]
    BY <1>8 DEF ReadPolicies, Put
  <2>3. record.step = "storePolicies" /\ record.rows = rows
    OBVIOUS
  <2> HIDE DEF record, rows
  <2> QED BY <1>8, <2>1, <2>2, <2>3, CheckTypeStep DEF ReadPolicies, Checking
<1>9. ASSUME NEW c \in Check, StorePolicies(c) PROVE OidcInv'
  <2>1. RowsOK(check[c].rows) /\ Decide(c, check[c].rows)
    BY <1>9 DEF StorePolicies, CheckTypeOK
  <2>2. PICK record : /\ check' = [check EXCEPT ![c] = record]
                      /\ record.step \in {"granted", "refused"}
                      /\ record.step = "granted" => record.role \in {"contributor", "viewer"}
    BY <2>1, DecideType
  <2>3. policyCache'.fetched = now /\ RowsOK(policyCache'.rows)
    BY <1>9, <2>1 DEF StorePolicies
  <2> QED BY <1>9, <2>2, <2>3, CheckTypeStep DEF StorePolicies, Checking
<1>10. PICK lo \in 1..MaxKid, hi \in 1..MaxKid :
         lo <= hi /\ published = lo..hi /\ Signing = hi
  BY SigningIsNewest
<1>11. CASE PublishKey
  <2>1. published' = lo..(hi + 1) /\ hi + 1 \in 1..MaxKid
    BY <1>10, <1>11, OidcConstants DEF PublishKey
  <2>2. UNCHANGED <<now, policies, edit, policyCache, keyCache, check>>
    BY <1>11 DEF PublishKey
  <2>3. \A c \in Check : CheckTypeOK(c)' /\ check'[c] = check[c]
    BY <2>2 DEF CheckTypeOK
  <2>4. check' = [c \in Check |-> check'[c]]
    BY <2>2
  <2> HIDE DEF OidcInv
  <2> QED BY <1>10, <2>1, <2>2, <2>3, <2>4, IssuerTypeStep
<1>12. CASE WithdrawKeys
  <2>1. published' = hi..hi
    BY <1>10, <1>12 DEF WithdrawKeys
  <2>2. UNCHANGED <<now, policies, edit, policyCache, keyCache>>
    BY <1>12 DEF WithdrawKeys
  <2>3. \A c \in Check : \/ check'[c] = check[c]
                         \/ /\ check[c].step \in {"keys", "fetch", "forced", "storeKeys"}
                            /\ check'[c] = [check[c] EXCEPT !.excused = TRUE]
    BY <1>12 DEF WithdrawKeys
  <2>4. \A c \in Check : /\ CheckTypeOK(c)' /\ check'[c].step = check[c].step
                         /\ check[c].step = "granted" => check'[c] = check[c]
    <3> TAKE c \in Check
    <3>1. CASE check'[c] = check[c]
      BY <3>1 DEF CheckTypeOK
    <3>2. CASE /\ check[c].step \in {"keys", "fetch", "forced", "storeKeys"}
               /\ check'[c] = [check[c] EXCEPT !.excused = TRUE]
      <4>1. \/ check[c] \in KeySearch /\ check'[c] \in KeySearch
            \/ check[c] \in KeysAnswered /\ check'[c] \in KeysAnswered
        BY <3>2 DEF CheckTypeOK, KeySearch, KeysAnswered
      <4>2. check'[c].step = check[c].step
        BY <3>2, <4>1 DEF KeySearch, KeysAnswered
      <4> QED BY <3>2, <4>1, <4>2 DEF CheckTypeOK, KeySearch, KeysAnswered
    <3> QED BY <2>3, <3>1, <3>2
  <2>5. check' = [c \in Check |-> check'[c]]
    BY <1>12 DEF WithdrawKeys
  <2> HIDE DEF OidcInv
  <2> QED BY <1>10, <2>1, <2>2, <2>4, <2>5, IssuerTypeStep
<1>13. CASE OidcTick \/ UNCHANGED <<now, oidcVars>>
  <2>1. UNCHANGED oidcVars /\ now' \in {now, now + 1} /\ now' \in 0..MaxNow
    BY <1>13, MaxNowNat DEF OidcTick, Advance, oidcVars, OidcTypeOK
  <2> QED BY SMTT(30), <2>1 DEF oidcVars, OidcTypeOK, CheckTypeOK
<1>14. ASSUME NEW c \in Check, ReadPoliciesFails(c) PROVE OidcInv'
  <2> DEFINE record == [step |-> "refused", excused |-> TRUE]
  <2>1. check' = [check EXCEPT ![c] = record] /\ record.step = "refused"
    BY <1>14 DEF ReadPoliciesFails, Put
  <2> HIDE DEF record
  <2> QED BY <1>14, <2>1, CheckTypeStep DEF ReadPoliciesFails
<1> QED BY <1>1, <1>3, <1>4, <1>5, <1>6, <1>7, <1>8, <1>9, <1>11, <1>12, <1>13, <1>14,
           AdminTypeStep DEF OidcNext

\* and so they always hold.
LEMMA OidcInvCorrect == OidcSpec => []OidcInv
<1> QED BY OidcTypeInit, OidcTypeStep, PTL DEF OidcSpec

\* The types of OidcTypeOK; in particular no workflow is ever granted the admin
\* role, whatever an operator has put into the table.
THEOREM OidcTypeCorrect == OidcSpec => []OidcTypeOK
<1>1. OidcInv => OidcTypeOK
  BY DEF OidcInv
<1> QED BY <1>1, OidcInvCorrect, PTL

\* However the two queries of an update and of a deletion interleave, a deleted
\* policy stays deleted.
THEOREM DeletedAlwaysStaysDeleted == OidcSpec => DeletedStaysDeleted
<1>1. OidcInv /\ [OidcNext]_<<now, oidcVars>> =>
        [\A p \in Policy : policies[p].state = "deleted" =>
            policies'[p].state = "deleted"]_<<now, oidcVars>>
  BY PolicyWrites
<1> QED BY <1>1, OidcInvCorrect, PTL DEF OidcSpec, DeletedStaysDeleted

-----------------------------------------------------------------------------
(* OidcAccess: a policy that is changed stops counting *)

\* Row p is as it was read, or has been written since.
Vouched(p, read, since) ==
    \/ /\ policies[p].state = "active" /\ policies[p].enabled
       /\ policies[p].role = read.role /\ policies[p].pattern = read.pattern
    \/ policies[p].changed >= since

RowsVouched(rows, since) == \A p \in DOMAIN rows : Vouched(p, rows[p], since)

\* What ChangedPolicyFades says of one verification.
Faded(c) ==
    check[c].step = "granted" /\ check[c].by \in Policy =>
        LET row == policies[check[c].by] IN
        \/ /\ row.state = "active" /\ row.enabled
           /\ PolicyRole(row) = check[c].role
           /\ Matches(row.pattern, check[c].repo)
        \/ check[c].at - row.changed < PolicyTTL + FetchTime

\* The rows of a reader are at most one query old, and those of the cache were
\* read at most one query before they were dated.
CheckFades(c) ==
    /\ check[c].step \in {"storeKeys", "storePolicies"} =>
           check[c].asked \in Int /\ now - check[c].asked \in 0..FetchTime
    /\ check[c].step = "storePolicies" => RowsVouched(check[c].rows, check[c].asked)
    /\ check[c].step = "granted" => check[c].at \in Int /\ check[c].at <= now
    /\ Faded(c)

FadeInv ==
    /\ policyCache = NoCache \/ RowsVouched(policyCache.rows, policyCache.fetched - FetchTime)
    /\ \A c \in Check : CheckFades(c)

\* A row stays as it was read until a write dates it.
LEMMA VouchedStays ==
    ASSUME OidcInv, [OidcNext]_<<now, oidcVars>>, NEW rows, RowsOK(rows),
           NEW since \in Int, since <= now, RowsVouched(rows, since)
    PROVE  RowsVouched(rows, since)'
BY PolicyWrites DEF RowsVouched, Vouched, RowsOK, OidcInv, OidcTypeOK

\* A verification decides on rows that are young enough.
LEMMA DecisionFades ==
    ASSUME OidcInv, NEW c \in Check, NEW rows, RowsOK(rows), Decide(c, rows),
           UNCHANGED <<now, policies>>,
           NEW since \in Int, RowsVouched(rows, since), now - since < PolicyTTL + FetchTime
    PROVE  Faded(c)' /\ (check'[c].step = "granted" => check'[c].at = now)
<1> USE DEF OidcInv
<1>1. CASE check' = [check EXCEPT ![c] = [step |-> "refused", excused |-> TRUE]]
  BY <1>1 DEF Faded
<1>2. CASE check' = [check EXCEPT ![c] = [step |-> "granted", by |-> "environment",
                                          role |-> "contributor",
                                          repo |-> check[c].repo, at |-> now]]
  BY <1>2, OidcConstants DEF Faded
<1>3. ASSUME NEW p \in DOMAIN rows, Matches(rows[p].pattern, check[c].repo),
             check' = [check EXCEPT ![c] = [step |-> "granted", by |-> p,
                           role |-> PolicyRole(rows[p]),
                           repo |-> check[c].repo, at |-> now]]
      PROVE  Faded(c)' /\ (check'[c].step = "granted" => check'[c].at = now)
  <2>1. p \in Policy /\ Vouched(p, rows[p], since) /\ policies[p].changed \in Int
    BY DEF RowsOK, RowsVouched, PolicyRow
  <2>2. /\ check'[c].by = p /\ check'[c].at = now /\ check'[c].role = PolicyRole(rows[p])
        /\ check'[c].repo = check[c].repo
    BY <1>3
  <2>3. policies[p].role = rows[p].role => PolicyRole(policies[p]) = PolicyRole(rows[p])
    BY DEF PolicyRole
  <2>4. now - policies[p].changed < PolicyTTL + FetchTime \/ ~(policies[p].changed >= since)
    BY SMTT(30), <2>1, OidcConstants
  <2> QED BY <1>3, <2>1, <2>2, <2>3, <2>4 DEF Faded, Vouched
<1> QED BY <1>1, <1>2, <1>3 DEF Decide, Put

\* A granted role stays explained: a write of its policy is later than the grant.
LEMMA FadedStays ==
    ASSUME OidcInv, FadeInv, [OidcNext]_<<now, oidcVars>>, NEW c \in Check,
           check'[c] = check[c]
    PROVE  Faded(c)'
<1> SUFFICES ASSUME check[c].step = "granted", check[c].by \in Policy PROVE Faded(c)'
  BY DEF Faded
<1>1. check[c].at \in Int /\ check[c].at <= now /\ now \in Int /\ Faded(c)
  BY DEF FadeInv, CheckFades, OidcInv
<1>2. \/ policies'[check[c].by] = policies[check[c].by]
      \/ policies'[check[c].by].changed = now
  BY PolicyWrites
<1>3. check[c].at - now < PolicyTTL + FetchTime
  BY <1>1, OidcConstants
<1> QED BY <1>1, <1>2, <1>3 DEF Faded, PolicyRole

\* A verification that does not move, or is only excused.
LEMMA RestingFades ==
    ASSUME OidcInv, FadeInv, [OidcNext]_<<now, oidcVars>>, UNCHANGED now, NEW c \in Check,
           \/ check'[c] = check[c]
           \/ /\ check[c].step \in {"keys", "fetch", "forced", "storeKeys"}
              /\ check'[c] = [check[c] EXCEPT !.excused = TRUE]
    PROVE  CheckFades(c)'
<1>1. CheckFades(c) /\ CheckTypeOK(c) /\ now \in Nat
  BY DEF FadeInv, OidcInv
<1>2. CASE check'[c] = check[c]
  <2> DEFINE rows == check[c].rows
             since == check[c].asked
  <2>1. ASSUME NEW rs, NEW t, rs = rows, t = since, check[c].step = "storePolicies"
        PROVE  RowsVouched(rs, t)'
    <3>1. t \in Int /\ t <= now /\ RowsOK(rs) /\ RowsVouched(rs, t)
      BY <1>1, <2>1, OidcConstants DEF CheckFades, CheckTypeOK
    <3> QED BY <3>1, VouchedStays
  <2>2. Faded(c)'
    BY <1>2, FadedStays
  <2>3. check[c].step = "storePolicies" => RowsVouched(rows, since)'
    BY <1>2, <2>1 DEF RowsVouched, Vouched
  <2> QED BY <1>1, <1>2, <2>2, <2>3 DEF CheckFades
<1>3. CASE /\ check[c].step \in {"keys", "fetch", "forced", "storeKeys"}
           /\ check'[c] = [check[c] EXCEPT !.excused = TRUE]
  <2>1. check[c] \in KeySearch \cup KeysAnswered
    BY <1>1, <1>3 DEF CheckTypeOK
  <2> QED BY <1>1, <1>3, <2>1 DEF CheckFades, Faded, KeySearch, KeysAnswered
<1> QED BY <1>2, <1>3

\* The verification that moves.
LEMMA MovingFades ==
    ASSUME OidcInv, FadeInv, [OidcNext]_<<now, oidcVars>>, NEW c \in Check,
           \/ Begin(c) \/ FindKey(c) \/ FetchKeys(c) \/ StoreKeys(c) \/ FetchFails(c)
           \/ UseCachedPolicies(c) \/ ReadPolicies(c) \/ ReadPoliciesFails(c)
           \/ StorePolicies(c)
    PROVE  /\ CheckFades(c)'
           /\ UNCHANGED policyCache
                \/ RowsVouched(policyCache.rows, policyCache.fetched - FetchTime)'
<1> now \in Nat /\ check = [d \in Check |-> check[d]] /\ CheckTypeOK(c) /\ CheckFades(c)
  BY DEF OidcInv, FadeInv
<1> FetchTime \in Nat /\ PolicyTTL \in Nat /\ PolicyTTL > 0
  BY OidcConstants
<1>1. CASE Begin(c) \/ FindKey(c) \/ StoreKeys(c) \/ FetchFails(c) \/ ReadPoliciesFails(c)
  <2>1. check'[c].step \in {"keys", "fetch", "forced", "policies", "refused"}
    <3>1. CASE Begin(c)
      BY <3>1 DEF Begin, Put
    <3>2. CASE FindKey(c)
      BY <3>2, TryKeysType DEF FindKey, Move, Put, CheckTypeOK, KeySearch
    <3>3. CASE StoreKeys(c)
      BY <3>3, TryKeysType DEF StoreKeys, Put, CheckTypeOK, KeysAnswered
    <3>4. CASE FetchFails(c)
      BY <3>4, TryKeysType DEF FetchFails, Put, CheckTypeOK, KeySearch
    <3>5. CASE ReadPoliciesFails(c)
      BY <3>5 DEF ReadPoliciesFails, Put
    <3> QED BY <1>1, <3>1, <3>2, <3>3, <3>4, <3>5
  <2>2. UNCHANGED policyCache
    BY <1>1 DEF Begin, FindKey, StoreKeys, FetchFails, ReadPoliciesFails
  <2> QED BY <2>1, <2>2 DEF CheckFades, Faded
<1>2. CASE FetchKeys(c)
  BY <1>2 DEF FetchKeys, Put, CheckFades, Faded
<1>3. CASE ReadPolicies(c)
  <2> DEFINE rows == [p \in Enabled |-> [pattern |-> policies[p].pattern,
                                         role |-> policies[p].role]]
  <2>1. /\ check'[c].step = "storePolicies" /\ check'[c].asked = now /\ check'[c].rows = rows
        /\ UNCHANGED <<now, policies, policyCache>>
    BY <1>3 DEF ReadPolicies, Put
  <2>2. \A p \in DOMAIN rows : Vouched(p, rows[p], now)
    BY DEF Enabled, Vouched
  <2>3. RowsVouched(check[c].rows, check[c].asked)'
    BY <2>1, <2>2 DEF RowsVouched, Vouched
  <2> QED BY <2>1, <2>3 DEF CheckFades, Faded
<1>4. CASE UseCachedPolicies(c)
  <2> DEFINE since == policyCache.fetched - FetchTime
  <2>1. /\ policyCache # NoCache /\ now - policyCache.fetched < PolicyTTL
        /\ Decide(c, policyCache.rows) /\ UNCHANGED <<now, policies, policyCache>>
    BY <1>4 DEF UseCachedPolicies, Fresh
  <2>2. policyCache.fetched \in Int /\ RowsOK(policyCache.rows)
    BY <2>1 DEF OidcInv, OidcTypeOK
  <2>3. /\ since \in Int /\ RowsVouched(policyCache.rows, since)
        /\ now - since < PolicyTTL + FetchTime
    BY <2>1, <2>2 DEF FadeInv
  <2>4. Faded(c)' /\ (check'[c].step = "granted" => check'[c].at = now)
    BY <2>1, <2>2, <2>3, DecisionFades
  <2>5. check'[c].step \in {"granted", "refused"}
    BY <2>1, <2>2, DecideType
  <2> QED BY <2>1, <2>4, <2>5 DEF CheckFades
<1>5. CASE StorePolicies(c)
  <2> DEFINE since == check[c].asked
  <2>1. /\ check[c].step = "storePolicies" /\ Decide(c, check[c].rows)
        /\ policyCache' = [rows |-> check[c].rows, fetched |-> now]
        /\ UNCHANGED <<now, policies>>
    BY <1>5 DEF StorePolicies
  <2>2. /\ since \in Int /\ now - since \in 0..FetchTime
        /\ RowsOK(check[c].rows) /\ RowsVouched(check[c].rows, since)
    BY <2>1 DEF CheckFades, CheckTypeOK
  <2>3. now - since < PolicyTTL + FetchTime
    BY <2>2
  <2>4. Faded(c)' /\ (check'[c].step = "granted" => check'[c].at = now)
    BY <2>1, <2>2, <2>3, DecisionFades
  <2>5. check'[c].step \in {"granted", "refused"}
    BY <2>1, <2>2, DecideType
  <2>6. \A p \in DOMAIN check[c].rows : policies[p].changed \in Int
    BY <2>2 DEF RowsOK, OidcInv, PolicyRow
  <2>7. RowsVouched(policyCache.rows, policyCache.fetched - FetchTime)'
    BY <2>1, <2>2, <2>6 DEF RowsVouched, Vouched
  <2> QED BY <2>1, <2>4, <2>5, <2>7 DEF CheckFades
<1> QED BY <1>1, <1>2, <1>3, <1>4, <1>5

\* Every step keeps the bounds on what a changed policy still decides,
LEMMA FadeStep ==
    ASSUME OidcInv, FadeInv, [OidcNext]_<<now, oidcVars>>
    PROVE  FadeInv'
<1> now \in Nat /\ check = [c \in Check |-> check[c]]
  BY DEF OidcInv
<1> FetchTime \in Nat
  BY OidcConstants
<1> DEFINE CacheFades == policyCache = NoCache
                         \/ RowsVouched(policyCache.rows, policyCache.fetched - FetchTime)
<1>1. UNCHANGED policyCache => CacheFades'
  BY VouchedStays DEF FadeInv, OidcInv, OidcTypeOK
<1>2. ASSUME NEW c \in Check,
             \/ Begin(c) \/ FindKey(c) \/ FetchKeys(c) \/ StoreKeys(c) \/ FetchFails(c)
             \/ UseCachedPolicies(c) \/ ReadPolicies(c) \/ ReadPoliciesFails(c)
             \/ StorePolicies(c)
      PROVE  FadeInv'
  <2>1. \A d \in Check \ {c} : check'[d] = check[d]
    BY <1>2 DEF Begin, FindKey, FetchKeys, StoreKeys, FetchFails, UseCachedPolicies,
                ReadPolicies, ReadPoliciesFails, StorePolicies, Put, Move, Decide
  <2>2. UNCHANGED now
    BY <1>2 DEF Begin, FindKey, FetchKeys, StoreKeys, FetchFails, UseCachedPolicies,
                ReadPolicies, ReadPoliciesFails, StorePolicies
  <2>3. \A d \in Check : CheckFades(d)'
    BY <1>2, <2>1, <2>2, RestingFades, MovingFades
  <2> QED BY <1>1, <1>2, <2>3, MovingFades DEF FadeInv
<1>3. CASE \/ CreatePolicy \/ PublishKey \/ WithdrawKeys \/ UNCHANGED <<now, oidcVars>>
           \/ \E a \in Admin : FindPolicy(a) \/ UpdatePolicy(a) \/ DeletePolicy(a)
  <2>1. UNCHANGED <<now, policyCache>>
    BY <1>3 DEF CreatePolicy, PublishKey, WithdrawKeys, oidcVars, FindPolicy, UpdatePolicy,
                DeletePolicy, WriteRow
  <2>2. \A c \in Check : \/ check'[c] = check[c]
                         \/ /\ check[c].step \in {"keys", "fetch", "forced", "storeKeys"}
                            /\ check'[c] = [check[c] EXCEPT !.excused = TRUE]
    BY <1>3 DEF CreatePolicy, PublishKey, WithdrawKeys, oidcVars, FindPolicy, UpdatePolicy,
                DeletePolicy, WriteRow
  <2>3. \A c \in Check : CheckFades(c)'
    BY <2>1, <2>2, RestingFades
  <2> QED BY <1>1, <2>1, <2>3 DEF FadeInv
<1>4. CASE OidcTick
  <2>1. /\ UNCHANGED oidcVars /\ now' = now + 1
        /\ \A c \in Check : check[c].step \in {"storeKeys", "storePolicies"} =>
                               now - check[c].asked < FetchTime
    BY <1>4 DEF OidcTick, Advance
  <2>2. \A c \in Check : CheckFades(c)'
    BY <2>1 DEF FadeInv, CheckFades, Faded, RowsVouched, Vouched, oidcVars
  <2> QED BY <1>1, <2>1, <2>2 DEF FadeInv, oidcVars
<1> QED BY <1>2, <1>3, <1>4 DEF OidcNext

\* and so they always hold.
LEMMA FadeInvCorrect == OidcSpec => []FadeInv
<1>1. now = 0 /\ OidcInit => FadeInv
  BY DEF OidcInit, FadeInv, CheckFades, Faded, Resting
<1> QED BY <1>1, OidcInvCorrect, FadeStep, PTL DEF OidcSpec

\* A changed, disabled or deleted policy stops counting within the lifetime of the
\* cache and one query, for any number of verifications that fill the cache late
\* and in any order.
THEOREM ChangedPolicyAlwaysFades == OidcSpec => []ChangedPolicyFades
<1>1. FadeInv => ChangedPolicyFades
  BY DEF FadeInv, CheckFades, Faded, ChangedPolicyFades
<1> QED BY <1>1, FadeInvCorrect, PTL

-----------------------------------------------------------------------------
(* OidcAccess: key rotation *)

\* Until it has fetched keys, a verification without an excuse looks for a key
\* that is published; then it holds it.
KeyInReach(c) ==
    /\ check[c].step \in {"keys", "fetch", "forced"} =>
           check[c].excused \/ check[c].kid \in published
    /\ check[c].step = "storeKeys" => check[c].excused \/ check[c].kid \in check[c].keys
    /\ check[c].step = "refused" => check[c].excused

ReachInv == \A c \in Check : KeyInReach(c)

\* A search that is not forced ends at the policies or is forced.
LEMMA UnforcedSearch ==
    ASSUME NEW c \in Check, NEW ks
    PROVE  TryKeys(c, ks, FALSE) \in {"policies", "forced"}
BY DEF TryKeys, NextAttempt

\* Every step keeps a published key within reach of a search that is not excused.
LEMMA ReachStep ==
    ASSUME OidcInv, ReachInv, [OidcNext]_<<now, oidcVars>>
    PROVE  ReachInv'
<1> check = [c \in Check |-> check[c]] /\ \A c \in Check : CheckTypeOK(c) /\ KeyInReach(c)
  BY DEF OidcInv, ReachInv
<1>1. ASSUME NEW c \in Check, KeyInReach(c)', UNCHANGED published,
             \A d \in Check \ {c} : check'[d] = check[d]
      PROVE  ReachInv'
  BY <1>1 DEF ReachInv, KeyInReach
<1>2. PICK lo \in 1..MaxKid, hi \in 1..MaxKid : lo <= hi /\ published = lo..hi /\ Signing = hi
  BY SigningIsNewest DEF OidcInv
<1>3. ASSUME NEW c \in Check, Begin(c) PROVE ReachInv'
  <2>1. KeyInReach(c)'
    BY <1>2, <1>3 DEF Begin, Put, KeyInReach
  <2> QED BY <1>1, <1>3, <2>1 DEF Begin, Put
<1>4. ASSUME NEW c \in Check, FindKey(c) PROVE ReachInv'
  <2>1. check[c] \in KeySearch
    BY <1>4 DEF FindKey, CheckTypeOK
  <2>2. PICK s \in {"fetch", "policies", "forced"} :
           check' = [check EXCEPT ![c] = [check[c] EXCEPT !.step = s]]
    BY <1>4, UnforcedSearch DEF FindKey, Move, Put
  <2>3. KeyInReach(c)'
    BY <1>4, <2>1, <2>2 DEF FindKey, KeyInReach, KeySearch
  <2> QED BY <1>1, <1>4, <2>2, <2>3 DEF FindKey
<1>5. ASSUME NEW c \in Check, FetchFails(c) PROVE ReachInv'
  <2>1. check[c] \in KeySearch
    BY <1>5 DEF FetchFails, CheckTypeOK
  <2>2. check'[c].excused /\ check'[c].step # "storeKeys"
    BY <1>5, <2>1, UnforcedSearch DEF FetchFails, Put, KeySearch
  <2> QED BY <1>1, <1>5, <2>2 DEF FetchFails, Put, KeyInReach
<1>6. ASSUME NEW c \in Check, FetchKeys(c) PROVE ReachInv'
  <2>1. KeyInReach(c)'
    BY <1>6 DEF FetchKeys, Put, KeyInReach
  <2> QED BY <1>1, <1>6, <2>1 DEF FetchKeys, Put
<1>7. ASSUME NEW c \in Check, StoreKeys(c) PROVE ReachInv'
  <2> DEFINE s == TryKeys(c, check[c].keys, check[c].forced)
  <2>1. check' = [check EXCEPT ![c] = [step |-> s, repo |-> check[c].repo,
                     kid |-> check[c].kid, excused |-> check[c].excused]]
    BY <1>7 DEF StoreKeys, Put
  <2>2. s = "policies" \/ check[c].excused
    BY <1>7 DEF StoreKeys, TryKeys, KeyInReach
  <2>3. s \in {"policies", "forced", "refused"}
    BY <1>7, TryKeysType DEF StoreKeys, CheckTypeOK, KeysAnswered
  <2> HIDE DEF s
  <2>4. KeyInReach(c)'
    BY <2>1, <2>2, <2>3 DEF KeyInReach
  <2> QED BY <1>1, <1>7, <2>1, <2>4 DEF StoreKeys
<1>8. ASSUME NEW c \in Check,
             UseCachedPolicies(c) \/ ReadPolicies(c) \/ ReadPoliciesFails(c) \/ StorePolicies(c)
      PROVE  ReachInv'
  <2>1. KeyInReach(c)'
    BY <1>8 DEF UseCachedPolicies, ReadPolicies, ReadPoliciesFails, StorePolicies, Decide,
                Put, KeyInReach
  <2> QED BY <1>1, <1>8, <2>1
          DEF UseCachedPolicies, ReadPolicies, ReadPoliciesFails, StorePolicies, Decide, Put
<1>9. CASE PublishKey
  BY <1>9 DEF PublishKey, ReachInv, KeyInReach
<1>10. CASE WithdrawKeys
  <2>1. ASSUME NEW c \in Check PROVE KeyInReach(c)'
    <3>1. CASE /\ check[c].step \in {"keys", "fetch", "forced", "storeKeys"}
               /\ check[c].kid # Signing
      <4>1. check'[c] = [check[c] EXCEPT !.excused = TRUE]
        BY <1>10, <3>1 DEF WithdrawKeys
      <4>2. check[c] \in KeySearch \cup KeysAnswered
        BY <3>1 DEF CheckTypeOK
      <4>3. check'[c].step = check[c].step /\ check'[c].excused
        BY <4>1, <4>2 DEF KeySearch, KeysAnswered
      <4> QED BY <4>3 DEF KeyInReach
    <3>2. CASE ~ (/\ check[c].step \in {"keys", "fetch", "forced", "storeKeys"}
                  /\ check[c].kid # Signing)
      <4>1. check'[c] = check[c] /\ published' = {Signing}
        BY <1>10, <3>2 DEF WithdrawKeys
      <4> QED BY <3>2, <4>1 DEF KeyInReach
    <3> QED BY <3>1, <3>2
  <2> QED BY <2>1 DEF ReachInv
<1>11. CASE \/ CreatePolicy \/ OidcTick \/ UNCHANGED <<now, oidcVars>>
            \/ \E a \in Admin : FindPolicy(a) \/ UpdatePolicy(a) \/ DeletePolicy(a)
  <2>1. UNCHANGED <<published, check>>
    BY <1>11 DEF CreatePolicy, OidcTick, oidcVars, FindPolicy, UpdatePolicy, DeletePolicy,
                 WriteRow
  <2> QED BY <2>1 DEF ReachInv, KeyInReach
<1> QED BY <1>3, <1>4, <1>5, <1>6, <1>7, <1>8, <1>9, <1>10, <1>11 DEF OidcNext

\* Rotation of the keys refuses nobody whose key is published, however many
\* verifications share the cache and in whatever order they fill it.
THEOREM PublishedKeyAlwaysAccepted == OidcSpec => []PublishedKeyAccepted
<1>1. now = 0 /\ OidcInit => ReachInv
  BY DEF OidcInit, ReachInv, KeyInReach, Resting
<1>2. ReachInv => PublishedKeyAccepted
  BY DEF ReachInv, KeyInReach, PublishedKeyAccepted
<1> QED BY <1>1, <1>2, OidcInvCorrect, ReachStep, PTL DEF OidcSpec
=============================================================================
