------------------------------- MODULE ApiKeys -------------------------------
(* API keys: verification on every request (services/api_key.rs), the         *)
(* administration of keys over HTTP (services/auth_admin.rs) and from the     *)
(* command line (bin/generate_api_key.rs, bin/manage_api_keys.rs), and the    *)
(* table they share (db/api_keys.rs).  Each query is a step.                  *)
EXTENDS Clock

CONSTANTS
    Key,          \* ids of rows; whoever has a key knows its secret
    Issued,       \* the rows at the beginning
    Call,         \* requests and commands
    Duration,     \* what callers write in expires_in: [count, unit]
    MaxCalls      \* bound: requests and commands in a run

Bootstrap == "admin"          \* the bootstrap key, or an administrator's session
Cli == "cli"                  \* the operator at the command line
NoExpiry == -1
KeyRole == {"admin", "contributor", "viewer"}
KeyRow == [state : {"absent", "active", "revoked"}, role : KeyRole,
           expires : Int, used : Int]

ASSUME KeyConstants ==
    /\ Issued \in [Key -> KeyRow]
    /\ \A k \in Key : Issued[k].used \in {NoExpiry, 0}
    /\ Duration \subseteq [count : Int, unit : STRING]
    /\ MaxCalls \in Nat
    /\ {Bootstrap, Cli} \cap Key = {}

VARIABLES
    keys,     \* api_keys: [Key -> row]
    call,     \* [Call -> what the request does]
    calls,
    excuses   \* history: what may leave nobody in charge of the keys

keyVars == <<keys, call, calls, excuses>>

Done == [step |-> "idle"]
\* is_expired
Outdated(row) == row.expires # NoExpiry /\ now > row.expires
Usable(k) == keys[k].state = "active" /\ ~Outdated(keys[k])
Busy(r) == call[r] # Done
To(r, s) == call' = [call EXCEPT ![r].step = s]
End(r) == call' = [call EXCEPT ![r] = Done]

KeysInit ==
    /\ keys = Issued
    /\ call = [r \in Call |-> Done]
    /\ calls = 0 /\ excuses = {}

\* parse_duration: days unless a unit says otherwise; what it cannot read counts
\* as absent, and the key never expires.
UnitDays == [d |-> 1, w |-> 7, m |-> 30, y |-> 365]
Expiry(duration) ==
    IF duration.unit \in DOMAIN UnitDays
    THEN now + duration.count * UnitDays[duration.unit]
    ELSE IF duration.unit = "" THEN now + duration.count
    ELSE NoExpiry

------------------------------------------------------------------------------
(* A request arrives with a key, or an operator types a command *)

\* An id in a path is compared as text and then parsed as a UUID, which may be
\* spelled in several ways.
CallRecord(s, k, o, i, canonical) ==
    [step |-> s, key |-> k, op |-> o, id |-> i, canonical |-> canonical]

Excuse(r, record) ==
    (IF \E q \in Call \ {r} : Busy(q) THEN {"overlap"} ELSE {})
      \cup (IF record.key \notin Key THEN {"no key of its own"} ELSE {})
      \cup (IF record.canonical THEN {} ELSE {"spelling"})

BeginCall(r) ==
    /\ ~Busy(r) /\ calls < MaxCalls
    /\ calls' = calls + 1
    /\ \E k \in Key \cup {Bootstrap}, o \in {"use", "create", "revoke", "restore"},
          i \in Key, canonical \in BOOLEAN :
         /\ k \in Key => keys[k].state # "absent"
         /\ ~canonical => o = "revoke"
         /\ LET record == CallRecord(IF k = Bootstrap THEN o ELSE "find", k, o, i, canonical) IN
            /\ call' = [call EXCEPT ![r] = record]
            /\ excuses' = excuses \cup Excuse(r, record)
    /\ UNCHANGED <<now, keys>>

TypeCommand(r, o, i) ==
    LET record == CallRecord(o, Cli, o, i, TRUE) IN
    /\ ~Busy(r) /\ calls < MaxCalls
    /\ calls' = calls + 1
    /\ call' = [call EXCEPT ![r] = record]
    /\ excuses' = excuses \cup Excuse(r, record)
    /\ UNCHANGED <<now, keys>>

\* generate-api-key, and manage-api-keys revoke and restore
GenerateCommand(r) == \E i \in Key : TypeCommand(r, "create", i)
ManageCommand(r) == \E o \in {"revoke", "restore"}, i \in Key : TypeCommand(r, o, i)

\* verify_key: find_by_hash finds revoked rows too.
FindByHash(r) ==
    /\ call[r].step = "find"
    /\ IF Usable(call[r].key) THEN To(r, "touch") ELSE End(r)
    /\ UNCHANGED <<now, keys, calls, excuses>>

\* update_last_used reads the row and writes one column.
ReadForTouch(r) ==
    /\ call[r].step = "touch"
    /\ call' = [call EXCEPT ![r] =
           [step |-> "written", key |-> @.key, op |-> @.op, id |-> @.id,
            canonical |-> @.canonical, row |-> keys[@.key]]]
    /\ UNCHANGED <<now, keys, calls, excuses>>

\* Then the handler: anything but use needs the admin role.
Authorized(r) ==
    IF call[r].op # "use" /\ keys[call[r].key].role = "admin"
    THEN call' = [call EXCEPT ![r] = CallRecord(@.op, @.key, @.op, @.id, @.canonical)]
    ELSE End(r)

TouchWholeRow(r) ==
    /\ call[r].step = "written"
    /\ keys' = [keys EXCEPT ![call[r].key] = [call[r].row EXCEPT !.used = now]]
    /\ Authorized(r)
    /\ UNCHANGED <<now, calls, excuses>>

Touch(r) ==
    /\ call[r].step = "written"
    /\ keys' = [keys EXCEPT ![call[r].key].used = now]
    /\ Authorized(r)
    /\ UNCHANGED <<now, calls, excuses>>

\* verify_key ignores a failed update_last_used, and the request goes on.
TouchFails(r) ==
    /\ call[r].step \in {"touch", "written"}
    /\ Authorized(r)
    /\ UNCHANGED <<now, keys, calls, excuses>>

------------------------------------------------------------------------------
(* Administration *)

\* generate_key
NewKey(role, duration) ==
    [state |-> "active", role |-> role, expires |-> Expiry(duration), used |-> NoExpiry]

\* insert_api_key
InsertKey(k, row) == keys[k].state = "absent" /\ keys' = [keys EXCEPT ![k] = row]

\* create_api_key: an unknown or absent role is contributor.
CreateKey(r) ==
    /\ call[r].step = "create"
    /\ \E k \in Key, role \in KeyRole, duration \in Duration :
         InsertKey(k, NewKey(role, duration))
    /\ End(r)
    /\ UNCHANGED <<now, calls, excuses>>

\* There is no id left for another key in this instance.
CreateNothing(r) ==
    /\ call[r].step = "create" /\ \A k \in Key : keys[k].state # "absent"
    /\ End(r)
    /\ UNCHANGED <<now, keys, calls, excuses>>

\* revoke_api_key, then the two queries of revoke: find, and write deleted_at.
OwnKeyNever(r) == FALSE
OwnKey(r) == call[r].canonical /\ call[r].id = call[r].key

FindToRevoke(r) ==
    /\ call[r].step = "revoke"
    /\ IF ~OwnKey(r) /\ keys[call[r].id].state = "active"
       THEN To(r, "revokeRow") ELSE End(r)
    /\ UNCHANGED <<now, keys, calls, excuses>>

RevokeKey(r) ==
    /\ call[r].step = "revokeRow"
    /\ keys' = [keys EXCEPT ![call[r].id].state = "revoked"]
    /\ End(r)
    /\ UNCHANGED <<now, calls, excuses>>

\* restore_api_key: likewise; an expired key is restored and stays expired.
FindToRestoreAny(r) ==
    /\ call[r].step = "restore"
    /\ IF keys[call[r].id].state # "active" THEN To(r, "restoreRow") ELSE End(r)
    /\ UNCHANGED <<now, keys, calls, excuses>>

FindToRestore(r) ==
    /\ call[r].step = "restore"
    /\ IF keys[call[r].id].state = "revoked" THEN To(r, "restoreRow") ELSE End(r)
    /\ UNCHANGED <<now, keys, calls, excuses>>

RestoreKeyAnew(r) ==
    /\ call[r].step = "restoreRow"
    /\ keys' = [keys EXCEPT ![call[r].id].state = "active",
                            ![call[r].id].expires = NoExpiry]
    /\ End(r)
    /\ UNCHANGED <<now, calls, excuses>>

RestoreKey(r) ==
    /\ call[r].step = "restoreRow"
    /\ keys' = [keys EXCEPT ![call[r].id].state = "active"]
    /\ End(r)
    /\ UNCHANGED <<now, calls, excuses>>

\* A query fails, or the client goes away.
CallFails(r) ==
    /\ Busy(r)
    /\ End(r)
    /\ UNCHANGED <<now, keys, calls, excuses>>

KeysTick == Advance /\ UNCHANGED keyVars

KeysNext ==
    \/ \E r \in Call : \/ BeginCall(r) \/ GenerateCommand(r) \/ ManageCommand(r)
                       \/ FindByHash(r) \/ ReadForTouch(r) \/ Touch(r) \/ TouchFails(r)
                       \/ CreateKey(r) \/ CreateNothing(r)
                       \/ FindToRevoke(r) \/ RevokeKey(r)
                       \/ FindToRestore(r) \/ RestoreKey(r) \/ CallFails(r)
    \/ KeysTick

KeysSpec == now = 0 /\ KeysInit /\ [][KeysNext]_<<now, keyVars>>

------------------------------------------------------------------------------
(* Properties *)

CallStep == {"find", "touch", "written", "use", "create", "revoke", "revokeRow",
             "restore", "restoreRow"}

\* Types, and what a step stands for: a row that is being restored or touched
\* exists.
KeysTypeOK ==
    /\ keys \in [Key -> KeyRow]
    /\ \A k \in Key : keys[k].used \in {NoExpiry} \cup 0..now
    /\ \A r \in Call : call[r] = Done \/
         /\ call[r].step \in CallStep
         /\ call[r].id \in Key
         /\ call[r].key \in Key \cup {Bootstrap, Cli}
         /\ call[r].step \in {"find", "touch", "written"} =>
                call[r].key \in Key /\ keys[call[r].key].state # "absent"
         /\ call[r].step \in {"revokeRow", "restoreRow"} =>
                keys[call[r].id].state # "absent"

\* Some request is about to write the row of a key.
Writing(s, k) == \E r \in Call : call[r].step = s /\ call[r].id = k

\* Only a restoration takes a revocation back, and only a revocation a restoration:
\* a request that was using the key meanwhile writes last_used_at and nothing else.
RevocationHolds ==
    [][\A k \in Key :
         /\ keys[k].state = "revoked" /\ keys'[k].state # "revoked" => Writing("restoreRow", k)
         /\ keys[k].state = "active" /\ keys'[k].state # "active" => Writing("revokeRow", k)
      ]_<<now, keyVars>>

\* Nothing prolongs a key's life: what an expiry was fixed to when the key was
\* created stays, through revocation and restoration.
ExpiryFixed ==
    [][\A k \in Key : keys[k].state # "absent" =>
           keys'[k].expires = keys[k].expires]_<<now, keyVars>>

\* revoke_api_key refuses to revoke the caller's own key, so administrators never
\* revoke the last key that could undo a revocation: while requests do not
\* overlap, ids are spelled as the server spells them and every caller has a key
\* of its own, some admin key is not revoked.  (Two administrators may revoke
\* each other's keys at the same time.)
AdminRemains ==
    excuses = {} => \E k \in Key : keys[k].state = "active" /\ keys[k].role = "admin"
=============================================================================
