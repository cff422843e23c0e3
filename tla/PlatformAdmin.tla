---------------------------- MODULE PlatformAdmin ----------------------------
(***************************************************************************)
(* Administration: providers, their accounts and the environments of each  *)
(* account, created, edited, validated and deleted by requests of several  *)
(* administrators, while discoveries of those environments run.  A handler *)
(* of api/v1/platform.py has a session of its own: it checks what it has   *)
(* read, or asks the cloud about it, and commits later.  Accounts are of a *)
(* provider type with an inventory adapter.                                *)
(***************************************************************************)
EXTENDS Naturals, FiniteSets

CONSTANTS
  Providers,
  Aliases,         \* accounts, by their alias
  ScopeIds,        \* environments, by environment_scope_id(): alias and class
  AliasOf,         \* the account of each environment
  AccountSettings, \* <<enabled, auth>> that an administrator may give an account
  Requests,        \* handlers under way at one time
  Jobs,            \* discoveries under way at one time
  Nothing

ASSUME PlatformAssumption ==
  /\ AliasOf \in [ScopeIds -> Aliases]
  /\ AccountSettings \subseteq BOOLEAN \X BOOLEAN
  /\ Aliases \cap ScopeIds = {}
  /\ Requests \subseteq Nat

VARIABLES
  providers,   \* managed_providers
  account,     \* cloud_accounts
  env,         \* cloud_environments
  present,     \* environments whose cluster is present in eks_clusters
  request,     \* the handlers under way
  job,         \* the scopes of the discoveries under way
  overlapped   \* accounts and environments whose owner was deleted beside them

adminVars == <<providers, account, env, present, request, job, overlapped>>

Readiness ==
  {"NOT_CONFIGURED", "CREDENTIAL_MISSING", "VALIDATION_FAILED", "READY",
   "DISCOVERY_PENDING", "ACTIVE", "DISABLED"}

(* `auth`: a role or a credential is set.  `validated`: last_validated_at. *)
AccountRow ==
  [parent : Providers, enabled : BOOLEAN, auth : BOOLEAN,
   validation : {"", "HEALTHY", "FAILED"}, validated : BOOLEAN]
EnvironmentRow ==
  [enabled : BOOLEAN, readiness : Readiness, scanned : {"never", "attempted", "active"}]
ASSUME NothingAssumption ==
  Nothing \notin AccountRow \cup EnvironmentRow \cup Aliases \cup ScopeIds \cup Providers

NoRequest == [op |-> "idle"]
RequestType ==
  [op : {"create account"}, account : Aliases, provider : Providers]
    \cup [op : {"delete account"}, account : Aliases]
    \cup [op : {"delete provider"}, provider : Providers]
    \cup [op : {"create environment"}, env : ScopeIds, base : Readiness]
    \cup [op : {"delete environment"}, env : ScopeIds]
    \cup [op : {"validate"}, rows : [Aliases -> AccountRow \cup {Nothing}]]

AdminTypeOK ==
  /\ providers \subseteq Providers
  /\ account \in [Aliases -> AccountRow \cup {Nothing}]
  /\ env \in [ScopeIds -> EnvironmentRow \cup {Nothing}]
  /\ present \subseteq ScopeIds
  /\ request \in [Requests -> {NoRequest} \cup RequestType]
  /\ job \in [Jobs -> (SUBSET ScopeIds) \cup {Nothing}]
  /\ overlapped \subseteq Aliases \cup ScopeIds

AdminInit ==
  /\ providers = {}
  /\ account = [a \in Aliases |-> Nothing]
  /\ env = [e \in ScopeIds |-> Nothing]
  /\ present = {}
  /\ request = [r \in Requests |-> NoRequest]
  /\ job = [j \in Jobs |-> Nothing]
  /\ overlapped = {}

-----------------------------------------------------------------------------
(* What the rows say.                                                      *)
HasAccount(a) == account[a] # Nothing
HasEnvironment(e) == env[e] # Nothing
AccountsOf(p) == {a \in Aliases : HasAccount(a) /\ account[a].parent = p}
EnvironmentsOf(a) == {e \in ScopeIds : AliasOf[e] = a /\ HasEnvironment(e)}

(* Mutant: whether the account was ever validated is not asked.            *)
AccountReadinessUnasked(row) ==
  CASE ~row.enabled -> "DISABLED"
    [] row.enabled /\ row.validation = "FAILED" -> "VALIDATION_FAILED"
    [] row.enabled /\ row.validation # "FAILED" /\ ~row.auth -> "CREDENTIAL_MISSING"
    [] OTHER -> "READY"

(* account_readiness()                                                     *)
AccountReadiness(row) ==
  IF ~row.enabled THEN "DISABLED"
  ELSE IF row.validation = "FAILED" THEN "VALIDATION_FAILED"
  ELSE IF ~row.auth THEN "CREDENTIAL_MISSING"
  ELSE IF ~row.validated THEN "NOT_CONFIGURED"
  ELSE "READY"

(* environment_readiness(), when the readiness of the account is `base`.    *)
EnvironmentReadiness(e, base) ==
  IF ~e.enabled THEN "DISABLED"
  ELSE IF base # "READY" THEN base
  ELSE CASE e.scanned = "active" -> "ACTIVE"
         [] e.scanned = "attempted" -> "DISCOVERY_PENDING"
         [] e.scanned = "never" -> "READY"

-----------------------------------------------------------------------------
(* Handlers that ask nobody: read, change, commit.                         *)

(* create_provider().  Ids are new: the id of a deleted provider is used   *)
(* again only when nothing refers to it.                                   *)
CreateProvider(p) ==
  /\ p \notin providers
  /\ AccountsOf(p) = {}
  /\ \A r \in Requests : request[r].op = "create account" => request[r].provider # p
  /\ providers' = providers \cup {p}
  /\ UNCHANGED <<account, env, present, request, job, overlapped>>

(* update_account(): the status and the time of the last validation stay.  *)
UpdateAccount(a, enabled, auth) ==
  /\ HasAccount(a)
  /\ account' = [account EXCEPT ![a].enabled = enabled, ![a].auth = auth]
  /\ UNCHANGED <<providers, env, present, request, job, overlapped>>

(* update_environment()                                                    *)
UpdateEnvironment(e, enabled) ==
  /\ HasEnvironment(e) /\ HasAccount(AliasOf[e])
  /\ LET row == [env[e] EXCEPT !.enabled = enabled]
     IN env' = [env EXCEPT ![e] =
          [row EXCEPT !.readiness = EnvironmentReadiness(row, AccountReadiness(account[AliasOf[e]]))]]
  /\ UNCHANGED <<providers, account, present, request, job, overlapped>>

-----------------------------------------------------------------------------
(* Handlers that check before they create or delete.  A request has the    *)
(* least number that is free.                                              *)
Begin(r, operation) ==
  /\ request[r] = NoRequest /\ \A s \in Requests : s < r => request[s] # NoRequest
  /\ request' = [request EXCEPT ![r] = operation]
  /\ UNCHANGED <<providers, account, env, present, job, overlapped>>

BeginCreateAccount(r, a, p) ==
  /\ p \in providers /\ ~HasAccount(a)
  /\ Begin(r, [op |-> "create account", account |-> a, provider |-> p])

BeginDeleteProvider(r, p) ==
  /\ p \in providers /\ AccountsOf(p) = {}
  /\ Begin(r, [op |-> "delete provider", provider |-> p])

BeginDeleteAccount(r, a) ==
  /\ HasAccount(a) /\ EnvironmentsOf(a) = {}
  /\ \A e \in present : AliasOf[e] # a
  /\ Begin(r, [op |-> "delete account", account |-> a])

BeginCreateEnvironment(r, e) ==
  /\ HasAccount(AliasOf[e]) /\ ~HasEnvironment(e)
  /\ Begin(r, [op |-> "create environment", env |-> e,
               base |-> AccountReadiness(account[AliasOf[e]])])

(* Mutant: present clusters are not asked for.                             *)
BeginDeleteEnvironmentAnyway(r, e) ==
  /\ HasEnvironment(e)
  /\ Begin(r, [op |-> "delete environment", env |-> e])

BeginDeleteEnvironment(r, e) ==
  /\ HasEnvironment(e) /\ e \notin present
  /\ Begin(r, [op |-> "delete environment", env |-> e])

Is(r, op) == request[r].op = op
Finished(r) == [request EXCEPT ![r] = NoRequest]

(* The alias is unique; the provider is no foreign key.                    *)
CommitCreateAccount(r) ==
  /\ Is(r, "create account")
  /\ LET a == request[r].account
     IN /\ ~HasAccount(a)
        /\ \E s \in AccountSettings :
             account' = [account EXCEPT ![a] =
               [parent |-> request[r].provider, enabled |-> s[1], auth |-> s[2],
                validation |-> "", validated |-> FALSE]]
  /\ request' = Finished(r)
  /\ UNCHANGED <<providers, env, present, job, overlapped>>

CommitDeleteProvider(r) ==
  /\ Is(r, "delete provider")
  /\ LET p == request[r].provider
     IN /\ providers' = providers \ {p}
        /\ overlapped' = overlapped \cup AccountsOf(p)
             \cup {request[s].account : s \in {t \in Requests :
                     Is(t, "create account") /\ request[t].provider = p}}
        /\ request' = [s \in Requests |->
             IF Is(s, "delete provider") /\ request[s].provider = p THEN NoRequest ELSE request[s]]
  /\ UNCHANGED <<account, env, present, job>>

(* What another handler has loaded of the row is gone: its UPDATE finds no *)
(* row, its INSERT no parent, its DELETE nothing.                          *)
Holds(r, a) ==
  \/ Is(r, "delete account") /\ request[r].account = a
  \/ Is(r, "create environment") /\ AliasOf[request[r].env] = a
  \/ Is(r, "validate") /\ request[r].rows[a] # Nothing

(* cloud_environments.account_id is a foreign key.                         *)
CommitDeleteAccount(r) ==
  /\ Is(r, "delete account")
  /\ LET a == request[r].account
     IN /\ EnvironmentsOf(a) = {}
        /\ account' = [account EXCEPT ![a] = Nothing]
        /\ request' = [s \in Requests |-> IF Holds(s, a) THEN NoRequest ELSE request[s]]
  /\ UNCHANGED <<providers, env, present, job, overlapped>>

CommitCreateEnvironment(r) ==
  /\ Is(r, "create environment")
  /\ LET e == request[r].env
     IN /\ ~HasEnvironment(e)
        /\ \E enabled \in BOOLEAN :
             LET row == [enabled |-> enabled, readiness |-> "NOT_CONFIGURED", scanned |-> "never"]
             IN env' = [env EXCEPT ![e] =
                  [row EXCEPT !.readiness = EnvironmentReadiness(row, request[r].base)]]
  /\ request' = Finished(r)
  /\ UNCHANGED <<providers, account, present, job, overlapped>>

CommitDeleteEnvironment(r) ==
  /\ Is(r, "delete environment")
  /\ LET e == request[r].env
         scanned == {d \in {e} : \E j \in Jobs : job[j] # Nothing /\ d \in job[j]}
     IN /\ env' = [env EXCEPT ![e] = Nothing]
        /\ overlapped' = overlapped \cup scanned
  /\ request' = Finished(r)
  /\ UNCHANGED <<providers, account, present, job>>

(* A constraint of the database, or anything else, makes the commit fail.  *)
Abort(r) ==
  /\ request[r] # NoRequest
  /\ request' = Finished(r)
  /\ UNCHANGED <<providers, account, env, present, job, overlapped>>

-----------------------------------------------------------------------------
(* Validation of one account, or of the accounts of a provider one after   *)
(* the other until one is connected.                                       *)
BeginValidate(r, accounts) ==
  /\ accounts # {} /\ \A a \in accounts : HasAccount(a)
  /\ Begin(r, [op |-> "validate",
               rows |-> [a \in Aliases |-> IF a \in accounts THEN account[a] ELSE Nothing]])

(* A column is written if it differs from what was loaded.                 *)
Validated(row, loaded, status) ==
  [row EXCEPT !.validated = TRUE,
              !.validation = IF status = loaded.validation THEN @ ELSE status]

Judged(loaded, status) ==
  AccountReadiness([loaded EXCEPT !.validated = TRUE, !.validation = status])

Answered(a, connected) == IF a \in connected THEN "HEALTHY" ELSE "FAILED"

(* Mutant: the readiness of environments is set with the provider's status. *)
StoreValidationUnderProvider(r, failed, connected) ==
  /\ account' = [a \in Aliases |->
       IF a \in failed \cup connected
       THEN Validated(account[a], request[r].rows[a], Answered(a, connected)) ELSE account[a]]
  /\ env' = [e \in ScopeIds |->
       LET a == AliasOf[e]
       IN IF HasEnvironment(e) /\ a \in failed \cup connected /\ account[a].parent \in providers
          THEN [env[e] EXCEPT !.readiness = EnvironmentReadiness(env[e],
                  Judged(request[r].rows[a], Answered(a, connected)))]
          ELSE env[e]]

(* validate_account_connection(): the environments are judged by the row   *)
(* of the account as this session has it.                                  *)
StoreValidation(r, failed, connected) ==
  /\ account' = [a \in Aliases |->
       IF a \in failed \cup connected
       THEN Validated(account[a], request[r].rows[a], Answered(a, connected)) ELSE account[a]]
  /\ env' = [e \in ScopeIds |->
       LET a == AliasOf[e]
       IN IF HasEnvironment(e) /\ a \in failed \cup connected
          THEN [env[e] EXCEPT !.readiness = EnvironmentReadiness(env[e],
                  Judged(request[r].rows[a], Answered(a, connected)))]
          ELSE env[e]]

(* If an adapter raises, the handler commits what the accounts before gave. *)
CommitValidate(r, failed, connected) ==
  /\ Is(r, "validate")
  /\ \A a \in failed \cup connected : request[r].rows[a] # Nothing
  /\ Cardinality(connected) <= 1 /\ failed \cap connected = {} /\ failed \cup connected # {}
  /\ StoreValidation(r, failed, connected)
  /\ request' = Finished(r)
  /\ UNCHANGED <<providers, present, job, overlapped>>

-----------------------------------------------------------------------------
(* Discoveries.                                                            *)

(* accounts_for_job(): an environment, even a disabled one; the enabled    *)
(* environments of an account, even of a disabled one; or, without a       *)
(* target and when the target was deleted, those of all enabled accounts.  *)
JobScopes(target) ==
  IF target \in ScopeIds /\ HasEnvironment(target) THEN {target}
  ELSE IF target \in Aliases /\ HasAccount(target)
       THEN {e \in EnvironmentsOf(target) : env[e].enabled}
  ELSE {e \in ScopeIds :
          HasEnvironment(e) /\ env[e].enabled /\ account[AliasOf[e]].enabled}

StartDiscovery(j, target) ==
  /\ job[j] = Nothing /\ JobScopes(target) # {}
  /\ job' = [job EXCEPT ![j] = JobScopes(target)]
  /\ UNCHANGED <<providers, account, env, present, request, overlapped>>

(* _finish_fleet_job(): mark_scope_attempted() of every scope, and of the  *)
(* accounts that could be listed mark_scope_success() and the clusters,    *)
(* also of an environment that is no more.                                 *)
FinishDiscovery(j, failed, found) ==
  /\ job[j] # Nothing
  /\ LET listed == {e \in job[j] : AliasOf[e] \notin failed}
     IN /\ found \subseteq listed
        /\ present' = (present \ listed) \cup found
        /\ overlapped' = overlapped \cup
             {e \in found : \E r \in Requests : Is(r, "delete environment") /\ request[r].env = e}
        /\ env' = [e \in ScopeIds |->
             IF ~HasEnvironment(e) \/ e \notin job[j] THEN env[e]
             ELSE IF e \in listed THEN [env[e] EXCEPT !.scanned = "active"]
             ELSE [env[e] EXCEPT !.scanned = IF @ = "never" THEN "attempted" ELSE @]]
  /\ job' = [job EXCEPT ![j] = Nothing]
  /\ UNCHANGED <<providers, account, request>>

RollbackDiscovery(j) ==
  /\ job[j] # Nothing
  /\ job' = [job EXCEPT ![j] = Nothing]
  /\ UNCHANGED <<providers, account, env, present, request, overlapped>>

-----------------------------------------------------------------------------
Edit ==
  \/ \E p \in Providers : CreateProvider(p)
  \/ \E a \in Aliases, s \in AccountSettings : UpdateAccount(a, s[1], s[2])
  \/ \E e \in ScopeIds, enabled \in BOOLEAN : UpdateEnvironment(e, enabled)

Check(r) ==
  \/ \E a \in Aliases, p \in Providers : BeginCreateAccount(r, a, p)
  \/ \E p \in Providers : BeginDeleteProvider(r, p)
  \/ \E a \in Aliases : BeginDeleteAccount(r, a)
  \/ \E e \in ScopeIds : BeginCreateEnvironment(r, e) \/ BeginDeleteEnvironment(r, e)

Commit(r) ==
  \/ CommitCreateAccount(r) \/ CommitDeleteProvider(r) \/ CommitDeleteAccount(r)
  \/ CommitCreateEnvironment(r) \/ CommitDeleteEnvironment(r)

JobTargets == Aliases \cup ScopeIds \cup {Nothing}
Validation(r) ==
  \/ \E a \in Aliases : BeginValidate(r, {a})
  \/ \E p \in Providers : BeginValidate(r, AccountsOf(p))
Discovery(j) ==
  \/ \E target \in JobTargets : StartDiscovery(j, target)
  \/ \E failed \in SUBSET Aliases, found \in SUBSET ScopeIds : FinishDiscovery(j, failed, found)
  \/ RollbackDiscovery(j)

AdminNext ==
  \/ Edit
  \/ \E r \in Requests :
       \/ Check(r) \/ Commit(r) \/ Abort(r) \/ Validation(r)
       \/ \E failed, connected \in SUBSET Aliases : CommitValidate(r, failed, connected)
  \/ \E j \in Jobs : Discovery(j)

AdminSpec == AdminInit /\ [][AdminNext]_adminVars

-----------------------------------------------------------------------------
(* An environment has its account.  An account has its provider and a      *)
(* present cluster its environment, unless the one was created, or the     *)
(* other discovered, beside the deletion of its owner: nothing but the     *)
(* check of delete_provider() and of delete_environment() keeps them.      *)
NothingIsHomeless ==
  /\ \A e \in ScopeIds : HasEnvironment(e) => HasAccount(AliasOf[e])
  /\ \A a \in Aliases : HasAccount(a) => account[a].parent \in providers \/ a \in overlapped
  /\ \A e \in present : HasEnvironment(e) \/ e \in overlapped

(* What the console shows of an environment (identity_from_row()) is a     *)
(* readiness of a validated account only if that account, not one of the   *)
(* same alias before it, has been validated.                               *)
ReadinessIsEarned ==
  \A e \in ScopeIds :
    /\ HasEnvironment(e)
    /\ env[e].readiness \in {"READY", "DISCOVERY_PENDING", "ACTIVE", "VALIDATION_FAILED"}
    => account[AliasOf[e]].validated

(* update_account() and discoveries leave the readiness that is stored and *)
(* shown as it was, and an overlapping validation may judge by a row of    *)
(* long ago.  If from some time on nothing is edited and no validation     *)
(* fails, validations of an account that succeed again and again make the  *)
(* stored readiness what environment_dump() computes, and HEALTHY is what  *)
(* the account comes to be.                                                *)
Quietly ==
  \/ \E r \in Requests :
       Validation(r) \/ \E a \in Aliases : CommitValidate(r, {}, {a})
  \/ \E j \in Jobs : Discovery(j)
Settled(a) ==
  /\ HasAccount(a) /\ account[a].validation = "HEALTHY"
  /\ \A e \in EnvironmentsOf(a) : env[e].readiness = EnvironmentReadiness(env[e], AccountReadiness(account[a]))
ReadinessSettles ==
  \A a \in Aliases :
    /\ <>[][Quietly]_adminVars
    /\ []<><<\E r \in Requests : CommitValidate(r, {}, {a})>>_adminVars
    => <>[]Settled(a)
==============================================================================
