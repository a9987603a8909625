----------------------------- MODULE EmailAccess -----------------------------
(***************************************************************************)
(* Email services: their rows, the OAuth2 client of each provider, the     *)
(* OAuth2 consent flow that ends in a refresh token in the vault, password *)
(* credentials, email grants, and the MCP email tools that turn a grant    *)
(* into a brokered token.                                                  *)
(*                                                                         *)
(* One tenant.  A handler whose statements commute with those of the other *)
(* handlers is one step; the ones that hold something across a call to the *)
(* vault or to the provider, or that look before they write               *)
(* (configure_oauth2_provider, the callbacks, set_email_service_credential, *)
(* oauth2_refresh, create_email_permission_grant, the email tools) are     *)
(* requests with a stage.  A handler that answers an error by returning a  *)
(* response commits what it did before; an exception, a lost connection or *)
(* a crash rolls it back, but nothing undoes a vault write.                *)
(*                                                                         *)
(* An oauth2_state row never changes, so the table is the set rows and a   *)
(* row's columns are kept in flow.  Client id and client secret of one     *)
(* call of configure_oauth2_provider carry that call's number; number 0 is *)
(* the pair of the environment variables.                                  *)
(***************************************************************************)
EXTENDS Naturals, FiniteSets

CONSTANTS Services,      \* ids of email_services rows
          Schemes,       \* auth schemes; email_app_password acts like email_password
          Providers,     \* _OAUTH2_PROVIDERS
          EnvProviders,  \* providers configured by environment variables
          States,        \* values of oauth2_state.state_value
          Agents, GrantIds,
          Requests,
          MaxGen,        \* bound on the calls of configure_oauth2_provider
          MaxConsents,   \* bound on the consents a user gives on one URL
          None,
          Mixes          \* sets of requests and faults that occur together

ASSUME EmailAssumption ==
  /\ EnvProviders \subseteq Providers
  /\ {"email_oauth2", "email_password"} \subseteq Schemes
  /\ MaxGen \in Nat /\ MaxConsents \in Nat

(* The columns of email_services, oauth2_state and email_permission_grants, *)
(* and what the vault keeps for a service.                                 *)
ServiceRows == [scheme : Schemes, deleted : BOOLEAN, tls : BOOLEAN]
Flows == [svc : Services, provider : Providers, client : 0..MaxGen]
EmailGrants == [agent : Agents, svc : Services, live : BOOLEAN]
VaultEntries == [scheme : Schemes, from : States \cup {None}]

ASSUME NoneAssumption ==
  /\ None \notin ServiceRows /\ None \notin Flows /\ None \notin EmailGrants /\ None \notin VaultEntries
  /\ None \notin States /\ None \notin Schemes

VARIABLES mix,       \* the requests and faults of this behaviour
          svc,       \* email_services
          cfg,       \* oauth2_client_configs: provider -> number of the client id
          secret,    \* vault: provider -> number of the client secret
          gen,       \* calls of configure_oauth2_provider so far
          rows,      \* oauth2_state
          flow,      \* what each state was issued for
          expired,   \* states whose expires_at has passed
          codes,     \* unspent authorization codes of each state
          consents,  \* codes the provider has handed out for each state
          cred,      \* vault: email service -> current credential
          grant,     \* email_permission_grants
          req,       \* requests in progress
          spent,     \* history: successful callbacks per state
          ended,     \* history: states a committed callback has deleted
          torn,      \* history: providers configured by overlapping or broken calls
          overtaken  \* history: pairs granted after the service was deleted

dbvars == <<svc, cfg, rows, grant>>
vault == <<secret, cred>>
provider == <<codes, consents>>
history == <<spent, ended, torn, overtaken>>
emailVars == <<mix, gen, flow, expired, req, dbvars, vault, provider, history>>

NoRequest == [kind |-> "idle", stage |-> "idle", p |-> None, s |-> None, f |-> None,
         c |-> 0, k |-> 0, late |-> FALSE, a |-> None, scheme |-> None, seen |-> FALSE]

Runs(kind) == kind \in mix
Start(r, new) ==
  /\ Runs(new.kind)
  /\ req[r] = NoRequest
  /\ req' = [req EXCEPT ![r] = new]
Done(r) == req' = [req EXCEPT ![r] = NoRequest]
Goto(r, stage) == req' = [req EXCEPT ![r].stage = stage]
At(r, kind, stage) == req[r].kind = kind /\ req[r].stage = stage
-----------------------------------------------------------------------------
(* Email services. *)

Exists(s) == svc[s] # None

(* list_email_services and get_email_service answer the rows not deleted. *)
list_email_services == {s \in Services : Exists(s) /\ ~svc[s].deleted}

(* create_email_service; every scheme is allowed for some provider. *)
create_email_service(s, scheme) ==
  /\ Runs("create")
  /\ ~Exists(s)
  /\ svc' = [svc EXCEPT ![s] = [scheme |-> scheme, deleted |-> FALSE, tls |-> FALSE]]
  /\ UNCHANGED <<mix, gen, flow, expired, req, cfg, rows, grant, vault, provider, history>>

(* From a template that names a scheme, or email_password. *)
create_email_service_from_template(s, template) ==
  create_email_service(s, IF template = None THEN "email_password" ELSE template)

(* Mutant: auth_scheme can be changed. *)
MutPatchEmailService(s, fields) ==
  /\ Runs("patch")
  /\ s \in list_email_services
  /\ svc' = IF "auth_scheme" \in fields
              THEN [svc EXCEPT ![s].scheme = CHOOSE x \in Schemes : x # @]
              ELSE [svc EXCEPT ![s].tls = ~@]
  /\ UNCHANGED <<mix, gen, flow, expired, req, cfg, rows, grant, vault, provider, history>>

(* patch_email_service refuses immutable fields; of the others only        *)
(* tls_insecure_skip_verify is kept.                                       *)
patch_email_service(s, fields) ==
  /\ Runs("patch")
  /\ s \in list_email_services
  /\ fields = {"tls_insecure_skip_verify"}
  /\ svc' = [svc EXCEPT ![s].tls = ~@]
  /\ UNCHANGED <<mix, gen, flow, expired, req, cfg, rows, grant, vault, provider, history>>

(* Soft delete; grants, states and the vault keep what they have. *)
delete_email_service(s) ==
  /\ Runs("delete")
  /\ s \in list_email_services
  /\ svc' = [svc EXCEPT ![s].deleted = TRUE]
  /\ UNCHANGED <<mix, gen, flow, expired, req, cfg, rows, grant, vault, provider, history>>
-----------------------------------------------------------------------------
(* The OAuth2 client of a provider. *)

Saving(p) == {r \in Requests : At(r, "configure", "save") /\ req[r].p = p}

configure_oauth2_provider(r, p) ==
  /\ gen < MaxGen
  /\ gen' = gen + 1
  /\ Start(r, [NoRequest EXCEPT !.kind = "configure", !.stage = "put", !.p = p, !.c = gen + 1])
  /\ UNCHANGED <<mix, flow, expired, dbvars, vault, provider, history>>

(* The vault write: answered, refused, or carried out with the answer lost  *)
(* (the last two are a 502, and the row keeps its old client id).          *)
StoreSecret(r) ==
  LET p == req[r].p
  IN /\ At(r, "configure", "put")
     /\ \/ /\ secret' = [secret EXCEPT ![p] = req[r].c]
           /\ Goto(r, "save")
           /\ torn' = IF Saving(p) # {} THEN torn \cup {p} ELSE torn
        \/ Done(r) /\ UNCHANGED <<secret, torn>>
        \/ /\ secret' = [secret EXCEPT ![p] = req[r].c]
           /\ Done(r)
           /\ torn' = torn \cup {p}
     /\ UNCHANGED <<mix, gen, flow, expired, dbvars, cred, provider, spent, ended, overtaken>>

(* The upsert of the client id, audited and committed. *)
SaveClient(r) ==
  /\ At(r, "configure", "save")
  /\ cfg' = [cfg EXCEPT ![req[r].p] = req[r].c]
  /\ Done(r)
  /\ UNCHANGED <<mix, gen, flow, expired, svc, rows, grant, vault, provider, history>>

(* delete_oauth2_provider: the vault refuses the empty secret that should   *)
(* replace the old one, and the handler goes on.                           *)
delete_oauth2_provider(p) ==
  /\ Runs("deconfigure")
  /\ cfg[p] # 0
  /\ cfg' = [cfg EXCEPT ![p] = 0]
  /\ UNCHANGED <<mix, gen, flow, expired, req, svc, rows, grant, vault, provider, history>>

(* _oauth2_config_from_db: the row's client id with the vault's secret, and *)
(* the environment only when there is no row.                              *)
Configured(p, c) == IF c = 0 THEN p \in EnvProviders ELSE secret[p] # 0
SecretFor(p, c) == IF c = 0 THEN 0 ELSE secret[p]
-----------------------------------------------------------------------------
(* The consent flow. *)

(* Mutant: the clean-up removes the rows that have not expired. *)
MutCollectExpired == rows \cap expired

(* The opportunistic clean-up at the start of a flow. *)
CollectExpired == rows \ expired

oauth2_authorize(f, s, p) ==
  /\ Runs("authorize")
  /\ flow[f] = None
  /\ Configured(p, cfg[p])
  /\ s \in list_email_services
  /\ \A r \in Requests : req[r].stage \in {"exchange", "put", "commit"} => req[r].f \notin expired
  /\ rows' = CollectExpired \cup {f}
  /\ flow' = [flow EXCEPT ![f] = [svc |-> s, provider |-> p, client |-> cfg[p]]]
  /\ UNCHANGED <<mix, gen, expired, req, svc, cfg, grant, vault, provider, history>>

(* Ten minutes pass. *)
Expire(f) ==
  /\ Runs("expire")
  /\ flow[f] # None /\ f \notin expired
  /\ expired' = expired \cup {f}
  /\ UNCHANGED <<mix, gen, flow, req, dbvars, vault, provider, history>>

(* The user consents; the browser may be sent back and consent again. *)
Consent(f) ==
  /\ flow[f] # None /\ consents[f] < MaxConsents
  /\ consents[f] = 0 \/ Runs("again")
  /\ consents' = [consents EXCEPT ![f] = @ + 1]
  /\ codes' = [codes EXCEPT ![f] = @ + 1]
  /\ UNCHANGED <<mix, gen, flow, expired, req, dbvars, vault, history>>

(* A redirect, or a repeated one, reaches a callback.  A handler reads the  *)
(* client id first; now() is the start of its transaction.                 *)
Callback(r, f, s, p) ==
  /\ consents[f] > 0
  /\ Start(r, [NoRequest EXCEPT !.kind = "callback", !.stage = "consume", !.p = p, !.s = s, !.f = f,
                                !.c = cfg[p], !.late = f \in expired])
  /\ UNCHANGED <<mix, gen, flow, expired, dbvars, vault, provider, history>>

(* The four entry points: a POST and a browser GET whose path names the     *)
(* service, and the same pair whose path does not.                         *)
oauth2_callback(r, f) == \E s \in Services, p \in Providers : Callback(r, f, s, p)
oauth2_callback_view(r, f) == \E s \in Services : Callback(r, f, s, flow[f].provider)
oauth2_callback_per_tenant(r, f) == \E p \in Providers : Callback(r, f, None, p)
oauth2_callback_per_tenant_view(r, f) == Callback(r, f, None, flow[f].provider)

(* Another callback has deleted the row and not committed. *)
Held(r) == \E x \in Requests \ {r} : /\ req[x].f = req[r].f
                                      /\ req[x].kind = "callback"
                                      /\ req[x].stage \in {"exchange", "put", "commit"}

(* The state's service is the one authorized, whatever the path says; the  *)
(* path counts only for a state without one, and authorize writes one.     *)
ServiceOf(r) == flow[req[r].f].svc

(* The client secret is read and the state row deleted; no usable pair is   *)
(* a 503, no row of this provider that was valid at the start is a 422.    *)
ConsumeState(r) ==
  LET q == req[r]
  IN /\ At(r, "callback", "consume")
     /\ ~Held(r)
     /\ \/ /\ Configured(q.p, q.c)
           /\ q.f \in rows /\ ~q.late /\ flow[q.f].provider = q.p
           /\ req' = [req EXCEPT ![r].stage = "exchange", ![r].s = ServiceOf(r),
                                 ![r].k = SecretFor(q.p, q.c)]
        \/ Done(r)
     /\ UNCHANGED <<mix, gen, flow, expired, dbvars, vault, provider, history>>

(* The transaction commits: the state row is gone. *)
CommitState(r) == rows' = rows \ {req[r].f} /\ ended' = ended \cup {req[r].f}

(* The provider takes a code once, from the client it was issued to. *)
Accepted(r) == codes[req[r].f] > 0 /\ req[r].c = req[r].k /\ req[r].c = flow[req[r].f].client

(* The code is exchanged: a refresh token; or an error, a refusal or an     *)
(* answer without one, after which the code may be spent.                  *)
ExchangeCode(r) ==
  /\ At(r, "callback", "exchange")
  /\ \/ /\ Accepted(r)
        /\ codes' = [codes EXCEPT ![req[r].f] = @ - 1]
        /\ \/ Goto(r, "put") /\ UNCHANGED <<rows, ended>>
           \/ Done(r) /\ CommitState(r)
     \/ Done(r) /\ CommitState(r) /\ UNCHANGED codes
  /\ UNCHANGED <<mix, gen, flow, expired, svc, cfg, grant, vault, consents, spent, torn,
                  overtaken>>

Token(f) == [scheme |-> "email_oauth2", from |-> f]

(* The refresh token goes to the vault.  Nothing looks at the service row   *)
(* again.  An error answer may hide a write that was carried out.          *)
StoreToken(r) ==
  LET q == req[r]
      stored == cred' = [cred EXCEPT ![q.s] = Token(q.f)]
  IN /\ At(r, "callback", "put")
     /\ \/ stored /\ Goto(r, "commit") /\ UNCHANGED <<rows, ended>>
        \/ stored /\ Done(r) /\ CommitState(r)
        \/ UNCHANGED cred /\ Done(r) /\ CommitState(r)
     /\ UNCHANGED <<mix, gen, flow, expired, svc, cfg, grant, secret, provider, spent, torn,
                     overtaken>>

(* email.oauth2.authorized is recorded and the callback answers 200. *)
FinishCallback(r) ==
  /\ At(r, "callback", "commit")
  /\ CommitState(r)
  /\ spent' = [spent EXCEPT ![req[r].f] = @ + 1]
  /\ Done(r)
  /\ UNCHANGED <<mix, gen, flow, expired, svc, cfg, grant, vault, provider, torn, overtaken>>

(* A request dies and its transaction is rolled back. *)
Abort(r) ==
  /\ Runs("abort")
  /\ req[r] # NoRequest
  /\ torn' = IF At(r, "configure", "save") THEN torn \cup {req[r].p} ELSE torn
  /\ Done(r)
  /\ UNCHANGED <<mix, gen, flow, expired, dbvars, vault, provider, spent, ended, overtaken>>

(* oauth2_refresh: the client, then its secret and the service's refresh    *)
(* token, then the provider, which knows tokens of this client only.       *)
oauth2_refresh(r, s, p) ==
  /\ Start(r, [NoRequest EXCEPT !.kind = "refresh", !.stage = "read", !.s = s, !.p = p, !.c = cfg[p]])
  /\ UNCHANGED <<mix, gen, flow, expired, dbvars, vault, provider, history>>

ReadToken(r) ==
  LET q == req[r]
  IN /\ At(r, "refresh", "read")
     /\ \/ /\ Configured(q.p, q.c) /\ cred[q.s] # None
           /\ req' = [req EXCEPT ![r].stage = "refresh", ![r].f = cred[q.s].from,
                                 ![r].k = SecretFor(q.p, q.c)]
        \/ Done(r)
     /\ UNCHANGED <<mix, gen, flow, expired, dbvars, vault, provider, history>>

RefreshToken(r) ==
  /\ At(r, "refresh", "refresh")
  /\ \/ /\ req[r].f # None /\ req[r].c = req[r].k
        /\ flow[req[r].f].client = req[r].c /\ flow[req[r].f].provider = req[r].p
        /\ Goto(r, "answer")
     \/ Done(r)
  /\ UNCHANGED <<mix, gen, flow, expired, dbvars, vault, provider, history>>

AnswerToken(r) ==
  /\ At(r, "refresh", "answer")
  /\ Done(r)
  /\ UNCHANGED <<mix, gen, flow, expired, dbvars, vault, provider, history>>
-----------------------------------------------------------------------------
(* Passwords. *)

(* A password for a live service of the same scheme. *)
set_email_service_credential(r, s, scheme) ==
  /\ scheme # "email_oauth2"
  /\ s \in list_email_services /\ svc[s].scheme = scheme
  /\ Start(r, [NoRequest EXCEPT !.kind = "set", !.stage = "put", !.s = s, !.scheme = scheme])
  /\ UNCHANGED <<mix, gen, flow, expired, dbvars, vault, provider, history>>

(* The vault write: carried out, answered or not, or refused (502). *)
StorePassword(r) ==
  LET s == req[r].s
  IN /\ At(r, "set", "put")
     /\ \/ cred' = [cred EXCEPT ![s] = [scheme |-> req[r].scheme, from |-> None]]
        \/ UNCHANGED cred
     /\ Done(r)
     /\ UNCHANGED <<mix, gen, flow, expired, dbvars, secret, provider, history>>

(* delete_email_service_credential: a credential that is found is           *)
(* overwritten with an empty one, which the vault refuses (502); one that   *)
(* is not, or that the vault fails to return, counts as deleted (204).      *)
(* Either way the vault keeps what it has.                                 *)
delete_email_service_credential(s) ==
  /\ Runs("unset")
  /\ s \in list_email_services
  /\ UNCHANGED emailVars
-----------------------------------------------------------------------------
(* Grants and the email tools. *)

(* The (agent, service) pairs of list_email_permission_grants. *)
list_email_permission_grants ==
  {<<grant[g].agent, grant[g].svc>> : g \in {x \in GrantIds : grant[x] # None /\ grant[x].live}}

(* create_email_permission_grant looks for the service, without a lock; one *)
(* that is not live is a 422.                                              *)
create_email_permission_grant(r, a, s) ==
  /\ s \in list_email_services
  /\ Start(r, [NoRequest EXCEPT !.kind = "grant", !.stage = "insert", !.a = a, !.s = s])
  /\ UNCHANGED <<mix, gen, flow, expired, dbvars, vault, provider, history>>

(* The calls of agent a on service s that are under way now see the grant.  *)
Seen(r, a, s) ==
  [x \in Requests |-> IF x = r THEN NoRequest
                      ELSE IF req[x].kind = "tool" /\ req[x].a = a /\ req[x].s = s
                      THEN [req[x] EXCEPT !.seen = @ \/ s \in list_email_services]
                      ELSE req[x]]

(* The INSERT and the commit: one row for a pair, a duplicate is a 409.     *)
(* The service may have been deleted in the meantime.                      *)
InsertEmailGrant(r, g) ==
  LET a == req[r].a
      s == req[r].s
  IN /\ At(r, "grant", "insert")
     /\ \/ /\ <<a, s>> \in list_email_permission_grants
           /\ Done(r)
           /\ UNCHANGED <<grant, overtaken>>
        \/ /\ <<a, s>> \notin list_email_permission_grants
           /\ grant[g] = None
           /\ grant' = [grant EXCEPT ![g] = [agent |-> a, svc |-> s, live |-> TRUE]]
           /\ overtaken' = IF s \in list_email_services THEN overtaken
                           ELSE overtaken \cup {<<a, s>>}
           /\ req' = Seen(r, a, s)
     /\ UNCHANGED <<mix, gen, flow, expired, svc, cfg, rows, vault, provider, spent, ended, torn>>

delete_email_permission_grant(g) ==
  /\ Runs("revoke")
  /\ grant[g] # None /\ grant[g].live
  /\ grant' = [grant EXCEPT ![g].live = FALSE]
  /\ UNCHANGED <<mix, gen, flow, expired, req, svc, cfg, rows, vault, provider, history>>

(* Mutant: a deleted service is found. *)
MutResolveEmailServiceId(s) == Exists(s)

resolve_email_service_id(s) == s \in list_email_services

(* An email tool, or request_token for an email service.  History: late,    *)
(* the service was gone when the call began; seen, the agent held a grant   *)
(* on the live service at some moment of the call.                         *)
email_tool(r, a, s) ==
  /\ resolve_email_service_id(s)
  /\ Start(r, [NoRequest EXCEPT !.kind = "tool", !.stage = "grant", !.a = a, !.s = s,
                !.late = s \notin list_email_services,
                !.seen = s \in list_email_services /\ <<a, s>> \in list_email_permission_grants])
  /\ UNCHANGED <<mix, gen, flow, expired, dbvars, vault, provider, history>>

(* The grant is looked up, without the service row. *)
CheckGrant(r) ==
  /\ At(r, "tool", "grant")
  /\ IF <<req[r].a, req[r].s>> \in list_email_permission_grants
       THEN Goto(r, "issue") ELSE Done(r)
  /\ UNCHANGED <<mix, gen, flow, expired, dbvars, vault, provider, history>>

(* The broker signs a token for the pair. *)
_get_email_jwt(r) ==
  /\ At(r, "tool", "issue")
  /\ \/ Goto(r, "token")
     \/ Done(r)
  /\ UNCHANGED <<mix, gen, flow, expired, dbvars, vault, provider, history>>

(* email-proxy asks admin-api for the grants with its service token and     *)
(* without an operator session: 401, which it turns into 503.              *)
ProxyAnswers(r) ==
  /\ At(r, "tool", "token")
  /\ Done(r)
  /\ UNCHANGED <<mix, gen, flow, expired, dbvars, vault, provider, history>>
-----------------------------------------------------------------------------
EmailInit ==
  /\ mix \in Mixes
  /\ svc = [s \in Services |-> None]
  /\ cfg = [p \in Providers |-> 0] /\ secret = [p \in Providers |-> 0] /\ gen = 0
  /\ rows = {} /\ expired = {}
  /\ flow = [f \in States |-> None]
  /\ codes = [f \in States |-> 0] /\ consents = [f \in States |-> 0]
  /\ cred = [s \in Services |-> None]
  /\ grant = [g \in GrantIds |-> None]
  /\ req = [r \in Requests |-> NoRequest]
  /\ spent = [f \in States |-> 0] /\ ended = {} /\ torn = {} /\ overtaken = {}

ServiceStep(s) ==
  \/ \E scheme \in Schemes : create_email_service(s, scheme)
  \/ \E template \in Schemes \cup {None} : create_email_service_from_template(s, template)
  \/ \E fields \in SUBSET {"tls_insecure_skip_verify", "auth_scheme"} : patch_email_service(s, fields)
  \/ delete_email_service(s)
  \/ delete_email_service_credential(s)

FlowStep(f) ==
  \/ \E s \in Services, p \in Providers : oauth2_authorize(f, s, p)
  \/ Expire(f)
  \/ Consent(f)

RequestStep(r) ==
  \/ \E p \in Providers : configure_oauth2_provider(r, p)
  \/ StoreSecret(r) \/ SaveClient(r)
  \/ \E f \in States : flow[f] # None /\ \/ oauth2_callback(r, f)
                                         \/ oauth2_callback_view(r, f)
                                         \/ oauth2_callback_per_tenant(r, f)
                                         \/ oauth2_callback_per_tenant_view(r, f)
  \/ ConsumeState(r) \/ ExchangeCode(r) \/ StoreToken(r) \/ FinishCallback(r)
  \/ \E s \in Services, p \in Providers : oauth2_refresh(r, s, p)
  \/ ReadToken(r) \/ RefreshToken(r) \/ AnswerToken(r)
  \/ \E s \in Services, scheme \in Schemes : set_email_service_credential(r, s, scheme)
  \/ StorePassword(r)
  \/ \E a \in Agents, s \in Services : create_email_permission_grant(r, a, s) \/ email_tool(r, a, s)
  \/ \E g \in GrantIds : InsertEmailGrant(r, g)
  \/ CheckGrant(r) \/ _get_email_jwt(r) \/ ProxyAnswers(r)
  \/ Abort(r)

EmailNext ==
  \/ \E s \in Services : ServiceStep(s)
  \/ \E p \in Providers : delete_oauth2_provider(p)
  \/ \E f \in States : FlowStep(f)
  \/ \E r \in Requests : RequestStep(r)
  \/ \E g \in GrantIds : delete_email_permission_grant(g)

EmailSpec == EmailInit /\ [][EmailNext]_emailVars
-----------------------------------------------------------------------------
(* Every table, vault entry and request has its shape. *)
EmailTypeOK ==
  /\ mix \in Mixes
  /\ svc \in [Services -> ServiceRows \cup {None}]
  /\ cfg \in [Providers -> 0..MaxGen] /\ secret \in [Providers -> 0..MaxGen] /\ gen \in 0..MaxGen
  /\ rows \subseteq {f \in States : flow[f] # None} /\ expired \subseteq States
  /\ flow \in [States -> Flows \cup {None}]
  /\ codes \in [States -> 0..MaxConsents] /\ consents \in [States -> 0..MaxConsents]
  /\ cred \in [Services -> VaultEntries \cup {None}]
  /\ grant \in [GrantIds -> EmailGrants \cup {None}]
  /\ spent \in [States -> Nat] /\ ended \subseteq States /\ torn \subseteq Providers
  /\ overtaken \subseteq Agents \X Services

(* A state is single-use (_exchange_oauth2_code_for_refresh_token deletes   *)
(* it in the callback's transaction): whatever the user and the browser     *)
(* repeat, and whichever callbacks overlap, at most one answers success.   *)
SingleUse == \A f \in States : spent[f] <= 1

(* A refresh token reaches, in the vault and in an answer of                *)
(* oauth2_refresh, only the service its consent flow was begun for.        *)
RightService ==
  /\ \A s \in Services : cred[s] # None /\ cred[s].from # None => flow[cred[s].from].svc = s
  /\ \A r \in Requests : At(r, "refresh", "answer") => flow[req[r].f].svc = req[r].s

(* The state of a flow goes when its ten minutes are over or when one of    *)
(* the flow's own callbacks has committed, and then for good, also if the   *)
(* exchange of the code failed: the clean-up of another operator's          *)
(* oauth2_authorize, another flow's callback or a rollback does not take   *)
(* it away.                                                                *)
FlowKept == \A f \in States : flow[f] # None /\ f \notin rows => f \in expired \cup ended

(* Client id and client secret of a provider belong together once no        *)
(* configure call is between its vault write and its commit, unless two     *)
(* calls overlapped or one broke in between.                               *)
ConfigPair ==
  \A p \in Providers : cfg[p] = 0 \/ cfg[p] = secret[p] \/ Saving(p) # {} \/ p \in torn

(* A password is only ever stored for a service whose scheme it is, even    *)
(* when the write comes long after set_email_service_credential looked.    *)
PasswordFits ==
  \A s \in Services : cred[s] # None /\ cred[s].from = None => cred[s].scheme = svc[s].scheme

(* Every secret in the vault belongs to what it is stored for: refresh     *)
(* tokens and passwords to their service, client secrets to their client.  *)
CredentialsConsistent == EmailTypeOK /\ RightService /\ PasswordFits /\ ConfigPair

(* A consent flow can be completed once, as long as it is not too old      *)
(* (oauth2_authorize, oauth2_callback).                                    *)
FlowExact == SingleUse /\ FlowKept

(* A token for the mail of a service reaches an agent only if the service   *)
(* was live when the call began and, at some moment of the call, the        *)
(* service was live while the agent had a grant: revocations, deletions and *)
(* new grants between the lookups included.  One case is left: the grant    *)
(* itself was inserted after the service was deleted, by a request that     *)
(* had looked before (create_email_permission_grant takes no lock).        *)
TokenJustified ==
  \A r \in Requests : At(r, "tool", "token") =>
    /\ ~req[r].late
    /\ req[r].seen \/ <<req[r].a, req[r].s>> \in overtaken
=============================================================================
