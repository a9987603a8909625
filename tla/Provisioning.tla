---------------------------- MODULE Provisioning ----------------------------
(***************************************************************************)
(* How a deployment gets its first operators: the one-shot seed job        *)
(* (apps/seed-job/main.py), the create_operator.py script beside it, and   *)
(* POST /v1/operators.  Together they fill four places by hand: the        *)
(* database (each statement commits by itself, autocommit is on), Keycloak *)
(* (an HTTP call each), the bootstrap-secrets volume (a file each) and the *)
(* demo rows.  Any run may stop between two of these writes or inside the  *)
(* write of a file; the remedy the documentation gives is to run it again. *)
(*                                                                         *)
(* The stages of a run are the writes, in the order main() makes them.     *)
(* What a file or a secret holds is a number that tells one generation     *)
(* from the next.                                                          *)
(***************************************************************************)
EXTENDS Naturals

CONSTANTS Emails,     \* people who become operators
          Admin,      \* the bootstrap operator's address
          Clients,    \* Keycloak clients with a secret file
          Demo,       \* MINTKEY_SEED_DEMO
          Plans,  \* bound: people the script is run for and "again", where they occur together
          MaxRuns,    \* bound: runs of the seed job, and generations of a keypair
          MaxSecrets  \* bound: generations of a client secret

ASSUME AdminAssumption == Admin \in Emails
ASSUME DemoAssumption == Demo \in BOOLEAN
ASSUME RunAssumption == MaxRuns \in Nat /\ MaxSecrets \in Nat \ {0}

VARIABLES
  plan,     \* the people create_operator.py is run for in this behaviour, and "again"
            \* when the seed job is run more than once
  tenant,   \* t_default and its audit_chain_state row: none, tenant, both
  op,       \* operators and operator_tenant_memberships, by email
  kc,       \* Keycloak users of realm mintkey, by email
  realm,    \* has the realm been imported
  client,   \* Keycloak clients
  file,     \* bootstrap-secrets
  demo,     \* rows of the demo: services, credentials, agents, grants of one action
  job,      \* the seed job: stage, clients left in a loop, secrets changed during the run,
            \* was the chown denied; history: did a run stop before the password file was whole
  runs,     \* seed jobs started
  script,   \* create_operator.py
  cut,      \* people for whom a run stopped between two of their rows
  settled   \* has a seed job ever finished

provVars == <<plan, tenant, op, kc, realm, client, file, demo, job, runs, script, cut, settled>>

Stages == {"idle", "tenant", "chain", "operator", "membership", "password_file", "hand_over", "realm",
           "secrets", "pkce", "uris", "cookie", "user", "sync", "role", "sentinel", "link",
           "private", "public", "service", "credential", "agent", "grants", "done"}
ScriptStages == {"idle", "user", "password", "role", "row", "member", "done"}
IdleScript == [stage |-> "idle"]
(* What a key file holds when the run was stopped inside its write: it     *)
(* exists, and that is all the next run looks at.                          *)
Torn == MaxRuns + 1

ProvTypeOK ==
  /\ plan \in Plans
  /\ tenant \in {"none", "tenant", "both"}
  /\ op \in [Emails -> [row : BOOLEAN, member : BOOLEAN, linked : BOOLEAN]]
  /\ kc \in [Emails -> [user : BOOLEAN, pw : {"none", "seeded", "own"}, role : BOOLEAN]]
  /\ realm \in BOOLEAN
  /\ client \in [Clients -> [secret : 0..MaxSecrets, pkce : BOOLEAN, uris : {"placeholder", "public"}]]
  /\ file \in [pw : {"none", "torn", "whole"}, handed : BOOLEAN, synced : BOOLEAN,
               secret : [Clients -> 0..MaxSecrets], cookie : {"none", "invalid", "valid"},
               private : 0..Torn, public : 0..Torn]
  /\ demo \in [services : 0..1, credentials : 0..MaxRuns, agents : 0..MaxRuns, grants : 0..MaxRuns]
  /\ job \in [stage : Stages, left : SUBSET Clients, stale : SUBSET Clients,
              denied : BOOLEAN, lost : BOOLEAN]
  /\ runs \in 0..MaxRuns
  /\ script \in {IdleScript} \cup
       [stage : ScriptStages, email : Emails, admin : BOOLEAN, reset : BOOLEAN, created : BOOLEAN]
  /\ cut \in SUBSET Emails
  /\ settled \in BOOLEAN

ProvInit ==
  /\ plan \in Plans
  /\ tenant = "none"
  /\ op = [e \in Emails |-> [row |-> FALSE, member |-> FALSE, linked |-> FALSE]]
  /\ kc = [e \in Emails |-> [user |-> FALSE, pw |-> "none", role |-> FALSE]]
  /\ realm = FALSE
  /\ client = [c \in Clients |-> [secret |-> 0, pkce |-> FALSE, uris |-> "placeholder"]]
  /\ \E cookie \in {"none", "invalid"} :
       file = [pw |-> "none", handed |-> FALSE, synced |-> FALSE, cookie |-> cookie,
               secret |-> [c \in Clients |-> 0], private |-> 0, public |-> 0]
  /\ demo = [services |-> 0, credentials |-> 0, agents |-> 0, grants |-> 0]
  /\ job = [stage |-> "idle", left |-> {}, stale |-> {}, denied |-> FALSE, lost |-> FALSE]
  /\ runs = 0
  /\ script = IdleScript
  /\ cut = {}
  /\ settled = FALSE

JobAt(s)   == job.stage = s
JobGoto(s) == job' = [job EXCEPT !.stage = s]
(* Enter a loop over the clients, or leave it.                             *)
Loop(s) == job' = [job EXCEPT !.stage = s, !.left = Clients]
Each(c, s, enter) ==
  job' = IF job.left = {c} THEN [job EXCEPT !.stage = s, !.left = IF enter THEN Clients ELSE {}]
         ELSE [job EXCEPT !.left = @ \ {c}]

-----------------------------------------------------------------------------
(* The seed job, steps 1 to 5: the database and the password file.         *)

main ==
  /\ job.stage \in {"idle", "done"} /\ runs < MaxRuns /\ (runs > 0 => "again" \in plan)
  /\ runs' = runs + 1
  /\ job' = [job EXCEPT !.stage = "tenant", !.left = {}, !.stale = {}, !.denied = FALSE]
  /\ UNCHANGED <<plan, tenant, op, kc, realm, client, file, demo, script, cut, settled>>

(* ON CONFLICT DO NOTHING, like every insert of steps 3 and 4.             *)
seed_default_tenant ==
  /\ JobAt("tenant")
  /\ tenant' = IF tenant = "none" THEN "tenant" ELSE tenant
  /\ JobGoto("chain")
  /\ UNCHANGED <<plan, op, kc, realm, client, file, demo, runs, script, cut, settled>>

seed_audit_chain_state ==
  /\ JobAt("chain")
  /\ tenant' = "both"
  /\ JobGoto("operator")
  /\ UNCHANGED <<plan, op, kc, realm, client, file, demo, runs, script, cut, settled>>

(* A row that is there ends the step: its membership is not looked at and  *)
(* no password is generated.                                               *)
seed_bootstrap_operator ==
  /\ JobAt("operator")
  /\ op' = [op EXCEPT ![Admin].row = TRUE]
  /\ JobGoto(IF op[Admin].row THEN "hand_over" ELSE "membership")
  /\ UNCHANGED <<plan, tenant, kc, realm, client, file, demo, runs, script, cut, settled>>

SeedMembership ==
  /\ JobAt("membership")
  /\ op' = [op EXCEPT ![Admin].member = TRUE]
  /\ JobGoto("password_file")
  /\ UNCHANGED <<plan, tenant, kc, realm, client, file, demo, runs, script, cut, settled>>

(* The encrypted password, unless there is a valid one, and a copy on the  *)
(* host that nothing reads.  A new file is younger than any sentinel.      *)
ensure_admin_password_file ==
  /\ JobAt("password_file")
  /\ file' = IF file.pw = "whole" THEN file ELSE [file EXCEPT !.pw = "whole", !.synced = FALSE]
  /\ JobGoto("hand_over")
  /\ UNCHANGED <<plan, tenant, op, kc, realm, client, demo, runs, script, cut, settled>>

(* Best effort: a chown that fails is logged and the run goes on.          *)
hand_admin_password_to_admin_ui ==
  /\ JobAt("hand_over")
  /\ \E ok \in BOOLEAN :
       /\ file' = IF ok /\ file.pw # "none" THEN [file EXCEPT !.handed = TRUE] ELSE file
       /\ job' = [job EXCEPT !.stage = "realm", !.denied = ~ok]
  /\ UNCHANGED <<plan, tenant, op, kc, realm, client, demo, runs, script, cut, settled>>

-----------------------------------------------------------------------------
(* Step 9: Keycloak.                                                       *)

(* The import brings the clients with their secrets; the one of an older   *)
(* release left placeholders in the redirect URIs and did not ask for      *)
(* PKCE.                                                                   *)
ensure_realm ==
  /\ JobAt("realm")
  /\ realm' = TRUE
  /\ IF realm THEN UNCHANGED client
     ELSE \E old \in BOOLEAN :
            client' = [c \in Clients |->
              [secret |-> 1, pkce |-> ~old, uris |-> IF old THEN "placeholder" ELSE "public"]]
  /\ Loop("secrets")
  /\ UNCHANGED <<plan, tenant, op, kc, file, demo, runs, script, cut, settled>>

(* Keycloak's secret is the true one; a file that differs is rewritten.    *)
write_client_secrets(c) ==
  /\ JobAt("secrets") /\ c \in job.left
  /\ file' = [file EXCEPT !.secret[c] = client[c].secret]
  /\ Each(c, "pkce", TRUE)
  /\ UNCHANGED <<plan, tenant, op, kc, realm, client, demo, runs, script, cut, settled>>

enforce_pkce_on_clients(c) ==
  /\ JobAt("pkce") /\ c \in job.left
  /\ client' = [client EXCEPT ![c].pkce = TRUE]
  /\ Each(c, "uris", TRUE)
  /\ UNCHANGED <<plan, tenant, op, kc, realm, file, demo, runs, script, cut, settled>>

patch_keycloak_client_redirect_uris(c) ==
  /\ JobAt("uris") /\ c \in job.left
  /\ client' = [client EXCEPT ![c].uris = "public"]
  /\ Each(c, "cookie", FALSE)
  /\ UNCHANGED <<plan, tenant, op, kc, realm, file, demo, runs, script, cut, settled>>

ensure_jaeger_cookie_secret ==
  /\ JobAt("cookie")
  /\ file' = [file EXCEPT !.cookie = "valid"]
  /\ JobGoto("user")
  /\ UNCHANGED <<plan, tenant, op, kc, realm, client, demo, runs, script, cut, settled>>

ensure_admin_user ==
  /\ JobAt("user")
  /\ kc' = [kc EXCEPT ![Admin].user = TRUE]
  /\ JobGoto("sync")
  /\ UNCHANGED <<plan, tenant, op, realm, client, file, demo, runs, script, cut, settled>>

(* The sentinel is looked at, not Keycloak.  A torn file does not decrypt: *)
(* the run ends here with InvalidToken, which is left to JobStops.         *)
sync_admin_password ==
  /\ JobAt("sync")
  /\ file.pw = "torn" => file.synced
  /\ kc' = IF file.pw # "none" /\ ~file.synced THEN [kc EXCEPT ![Admin].pw = "seeded"] ELSE kc
  /\ JobGoto("role")
  /\ UNCHANGED <<plan, tenant, op, realm, client, file, demo, runs, script, cut, settled>>

assign_platform_admin_role ==
  /\ JobAt("role")
  /\ kc' = [kc EXCEPT ![Admin].role = TRUE]
  /\ JobGoto("sentinel")
  /\ UNCHANGED <<plan, tenant, op, realm, client, file, demo, runs, script, cut, settled>>

(* Mutant: the sentinel is never touched.                                  *)
NoSentinel ==
  /\ JobAt("sentinel")
  /\ JobGoto("link")
  /\ UNCHANGED <<plan, tenant, op, kc, realm, client, file, demo, runs, script, cut, settled>>

touch_sentinel ==
  /\ JobAt("sentinel")
  /\ file' = [file EXCEPT !.synced = TRUE]
  /\ JobGoto("link")
  /\ UNCHANGED <<plan, tenant, op, kc, realm, client, demo, runs, script, cut, settled>>

(* A failed UPDATE is logged and the run goes on.                          *)
pre_link_operator_oidc_sub ==
  /\ JobAt("link")
  /\ \E ok \in BOOLEAN :
       op' = IF ok /\ op[Admin].row THEN [op EXCEPT ![Admin].linked = TRUE] ELSE op
  /\ JobGoto(IF file.private # 0 /\ file.public # 0 THEN IF Demo THEN "service" ELSE "done" ELSE "private")
  /\ settled' = (settled \/ (~Demo /\ file.private # 0 /\ file.public # 0))
  /\ UNCHANGED <<plan, tenant, kc, realm, client, file, demo, runs, script, cut>>

-----------------------------------------------------------------------------
(* The admin-ui keypair, two files, and the demo.                          *)

(* Mutant: only the missing half is written.                               *)
KeepPrivate ==
  /\ JobAt("private")
  /\ file' = [file EXCEPT !.private = IF @ = 0 THEN runs ELSE @]
  /\ JobGoto("public")
  /\ UNCHANGED <<plan, tenant, op, kc, realm, client, demo, runs, script, cut, settled>>

generate_admin_ui_keypair ==
  /\ JobAt("private")
  /\ file' = [file EXCEPT !.private = runs]
  /\ JobGoto("public")
  /\ UNCHANGED <<plan, tenant, op, kc, realm, client, demo, runs, script, cut, settled>>

WritePublicKey ==
  /\ JobAt("public")
  /\ file' = [file EXCEPT !.public = runs]
  /\ JobGoto(IF Demo THEN "service" ELSE "done")
  /\ settled' = (settled \/ ~Demo)
  /\ UNCHANGED <<plan, tenant, op, kc, realm, client, demo, runs, script, cut>>

(* The slug of a service is unique; nothing is for a credential's version, *)
(* an agent's name or a grant's action, and the ids are fresh, so ON       *)
(* CONFLICT never fires.  One of the four grants stands for the loop.      *)
seed_mock_backend_demo ==
  /\ job.stage \in {"service", "credential", "agent", "grants"}
  /\ CASE JobAt("service") -> demo' = [demo EXCEPT !.services = 1] /\ JobGoto("credential")
       [] JobAt("credential") -> demo' = [demo EXCEPT !.credentials = @ + 1] /\ JobGoto("agent")
       [] JobAt("agent") -> demo' = [demo EXCEPT !.agents = @ + 1] /\ JobGoto("grants")
       [] JobAt("grants") -> demo' = [demo EXCEPT !.grants = @ + 1] /\ JobGoto("done")
  /\ settled' = (settled \/ JobAt("grants"))
  /\ UNCHANGED <<plan, tenant, op, kc, realm, client, file, runs, script, cut>>

(* Stopped inside write_bytes, which truncates first.  The other files are *)
(* compared with what they should hold on the next run, and rewritten.     *)
TornFile ==
  CASE JobAt("password_file") /\ file.pw # "whole" -> [file EXCEPT !.pw = "torn"]
    [] JobAt("private") -> [file EXCEPT !.private = Torn]
    [] JobAt("public") -> [file EXCEPT !.public = Torn]
    [] OTHER -> file

(* The job is killed, or a call it makes raises.                           *)
JobStops ==
  /\ job.stage \notin {"idle", "done"}
  /\ LET unpaid == job.stage \in {"membership", "password_file"}
     IN /\ job' = [job EXCEPT !.stage = "idle", !.lost = @ \/ unpaid]
        /\ cut' = IF unpaid THEN cut \cup {Admin} ELSE cut
  /\ file' \in {file, TornFile}
  /\ UNCHANGED <<plan, tenant, op, kc, realm, client, demo, runs, script, settled>>

-----------------------------------------------------------------------------
(* create_operator.py, for one person at a time.                           *)

ScriptAt(s)   == script.stage = s
ScriptGoto(s) == script' = [script EXCEPT !.stage = s]

StartScript(e) ==
  /\ e \in plan /\ script = IdleScript /\ realm /\ tenant # "none"
  /\ \E platform, reset \in BOOLEAN :
       script' = [stage |-> "user", email |-> e, admin |-> platform, reset |-> reset, created |-> FALSE]
  /\ UNCHANGED <<plan, tenant, op, kc, realm, client, file, demo, job, runs, cut, settled>>

ensure_kc_user ==
  /\ ScriptAt("user")
  /\ kc' = [kc EXCEPT ![script.email].user = TRUE]
  /\ script' = [script EXCEPT !.stage = "password", !.created = ~kc[script.email].user]
  /\ UNCHANGED <<plan, tenant, op, realm, client, file, demo, job, runs, cut, settled>>

(* Only for a user this run created, unless --reset-password.              *)
set_kc_password ==
  /\ ScriptAt("password")
  /\ kc' = IF script.created \/ script.reset THEN [kc EXCEPT ![script.email].pw = "seeded"] ELSE kc
  /\ ScriptGoto("role")
  /\ UNCHANGED <<plan, tenant, op, realm, client, file, demo, job, runs, cut, settled>>

ensure_platform_admin_role ==
  /\ ScriptAt("role")
  /\ kc' = IF script.admin THEN [kc EXCEPT ![script.email].role = TRUE] ELSE kc
  /\ ScriptGoto("row")
  /\ UNCHANGED <<plan, tenant, op, realm, client, file, demo, job, runs, cut, settled>>

ensure_operator_row ==
  /\ ScriptAt("row")
  /\ op' = [op EXCEPT ![script.email].row = TRUE]
  /\ ScriptGoto("member")
  /\ UNCHANGED <<plan, tenant, kc, realm, client, file, demo, job, runs, cut, settled>>

(* Mutant: as in the seed job, a row that was there ends the step.         *)
MemberWithRow ==
  /\ ScriptAt("member")
  /\ op' = IF script.created THEN [op EXCEPT ![script.email].member = TRUE] ELSE op
  /\ ScriptGoto("done")
  /\ UNCHANGED <<plan, tenant, kc, realm, client, file, demo, job, runs, cut, settled>>

ensure_membership_row ==
  /\ ScriptAt("member")
  /\ op' = [op EXCEPT ![script.email].member = TRUE]
  /\ ScriptGoto("done")
  /\ UNCHANGED <<plan, tenant, kc, realm, client, file, demo, job, runs, cut, settled>>

ScriptEnds ==
  /\ script # IdleScript
  /\ script' = IdleScript
  /\ cut' = IF script.stage \in {"password", "member"} THEN cut \cup {script.email} ELSE cut
  /\ UNCHANGED <<plan, tenant, op, kc, realm, client, file, demo, job, runs, settled>>

-----------------------------------------------------------------------------
(* Everybody else.                                                         *)

(* POST /v1/operators, with a platform admin's session, so there is an     *)
(* operator already: both rows in one transaction, 409 for a known email.  *)
create_operator(e) ==
  /\ ~op[e].row /\ \E d \in Emails : op[d].row
  /\ op' = [op EXCEPT ![e].row = TRUE, ![e].member = TRUE]
  /\ UNCHANGED <<plan, tenant, kc, realm, client, file, demo, job, runs, script, cut, settled>>

(* A login through Keycloak links the row by email when the sub is new.    *)
lookup_operator_by_oidc_sub(e) ==
  /\ kc[e].pw # "none" /\ op[e].row
  /\ op' = [op EXCEPT ![e].linked = TRUE]
  /\ UNCHANGED <<plan, tenant, kc, realm, client, file, demo, job, runs, script, cut, settled>>

(* Keycloak: a person changes the password, an administrator regenerates a *)
(* client's secret.                                                        *)
ChangePassword(e) ==
  /\ kc[e].pw = "seeded"
  /\ kc' = [kc EXCEPT ![e].pw = "own"]
  /\ UNCHANGED <<plan, tenant, op, realm, client, file, demo, job, runs, script, cut, settled>>

RegenerateSecret(c) ==
  /\ client[c].secret \in 1..(MaxSecrets - 1)
  /\ client' = [client EXCEPT ![c].secret = @ + 1]
  /\ job' = [job EXCEPT !.stale = @ \cup {c}]
  /\ UNCHANGED <<plan, tenant, op, kc, realm, file, demo, runs, script, cut, settled>>

SeedJob ==
  \/ main \/ seed_default_tenant \/ seed_audit_chain_state \/ seed_bootstrap_operator
  \/ SeedMembership \/ ensure_admin_password_file \/ hand_admin_password_to_admin_ui \/ ensure_realm
  \/ \E c \in Clients : \/ write_client_secrets(c) \/ enforce_pkce_on_clients(c)
                        \/ patch_keycloak_client_redirect_uris(c)
  \/ ensure_jaeger_cookie_secret \/ ensure_admin_user \/ sync_admin_password
  \/ assign_platform_admin_role \/ touch_sentinel \/ pre_link_operator_oidc_sub
  \/ generate_admin_ui_keypair \/ WritePublicKey \/ seed_mock_backend_demo
  \/ JobStops

Script ==
  \/ \E e \in Emails : StartScript(e)
  \/ ensure_kc_user \/ set_kc_password \/ ensure_platform_admin_role
  \/ ensure_operator_row \/ ensure_membership_row \/ ScriptEnds

ProvNext ==
  \/ SeedJob
  \/ Script
  \/ \E e \in Emails : create_operator(e) \/ lookup_operator_by_oidc_sub(e) \/ ChangePassword(e)
  \/ \E c \in Clients : RegenerateSecret(c)

ProvSpec == ProvInit /\ [][ProvNext]_provVars

-----------------------------------------------------------------------------
(* Properties                                                              *)

(* Wherever earlier runs stopped, a seed job that ends leaves: the tenant  *)
(* and its chain; the clients and their secret files (unless Keycloak      *)
(* changed one meanwhile); the administrator's row, user and role; a whole *)
(* private key with the public key that belongs to it; a password file,    *)
(* handed to admin-ui, with an administrator who has that password in      *)
(* Keycloak or has replaced it, and a membership.  There are three         *)
(* exceptions, each for a stated reason: the public key of a run stopped   *)
(* inside its write stays torn, a chown that this run was denied leaves    *)
(* the file with root, and after a run that stopped between the operator's *)
(* row and the end of the password file there is no file, ever.            *)
SeedRepairs ==
  JobAt("done") =>
    /\ tenant = "both" /\ realm
    /\ \A c \in Clients : /\ client[c].pkce /\ client[c].uris = "public"
                          /\ c \in job.stale \/ file.secret[c] = client[c].secret
    /\ op[Admin].row /\ kc[Admin].user /\ kc[Admin].role /\ file.cookie = "valid"
    /\ file.private \notin {0, Torn} /\ file.public \in {file.private, Torn}
    /\ \/ /\ file.pw = "whole" /\ (file.handed \/ job.denied)
          /\ kc[Admin].pw # "none" /\ op[Admin].member
       \/ file.pw = "none" /\ job.lost

(* An operator without membership, or a user without password, is left     *)
(* behind only by a run that was stopped between the two: no interleaving  *)
(* of the job, the script and the endpoint does it without one.            *)
NoSilentGap ==
  \A e \in Emails \ cut :
    /\ (op[e].row /\ ~op[e].member) =>
         \/ e = Admin /\ JobAt("membership")
         \/ script # IdleScript /\ script.email = e /\ ScriptAt("member")
    /\ (kc[e].user /\ kc[e].pw = "none") =>
         \/ e = Admin /\ (file.pw # "whole" \/ ~file.synced)
         \/ script # IdleScript /\ script.email = e /\ ScriptAt("password")

(* create_operator.py: a run that ends leaves the user and both rows,      *)
(* whatever an earlier run, the seed job or the endpoint left undone.      *)
ScriptCompletes ==
  ScriptAt("done") => /\ op[script.email].row /\ op[script.email].member
                      /\ kc[script.email].user /\ (script.admin => kc[script.email].role)

(* Operators are never half made without a trace: by the seed job, by      *)
(* create_operator.py or by the endpoint, in whatever order they run.      *)
OperatorsConsistent == ProvTypeOK /\ NoSilentGap /\ ScriptCompletes

(* A password somebody chose is not set back by running things again: not  *)
(* by the seed job once one has ended, not by the script, unless asked to  *)
(* with --reset-password or still busy creating that user.                 *)
ChosenPasswordKept ==
  [][\A e \in Emails : (settled /\ kc[e].pw = "own" /\ kc'[e].pw # "own") =>
       script # IdleScript /\ (script.reset \/ script.created)]_provVars

=============================================================================
