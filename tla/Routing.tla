------------------------------- MODULE Routing -------------------------------
(***************************************************************************)
(* Where the proxies send a service's traffic.  The address lives in three  *)
(* columns: services.base_url, which operators edit; target_url and         *)
(* target_address of the vault's current version, written by whoever       *)
(* registers or rotates a credential.  The HTTP proxy goes by target_url,   *)
(* ssh-proxy by base_url as the vault joins it in, and by target_address    *)
(* when there is no services row.  update_service writes target_address     *)
(* (the cascade) for an SSH service, never target_url.                     *)
(*                                                                         *)
(* One service id, from create_service on.  Only the current version of the *)
(* vault is kept: older ones are never read (Credentials shows that exactly *)
(* one is current).  Of a services row url and auth scheme are kept, of a   *)
(* credential its scheme and addresses.  Malformed and forbidden addresses  *)
(* are refused before anything is read and are left out.                   *)
(***************************************************************************)
CONSTANTS Urls,      \* well-formed addresses; base_url and host:port alike
          Schemes,   \* auth schemes
          SshSchemes,
          Requests,  \* admin-api requests under way at a time
          None       \* no value, NULL or ""

ASSUME RoutingAssumption ==
  /\ SshSchemes \subseteq Schemes
  /\ None \notin Urls \cup Schemes

VARIABLES svc,      \* the services row
          made,     \* has the service been created
          current,  \* the vault's is_current version
          active,   \* schemes with an active row in public.credentials
          req,      \* requests in progress
          want,     \* history: the last committed value of each column
          drift     \* history: something happened that lets target_address differ

vars == <<svc, made, current, active, req, want, drift>>

Idle == [kind |-> "idle", stage |-> "idle", url |-> None, scheme |-> None, addr |-> None,
         effective |-> None, moved |-> FALSE, bad |-> FALSE]

Service == [url : Urls, scheme : Schemes]
Version == [scheme : Schemes, url : Urls, addr : Urls \cup {None}, moved : BOOLEAN]

Ssh(scheme) == scheme \in SshSchemes
Begin(r, q) == req[r] = Idle /\ req' = [req EXCEPT ![r] = q]
At(r, kind, stage) == req[r].kind = kind /\ req[r].stage = stage
-----------------------------------------------------------------------------
(* Services. *)

create_service(url, scheme) ==
  /\ ~made /\ made' = TRUE
  /\ svc' = [url |-> url, scheme |-> scheme]
  /\ want' = svc'
  /\ UNCHANGED <<current, active, req, drift>>

(* The template's address, unless the request overrides it, and its scheme; *)
(* 422 without an address.                                                 *)
create_service_from_template(template, override) ==
  LET url == IF override # None THEN override ELSE template.url
  IN url # None /\ create_service(url, template.scheme)

(* Does get_service find the row; otherwise 404, here and elsewhere. *)
get_service == svc # None

delete_service ==
  /\ made
  /\ svc' = None /\ want' = None
  /\ active' = {}
  /\ UNCHANGED <<made, current, req, drift>>

(* update_service looks at the stored scheme only to decide about the       *)
(* cascade, and only if the request names an address and no scheme.        *)
update_service(r, url, scheme) ==
  /\ made
  /\ Begin(r, [Idle EXCEPT !.kind = "update", !.stage = "write", !.url = url, !.scheme = scheme,
       !.effective = IF scheme # None \/ url = None \/ svc = None THEN scheme ELSE svc.scheme])
  /\ UNCHANGED <<svc, made, current, active, want, drift>>

(* A plausible slip: the row is read with the scheme and all columns are    *)
(* written back.                                                           *)
MutPatched(q, row) ==
  [url    |-> IF q.url # None THEN q.url ELSE row.url,
   scheme |-> IF q.scheme # None THEN q.scheme
              ELSE IF q.effective # None THEN q.effective ELSE row.scheme]

(* COALESCE(:column, column). *)
Patched(q, row) ==
  [url    |-> IF q.url # None THEN q.url ELSE row.url,
   scheme |-> IF q.scheme # None THEN q.scheme ELSE row.scheme]

(* UPDATE services, then the cascade onto the version that is current, then *)
(* the event, committed together.  A service that is gone answers 404 after *)
(* all that.  A request that runs meanwhile may have read the old address. *)
UpdateRow(r) ==
  LET q == req[r]
      cascade == q.url # None /\ Ssh(q.effective)
  IN /\ At(r, "update", "write")
     /\ svc' = IF svc = None THEN None ELSE Patched(q, svc)
     /\ want' = IF svc = None THEN None
                ELSE [url    |-> IF q.url = None THEN want.url ELSE q.url,
                      scheme |-> IF q.scheme = None THEN want.scheme ELSE q.scheme]
     /\ current' = IF current = None THEN None
                   ELSE [current EXCEPT !.addr  = IF cascade THEN q.url ELSE @,
                                        !.moved = @ \/ q.url # None]
     /\ drift' = IF q.url = None THEN drift ELSE ~cascade
     /\ req' = [x \in Requests |-> IF x = r THEN Idle
                                   ELSE IF q.url = None \/ req[x] = Idle THEN req[x]
                                   ELSE [req[x] EXCEPT !.moved = TRUE]]
     /\ UNCHANGED <<made, active>>
-----------------------------------------------------------------------------
(* Credentials, as far as addresses go. *)

(* The address of an SSH key or password comes with its value; an ssh_ca    *)
(* credential is stored without one.                                       *)
create_credential(r, scheme, addr) ==
  /\ get_service
  /\ addr # None => Ssh(scheme)
  /\ Begin(r, [Idle EXCEPT !.kind = "credential", !.stage = "put", !.url = svc.url,
                           !.scheme = scheme, !.addr = addr,
                           !.bad = Ssh(scheme) /\ addr # svc.url])
  /\ UNCHANGED <<svc, made, current, active, want, drift>>

(* Rotation needs an active row of the scheme; a new value of an SSH        *)
(* credential brings an address, a generated one none.                     *)
rotate_credential(r, scheme, addr) ==
  /\ get_service
  /\ scheme \in active
  /\ addr # None => Ssh(scheme)
  /\ Begin(r, [Idle EXCEPT !.kind = "credential", !.stage = "carry", !.url = svc.url,
                           !.scheme = scheme, !.addr = addr,
                           !.bad = addr # None /\ addr # svc.url])
  /\ UNCHANGED <<svc, made, current, active, want, drift>>

(* A plausible slip: a rotation starts from empty routing metadata.        *)
MutCarry(q) == [q EXCEPT !.stage = "put"]

(* The address of the version that is current, unless the request has one;  *)
(* what was read before the address was changed is stale from now on.      *)
Carry(q) ==
  IF q.addr # None THEN [q EXCEPT !.stage = "put"]
  ELSE [q EXCEPT !.stage = "put", !.addr = current.addr]

(* A failed read of the vault counts as nothing to carry, and so does a     *)
(* version without an address.                                             *)
ReadPrior(r) ==
  LET q == req[r]
  IN /\ At(r, "credential", "carry")
     /\ \/ /\ current # None
           /\ req' = [req EXCEPT ![r] = [Carry(q) EXCEPT !.bad = @ \/ (q.addr = None /\ current.addr = None)]]
        \/ req' = [req EXCEPT ![r].stage = "put", ![r].bad = @ \/ q.addr = None]
     /\ UNCHANGED <<svc, made, current, active, want, drift>>

(* The base_url the request read. *)
TargetUrl(q) == q.url

(* The vault stores the new current version.  The request then records it   *)
(* and commits, or fails: nothing takes the version back.                  *)
PutVersion(r) ==
  LET q == req[r]
  IN /\ At(r, "credential", "put")
     /\ current' = [scheme |-> q.scheme, url |-> TargetUrl(q), addr |-> q.addr, moved |-> q.moved]
     /\ active' \in {active, IF svc = None THEN active ELSE active \cup {q.scheme}}
     /\ drift' = (drift \/ q.bad \/ q.moved)
     /\ req' = [req EXCEPT ![r] = Idle]
     /\ UNCHANGED <<svc, made, want>>

(* The active row of a scheme is revoked; the vault is not told. *)
delete_credential_version(scheme) ==
  /\ scheme \in active
  /\ active' = active \ {scheme}
  /\ UNCHANGED <<svc, made, current, req, want, drift>>

(* The vault or the database fails a request and its transaction is undone. *)
Abort(r) ==
  /\ req[r] # Idle
  /\ req' = [req EXCEPT ![r] = Idle]
  /\ UNCHANGED <<svc, made, current, active, want, drift>>
-----------------------------------------------------------------------------
(* What the proxies make of it. *)

(* PostgresStore.Get: the current version with the service's base_url,      *)
(* which is empty without a services row.                                  *)
GetCredential ==
  [scheme |-> current.scheme, target_url |-> current.url, target_address |-> current.addr,
   base_url |-> IF svc = None THEN None ELSE svc.url]

(* backend.go: base_url, then target_address; without either no connection. *)
DialTarget == IF GetCredential.base_url # None THEN GetCredential.base_url
              ELSE GetCredential.target_address
-----------------------------------------------------------------------------
Init ==
  /\ svc = None /\ made = FALSE
  /\ current = None
  /\ active = {}
  /\ req = [r \in Requests |-> Idle]
  /\ want = None
  /\ drift = FALSE

Step(r) ==
  \/ \E url \in Urls \cup {None}, scheme \in Schemes \cup {None} : update_service(r, url, scheme)
  \/ UpdateRow(r)
  \/ \E scheme \in Schemes, addr \in Urls \cup {None} : \/ create_credential(r, scheme, addr)
                                                       \/ rotate_credential(r, scheme, addr)
  \/ ReadPrior(r) \/ PutVersion(r)
  \/ Abort(r)

Next ==
  \/ \E url \in Urls, scheme \in Schemes : create_service(url, scheme)
  \/ \E template \in [url : Urls \cup {None}, scheme : Schemes], override \in Urls \cup {None} :
       create_service_from_template(template, override)
  \/ delete_service
  \/ \E scheme \in Schemes : delete_credential_version(scheme)
  \/ \E r \in Requests : Step(r)

Spec == Init /\ [][Next]_vars
-----------------------------------------------------------------------------
(* Rows, versions and requests have their shape. *)
TypeOK ==
  /\ svc \in Service \cup {None} /\ made \in BOOLEAN
  /\ current \in Version \cup {None}
  /\ active \subseteq Schemes
  /\ want \in Service \cup {None} /\ drift \in BOOLEAN
  /\ req \in [Requests -> [kind : {"idle", "update", "credential"},
                           stage : {"idle", "write", "carry", "put"},
                           url : Urls \cup {None}, scheme : Schemes \cup {None},
                           addr : Urls \cup {None}, effective : Schemes \cup {None},
                           moved : BOOLEAN, bad : BOOLEAN]]

(* Overlapping PATCH requests never undo each other: each column holds what *)
(* the last committed request that named it asked for.                     *)
PatchKeeps == svc = want

(* The HTTP proxy's address is the service's base_url, unless base_url was  *)
(* changed after the request that wrote the current version began: a        *)
(* rotation always brings the route up to date.                            *)
HttpRoute ==
  get_service /\ current # None => GetCredential.target_url = svc.url \/ current.moved

(* "services.base_url is the sole source of truth" (ADR-0023): whatever      *)
(* updates, registrations and rotations overlapped, ssh-proxy connects to   *)
(* the address the operators see.                                          *)
SshDialsBaseUrl ==
  get_service /\ current # None /\ Ssh(current.scheme) => DialTarget = svc.url

(* The row holds what the operators asked for and both proxies follow it,  *)
(* as far as ADR-0023 says (update_service, PostgresStore.Get,             *)
(* resolveBackend).                                                        *)
RoutesConsistent == TypeOK /\ PatchKeeps /\ HttpRoute /\ SshDialsBaseUrl

(* The cascade and the carry-over of rotate_credential keep target_address  *)
(* equal to base_url, except where an operator gave another address, a      *)
(* rotation found none to carry, base_url was changed while a credential    *)
(* request ran, or it was changed when the service was not an SSH service.  *)
AddressInSync ==
  get_service /\ current # None /\ Ssh(current.scheme) /\ ~drift => current.addr = svc.url
=============================================================================
