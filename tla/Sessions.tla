------------------------------ MODULE Sessions ------------------------------
(***************************************************************************)
(* How operators get into admin-api and out again, on several replicas.    *)
(*                                                                         *)
(*   auth/oidc.py, oidc_state.py  login through Keycloak: a PKCE state row *)
(*                                shared by the replicas, a code exchange, *)
(*                                an ID token checked with cached keys     *)
(*   auth/internal.py, cli.py     the break-glass password                 *)
(*   auth/sessions.py             the sessions table                       *)
(*   api/auth.py                  logout, whoami and its per-process cache *)
(*   api/operators.py             what an operator may do, and its change  *)
(*                                                                         *)
(* Handlers are coroutines: a step is what one runs between two awaits, on *)
(* one replica.  Sessions, states, caches and keys age with a clock; the   *)
(* ages are small numbers in the order of the real ones (whoami cache 15   *)
(* s, login state 10 min, keys 1 h, session 8 h).                          *)
(***************************************************************************)
EXTENDS Naturals, FiniteSets

CONSTANTS Requests,     \* handlers under way at a time
          Pods,         \* replicas of admin-api
          MaxSessions,  \* bound: session ids minted
          MaxStates,    \* bound: login states minted
          MaxKeys,      \* bound: signing keys Keycloak goes through
          MaxTime,      \* bound: the clock
          MaxChanges,   \* bound: changes of the operator's role and password
          Workloads,    \* bound: which of "use", "change", "again" and "rotate" occur together
          SessionTTL, WhoamiTTL, StateTTL, JwksTTL

ASSUME TimeAssumption ==
  /\ MaxTime \in Nat /\ MaxChanges \in Nat /\ MaxSessions \in Nat /\ MaxStates \in Nat
  /\ MaxKeys \in Nat \ {0}
  /\ {SessionTTL, WhoamiTTL, StateTTL, JwksTTL} \subseteq Nat \ {0}

Tokens == 1..MaxSessions
States == 1..MaxStates
Keys   == 1..MaxKeys
Times  == 0..MaxTime

VARIABLES
  load,       \* what occurs in this behaviour: sessions are used, the operator is
              \* changed, a second login is begun, Keycloak rotates its keys
  now,
  sessions,   \* the sessions table: when a row expires, 0 when there is none
  minted,     \* session ids minted
  died,       \* when a row was deleted or had expired
  states,     \* oidc_login_state: when a row expires, 0 when there is none
  issued,     \* states issued
  used,       \* how many code exchanges each state has led to
  signing,    \* Keycloak's signing key; the published ones reach back to ...
  oldest,     \* ... this one
  since,      \* history: when Keycloak began to sign with a key
  jwks,       \* per replica: the newest and the oldest key cached, and when
  admin,      \* is_platform_admin of the operator at hand
  flipped,    \* when that changed last
  hash,       \* internal_password_hash, 0 when NULL
  changes,    \* changes of role and password so far
  cache,      \* per replica: _WHOAMI_CACHE
  req,        \* the handlers
  out         \* per replica: tokens whose logout it has answered 204

sessionVars == <<sessions, minted, died, out>>
oidcVars    == <<states, issued, used, signing, oldest, since, jwks>>
operVars    == <<admin, flipped, hash, changes>>
vars == <<load, now, sessions, minted, died, states, issued, used, signing, oldest, since, jwks, admin,
          flipped, hash, changes, cache, req, out>>

Idle    == [op |-> "none"]
NoEntry == [stamp |-> MaxTime + 1]

Lookups   == [op : {"whoami"}, pod : Pods, token : Tokens, stage : {"validate", "fetch", "store"},
              start : Times, evicted : BOOLEAN, admin : BOOLEAN]
Logouts   == [op : {"logout"}, pod : Pods, token : Tokens, stage : {"evict"}, failed : BOOLEAN]
Callbacks == [op : {"callback"}, pod : Pods, state : States,
              stage : {"exchange", "verify", "refresh", "refused", "session"}, key : 0..MaxKeys]
Logins    == [op : {"internal"}, stage : {"session"}]
Guarded   == [op : {"guard"}, token : Tokens, stage : {"role", "passed"}, late : BOOLEAN]

TypeOK ==
  /\ now \in Times
  /\ load \in Workloads
  /\ sessions \in [Tokens -> 0..(MaxTime + SessionTTL)]
  /\ minted \in 0..MaxSessions
  /\ died \in [Tokens -> Times]
  /\ states \in [States -> 0..(MaxTime + StateTTL)]
  /\ issued \in 0..MaxStates
  /\ used \in [States -> Nat]
  /\ signing \in Keys /\ oldest \in 1..signing /\ since \in [Keys -> Times]
  /\ jwks \in [Pods -> [new : 0..MaxKeys, old : 0..MaxKeys, at : Times]]
  /\ admin \in BOOLEAN /\ flipped \in Times
  /\ hash \in 0..MaxChanges /\ changes \in 0..MaxChanges
  /\ cache \in [Pods -> [Tokens -> {NoEntry} \cup [stamp : Times, admin : BOOLEAN]]]
  /\ req \in [Requests -> {Idle} \cup Lookups \cup Logouts \cup Callbacks \cup Logins \cup Guarded]
  /\ out \in [Pods -> SUBSET Tokens]

(* What Keycloak's certs endpoint answers, and when it was asked.          *)
Published == [new |-> signing, old |-> oldest, at |-> now]

Init ==
  /\ load \in Workloads
  /\ now = 0
  /\ sessions = [t \in Tokens |-> 0]
  /\ minted = 0
  /\ died = [t \in Tokens |-> 0]
  /\ states = [s \in States |-> 0]
  /\ issued = 0
  /\ used = [s \in States |-> 0]
  /\ signing = 1 /\ oldest = 1 /\ since = [k \in Keys |-> 0]
  /\ \E keys \in {Published, [new |-> 0, old |-> 0, at |-> 0]} :   \* were there logins before?
       jwks = [p \in Pods |-> keys]
  /\ admin = FALSE /\ flipped = 0
  /\ hash = 0 /\ changes = 0
  /\ cache = [p \in Pods |-> [t \in Tokens |-> NoEntry]]
  /\ req = [x \in Requests |-> Idle]
  /\ out = [p \in Pods |-> {}]

Alive(t)    == sessions[t] > now
At(x, op, s) == req[x].op = op /\ req[x].stage = s
Begin(x, r) == req[x] = Idle /\ req' = [req EXCEPT ![x] = r]
Goto(x, s)  == req' = [req EXCEPT ![x].stage = s]
Done(x)     == req' = [req EXCEPT ![x] = Idle]

-----------------------------------------------------------------------------
(* Login through Keycloak.                                                 *)

(* OidcStateRepository.put: expired rows are collected, a fresh one added. *)
PutState(new) ==
  [s \in States |-> IF s = new THEN now + StateTTL ELSE IF states[s] < now THEN 0 ELSE states[s]]

(* pop: DELETE ... RETURNING, of a row that has not expired.               *)
PopState(s) == states[s] > now /\ states' = [states EXCEPT ![s] = 0]

oidc_login ==
  /\ issued < MaxStates /\ (issued > 0 => "again" \in load)
  /\ issued' = issued + 1
  /\ states' = PutState(issued + 1)
  /\ UNCHANGED <<load, now, sessionVars, used, signing, oldest, since, jwks, operVars, cache, req>>

(* The callback, on any replica and any number of times.  The pop commits  *)
(* before the exchange; an unknown or expired state is answered 401 and    *)
(* changes nothing.                                                        *)
oidc_callback(x, p, s) ==
  /\ PopState(s)
  /\ Begin(x, [op |-> "callback", pod |-> p, state |-> s, stage |-> "exchange", key |-> 0])
  /\ UNCHANGED <<load, now, sessionVars, issued, used, signing, oldest, since, jwks, operVars, cache>>

(* The code is exchanged for an ID token signed with the key of the day.   *)
oidc_token_exchange(x) ==
  /\ At(x, "callback", "exchange")
  /\ used' = [used EXCEPT ![req[x].state] = @ + 1]
  /\ req' = [req EXCEPT ![x].stage = "verify", ![x].key = signing]
  /\ UNCHANGED <<load, now, sessionVars, states, issued, signing, oldest, since, jwks, operVars, cache>>

(* Mutant: the cached keys are used however old they are.                  *)
FetchStale(p, force) == IF ~force /\ jwks[p].new # 0 THEN jwks[p] ELSE Published

(* _fetch_jwks: the cached keys while they are young, unless forced.  The  *)
(* lock makes the HTTP call and the store one step for the replica.        *)
fetch_jwks(p, force) ==
  IF ~force /\ jwks[p].new # 0 /\ now - jwks[p].at < JwksTTL THEN jwks[p] ELSE Published

Verifies(k, set) == set.old <= k /\ k <= set.new

(* _verify_id_token.  A failure of the library's that is a JoseError leads *)
(* to a second try with fresh keys, any other one (such as a ValueError    *)
(* for a key id it cannot find) to a 401 at once; which of them a missing  *)
(* key is, is up to the library, authlib.                                  *)
verify_id_token(x) ==
  /\ req[x].op = "callback" /\ req[x].stage \in {"verify", "refresh"}
  /\ LET force == req[x].stage = "refresh"
         keys == fetch_jwks(req[x].pod, force)
     IN /\ jwks' = [jwks EXCEPT ![req[x].pod] = keys]
        /\ \/ Verifies(req[x].key, keys) /\ Goto(x, "session")
           \/ ~Verifies(req[x].key, keys) /\ ~force /\ Goto(x, "refresh")
           \/ ~Verifies(req[x].key, keys) /\ Goto(x, "refused")
  /\ UNCHANGED <<load, now, sessionVars, states, issued, used, signing, oldest, since, operVars, cache>>

(* Keycloak takes a new signing key; it stops publishing the oldest.       *)
RotateKey ==
  /\ signing < MaxKeys /\ "rotate" \in load
  /\ signing' = signing + 1 /\ since' = [since EXCEPT ![signing + 1] = now]
  /\ UNCHANGED <<load, now, sessionVars, states, issued, used, oldest, jwks, operVars, cache, req>>

RetireKey ==
  /\ oldest < signing
  /\ oldest' = oldest + 1
  /\ UNCHANGED <<load, now, sessionVars, states, issued, used, signing, since, jwks, operVars, cache, req>>

-----------------------------------------------------------------------------
(* The break-glass login.                                                  *)

(* The hash is read twice: internal_login answers 404 when there is none,  *)
(* verify_internal_login compares the password with what it reads then.    *)
(* Nothing is kept from the first read, so the second is the step.  Its    *)
(* test for the status "locked" is left out: nothing sets that status.     *)
verify_internal_login(w) == hash # 0 /\ w = hash

internal_login(x) ==
  /\ \E w \in 1..changes : verify_internal_login(w)
  /\ Begin(x, [op |-> "internal", stage |-> "session"])
  /\ UNCHANGED <<load, now, sessionVars, oidcVars, operVars, cache>>

(* mintkey admin reset-password and clear-password.                        *)
cmd_reset_password ==
  /\ changes < MaxChanges /\ "change" \in load
  /\ changes' = changes + 1 /\ hash' = changes + 1
  /\ UNCHANGED <<load, now, sessionVars, oidcVars, admin, flipped, cache, req>>

cmd_clear_password ==
  /\ hash # 0
  /\ hash' = 0
  /\ UNCHANGED <<load, now, sessionVars, oidcVars, admin, flipped, changes, cache, req>>

(* PATCH /v1/operators: the role; DELETE sets a status no check here reads. *)
update_operator ==
  /\ changes < MaxChanges /\ "change" \in load
  /\ changes' = changes + 1
  /\ admin' = ~admin /\ flipped' = now
  /\ UNCHANGED <<load, now, sessionVars, oidcVars, hash, cache, req>>

-----------------------------------------------------------------------------
(* Sessions.                                                               *)

create_session(x) ==
  /\ At(x, "callback", "session") \/ At(x, "internal", "session")
  /\ minted < MaxSessions
  /\ minted' = minted + 1
  /\ sessions' = [sessions EXCEPT ![minted + 1] = now + SessionTTL]
  /\ Done(x)
  /\ UNCHANGED <<load, now, died, out, oidcVars, operVars, cache>>

validate_session(t) == t <= minted /\ Alive(t)

(* A request on a tenant's resources: the session, then the role, then the *)
(* handler.  A session that is not valid is answered 401.                  *)
require_tenant_session(x, t) ==
  /\ "use" \in load /\ validate_session(t)
  /\ Begin(x, [op |-> "guard", token |-> t, stage |-> "role",
               late |-> \E p \in Pods : t \in out[p]])
  /\ UNCHANGED <<load, now, sessionVars, oidcVars, operVars, cache>>

(* A platform admin passes for any tenant, anybody for the session's own.  *)
is_operator_platform_admin(x) ==
  /\ At(x, "guard", "role")
  /\ \E own \in BOOLEAN : IF admin \/ own THEN Goto(x, "passed") ELSE Done(x)
  /\ UNCHANGED <<load, now, sessionVars, oidcVars, operVars, cache>>

-----------------------------------------------------------------------------
(* Logout.                                                                 *)

delete_session(t) ==
  /\ sessions' = [sessions EXCEPT ![t] = 0]
  /\ died' = IF Alive(t) THEN [died EXCEPT ![t] = now] ELSE died

(* The deletion may fail; the handler goes on either way.                  *)
logout(x, p, t) ==
  /\ "use" \in load /\ t <= minted
  /\ \E failed \in BOOLEAN :
       /\ IF failed THEN UNCHANGED <<sessions, died>> ELSE delete_session(t)
       /\ Begin(x, [op |-> "logout", pod |-> p, token |-> t, stage |-> "evict", failed |-> failed])
  /\ UNCHANGED <<load, now, minted, out, oidcVars, operVars, cache>>

(* _evict_whoami and the answer, in one step of the event loop.  The code  *)
(* counts evictions and a lookup compares the count with the one it began  *)
(* at: here the lookups under way on the replica are marked.               *)
evict_whoami(x) ==
  /\ At(x, "logout", "evict")
  /\ LET p == req[x].pod
     IN /\ cache' = [cache EXCEPT ![p][req[x].token] = NoEntry]
        /\ out' = IF req[x].failed THEN out ELSE [out EXCEPT ![p] = @ \cup {req[x].token}]
        /\ req' = [y \in Requests |-> IF y = x THEN Idle
                                      ELSE IF req[y].op = "whoami" /\ req[y].pod = p
                                             THEN [req[y] EXCEPT !.evicted = TRUE] ELSE req[y]]
  /\ UNCHANGED <<load, now, sessions, minted, died, oidcVars, operVars>>

-----------------------------------------------------------------------------
(* whoami.                                                                 *)

Fresh(entry) == entry # NoEntry /\ now - entry.stamp < WhoamiTTL

(* A lookup that misses the cache notes the time.                          *)
(* A hit is answered at once and changes nothing.                          *)
whoami(x, p, t) ==
  /\ "use" \in load /\ t <= minted /\ ~Fresh(cache[p][t])
  /\ Begin(x, [op |-> "whoami", pod |-> p, token |-> t, stage |-> "validate",
               start |-> now, evicted |-> FALSE, admin |-> FALSE])
  /\ UNCHANGED <<load, now, sessionVars, oidcVars, operVars, cache>>

WhoamiValidate(x) ==
  /\ At(x, "whoami", "validate")
  /\ IF validate_session(req[x].token) THEN Goto(x, "fetch") ELSE Done(x)
  /\ UNCHANGED <<load, now, sessionVars, oidcVars, operVars, cache>>

(* The operator's row, joined with a session that is still there.          *)
WhoamiFetch(x) ==
  /\ At(x, "whoami", "fetch")
  /\ IF Alive(req[x].token)
       THEN req' = [req EXCEPT ![x].stage = "store", ![x].admin = admin]
       ELSE Done(x)
  /\ UNCHANGED <<load, now, sessionVars, oidcVars, operVars, cache>>

(* The store and the pruning of what was old when the lookup began.        *)
StoreEntry(x, entry) ==
  [cache EXCEPT ![req[x].pod] = [u \in Tokens |->
     IF u = req[x].token THEN entry
     ELSE IF @[u] # NoEntry /\ @[u].stamp + WhoamiTTL > req[x].start THEN @[u] ELSE NoEntry]]

(* Mutant: stored whatever was evicted meanwhile.                          *)
StoreAlways(x) ==
  /\ At(x, "whoami", "store")
  /\ cache' = StoreEntry(x, [stamp |-> req[x].start, admin |-> req[x].admin])
  /\ Done(x)
  /\ UNCHANGED <<load, now, sessionVars, oidcVars, operVars>>

(* Mutant: the entry's age counts from the store.                          *)
StoreStampsLate(x) ==
  /\ At(x, "whoami", "store")
  /\ cache' = IF req[x].evicted THEN cache
              ELSE StoreEntry(x, [stamp |-> now, admin |-> req[x].admin])
  /\ Done(x)
  /\ UNCHANGED <<load, now, sessionVars, oidcVars, operVars>>

WhoamiStore(x) ==
  /\ At(x, "whoami", "store")
  /\ cache' = IF req[x].evicted THEN cache
              ELSE StoreEntry(x, [stamp |-> req[x].start, admin |-> req[x].admin])
  /\ Done(x)
  /\ UNCHANGED <<load, now, sessionVars, oidcVars, operVars>>

-----------------------------------------------------------------------------
Tick ==
  /\ now < MaxTime
  /\ now' = now + 1
  /\ died' = [t \in Tokens |-> IF sessions[t] = now + 1 THEN now + 1 ELSE died[t]]
  /\ UNCHANGED <<load, sessions, minted, out, oidcVars, operVars, cache, req>>

(* A handler ends: answered, failed, or its replica stopped.               *)
End(x) ==
  /\ req[x] # Idle
  /\ Done(x)
  /\ UNCHANGED <<load, now, sessionVars, oidcVars, operVars, cache>>

Handler(x) ==
  \/ \E p \in Pods : \/ \E s \in States : oidc_callback(x, p, s)
                     \/ \E t \in Tokens : logout(x, p, t) \/ whoami(x, p, t)
  \/ \E t \in Tokens : require_tenant_session(x, t)
  \/ oidc_token_exchange(x) \/ verify_id_token(x)
  \/ internal_login(x) \/ create_session(x)
  \/ is_operator_platform_admin(x) \/ evict_whoami(x)
  \/ WhoamiValidate(x) \/ WhoamiFetch(x) \/ WhoamiStore(x)
  \/ End(x)

Next ==
  \/ \E x \in Requests : Handler(x)
  \/ oidc_login \/ RotateKey \/ RetireKey
  \/ cmd_reset_password \/ cmd_clear_password \/ update_operator
  \/ Tick

Spec == Init /\ [][Next]_vars

-----------------------------------------------------------------------------
(* Properties                                                              *)

(* After a replica has answered a logout it knows the session no more: a   *)
(* whoami that was looking it up at the time does not put it back into the *)
(* cache, however its queries and the logout's delete interleave.          *)
LogoutSticks == \A p \in Pods : \A t \in out[p] : cache[p][t] = NoEntry

(* No request that begins after a logout was answered, on whichever        *)
(* replica, gets past require_tenant_session with that session.            *)
LoggedOutIsOut == \A x \in Requests : req[x].op = "guard" => ~req[x].late

(* What whoami answers from a cache was true less than the cache's time to *)
(* live ago, on every replica: the session was there and the role was the  *)
(* one answered.                                                           *)
WhoamiBounded ==
  \A p \in Pods, t \in Tokens : Fresh(cache[p][t]) =>
    /\ Alive(t) \/ now - died[t] < WhoamiTTL
    /\ cache[p][t].admin = admin \/ now - flipped < WhoamiTTL

(* A login state leads to one code exchange at most, when callbacks with   *)
(* it arrive on several replicas at once.                                  *)
StateUsedOnce == \A s \in States : used[s] <= 1

(* A session ends with its logout and begins with one use of a login state *)
(* (logout, whoami, require_tenant_session, oidc_callback).                *)
SessionsConsistent == TypeOK /\ LogoutSticks /\ LoggedOutIsOut /\ StateUsedOnce

(* A login is refused for its ID token's signature only when Keycloak has  *)
(* withdrawn the key, or in the hour (JwksTTL) after Keycloak began to     *)
(* sign with it: whatever the replica has cached and whoever refreshed it, *)
(* a rotation never locks a replica out for longer (_fetch_jwks,           *)
(* _verify_id_token).                                                      *)
RefusalsBounded ==
  [][\A x \in Requests : ~At(x, "callback", "refused") /\ At(x, "callback", "refused")' =>
       req[x].key < oldest \/ now - since[req[x].key] < JwksTTL]_vars

=============================================================================
