-------------------------- MODULE OperatorsProofs --------------------------
(***************************************************************************)
(* Machine-checked proofs about how operators log in and how they come to  *)
(* be: about Sessions, for any number of handlers, replicas, sessions,     *)
(* login states and signing keys, any times to live and any length of the  *)
(* run; and about Provisioning, for any number of people, clients, runs    *)
(* and generations of a secret.                                            *)
(***************************************************************************)
EXTENDS Sessions, Provisioning, TLAPS

-----------------------------------------------------------------------------
(* The inductive invariant.                                                *)

\* A session whose logout was answered, or deleted and about to be answered,
\* has no row, and its id is not minted again.
OutForGood ==
  /\ \A p \in Pods : \A t \in out[p] : t <= minted /\ sessions[t] = 0
  /\ \A x \in Requests : req[x].op = "logout" =>
       req[x].token <= minted /\ (~req[x].failed => sessions[req[x].token] = 0)

\* A lookup that an answered logout met past its check of the session was
\* marked; one that begins later stops at the check.
LookupsMarked ==
  \A x \in Requests : req[x].op = "whoami" =>
    (req[x].token \in out[req[x].pod] => req[x].stage = "validate" \/ req[x].evicted)

\* A login state is in the table, or in one handler that has not used it yet,
\* or used: one of these, and only after it was issued.
StatesApart ==
  /\ \A s \in States : states[s] # 0 \/ used[s] # 0 => s <= issued
  /\ \A s \in States : states[s] # 0 => used[s] = 0
  /\ \A x \in Requests : At(x, "callback", "exchange") =>
       /\ req[x].state <= issued
       /\ states[req[x].state] = 0 /\ used[req[x].state] = 0
  /\ \A x, y \in Requests :
       At(x, "callback", "exchange") /\ At(y, "callback", "exchange") /\ req[x].state = req[y].state
         => x = y

\* What was read at or after the time a holds now, or changed since a.
TrueSince(t, a)   == Alive(t) \/ died[t] >= a
AdminSince(b, a)  == b = admin \/ flipped >= a

\* A cached answer was true at its stamp or later, a lookup's findings at its
\* start or later.
EntriesTrue ==
  \A p \in Pods, t \in Tokens : cache[p][t] # NoEntry =>
    /\ cache[p][t].stamp <= now
    /\ TrueSince(t, cache[p][t].stamp) /\ AdminSince(cache[p][t].admin, cache[p][t].stamp)

LookupsTrue ==
  \A x \in Requests : req[x].op = "whoami" =>
    /\ req[x].start <= now
    /\ req[x].stage # "validate" => TrueSince(req[x].token, req[x].start)
    /\ req[x].stage = "store" => AdminSince(req[x].admin, req[x].start)

\* No token is signed with a key that is still to come.
KeysKnown == \A x \in Requests : req[x].op = "callback" => req[x].key <= signing

\* A set of keys a replica has cached reaches no less far back than what is
\* published now, and lacks only keys that came into use after it was fetched.
KeySetTrue(set) == set.new # 0 =>
  /\ set.old <= oldest /\ set.at <= now
  /\ \A k \in Keys : set.new < k /\ k <= signing => set.at <= since[k]

IInv == /\ SessionsConsistent
        /\ OutForGood /\ LookupsMarked /\ StatesApart /\ EntriesTrue /\ LookupsTrue
        /\ KeysKnown /\ \A p \in Pods : KeySetTrue(jwks[p])

-----------------------------------------------------------------------------
(* Types.                                                                  *)

ReqTypes == {Idle} \cup Lookups \cup Logouts \cup Callbacks \cup Logins \cup Guarded
Entries  == {NoEntry} \cup [stamp : Times, admin : BOOLEAN]
KeySets  == [new : 0..MaxKeys, old : 0..MaxKeys, at : Times]

\* The operation of a handler tells what it carries.
LEMMA OpOf ==
  ASSUME TypeOK, NEW x \in Requests
  PROVE  /\ req[x].op = "whoami" => req[x] \in Lookups
         /\ req[x].op = "logout" => req[x] \in Logouts
         /\ req[x].op = "callback" => req[x] \in Callbacks
         /\ req[x].op = "internal" => req[x] \in Logins
         /\ req[x].op = "guard" => req[x] \in Guarded
<1>1. req[x] \in ReqTypes
  BY DEF TypeOK, ReqTypes
<1> QED
  BY <1>1 DEF ReqTypes, Idle, Lookups, Logouts, Callbacks, Logins, Guarded

\* A handler that begins or ends is what it was made.
LEMMA SetReq ==
  ASSUME TypeOK, NEW x \in Requests, NEW r, req' = [req EXCEPT ![x] = r]
  PROVE  /\ req'[x] = r
         /\ \A y \in Requests : y # x => req'[y] = req[y]
         /\ r \in ReqTypes => req' \in [Requests -> ReqTypes]
  BY DEF TypeOK, ReqTypes

\* A handler that ends is idle.
LEMMA DoneReq ==
  ASSUME TypeOK, NEW x \in Requests, Done(x)
  PROVE  /\ req'[x] = Idle /\ req'[x].op = "none"
         /\ \A y \in Requests : y # x => req'[y] = req[y]
  BY DEF TypeOK, Done, Idle

\* A handler that moves on keeps everything but its stage.
LEMMA GotoFields ==
  ASSUME TypeOK, NEW x \in Requests, NEW s, Goto(x, s)
  PROVE  /\ req'[x] = [req[x] EXCEPT !.stage = s]
         /\ \A y \in Requests : y # x => req'[y] = req[y]
         /\ req[x].op = "whoami" => /\ req'[x].op = "whoami" /\ req'[x].stage = s
                                    /\ req'[x].pod = req[x].pod /\ req'[x].token = req[x].token
                                    /\ req'[x].start = req[x].start
                                    /\ req'[x].evicted = req[x].evicted
                                    /\ req'[x].admin = req[x].admin
                                    /\ s \in {"validate", "fetch", "store"} => req'[x] \in Lookups
         /\ req[x].op = "callback" => /\ req'[x].op = "callback" /\ req'[x].stage = s
                                      /\ req'[x].state = req[x].state /\ req'[x].key = req[x].key
                                      /\ s \in {"exchange", "verify", "refresh", "refused", "session"} =>
                                           req'[x] \in Callbacks
         /\ req[x].op = "guard" => /\ req'[x].op = "guard" /\ req'[x].late = req[x].late
                                   /\ s \in {"role", "passed"} => req'[x] \in Guarded
<1>1. /\ req'[x] = [req[x] EXCEPT !.stage = s]
      /\ \A y \in Requests : y # x => req'[y] = req[y]
  BY DEF TypeOK, Goto
<1> QED
  BY <1>1, OpOf DEF Lookups, Callbacks, Guarded

\* What Keycloak publishes is a set of keys.
LEMMA PublishedType == TypeOK => Published \in KeySets
  BY TimeAssumption DEF TypeOK, Published, KeySets, Keys, Times

\* What is cached after fetch_jwks is a set of keys.
LEMMA FetchType ==
  ASSUME TypeOK, NEW p \in Pods, NEW force \in BOOLEAN
  PROVE  fetch_jwks(p, force) \in KeySets
  BY PublishedType DEF TypeOK, KeySets, fetch_jwks

\* A step of a handler leaves the others alone, except that the answer to a
\* logout marks the lookups on its replica.
LEMMA Others ==
  ASSUME TypeOK, NEW x \in Requests, Handler(x), NEW y \in Requests, y # x
  PROVE  \/ req'[y] = req[y]
         \/ req[y].op = "whoami" /\ req'[y] = [req[y] EXCEPT !.evicted = TRUE]
<1>1. CASE \E r : req' = [req EXCEPT ![x] = r]
  BY <1>1, SetReq
<1>2. CASE \E s : Goto(x, s)
  BY <1>2, GotoFields
<1>3. CASE oidc_token_exchange(x) \/ WhoamiFetch(x)
  BY <1>3 DEF oidc_token_exchange, WhoamiFetch, Done, TypeOK
<1>4. CASE evict_whoami(x)
  BY <1>4 DEF evict_whoami
<1>5. CASE \/ \E p \in Pods : \/ \E s \in States : oidc_callback(x, p, s)
                              \/ \E t \in Tokens : logout(x, p, t) \/ whoami(x, p, t)
           \/ \E t \in Tokens : require_tenant_session(x, t)
           \/ internal_login(x) \/ create_session(x) \/ WhoamiStore(x) \/ End(x)
  BY <1>1, <1>5 DEF oidc_callback, logout, whoami, require_tenant_session, internal_login,
     create_session, WhoamiStore, End, Begin, Done
<1>6. CASE verify_id_token(x) \/ is_operator_platform_admin(x) \/ WhoamiValidate(x)
  BY <1>1, <1>2, <1>6 DEF verify_id_token, is_operator_platform_admin, WhoamiValidate, Done
<1> QED
  BY <1>3, <1>4, <1>5, <1>6 DEF Handler

\* The lookups a logout marks keep everything else.
LEMMA Marked ==
  ASSUME TypeOK, NEW y \in Requests, req[y].op = "whoami",
         req'[y] = [req[y] EXCEPT !.evicted = TRUE]
  PROVE  /\ req'[y] \in Lookups /\ req'[y].op = "whoami" /\ req'[y].evicted = TRUE
         /\ req'[y].stage = req[y].stage /\ req'[y].pod = req[y].pod
         /\ req'[y].token = req[y].token /\ req'[y].start = req[y].start
         /\ req'[y].admin = req[y].admin
  BY OpOf DEF Lookups

\* Handlers keep their shape.
LEMMA ReqTypeStep ==
  ASSUME TypeOK, NEW x \in Requests, Handler(x)
  PROVE  req' \in [Requests -> ReqTypes]
<1>1. req \in [Requests -> ReqTypes] /\ Idle \in ReqTypes
  BY DEF TypeOK, ReqTypes
<1>2. DOMAIN req' = Requests /\ req' = [y \in Requests |-> req'[y]]
  BY <1>1 DEF Handler, oidc_callback, logout, whoami, require_tenant_session, oidc_token_exchange,
     verify_id_token, internal_login, create_session, is_operator_platform_admin, evict_whoami,
     WhoamiValidate, WhoamiFetch, WhoamiStore, End, Begin, Done, Goto
<1>3. \A y \in Requests : y # x => req'[y] \in ReqTypes
  BY <1>1, Others, Marked DEF ReqTypes
<1>4. req'[x] \in ReqTypes
  <2>1. CASE \E p \in Pods, s \in States : oidc_callback(x, p, s)
    <3>1. PICK p \in Pods, s \in States : oidc_callback(x, p, s)
      BY <2>1
    <3>2. [op |-> "callback", pod |-> p, state |-> s, stage |-> "exchange", key |-> 0] \in Callbacks
      BY TimeAssumption DEF Callbacks
    <3> QED
      BY <3>1, <3>2, SetReq DEF oidc_callback, Begin, ReqTypes
  <2>2. CASE \E p \in Pods, t \in Tokens : logout(x, p, t)
    <3>1. PICK p \in Pods, t \in Tokens, failed \in BOOLEAN :
            Begin(x, [op |-> "logout", pod |-> p, token |-> t, stage |-> "evict", failed |-> failed])
      BY <2>2 DEF logout
    <3>2. [op |-> "logout", pod |-> p, token |-> t, stage |-> "evict", failed |-> failed] \in Logouts
      BY DEF Logouts
    <3> QED
      BY <3>1, <3>2, SetReq DEF Begin, ReqTypes
  <2>3. CASE \E p \in Pods, t \in Tokens : whoami(x, p, t)
    <3>1. PICK p \in Pods, t \in Tokens : whoami(x, p, t)
      BY <2>3
    <3>2. [op |-> "whoami", pod |-> p, token |-> t, stage |-> "validate",
           start |-> now, evicted |-> FALSE, admin |-> FALSE] \in Lookups
      BY DEF Lookups, TypeOK
    <3> QED
      BY <3>1, <3>2, SetReq DEF whoami, Begin, ReqTypes
  <2>4. CASE \E t \in Tokens : require_tenant_session(x, t)
    <3>1. PICK t \in Tokens : require_tenant_session(x, t)
      BY <2>4
    <3>2. [op |-> "guard", token |-> t, stage |-> "role",
           late |-> \E p \in Pods : t \in out[p]] \in Guarded
      BY DEF Guarded
    <3> QED
      BY <3>1, <3>2, SetReq DEF require_tenant_session, Begin, ReqTypes
  <2>5. CASE oidc_token_exchange(x)
    <3>1. req[x] \in Callbacks
      BY <2>5, OpOf DEF oidc_token_exchange, At
    <3>2. req'[x] = [req[x] EXCEPT !.stage = "verify", !.key = signing]
      BY <1>1, <2>5 DEF oidc_token_exchange
    <3>3. signing \in 0..MaxKeys
      BY TimeAssumption DEF TypeOK, Keys
    <3> QED
      BY <3>1, <3>2, <3>3 DEF Callbacks, ReqTypes
  <2>6. CASE verify_id_token(x)
    <3>1. req[x].op = "callback" /\ \E s \in {"session", "refused", "refresh"} : Goto(x, s)
      BY <2>6 DEF verify_id_token
    <3> QED
      BY <3>1, GotoFields DEF ReqTypes
  <2>7. CASE internal_login(x)
    <3>1. [op |-> "internal", stage |-> "session"] \in Logins
      BY DEF Logins
    <3> QED
      BY <2>7, <3>1, SetReq DEF internal_login, Begin, ReqTypes
  <2>8. CASE Done(x)
    BY <1>1, <2>8, SetReq DEF Done
  <2>9. CASE is_operator_platform_admin(x)
    <3>1. req[x].op = "guard" /\ (Done(x) \/ Goto(x, "passed"))
      BY <2>9 DEF is_operator_platform_admin, At
    <3> QED
      BY <2>8, <3>1, GotoFields DEF ReqTypes
  <2>10. CASE evict_whoami(x)
    BY <1>1, <2>10 DEF evict_whoami
  <2>11. CASE WhoamiValidate(x)
    <3>1. req[x].op = "whoami" /\ (Done(x) \/ Goto(x, "fetch"))
      BY <2>11 DEF WhoamiValidate, At
    <3> QED
      BY <2>8, <3>1, GotoFields DEF ReqTypes
  <2>12. CASE WhoamiFetch(x)
    <3>1. CASE ~Done(x)
      <4>1. req[x] \in Lookups
        BY <2>12, OpOf DEF WhoamiFetch, At
      <4>2. req'[x] = [req[x] EXCEPT !.stage = "store", !.admin = admin]
        BY <1>1, <2>12, <3>1 DEF WhoamiFetch
      <4>3. admin \in BOOLEAN
        BY DEF TypeOK
      <4> QED
        BY <4>1, <4>2, <4>3 DEF Lookups, ReqTypes
    <3> QED
      BY <2>8, <3>1
  <2> QED
    BY <2>1, <2>2, <2>3, <2>4, <2>5, <2>6, <2>7, <2>8, <2>9, <2>10, <2>11, <2>12
    DEF Handler, create_session, WhoamiStore, End
<1> QED
  BY <1>2, <1>3, <1>4

\* Every variable keeps its type.
LEMMA TypeStep == TypeOK /\ [Next]_vars => TypeOK'
<1> SUFFICES ASSUME TypeOK, [Next]_vars PROVE TypeOK'
  OBVIOUS
<1> USE TimeAssumption
<1>1. CASE UNCHANGED vars
  BY <1>1 DEF vars, TypeOK
<1>2. ASSUME NEW x \in Requests, Handler(x) PROVE TypeOK'
  <2>1. req' \in [Requests -> ReqTypes]
    BY <1>2, ReqTypeStep
  <2>2. CASE UNCHANGED <<load, now, sessionVars, oidcVars, operVars, cache>>
    <3>1. /\ UNCHANGED <<load, now, sessions, minted, died, out, states, issued, used>>
          /\ UNCHANGED <<signing, oldest, since, jwks, admin, flipped, hash, changes, cache>>
      BY <2>2 DEF sessionVars, oidcVars, operVars
    <3> QED
      BY <2>1, <3>1 DEF TypeOK, ReqTypes
  <2>3. CASE \E p \in Pods, s \in States : oidc_callback(x, p, s)
    BY <2>1, <2>3 DEF oidc_callback, PopState, TypeOK, ReqTypes, sessionVars, operVars
  <2>4. CASE \E p \in Pods, t \in Tokens : logout(x, p, t)
    <3>1. sessions' \in [Tokens -> 0..(MaxTime + SessionTTL)] /\ died' \in [Tokens -> Times]
      <4>1. PICK t \in Tokens : UNCHANGED <<sessions, died>> \/ delete_session(t)
        BY <2>4 DEF logout
      <4>2. 0 \in 0..(MaxTime + SessionTTL)
        OBVIOUS
      <4> QED
        BY <4>1, <4>2 DEF delete_session, TypeOK
    <3> QED
      BY <2>1, <2>4, <3>1 DEF logout, TypeOK, ReqTypes, oidcVars, operVars
  <2>5. CASE oidc_token_exchange(x)
    <3>1. used' \in [States -> Nat]
      <4>1. \A s \in States : used[s] + 1 \in Nat
        BY DEF TypeOK
      <4> QED
        BY <2>5, <4>1 DEF oidc_token_exchange, TypeOK
    <3> QED
      BY <2>1, <2>5, <3>1 DEF oidc_token_exchange, TypeOK, ReqTypes, sessionVars, operVars
  <2>6. CASE verify_id_token(x)
    <3>1. req[x] \in Callbacks
      BY <2>6, OpOf DEF verify_id_token
    <3>2. PICK force \in BOOLEAN : jwks' = [jwks EXCEPT ![req[x].pod] = fetch_jwks(req[x].pod, force)]
      BY <2>6 DEF verify_id_token
    <3>3. fetch_jwks(req[x].pod, force) \in KeySets
      BY <3>1, FetchType DEF Callbacks
    <3>4. jwks' \in [Pods -> KeySets]
      BY <3>2, <3>3 DEF TypeOK, KeySets
    <3> QED
      BY <2>1, <2>6, <3>4 DEF verify_id_token, TypeOK, ReqTypes, KeySets, sessionVars, operVars
  <2>7. CASE create_session(x)
    <3>1. sessions' \in [Tokens -> 0..(MaxTime + SessionTTL)] /\ minted' \in 0..MaxSessions
      <4>1. now + SessionTTL \in 0..(MaxTime + SessionTTL)
        BY DEF TypeOK, Times
      <4>2. minted' \in 0..MaxSessions
        BY <2>7 DEF create_session, TypeOK
      <4> QED
        BY <2>7, <4>1, <4>2 DEF create_session, TypeOK
    <3> QED
      BY <2>1, <2>7, <3>1 DEF create_session, TypeOK, ReqTypes, oidcVars, operVars
  <2>8. CASE evict_whoami(x)
    <3>1. req[x] \in Logouts
      BY <2>8, OpOf DEF evict_whoami, At
    <3>2. cache' \in [Pods -> [Tokens -> Entries]]
      BY <2>8, <3>1 DEF evict_whoami, TypeOK, Entries, Logouts
    <3>3. out' \in [Pods -> SUBSET Tokens]
      BY <2>8, <3>1 DEF evict_whoami, TypeOK, Logouts
    <3> QED
      BY <2>1, <2>8, <3>2, <3>3 DEF evict_whoami, TypeOK, ReqTypes, Entries, oidcVars, operVars
  <2>9. CASE WhoamiStore(x)
    <3>1. req[x] \in Lookups
      BY <2>9, OpOf DEF WhoamiStore, At
    <3>2. StoreEntry(x, [stamp |-> req[x].start, admin |-> req[x].admin])
            \in [Pods -> [Tokens -> Entries]]
      <4>1. [stamp |-> req[x].start, admin |-> req[x].admin] \in Entries
        BY <3>1 DEF Lookups, Entries
      <4>2. cache \in [Pods -> [Tokens -> Entries]] /\ NoEntry \in Entries
        BY DEF TypeOK, Entries
      <4> QED
        BY <3>1, <4>1, <4>2 DEF StoreEntry, Lookups
    <3>3. cache' \in [Pods -> [Tokens -> Entries]]
      BY <2>9, <3>2 DEF WhoamiStore, TypeOK, Entries
    <3> QED
      BY <2>1, <2>9, <3>3 DEF WhoamiStore, TypeOK, ReqTypes, Entries, sessionVars, oidcVars, operVars
  <2> QED
    BY <1>2, <2>2, <2>3, <2>4, <2>5, <2>6, <2>7, <2>8, <2>9
    DEF Handler, whoami, require_tenant_session, internal_login, is_operator_platform_admin,
        WhoamiValidate, WhoamiFetch, End
<1>3. CASE oidc_login
  <2>1. now + StateTTL \in 0..(MaxTime + StateTTL)
    BY DEF TypeOK, Times
  <2>2. states' \in [States -> 0..(MaxTime + StateTTL)] /\ issued' \in 0..MaxStates
    BY <1>3, <2>1 DEF oidc_login, PutState, TypeOK
  <2> QED
    BY <1>3, <2>2 DEF oidc_login, TypeOK, sessionVars, operVars
<1>4. CASE RotateKey
  BY <1>4 DEF RotateKey, TypeOK, sessionVars, operVars, Keys
<1>5. CASE RetireKey
  BY <1>5 DEF RetireKey, TypeOK, sessionVars, operVars, Keys
<1>6. CASE cmd_reset_password \/ cmd_clear_password
  BY <1>6 DEF cmd_reset_password, cmd_clear_password, TypeOK, sessionVars, oidcVars
<1>8. CASE update_operator
  <2>1. admin' \in BOOLEAN /\ flipped' \in Times /\ changes' \in 0..MaxChanges
    BY <1>8 DEF update_operator, TypeOK
  <2> QED
    BY <1>8, <2>1 DEF update_operator, TypeOK, sessionVars, oidcVars
<1>7. CASE Tick
  <2>1. now' \in Times
    BY <1>7 DEF Tick, TypeOK, Times
  <2>2. died' \in [Tokens -> Times]
    BY <1>7, <2>1 DEF Tick, TypeOK
  <2> QED
    BY <1>7, <2>1, <2>2 DEF Tick, TypeOK, oidcVars, operVars
<1> QED
  BY <1>1, <1>2, <1>3, <1>4, <1>5, <1>6, <1>7, <1>8 DEF Next

-----------------------------------------------------------------------------
(* Signing keys: what a replica has cached, and which logins it refuses.   *)

KeyLocal(x) == req[x].op = "callback" => req[x].key <= signing

\* What makes a handler a callback, or leaves it one.
LEMMA CallbackMoves ==
  ASSUME TypeOK, NEW x \in Requests, Handler(x), req'[x].op = "callback"
  PROVE  \/ \E p \in Pods, s \in States : oidc_callback(x, p, s)
         \/ oidc_token_exchange(x) \/ verify_id_token(x)
<1>1. ~Done(x)
  BY DoneReq
<1>2. ASSUME NEW s, Goto(x, s), req[x].op \in {"whoami", "guard"} PROVE FALSE
  BY <1>2, GotoFields
<1>3. ~WhoamiFetch(x)
  <2>1. SUFFICES ASSUME WhoamiFetch(x) PROVE FALSE
    OBVIOUS
  <2>2. req[x] \in Lookups
    BY <2>1, OpOf DEF WhoamiFetch, At
  <2>3. req'[x] = [req[x] EXCEPT !.stage = "store", !.admin = admin]
    BY <1>1, <2>1 DEF WhoamiFetch, TypeOK
  <2> QED
    BY <2>2, <2>3 DEF Lookups
<1>4. /\ ~ \E p \in Pods, t \in Tokens : logout(x, p, t) \/ whoami(x, p, t)
      /\ ~ \E t \in Tokens : require_tenant_session(x, t)
      /\ ~ internal_login(x)
  BY SetReq DEF logout, whoami, require_tenant_session, internal_login, Begin
<1>5. ~evict_whoami(x)
  BY DEF evict_whoami, Idle
<1> QED
  BY <1>1, <1>2, <1>3, <1>4, <1>5
  DEF Handler, create_session, is_operator_platform_admin, WhoamiValidate, WhoamiStore, End, At

\* An ID token carries a key that has been in use.
LEMMA KeyStep ==
  ASSUME TypeOK, TypeOK', \A x \in Requests : KeyLocal(x), [Next]_vars
  PROVE  \A x \in Requests : KeyLocal(x)'
<1>1. CASE UNCHANGED req /\ signing' \in {signing, signing + 1}
  <2> SUFFICES ASSUME NEW x \in Requests, req[x].op = "callback" PROVE req[x].key <= signing'
    BY <1>1 DEF KeyLocal
  <2>1. req[x] \in Callbacks /\ KeyLocal(x)
    BY OpOf
  <2>2. req[x].key \in 0..MaxKeys /\ signing \in Nat
    BY <2>1, TimeAssumption DEF Callbacks, TypeOK, Keys
  <2> QED
    BY <1>1, <2>1, <2>2, TimeAssumption DEF KeyLocal
<1>2. ASSUME NEW x \in Requests, Handler(x)
      PROVE  \A y \in Requests : KeyLocal(y)'
  <2>1. UNCHANGED signing
    BY <1>2 DEF Handler, oidc_callback, logout, whoami, require_tenant_session, oidc_token_exchange,
       verify_id_token, internal_login, create_session, is_operator_platform_admin, evict_whoami,
       WhoamiValidate, WhoamiFetch, WhoamiStore, End, oidcVars
  <2>2. ASSUME NEW y \in Requests, y # x PROVE KeyLocal(y)'
    BY <1>2, <2>1, <2>2, Others, Marked DEF KeyLocal
  <2>3. KeyLocal(x)'
    <3>1. CASE req'[x].op # "callback"
      BY <3>1 DEF KeyLocal
    <3>2. CASE \E p \in Pods, s \in States : oidc_callback(x, p, s)
      <4>0. PICK p \in Pods, s \in States : req' = [req EXCEPT ![x] =
              [op |-> "callback", pod |-> p, state |-> s, stage |-> "exchange", key |-> 0]]
        BY <3>2 DEF oidc_callback, Begin
      <4>1. req'[x].key = 0
        BY <4>0 DEF TypeOK
      <4> QED
        BY <4>1, <2>1, TimeAssumption DEF KeyLocal, TypeOK, Keys
    <3>3. CASE oidc_token_exchange(x)
      <4>1. req[x] \in Callbacks
        BY <3>3, OpOf DEF oidc_token_exchange, At
      <4>2. req'[x] = [req[x] EXCEPT !.stage = "verify", !.key = signing]
        BY <3>3 DEF oidc_token_exchange, TypeOK
      <4>3. req'[x].key = signing
        BY <4>1, <4>2 DEF Callbacks
      <4> QED
        BY <2>1, <4>3, TimeAssumption DEF KeyLocal, TypeOK, Keys
    <3>4. CASE verify_id_token(x)
      <4>1. req[x].op = "callback" /\ \E s : Goto(x, s)
        BY <3>4 DEF verify_id_token
      <4>2. req'[x].key = req[x].key
        BY <4>1, GotoFields
      <4> QED
        BY <2>1, <4>1, <4>2 DEF KeyLocal
    <3> QED
      BY <1>2, <3>1, <3>2, <3>3, <3>4, CallbackMoves
  <2> QED
    BY <2>2, <2>3
<1>3. CASE oidc_login \/ RotateKey \/ RetireKey \/ cmd_reset_password \/ cmd_clear_password
           \/ update_operator \/ Tick \/ UNCHANGED vars
  BY <1>1, <1>3 DEF oidc_login, RotateKey, RetireKey, cmd_reset_password, cmd_clear_password,
     update_operator, Tick, vars, oidcVars
<1> QED
  BY <1>2, <1>3 DEF Next

\* What was just fetched lacks no key.
LEMMA PublishedTrue == TypeOK => KeySetTrue(Published)
  BY TimeAssumption DEF TypeOK, KeySetTrue, Published, Keys, Times

\* The cached keys stay what they were when they were fetched, or are fetched
\* anew; a key that comes into use later does so at a later time.
LEMMA KeySetStep ==
  ASSUME TypeOK, TypeOK', \A p \in Pods : KeySetTrue(jwks[p]), [Next]_vars
  PROVE  \A p \in Pods : KeySetTrue(jwks[p])'
<1> SUFFICES ASSUME NEW p \in Pods PROVE KeySetTrue(jwks[p])'
  OBVIOUS
<1>0. /\ jwks[p] \in KeySets /\ KeySetTrue(jwks[p])
      /\ signing \in Nat /\ oldest \in Nat /\ now \in Nat
  BY TimeAssumption DEF TypeOK, KeySets, Keys, Times
<1>1. jwks[p].new \in Nat /\ jwks[p].old \in Nat /\ jwks[p].at \in Nat
  BY <1>0, TimeAssumption DEF KeySets, Times
<1>2. CASE UNCHANGED <<jwks, signing, since>> /\ oldest' \in {oldest, oldest + 1} /\ now' \in {now, now + 1}
  BY <1>0, <1>1, <1>2 DEF KeySetTrue
<1>3. CASE RotateKey
  <2>1. UNCHANGED <<jwks, oldest, now>> /\ signing' = signing + 1
    BY <1>3 DEF RotateKey
  <2>2. signing + 1 \in Keys /\ since' = [since EXCEPT ![signing + 1] = now]
    BY <1>3, <1>0, TimeAssumption DEF RotateKey, Keys
  <2>3. ASSUME jwks[p].new # 0, NEW k \in Keys, jwks[p].new < k, k <= signing + 1
        PROVE  jwks[p].at <= since'[k]
    <3>1. CASE k = signing + 1
      BY <1>0, <2>2, <2>3, <3>1 DEF TypeOK, KeySetTrue
    <3>2. CASE k # signing + 1
      <4>1. k \in Nat /\ k <= signing
        BY <1>0, <2>3, <3>2 DEF Keys
      <4>2. since'[k] = since[k]
        BY <2>2, <3>2 DEF TypeOK
      <4> QED
        BY <1>0, <2>3, <4>1, <4>2 DEF KeySetTrue
    <3> QED
      BY <3>1, <3>2
  <2> QED
    BY <1>0, <2>1, <2>3 DEF KeySetTrue
<1>4. ASSUME NEW x \in Requests, verify_id_token(x) PROVE KeySetTrue(jwks[p])'
  <2>1. UNCHANGED <<signing, oldest, since, now>>
    BY <1>4 DEF verify_id_token
  <2>2. PICK force : jwks' = [jwks EXCEPT ![req[x].pod] = fetch_jwks(req[x].pod, force)]
    BY <1>4 DEF verify_id_token
  <2>3. jwks'[p] \in {jwks[p], Published}
    BY <2>2 DEF fetch_jwks, TypeOK
  <2>4. KeySetTrue(jwks'[p])
    BY <1>0, <2>3, PublishedTrue
  <2> QED
    BY <2>1, <2>4 DEF KeySetTrue
<1>5. ASSUME NEW x \in Requests, Handler(x), ~verify_id_token(x)
      PROVE  UNCHANGED <<now, jwks, signing, oldest, since>>
  BY <1>5 DEF Handler, oidc_callback, logout, whoami, require_tenant_session, oidc_token_exchange,
     internal_login, create_session, is_operator_platform_admin, evict_whoami, WhoamiValidate,
     WhoamiFetch, WhoamiStore, End, oidcVars
<1>6. CASE oidc_login \/ RetireKey \/ cmd_reset_password \/ cmd_clear_password
           \/ update_operator \/ Tick \/ UNCHANGED vars
  BY <1>2, <1>6 DEF oidc_login, RetireKey, cmd_reset_password, cmd_clear_password,
     update_operator, Tick, vars, oidcVars
<1> QED
  BY <1>2, <1>3, <1>4, <1>5, <1>6 DEF Next

\* The step that refuses a login meets a key that is withdrawn or young.
LEMMA RefusalStep ==
  ASSUME TypeOK, \A p \in Pods : KeySetTrue(jwks[p]), \A x \in Requests : KeyLocal(x),
         [Next]_vars, NEW x \in Requests,
         ~At(x, "callback", "refused"), At(x, "callback", "refused")'
  PROVE  req[x].key < oldest \/ now - since[req[x].key] < JwksTTL
<1>1. req'[x].op = "callback" /\ req'[x].stage = "refused" /\ req'[x] # req[x]
  BY DEF At
<1>2. Handler(x)
  <2>1. ASSUME NEW y \in Requests, Handler(y), y # x PROVE FALSE
    BY <1>1, <2>1, Others, Marked
  <2>2. ~UNCHANGED req
    BY <1>1
  <2> QED
    BY <2>1, <2>2 DEF Next, vars, oidc_login, RotateKey, RetireKey, cmd_reset_password,
       cmd_clear_password, update_operator, Tick
<1>3. verify_id_token(x)
  <2>1. ASSUME NEW p \in Pods, NEW s \in States, oidc_callback(x, p, s) PROVE FALSE
    <3>1. req' = [req EXCEPT ![x] =
            [op |-> "callback", pod |-> p, state |-> s, stage |-> "exchange", key |-> 0]]
      BY <2>1 DEF oidc_callback, Begin
    <3> QED
      BY <1>1, <3>1 DEF TypeOK
  <2>2. ASSUME oidc_token_exchange(x) PROVE FALSE
    <3>1. req[x] \in Callbacks
      BY <2>2, OpOf DEF oidc_token_exchange, At
    <3>2. req'[x] = [req[x] EXCEPT !.stage = "verify", !.key = signing]
      BY <2>2 DEF oidc_token_exchange, TypeOK
    <3> QED
      BY <1>1, <3>1, <3>2 DEF Callbacks
  <2> QED
    BY <1>1, <1>2, <2>1, <2>2, CallbackMoves
<1>4. req[x] \in Callbacks /\ KeyLocal(x) /\ req[x].op = "callback"
  BY <1>3, OpOf DEF verify_id_token
<1> DEFINE k == req[x].key
           p == req[x].pod
<1>5. p \in Pods /\ k \in 0..MaxKeys /\ k <= signing
  BY <1>4 DEF Callbacks, KeyLocal
<1>6. PICK force \in BOOLEAN : ~Verifies(k, fetch_jwks(p, force))
  <2> DEFINE f == req[x].stage = "refresh"
  <2>1. \/ Goto(x, "session") \/ Goto(x, "refresh")
        \/ Goto(x, "refused") /\ ~Verifies(k, fetch_jwks(p, f))
    BY <1>3 DEF verify_id_token
  <2>2. ASSUME NEW s \in {"session", "refresh"}, Goto(x, s) PROVE FALSE
    BY <1>1, <1>4, <2>2, GotoFields
  <2> QED
    BY <2>1, <2>2
<1>7. signing \in Nat /\ oldest \in Nat /\ now \in Nat /\ jwks[p] \in KeySets /\ KeySetTrue(jwks[p])
  BY <1>5, TimeAssumption DEF TypeOK, KeySets, Keys, Times
<1> HIDE DEF k, p
<1>8. CASE ~Verifies(k, Published)
  BY <1>5, <1>7, <1>8, TimeAssumption DEF Verifies, Published, k
<1>9. CASE ~Verifies(k, jwks[p]) /\ jwks[p].new # 0 /\ now - jwks[p].at < JwksTTL
  <2>1. jwks[p].new \in Nat /\ jwks[p].old \in Nat /\ jwks[p].at \in Nat
    BY <1>7, TimeAssumption DEF KeySets, Times
  <2>2. CASE k < jwks[p].old
    BY <1>5, <1>7, <1>9, <2>1, <2>2 DEF KeySetTrue, k
  <2>3. CASE jwks[p].new < k
    <3>1. k \in Keys
      BY <1>5, <2>1, <2>3, TimeAssumption DEF Keys
    <3>2. jwks[p].at <= since[k] /\ since[k] \in Nat
      BY <1>5, <1>7, <1>9, <2>3, <3>1, TimeAssumption DEF KeySetTrue, TypeOK, Times
    <3>3. now - since[k] < JwksTTL
      BY <1>7, <1>9, <2>1, <3>2, TimeAssumption
    <3> QED
      BY <3>3 DEF k
  <2> QED
    BY <1>5, <1>9, <2>1, <2>2, <2>3 DEF Verifies
<1> QED
  BY <1>6, <1>8, <1>9 DEF fetch_jwks

-----------------------------------------------------------------------------
(* Logout: what an answered logout ended stays ended.                      *)

OutLocal(x) ==
  /\ req[x].op = "guard" => ~req[x].late
  /\ req[x].op = "logout" => /\ req[x].token <= minted
                             /\ ~req[x].failed => sessions[req[x].token] = 0
  /\ req[x].op = "whoami" =>
       (req[x].token \in out[req[x].pod] => req[x].stage = "validate" \/ req[x].evicted)

OutGlobal ==
  /\ \A p \in Pods : \A t \in out[p] : t <= minted /\ sessions[t] = 0
  /\ LogoutSticks

\* Rows of sessions are only added under a fresh id, and otherwise deleted.
Ending ==
  /\ minted' \in {minted, minted + 1}
  /\ \A t \in Tokens : t <= minted /\ sessions[t] = 0 => sessions'[t] = 0

\* A handler that does not move is not affected by others.
LEMMA OutFrame ==
  ASSUME TypeOK, NEW y \in Requests, OutLocal(y), Ending, UNCHANGED out,
         \/ req'[y] = req[y]
         \/ req[y].op = "whoami" /\ req'[y] = [req[y] EXCEPT !.evicted = TRUE]
  PROVE  OutLocal(y)'
<1>1. minted \in Nat /\ Tokens \subseteq Nat
  BY TimeAssumption DEF TypeOK, Tokens
<1>2. CASE req'[y] = req[y]
  <2>1. ASSUME req[y].op = "logout"
        PROVE  req[y].token <= minted' /\ (~req[y].failed => sessions'[req[y].token] = 0)
    <3>1. req[y].token \in Tokens
      BY <2>1, OpOf DEF Logouts
    <3>2. req[y].token <= minted /\ (~req[y].failed => sessions[req[y].token] = 0)
      BY <2>1 DEF OutLocal
    <3> QED
      BY <1>1, <3>1, <3>2 DEF Ending
  <2> QED
    BY <1>2, <2>1 DEF OutLocal
<1>3. CASE req[y].op = "whoami" /\ req'[y] = [req[y] EXCEPT !.evicted = TRUE]
  BY <1>3, Marked DEF OutLocal
<1> QED
  BY <1>2, <1>3

\* The rows of ended sessions stay away.
LEMMA OutKept ==
  ASSUME TypeOK, OutGlobal, Ending, UNCHANGED out
  PROVE  \A p \in Pods : \A t \in out'[p] : t <= minted' /\ sessions'[t] = 0
<1> SUFFICES ASSUME NEW p \in Pods, NEW t \in out[p] PROVE t <= minted' /\ sessions'[t] = 0
  OBVIOUS
<1>1. t \in Tokens /\ t <= minted /\ sessions[t] = 0 /\ minted \in Nat /\ t \in Nat
  BY TimeAssumption DEF TypeOK, OutGlobal, Tokens
<1> QED
  BY <1>1 DEF Ending

\* Every step keeps an answered logout's session out of the table and of the
\* replica's cache.
LEMMA OutStep ==
  ASSUME TypeOK, TypeOK', OutGlobal, \A x \in Requests : OutLocal(x), [Next]_vars
  PROVE  OutGlobal' /\ \A x \in Requests : OutLocal(x)'
<1>1. minted \in Nat /\ Tokens \subseteq Nat /\ now \in Nat
  BY TimeAssumption DEF TypeOK, Tokens, Times
<1>2. UNCHANGED <<sessions, minted>> => Ending
  BY DEF Ending
<1>3. ASSUME NEW x \in Requests, Handler(x)
      PROVE  OutGlobal' /\ \A y \in Requests : OutLocal(y)'
  <2>1. ASSUME Ending, UNCHANGED <<out, cache>>, OutLocal(x)'
        PROVE  OutGlobal' /\ \A y \in Requests : OutLocal(y)'
    <3>1. \A y \in Requests : y # x => OutLocal(y)'
      BY <1>3, <2>1, OutFrame, Others
    <3> QED
      BY <2>1, <3>1, OutKept DEF OutGlobal, LogoutSticks
  <2>2. req'[x].op \notin {"guard", "logout", "whoami"} => OutLocal(x)'
    BY DEF OutLocal
  <2>3. CASE Done(x) /\ UNCHANGED <<sessions, minted, out, cache>>
    BY <1>2, <2>1, <2>2, <2>3, DoneReq
  <2>4. CASE create_session(x)
    <3>1. Ending
      BY <1>1, <2>4 DEF create_session, Ending, TypeOK
    <3> QED
      BY <2>1, <2>2, <2>4, <3>1, DoneReq DEF create_session
  <2>5. CASE \E p \in Pods, s \in States : oidc_callback(x, p, s)
    <3>1. PICK p \in Pods, s \in States : oidc_callback(x, p, s)
      BY <2>5
    <3>2. req'[x] = [op |-> "callback", pod |-> p, state |-> s, stage |-> "exchange", key |-> 0]
      BY <3>1, SetReq DEF oidc_callback, Begin
    <3> QED
      BY <1>2, <2>1, <2>2, <3>1, <3>2 DEF oidc_callback, sessionVars
  <2>6. CASE internal_login(x)
    <3>1. req'[x] = [op |-> "internal", stage |-> "session"]
      BY <2>6, SetReq DEF internal_login, Begin
    <3> QED
      BY <1>2, <2>1, <2>2, <2>6, <3>1 DEF internal_login, sessionVars
  <2>7. CASE oidc_token_exchange(x)
    <3>1. req[x] \in Callbacks
      BY <2>7, OpOf DEF oidc_token_exchange, At
    <3>2. req'[x] = [req[x] EXCEPT !.stage = "verify", !.key = signing]
      BY <2>7 DEF oidc_token_exchange, TypeOK
    <3>3. req'[x].op = "callback"
      BY <3>1, <3>2 DEF Callbacks
    <3> QED
      BY <1>2, <2>1, <2>2, <2>7, <3>3 DEF oidc_token_exchange, sessionVars
  <2>8. CASE verify_id_token(x)
    <3>1. req'[x].op = "callback"
      BY <2>8, GotoFields DEF verify_id_token
    <3> QED
      BY <1>2, <2>1, <2>2, <2>8, <3>1 DEF verify_id_token, sessionVars
  <2>9. CASE \E t \in Tokens : require_tenant_session(x, t)
    <3>1. PICK t \in Tokens : require_tenant_session(x, t)
      BY <2>9
    <3>2. \A p \in Pods : t \notin out[p]
      <4>1. sessions[t] > now
        BY <3>1 DEF require_tenant_session, validate_session, Alive
      <4>2. sessions[t] # 0
        BY <1>1, <4>1
      <4> QED
        BY <4>2 DEF OutGlobal
    <3>3. req'[x] = [op |-> "guard", token |-> t, stage |-> "role", late |-> \E p \in Pods : t \in out[p]]
      BY <3>1, SetReq DEF require_tenant_session, Begin
    <3>4. req'[x].op = "guard" /\ req'[x].late = (\E p \in Pods : t \in out[p])
      BY <3>3
    <3>5. OutLocal(x)'
      BY <3>2, <3>4 DEF OutLocal
    <3> QED
      BY <1>2, <2>1, <3>1, <3>5 DEF require_tenant_session, sessionVars
  <2>10. CASE is_operator_platform_admin(x)
    <3>1. UNCHANGED <<sessions, minted, out, cache>> /\ req[x].op = "guard"
      BY <2>10 DEF is_operator_platform_admin, sessionVars, At
    <3>2. CASE Goto(x, "passed")
      <4>1. req'[x].op = "guard" /\ req'[x].late = req[x].late
        BY <3>1, <3>2, GotoFields
      <4>2. OutLocal(x)'
        BY <3>1, <4>1 DEF OutLocal
      <4> QED
        BY <1>2, <2>1, <3>1, <4>2
    <3> QED
      BY <2>3, <2>10, <3>1, <3>2 DEF is_operator_platform_admin
  <2>11. CASE \E p \in Pods, t \in Tokens : logout(x, p, t)
    <3>1. PICK p \in Pods, t \in Tokens, failed \in BOOLEAN :
            /\ t <= minted
            /\ IF failed THEN UNCHANGED <<sessions, died>> ELSE delete_session(t)
            /\ Begin(x, [op |-> "logout", pod |-> p, token |-> t, stage |-> "evict", failed |-> failed])
            /\ UNCHANGED <<minted, out, cache>>
      BY <2>11 DEF logout
    <3>2. Ending
      BY <3>1 DEF Ending, delete_session, TypeOK
    <3>3. req'[x] = [op |-> "logout", pod |-> p, token |-> t, stage |-> "evict", failed |-> failed]
      BY <3>1, SetReq DEF Begin
    <3>4. req'[x].op = "logout" /\ req'[x].token = t /\ req'[x].failed = failed
      BY <3>3
    <3>5. ~failed => sessions'[t] = 0
      BY <3>1 DEF delete_session, TypeOK
    <3>6. OutLocal(x)'
      BY <3>1, <3>4, <3>5 DEF OutLocal
    <3> QED
      BY <2>1, <3>1, <3>2, <3>6
  <2>12. CASE \E p \in Pods, t \in Tokens : whoami(x, p, t)
    <3>1. PICK p \in Pods, t \in Tokens : whoami(x, p, t)
      BY <2>12
    <3>2. req'[x] = [op |-> "whoami", pod |-> p, token |-> t, stage |-> "validate",
                     start |-> now, evicted |-> FALSE, admin |-> FALSE]
      BY <3>1, SetReq DEF whoami, Begin
    <3>3. req'[x].op = "whoami" /\ req'[x].stage = "validate"
      BY <3>2
    <3>4. OutLocal(x)'
      BY <3>3 DEF OutLocal
    <3> QED
      BY <1>2, <2>1, <3>1, <3>4 DEF whoami, sessionVars
  <2>13. CASE WhoamiValidate(x)
    <3>1. UNCHANGED <<sessions, minted, out, cache>> /\ req[x].op = "whoami" /\ req[x] \in Lookups
      BY <2>13, OpOf DEF WhoamiValidate, sessionVars, At
    <3>2. CASE validate_session(req[x].token)
      <4>1. sessions[req[x].token] # 0
        <5>1. sessions[req[x].token] > now
          BY <3>2 DEF validate_session, Alive
        <5> QED
          BY <1>1, <5>1
      <4>2. req[x].token \notin out[req[x].pod]
        BY <3>1, <4>1 DEF OutGlobal, Lookups
      <4>3. Goto(x, "fetch")
        BY <2>13, <3>2 DEF WhoamiValidate
      <4>4. req'[x].op = "whoami" /\ req'[x].token = req[x].token /\ req'[x].pod = req[x].pod
        BY <3>1, <4>3, GotoFields
      <4>5. OutLocal(x)'
        BY <3>1, <4>2, <4>4 DEF OutLocal
      <4> QED
        BY <1>2, <2>1, <3>1, <4>5
    <3> QED
      BY <2>3, <2>13, <3>1, <3>2 DEF WhoamiValidate
  <2>14. CASE WhoamiFetch(x)
    <3>1. UNCHANGED <<sessions, minted, out, cache>> /\ req[x].op = "whoami" /\ req[x] \in Lookups
          /\ req[x].stage = "fetch"
      BY <2>14, OpOf DEF WhoamiFetch, sessionVars, At
    <3>2. CASE Alive(req[x].token)
      <4>1. req'[x] = [req[x] EXCEPT !.stage = "store", !.admin = admin]
        BY <2>14, <3>2 DEF WhoamiFetch, TypeOK
      <4>2. req'[x].op = "whoami" /\ req'[x].token = req[x].token /\ req'[x].pod = req[x].pod
            /\ req'[x].evicted = req[x].evicted
        BY <3>1, <4>1 DEF Lookups
      <4>3. OutLocal(x)'
        BY <3>1, <4>2 DEF OutLocal
      <4> QED
        BY <1>2, <2>1, <3>1, <4>3
    <3> QED
      BY <2>3, <2>14, <3>1, <3>2 DEF WhoamiFetch
  <2>15. CASE WhoamiStore(x)
    <3>1. /\ req[x].op = "whoami" /\ req[x] \in Lookups /\ req[x].stage = "store"
          /\ UNCHANGED <<sessions, minted, out>> /\ Done(x)
      BY <2>15, OpOf DEF WhoamiStore, sessionVars, At
    <3>2. \A y \in Requests : OutLocal(y)'
      <4>1. OutLocal(x)'
        BY <2>2, <3>1, DoneReq
      <4>2. \A y \in Requests : y # x => OutLocal(y)'
        BY <1>2, <1>3, <3>1, OutFrame, Others
      <4> QED
        BY <4>1, <4>2
    <3>3. LogoutSticks'
      <4>1. CASE req[x].evicted
        BY <2>15, <3>1, <4>1 DEF WhoamiStore, LogoutSticks, OutGlobal
      <4>2. CASE ~req[x].evicted
        <5>1. req[x].token \notin out[req[x].pod]
          BY <3>1, <4>2 DEF OutLocal
        <5>2. \A p \in Pods, t \in Tokens :
                cache'[p][t] = cache[p][t] \/ cache'[p][t] = NoEntry
                  \/ (p = req[x].pod /\ t = req[x].token)
          BY <2>15, <3>1, <4>2 DEF WhoamiStore, StoreEntry, Lookups, TypeOK
        <5>3. \A p \in Pods : \A t \in out[p] : t \in Tokens /\ cache[p][t] = NoEntry
          BY DEF LogoutSticks, OutGlobal, TypeOK
        <5>4. \A p \in Pods : \A t \in out[p] : cache'[p][t] = NoEntry
          BY <5>1, <5>2, <5>3
        <5> QED
          BY <3>1, <5>4 DEF LogoutSticks
      <4> QED
        BY <4>1, <4>2
    <3> QED
      BY <1>2, <3>1, <3>2, <3>3, OutKept DEF OutGlobal
  <2>16. CASE evict_whoami(x)
    <3> DEFINE p == req[x].pod
               t == req[x].token
    <3>1. /\ req[x] \in Logouts /\ req[x].op = "logout" /\ p \in Pods /\ t \in Tokens
          /\ UNCHANGED <<sessions, minted>>
      BY <2>16, OpOf DEF evict_whoami, At, Logouts
    <3>2. t <= minted /\ (~req[x].failed => sessions[t] = 0)
      BY <3>1 DEF OutLocal
    <3>3. \A q \in Pods : \A u \in out'[q] : u \in out[q] \/ (q = p /\ u = t /\ ~req[x].failed)
      BY <2>16, <3>1 DEF evict_whoami, TypeOK
    <3>4. \A q \in Pods, u \in Tokens : cache'[q][u] = IF q = p /\ u = t THEN NoEntry ELSE cache[q][u]
      BY <2>16, <3>1 DEF evict_whoami, TypeOK
    <3>5. OutGlobal'
      <4>1. \A q \in Pods : \A u \in out'[q] : u <= minted' /\ sessions'[u] = 0
        BY <3>1, <3>2, <3>3 DEF OutGlobal
      <4>2. LogoutSticks'
        BY <3>3, <3>4 DEF OutGlobal, LogoutSticks, TypeOK
      <4> QED
        BY <4>1, <4>2 DEF OutGlobal
    <3>6. ASSUME NEW y \in Requests PROVE OutLocal(y)'
      <4>1. CASE y = x
        BY <2>2, <2>16, <4>1 DEF evict_whoami, Idle
      <4>2. CASE y # x /\ req[y].op = "whoami" /\ req[y].pod = p
        <5>1. req'[y] = [req[y] EXCEPT !.evicted = TRUE]
          BY <2>16, <4>2 DEF evict_whoami
        <5> QED
          BY <4>2, <5>1, Marked DEF OutLocal
      <4>3. CASE y # x /\ ~(req[y].op = "whoami" /\ req[y].pod = p)
        <5>1. req'[y] = req[y]
          BY <2>16, <4>3 DEF evict_whoami
        <5>2. ASSUME req[y].op = "whoami", req[y].token \in out'[req[y].pod]
              PROVE  req[y].stage = "validate" \/ req[y].evicted
          <6>1. req[y].pod \in Pods /\ req[y].token \in out[req[y].pod]
            BY <3>3, <4>3, <5>2, OpOf DEF Lookups
          <6> QED
            BY <5>2, <6>1 DEF OutLocal
        <5> QED
          BY <3>1, <5>1, <5>2 DEF OutLocal
      <4> QED
        BY <4>1, <4>2, <4>3
    <3> QED
      BY <3>5, <3>6
  <2> QED
    BY <1>3, <2>3, <2>4, <2>5, <2>6, <2>7, <2>8, <2>9, <2>10, <2>11, <2>12, <2>13, <2>14, <2>15, <2>16
    DEF Handler, End, sessionVars
<1>4. CASE UNCHANGED <<sessions, minted, out, cache, req>>
  BY <1>4 DEF OutGlobal, LogoutSticks, OutLocal
<1> QED
  BY <1>3, <1>4 DEF Next, vars, oidc_login, RotateKey, RetireKey, cmd_reset_password,
     cmd_clear_password, update_operator, Tick, sessionVars

-----------------------------------------------------------------------------
(* Login states: one code exchange for each.                               *)

Exchanging(x) == At(x, "callback", "exchange")

StateGlobal ==
  /\ \A s \in States : states[s] # 0 \/ used[s] # 0 => s <= issued
  /\ \A s \in States : states[s] # 0 => used[s] = 0
  /\ StateUsedOnce

StateLocal ==
  /\ \A x \in Requests : Exchanging(x) =>
       req[x].state <= issued /\ states[req[x].state] = 0 /\ used[req[x].state] = 0
  /\ \A x, y \in Requests : Exchanging(x) /\ Exchanging(y) /\ req[x].state = req[y].state => x = y

\* The state of a callback that has not exchanged its code is a login state.
LEMMA ExchangeType ==
  ASSUME TypeOK, NEW x \in Requests, Exchanging(x)
  PROVE  req[x] \in Callbacks /\ req[x].state \in States
  BY OpOf DEF Exchanging, At, Callbacks

\* Only oidc_callback makes a handler that is about to exchange a code.
LEMMA NoNewExchange ==
  ASSUME TypeOK, NEW x \in Requests, Handler(x),
         \A p \in Pods, s \in States : ~oidc_callback(x, p, s)
  PROVE  ~Exchanging(x)'
<1> DEFINE Off == req'[x].op # "callback" \/ req'[x].stage # "exchange"
<1> SUFFICES Off
  BY DEF Exchanging, At
<1>1. CASE Done(x)
  BY <1>1, DoneReq
<1>2. CASE \E s : Goto(x, s) /\ req[x].op \in {"whoami", "guard"}
  BY <1>2, GotoFields
<1>3. CASE verify_id_token(x)
  <2>1. req[x].op = "callback" /\ \E s \in {"session", "refused", "refresh"} : Goto(x, s)
    BY <1>3 DEF verify_id_token
  <2> QED
    BY <2>1, GotoFields
<1>4. CASE oidc_token_exchange(x)
  <2>1. req[x] \in Callbacks
    BY <1>4, OpOf DEF oidc_token_exchange, At
  <2>2. req'[x] = [req[x] EXCEPT !.stage = "verify", !.key = signing]
    BY <1>4 DEF oidc_token_exchange, TypeOK
  <2> QED
    BY <2>1, <2>2 DEF Callbacks
<1>5. CASE WhoamiFetch(x) /\ ~Done(x)
  <2>1. req[x] \in Lookups
    BY <1>5, OpOf DEF WhoamiFetch, At
  <2>2. req'[x] = [req[x] EXCEPT !.stage = "store", !.admin = admin]
    BY <1>5 DEF WhoamiFetch, TypeOK
  <2> QED
    BY <2>1, <2>2 DEF Lookups
<1>6. CASE \/ \E p \in Pods, t \in Tokens : logout(x, p, t) \/ whoami(x, p, t)
           \/ \E t \in Tokens : require_tenant_session(x, t)
           \/ internal_login(x)
  BY <1>6, SetReq DEF logout, whoami, require_tenant_session, internal_login, Begin
<1>7. CASE evict_whoami(x)
  BY <1>7 DEF evict_whoami, Idle
<1> QED
  BY <1>1, <1>2, <1>3, <1>4, <1>5, <1>6, <1>7
  DEF Handler, create_session, is_operator_platform_admin, WhoamiValidate, WhoamiStore, End, At

\* A login state is popped once and exchanged once.
LEMMA StateStep ==
  ASSUME TypeOK, TypeOK', StateGlobal, StateLocal, [Next]_vars
  PROVE  StateGlobal' /\ StateLocal'
<1>1. issued \in Nat /\ now \in Nat /\ States \subseteq Nat
  BY TimeAssumption DEF TypeOK, States, Times
<1>2. ASSUME UNCHANGED <<states, issued, used>>,
             \A y \in Requests : Exchanging(y)' => Exchanging(y) /\ req'[y].state = req[y].state
      PROVE  StateGlobal' /\ StateLocal'
  BY <1>2 DEF StateGlobal, StateLocal, StateUsedOnce
<1>3. CASE UNCHANGED <<states, issued, used, req>>
  BY <1>2, <1>3 DEF Exchanging, At
<1>4. CASE oidc_login
  <2>1. issued' = issued + 1 /\ issued + 1 \in States /\ req' = req /\ used' = used
    BY <1>1, <1>4, TimeAssumption DEF oidc_login, TypeOK, States
  <2>2. \A s \in States : s = issued + 1 \/ states'[s] = states[s] \/ states'[s] = 0
    BY <1>4 DEF oidc_login, PutState
  <2>3. used[issued + 1] = 0
    BY <1>1, <2>1 DEF StateGlobal
  <2>4. StateGlobal'
    BY <1>1, <2>1, <2>2, <2>3 DEF StateGlobal, StateUsedOnce
  <2>5. StateLocal'
    <3>1. ASSUME NEW x \in Requests, Exchanging(x)
          PROVE  req[x].state <= issued + 1 /\ states'[req[x].state] = 0
      <4>1. req[x].state \in States /\ req[x].state <= issued /\ states[req[x].state] = 0
        BY <3>1, ExchangeType DEF StateLocal
      <4>2. PICK s \in Nat : s = req[x].state
        BY <1>1, <4>1
      <4>3. s # issued + 1 /\ s <= issued + 1
        BY <1>1, <4>1, <4>2
      <4> QED
        BY <2>2, <4>1, <4>2, <4>3
    <3> QED
      BY <2>1, <3>1 DEF StateLocal, Exchanging, At
  <2> QED
    BY <2>4, <2>5
<1>5. ASSUME NEW x \in Requests, Handler(x)
      PROVE  StateGlobal' /\ StateLocal'
  <2>1. ASSUME NEW y \in Requests, y # x, Exchanging(y)'
        PROVE  req'[y] = req[y] /\ Exchanging(y)
    BY <1>5, <2>1, Others, Marked DEF Exchanging, At
  <2>2. CASE \E p \in Pods, s \in States : oidc_callback(x, p, s)
    <3>1. PICK p \in Pods, s \in States : oidc_callback(x, p, s)
      BY <2>2
    <3>2. req'[x] = [op |-> "callback", pod |-> p, state |-> s, stage |-> "exchange", key |-> 0]
      BY <3>1, SetReq DEF oidc_callback, Begin
    <3>3. states[s] # 0 /\ states' = [states EXCEPT ![s] = 0] /\ UNCHANGED <<issued, used>>
      BY <1>1, <3>1 DEF oidc_callback, PopState
    <3>4. \A u \in States : states'[u] = IF u = s THEN 0 ELSE states[u]
      BY <3>3 DEF TypeOK
    <3>5. StateGlobal'
      BY <3>3, <3>4 DEF StateGlobal, StateUsedOnce
    <3>6. \A y \in Requests : Exchanging(y) => req[y].state # s
      BY <3>3 DEF StateLocal
    <3>7. s <= issued /\ used[s] = 0 /\ req'[x].state = s
      BY <3>2, <3>3 DEF StateGlobal
    <3>8. \A y \in Requests : Exchanging(y)' =>
            req'[y].state <= issued' /\ states'[req'[y].state] = 0 /\ used'[req'[y].state] = 0
      <4>1. ASSUME NEW y \in Requests, y # x, Exchanging(y)'
            PROVE  req'[y].state <= issued' /\ states'[req'[y].state] = 0 /\ used'[req'[y].state] = 0
        BY <2>1, <3>3, <3>4, <4>1, ExchangeType DEF StateLocal
      <4> QED
        BY <3>3, <3>4, <3>7, <4>1
    <3>9. \A y, z \in Requests : Exchanging(y)' /\ Exchanging(z)' /\ req'[y].state = req'[z].state => y = z
      BY <2>1, <3>6, <3>7 DEF StateLocal
    <3> QED
      BY <3>5, <3>8, <3>9 DEF StateLocal
  <2>3. CASE \A p \in Pods, s \in States : ~oidc_callback(x, p, s)
    <3>1. ~Exchanging(x)'
      BY <1>5, <2>3, NoNewExchange
    <3>2. CASE ~oidc_token_exchange(x)
      <4>1. UNCHANGED <<states, issued, used>>
        BY <1>5, <2>3, <3>2 DEF Handler, logout, whoami, require_tenant_session, verify_id_token,
           internal_login, create_session, is_operator_platform_admin, evict_whoami,
           WhoamiValidate, WhoamiFetch, WhoamiStore, End, oidcVars
      <4> QED
        BY <1>2, <2>1, <3>1, <4>1
    <3>3. CASE oidc_token_exchange(x)
      <4> DEFINE s == req[x].state
      <4>1. Exchanging(x) /\ used' = [used EXCEPT ![s] = used[s] + 1] /\ UNCHANGED <<states, issued>>
        BY <3>3 DEF oidc_token_exchange, Exchanging
      <4>2. s \in States /\ used[s] = 0 /\ states[s] = 0 /\ s <= issued
        BY <4>1, ExchangeType DEF StateLocal
      <4>3. \A u \in States : used'[u] = IF u = s THEN 1 ELSE used[u]
        BY <4>1, <4>2 DEF TypeOK
      <4>4. StateGlobal'
        BY <4>1, <4>2, <4>3 DEF StateGlobal, StateUsedOnce
      <4>5. ASSUME NEW y \in Requests, Exchanging(y)'
            PROVE  y # x /\ req'[y] = req[y] /\ Exchanging(y) /\ req[y].state # s
        BY <2>1, <3>1, <4>1, <4>5 DEF StateLocal
      <4>6. ASSUME NEW y \in Requests, Exchanging(y)'
            PROVE  req'[y].state <= issued' /\ states'[req'[y].state] = 0 /\ used'[req'[y].state] = 0
        <5>1. req'[y] = req[y] /\ Exchanging(y) /\ req[y].state # s /\ req[y].state \in States
          BY <4>5, <4>6, ExchangeType
        <5> QED
          BY <4>1, <4>3, <5>1 DEF StateLocal
      <4>7. \A y, z \in Requests : Exchanging(y)' /\ Exchanging(z)' /\ req'[y].state = req'[z].state => y = z
        BY <4>5 DEF StateLocal
      <4> QED
        BY <4>4, <4>6, <4>7 DEF StateLocal
    <3> QED
      BY <3>2, <3>3
  <2> QED
    BY <2>2, <2>3
<1> QED
  BY <1>3, <1>4, <1>5 DEF Next, vars, RotateKey, RetireKey, cmd_reset_password,
     cmd_clear_password, update_operator, Tick, oidcVars

-----------------------------------------------------------------------------
(* What whoami answers from its cache was true not long ago.               *)

\* What was found at time a was true then, or its end came later.
LEMMA SinceStep ==
  ASSUME TypeOK, TypeOK', [Next]_vars, NEW a \in Nat, a <= now
  PROVE  /\ a <= now'
         /\ \A t \in Tokens : TrueSince(t, a) => TrueSince(t, a)'
         /\ \A b \in BOOLEAN : AdminSince(b, a) => AdminSince(b, a)'
<1>1. now \in Nat /\ now' \in Nat
  BY TimeAssumption DEF TypeOK, Times
<1>2. CASE UNCHANGED <<now, sessions, died, admin, flipped>>
  BY <1>2 DEF TrueSince, AdminSince, Alive
<1>3. CASE Tick
  <2>1. now' = now + 1 /\ UNCHANGED <<sessions, admin, flipped>>
        /\ died' = [t \in Tokens |-> IF sessions[t] = now + 1 THEN now + 1 ELSE died[t]]
    BY <1>3 DEF Tick, operVars
  <2>2. ASSUME NEW t \in Tokens, TrueSince(t, a) PROVE TrueSince(t, a)'
    <3>1. sessions[t] \in Nat /\ died[t] \in Nat
      BY TimeAssumption DEF TypeOK, Times
    <3>2. died'[t] = IF sessions[t] = now + 1 THEN now + 1 ELSE died[t]
      BY <2>1
    <3>3. sessions[t] > now \/ died[t] >= a
      BY <2>2 DEF TrueSince, Alive
    <3>4. sessions[t] > now + 1 \/ died'[t] >= a
      BY <1>1, <3>1, <3>2, <3>3
    <3> QED
      BY <2>1, <3>4 DEF TrueSince, Alive
  <2>3. a <= now'
    BY <1>1, <2>1
  <2> QED
    BY <2>1, <2>2, <2>3 DEF AdminSince
<1>4. CASE update_operator
  BY <1>4 DEF update_operator, sessionVars, TrueSince, AdminSince, Alive
<1>5. CASE \E x \in Requests : create_session(x)
  <2>1. /\ UNCHANGED <<now, died, admin, flipped>>
        /\ sessions' = [sessions EXCEPT ![minted + 1] = now + SessionTTL]
    BY <1>5 DEF create_session, operVars
  <2>2. \A t \in Tokens : sessions'[t] = sessions[t] \/ sessions'[t] = now + SessionTTL
    BY <2>1 DEF TypeOK
  <2>3. now + SessionTTL > now
    BY <1>1, TimeAssumption
  <2> QED
    BY <2>1, <2>2, <2>3 DEF TrueSince, AdminSince, Alive
<1>6. CASE \E x \in Requests, p \in Pods, t \in Tokens : logout(x, p, t)
  <2>1. PICK x \in Requests, p \in Pods, t \in Tokens : logout(x, p, t)
    BY <1>6
  <2>2. UNCHANGED <<now, admin, flipped>> /\ (UNCHANGED <<sessions, died>> \/ delete_session(t))
    BY <2>1 DEF logout, operVars
  <2>3. CASE delete_session(t)
    <3>1. ASSUME NEW u \in Tokens, TrueSince(u, a) PROVE TrueSince(u, a)'
      <4>1. CASE u # t
        <5>1. sessions'[u] = sessions[u] /\ died'[u] = died[u]
          BY <2>3, <4>1 DEF delete_session, TypeOK
        <5> QED
          BY <2>2, <3>1, <5>1 DEF TrueSince, Alive
      <4>2. CASE u = t /\ Alive(t)
        <5>1. died'[u] = now
          BY <2>3, <4>2 DEF delete_session, TypeOK
        <5> QED
          BY <1>1, <5>1 DEF TrueSince
      <4>3. CASE u = t /\ ~Alive(t)
        <5>1. died'[u] = died[u]
          BY <2>3, <4>3 DEF delete_session
        <5> QED
          BY <3>1, <4>3, <5>1 DEF TrueSince
      <4> QED
        BY <4>1, <4>2, <4>3
    <3> QED
      BY <2>2, <3>1 DEF AdminSince
  <2> QED
    BY <1>2, <2>2, <2>3
<1> QED
  BY <1>2, <1>3, <1>4, <1>5, <1>6
  DEF Next, vars, Handler, oidc_callback, whoami, require_tenant_session, oidc_token_exchange,
      verify_id_token, internal_login, is_operator_platform_admin, evict_whoami, WhoamiValidate,
      WhoamiFetch, WhoamiStore, End, oidc_login, RotateKey, RetireKey, cmd_reset_password,
      cmd_clear_password, sessionVars, operVars

\* An entry, or a finding, of time a about token t.
EntryTrue(t, e) ==
  e # NoEntry => e.stamp <= now /\ TrueSince(t, e.stamp) /\ AdminSince(e.admin, e.stamp)

LookupTrue(x) ==
  req[x].op = "whoami" =>
    /\ req[x].start <= now
    /\ req[x].stage # "validate" => TrueSince(req[x].token, req[x].start)
    /\ req[x].stage = "store" => AdminSince(req[x].admin, req[x].start)

\* Entries age without becoming wrong.
LEMMA EntryAges ==
  ASSUME TypeOK, TypeOK', [Next]_vars, NEW t \in Tokens, NEW e \in Entries, EntryTrue(t, e)
  PROVE  EntryTrue(t, e)'
<1> SUFFICES ASSUME e # NoEntry
             PROVE  e.stamp <= now' /\ TrueSince(t, e.stamp)' /\ AdminSince(e.admin, e.stamp)'
  BY DEF EntryTrue
<1>1. e.stamp \in Nat /\ e.admin \in BOOLEAN
  BY TimeAssumption DEF Entries, Times
<1>2. PICK a \in Nat, b \in BOOLEAN : a = e.stamp /\ b = e.admin
  BY <1>1
<1> QED
  BY <1>1, <1>2, SinceStep DEF EntryTrue

\* A lookup that keeps its findings keeps them true.
LEMMA LookupAges ==
  ASSUME TypeOK, TypeOK', [Next]_vars, NEW y \in Requests, LookupTrue(y),
         \/ req'[y] = req[y]
         \/ req[y].op = "whoami" /\ req'[y] = [req[y] EXCEPT !.evicted = TRUE]
  PROVE  LookupTrue(y)'
<1> SUFFICES ASSUME req'[y].op = "whoami" PROVE LookupTrue(y)'
  BY DEF LookupTrue
<1>1. /\ req[y].op = "whoami" /\ req'[y].start = req[y].start /\ req'[y].stage = req[y].stage
      /\ req'[y].token = req[y].token /\ req'[y].admin = req[y].admin
  BY Marked
<1>2. req[y] \in Lookups
  BY <1>1, OpOf
<1>3. PICK a \in Nat, t \in Tokens, b \in BOOLEAN :
        a = req[y].start /\ t = req[y].token /\ b = req[y].admin
  BY <1>2, TimeAssumption DEF Lookups, Times
<1>4. /\ a <= now' /\ (TrueSince(t, a) => TrueSince(t, a)') /\ (AdminSince(b, a) => AdminSince(b, a)')
  BY <1>1, <1>3, SinceStep DEF LookupTrue
<1>5. req[y].stage # "validate" => TrueSince(t, a)
  BY <1>1, <1>3 DEF LookupTrue
<1>6. req[y].stage = "store" => AdminSince(b, a)
  BY <1>1, <1>3 DEF LookupTrue
<1> QED
  BY <1>1, <1>3, <1>4, <1>5, <1>6 DEF LookupTrue, TrueSince, AdminSince, Alive

\* Lookups find what is true, and store only that.
LEMMA TrueStep ==
  ASSUME TypeOK, TypeOK', [Next]_vars,
         \A p \in Pods, t \in Tokens : EntryTrue(t, cache[p][t]),
         \A x \in Requests : LookupTrue(x)
  PROVE  /\ \A p \in Pods, t \in Tokens : EntryTrue(t, cache[p][t])'
         /\ \A x \in Requests : LookupTrue(x)'
<1>1. cache \in [Pods -> [Tokens -> Entries]] /\ cache' \in [Pods -> [Tokens -> Entries]]
  BY DEF TypeOK, Entries
<1>2. ASSUME NEW p \in Pods, NEW t \in Tokens,
             cache'[p][t] = cache[p][t] \/ cache'[p][t] = NoEntry
      PROVE  EntryTrue(t, cache[p][t])'
  <2>1. CASE cache'[p][t] = NoEntry
    BY <2>1 DEF EntryTrue
  <2>2. CASE cache'[p][t] = cache[p][t]
    <3>1. PICK e \in Entries : e = cache[p][t]
      BY <1>1
    <3>2. EntryTrue(t, e)
      BY <3>1
    <3>3. EntryTrue(t, e)'
      BY <3>2, EntryAges
    <3> QED
      BY <2>2, <3>1, <3>3 DEF EntryTrue
  <2> QED
    BY <1>2, <2>1, <2>2
<1>3. CASE UNCHANGED <<cache, req>>
  <2>1. \A p \in Pods, t \in Tokens : EntryTrue(t, cache[p][t])'
    BY <1>2, <1>3
  <2>2. \A x \in Requests : LookupTrue(x)'
    BY <1>3, LookupAges
  <2> QED
    BY <2>1, <2>2
<1>4. ASSUME NEW x \in Requests, Handler(x)
      PROVE  /\ \A p \in Pods, t \in Tokens : EntryTrue(t, cache[p][t])'
             /\ \A y \in Requests : LookupTrue(y)'
  <2>1. \A y \in Requests : y # x => LookupTrue(y)'
    BY <1>4, Others, LookupAges
  <2>2. LookupTrue(x)'
    <3>1. CASE req'[x].op # "whoami"
      BY <3>1 DEF LookupTrue
    <3>2. CASE Done(x)
      BY <3>1, <3>2, DoneReq
    <3>3. CASE \E p \in Pods, t \in Tokens : whoami(x, p, t)
      <4>1. PICK p \in Pods, t \in Tokens : whoami(x, p, t)
        BY <3>3
      <4>2. req'[x] = [op |-> "whoami", pod |-> p, token |-> t, stage |-> "validate",
                       start |-> now, evicted |-> FALSE, admin |-> FALSE]
        BY <4>1, SetReq DEF whoami, Begin
      <4>3. req'[x].start = now /\ req'[x].stage = "validate" /\ now' = now /\ now <= now
        BY <4>1, <4>2, TimeAssumption DEF whoami, TypeOK, Times
      <4> QED
        BY <4>3 DEF LookupTrue
    <3>4. CASE WhoamiValidate(x)
      <4>1. req[x].op = "whoami" /\ req[x] \in Lookups /\ UNCHANGED <<now, sessions, died>>
            /\ (Done(x) \/ (Alive(req[x].token) /\ Goto(x, "fetch")))
        BY <3>4, OpOf DEF WhoamiValidate, At, validate_session, sessionVars
      <4>2. CASE Alive(req[x].token) /\ Goto(x, "fetch")
        <5>1. req'[x].stage = "fetch" /\ req'[x].start = req[x].start /\ req'[x].token = req[x].token
          BY <4>1, <4>2, GotoFields
        <5>2. req[x].start <= now
          BY <4>1 DEF LookupTrue
        <5> QED
          BY <4>1, <4>2, <5>1, <5>2 DEF LookupTrue, TrueSince, Alive
      <4> QED
        BY <3>2, <4>1, <4>2
    <3>5. CASE WhoamiFetch(x)
      <4>1. req[x].op = "whoami" /\ req[x] \in Lookups /\ UNCHANGED <<now, sessions, died, admin, flipped>>
        BY <3>5, OpOf DEF WhoamiFetch, At, sessionVars, operVars
      <4>2. CASE Alive(req[x].token)
        <5>1. req'[x] = [req[x] EXCEPT !.stage = "store", !.admin = admin]
          BY <3>5, <4>2 DEF WhoamiFetch, TypeOK
        <5>2. /\ req'[x].stage = "store" /\ req'[x].start = req[x].start
              /\ req'[x].token = req[x].token /\ req'[x].admin = admin
          BY <4>1, <5>1 DEF Lookups
        <5>3. req[x].start <= now
          BY <4>1 DEF LookupTrue
        <5> QED
          BY <4>1, <4>2, <5>2, <5>3 DEF LookupTrue, TrueSince, AdminSince, Alive
      <4> QED
        BY <3>2, <3>5, <4>2 DEF WhoamiFetch
    <3>6. CASE \/ \E p \in Pods : \/ \E s \in States : oidc_callback(x, p, s)
                                  \/ \E t \in Tokens : logout(x, p, t)
               \/ \E t \in Tokens : require_tenant_session(x, t)
               \/ internal_login(x)
      BY <3>1, <3>6, SetReq DEF oidc_callback, logout, require_tenant_session, internal_login, Begin
    <3>7. CASE oidc_token_exchange(x)
      <4>1. req[x] \in Callbacks
        BY <3>7, OpOf DEF oidc_token_exchange, At
      <4>2. req'[x] = [req[x] EXCEPT !.stage = "verify", !.key = signing]
        BY <3>7 DEF oidc_token_exchange, TypeOK
      <4> QED
        BY <3>1, <4>1, <4>2 DEF Callbacks
    <3>8. CASE \E s : Goto(x, s) /\ req[x].op \in {"callback", "guard"}
      BY <3>1, <3>8, GotoFields
    <3>9. CASE evict_whoami(x)
      BY <3>1, <3>9 DEF evict_whoami, Idle
    <3> QED
      BY <1>4, <3>2, <3>3, <3>4, <3>5, <3>6, <3>7, <3>8, <3>9
      DEF Handler, verify_id_token, create_session, is_operator_platform_admin, WhoamiStore, End, At
  <2>3. \A p \in Pods, t \in Tokens : EntryTrue(t, cache[p][t])'
    <3>1. CASE UNCHANGED cache
      BY <1>2, <3>1
    <3>2. CASE evict_whoami(x)
      <4>1. \A p \in Pods, t \in Tokens : cache'[p][t] = cache[p][t] \/ cache'[p][t] = NoEntry
        BY <1>1, <3>2 DEF evict_whoami
      <4> QED
        BY <1>2, <4>1
    <3>3. CASE WhoamiStore(x) /\ ~req[x].evicted
      <4> DEFINE e == [stamp |-> req[x].start, admin |-> req[x].admin]
      <4>1. req[x] \in Lookups /\ req[x].op = "whoami" /\ req[x].stage = "store"
            /\ UNCHANGED <<now, sessions, died, admin, flipped>>
            /\ cache' = StoreEntry(x, e)
        BY <3>3, OpOf DEF WhoamiStore, At, sessionVars, operVars
      <4>2. EntryTrue(req[x].token, e)
        BY <4>1 DEF LookupTrue, EntryTrue
      <4>3. \A p \in Pods, t \in Tokens :
              \/ cache'[p][t] = cache[p][t] \/ cache'[p][t] = NoEntry
              \/ p = req[x].pod /\ t = req[x].token /\ cache'[p][t] = e
        BY <1>1, <4>1 DEF StoreEntry, Lookups
      <4>4. ASSUME NEW p \in Pods, NEW t \in Tokens, t = req[x].token, cache'[p][t] = e
            PROVE  EntryTrue(t, cache[p][t])'
        <5> HIDE DEF e
        <5> QED
          BY <4>1, <4>2, <4>4 DEF EntryTrue, TrueSince, AdminSince, Alive
      <4> HIDE DEF e
      <4> QED
        BY <1>2, <4>3, <4>4
    <3> QED
      BY <1>4, <3>1, <3>2, <3>3
      DEF Handler, oidc_callback, logout, whoami, require_tenant_session, oidc_token_exchange,
          verify_id_token, internal_login, create_session, is_operator_platform_admin,
          WhoamiValidate, WhoamiFetch, WhoamiStore, End
  <2> QED
    BY <2>1, <2>2, <2>3
<1> QED
  BY <1>3, <1>4 DEF Next, vars, oidc_login, RotateKey, RetireKey, cmd_reset_password,
     cmd_clear_password, update_operator, Tick

-----------------------------------------------------------------------------
(* The theorems.                                                           *)

\* The parts the lemmas are about make up the inductive invariant.
LEMMA Parts ==
  IInv <=> /\ TypeOK
           /\ OutGlobal /\ \A x \in Requests : OutLocal(x)
           /\ StateGlobal /\ StateLocal
           /\ \A p \in Pods, t \in Tokens : EntryTrue(t, cache[p][t])
           /\ \A x \in Requests : LookupTrue(x) /\ KeyLocal(x)
           /\ \A p \in Pods : KeySetTrue(jwks[p])
  BY DEF IInv, SessionsConsistent, OutForGood, LookupsMarked, StatesApart,
     EntriesTrue, LookupsTrue, KeysKnown, OutGlobal, OutLocal, LogoutSticks, LoggedOutIsOut,
     StateGlobal, StateLocal, Exchanging, StateUsedOnce, EntryTrue, LookupTrue, KeyLocal, At

\* The invariant holds at first.
LEMMA InitIInv == Init => IInv
<1> SUFFICES ASSUME Init PROVE IInv
  OBVIOUS
<1>1. \A x \in Requests : req[x] = Idle /\ req[x].op = "none"
  BY DEF Init, Idle
<1>2. TypeOK
  <2>1. now = 0 /\ 0 \in Times /\ 1 \in Keys /\ 0 \in 0..MaxKeys /\ 1 \in 0..MaxKeys
    BY TimeAssumption DEF Init, Times, Keys
  <2>2. jwks \in [Pods -> KeySets]
    BY <2>1 DEF Init, Published, KeySets
  <2>3. /\ 0 \in 0..(MaxTime + SessionTTL) /\ 0 \in 0..(MaxTime + StateTTL) /\ 0 \in 0..MaxSessions
        /\ 0 \in 0..MaxStates /\ 0 \in 0..MaxChanges /\ 1 \in 1..1
    BY TimeAssumption
  <2> QED
    BY <2>1, <2>2, <2>3 DEF Init, TypeOK, KeySets
<1>3. OutGlobal /\ StateGlobal
  BY DEF Init, OutGlobal, LogoutSticks, StateGlobal, StateUsedOnce
<1>4. StateLocal /\ \A x \in Requests : OutLocal(x) /\ LookupTrue(x) /\ KeyLocal(x)
  BY <1>1 DEF StateLocal, Exchanging, At, OutLocal, LookupTrue, KeyLocal
<1>5. \A p \in Pods, t \in Tokens : EntryTrue(t, cache[p][t])
  BY DEF Init, EntryTrue
<1>6. \A p \in Pods : KeySetTrue(jwks[p])
  <2>1. KeySetTrue(Published)
    BY <1>2, PublishedTrue
  <2> QED
    BY <2>1 DEF Init, KeySetTrue
<1> QED
  BY <1>2, <1>3, <1>4, <1>5, <1>6, Parts

\* Every step preserves the inductive invariant.
LEMMA NextIInv == IInv /\ [Next]_vars => IInv'
<1> SUFFICES ASSUME IInv, [Next]_vars PROVE IInv'
  OBVIOUS
<1>1. /\ TypeOK /\ OutGlobal /\ \A x \in Requests : OutLocal(x) /\ LookupTrue(x) /\ KeyLocal(x)
      /\ StateGlobal /\ StateLocal
      /\ \A p \in Pods, t \in Tokens : EntryTrue(t, cache[p][t])
      /\ \A p \in Pods : KeySetTrue(jwks[p])
  BY Parts
<1>2. TypeOK'
  BY <1>1, TypeStep
<1>3. OutGlobal' /\ \A x \in Requests : OutLocal(x)'
  BY <1>1, <1>2, OutStep
<1>4. StateGlobal' /\ StateLocal'
  BY <1>1, <1>2, StateStep
<1>5. \A x \in Requests : KeyLocal(x)'
  BY <1>1, <1>2, KeyStep
<1>6. /\ \A p \in Pods, t \in Tokens : EntryTrue(t, cache[p][t])'
      /\ \A x \in Requests : LookupTrue(x)'
  BY <1>1, <1>2, TrueStep
<1>7. \A p \in Pods : KeySetTrue(jwks[p])'
  BY <1>1, <1>2, KeySetStep
<1> QED
  BY <1>2, <1>3, <1>4, <1>5, <1>6, <1>7
  DEF IInv, SessionsConsistent, OutForGood, LookupsMarked, StatesApart,
     EntriesTrue, LookupsTrue, KeysKnown, OutGlobal, OutLocal, LogoutSticks, LoggedOutIsOut,
     StateGlobal, StateLocal, Exchanging, StateUsedOnce, EntryTrue, LookupTrue, KeyLocal, At

\* IInv is an invariant.
LEMMA Inductive == Spec => []IInv
  BY InitIInv, NextIInv, PTL DEF Spec

\* On every replica and however the handlers interleave: after an answered
\* logout neither that replica's cache nor require_tenant_session knows the
\* session, and a login state leads to one code exchange at most (logout,
\* whoami, oidc_callback).
THEOREM SessionsStayConsistent == Spec => []SessionsConsistent
<1>1. IInv => SessionsConsistent
  BY DEF IInv
<1> QED
  BY <1>1, Inductive, PTL

\* What whoami answers from its cache was true less than the time to live ago.
THEOREM WhoamiStaysBounded == Spec => []WhoamiBounded
<1>1. IInv => WhoamiBounded
  <2> SUFFICES ASSUME IInv, NEW p \in Pods, NEW t \in Tokens, Fresh(cache[p][t])
               PROVE  /\ Alive(t) \/ now - died[t] < WhoamiTTL
                      /\ cache[p][t].admin = admin \/ now - flipped < WhoamiTTL
    BY DEF WhoamiBounded
  <2> DEFINE e == cache[p][t]
  <2>1. TypeOK /\ EntryTrue(t, e)
    BY Parts
  <2>2. e \in Entries /\ e # NoEntry /\ now - e.stamp < WhoamiTTL
    BY <2>1 DEF TypeOK, Entries, Fresh
  <2>3. e.stamp \in Nat /\ now \in Nat /\ died[t] \in Nat /\ flipped \in Nat
    BY <2>1, <2>2, TimeAssumption DEF Entries, TypeOK, Times
  <2>4. TrueSince(t, e.stamp) /\ AdminSince(e.admin, e.stamp)
    BY <2>1, <2>2 DEF EntryTrue
  <2> HIDE DEF e
  <2>5. (Alive(t) \/ died[t] >= e.stamp) /\ (e.admin = admin \/ flipped >= e.stamp)
    BY <2>4 DEF TrueSince, AdminSince
  <2>6. /\ died[t] >= e.stamp => now - died[t] < WhoamiTTL
        /\ flipped >= e.stamp => now - flipped < WhoamiTTL
    BY <2>2, <2>3, TimeAssumption
  <2> QED
    BY <2>5, <2>6 DEF e
<1> QED
  BY <1>1, Inductive, PTL

\* A login fails for its signature only when Keycloak has withdrawn the key or
\* began to sign with it less than JwksTTL ago, whatever was cached, whoever
\* refreshed it and whatever kind of error the library raises for a key it does
\* not find (_verify_id_token, _fetch_jwks).
THEOREM RefusalsStayBounded == Spec => RefusalsBounded
<1>1. IInv /\ [Next]_vars =>
        [\A x \in Requests : ~At(x, "callback", "refused") /\ At(x, "callback", "refused")' =>
           req[x].key < oldest \/ now - since[req[x].key] < JwksTTL]_vars
  BY Parts, RefusalStep
<1> QED
  BY <1>1, Inductive, PTL DEF Spec, RefusalsBounded

-----------------------------------------------------------------------------
(* The seed job and the operators: the inductive invariant.                *)

\* The stages from each write of the job on.
FromDemo     == {"service", "credential", "agent", "grants", "done"}
FromLink     == {"link", "private", "public"} \cup FromDemo
FromSentinel == {"sentinel"} \cup FromLink
FromRole     == {"role"} \cup FromSentinel
FromSync     == {"sync"} \cup FromRole
FromUser     == {"user"} \cup FromSync
FromCookie   == {"cookie"} \cup FromUser
FromUris     == {"uris"} \cup FromCookie
FromPkce     == {"pkce"} \cup FromUris
FromSecrets  == {"secrets"} \cup FromPkce
FromRealm    == {"realm"} \cup FromSecrets
FromRow      == {"membership", "password_file", "hand_over"} \cup FromRealm
FromOperator == {"operator"} \cup FromRow
FromChain    == {"chain"} \cup FromOperator

\* The database: what the steps behind the job have left there.
RowsMade ==
  /\ job.stage \in FromChain => tenant # "none"
  /\ job.stage \in FromOperator => tenant = "both"
  /\ ~op[Admin].row => /\ job.stage \notin FromRow /\ ~realm /\ script = IdleScript
                       /\ file.pw = "none" /\ ~file.synced /\ ~settled
                       /\ \A e \in Emails : ~op[e].row

\* The file of a client holds Keycloak's secret, unless that changed during the job.
Written(c) == c \in job.stale \/ file.secret[c] = client[c].secret
\* Keycloak's clients, one after the other in each loop.
ClientsMade ==
  /\ job.stage \in FromSecrets => realm
  /\ \A c \in Clients :
       /\ job.stage \in FromPkce \/ (job.stage = "secrets" /\ c \notin job.left) => Written(c)
       /\ job.stage \in FromUris \/ (job.stage = "pkce" /\ c \notin job.left) => client[c].pkce
       /\ job.stage \in FromCookie \/ (job.stage = "uris" /\ c \notin job.left)
            => client[c].uris = "public"

\* The password file is written by the run that makes the administrator's row,
\* or never; a torn one is never decrypted.
PasswordMade ==
  /\ op[Admin].row =>
       file.pw # "none" \/ job.lost \/ job.stage \in {"membership", "password_file"}
  /\ job.stage = "password_file" \/ file.pw # "none" => op[Admin].member
  /\ job.stage \in {"membership", "password_file"} => ~file.synced /\ file.pw = "none"
  /\ job.stage \in FromRole \/ file.synced => file.pw # "torn"

\* The administrator: the password file, the user and the sentinel.  A job that
\* has ended leaves the password set, and no later one makes a new file.
AdminMade ==
  /\ job.stage \in FromRealm => (file.pw # "none" => file.handed \/ job.denied)
  /\ job.stage \in FromUser => file.cookie = "valid"
  /\ job.stage \in FromSync => kc[Admin].user
  /\ job.stage \in FromRole \/ file.synced => (file.pw # "none" => kc[Admin].pw # "none")
  /\ job.stage \in FromSentinel => kc[Admin].role
  /\ job.stage \in FromLink \/ settled => file.synced
  /\ settled => job.stage \notin {"membership", "password_file"}

\* The keypair: a public half is written over none, after its private half.
KeypairMade ==
  /\ job.stage \notin {"idle", "done"} => runs > 0
  /\ file.public # 0 => file.private \notin {0, Torn} /\ file.public \in {file.private, Torn}
  /\ job.stage \in {"private", "public"} => file.public = 0
  /\ job.stage = "public" => file.private = runs
  /\ job.stage \in FromDemo => file.public # 0

\* A run adds a demo credential, a demo agent and a grant at most.
DemoCounted ==
  /\ demo.credentials <= runs
  /\ demo.credentials = runs => job.stage \in {"idle", "agent", "grants", "done"}
  /\ demo.agents <= runs
  /\ demo.agents = runs => job.stage \in {"idle", "grants", "done"}
  /\ demo.grants <= runs
  /\ demo.grants = runs => job.stage \in {"idle", "done"}

\* What create_operator.py has behind it.
PersonMade ==
  script # IdleScript =>
    /\ script.stage \in {"password", "role", "row", "member", "done"} => kc[script.email].user
    /\ script.stage \in {"row", "member", "done"} /\ script.admin => kc[script.email].role
    /\ script.stage \in {"member", "done"} => op[script.email].row
    /\ script.stage = "done" => op[script.email].member

\* Who is half made: NoSilentGap with what its two excuses rest on.
Gaps ==
  \A e \in Emails \ cut :
    /\ (op[e].row /\ ~op[e].member) =>
         \/ e = Admin /\ job.stage = "membership"
         \/ script # IdleScript /\ script.email = e /\ script.stage = "member"
    /\ (kc[e].user /\ kc[e].pw = "none") =>
         \/ e = Admin
         \/ script # IdleScript /\ script.email = e /\ script.stage = "password" /\ script.created

\* The inductive invariant.
ProvInv ==
  /\ ProvTypeOK /\ RowsMade /\ ClientsMade /\ PasswordMade /\ AdminMade /\ KeypairMade /\ DemoCounted
  /\ PersonMade /\ Gaps

-----------------------------------------------------------------------------
(* The records one write changes.                                          *)

OpRows  == [row : BOOLEAN, member : BOOLEAN, linked : BOOLEAN]
Users   == [user : BOOLEAN, pw : {"none", "seeded", "own"}, role : BOOLEAN]
Setups  == [secret : 0..MaxSecrets, pkce : BOOLEAN, uris : {"placeholder", "public"}]
Files   == [pw : {"none", "torn", "whole"}, handed : BOOLEAN, synced : BOOLEAN,
            secret : [Clients -> 0..MaxSecrets], cookie : {"none", "invalid", "valid"},
            private : 0..Torn, public : 0..Torn]
Demos   == [services : 0..1, credentials : 0..MaxRuns, agents : 0..MaxRuns, grants : 0..MaxRuns]
Jobs    == [stage : Stages, left : SUBSET Clients, stale : SUBSET Clients,
            denied : BOOLEAN, lost : BOOLEAN]
Scripts == [stage : ScriptStages, email : Emails, admin : BOOLEAN, reset : BOOLEAN, created : BOOLEAN]

\* A write to one person's rows leaves rows.
LEMMA OpTyped ==
  ASSUME ProvTypeOK, NEW e \in Emails
  PROVE  /\ op \in [Emails -> OpRows]
         /\ [op EXCEPT ![e].row = TRUE] \in [Emails -> OpRows]
         /\ [op EXCEPT ![e].member = TRUE] \in [Emails -> OpRows]
         /\ [op EXCEPT ![e].linked = TRUE] \in [Emails -> OpRows]
         /\ [op EXCEPT ![e].row = TRUE, ![e].member = TRUE] \in [Emails -> OpRows]
<1>1. op \in [Emails -> OpRows] /\ op[e] \in OpRows
  BY DEF ProvTypeOK, OpRows
<1>2. /\ [op[e] EXCEPT !.row = TRUE] \in OpRows
      /\ [op[e] EXCEPT !.member = TRUE] \in OpRows
      /\ [op[e] EXCEPT !.linked = TRUE] \in OpRows
      /\ [op[e] EXCEPT !.row = TRUE, !.member = TRUE] \in OpRows
  BY <1>1 DEF OpRows
<1> QED
  BY <1>1, <1>2

\* A write to one Keycloak user leaves users.
LEMMA UserTyped ==
  ASSUME ProvTypeOK, NEW e \in Emails
  PROVE  /\ kc \in [Emails -> Users]
         /\ [kc EXCEPT ![e].user = TRUE] \in [Emails -> Users]
         /\ [kc EXCEPT ![e].role = TRUE] \in [Emails -> Users]
         /\ [kc EXCEPT ![e].pw = "seeded"] \in [Emails -> Users]
         /\ [kc EXCEPT ![e].pw = "own"] \in [Emails -> Users]
<1>1. kc \in [Emails -> Users] /\ kc[e] \in Users
  BY DEF ProvTypeOK, Users
<1>2. /\ [kc[e] EXCEPT !.user = TRUE] \in Users
      /\ [kc[e] EXCEPT !.role = TRUE] \in Users
      /\ [kc[e] EXCEPT !.pw = "seeded"] \in Users
      /\ [kc[e] EXCEPT !.pw = "own"] \in Users
  BY <1>1 DEF Users
<1> QED
  BY <1>1, <1>2

\* A write to one Keycloak client leaves clients.
LEMMA ClientTyped ==
  ASSUME ProvTypeOK, NEW c \in Clients
  PROVE  /\ client \in [Clients -> Setups]
         /\ [client EXCEPT ![c].pkce = TRUE] \in [Clients -> Setups]
         /\ [client EXCEPT ![c].uris = "public"] \in [Clients -> Setups]
         /\ client[c].secret \in 1..(MaxSecrets - 1)
              => [client EXCEPT ![c].secret = @ + 1] \in [Clients -> Setups]
<1>1. client \in [Clients -> Setups] /\ client[c] \in Setups
  BY DEF ProvTypeOK, Setups
<1>2. /\ [client[c] EXCEPT !.pkce = TRUE] \in Setups
      /\ [client[c] EXCEPT !.uris = "public"] \in Setups
  BY <1>1 DEF Setups
<1>3. client[c].secret \in 1..(MaxSecrets - 1) => [client[c] EXCEPT !.secret = @ + 1] \in Setups
  BY <1>1, RunAssumption DEF Setups
<1> QED
  BY <1>1, <1>2, <1>3

\* A job goes on to a stage.
LEMMA JobTyped ==
  ASSUME ProvTypeOK, NEW s \in Stages
  PROVE  /\ job \in Jobs
         /\ [job EXCEPT !.stage = s] \in Jobs
         /\ [job EXCEPT !.stage = s, !.left = Clients] \in Jobs
         /\ \A c \in Clients, b \in BOOLEAN :
              /\ [job EXCEPT !.stage = s, !.left = IF b THEN Clients ELSE {}] \in Jobs
              /\ [job EXCEPT !.left = @ \ {c}] \in Jobs
              /\ [job EXCEPT !.stale = @ \cup {c}] \in Jobs
  BY DEF ProvTypeOK, Jobs

\* A job in a loop over the clients goes on to the next one, or to a stage.
LEMMA EachTyped ==
  ASSUME ProvTypeOK, NEW s \in Stages, NEW b \in BOOLEAN, NEW c \in Clients, Each(c, s, b)
  PROVE  /\ job' \in Jobs /\ job'.stale = job.stale
         /\ job'.denied = job.denied /\ job'.lost = job.lost
         /\ job.left = {c} => job'.stage = s
         /\ job.left # {c} => job'.stage = job.stage /\ job'.left = job.left \ {c}
<1>1. job \in Jobs
  BY DEF ProvTypeOK, Jobs
<1>2. CASE job.left = {c}
  BY <1>1, <1>2 DEF Each, Jobs
<1>3. CASE job.left # {c}
  BY <1>1, <1>3 DEF Each, Jobs
<1> QED
  BY <1>2, <1>3

\* A script that is running goes on to a stage.
LEMMA ScriptTyped ==
  ASSUME ProvTypeOK, script.stage # "idle"
  PROVE  /\ script # IdleScript /\ script \in Scripts
         /\ \A s \in ScriptStages : [script EXCEPT !.stage = s] \in Scripts
         /\ \A s \in ScriptStages, b \in BOOLEAN :
              [script EXCEPT !.stage = s, !.created = b] \in Scripts
<1>1. script # IdleScript /\ script \in Scripts
  BY DEF ProvTypeOK, Scripts, IdleScript
<1> QED
  BY <1>1 DEF Scripts

\* The type invariant, from the types of the records.
LEMMA ProvTyped ==
  ASSUME ProvTypeOK, plan' = plan,
         tenant' \in {tenant, "tenant", "both"}, realm' \in {realm, TRUE},
         op' = op \/ op' \in [Emails -> OpRows], kc' = kc \/ kc' \in [Emails -> Users],
         client' = client \/ client' \in [Clients -> Setups],
         file' = file \/ file' \in Files, demo' = demo \/ demo' \in Demos,
         job' = job \/ job' \in Jobs, runs' = runs \/ runs' \in 0..MaxRuns,
         script' = script \/ script' \in {IdleScript} \cup Scripts,
         cut' = cut \/ cut' \in SUBSET Emails, settled' = settled \/ settled' \in BOOLEAN
  PROVE  ProvTypeOK'
<1>1. /\ tenant' \in {"none", "tenant", "both"} /\ realm' \in BOOLEAN /\ runs' \in 0..MaxRuns
      /\ plan' \in Plans
      /\ cut' \in SUBSET Emails /\ settled' \in BOOLEAN
  BY DEF ProvTypeOK
<1>2. op' \in [Emails -> OpRows] /\ kc' \in [Emails -> Users]
  BY DEF ProvTypeOK, OpRows, Users
<1>3. client' \in [Clients -> Setups] /\ file' \in Files /\ demo' \in Demos
  BY DEF ProvTypeOK, Setups, Files, Demos
<1>4. job' \in Jobs /\ script' \in {IdleScript} \cup Scripts
  BY DEF ProvTypeOK, Jobs, Scripts
<1> QED
  BY <1>1, <1>2, <1>3, <1>4 DEF ProvTypeOK, OpRows, Users, Setups, Files, Demos, Jobs, Scripts

-----------------------------------------------------------------------------
(* The steps.                                                              *)

USE AdminAssumption, RunAssumption, DemoAssumption
USE DEF FromDemo, FromLink, FromSentinel, FromRole, FromSync, FromUser, FromCookie,
        FromUris, FromPkce, FromSecrets, FromRealm, FromRow, FromOperator, FromChain,
        JobAt, JobGoto, ScriptAt, ScriptGoto

\* A run of the job begins.
LEMMA MainStep ==
  ASSUME ProvInv, main
  PROVE  ProvInv'
<1>1. ProvTypeOK'
  <2>1. job' \in Jobs
    BY DEF main, ProvInv, ProvTypeOK, Jobs, Stages
  <2> QED
    BY <2>1, ProvTyped DEF main, ProvInv, ProvTypeOK
<1>2. RowsMade' /\ ClientsMade' /\ PasswordMade'
  BY DEF main, ProvInv, ProvTypeOK, RowsMade, ClientsMade, PasswordMade, IdleScript, Written
<1>3. AdminMade' /\ KeypairMade'
  BY DEF main, ProvInv, ProvTypeOK, AdminMade, KeypairMade
<1>4. DemoCounted' /\ PersonMade'
  BY DEF main, ProvInv, ProvTypeOK, DemoCounted, PersonMade, IdleScript
<1>5. Gaps'
  BY DEF main, ProvInv, ProvTypeOK, Gaps, IdleScript
<1> QED
  BY <1>1, <1>2, <1>3, <1>4, <1>5 DEF ProvInv

\* The tenant.
LEMMA TenantStep ==
  ASSUME ProvInv, seed_default_tenant
  PROVE  ProvInv'
<1>1. ProvTypeOK'
  <2>1. job' \in Jobs
    BY JobTyped DEF seed_default_tenant, ProvInv, Stages
  <2> QED
    BY <2>1, ProvTyped DEF seed_default_tenant, ProvInv, ProvTypeOK
<1>2. RowsMade' /\ ClientsMade' /\ PasswordMade'
  BY DEF seed_default_tenant, ProvInv, ProvTypeOK, RowsMade, ClientsMade, PasswordMade, IdleScript, Written
<1>3. AdminMade' /\ KeypairMade'
  BY DEF seed_default_tenant, ProvInv, ProvTypeOK, AdminMade, KeypairMade
<1>4. DemoCounted' /\ PersonMade'
  BY DEF seed_default_tenant, ProvInv, ProvTypeOK, DemoCounted, PersonMade, IdleScript
<1>5. Gaps'
  BY DEF seed_default_tenant, ProvInv, ProvTypeOK, Gaps, IdleScript
<1> QED
  BY <1>1, <1>2, <1>3, <1>4, <1>5 DEF ProvInv

\* The tenant's chain.
LEMMA ChainStateStep ==
  ASSUME ProvInv, seed_audit_chain_state
  PROVE  ProvInv'
<1>1. ProvTypeOK'
  <2>1. job' \in Jobs
    BY JobTyped DEF seed_audit_chain_state, ProvInv, Stages
  <2> QED
    BY <2>1, ProvTyped DEF seed_audit_chain_state, ProvInv, ProvTypeOK
<1>2. RowsMade' /\ ClientsMade' /\ PasswordMade'
  BY DEF seed_audit_chain_state, ProvInv, ProvTypeOK, RowsMade, ClientsMade, PasswordMade, IdleScript, Written
<1>3. AdminMade' /\ KeypairMade'
  BY DEF seed_audit_chain_state, ProvInv, ProvTypeOK, AdminMade, KeypairMade
<1>4. DemoCounted' /\ PersonMade'
  BY DEF seed_audit_chain_state, ProvInv, ProvTypeOK, DemoCounted, PersonMade, IdleScript
<1>5. Gaps'
  BY DEF seed_audit_chain_state, ProvInv, ProvTypeOK, Gaps, IdleScript
<1> QED
  BY <1>1, <1>2, <1>3, <1>4, <1>5 DEF ProvInv

\* The administrator's row.
LEMMA OperatorStep ==
  ASSUME ProvInv, seed_bootstrap_operator
  PROVE  ProvInv'
<1>1. ProvTypeOK'
  <2>1. op' \in [Emails -> OpRows]
    BY OpTyped DEF seed_bootstrap_operator, ProvInv
  <2>2. job' \in Jobs
    BY JobTyped DEF seed_bootstrap_operator, ProvInv, Stages
  <2> QED
    BY <2>1, <2>2, ProvTyped DEF seed_bootstrap_operator, ProvInv, ProvTypeOK
<1>2. /\ file' = file /\ kc' = kc /\ settled' = settled /\ realm' = realm /\ client' = client
      /\ tenant' = tenant /\ script' = script /\ runs' = runs /\ job.stage = "operator"
  BY DEF seed_bootstrap_operator
<1>3. /\ op'[Admin].row /\ op'[Admin].member = op[Admin].member
      /\ \A e \in Emails \ {Admin} : op'[e] = op[e]
  BY DEF seed_bootstrap_operator, ProvInv, ProvTypeOK
<1>6. /\ job'.left = job.left /\ job'.stale = job.stale /\ job'.denied = job.denied /\ job'.lost = job.lost
      /\ job'.stage = IF op[Admin].row THEN "hand_over" ELSE "membership"
  BY DEF seed_bootstrap_operator, ProvInv, ProvTypeOK
<1>7. ~op[Admin].row => file.pw = "none" /\ ~file.synced /\ ~settled
  BY DEF ProvInv, RowsMade
<1>8. RowsMade' /\ ClientsMade'
  BY <1>2, <1>3, <1>6 DEF ProvInv, RowsMade, ClientsMade, Written
<1>9. PasswordMade'
  BY <1>2, <1>3, <1>6, <1>7 DEF ProvInv, PasswordMade
<1>10. AdminMade' /\ KeypairMade'
  BY <1>2, <1>6, <1>7 DEF ProvInv, AdminMade, KeypairMade
<1>4. DemoCounted' /\ PersonMade'
  BY DEF seed_bootstrap_operator, ProvInv, ProvTypeOK, DemoCounted, PersonMade, IdleScript
<1>5. Gaps'
  BY DEF seed_bootstrap_operator, ProvInv, ProvTypeOK, Gaps, IdleScript
<1> QED
  BY <1>1, <1>4, <1>5, <1>8, <1>9, <1>10 DEF ProvInv

\* The administrator's membership.
LEMMA MembershipStep ==
  ASSUME ProvInv, SeedMembership
  PROVE  ProvInv'
<1>1. ProvTypeOK'
  <2>1. op' \in [Emails -> OpRows]
    BY OpTyped DEF SeedMembership, ProvInv
  <2>2. job' \in Jobs
    BY JobTyped DEF SeedMembership, ProvInv, Stages
  <2> QED
    BY <2>1, <2>2, ProvTyped DEF SeedMembership, ProvInv, ProvTypeOK
<1>2. RowsMade' /\ ClientsMade' /\ PasswordMade'
  BY DEF SeedMembership, ProvInv, ProvTypeOK, RowsMade, ClientsMade, PasswordMade, IdleScript, Written
<1>3. AdminMade' /\ KeypairMade'
  BY DEF SeedMembership, ProvInv, ProvTypeOK, AdminMade, KeypairMade
<1>4. DemoCounted' /\ PersonMade'
  BY DEF SeedMembership, ProvInv, ProvTypeOK, DemoCounted, PersonMade, IdleScript
<1>5. Gaps'
  BY DEF SeedMembership, ProvInv, ProvTypeOK, Gaps, IdleScript
<1> QED
  BY <1>1, <1>2, <1>3, <1>4, <1>5 DEF ProvInv

\* The password file.
LEMMA PasswordFileStep ==
  ASSUME ProvInv, ensure_admin_password_file
  PROVE  ProvInv'
<1>1. ProvTypeOK'
  <2>1. file' \in Files
    BY DEF ensure_admin_password_file, ProvInv, ProvTypeOK, Files
  <2>2. job' \in Jobs
    BY JobTyped DEF ensure_admin_password_file, ProvInv, Stages
  <2> QED
    BY <2>1, <2>2, ProvTyped DEF ensure_admin_password_file, ProvInv, ProvTypeOK
<1>2. RowsMade' /\ ClientsMade' /\ PasswordMade'
  BY DEF ensure_admin_password_file, ProvInv, ProvTypeOK, RowsMade, ClientsMade, PasswordMade, IdleScript, Written
<1>3. AdminMade' /\ KeypairMade'
  BY DEF ensure_admin_password_file, ProvInv, ProvTypeOK, AdminMade, KeypairMade
<1>4. DemoCounted' /\ PersonMade'
  BY DEF ensure_admin_password_file, ProvInv, ProvTypeOK, DemoCounted, PersonMade, IdleScript
<1>5. Gaps'
  BY DEF ensure_admin_password_file, ProvInv, ProvTypeOK, Gaps, IdleScript
<1> QED
  BY <1>1, <1>2, <1>3, <1>4, <1>5 DEF ProvInv

\* The copy admin-ui reads.
LEMMA HandOverStep ==
  ASSUME ProvInv, hand_admin_password_to_admin_ui
  PROVE  ProvInv'
<1>0. PICK ok \in BOOLEAN :
        /\ file' = IF ok /\ file.pw # "none" THEN [file EXCEPT !.handed = TRUE] ELSE file
        /\ job' = [job EXCEPT !.stage = "realm", !.denied = ~ok]
  BY DEF hand_admin_password_to_admin_ui
<1>1. /\ tenant' = tenant /\ op' = op /\ kc' = kc /\ realm' = realm /\ client' = client /\ demo' = demo
      /\ plan' = plan /\ runs' = runs /\ script' = script /\ cut' = cut /\ settled' = settled
      /\ job.stage = "hand_over"
  BY DEF hand_admin_password_to_admin_ui
<1>2. /\ job' \in Jobs /\ job'.stage = "realm" /\ job'.left = job.left /\ job'.stale = job.stale
      /\ job'.lost = job.lost /\ job'.denied = ~ok
  BY <1>0 DEF ProvInv, ProvTypeOK, Jobs, Stages
<1>3. /\ file' \in Files /\ file'.pw = file.pw /\ file'.synced = file.synced
      /\ file'.secret = file.secret /\ file'.cookie = file.cookie
      /\ file'.private = file.private /\ file'.public = file.public
      /\ ok /\ file.pw # "none" => file'.handed
  BY <1>0 DEF ProvInv, ProvTypeOK, Files
<1>4. ProvTypeOK'
  BY <1>1, <1>2, <1>3, ProvTyped DEF ProvInv, ProvTypeOK
<1>5. RowsMade' /\ ClientsMade' /\ PasswordMade'
  BY <1>1, <1>2, <1>3 DEF ProvInv, RowsMade, ClientsMade, PasswordMade, Written
<1>6. AdminMade' /\ KeypairMade'
  BY <1>1, <1>2, <1>3 DEF ProvInv, AdminMade, KeypairMade
<1>7. DemoCounted' /\ PersonMade' /\ Gaps'
  BY <1>1, <1>2 DEF ProvInv, DemoCounted, PersonMade, Gaps
<1> QED
  BY <1>4, <1>5, <1>6, <1>7 DEF ProvInv

\* The realm.
LEMMA RealmStep ==
  ASSUME ProvInv, ensure_realm
  PROVE  ProvInv'
<1>1. ProvTypeOK'
  <2>1. client' \in [Clients -> Setups]
    <3>1. CASE realm
      BY <3>1, ClientTyped DEF ensure_realm, ProvInv, ProvTypeOK, Setups
    <3>2. CASE ~realm
      <4>1. PICK old \in BOOLEAN : client' = [c \in Clients |->
              [secret |-> 1, pkce |-> ~old, uris |-> IF old THEN "placeholder" ELSE "public"]]
        BY <3>2 DEF ensure_realm
      <4>2. [secret |-> 1, pkce |-> ~old, uris |-> IF old THEN "placeholder" ELSE "public"] \in Setups
        BY DEF Setups
      <4> QED
        BY <4>1, <4>2
    <3> QED
      BY <3>1, <3>2
  <2>2. job' \in Jobs
    BY JobTyped DEF ensure_realm, ProvInv, Stages, Loop
  <2> QED
    BY <2>1, <2>2, ProvTyped DEF ensure_realm, ProvInv, ProvTypeOK
<1>2. RowsMade' /\ ClientsMade' /\ PasswordMade'
  BY DEF ensure_realm, ProvInv, ProvTypeOK, RowsMade, ClientsMade, PasswordMade, IdleScript, Loop, Written
<1>3. AdminMade' /\ KeypairMade'
  BY DEF ensure_realm, ProvInv, ProvTypeOK, AdminMade, KeypairMade, Loop
<1>4. DemoCounted' /\ PersonMade'
  BY DEF ensure_realm, ProvInv, ProvTypeOK, DemoCounted, PersonMade, Loop, IdleScript
<1>5. Gaps'
  BY DEF ensure_realm, ProvInv, ProvTypeOK, Gaps, Loop, IdleScript
<1> QED
  BY <1>1, <1>2, <1>3, <1>4, <1>5 DEF ProvInv

\* The cookie secret.
LEMMA CookieStep ==
  ASSUME ProvInv, ensure_jaeger_cookie_secret
  PROVE  ProvInv'
<1>1. ProvTypeOK'
  <2>1. file' \in Files
    BY DEF ensure_jaeger_cookie_secret, ProvInv, ProvTypeOK, Files
  <2>2. job' \in Jobs
    BY JobTyped DEF ensure_jaeger_cookie_secret, ProvInv, Stages
  <2> QED
    BY <2>1, <2>2, ProvTyped DEF ensure_jaeger_cookie_secret, ProvInv, ProvTypeOK
<1>2. RowsMade' /\ ClientsMade' /\ PasswordMade'
  BY DEF ensure_jaeger_cookie_secret, ProvInv, ProvTypeOK, RowsMade, ClientsMade, PasswordMade, IdleScript, Written
<1>3. AdminMade' /\ KeypairMade'
  BY DEF ensure_jaeger_cookie_secret, ProvInv, ProvTypeOK, AdminMade, KeypairMade
<1>4. DemoCounted' /\ PersonMade'
  BY DEF ensure_jaeger_cookie_secret, ProvInv, ProvTypeOK, DemoCounted, PersonMade, IdleScript
<1>5. Gaps'
  BY DEF ensure_jaeger_cookie_secret, ProvInv, ProvTypeOK, Gaps, IdleScript
<1> QED
  BY <1>1, <1>2, <1>3, <1>4, <1>5 DEF ProvInv

\* The administrator's user.
LEMMA AdminUserStep ==
  ASSUME ProvInv, ensure_admin_user
  PROVE  ProvInv'
<1>1. ProvTypeOK'
  <2>1. kc' \in [Emails -> Users]
    BY UserTyped DEF ensure_admin_user, ProvInv
  <2>2. job' \in Jobs
    BY JobTyped DEF ensure_admin_user, ProvInv, Stages
  <2> QED
    BY <2>1, <2>2, ProvTyped DEF ensure_admin_user, ProvInv, ProvTypeOK
<1>2. RowsMade' /\ ClientsMade' /\ PasswordMade'
  BY DEF ensure_admin_user, ProvInv, ProvTypeOK, RowsMade, ClientsMade, PasswordMade, IdleScript, Written
<1>3. AdminMade' /\ KeypairMade'
  BY DEF ensure_admin_user, ProvInv, ProvTypeOK, AdminMade, KeypairMade
<1>4. DemoCounted' /\ PersonMade'
  BY DEF ensure_admin_user, ProvInv, ProvTypeOK, DemoCounted, PersonMade, IdleScript
<1>5. Gaps'
  BY DEF ensure_admin_user, ProvInv, ProvTypeOK, Gaps, IdleScript
<1> QED
  BY <1>1, <1>2, <1>3, <1>4, <1>5 DEF ProvInv

\* The administrator's password.
LEMMA SyncStep ==
  ASSUME ProvInv, sync_admin_password
  PROVE  ProvInv'
<1>1. ProvTypeOK'
  <2>1. kc' \in [Emails -> Users]
    BY UserTyped DEF sync_admin_password, ProvInv
  <2>2. job' \in Jobs
    BY JobTyped DEF sync_admin_password, ProvInv, Stages
  <2> QED
    BY <2>1, <2>2, ProvTyped DEF sync_admin_password, ProvInv, ProvTypeOK
<1>2. RowsMade' /\ ClientsMade' /\ PasswordMade'
  BY DEF sync_admin_password, ProvInv, ProvTypeOK, RowsMade, ClientsMade, PasswordMade, IdleScript, Written
<1>3. AdminMade' /\ KeypairMade'
  BY DEF sync_admin_password, ProvInv, ProvTypeOK, AdminMade, KeypairMade
<1>4. DemoCounted' /\ PersonMade'
  BY DEF sync_admin_password, ProvInv, ProvTypeOK, DemoCounted, PersonMade, IdleScript
<1>5. Gaps'
  BY DEF sync_admin_password, ProvInv, ProvTypeOK, Gaps, IdleScript
<1> QED
  BY <1>1, <1>2, <1>3, <1>4, <1>5 DEF ProvInv

\* The administrator's role.
LEMMA RoleStep ==
  ASSUME ProvInv, assign_platform_admin_role
  PROVE  ProvInv'
<1>1. ProvTypeOK'
  <2>1. kc' \in [Emails -> Users]
    BY UserTyped DEF assign_platform_admin_role, ProvInv
  <2>2. job' \in Jobs
    BY JobTyped DEF assign_platform_admin_role, ProvInv, Stages
  <2> QED
    BY <2>1, <2>2, ProvTyped DEF assign_platform_admin_role, ProvInv, ProvTypeOK
<1>2. RowsMade' /\ ClientsMade' /\ PasswordMade'
  BY DEF assign_platform_admin_role, ProvInv, ProvTypeOK, RowsMade, ClientsMade, PasswordMade, IdleScript, Written
<1>3. AdminMade' /\ KeypairMade'
  BY DEF assign_platform_admin_role, ProvInv, ProvTypeOK, AdminMade, KeypairMade
<1>4. DemoCounted' /\ PersonMade'
  BY DEF assign_platform_admin_role, ProvInv, ProvTypeOK, DemoCounted, PersonMade, IdleScript
<1>5. Gaps'
  BY DEF assign_platform_admin_role, ProvInv, ProvTypeOK, Gaps, IdleScript
<1> QED
  BY <1>1, <1>2, <1>3, <1>4, <1>5 DEF ProvInv

\* The sentinel.
LEMMA SentinelStep ==
  ASSUME ProvInv, touch_sentinel
  PROVE  ProvInv'
<1>1. ProvTypeOK'
  <2>1. file' \in Files
    BY DEF touch_sentinel, ProvInv, ProvTypeOK, Files
  <2>2. job' \in Jobs
    BY JobTyped DEF touch_sentinel, ProvInv, Stages
  <2> QED
    BY <2>1, <2>2, ProvTyped DEF touch_sentinel, ProvInv, ProvTypeOK
<1>2. RowsMade' /\ ClientsMade' /\ PasswordMade'
  BY DEF touch_sentinel, ProvInv, ProvTypeOK, RowsMade, ClientsMade, PasswordMade, IdleScript, Written
<1>3. AdminMade' /\ KeypairMade'
  BY DEF touch_sentinel, ProvInv, ProvTypeOK, AdminMade, KeypairMade
<1>4. DemoCounted' /\ PersonMade'
  BY DEF touch_sentinel, ProvInv, ProvTypeOK, DemoCounted, PersonMade, IdleScript
<1>5. Gaps'
  BY DEF touch_sentinel, ProvInv, ProvTypeOK, Gaps, IdleScript
<1> QED
  BY <1>1, <1>2, <1>3, <1>4, <1>5 DEF ProvInv

\* The administrator's subject.
LEMMA LinkStep ==
  ASSUME ProvInv, pre_link_operator_oidc_sub
  PROVE  ProvInv'
<1>1. ProvTypeOK'
  <2>1. op' \in [Emails -> OpRows]
    BY OpTyped DEF pre_link_operator_oidc_sub, ProvInv
  <2>2. job' \in Jobs
    BY JobTyped DEF pre_link_operator_oidc_sub, ProvInv, Stages
  <2> QED
    BY <2>1, <2>2, ProvTyped DEF pre_link_operator_oidc_sub, ProvInv, ProvTypeOK
<1>2. RowsMade' /\ ClientsMade' /\ PasswordMade'
  BY DEF pre_link_operator_oidc_sub, ProvInv, ProvTypeOK, RowsMade, ClientsMade, PasswordMade, IdleScript, Written
<1>3. AdminMade' /\ KeypairMade'
  BY DEF pre_link_operator_oidc_sub, ProvInv, ProvTypeOK, AdminMade, KeypairMade
<1>4. DemoCounted' /\ PersonMade'
  BY DEF pre_link_operator_oidc_sub, ProvInv, ProvTypeOK, DemoCounted, PersonMade, IdleScript
<1>5. Gaps'
  BY DEF pre_link_operator_oidc_sub, ProvInv, ProvTypeOK, Gaps, IdleScript
<1> QED
  BY <1>1, <1>2, <1>3, <1>4, <1>5 DEF ProvInv

\* The private key.
LEMMA PrivateKeyStep ==
  ASSUME ProvInv, generate_admin_ui_keypair
  PROVE  ProvInv'
<1>1. ProvTypeOK'
  <2>1. file' \in Files
    <3>1. runs \in 0..Torn
      BY DEF ProvInv, ProvTypeOK, Torn
    <3> QED
      BY <3>1 DEF generate_admin_ui_keypair, ProvInv, ProvTypeOK, Files
  <2>2. job' \in Jobs
    BY JobTyped DEF generate_admin_ui_keypair, ProvInv, Stages
  <2> QED
    BY <2>1, <2>2, ProvTyped DEF generate_admin_ui_keypair, ProvInv, ProvTypeOK
<1>2. RowsMade' /\ ClientsMade' /\ PasswordMade'
  BY DEF generate_admin_ui_keypair, ProvInv, ProvTypeOK, RowsMade, ClientsMade, PasswordMade, IdleScript, Written
<1>3. AdminMade' /\ KeypairMade'
  BY DEF generate_admin_ui_keypair, ProvInv, ProvTypeOK, AdminMade, KeypairMade
<1>4. DemoCounted' /\ PersonMade'
  BY DEF generate_admin_ui_keypair, ProvInv, ProvTypeOK, DemoCounted, PersonMade, IdleScript
<1>5. Gaps'
  BY DEF generate_admin_ui_keypair, ProvInv, ProvTypeOK, Gaps, IdleScript
<1> QED
  BY <1>1, <1>2, <1>3, <1>4, <1>5 DEF ProvInv

\* The public key, on the private key of the same run.
LEMMA PublicKeyStep ==
  ASSUME ProvInv, WritePublicKey
  PROVE  ProvInv'
<1>1. ProvTypeOK'
  <2>1. file' \in Files
    <3>1. runs \in 0..Torn
      BY DEF ProvInv, ProvTypeOK, Torn
    <3> QED
      BY <3>1 DEF WritePublicKey, ProvInv, ProvTypeOK, Files
  <2>2. job' \in Jobs
    BY JobTyped DEF WritePublicKey, ProvInv, Stages
  <2> QED
    BY <2>1, <2>2, ProvTyped DEF WritePublicKey, ProvInv, ProvTypeOK
<1>2. RowsMade' /\ ClientsMade' /\ PasswordMade'
  BY DEF WritePublicKey, ProvInv, ProvTypeOK, RowsMade, ClientsMade, PasswordMade, IdleScript, Written
<1>3. AdminMade' /\ KeypairMade'
  <2>1. runs > 0 /\ runs # Torn /\ runs # 0 /\ file.private = runs
    BY DEF WritePublicKey, ProvInv, ProvTypeOK, KeypairMade, Torn
  <2>2. file'.public = runs /\ file'.private = runs
    BY <2>1 DEF WritePublicKey, ProvInv, ProvTypeOK
  <2>3. AdminMade'
    BY DEF WritePublicKey, ProvInv, ProvTypeOK, AdminMade
  <2> QED
    BY <2>1, <2>2, <2>3 DEF WritePublicKey, ProvInv, ProvTypeOK, KeypairMade
<1>4. DemoCounted' /\ PersonMade'
  BY DEF WritePublicKey, ProvInv, ProvTypeOK, DemoCounted, PersonMade, IdleScript
<1>5. Gaps'
  BY DEF WritePublicKey, ProvInv, ProvTypeOK, Gaps, IdleScript
<1> QED
  BY <1>1, <1>2, <1>3, <1>4, <1>5 DEF ProvInv

\* The demo rows, one insert at a time.
LEMMA DemoStep ==
  ASSUME ProvInv, seed_mock_backend_demo
  PROVE  ProvInv'
<1>0. PICK s \in {"credential", "agent", "grants", "done"} :
        /\ job' = [job EXCEPT !.stage = s]
        /\ job.stage \in {"service", "credential", "agent", "grants"}
        /\ s = "credential" => demo' = [demo EXCEPT !.services = 1] /\ job.stage = "service"
        /\ s = "agent" => demo' = [demo EXCEPT !.credentials = @ + 1] /\ job.stage = "credential"
        /\ s = "grants" => demo' = [demo EXCEPT !.agents = @ + 1] /\ job.stage = "agent"
        /\ s = "done" => demo' = [demo EXCEPT !.grants = @ + 1] /\ job.stage = "grants"
        /\ settled' = (settled \/ s = "done")
  <2>1. CASE job.stage = "service"
    BY <2>1 DEF seed_mock_backend_demo
  <2>2. CASE job.stage = "credential"
    BY <2>2 DEF seed_mock_backend_demo
  <2>3. CASE job.stage = "agent"
    BY <2>3 DEF seed_mock_backend_demo
  <2>4. CASE job.stage = "grants"
    BY <2>4 DEF seed_mock_backend_demo
  <2> QED
    BY <2>1, <2>2, <2>3, <2>4 DEF seed_mock_backend_demo
<1>1. /\ tenant' = tenant /\ op' = op /\ kc' = kc /\ realm' = realm /\ client' = client /\ file' = file
      /\ plan' = plan /\ runs' = runs /\ script' = script /\ cut' = cut
  BY DEF seed_mock_backend_demo
<1>2. /\ job' \in Jobs /\ job'.stage = s /\ job'.left = job.left /\ job'.stale = job.stale
      /\ job'.denied = job.denied /\ job'.lost = job.lost
  BY <1>0 DEF ProvInv, ProvTypeOK, Jobs, Stages
<1>3. demo' \in Demos /\ DemoCounted'
  <2>1. demo \in Demos /\ runs \in 0..MaxRuns
    BY DEF ProvInv, ProvTypeOK, Demos
  <2>2. CASE s = "credential"
    BY <1>0, <1>1, <1>2, <2>1, <2>2 DEF ProvInv, DemoCounted, Demos
  <2>3. CASE s = "agent"
    BY <1>0, <1>1, <1>2, <2>1, <2>3 DEF ProvInv, DemoCounted, Demos
  <2>4. CASE s = "grants"
    BY <1>0, <1>1, <1>2, <2>1, <2>4 DEF ProvInv, DemoCounted, Demos
  <2>5. CASE s = "done"
    BY <1>0, <1>1, <1>2, <2>1, <2>5 DEF ProvInv, DemoCounted, Demos
  <2> QED
    BY <2>2, <2>3, <2>4, <2>5
<1>4. ProvTypeOK'
  BY <1>0, <1>1, <1>2, <1>3, ProvTyped DEF ProvInv, ProvTypeOK
<1>5. RowsMade' /\ ClientsMade' /\ PasswordMade'
  BY <1>0, <1>1, <1>2 DEF ProvInv, RowsMade, ClientsMade, PasswordMade, Written
<1>6. AdminMade' /\ KeypairMade'
  BY <1>0, <1>1, <1>2 DEF ProvInv, AdminMade, KeypairMade
<1>7. PersonMade' /\ Gaps'
  BY <1>0, <1>1, <1>2 DEF ProvInv, PersonMade, Gaps
<1> QED
  BY <1>3, <1>4, <1>5, <1>6, <1>7 DEF ProvInv

\* The job stops.
LEMMA JobStopsStep ==
  ASSUME ProvInv, JobStops
  PROVE  ProvInv'
<1>1. /\ tenant' = tenant /\ op' = op /\ kc' = kc /\ realm' = realm /\ client' = client /\ demo' = demo
      /\ plan' = plan /\ runs' = runs /\ script' = script /\ settled' = settled
      /\ job.stage \notin {"idle", "done"}
  BY DEF JobStops
<1>2. /\ job \in Jobs /\ job' \in Jobs /\ job'.stage = "idle" /\ job'.stale = job.stale
      /\ job.lost => job'.lost
      /\ job.stage \in {"membership", "password_file"} => job'.lost
  BY DEF JobStops, ProvInv, ProvTypeOK, Jobs, Stages
<1>3. cut' \in SUBSET Emails /\ cut \subseteq cut'
      /\ (job.stage \in {"membership", "password_file"} => Admin \in cut')
  BY DEF JobStops, ProvInv, ProvTypeOK
<1>4. /\ file \in Files /\ file' \in Files /\ file'.handed = file.handed /\ file'.synced = file.synced
      /\ file'.secret = file.secret /\ file'.cookie = file.cookie
      /\ file'.pw # file.pw => job.stage = "password_file" /\ file'.pw = "torn"
      /\ file'.private # file.private => job.stage = "private"
      /\ file'.public # file.public => job.stage = "public" /\ file'.public = Torn
  <2>1. file \in Files
    BY DEF ProvInv, ProvTypeOK, Files
  <2>2. CASE file' = file
    BY <2>1, <2>2
  <2>3. CASE file' = TornFile
    <3>1. CASE job.stage = "password_file" /\ file.pw # "whole"
      <4>1. TornFile = [file EXCEPT !.pw = "torn"]
        BY <3>1 DEF TornFile
      <4> QED
        BY <2>1, <2>3, <3>1, <4>1 DEF Files
    <3>2. CASE job.stage = "private"
      <4>1. TornFile = [file EXCEPT !.private = Torn]
        BY <3>2 DEF TornFile
      <4> QED
        BY <2>1, <2>3, <3>2, <4>1 DEF Files, Torn
    <3>3. CASE job.stage = "public"
      <4>1. TornFile = [file EXCEPT !.public = Torn]
        BY <3>3 DEF TornFile
      <4> QED
        BY <2>1, <2>3, <3>3, <4>1 DEF Files, Torn
    <3>4. CASE ~(job.stage = "password_file" /\ file.pw # "whole") /\ job.stage \notin {"private", "public"}
      <4>1. TornFile = file
        BY <3>4 DEF TornFile
      <4> QED
        BY <2>1, <2>3, <4>1
    <3> QED
      BY <3>1, <3>2, <3>3, <3>4
  <2> QED
    BY <2>2, <2>3 DEF JobStops
<1>5. ProvTypeOK'
  BY <1>1, <1>2, <1>3, <1>4, ProvTyped DEF ProvInv, ProvTypeOK
<1>6. RowsMade' /\ ClientsMade'
  BY <1>1, <1>2, <1>4 DEF ProvInv, RowsMade, ClientsMade, Written
<1>7. PasswordMade' /\ AdminMade'
  BY <1>1, <1>2, <1>4 DEF ProvInv, PasswordMade, AdminMade
<1>8. KeypairMade' /\ DemoCounted'
  <2>1. runs \in 0..MaxRuns
    BY DEF ProvInv, ProvTypeOK
  <2> QED
    BY <1>1, <1>2, <1>4, <2>1 DEF ProvInv, KeypairMade, DemoCounted, Torn
<1>9. PersonMade' /\ Gaps'
  BY <1>1, <1>2, <1>3, <1>4 DEF ProvInv, PersonMade, Gaps
<1> QED
  BY <1>5, <1>6, <1>7, <1>8, <1>9 DEF ProvInv

\* The script's user.
LEMMA ScriptUserStep ==
  ASSUME ProvInv, ensure_kc_user
  PROVE  ProvInv'
<1>1. ProvTypeOK'
  <2>1. kc' \in [Emails -> Users]
    BY UserTyped DEF ensure_kc_user, ProvInv
  <2>2. script' \in Scripts
    BY ScriptTyped DEF ensure_kc_user, ProvInv, ScriptStages, ProvTypeOK
  <2> QED
    BY <2>1, <2>2, ProvTyped DEF ensure_kc_user, ProvInv, ProvTypeOK
<1>2. RowsMade' /\ ClientsMade' /\ PasswordMade'
  BY DEF ensure_kc_user, ProvInv, ProvTypeOK, RowsMade, ClientsMade, PasswordMade, IdleScript, Written
<1>3. AdminMade' /\ KeypairMade'
  BY DEF ensure_kc_user, ProvInv, ProvTypeOK, AdminMade, KeypairMade
<1>4. DemoCounted' /\ PersonMade'
  BY DEF ensure_kc_user, ProvInv, ProvTypeOK, DemoCounted, PersonMade, IdleScript
<1>5. Gaps'
  <2>1. script \in Scripts /\ script.email \in Emails /\ script # IdleScript /\ script.stage = "user"
    BY ScriptTyped DEF ensure_kc_user, ProvInv, Scripts
  <2>2. /\ script' \in Scripts /\ script' # IdleScript /\ script'.email = script.email
        /\ script'.stage = "password" /\ script'.created = ~kc[script.email].user
    BY <2>1 DEF ensure_kc_user, Scripts, ScriptStages, IdleScript, ProvInv, ProvTypeOK
  <2>3. \A e \in Emails : /\ kc'[e].pw = kc[e].pw
                          /\ e # script.email => kc'[e] = kc[e]
    BY <2>1 DEF ensure_kc_user, ProvInv, ProvTypeOK
  <2> QED
    BY <2>1, <2>2, <2>3 DEF ensure_kc_user, ProvInv, Gaps
<1> QED
  BY <1>1, <1>2, <1>3, <1>4, <1>5 DEF ProvInv

\* The script's password.
LEMMA ScriptPasswordStep ==
  ASSUME ProvInv, set_kc_password
  PROVE  ProvInv'
<1>1. ProvTypeOK'
  <2>1. kc' \in [Emails -> Users]
    BY UserTyped DEF set_kc_password, ProvInv
  <2>2. script' \in Scripts
    BY ScriptTyped DEF set_kc_password, ProvInv, ScriptStages
  <2> QED
    BY <2>1, <2>2, ProvTyped DEF set_kc_password, ProvInv, ProvTypeOK
<1>2. RowsMade' /\ ClientsMade' /\ PasswordMade'
  BY DEF set_kc_password, ProvInv, ProvTypeOK, RowsMade, ClientsMade, PasswordMade, IdleScript, Written
<1>3. AdminMade' /\ KeypairMade'
  BY DEF set_kc_password, ProvInv, ProvTypeOK, AdminMade, KeypairMade
<1>4. DemoCounted' /\ PersonMade'
  BY DEF set_kc_password, ProvInv, ProvTypeOK, DemoCounted, PersonMade, IdleScript
<1>5. Gaps'
  BY DEF set_kc_password, ProvInv, ProvTypeOK, Gaps, IdleScript
<1> QED
  BY <1>1, <1>2, <1>3, <1>4, <1>5 DEF ProvInv

\* The script's role.
LEMMA ScriptRoleStep ==
  ASSUME ProvInv, ensure_platform_admin_role
  PROVE  ProvInv'
<1>1. ProvTypeOK'
  <2>1. kc' \in [Emails -> Users]
    BY UserTyped DEF ensure_platform_admin_role, ProvInv
  <2>2. script' \in Scripts
    BY ScriptTyped DEF ensure_platform_admin_role, ProvInv, ScriptStages
  <2> QED
    BY <2>1, <2>2, ProvTyped DEF ensure_platform_admin_role, ProvInv, ProvTypeOK
<1>2. RowsMade' /\ ClientsMade' /\ PasswordMade'
  BY DEF ensure_platform_admin_role, ProvInv, ProvTypeOK, RowsMade, ClientsMade, PasswordMade, IdleScript, Written
<1>3. AdminMade' /\ KeypairMade'
  BY DEF ensure_platform_admin_role, ProvInv, ProvTypeOK, AdminMade, KeypairMade
<1>4. DemoCounted' /\ PersonMade'
  BY DEF ensure_platform_admin_role, ProvInv, ProvTypeOK, DemoCounted, PersonMade, IdleScript
<1>5. Gaps'
  BY DEF ensure_platform_admin_role, ProvInv, ProvTypeOK, Gaps, IdleScript
<1> QED
  BY <1>1, <1>2, <1>3, <1>4, <1>5 DEF ProvInv

\* The script's row.
LEMMA ScriptRowStep ==
  ASSUME ProvInv, ensure_operator_row
  PROVE  ProvInv'
<1>1. ProvTypeOK'
  <2>1. op' \in [Emails -> OpRows]
    BY OpTyped DEF ensure_operator_row, ProvInv
  <2>2. script' \in Scripts
    BY ScriptTyped DEF ensure_operator_row, ProvInv, ScriptStages
  <2> QED
    BY <2>1, <2>2, ProvTyped DEF ensure_operator_row, ProvInv, ProvTypeOK
<1>2. RowsMade' /\ ClientsMade' /\ PasswordMade'
  <2>1. op[Admin].row
    BY ScriptTyped DEF ensure_operator_row, ProvInv, RowsMade
  <2>2. op'[Admin].row /\ (op[Admin].member => op'[Admin].member)
    <3>1. script.email \in Emails
      BY ScriptTyped DEF ensure_operator_row, ProvInv, Scripts
    <3>2. op' = [op EXCEPT ![script.email].row = TRUE] /\ op \in [Emails -> OpRows]
      BY OpTyped DEF ensure_operator_row, ProvInv
    <3> QED
      BY <2>1, <3>1, <3>2 DEF OpRows
  <2>3. /\ file' = file /\ job' = job /\ tenant' = tenant /\ realm' = realm /\ client' = client
        /\ settled' = settled
    BY DEF ensure_operator_row
  <2> QED
    BY <2>1, <2>2, <2>3 DEF ProvInv, RowsMade, ClientsMade, PasswordMade, Written
<1>3. AdminMade' /\ KeypairMade'
  BY DEF ensure_operator_row, ProvInv, ProvTypeOK, AdminMade, KeypairMade
<1>4. DemoCounted' /\ PersonMade'
  BY DEF ensure_operator_row, ProvInv, ProvTypeOK, DemoCounted, PersonMade, IdleScript
<1>5. Gaps'
  BY DEF ensure_operator_row, ProvInv, ProvTypeOK, Gaps, IdleScript
<1> QED
  BY <1>1, <1>2, <1>3, <1>4, <1>5 DEF ProvInv

\* The script's membership.
LEMMA ScriptMemberStep ==
  ASSUME ProvInv, ensure_membership_row
  PROVE  ProvInv'
<1>1. ProvTypeOK'
  <2>1. op' \in [Emails -> OpRows]
    BY OpTyped DEF ensure_membership_row, ProvInv
  <2>2. script' \in Scripts
    BY ScriptTyped DEF ensure_membership_row, ProvInv, ScriptStages
  <2> QED
    BY <2>1, <2>2, ProvTyped DEF ensure_membership_row, ProvInv, ProvTypeOK
<1>2. RowsMade' /\ ClientsMade' /\ PasswordMade'
  BY DEF ensure_membership_row, ProvInv, ProvTypeOK, RowsMade, ClientsMade, PasswordMade, IdleScript, Written
<1>3. AdminMade' /\ KeypairMade'
  BY DEF ensure_membership_row, ProvInv, ProvTypeOK, AdminMade, KeypairMade
<1>4. DemoCounted' /\ PersonMade'
  BY DEF ensure_membership_row, ProvInv, ProvTypeOK, DemoCounted, PersonMade, IdleScript
<1>5. Gaps'
  BY DEF ensure_membership_row, ProvInv, ProvTypeOK, Gaps, IdleScript
<1> QED
  BY <1>1, <1>2, <1>3, <1>4, <1>5 DEF ProvInv

\* The script ends, or is stopped.
LEMMA ScriptEndsStep ==
  ASSUME ProvInv, ScriptEnds
  PROVE  ProvInv'
<1>1. ProvTypeOK'
  <2> QED
    BY ProvTyped DEF ScriptEnds, ProvInv, ProvTypeOK
<1>2. RowsMade' /\ ClientsMade' /\ PasswordMade'
  BY DEF ScriptEnds, ProvInv, ProvTypeOK, RowsMade, ClientsMade, PasswordMade, IdleScript, Written
<1>3. AdminMade' /\ KeypairMade'
  BY DEF ScriptEnds, ProvInv, ProvTypeOK, AdminMade, KeypairMade
<1>4. DemoCounted' /\ PersonMade'
  BY DEF ScriptEnds, ProvInv, ProvTypeOK, DemoCounted, PersonMade, IdleScript
<1>5. Gaps'
  BY DEF ScriptEnds, ProvInv, ProvTypeOK, Gaps, IdleScript
<1> QED
  BY <1>1, <1>2, <1>3, <1>4, <1>5 DEF ProvInv

\* A client's secret file.
LEMMA SecretFileStep ==
  ASSUME ProvInv, NEW c \in Clients, write_client_secrets(c)
  PROVE  ProvInv'
<1>1. ProvTypeOK'
  <2>1. file' \in Files
    BY DEF write_client_secrets, ProvInv, ProvTypeOK, Files
  <2>2. job' \in Jobs
    BY EachTyped DEF write_client_secrets, ProvInv, Stages
  <2> QED
    BY <2>1, <2>2, ProvTyped DEF write_client_secrets, ProvInv, ProvTypeOK
<1>2. RowsMade' /\ ClientsMade' /\ PasswordMade'
  BY DEF write_client_secrets, ProvInv, ProvTypeOK, RowsMade, ClientsMade, PasswordMade, IdleScript, Each, Written
<1>3. AdminMade' /\ KeypairMade'
  BY DEF write_client_secrets, ProvInv, ProvTypeOK, AdminMade, KeypairMade, Each
<1>4. DemoCounted' /\ PersonMade'
  BY DEF write_client_secrets, ProvInv, ProvTypeOK, DemoCounted, PersonMade, Each, IdleScript
<1>5. Gaps'
  BY DEF write_client_secrets, ProvInv, ProvTypeOK, Gaps, Each, IdleScript
<1> QED
  BY <1>1, <1>2, <1>3, <1>4, <1>5 DEF ProvInv

\* A client's PKCE setting.
LEMMA PkceStep ==
  ASSUME ProvInv, NEW c \in Clients, enforce_pkce_on_clients(c)
  PROVE  ProvInv'
<1>1. ProvTypeOK'
  <2>1. client' \in [Clients -> Setups]
    BY ClientTyped DEF enforce_pkce_on_clients, ProvInv
  <2>2. job' \in Jobs
    BY EachTyped DEF enforce_pkce_on_clients, ProvInv, Stages
  <2> QED
    BY <2>1, <2>2, ProvTyped DEF enforce_pkce_on_clients, ProvInv, ProvTypeOK
<1>2. RowsMade' /\ ClientsMade' /\ PasswordMade'
  BY DEF enforce_pkce_on_clients, ProvInv, ProvTypeOK, RowsMade, ClientsMade, PasswordMade, IdleScript, Each, Written
<1>3. AdminMade' /\ KeypairMade'
  BY DEF enforce_pkce_on_clients, ProvInv, ProvTypeOK, AdminMade, KeypairMade, Each
<1>4. DemoCounted' /\ PersonMade'
  BY DEF enforce_pkce_on_clients, ProvInv, ProvTypeOK, DemoCounted, PersonMade, Each, IdleScript
<1>5. Gaps'
  BY DEF enforce_pkce_on_clients, ProvInv, ProvTypeOK, Gaps, Each, IdleScript
<1> QED
  BY <1>1, <1>2, <1>3, <1>4, <1>5 DEF ProvInv

\* A client's redirect URIs.
LEMMA UrisStep ==
  ASSUME ProvInv, NEW c \in Clients, patch_keycloak_client_redirect_uris(c)
  PROVE  ProvInv'
<1>1. ProvTypeOK'
  <2>1. client' \in [Clients -> Setups]
    BY ClientTyped DEF patch_keycloak_client_redirect_uris, ProvInv
  <2>2. job' \in Jobs
    BY EachTyped DEF patch_keycloak_client_redirect_uris, ProvInv, Stages
  <2> QED
    BY <2>1, <2>2, ProvTyped DEF patch_keycloak_client_redirect_uris, ProvInv, ProvTypeOK
<1>2. RowsMade' /\ ClientsMade' /\ PasswordMade'
  BY DEF patch_keycloak_client_redirect_uris, ProvInv, ProvTypeOK, RowsMade, ClientsMade, PasswordMade, IdleScript, Each, Written
<1>3. AdminMade' /\ KeypairMade'
  BY DEF patch_keycloak_client_redirect_uris, ProvInv, ProvTypeOK, AdminMade, KeypairMade, Each
<1>4. DemoCounted' /\ PersonMade'
  BY DEF patch_keycloak_client_redirect_uris, ProvInv, ProvTypeOK, DemoCounted, PersonMade, Each, IdleScript
<1>5. Gaps'
  BY DEF patch_keycloak_client_redirect_uris, ProvInv, ProvTypeOK, Gaps, Each, IdleScript
<1> QED
  BY <1>1, <1>2, <1>3, <1>4, <1>5 DEF ProvInv

\* A new secret in Keycloak.
LEMMA RegenerateStep ==
  ASSUME ProvInv, NEW c \in Clients, RegenerateSecret(c)
  PROVE  ProvInv'
<1>1. ProvTypeOK'
  <2>1. client' \in [Clients -> Setups]
    BY ClientTyped DEF RegenerateSecret, ProvInv
  <2>2. job' \in Jobs
    BY JobTyped DEF RegenerateSecret, ProvInv, ProvTypeOK, Jobs
  <2> QED
    BY <2>1, <2>2, ProvTyped DEF RegenerateSecret, ProvInv, ProvTypeOK
<1>2. RowsMade' /\ ClientsMade' /\ PasswordMade'
  BY DEF RegenerateSecret, ProvInv, ProvTypeOK, RowsMade, ClientsMade, PasswordMade, IdleScript, Written
<1>3. AdminMade' /\ KeypairMade'
  BY DEF RegenerateSecret, ProvInv, ProvTypeOK, AdminMade, KeypairMade
<1>4. DemoCounted' /\ PersonMade'
  BY DEF RegenerateSecret, ProvInv, ProvTypeOK, DemoCounted, PersonMade, IdleScript
<1>5. Gaps'
  BY DEF RegenerateSecret, ProvInv, ProvTypeOK, Gaps, IdleScript
<1> QED
  BY <1>1, <1>2, <1>3, <1>4, <1>5 DEF ProvInv

\* The script begins.
LEMMA StartScriptStep ==
  ASSUME ProvInv, NEW e \in Emails, StartScript(e)
  PROVE  ProvInv'
<1>1. ProvTypeOK'
  <2>1. script' \in Scripts
    BY DEF StartScript, Scripts, ScriptStages
  <2> QED
    BY <2>1, ProvTyped DEF StartScript, ProvInv, ProvTypeOK
<1>2. RowsMade' /\ ClientsMade' /\ PasswordMade'
  BY DEF StartScript, ProvInv, ProvTypeOK, RowsMade, ClientsMade, PasswordMade, IdleScript, Written
<1>3. AdminMade' /\ KeypairMade'
  BY DEF StartScript, ProvInv, ProvTypeOK, AdminMade, KeypairMade
<1>4. DemoCounted' /\ PersonMade'
  BY DEF StartScript, ProvInv, ProvTypeOK, DemoCounted, PersonMade, IdleScript
<1>5. Gaps'
  BY DEF StartScript, ProvInv, ProvTypeOK, Gaps, IdleScript
<1> QED
  BY <1>1, <1>2, <1>3, <1>4, <1>5 DEF ProvInv

\* POST /v1/operators.
LEMMA EndpointStep ==
  ASSUME ProvInv, NEW e \in Emails, create_operator(e)
  PROVE  ProvInv'
<1>1. ProvTypeOK'
  <2>1. op' \in [Emails -> OpRows]
    BY OpTyped DEF create_operator, ProvInv
  <2> QED
    BY <2>1, ProvTyped DEF create_operator, ProvInv, ProvTypeOK
<1>2. RowsMade' /\ ClientsMade' /\ PasswordMade'
  <2>1. op[Admin].row
    BY DEF create_operator, ProvInv, RowsMade
  <2>2. op'[Admin].row /\ (op[Admin].member => op'[Admin].member)
    BY <2>1 DEF create_operator, ProvInv, ProvTypeOK
  <2>3. /\ file' = file /\ job' = job /\ tenant' = tenant /\ realm' = realm /\ client' = client
        /\ settled' = settled
    BY DEF create_operator
  <2> QED
    BY <2>1, <2>2, <2>3 DEF ProvInv, RowsMade, ClientsMade, PasswordMade, Written
<1>3. AdminMade' /\ KeypairMade'
  BY DEF create_operator, ProvInv, ProvTypeOK, AdminMade, KeypairMade
<1>4. DemoCounted' /\ PersonMade'
  BY DEF create_operator, ProvInv, ProvTypeOK, DemoCounted, PersonMade, IdleScript
<1>5. Gaps'
  BY DEF create_operator, ProvInv, ProvTypeOK, Gaps, IdleScript
<1> QED
  BY <1>1, <1>2, <1>3, <1>4, <1>5 DEF ProvInv

\* A login links the row.
LEMMA LoginStep ==
  ASSUME ProvInv, NEW e \in Emails, lookup_operator_by_oidc_sub(e)
  PROVE  ProvInv'
<1>1. ProvTypeOK'
  <2>1. op' \in [Emails -> OpRows]
    BY OpTyped DEF lookup_operator_by_oidc_sub, ProvInv
  <2> QED
    BY <2>1, ProvTyped DEF lookup_operator_by_oidc_sub, ProvInv, ProvTypeOK
<1>2. RowsMade' /\ ClientsMade' /\ PasswordMade'
  BY DEF lookup_operator_by_oidc_sub, ProvInv, ProvTypeOK, RowsMade, ClientsMade, PasswordMade, IdleScript, Written
<1>3. AdminMade' /\ KeypairMade'
  BY DEF lookup_operator_by_oidc_sub, ProvInv, ProvTypeOK, AdminMade, KeypairMade
<1>4. DemoCounted' /\ PersonMade'
  BY DEF lookup_operator_by_oidc_sub, ProvInv, ProvTypeOK, DemoCounted, PersonMade, IdleScript
<1>5. Gaps'
  BY DEF lookup_operator_by_oidc_sub, ProvInv, ProvTypeOK, Gaps, IdleScript
<1> QED
  BY <1>1, <1>2, <1>3, <1>4, <1>5 DEF ProvInv

\* A person chooses a password.
LEMMA PasswordStep ==
  ASSUME ProvInv, NEW e \in Emails, ChangePassword(e)
  PROVE  ProvInv'
<1>1. ProvTypeOK'
  <2>1. kc' \in [Emails -> Users]
    BY UserTyped DEF ChangePassword, ProvInv
  <2> QED
    BY <2>1, ProvTyped DEF ChangePassword, ProvInv, ProvTypeOK
<1>2. RowsMade' /\ ClientsMade' /\ PasswordMade'
  BY DEF ChangePassword, ProvInv, ProvTypeOK, RowsMade, ClientsMade, PasswordMade, IdleScript, Written
<1>3. AdminMade' /\ KeypairMade'
  BY DEF ChangePassword, ProvInv, ProvTypeOK, AdminMade, KeypairMade
<1>4. DemoCounted' /\ PersonMade'
  BY DEF ChangePassword, ProvInv, ProvTypeOK, DemoCounted, PersonMade, IdleScript
<1>5. Gaps'
  BY DEF ChangePassword, ProvInv, ProvTypeOK, Gaps, IdleScript
<1> QED
  BY <1>1, <1>2, <1>3, <1>4, <1>5 DEF ProvInv

\* The invariant holds in an empty deployment.
LEMMA ProvStarts == ProvInit => ProvInv
<1> SUFFICES ASSUME ProvInit PROVE ProvInv
  OBVIOUS
<1>1. ProvTypeOK
  <2>1. op \in [Emails -> OpRows] /\ kc \in [Emails -> Users]
    BY DEF ProvInit, OpRows, Users
  <2>2. client \in [Clients -> Setups] /\ demo \in Demos
    BY DEF ProvInit, Setups, Demos
  <2>3. file \in Files
    <3>1. 0 \in 0..Torn
      BY DEF Torn
    <3> QED
      BY <3>1 DEF ProvInit, Files
  <2>4. job \in Jobs
    BY DEF ProvInit, Jobs, Stages
  <2> QED
    BY <2>1, <2>2, <2>3, <2>4 DEF ProvInit, ProvTypeOK, OpRows, Users, Setups, Demos, Files, Jobs
<1>2. RowsMade /\ ClientsMade /\ PasswordMade /\ AdminMade
  BY DEF ProvInit, RowsMade, ClientsMade, PasswordMade, AdminMade
<1>3. KeypairMade /\ DemoCounted
  BY DEF ProvInit, KeypairMade, DemoCounted
<1>4. PersonMade /\ Gaps
  BY DEF ProvInit, PersonMade, Gaps
<1> QED
  BY <1>1, <1>2, <1>3, <1>4 DEF ProvInv

\* Every step keeps the invariant.
LEMMA ProvKept == ProvInv /\ [ProvNext]_provVars => ProvInv'
<1> SUFFICES ASSUME ProvInv, [ProvNext]_provVars PROVE ProvInv'
  OBVIOUS
<1>1. CASE SeedJob
  BY <1>1, MainStep, TenantStep, ChainStateStep, OperatorStep, MembershipStep, PasswordFileStep,
     HandOverStep, RealmStep, SecretFileStep, PkceStep, UrisStep, CookieStep, AdminUserStep, SyncStep,
     RoleStep, SentinelStep, LinkStep, PrivateKeyStep, PublicKeyStep, DemoStep, JobStopsStep DEF SeedJob
<1>2. CASE Script
  BY <1>2, StartScriptStep, ScriptUserStep, ScriptPasswordStep, ScriptRoleStep, ScriptRowStep,
     ScriptMemberStep, ScriptEndsStep DEF Script
<1>3. ASSUME NEW e \in Emails, create_operator(e) \/ lookup_operator_by_oidc_sub(e) \/ ChangePassword(e)
      PROVE  ProvInv'
  BY <1>3, EndpointStep, LoginStep, PasswordStep
<1>4. ASSUME NEW c \in Clients, RegenerateSecret(c) PROVE ProvInv'
  BY <1>4, RegenerateStep
<1>5. CASE UNCHANGED provVars
  <2>1. /\ tenant' = tenant /\ op' = op /\ kc' = kc /\ realm' = realm /\ client' = client /\ file' = file
        /\ demo' = demo /\ job' = job /\ runs' = runs /\ script' = script /\ cut' = cut
        /\ settled' = settled /\ plan' = plan
    BY <1>5 DEF provVars
  <2> QED
    BY <2>1 DEF ProvInv, ProvTypeOK, RowsMade, ClientsMade, Written, PasswordMade, AdminMade, KeypairMade,
                DemoCounted, PersonMade, Gaps
<1> QED
  BY <1>1, <1>2, <1>3, <1>4, <1>5 DEF ProvNext

\* The invariant holds in every reachable state.
LEMMA ProvAlways == ProvSpec => []ProvInv
  BY ProvStarts, ProvKept, PTL DEF ProvSpec

-----------------------------------------------------------------------------
(* The theorems about provisioning.                                        *)

\* For any number of runs, people, clients and secrets: wherever earlier runs
\* of the seed job stopped, and whatever the script, the endpoint, Keycloak and
\* the people did in between, a run that ends leaves what its consumers read,
\* with the three exceptions SeedRepairs names: a public key torn by a stop, a
\* chown this run was denied, and no password file after a stop between the
\* operator's row and that file.
THEOREM SeedJobRepairs == ProvSpec => []SeedRepairs
<1>1. ProvInv => SeedRepairs
  <2> SUFFICES ASSUME ProvInv, job.stage = "done" PROVE SeedRepairs
    BY DEF SeedRepairs
  <2>1. /\ tenant = "both" /\ realm /\ op[Admin].row
        /\ \A c \in Clients : client[c].pkce /\ client[c].uris = "public" /\ Written(c)
    BY DEF ProvInv, RowsMade, ClientsMade
  <2>2. kc[Admin].user /\ kc[Admin].role /\ file.cookie = "valid"
    BY DEF ProvInv, AdminMade
  <2>3. file.private \notin {0, Torn} /\ file.public \in {file.private, Torn}
    BY DEF ProvInv, KeypairMade
  <2>4. CASE file.pw = "none"
    <3>1. job.lost
      BY <2>1, <2>4 DEF ProvInv, PasswordMade
    <3> QED
      BY <2>1, <2>2, <2>3, <2>4, <3>1 DEF SeedRepairs, Written
  <2>5. CASE file.pw # "none"
    <3>1. file.pw = "whole" /\ op[Admin].member
      BY <2>5 DEF ProvInv, ProvTypeOK, PasswordMade
    <3>2. (file.handed \/ job.denied) /\ kc[Admin].pw # "none"
      BY <2>5 DEF ProvInv, AdminMade
    <3> QED
      BY <2>1, <2>2, <2>3, <3>1, <3>2 DEF SeedRepairs, Written
  <2> QED
    BY <2>4, <2>5
<1> QED
  BY <1>1, ProvAlways, PTL

\* An operator is half made only while a run is about to make the other half,
\* or because a run was stopped just there, and a run of create_operator.py
\* that ends leaves the user and both rows.
THEOREM OperatorsStayConsistent == ProvSpec => []OperatorsConsistent
<1>1. ProvInv => OperatorsConsistent
  <2> SUFFICES ASSUME ProvInv PROVE OperatorsConsistent
    OBVIOUS
  <2>1. NoSilentGap
    <3>1. kc[Admin].pw = "none" => file.pw # "whole" \/ ~file.synced
      BY DEF ProvInv, AdminMade
    <3> QED
      BY <3>1 DEF ProvInv, Gaps, NoSilentGap
  <2>2. ScriptCompletes
    <3> SUFFICES ASSUME script.stage = "done"
                 PROVE  /\ op[script.email].row /\ op[script.email].member
                        /\ kc[script.email].user /\ (script.admin => kc[script.email].role)
      BY DEF ScriptCompletes
    <3> QED
      BY ScriptTyped DEF ProvInv, PersonMade
  <2> QED
    BY <2>1, <2>2 DEF ProvInv, OperatorsConsistent
<1> QED
  BY <1>1, ProvAlways, PTL

\* Once a seed job has ended, no run of it sets a chosen password back, and
\* create_operator.py does so only when asked to or while it creates that user.
THEOREM ChosenPasswordsKept == ProvSpec => ChosenPasswordKept
<1> DEFINE Kept == \A e \in Emails : (settled /\ kc[e].pw = "own" /\ kc'[e].pw # "own") =>
                     script # IdleScript /\ (script.reset \/ script.created)
<1>1. ProvInv /\ [ProvNext]_provVars => [Kept]_provVars
  <2> SUFFICES ASSUME ProvInv, ProvNext PROVE Kept
    BY DEF provVars
  <2>1. CASE UNCHANGED kc
    BY <2>1
  <2>0. ASSUME NEW e \in Emails,
               kc' = [kc EXCEPT ![e].user = TRUE] \/ kc' = [kc EXCEPT ![e].role = TRUE]
        PROVE  Kept
    <3>1. \A d \in Emails : kc'[d].pw = kc[d].pw
      <4>1. kc \in [Emails -> Users]
        BY UserTyped DEF ProvInv
      <4>2. kc'[e].pw = kc[e].pw /\ \A d \in Emails \ {e} : kc'[d] = kc[d]
        BY <2>0, <4>1 DEF Users
      <4> QED
        BY <4>2
    <3> QED
      BY <3>1
  <2>2. CASE ensure_admin_user \/ assign_platform_admin_role
    BY <2>0, <2>2 DEF ensure_admin_user, assign_platform_admin_role
  <2>3. CASE sync_admin_password
    BY <2>3 DEF sync_admin_password, ProvInv, AdminMade, ProvTypeOK
  <2>4. CASE ensure_kc_user \/ set_kc_password \/ ensure_platform_admin_role
    <3>1. script # IdleScript /\ script.email \in Emails
      BY <2>4, ScriptTyped DEF ensure_kc_user, set_kc_password, ensure_platform_admin_role, ProvInv, Scripts
    <3>2. CASE ensure_kc_user \/ ensure_platform_admin_role
      BY <2>0, <2>1, <3>1, <3>2 DEF ensure_kc_user, ensure_platform_admin_role
    <3>3. CASE set_kc_password
      BY <3>1, <3>3 DEF set_kc_password, ProvInv, ProvTypeOK
    <3> QED
      BY <2>4, <3>2, <3>3
  <2>5. ASSUME NEW e \in Emails, ChangePassword(e) PROVE Kept
    BY <2>5 DEF ChangePassword, ProvInv, ProvTypeOK
  <2> QED
    BY <2>1, <2>2, <2>3, <2>4, <2>5 DEF ProvNext, SeedJob, Script, main, seed_default_tenant,
       seed_audit_chain_state, seed_bootstrap_operator, SeedMembership, ensure_admin_password_file,
       hand_admin_password_to_admin_ui, ensure_realm, write_client_secrets, enforce_pkce_on_clients,
       patch_keycloak_client_redirect_uris, ensure_jaeger_cookie_secret, touch_sentinel,
       pre_link_operator_oidc_sub, generate_admin_ui_keypair, WritePublicKey, seed_mock_backend_demo,
       JobStops, StartScript, ensure_operator_row, ensure_membership_row, ScriptEnds, create_operator,
       lookup_operator_by_oidc_sub, RegenerateSecret
<1> QED
  BY <1>1, ProvAlways, PTL DEF ProvSpec, ChosenPasswordKept
=============================================================================
