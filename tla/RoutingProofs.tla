---------------------------- MODULE RoutingProofs ----------------------------
(***************************************************************************)
(* Machine-checked proofs about Routing, for any sets of addresses, auth   *)
(* schemes and overlapping admin-api requests.                             *)
(***************************************************************************)
EXTENDS Routing, TLAPS

-----------------------------------------------------------------------------
(* The inductive invariant.                                                *)

ReqType == [kind : {"idle", "update", "credential"}, stage : {"idle", "write", "carry", "put"},
            url : Urls \cup {None}, scheme : Schemes \cup {None}, addr : Urls \cup {None},
            effective : Schemes \cup {None}, moved : BOOLEAN, bad : BOOLEAN]

\* Before create_service nothing is stored and nothing runs.
NothingBefore == ~made => svc = None /\ current = None /\ req = [r \in Requests |-> Idle]

\* A request about a credential knows its scheme and an address; the address is
\* the service's, unless update_service has changed that one since.
ReadUrl(q) ==
  q.kind = "credential" =>
    /\ q.url \in Urls /\ q.scheme \in Schemes
    /\ svc # None /\ ~q.moved => q.url = svc.url

\* An address for an SSH service that nothing spoils is the service's: the one
\* of the current version, and the one a request brings or has carried over.
InSync(scheme, addr) == (addr = None /\ ~Ssh(scheme)) \/ addr = svc.url

CurrentInSync == svc # None /\ current # None /\ ~drift => InSync(current.scheme, current.addr)

BroughtInSync(q) ==
  q.kind = "credential" /\ svc # None /\ ~q.moved /\ ~q.bad =>
    /\ q.stage = "carry" => q.addr = None \/ q.addr = svc.url
    /\ q.stage = "put" /\ ~drift => InSync(q.scheme, q.addr)

RequestInv == \A r \in Requests : ReadUrl(req[r]) /\ BroughtInSync(req[r])

IInv == TypeOK /\ PatchKeeps /\ HttpRoute /\ NothingBefore /\ RequestInv /\ CurrentInSync

-----------------------------------------------------------------------------
(* Requests.                                                               *)

\* None is neither an address nor a scheme, row nor version.
LEMMA NoneApart == None \notin Urls /\ None \notin Schemes
  BY RoutingAssumption

\* The fields of a request that is not there.
LEMMA IdleType ==
  /\ Idle \in ReqType /\ Idle.kind = "idle" /\ Idle.stage = "idle" /\ Idle.url = None
  /\ Idle.scheme = None /\ Idle.addr = None /\ Idle.effective = None /\ Idle.moved = FALSE
  /\ Idle.bad = FALSE
  BY DEF Idle, ReqType

\* A request begins; the others stay where they are.
LEMMA BeginStep ==
  ASSUME TypeOK, RequestInv, NEW r \in Requests, NEW q \in ReqType,
         req' = [req EXCEPT ![r] = q],
         UNCHANGED <<svc, drift>>, ReadUrl(q), BroughtInSync(q)
  PROVE  req' \in [Requests -> ReqType] /\ RequestInv'
<1>1. req' \in [Requests -> ReqType]
  BY DEF TypeOK, ReqType
<1>2. \A x \in Requests : req'[x] = IF x = r THEN q ELSE req[x]
  BY DEF TypeOK
<1>3. \A p : (ReadUrl(p) => ReadUrl(p)') /\ (BroughtInSync(p) => BroughtInSync(p)')
  BY DEF ReadUrl, BroughtInSync, InSync
<1> QED
  BY <1>1, <1>2, <1>3 DEF RequestInv

-----------------------------------------------------------------------------
(* One lemma per action.                                                   *)

\* create_service, also from a template: the first row, before anything else.
LEMMA CreateStep ==
  ASSUME IInv, NEW url \in Urls, NEW scheme \in Schemes, create_service(url, scheme)
  PROVE  IInv'
<1>1. current = None /\ current' = None /\ active' = active /\ drift' = drift /\ made' = TRUE
  BY DEF IInv, NothingBefore, create_service
<1>2. req = [r \in Requests |-> Idle] /\ req' = req
  BY DEF IInv, NothingBefore, create_service
<1>3. svc' = [url |-> url, scheme |-> scheme] /\ want' = svc'
  BY DEF create_service
<1>4. TypeOK'
  BY <1>1, <1>2, <1>3 DEF IInv, TypeOK, Service
<1>5. RequestInv'
  BY <1>2, IdleType DEF RequestInv, ReadUrl, BroughtInSync
<1>6. PatchKeeps' /\ HttpRoute' /\ NothingBefore' /\ CurrentInSync'
  BY <1>1, <1>3 DEF PatchKeeps, HttpRoute, NothingBefore, CurrentInSync
<1> QED
  BY <1>4, <1>5, <1>6 DEF IInv

\* delete_service: without a row there is nothing to agree with.
LEMMA DeleteStep ==
  ASSUME IInv, delete_service
  PROVE  IInv'
<1>1. svc' = None /\ want' = None /\ active' = {} /\ made
      /\ UNCHANGED <<made, current, req, drift>>
  BY DEF delete_service
<1>2. TypeOK'
  BY <1>1 DEF IInv, TypeOK
<1>3. RequestInv'
  BY <1>1 DEF IInv, RequestInv, ReadUrl, BroughtInSync
<1> QED
  BY <1>1, <1>2, <1>3
  DEF IInv, PatchKeeps, HttpRoute, get_service, NothingBefore, CurrentInSync

\* A request of one of the handlers begins.
LEMMA StartStep ==
  ASSUME IInv, NEW r \in Requests,
         \/ \E url \in Urls \cup {None}, scheme \in Schemes \cup {None} : update_service(r, url, scheme)
         \/ \E scheme \in Schemes, addr \in Urls \cup {None} :
              create_credential(r, scheme, addr) \/ rotate_credential(r, scheme, addr)
  PROVE  IInv'
<1>1. UNCHANGED <<svc, made, current, active, want, drift>>
  BY DEF update_service, create_credential, rotate_credential
<1>2. svc \in Service \cup {None} /\ None \notin Urls /\ None \notin Schemes
  BY NoneApart DEF IInv, TypeOK
<1>3. made
  BY DEF IInv, NothingBefore, update_service, create_credential, rotate_credential, get_service
<1>4. \E q \in ReqType : req' = [req EXCEPT ![r] = q] /\ ReadUrl(q) /\ BroughtInSync(q)
  <2>1. ASSUME NEW url \in Urls \cup {None}, NEW scheme \in Schemes \cup {None},
               update_service(r, url, scheme)
        PROVE  \E q \in ReqType : req' = [req EXCEPT ![r] = q] /\ ReadUrl(q) /\ BroughtInSync(q)
    <3> DEFINE e == IF scheme # None \/ url = None \/ svc = None THEN scheme ELSE svc.scheme
               q == [Idle EXCEPT !.kind = "update", !.stage = "write", !.url = url,
                                 !.scheme = scheme, !.effective = e]
    <3>1. e \in Schemes \cup {None}
      BY <1>2 DEF Service
    <3>2. q \in ReqType /\ q.kind = "update"
      BY <3>1 DEF Idle, ReqType
    <3>3. ReadUrl(q) /\ BroughtInSync(q)
      BY <3>2 DEF ReadUrl, BroughtInSync
    <3>4. req' = [req EXCEPT ![r] = q]
      BY <2>1 DEF update_service, Begin
    <3> QED
      BY <3>2, <3>3, <3>4
  <2>2. ASSUME NEW scheme \in Schemes, NEW addr \in Urls \cup {None},
               create_credential(r, scheme, addr)
        PROVE  \E q \in ReqType : req' = [req EXCEPT ![r] = q] /\ ReadUrl(q) /\ BroughtInSync(q)
    <3> DEFINE q == [Idle EXCEPT !.kind = "credential", !.stage = "put", !.url = svc.url,
                                 !.scheme = scheme, !.addr = addr,
                                 !.bad = Ssh(scheme) /\ addr # svc.url]
    <3>1. svc # None /\ svc \in Service /\ svc.url \in Urls /\ (addr # None => Ssh(scheme))
      BY <1>2, <2>2 DEF create_credential, get_service, Service
    <3>2. /\ q \in ReqType /\ q.kind = "credential" /\ q.url = svc.url /\ q.scheme = scheme
          /\ q.stage = "put" /\ q.addr = addr /\ q.bad = (Ssh(scheme) /\ addr # svc.url)
      BY <3>1 DEF Idle, ReqType
    <3>3. req' = [req EXCEPT ![r] = q]
      BY <2>2 DEF create_credential, Begin
    <3> HIDE DEF q
    <3>4. ReadUrl(q) /\ BroughtInSync(q)
      BY <3>1, <3>2 DEF ReadUrl, BroughtInSync, InSync
    <3> QED
      BY <3>2, <3>3, <3>4
  <2>3. ASSUME NEW scheme \in Schemes, NEW addr \in Urls \cup {None},
               rotate_credential(r, scheme, addr)
        PROVE  \E q \in ReqType : req' = [req EXCEPT ![r] = q] /\ ReadUrl(q) /\ BroughtInSync(q)
    <3> DEFINE q == [Idle EXCEPT !.kind = "credential", !.stage = "carry", !.url = svc.url,
                                 !.scheme = scheme, !.addr = addr,
                                 !.bad = addr # None /\ addr # svc.url]
    <3>1. svc # None /\ svc \in Service /\ svc.url \in Urls
      BY <1>2, <2>3 DEF rotate_credential, get_service, Service
    <3>2. /\ q \in ReqType /\ q.kind = "credential" /\ q.url = svc.url /\ q.scheme = scheme
          /\ q.stage = "carry" /\ q.addr = addr /\ q.bad = (addr # None /\ addr # svc.url)
      BY <3>1 DEF Idle, ReqType
    <3>3. req' = [req EXCEPT ![r] = q]
      BY <2>3 DEF rotate_credential, Begin
    <3> HIDE DEF q
    <3>4. ReadUrl(q) /\ BroughtInSync(q)
      BY <3>1, <3>2 DEF ReadUrl, BroughtInSync
    <3> QED
      BY <3>2, <3>3, <3>4
  <2> QED
    BY <2>1, <2>2, <2>3
<1>5. req' \in [Requests -> ReqType] /\ RequestInv'
  BY <1>1, <1>4, BeginStep DEF IInv
<1>6. TypeOK'
  BY <1>1, <1>5 DEF IInv, TypeOK, ReqType
<1> QED
  BY <1>1, <1>3, <1>5, <1>6
  DEF IInv, PatchKeeps, HttpRoute, get_service, GetCredential, NothingBefore, CurrentInSync, InSync

\* A request ends or moves on, and the tables stay as they are.
LEMMA ReadStep ==
  ASSUME IInv, NEW r \in Requests, ReadPrior(r) \/ Abort(r)
  PROVE  IInv'
<1>1. UNCHANGED <<svc, made, current, active, want, drift>>
  BY DEF ReadPrior, Abort
<1>2. made
  BY IdleType DEF IInv, NothingBefore, ReadPrior, Abort, At
<1>3. req[r] \in ReqType /\ ReadUrl(req[r]) /\ BroughtInSync(req[r])
  BY DEF IInv, TypeOK, ReqType, RequestInv
<1>4. \E q \in ReqType : req' = [req EXCEPT ![r] = q] /\ ReadUrl(q) /\ BroughtInSync(q)
  <2>1. CASE Abort(r)
    BY <2>1, IdleType DEF Abort, ReadUrl, BroughtInSync
  <2>2. CASE ReadPrior(r)
    <3>1. req[r].kind = "credential" /\ req[r].stage = "carry"
      BY <2>2 DEF ReadPrior, At
    <3>2. ASSUME current # None, req[r].addr # None
          PROVE  /\ [Carry(req[r]) EXCEPT !.bad = @ \/ (req[r].addr = None /\ current.addr = None)]
                    = [req[r] EXCEPT !.stage = "put"]
      BY <1>3, <3>2 DEF Carry, ReqType
    <3>3. CASE /\ req[r].addr # None
               /\ req' = [req EXCEPT ![r] = [req[r] EXCEPT !.stage = "put"]]
      <4> DEFINE q == [req[r] EXCEPT !.stage = "put"]
      <4>1. /\ q \in ReqType /\ q.kind = "credential" /\ q.stage = "put" /\ q.addr = req[r].addr
            /\ q.url = req[r].url /\ q.scheme = req[r].scheme /\ q.bad = req[r].bad
            /\ q.moved = req[r].moved
        BY <1>3, <3>1 DEF ReqType
      <4> HIDE DEF q
      <4>2. ReadUrl(q) /\ BroughtInSync(q)
        BY <1>3, <3>1, <3>3, <4>1 DEF ReadUrl, BroughtInSync, InSync
      <4> QED
        BY <3>3, <4>1, <4>2 DEF q
    <3>4. CASE /\ current # None /\ req[r].addr = None
               /\ req' = [req EXCEPT ![r] = [Carry(req[r]) EXCEPT
                            !.bad = @ \/ (req[r].addr = None /\ current.addr = None)]]
      <4> DEFINE q == [Carry(req[r]) EXCEPT !.bad = @ \/ (req[r].addr = None /\ current.addr = None)]
      <4>0. current.addr \in Urls \cup {None}
        BY <3>4 DEF IInv, TypeOK, Version
      <4>1. /\ q \in ReqType /\ q.kind = "credential" /\ q.stage = "put" /\ q.addr = current.addr
            /\ q.url = req[r].url /\ q.scheme = req[r].scheme
            /\ q.bad = (req[r].bad \/ current.addr = None) /\ q.moved = req[r].moved
        BY <1>3, <3>1, <3>4, <4>0 DEF ReqType, Carry
      <4> HIDE DEF q
      <4>2. ReadUrl(q) /\ BroughtInSync(q)
        BY <1>3, <3>1, <3>4, <4>1 DEF ReadUrl, BroughtInSync, InSync, IInv, CurrentInSync
      <4> QED
        BY <3>4, <4>1, <4>2 DEF q
    <3>5. CASE /\ req[r].addr = None
               /\ req' = [req EXCEPT ![r].stage = "put", ![r].bad = @ \/ req[r].addr = None]
      <4> DEFINE q == [req[r] EXCEPT !.stage = "put", !.bad = TRUE]
      <4>1. /\ q \in ReqType /\ q.kind = "credential" /\ q.stage = "put" /\ q.bad = TRUE
            /\ q.url = req[r].url /\ q.scheme = req[r].scheme /\ q.moved = req[r].moved
        BY <1>3, <3>1 DEF ReqType
      <4>2. req' = [req EXCEPT ![r] = q]
        BY <1>3, <3>5 DEF ReqType, IInv, TypeOK
      <4> HIDE DEF q
      <4>3. ReadUrl(q) /\ BroughtInSync(q)
        BY <1>3, <3>1, <4>1 DEF ReadUrl, BroughtInSync
      <4> QED
        BY <4>1, <4>2, <4>3
    <3>6. ASSUME req[r].addr # None,
                 req' = [req EXCEPT ![r].stage = "put", ![r].bad = @ \/ req[r].addr = None]
          PROVE  req' = [req EXCEPT ![r] = [req[r] EXCEPT !.stage = "put"]]
      BY <1>3, <3>6 DEF ReqType, IInv, TypeOK
    <3> QED
      BY <2>2, <3>2, <3>3, <3>4, <3>5, <3>6 DEF ReadPrior
  <2> QED
    BY <2>1, <2>2
<1>5. req' \in [Requests -> ReqType] /\ RequestInv'
  BY <1>1, <1>4, BeginStep DEF IInv
<1>6. TypeOK'
  BY <1>1, <1>5 DEF IInv, TypeOK, ReqType
<1> QED
  BY <1>1, <1>2, <1>5, <1>6
  DEF IInv, PatchKeeps, HttpRoute, get_service, GetCredential, NothingBefore, CurrentInSync, InSync

\* The vault stores a version: what the request brought is what routes now.
LEMMA PutStep ==
  ASSUME IInv, NEW r \in Requests, PutVersion(r)
  PROVE  IInv'
<1> DEFINE q == req[r]
<1>1. q \in ReqType /\ ReadUrl(q) /\ BroughtInSync(q)
  BY DEF IInv, TypeOK, ReqType, RequestInv
<1>2. /\ q.kind = "credential" /\ q.stage = "put"
      /\ current' = [scheme |-> q.scheme, url |-> q.url, addr |-> q.addr, moved |-> q.moved]
      /\ drift' = (drift \/ q.bad \/ q.moved)
      /\ req' = [req EXCEPT ![r] = Idle]
      /\ UNCHANGED <<svc, made, want>>
  BY DEF PutVersion, At, TargetUrl
<1>3. active' \subseteq Schemes
  BY <1>1, <1>2 DEF PutVersion, IInv, TypeOK, ReadUrl
<1>4. current' \in Version /\ drift' \in BOOLEAN
  BY <1>1, <1>2 DEF ReqType, ReadUrl, Version, IInv, TypeOK
<1>5. /\ current'.scheme = q.scheme /\ current'.url = q.url /\ current'.addr = q.addr
      /\ current'.moved = q.moved
  BY <1>2
<1>6. made
  BY <1>2, IdleType DEF IInv, NothingBefore
<1>7. \A x \in Requests : req'[x] = IF x = r THEN Idle ELSE req[x]
  BY <1>2 DEF IInv, TypeOK
<1>8. RequestInv'
  <2> SUFFICES ASSUME NEW x \in Requests PROVE ReadUrl(req[x])' /\ BroughtInSync(req[x])'
    BY DEF RequestInv
  <2>1. CASE x = r
    BY <1>7, <2>1, IdleType DEF ReadUrl, BroughtInSync
  <2>2. CASE x # r
    BY <1>2, <1>7, <2>2 DEF ReadUrl, BroughtInSync, InSync, IInv, RequestInv
  <2> QED
    BY <2>1, <2>2
<1>9. TypeOK'
  <2>1. req' \in [Requests -> ReqType]
    BY <1>2, IdleType DEF IInv, TypeOK, ReqType
  <2> QED
    BY <1>2, <1>3, <1>4, <2>1 DEF IInv, TypeOK, ReqType
<1>10. HttpRoute'
  BY <1>1, <1>2, <1>5 DEF HttpRoute, get_service, GetCredential, ReadUrl
<1>11. CurrentInSync'
  BY <1>1, <1>2, <1>5 DEF CurrentInSync, BroughtInSync, InSync
<1> QED
  BY <1>2, <1>6, <1>8, <1>9, <1>10, <1>11 DEF IInv, PatchKeeps, NothingBefore

\* update_service commits: a changed address marks every request under way, and
\* the cascade brings the current version along when the service is an SSH one.
LEMMA UpdateStep ==
  ASSUME IInv, NEW r \in Requests, UpdateRow(r)
  PROVE  IInv'
<1> DEFINE q == req[r]
           cascade == q.url # None /\ Ssh(q.effective)
<1>1. q \in ReqType /\ q.kind = "update"
  BY DEF IInv, TypeOK, ReqType, UpdateRow, At
<1>2. /\ svc' = IF svc = None THEN None ELSE Patched(q, svc)
      /\ want' = IF svc = None THEN None
                 ELSE [url    |-> IF q.url = None THEN want.url ELSE q.url,
                       scheme |-> IF q.scheme = None THEN want.scheme ELSE q.scheme]
      /\ current' = IF current = None THEN None
                    ELSE [current EXCEPT !.addr  = IF cascade THEN q.url ELSE current.addr,
                                         !.moved = current.moved \/ q.url # None]
      /\ drift' = IF q.url = None THEN drift ELSE ~cascade
      /\ req' = [x \in Requests |-> IF x = r THEN Idle
                                    ELSE IF q.url = None \/ req[x] = Idle THEN req[x]
                                    ELSE [req[x] EXCEPT !.moved = TRUE]]
      /\ UNCHANGED <<made, active>>
  BY DEF UpdateRow
<1>3. svc \in Service \cup {None} /\ want = svc /\ q.url \in Urls \cup {None}
      /\ q.scheme \in Schemes \cup {None}
  BY <1>1 DEF IInv, TypeOK, PatchKeeps, ReqType
<1>4. svc = None => svc' = None /\ want' = None
  BY <1>2
<1>5. svc # None => /\ svc' = Patched(q, svc) /\ want' = svc' /\ svc' \in Service
                    /\ svc'.url = IF q.url # None THEN q.url ELSE svc.url
  BY <1>2, <1>3 DEF Patched, Service
<1>6. current = None => current' = None
  BY <1>2
<1>7. ASSUME current # None
      PROVE  /\ current \in Version /\ current' \in Version
             /\ current'.scheme = current.scheme /\ current'.url = current.url
             /\ current'.addr = IF cascade THEN q.url ELSE current.addr
             /\ current'.moved = (current.moved \/ q.url # None)
  <2>1. current \in Version
    BY <1>7 DEF IInv, TypeOK
  <2>2. current' = [current EXCEPT !.addr  = IF cascade THEN q.url ELSE current.addr,
                                   !.moved = current.moved \/ q.url # None]
    BY <1>2, <1>7
  <2>3. (IF cascade THEN q.url ELSE current.addr) \in Urls \cup {None}
    BY <1>3, <2>1 DEF Version
  <2> HIDE DEF cascade
  <2> QED
    BY <2>1, <2>2, <2>3 DEF Version
<1>8. \A x \in Requests :
        /\ x = r \/ req[x] = Idle => req'[x] = Idle
        /\ x # r /\ req[x] # Idle => req'[x] = IF q.url = None THEN req[x]
                                               ELSE [req[x] EXCEPT !.moved = TRUE]
  BY <1>2
<1>9. \A x \in Requests : req'[x] \in ReqType
  <2>1. \A x \in Requests : req[x] \in ReqType /\ [req[x] EXCEPT !.moved = TRUE] \in ReqType
    BY DEF IInv, TypeOK, ReqType
  <2> QED
    BY <1>8, <2>1, IdleType
<1>10. TypeOK'
  <2>1. req' \in [Requests -> ReqType]
    BY <1>2, <1>9
  <2>2. svc' \in Service \cup {None} /\ want' \in Service \cup {None}
    BY <1>4, <1>5
  <2>3. current' \in Version \cup {None} /\ drift' \in BOOLEAN
    BY <1>2, <1>6, <1>7 DEF IInv, TypeOK
  <2> QED
    BY <1>2, <2>1, <2>2, <2>3 DEF IInv, TypeOK, ReqType
<1>11. RequestInv'
  <2> SUFFICES ASSUME NEW x \in Requests PROVE ReadUrl(req[x])' /\ BroughtInSync(req[x])'
    BY DEF RequestInv
  <2>1. CASE x = r \/ req[x] = Idle
    BY <1>8, <2>1, IdleType DEF ReadUrl, BroughtInSync
  <2>2. CASE x # r /\ req[x] # Idle /\ q.url = None
    <3>1. req'[x] = req[x] /\ drift' = drift
      BY <1>2, <1>8, <2>2
    <3>2. svc' # None => svc # None /\ svc'.url = svc.url
      BY <1>4, <1>5, <2>2
    <3> QED
      BY <3>1, <3>2 DEF ReadUrl, BroughtInSync, InSync, IInv, RequestInv
  <2>3. CASE x # r /\ req[x] # Idle /\ q.url # None
    <3>1. req'[x] = [req[x] EXCEPT !.moved = TRUE] /\ req[x] \in ReqType
      BY <1>8, <2>3 DEF IInv, TypeOK, ReqType
    <3>2. /\ req'[x].kind = req[x].kind /\ req'[x].url = req[x].url
          /\ req'[x].scheme = req[x].scheme /\ req'[x].moved = TRUE
      BY <3>1 DEF ReqType
    <3> QED
      BY <3>2 DEF ReadUrl, BroughtInSync, IInv, RequestInv
  <2> QED
    BY <2>1, <2>2, <2>3
<1>12. HttpRoute'
  <2> SUFFICES ASSUME svc' # None, current' # None
               PROVE  current'.url = svc'.url \/ current'.moved
    BY DEF HttpRoute, get_service, GetCredential
  <2>1. svc # None /\ current # None
    BY <1>4, <1>6
  <2>2. current.url = svc.url \/ current.moved
    BY <2>1 DEF IInv, HttpRoute, get_service, GetCredential
  <2> QED
    BY <1>5, <1>7, <2>1, <2>2
<1>13. CurrentInSync'
  <2> SUFFICES ASSUME svc' # None, current' # None, ~drift'
               PROVE  InSync(current.scheme, current.addr)'
    BY DEF CurrentInSync
  <2>1. svc # None /\ current # None
    BY <1>4, <1>6
  <2>2. CASE q.url = None
    BY <1>2, <1>5, <1>7, <2>1, <2>2 DEF InSync, IInv, CurrentInSync
  <2>3. CASE q.url # None
    BY <1>2, <1>5, <1>7, <2>1, <2>3 DEF InSync
  <2> QED
    BY <2>2, <2>3
<1>14. made
  BY <1>1, IdleType DEF IInv, NothingBefore
<1> QED
  BY <1>2, <1>4, <1>5, <1>10, <1>11, <1>12, <1>13, <1>14 DEF IInv, PatchKeeps, NothingBefore

-----------------------------------------------------------------------------
(* The theorems.                                                           *)

\* The invariant holds at first.
LEMMA InitIInv == Init => IInv
<1> SUFFICES ASSUME Init PROVE IInv
  OBVIOUS
<1>1. \A r \in Requests : req[r] = Idle
  BY DEF Init
<1>2. TypeOK
  BY IdleType DEF Init, TypeOK, ReqType
<1>3. RequestInv
  BY <1>1, IdleType DEF RequestInv, ReadUrl, BroughtInSync
<1> QED
  BY <1>2, <1>3 DEF Init, IInv, PatchKeeps, HttpRoute, get_service, NothingBefore, CurrentInSync

\* Every step preserves the inductive invariant.
LEMMA NextIInv == IInv /\ [Next]_vars => IInv'
<1> SUFFICES ASSUME IInv, [Next]_vars PROVE IInv'
  OBVIOUS
<1>1. CASE UNCHANGED vars
  BY <1>1 DEF vars, IInv, TypeOK, PatchKeeps, HttpRoute, get_service, GetCredential, NothingBefore,
     RequestInv, ReadUrl, BroughtInSync, InSync, CurrentInSync
<1>2. CASE \E url \in Urls, scheme \in Schemes : create_service(url, scheme)
  BY <1>2, CreateStep
<1>3. CASE \E template \in [url : Urls \cup {None}, scheme : Schemes], override \in Urls \cup {None} :
             create_service_from_template(template, override)
  <2>1. PICK template \in [url : Urls \cup {None}, scheme : Schemes], override \in Urls \cup {None} :
          create_service_from_template(template, override)
    BY <1>3
  <2>2. PICK url \in Urls \cup {None} : url # None /\ create_service(url, template.scheme)
    BY <2>1 DEF create_service_from_template
  <2> QED
    BY <2>2, CreateStep
<1>4. CASE \E scheme \in Schemes : delete_credential_version(scheme)
  BY <1>4 DEF delete_credential_version, IInv, TypeOK, PatchKeeps, HttpRoute, get_service,
     GetCredential, NothingBefore, RequestInv, ReadUrl, BroughtInSync, InSync, CurrentInSync
<1>5. CASE \E r \in Requests : Step(r)
  BY <1>5, StartStep, UpdateStep, ReadStep, PutStep DEF Step
<1> QED
  BY <1>1, <1>2, <1>3, <1>4, <1>5, DeleteStep DEF Next

\* IInv is an invariant.
LEMMA Inductive == Spec => []IInv
  BY InitIInv, NextIInv, PTL DEF Spec

\* However PATCH requests, registrations and rotations overlap, the services row
\* holds what was last asked for, column by column, the HTTP proxy's address is
\* the row's unless that changed after the version's request began, and
\* ssh-proxy dials the row's (update_service, PostgresStore.Get, backend.go).
THEOREM RoutesStayConsistent == Spec => []RoutesConsistent
<1>1. IInv => RoutesConsistent
  <2> SUFFICES ASSUME IInv PROVE SshDialsBaseUrl
    BY DEF IInv, RoutesConsistent
  <2>1. svc # None => svc.url # None
    BY NoneApart DEF IInv, TypeOK, Service
  <2> QED
    BY <2>1 DEF SshDialsBaseUrl, DialTarget, GetCredential, get_service
<1> QED
  BY <1>1, Inductive, PTL

\* The cascade of update_service and the carry-over of rotate_credential keep
\* target_address equal to base_url, except in the cases that drift records.
THEOREM AddressStaysInSync == Spec => []AddressInSync
<1>1. IInv => AddressInSync
  BY DEF IInv, CurrentInSync, InSync, AddressInSync, get_service
<1> QED
  BY <1>1, Inductive, PTL
=============================================================================
