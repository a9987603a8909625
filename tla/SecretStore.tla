---------------------------- MODULE SecretStore ----------------------------
(***************************************************************************)
(* What the agent secrets promise, with no requests, no transactions and   *)
(* no second database: a sealed value per secret, a life that runs once    *)
(* from new over live to gone, an owner, the agents it is shared with, and *)
(* reads that take two steps, since permission is checked in one database  *)
(* and the value comes from another.  AgentSecrets implements this.        *)
(***************************************************************************)
EXTENDS Naturals

CONSTANTS Ids, Agents, Values, Readers, Nobody

VARIABLES
  sealed,   \* the value sealed under an id, 0 when there is none
  life,     \* "new", "live", "gone"
  owner,    \* the owning agent, Nobody unless live
  shared,   \* <<id, agent>> pairs
  reading   \* what each reader was let in to, and what it was handed

absVars == <<sealed, life, owner, shared, reading>>

NotReading == [id |-> 0]

AbsInit ==
  /\ sealed = [i \in Ids |-> 0]
  /\ life = [i \in Ids |-> "new"]
  /\ owner = [i \in Ids |-> Nobody]
  /\ shared = {}
  /\ reading = [r \in Readers |-> NotReading]

(* A value may be sealed under an id at any time, also when the secret is  *)
(* not there yet or no more; it is not reachable then.                     *)
Seal(i, v) ==
  /\ sealed' = [sealed EXCEPT ![i] = v]
  /\ UNCHANGED <<life, owner, shared, reading>>

Publish(i, a) ==
  /\ life[i] = "new" /\ sealed[i] # 0
  /\ life' = [life EXCEPT ![i] = "live"]
  /\ owner' = [owner EXCEPT ![i] = a]
  /\ UNCHANGED <<sealed, shared, reading>>

Withdraw(i) ==
  /\ life[i] = "live"
  /\ life' = [life EXCEPT ![i] = "gone"]
  /\ owner' = [owner EXCEPT ![i] = Nobody]
  /\ shared' = {s \in shared : s[1] # i}
  /\ UNCHANGED <<sealed, reading>>

Share(i, a) ==
  /\ life[i] = "live" /\ a # owner[i] /\ <<i, a>> \notin shared
  /\ shared' = shared \cup {<<i, a>>}
  /\ UNCHANGED <<sealed, life, owner, reading>>

Unshare(i, a) ==
  /\ shared' = shared \ {<<i, a>>}
  /\ UNCHANGED <<sealed, life, owner, reading>>

Admit(r, a, i) ==
  /\ reading[r] = NotReading
  /\ life[i] = "live" /\ (a = owner[i] \/ <<i, a>> \in shared)
  /\ reading' = [reading EXCEPT ![r] = [id |-> i, who |-> a, value |-> 0]]
  /\ UNCHANGED <<sealed, life, owner, shared>>

HandOut(r) ==
  /\ reading[r] # NotReading /\ reading[r].value = 0
  /\ sealed[reading[r].id] # 0
  /\ reading' = [reading EXCEPT ![r].value = sealed[reading[r].id]]
  /\ UNCHANGED <<sealed, life, owner, shared>>

Leave(r) ==
  /\ reading' = [reading EXCEPT ![r] = NotReading]
  /\ UNCHANGED <<sealed, life, owner, shared>>

AbsNext ==
  \/ \E i \in Ids : (\E v \in Values \cup {0} : Seal(i, v)) \/ Withdraw(i)
  \/ \E i \in Ids, a \in Agents : Publish(i, a) \/ Share(i, a) \/ Unshare(i, a)
  \/ \E r \in Readers : HandOut(r) \/ Leave(r)
                        \/ \E i \in Ids, a \in Agents : Admit(r, a, i)

AbsSpec == AbsInit /\ [][AbsNext]_absVars
=============================================================================
