--------------------------- MODULE AuditQueueProofs ---------------------------
(***************************************************************************)
(* Machine-checked proofs about AuditQueue, for every choice of texts,     *)
(* quotas, settings and faults.                                            *)
(***************************************************************************)
EXTENDS AuditQueue, FiniteSetTheorems, TLAPS

-----------------------------------------------------------------------------
(* Finite sets.                                                             *)

\* The image of a finite set under a function is finite and no larger.
LEMMA FiniteImage ==
    ASSUME NEW S, IsFiniteSet(S), NEW f, f = [x \in S |-> f[x]]
    PROVE  IsFiniteSet({f[x] : x \in S})
<1>1. f \in Surjection(S, {f[x] : x \in S})
  BY DEF Surjection
<1> QED
  BY <1>1, FS_Surjection

\* A renaming of the members of a finite set keeps their number.
LEMMA ImageCount ==
    ASSUME NEW S, IsFiniteSet(S), NEW f, f = [x \in S |-> f[x]],
           \A x, y \in S : f[x] = f[y] => x = y
    PROVE  /\ IsFiniteSet({f[x] : x \in S})
           /\ Cardinality({f[x] : x \in S}) = Cardinality(S)
<1>1. f \in Surjection(S, {f[x] : x \in S})
  BY DEF Surjection
<1>2. f \in Injection(S, {f[x] : x \in S})
  BY DEF Injection, IsInjective
<1> QED
  BY <1>1, <1>2, FS_Surjection

\* The position of a line in a finite file is a natural number.
LEMMA RankType ==
    ASSUME NEW S, IsFiniteSet(S), NEW x
    PROVE  Rank(S, x) \in Nat
<1>1. IsFiniteSet({y \in S : y.off < x.off})
  BY FS_Subset
<1> QED
  BY <1>1, FS_CardinalityType DEF Rank

\* Moving an entry of the batch to a state of its goroutine keeps it a batch.
LEMMA MoveType ==
    ASSUME batch \in SUBSET Entry, IsFiniteSet(batch),
           NEW e \in batch, NEW s \in EntryState
    PROVE  Move(e, s) \in SUBSET Entry /\ IsFiniteSet(Move(e, s))
<1>1. [e EXCEPT !.st = s] \in Entry
  BY DEF Entry
<1>2. IsFiniteSet(batch \ {e})
  BY FS_RemoveElement
<1>3. IsFiniteSet((batch \ {e}) \cup {[e EXCEPT !.st = s]})
  BY <1>2, FS_AddElement
<1> QED
  BY <1>1, <1>3 DEF Move

\* Tombstoning some lines of the WAL leaves a finite set of lines.
LEMMA TombstonesType ==
    ASSUME wal \in SUBSET Line, IsFiniteSet(wal), NEW S \in SUBSET wal
    PROVE  LET w == (wal \ S) \cup {Tombstone(l) : l \in S}
           IN  w \in SUBSET Line /\ IsFiniteSet(w)
<1> DEFINE f == [l \in S |-> Tombstone(l)]
<1>1. \A l \in S : Tombstone(l) \in Line
  BY DEF Tombstone, Line
<1>2. IsFiniteSet({f[l] : l \in S})
  <2>1. IsFiniteSet(S) /\ f = [l \in S |-> f[l]]
    BY FS_Subset
  <2> HIDE DEF f
  <2> QED
    BY <2>1, FiniteImage
<1>3. {f[l] : l \in S} = {Tombstone(l) : l \in S}
  OBVIOUS
<1>4. IsFiniteSet(wal \ S)
  BY FS_Subset
<1> HIDE DEF f
<1>5. IsFiniteSet((wal \ S) \cup {Tombstone(l) : l \in S})
  BY <1>2, <1>3, <1>4, FS_Union
<1> QED
  BY <1>1, <1>5

\* A readBatch makes a finite set of entries from the WAL and from memory.
LEMMA BatchType ==
    ASSUME TypeOK, NEW n \in Nat
    PROVE  /\ WalEntries \in SUBSET Entry /\ IsFiniteSet(WalEntries)
           /\ MemEntries(n) \in SUBSET Entry /\ IsFiniteSet(MemEntries(n))
<1>1. Pending \in SUBSET wal /\ IsFiniteSet(Pending)
  BY FS_Subset DEF TypeOK, Pending, Complete
<1> DEFINE S == {k \in Pending : Rank(Pending, k) < BatchSize}
           f == [l \in S |-> [pos |-> Rank(Pending, l) + 1, text |-> l.text,
                              off |-> l.off, mem |-> FALSE, st |-> "queued"]]
           g == [m \in mem |-> [pos |-> n + m.pos, text |-> m.text, off |-> -1,
                                mem |-> TRUE, st |-> "queued"]]
<1>2. WalEntries = {f[l] : l \in S} /\ MemEntries(n) = {g[m] : m \in mem}
  BY DEF WalEntries, MemEntries
<1>3. IsFiniteSet(S) /\ IsFiniteSet(mem)
  BY <1>1, FS_Subset DEF TypeOK
<1>4. IsFiniteSet({f[l] : l \in S}) /\ IsFiniteSet({g[m] : m \in mem})
  <2>1. f = [l \in S |-> f[l]] /\ g = [m \in mem |-> g[m]]
    OBVIOUS
  <2> HIDE DEF f, g, S
  <2> QED
    BY <1>3, <2>1, FiniteImage
<1>5. \A l \in S : f[l] \in Entry
  <2> TAKE l \in S
  <2>1. Rank(Pending, l) \in Nat
    BY <1>1, RankType
  <2>2. l \in Line
    BY <1>1 DEF TypeOK
  <2> QED
    BY <2>1, <2>2 DEF Entry, EntryState, Line
<1>6. \A m \in mem : g[m] \in Entry
  BY DEF TypeOK, Held, Entry, EntryState
<1> QED
  BY <1>2, <1>4, <1>5, <1>6

\* What returnMemory leaves in memory is a finite set of held events.
LEMMA ReturnMemoryType ==
    ASSUME TypeOK, ReturnMemory
    PROVE  mem' \in SUBSET Held /\ IsFiniteSet(mem')
<1> DEFINE back == {e \in batch : e.mem /\ e.st # "settled"}
           slot(e) == Cardinality(mem) + Cardinality({b \in back : b.pos <= e.pos})
           S == {b \in back : slot(b) <= MemCap}
           f == [e \in S |-> [pos |-> slot(e), text |-> e.text]]
<1>1. IsFiniteSet(back) /\ Cardinality(mem) \in Nat
  BY FS_Subset, FS_CardinalityType DEF TypeOK
<1>2. \A e : slot(e) \in Nat
  <2> TAKE e
  <2>1. IsFiniteSet({b \in back : b.pos <= e.pos})
    BY <1>1, FS_Subset
  <2>2. Cardinality({b \in back : b.pos <= e.pos}) \in Nat
    BY <2>1, FS_CardinalityType
  <2> QED
    BY <1>1, <2>2
<1>3. mem' = mem \cup {f[e] : e \in S}
  BY DEF ReturnMemory
<1>4. IsFiniteSet({f[e] : e \in S})
  <2>1. IsFiniteSet(S) /\ f = [e \in S |-> f[e]]
    BY <1>1, FS_Subset
  <2> HIDE DEF f, S
  <2> QED
    BY <2>1, FiniteImage
<1>5. \A e \in S : f[e] \in Held
  <2> TAKE e \in S
  <2>1. e \in Entry
    BY DEF TypeOK
  <2> HIDE DEF slot
  <2> QED
    BY <1>2, <2>1 DEF Held, Entry
<1>6. IsFiniteSet(mem \cup {f[e] : e \in S})
  <2> HIDE DEF f, S
  <2> QED
    BY <1>4, FS_Union DEF TypeOK
<1> HIDE DEF f, S
<1> QED
  BY <1>3, <1>5, <1>6 DEF TypeOK

\* The back-off stays within the configured delays (nextRetryDelay).
LEMMA DelayType ==
    ASSUME NEW d \in InitDelay .. MaxDelay
    PROVE  nextRetryDelay(d) \in InitDelay .. MaxDelay
BY SettingsAssumption DEF nextRetryDelay

\* An append residue keeps the file's type.
LEMMA ResidueType ==
    ASSUME TypeOK, NEW t \in Texts, NEW r \in Residues, LeaveResidue(t, r)
    PROVE  /\ wal' \in SUBSET Line /\ IsFiniteSet(wal')
           /\ size' \in Nat /\ torn' \in BOOLEAN /\ cuts' \in Nat
<1>1. CASE r \in {"none", "newline"}
  BY <1>1 DEF TypeOK, LeaveResidue, file
<1>2. CASE r \in {"cut", "whole"}
  <2> DEFINE l == [off |-> size, text |-> t, st |-> IF r = "cut" THEN "bad" ELSE "live"]
  <2>1. wal' = wal \cup {l}
    BY <1>2 DEF LeaveResidue
  <2>2. l \in Line
    BY DEF TypeOK, Line
  <2> HIDE DEF l
  <2>3. IsFiniteSet(wal')
    BY <2>1, FS_AddElement DEF TypeOK
  <2>4. size' \in Nat /\ torn' = TRUE /\ cuts' \in Nat
    <3>1. CASE r = "cut"
      BY <3>1 DEF LeaveResidue, TypeOK
    <3>2. CASE r = "whole"
      BY <3>2 DEF LeaveResidue, TypeOK
    <3> QED
      BY <1>2, <3>1, <3>2
  <2> QED
    BY <2>1, <2>2, <2>3, <2>4 DEF TypeOK
<1> QED
  BY <1>1, <1>2 DEF Residues

-----------------------------------------------------------------------------
(* Type correctness.                                                        *)

\* The types survive every step that delivers an entry of the round.
LEMMA DeliverType ==
    ASSUME TypeOK, NEW e \in Round, Deliver(e)
    PROVE  TypeOK'
<1> USE DEF file, letters, drainer, signals, calls, answers
<1>e. e \in batch /\ e \in Entry /\ e.text \in Texts
  BY DEF TypeOK, Round, Entry
<1>m. \A s \in EntryState :
        Move(e, s) \in SUBSET Entry /\ IsFiniteSet(Move(e, s))
  BY <1>e, MoveType DEF TypeOK
<1>1. CASE SinkAccepts(e)
  BY <1>1, <1>e, <1>m DEF SinkAccepts, TypeOK, EntryState
<1>2. CASE SinkRefuses(e)
  BY <1>2, <1>e, <1>m DEF SinkRefuses, TypeOK, EntryState
<1>3. CASE EmitFails(e)
  BY <1>3, <1>e, <1>m DEF EmitFails, TypeOK, EntryState
<1>4. CASE AnswerLost(e)
  BY <1>4, <1>e, <1>m DEF AnswerLost, Inject, TypeOK, EntryState
<1>5. CASE DeadLetter(e)
  BY <1>5, <1>e, <1>m DEF DeadLetter, Inject, TypeOK, EntryState
<1>6. CASE Settle(e)
  <2>1. CASE e.mem
    BY <1>6, <2>1, <1>e, <1>m DEF Settle, TypeOK, EntryState
  <2>2. CASE ~e.mem
    <3> DEFINE found == Locate(e.text, e.off)
    <3>1. found \in SUBSET wal
      BY DEF Locate, LiveOf
    <3> HIDE DEF found
    <3>2. wal' = (wal \ found) \cup {Tombstone(l) : l \in found}
      BY <1>6, <2>2 DEF Settle, found
    <3>3. wal' \in SUBSET Line /\ IsFiniteSet(wal')
      BY <3>1, <3>2, TombstonesType DEF TypeOK
    <3>4. tombed' \in [Texts -> Nat]
      BY <1>6, <2>2, <1>e DEF Settle, TypeOK
    <3> QED
      BY <1>6, <2>2, <3>3, <3>4, <1>e, <1>m DEF Settle, TypeOK, EntryState
  <2> QED
    BY <2>1, <2>2
<1>7. CASE SettleFails(e)
  BY <1>7, <1>e, <1>m DEF SettleFails, Inject, TypeOK, EntryState
<1> QED
  BY <1>1, <1>2, <1>3, <1>4, <1>5, <1>6, <1>7 DEF Deliver

\* The types survive every step of the drainer.
LEMMA DrainType ==
    ASSUME TypeOK, Drain
    PROVE  TypeOK'
<1> USE DEF file, letters, drainer, signals, calls, answers
<1>1. CASE ReadBatch
  <2> DEFINE b == WalEntries \cup MemEntries(Cardinality(WalEntries))
  <2>1. b \in SUBSET Entry /\ IsFiniteSet(b)
    <3>1. WalEntries \in SUBSET Entry /\ IsFiniteSet(WalEntries)
      BY BatchType
    <3>2. Cardinality(WalEntries) \in Nat
      BY <3>1, FS_CardinalityType
    <3>3. /\ MemEntries(Cardinality(WalEntries)) \in SUBSET Entry
          /\ IsFiniteSet(MemEntries(Cardinality(WalEntries)))
      BY <3>2, BatchType
    <3> QED
      BY <3>1, <3>3, FS_Union
  <2> HIDE DEF b
  <2>2. PICK recorded \in SUBSET Unread, marked \in SUBSET Unread :
           /\ faults' \in {faults, faults + 1}
           /\ wal' = (wal \ marked) \cup {Tombstone(l) : l \in marked}
           /\ deadCut' = deadCut + Cardinality(recorded)
    BY <1>1 DEF ReadBatch
  <2>3. Unread \in SUBSET wal /\ Pending \in SUBSET wal
    BY DEF Unread, Pending, Complete
  <2>4. wal' \in SUBSET Line /\ IsFiniteSet(wal')
    BY <2>2, <2>3, TombstonesType DEF TypeOK
  <2>5. deadCut' \in Nat
    <3>1. IsFiniteSet(recorded)
      BY <2>3, FS_Subset DEF TypeOK
    <3> QED
      BY <3>1, <2>2, FS_CardinalityType DEF TypeOK
  <2>6. Cardinality(Pending) \in Nat /\ Cardinality(mem) \in Nat
    BY <2>3, FS_Subset, FS_CardinalityType DEF TypeOK
  <2>7. /\ batch' = b /\ cursor' = 0 /\ progressed' = FALSE
        /\ pc' \in {"round", "exited", "idle"}
        /\ mem' = {} /\ backlog' = Cardinality(Pending) + Cardinality(mem)
        /\ UNCHANGED <<size, torn, dead, signals, delay, calls, held, answers,
                       tombed, excused>>
    BY <1>1 DEF ReadBatch, StartPass, b
  <2>8. faults' \in Nat /\ IsFiniteSet(mem')
    BY <2>2, <2>7, FS_EmptySet DEF TypeOK
  <2>9. /\ torn' \in BOOLEAN /\ wake' \in BOOLEAN /\ closing' \in BOOLEAN
        /\ progressed' \in BOOLEAN
    BY <2>7 DEF TypeOK
  <2>10. backlog' \in Int /\ batch' \in SUBSET Entry /\ IsFiniteSet(batch')
    BY <2>1, <2>6, <2>7
  <2> QED
    BY <2>4, <2>5, <2>7, <2>8, <2>9, <2>10 DEF TypeOK
<1>2. CASE ReadBatchFails
  <2>1. MemEntries(0) \in SUBSET Entry /\ IsFiniteSet(MemEntries(0))
    BY BatchType
  <2>2. Cardinality(mem) \in Nat
    BY FS_CardinalityType DEF TypeOK
  <2>3. mem' = {} /\ IsFiniteSet(mem')
    BY <1>2, FS_EmptySet DEF ReadBatchFails
  <2>4. /\ batch' \in SUBSET Entry /\ IsFiniteSet(batch')
        /\ cursor' = 0 /\ progressed' = FALSE
        /\ pc' \in {"round", "exited", "idle"}
    BY <1>2, <2>1 DEF ReadBatchFails, StartPass
  <2>5. /\ backlog' \in Int /\ faults' \in Nat
        /\ UNCHANGED <<file, letters, signals, delay, calls, held, answers,
                       tombed, excused>>
    BY <1>2, <2>2 DEF ReadBatchFails, Inject, TypeOK
  <2> QED
    BY <2>3, <2>4, <2>5 DEF TypeOK
<1>3. CASE TakeWake
  BY <1>3 DEF TakeWake, TypeOK
<1>4. CASE StopIdle
  BY <1>4 DEF StopIdle, TypeOK
<1>5. CASE \E e \in Round : Deliver(e)
  BY <1>5, DeliverType
<1>l. ASSUME NEW next \in {"read", "exited"}, LeavePass(next)
      PROVE  /\ mem' \in SUBSET Held /\ IsFiniteSet(mem')
             /\ batch' = {} /\ IsFiniteSet(batch') /\ cursor' = 0
             /\ progressed' = FALSE /\ pc' \in {"read", "exited"}
  BY <1>l, ReturnMemoryType, FS_EmptySet DEF LeavePass
<1>n. ASSUME NextRound
      PROVE  cursor' \in Nat /\ pc' \in {"round", "end"}
  BY <1>n, SettingsAssumption DEF NextRound, TypeOK
<1>6. CASE RoundDone
  <2>1. CASE LeavePass("exited") /\ UNCHANGED delay
    BY <1>6, <2>1, <1>l DEF RoundDone, TypeOK
  <2>2. CASE /\ delay' = InitDelay /\ progressed' = TRUE /\ NextRound
             /\ UNCHANGED <<mem, batch>>
    BY <1>6, <2>2, <1>n, SettingsAssumption DEF RoundDone, TypeOK
  <2>3. CASE pc' = "wait" /\ UNCHANGED <<mem, batch, cursor, progressed, delay>>
    BY <1>6, <2>3 DEF RoundDone, TypeOK
  <2> QED
    BY <1>6, <2>1, <2>2, <2>3 DEF RoundDone
<1>7. CASE WaitDone
  BY <1>7, <1>n, DelayType DEF WaitDone, TypeOK
<1>8. CASE WaitStopped
  BY <1>8, <1>l DEF WaitStopped, TypeOK
<1>9. CASE PassDone
  <2>1. PICK next \in {"read", "exited"} : LeavePass(next)
    BY <1>9 DEF PassDone
  <2>2. UNCHANGED <<file, letters, signals, delay, backlog, calls, held,
                    answers, tombed, excused, faults>>
    BY <1>9 DEF PassDone
  <2>3. /\ mem' \in SUBSET Held /\ IsFiniteSet(mem')
        /\ batch' = {} /\ IsFiniteSet(batch') /\ cursor' = 0
        /\ progressed' = FALSE /\ pc' \in {"read", "exited"}
    BY <2>1, <1>l
  <2> QED
    BY <2>2, <2>3 DEF TypeOK
<1> QED
  BY <1>1, <1>2, <1>3, <1>4, <1>5, <1>6, <1>7, <1>8, <1>9 DEF Drain

\* The types survive every step.
LEMMA NextType ==
    ASSUME TypeOK, [Next]_vars
    PROVE  TypeOK'
<1> USE DEF file, letters, drainer, signals, calls, answers
<1>r. ASSUME Restarted
      PROVE  /\ mem' = {} /\ IsFiniteSet(mem') /\ batch' = {} /\ IsFiniteSet(batch')
             /\ held' \in [Texts -> Int]
             /\ wake' = FALSE /\ waking' = 0 /\ closing' = FALSE
             /\ pc' = "read" /\ cursor' = 0 /\ progressed' = FALSE
             /\ delay' \in InitDelay .. MaxDelay
  BY <1>r, FS_EmptySet, SettingsAssumption DEF Restarted
<1>x. ASSUME ExcuseUnsettled
      PROVE  excused' \in [Texts -> Nat]
  <2>1. \A t \in Texts : Cardinality(Unsettled(t)) \in Nat
    <3> TAKE t \in Texts
    <3>1. IsFiniteSet(Unsettled(t))
      BY FS_Subset DEF Unsettled, TypeOK
    <3> QED
      BY <3>1, FS_CardinalityType
  <2> QED
    BY <1>x, <2>1 DEF ExcuseUnsettled, TypeOK
<1>1. ASSUME NEW t \in Texts, EnqueueAppends(t)
      PROVE  TypeOK'
  <2> DEFINE l == [off |-> size, text |-> t, st |-> "live"]
  <2>1. l \in Line
    BY DEF TypeOK, Line
  <2>2. wal' = wal \cup {l} /\ torn' = FALSE
    BY <1>1 DEF EnqueueAppends
  <2> HIDE DEF l
  <2>3. wal' \in SUBSET Line /\ IsFiniteSet(wal') /\ torn' \in BOOLEAN
    BY <2>1, <2>2, FS_AddElement DEF TypeOK
  <2> QED
    BY <1>1, <2>3 DEF EnqueueAppends, TypeOK
<1>2. ASSUME NEW t \in Texts, EnqueueHolds(t)
      PROVE  TypeOK'
  <2>1. PICK r \in Residues :
          /\ LeaveResidue(t, r)
          /\ excused' = IF r = "whole"
                        THEN [excused EXCEPT ![t] = @ + 1] ELSE excused
    BY <1>2 DEF EnqueueHolds
  <2>2. /\ wal' \in SUBSET Line /\ IsFiniteSet(wal')
        /\ size' \in Nat /\ torn' \in BOOLEAN /\ cuts' \in Nat
    BY <2>1, ResidueType
  <2>3. excused' \in [Texts -> Nat]
    BY <2>1 DEF TypeOK
  <2>4. Cardinality(mem) \in Nat
    BY FS_CardinalityType DEF TypeOK
  <2>5. mem' \in SUBSET Held /\ IsFiniteSet(mem')
    <3> DEFINE m == [pos |-> Cardinality(mem) + 1, text |-> t]
    <3>1. m \in Held
      BY <2>4 DEF Held
    <3>2. mem' = mem \/ mem' = mem \cup {m}
      BY <1>2 DEF EnqueueHolds
    <3> HIDE DEF m
    <3> QED
      BY <3>1, <3>2, FS_AddElement DEF TypeOK
  <2>6. backlog' \in Int /\ held' \in [Texts -> Int] /\ faults' \in Nat
    BY <1>2 DEF EnqueueHolds, Inject, TypeOK
  <2>7. /\ waking' = waking + 1 /\ offered' = [offered EXCEPT ![t] = @ + 1]
        /\ UNCHANGED <<letters, wake, closing, drainer, appended, answers, tombed>>
    BY <1>2 DEF EnqueueHolds
  <2> QED
    BY <2>2, <2>3, <2>5, <2>6, <2>7 DEF TypeOK
<1>3. CASE Wake
  BY <1>3 DEF Wake, TypeOK
<1>4. CASE Close
  BY <1>4 DEF Close, TypeOK
<1>5. CASE Drain
  BY <1>5, DrainType
<1>6. CASE Compact
  <2>1. Kept \in SUBSET wal /\ IsFiniteSet(Kept)
    BY FS_Subset DEF Kept, TypeOK
  <2> DEFINE f == [l \in Kept |-> [l EXCEPT !.off = Rank(Kept, l)]]
  <2>2. wal' = {f[l] : l \in Kept} /\ torn' = FALSE
    BY <1>6 DEF Compact
  <2>3. IsFiniteSet({f[l] : l \in Kept})
    <3>1. f = [l \in Kept |-> f[l]]
      OBVIOUS
    <3> HIDE DEF f
    <3> QED
      BY <2>1, <3>1, FiniteImage
  <2>4. \A l \in Kept : f[l] \in Line
    <3> TAKE l \in Kept
    <3>1. Rank(Kept, l) \in Nat /\ l \in Line
      BY <2>1, RankType DEF TypeOK
    <3> QED
      BY <3>1 DEF Line
  <2>5. size' \in Nat
    BY <1>6, <2>1, FS_CardinalityType DEF Compact
  <2> HIDE DEF f
  <2>6. wal' \in SUBSET Line /\ IsFiniteSet(wal') /\ torn' \in BOOLEAN
    BY <2>2, <2>3, <2>4
  <2> QED
    BY <1>6, <2>5, <2>6 DEF Compact, TypeOK
<1>7. CASE Crash
  <2>1. Cardinality(Pending) \in Nat
    BY FS_Subset, FS_CardinalityType DEF Pending, Complete, TypeOK
  <2>2. backlog' \in Int /\ faults' \in Nat
    BY <1>7, <2>1 DEF Crash, Inject, TypeOK
  <2>3. excused' \in [Texts -> Nat]
    BY <1>7, <1>x DEF Crash
  <2>4. UNCHANGED <<file, letters, calls, answers, tombed>>
    BY <1>7 DEF Crash
  <2>5. Restarted
    BY <1>7 DEF Crash
  <2> QED
    BY <2>2, <2>3, <2>4, <2>5, <1>r DEF TypeOK
<1>8. ASSUME NEW t \in Texts, CrashInAppend(t)
      PROVE  TypeOK'
  <2>1. PICK r \in Residues : LeaveResidue(t, r)
    BY <1>8 DEF CrashInAppend
  <2>2. /\ wal' \in SUBSET Line /\ IsFiniteSet(wal')
        /\ size' \in Nat /\ torn' \in BOOLEAN /\ cuts' \in Nat
    BY <2>1, ResidueType
  <2>3. Cardinality(Pending') \in Nat
    BY <2>2, FS_Subset, FS_CardinalityType DEF Pending, Complete
  <2>4. backlog' \in Int /\ faults' \in Nat /\ offered' \in [Texts -> Nat]
    BY <1>8, <2>3 DEF CrashInAppend, Inject, TypeOK
  <2>5. excused' \in [Texts -> Nat]
    BY <1>8, <1>x DEF CrashInAppend
  <2>6. UNCHANGED <<letters, appended, answers, tombed>>
    BY <1>8 DEF CrashInAppend
  <2>7. Restarted
    BY <1>8 DEF CrashInAppend
  <2> QED
    BY <2>2, <2>4, <2>5, <2>6, <2>7, <1>r DEF TypeOK
<1>9. CASE UNCHANGED vars
  BY <1>9 DEF vars, TypeOK
<1> QED
  BY <1>1, <1>2, <1>3, <1>4, <1>5, <1>6, <1>7, <1>8, <1>9 DEF Next

\* The queue starts well typed.
LEMMA InitType ==
    ASSUME Init
    PROVE  TypeOK
<1>1. IsFiniteSet({})
  BY FS_EmptySet
<1>2. delay \in InitDelay .. MaxDelay
  BY SettingsAssumption DEF Init
<1>3. wal \in SUBSET Line /\ mem \in SUBSET Held /\ batch \in SUBSET Entry
  BY DEF Init
<1>4. IsFiniteSet(wal) /\ IsFiniteSet(mem) /\ IsFiniteSet(batch)
  BY <1>1 DEF Init
<1>5. /\ torn \in BOOLEAN /\ wake \in BOOLEAN /\ closing \in BOOLEAN
      /\ progressed \in BOOLEAN
  BY DEF Init
<1>6. /\ size \in Nat /\ deadCut \in Nat /\ waking \in Nat /\ cursor \in Nat
      /\ backlog \in Int /\ cuts \in Nat /\ faults \in Nat
      /\ pc \in {"read", "idle", "round", "wait", "end", "exited"}
  BY DEF Init
<1>7. /\ dead \in [Texts -> Nat] /\ offered \in [Texts -> Nat]
      /\ appended \in [Texts -> Nat] /\ held \in [Texts -> Int]
      /\ accepted \in [Texts -> Nat] /\ refused \in [Texts -> Nat]
      /\ tombed \in [Texts -> Nat] /\ excused \in [Texts -> Nat]
  BY DEF Init
<1> QED
  BY <1>2, <1>3, <1>4, <1>5, <1>6, <1>7 DEF TypeOK

\* Every state of the audit queue is well typed: in particular the back-off
\* delay of drain stays between the initial and the maximum delay, and the
\* file, the memory queue and the batch stay finite.
THEOREM TypeCorrect == Spec => []TypeOK
BY InitType, NextType, PTL DEF Spec

-----------------------------------------------------------------------------
(* No event is lost.                                                        *)

\* Every line has an offset of its own, below the end of the file.
OffsetsOK ==
    /\ \A l \in wal : l.off < size
    /\ \A l, k \in wal : l.off = k.off => l = k

\* Every appended event is a live line or was tombstoned.
AppendsAccounted ==
    \A t \in Texts : appended[t] <= Cardinality(LiveOf(t)) + tombed[t]

\* Every tombstone used up an answer of the sink for that text, and the answers
\* whose tombstone is still to be written are not used up.
TombsAnswered ==
    \A t \in Texts :
        tombed[t] + Cardinality(Unsettled(t)) <= accepted[t] + refused[t]

\* What EventsNeverLost carries over every step, besides TypeOK.
Accounted == OffsetsOK /\ AppendsAccounted /\ TombsAnswered

\* The sets the invariant counts are finite.
LEMMA CountsType ==
    ASSUME TypeOK, NEW t
    PROVE  /\ IsFiniteSet(LiveOf(t)) /\ Cardinality(LiveOf(t)) \in Nat
           /\ IsFiniteSet(Unsettled(t)) /\ Cardinality(Unsettled(t)) \in Nat
<1>1. IsFiniteSet(LiveOf(t)) /\ IsFiniteSet(Unsettled(t))
  BY FS_Subset DEF TypeOK, LiveOf, Unsettled
<1> QED
  BY <1>1, FS_CardinalityType

\* A line added at the end of the file (appendWALLocked).
LEMMA AddLine ==
    ASSUME TypeOK, OffsetsOK, AppendsAccounted, NEW l \in Line, l.off = size,
           wal' = wal \cup {l}, size' = size + 1, tombed' = tombed,
           \/ appended' = appended
           \/ /\ l.st = "live"
              /\ appended' = [appended EXCEPT ![l.text] = @ + 1]
    PROVE  OffsetsOK' /\ AppendsAccounted'
<1>1. l \notin wal
  BY DEF OffsetsOK, TypeOK, Line
<1>2. OffsetsOK'
  BY DEF OffsetsOK, TypeOK, Line
<1>3. AppendsAccounted'
  <2> SUFFICES ASSUME NEW t \in Texts
               PROVE  appended'[t] <= Cardinality(LiveOf(t)') + tombed[t]
    BY DEF AppendsAccounted
  <2> DEFINE L == LiveOf(t)
  <2>1. IsFiniteSet(L) /\ Cardinality(L) \in Nat /\ appended[t] <= Cardinality(L) + tombed[t]
    BY CountsType DEF AppendsAccounted
  <2>2. CASE l.st = "live" /\ l.text = t
    <3>1. LiveOf(t)' = L \cup {l} /\ l \notin L
      BY <1>1, <2>2 DEF LiveOf
    <3>2. Cardinality(L \cup {l}) = Cardinality(L) + 1
      BY <2>1, <3>1, FS_AddElement
    <3> QED
      BY <2>1, <3>1, <3>2 DEF TypeOK
  <2>3. CASE ~(l.st = "live" /\ l.text = t)
    <3>1. LiveOf(t)' = L
      BY <2>3 DEF LiveOf
    <3>2. appended'[t] = appended[t]
      BY <2>3 DEF TypeOK
    <3> QED
      BY <2>1, <3>1, <3>2
  <2> QED
    BY <2>2, <2>3
<1> QED
  BY <1>2, <1>3

\* Tombstoning lines that hold no event (unreadable lines, in readBatch).
LEMMA TombUnreadable ==
    ASSUME TypeOK, OffsetsOK, AppendsAccounted,
           NEW S \in SUBSET {l \in wal : l.st = "bad"},
           wal' = (wal \ S) \cup {Tombstone(l) : l \in S},
           UNCHANGED <<size, appended, tombed>>
    PROVE  OffsetsOK' /\ AppendsAccounted'
<1>1. \A l \in S : Tombstone(l).off = l.off /\ Tombstone(l).st = "tomb"
  BY DEF Tombstone, TypeOK, Line
<1>2. OffsetsOK'
  BY <1>1 DEF OffsetsOK
<1>3. \A t \in Texts : LiveOf(t)' = LiveOf(t)
  BY <1>1 DEF LiveOf
<1> QED
  BY <1>2, <1>3 DEF AppendsAccounted

\* Tombstoning the line tombstoneWAL located for an event with text t.
LEMMA TombLocated ==
    ASSUME TypeOK, OffsetsOK, AppendsAccounted, NEW t \in Texts, NEW hint \in Int,
           wal' = (wal \ Locate(t, hint)) \cup {Tombstone(l) : l \in Locate(t, hint)},
           tombed' = IF Locate(t, hint) = {} THEN tombed
                     ELSE [tombed EXCEPT ![t] = @ + 1],
           UNCHANGED <<size, appended>>
    PROVE  OffsetsOK' /\ AppendsAccounted'
<1> DEFINE found == Locate(t, hint)
<1>1. found \subseteq LiveOf(t) /\ LiveOf(t) \subseteq wal
  BY DEF Locate, LiveOf
<1>2. \A l, k \in found : l = k
  <2>1. \A l, k \in found : l.off = k.off
    BY DEF Locate, LiveOf, TypeOK, Line
  <2> QED
    BY <1>1, <2>1 DEF OffsetsOK
<1>3. CASE found = {}
  <2>1. wal' = wal /\ tombed' = tombed
    BY <1>3
  <2> QED
    BY <2>1 DEF OffsetsOK, AppendsAccounted, LiveOf
<1>4. CASE found # {}
  <2>1. PICK l \in wal : found = {l} /\ l \in LiveOf(t)
    BY <1>1, <1>2, <1>4
  <2> HIDE DEF found
  <2>2. /\ wal' = (wal \ {l}) \cup {Tombstone(l)}
        /\ tombed' = [tombed EXCEPT ![t] = @ + 1]
    BY <2>1 DEF found
  <2>3. Tombstone(l).off = l.off /\ Tombstone(l).st = "tomb" /\ l.text = t
    BY <2>1 DEF Tombstone, TypeOK, Line, LiveOf
  <2>4. OffsetsOK'
    BY <2>2, <2>3 DEF OffsetsOK
  <2>5. AppendsAccounted'
    <3> SUFFICES ASSUME NEW u \in Texts
                 PROVE  appended[u] <= Cardinality(LiveOf(u)') + tombed'[u]
      BY DEF AppendsAccounted
    <3>1. IsFiniteSet(LiveOf(u)) /\ Cardinality(LiveOf(u)) \in Nat
      BY CountsType
    <3>2. CASE u = t
      <4>1. LiveOf(u)' = LiveOf(u) \ {l}
        BY <2>2, <2>3, <3>2 DEF LiveOf
      <4>2. Cardinality(LiveOf(u) \ {l}) = Cardinality(LiveOf(u)) - 1
        BY <2>1, <3>1, <3>2, FS_RemoveElement
      <4>3. tombed'[u] = tombed[u] + 1
        BY <2>2, <3>2 DEF TypeOK
      <4> QED
        BY <3>1, <4>1, <4>2, <4>3 DEF AppendsAccounted, TypeOK
    <3>3. CASE u # t
      <4>1. LiveOf(u)' = LiveOf(u)
        BY <2>2, <2>3, <3>3 DEF LiveOf
      <4>2. tombed'[u] = tombed[u]
        BY <2>2, <3>3 DEF TypeOK
      <4> QED
        BY <4>1, <4>2 DEF AppendsAccounted
    <3> QED
      BY <3>2, <3>3
  <2> QED
    BY <2>4, <2>5
<1> QED
  BY <1>3, <1>4

\* Ranks order the lines of a file as their offsets do.
LEMMA RankMonotone ==
    ASSUME NEW S, IsFiniteSet(S), \A x \in S : x.off \in Nat,
           NEW l \in S, NEW k \in S, l.off < k.off
    PROVE  Rank(S, l) < Rank(S, k)
<1> DEFINE L == {y \in S : y.off < l.off}
           K == {y \in S : y.off < k.off}
<1>1. L \subseteq K /\ l \in K /\ l \notin L
  OBVIOUS
<1>2. IsFiniteSet(L) /\ IsFiniteSet(K)
  BY FS_Subset
<1>3. Cardinality(L) \in Nat /\ Cardinality(K) \in Nat
  BY <1>2, FS_CardinalityType
<1>4. Cardinality(L) <= Cardinality(K) /\ Cardinality(K) # Cardinality(L)
  <2> HIDE DEF L, K
  <2> QED
    BY <1>1, <1>2, FS_Subset
<1> QED
  BY <1>3, <1>4 DEF Rank

\* A rank is below the number of lines.
LEMMA RankBound ==
    ASSUME NEW S, IsFiniteSet(S), \A x \in S : x.off \in Nat, NEW l \in S
    PROVE  Rank(S, l) < Cardinality(S)
<1> DEFINE L == {y \in S : y.off < l.off}
<1>1. L \subseteq S /\ l \notin L
  OBVIOUS
<1>2. IsFiniteSet(L)
  BY FS_Subset
<1>3. Cardinality(L) \in Nat /\ Cardinality(S) \in Nat
  BY <1>2, FS_CardinalityType
<1>4. Cardinality(L) <= Cardinality(S) /\ Cardinality(S) # Cardinality(L)
  <2> HIDE DEF L
  <2> QED
    BY <1>1, <1>2, FS_Subset
<1> QED
  BY <1>3, <1>4 DEF Rank

\* compact changes no count of the lines it keeps.
LEMMA CompactCount ==
    ASSUME TypeOK, OffsetsOK, NEW S \in SUBSET Kept
    PROVE  Cardinality({[l EXCEPT !.off = Rank(Kept, l)] : l \in S})
             = Cardinality(S)
<1> DEFINE f == [l \in S |-> [l EXCEPT !.off = Rank(Kept, l)]]
<1>1. IsFiniteSet(Kept) /\ Kept \subseteq wal /\ \A x \in Kept : x.off \in Nat
  BY FS_Subset DEF Kept, TypeOK, Line
<1>2. \A l \in Kept : /\ [l EXCEPT !.off = Rank(Kept, l)].off = Rank(Kept, l)
                      /\ Rank(Kept, l) \in Nat
  BY <1>1, RankType DEF TypeOK, Line
<1>3. \A l, k \in Kept : Rank(Kept, l) = Rank(Kept, k) => l = k
  <2> SUFFICES ASSUME NEW l \in Kept, NEW k \in Kept, l # k
               PROVE  Rank(Kept, l) # Rank(Kept, k)
    OBVIOUS
  <2>1. l.off # k.off
    BY <1>1 DEF OffsetsOK
  <2>2. l.off < k.off \/ k.off < l.off
    BY <1>1, <2>1
  <2>3. Rank(Kept, l) < Rank(Kept, k) \/ Rank(Kept, k) < Rank(Kept, l)
    BY <1>1, <2>2, RankMonotone
  <2> QED
    BY <1>2, <2>3
<1>4. \A l, k \in S : f[l] = f[k] => l = k
  <2>1. \A l \in S : f[l].off = Rank(Kept, l) /\ l \in Kept
    BY <1>2
  <2> HIDE DEF f
  <2> QED
    BY <1>3, <2>1
<1>5. f = [l \in S |-> f[l]] /\ IsFiniteSet(S)
  BY <1>1, FS_Subset
<1>6. {f[l] : l \in S} = {[l EXCEPT !.off = Rank(Kept, l)] : l \in S}
  OBVIOUS
<1> HIDE DEF f
<1> QED
  BY <1>4, <1>5, <1>6, ImageCount

\* compact keeps every live line, and its lines get offsets of their own.
LEMMA CompactAccounted ==
    ASSUME TypeOK, TypeOK', OffsetsOK, AppendsAccounted, Compact
    PROVE  OffsetsOK' /\ AppendsAccounted'
<1> DEFINE move(l) == [l EXCEPT !.off = Rank(Kept, l)]
<1>1. IsFiniteSet(Kept) /\ Kept \subseteq wal /\ \A x \in Kept : x.off \in Nat
  BY FS_Subset DEF Kept, TypeOK, Line
<1>2. wal' = {move(l) : l \in Kept} /\ size' = Cardinality(Kept)
  BY DEF Compact
<1>3. \A l \in Kept : /\ move(l).off = Rank(Kept, l)
                      /\ move(l).text = l.text /\ move(l).st = l.st
                      /\ Rank(Kept, l) \in Nat
  BY <1>1, RankType DEF TypeOK, Line
<1>4. \A l, k \in Kept : Rank(Kept, l) = Rank(Kept, k) => l = k
  <2> SUFFICES ASSUME NEW l \in Kept, NEW k \in Kept, l # k
               PROVE  Rank(Kept, l) # Rank(Kept, k)
    OBVIOUS
  <2>1. l.off # k.off
    BY <1>1 DEF OffsetsOK
  <2>2. l.off < k.off \/ k.off < l.off
    BY <1>1, <2>1
  <2>3. Rank(Kept, l) < Rank(Kept, k) \/ Rank(Kept, k) < Rank(Kept, l)
    BY <1>1, <2>2, RankMonotone
  <2> QED
    BY <1>3, <2>3
<1>5. \A l \in Kept : Rank(Kept, l) < Cardinality(Kept)
  BY <1>1, RankBound
<1> HIDE DEF move
<1>6. OffsetsOK'
  BY <1>2, <1>3, <1>4, <1>5 DEF OffsetsOK
<1>7. AppendsAccounted'
  <2> SUFFICES ASSUME NEW t \in Texts
               PROVE  appended[t] <= Cardinality(LiveOf(t)') + tombed[t]
    BY DEF AppendsAccounted, Compact, calls
  <2>1. LiveOf(t) \in SUBSET Kept
    BY DEF LiveOf, Kept
  <2>2. LiveOf(t)' = {move(l) : l \in LiveOf(t)}
    BY <1>2, <1>3 DEF LiveOf, Kept
  <2>3. Cardinality(LiveOf(t)') = Cardinality(LiveOf(t))
    BY <2>1, <2>2, CompactCount DEF move
  <2> QED
    BY <2>3 DEF AppendsAccounted
<1> QED
  BY <1>6, <1>7

\* A residue adds at most one line and appends nothing.
LEMMA ResidueAccounted ==
    ASSUME TypeOK, OffsetsOK, AppendsAccounted, NEW t \in Texts,
           NEW r \in Residues, LeaveResidue(t, r), UNCHANGED <<appended, tombed>>
    PROVE  OffsetsOK' /\ AppendsAccounted'
<1>1. CASE r \in {"none", "newline"}
  <2>1. UNCHANGED <<wal, size>>
    BY <1>1 DEF LeaveResidue, file
  <2> QED
    BY <2>1 DEF OffsetsOK, AppendsAccounted, LiveOf
<1>2. CASE r \in {"cut", "whole"}
  <2>1. PICK l \in Line : /\ l.off = size /\ wal' = wal \cup {l}
                          /\ size' = size + 1
    <3>1. CASE r = "cut"
      BY <3>1 DEF LeaveResidue, Line, TypeOK
    <3>2. CASE r = "whole"
      BY <3>2 DEF LeaveResidue, Line, TypeOK
    <3> QED
      BY <1>2, <3>1, <3>2
  <2> QED
    BY <2>1, AddLine
<1> QED
  BY <1>1, <1>2 DEF Residues

\* The lines stay accounted for over every step.
LEMMA FileAccounted ==
    ASSUME TypeOK, TypeOK', OffsetsOK, AppendsAccounted, Next
    PROVE  OffsetsOK' /\ AppendsAccounted'
<1> USE DEF file, letters, drainer, signals, calls, answers
<1>s. ASSUME UNCHANGED <<wal, size, appended, tombed>>
      PROVE  OffsetsOK' /\ AppendsAccounted'
  BY <1>s DEF OffsetsOK, AppendsAccounted, LiveOf
<1>1. ASSUME NEW t \in Texts, EnqueueAppends(t)
      PROVE  OffsetsOK' /\ AppendsAccounted'
  <2> DEFINE l == [off |-> size, text |-> t, st |-> "live"]
  <2>1. l \in Line /\ l.off = size /\ l.st = "live" /\ l.text = t
    BY DEF Line, TypeOK
  <2>2. /\ wal' = wal \cup {l} /\ size' = size + 1 /\ tombed' = tombed
        /\ appended' = [appended EXCEPT ![t] = @ + 1]
    BY <1>1 DEF EnqueueAppends
  <2> HIDE DEF l
  <2> QED
    BY <2>1, <2>2, AddLine
<1>2. ASSUME NEW t \in Texts, EnqueueHolds(t)
      PROVE  OffsetsOK' /\ AppendsAccounted'
  BY <1>2, ResidueAccounted DEF EnqueueHolds
<1>3. CASE Wake \/ Close \/ Crash
  BY <1>3, <1>s DEF Wake, Close, Crash
<1>4. CASE Drain
  <2>1. CASE ReadBatch
    <3>1. PICK marked \in SUBSET Unread :
             wal' = (wal \ marked) \cup {Tombstone(l) : l \in marked}
      BY <2>1 DEF ReadBatch
    <3>2. marked \in SUBSET {l \in wal : l.st = "bad"}
      BY DEF Unread, Complete
    <3>3. UNCHANGED <<size, appended, tombed>>
      BY <2>1 DEF ReadBatch
    <3> QED
      BY <3>1, <3>2, <3>3, TombUnreadable
  <2>2. CASE ReadBatchFails \/ TakeWake \/ StopIdle
    BY <2>2, <1>s DEF ReadBatchFails, TakeWake, StopIdle
  <2>3. CASE RoundDone \/ WaitDone \/ WaitStopped \/ PassDone
    BY <2>3, <1>s DEF RoundDone, WaitDone, WaitStopped, PassDone
  <2>4. ASSUME NEW e \in Round, Deliver(e)
        PROVE  OffsetsOK' /\ AppendsAccounted'
    <3>1. CASE Settle(e)
      <4>1. CASE e.mem
        BY <3>1, <4>1, <1>s DEF Settle
      <4>2. CASE ~e.mem
        <5>1. e.text \in Texts /\ e.off \in Int
          BY DEF TypeOK, Round, Entry
        <5>2. /\ wal' = (wal \ Locate(e.text, e.off))
                          \cup {Tombstone(l) : l \in Locate(e.text, e.off)}
              /\ tombed' = IF Locate(e.text, e.off) = {} THEN tombed
                           ELSE [tombed EXCEPT ![e.text] = @ + 1]
              /\ UNCHANGED <<size, appended>>
          BY <3>1, <4>2 DEF Settle
        <5> QED
          BY <5>1, <5>2, TombLocated
      <4> QED
        BY <4>1, <4>2
    <3>2. CASE \/ SinkAccepts(e) \/ SinkRefuses(e) \/ EmitFails(e)
               \/ AnswerLost(e) \/ DeadLetter(e) \/ SettleFails(e)
      BY <3>2, <1>s DEF SinkAccepts, SinkRefuses, EmitFails, AnswerLost,
                        DeadLetter, SettleFails
    <3> QED
      BY <2>4, <3>1, <3>2 DEF Deliver
  <2> QED
    BY <1>4, <2>1, <2>2, <2>3, <2>4 DEF Drain
<1>5. CASE Compact
  BY <1>5, CompactAccounted
<1>6. ASSUME NEW t \in Texts, CrashInAppend(t)
      PROVE  OffsetsOK' /\ AppendsAccounted'
  BY <1>6, ResidueAccounted DEF CrashInAppend
<1> QED
  BY <1>1, <1>2, <1>3, <1>4, <1>5, <1>6 DEF Next

\* The entries of a new batch are queued.
LEMMA ReadQueued ==
    ASSUME ReadBatch \/ ReadBatchFails
    PROVE  \A e \in batch' : e.st = "queued"
<1>1. \A e \in WalEntries : e.st = "queued"
  BY DEF WalEntries
<1>2. \A n : \A e \in MemEntries(n) : e.st = "queued"
  BY DEF MemEntries
<1>3. \E n : batch' \subseteq WalEntries \cup MemEntries(n)
  BY DEF ReadBatch, ReadBatchFails, StartPass
<1> QED
  BY <1>1, <1>2, <1>3

\* No tombstone is written without an answer of the sink, over every step.
LEMMA TombsAccounted ==
    ASSUME TypeOK, TypeOK', TombsAnswered, Next
    PROVE  TombsAnswered'
<1> USE DEF file, letters, drainer, signals, calls, answers
\* Steps that leave the batch alone, and steps that start a new one.
<1>s. ASSUME UNCHANGED <<batch, tombed, accepted, refused>>
      PROVE  TombsAnswered'
  BY <1>s DEF TombsAnswered, Unsettled
<1>f. ASSUME UNCHANGED <<tombed, accepted, refused>>,
             \A e \in batch' : e.st = "queued"
      PROVE  TombsAnswered'
  <2> SUFFICES ASSUME NEW t \in Texts
               PROVE  tombed[t] + Cardinality(Unsettled(t)')
                         <= accepted[t] + refused[t]
    BY <1>f DEF TombsAnswered
  <2>1. Unsettled(t)' = {}
    BY <1>f DEF Unsettled
  <2>2. Cardinality(Unsettled(t)') = 0
    BY <2>1, FS_EmptySet
  <2>3. Cardinality(Unsettled(t)) \in Nat
    BY CountsType
  <2> QED
    BY <2>2, <2>3 DEF TombsAnswered, TypeOK
<1>1. ASSUME NEW t \in Texts,
             EnqueueAppends(t) \/ EnqueueHolds(t) \/ CrashInAppend(t)
      PROVE  TombsAnswered'
  <2>1. CASE EnqueueAppends(t) \/ EnqueueHolds(t)
    BY <2>1, <1>s DEF EnqueueAppends, EnqueueHolds
  <2>2. CASE CrashInAppend(t)
    BY <2>2, <1>f DEF CrashInAppend, Restarted
  <2> QED
    BY <1>1, <2>1, <2>2
<1>2. CASE Wake \/ Close \/ Compact
  BY <1>2, <1>s DEF Wake, Close, Compact
<1>3. CASE Crash
  BY <1>3, <1>f DEF Crash, Restarted
<1>4. CASE Drain
  <2>1. CASE ReadBatch \/ ReadBatchFails
    <3>1. \A e \in batch' : e.st = "queued"
      BY <2>1, ReadQueued
    <3>2. UNCHANGED <<tombed, accepted, refused>>
      BY <2>1 DEF ReadBatch, ReadBatchFails
    <3> QED
      BY <3>1, <3>2, <1>f
  <2>2. CASE TakeWake \/ StopIdle \/ WaitDone
    BY <2>2, <1>s DEF TakeWake, StopIdle, WaitDone
  <2>3. CASE WaitStopped \/ PassDone
    BY <2>3, <1>f DEF WaitStopped, PassDone, LeavePass
  <2>4. CASE RoundDone
    <3>1. batch' = batch \/ batch' = {}
      BY <2>4 DEF RoundDone, LeavePass
    <3>2. UNCHANGED <<tombed, accepted, refused>>
      BY <2>4 DEF RoundDone
    <3> QED
      BY <3>1, <3>2, <1>s, <1>f
  <2>5. ASSUME NEW e \in Round, Deliver(e)
        PROVE  TombsAnswered'
    <3>1. e \in batch /\ e \in Entry
      BY DEF Round, TypeOK
    <3> SUFFICES ASSUME NEW t \in Texts
                 PROVE  tombed'[t] + Cardinality(Unsettled(t)')
                           <= accepted'[t] + refused'[t]
      BY DEF TombsAnswered
    <3> DEFINE U == Unsettled(t)
    <3>2. IsFiniteSet(U) /\ Cardinality(U) \in Nat
      BY CountsType
    <3>3. tombed[t] + Cardinality(U) <= accepted[t] + refused[t]
      BY DEF TombsAnswered
    <3>4. ASSUME NEW s \in EntryState, batch' = Move(e, s)
          PROVE  /\ s \in {"ok", "refused", "dead"} /\ e.text = t
                    => Unsettled(t)' \subseteq U \cup {[e EXCEPT !.st = s]}
                 /\ e.text # t => Unsettled(t)' \subseteq U
                 /\ s \notin {"ok", "refused", "dead"} => Unsettled(t)' \subseteq U \ {e}
                 /\ [e EXCEPT !.st = s] \in Entry
      BY <3>1, <3>4 DEF Move, Unsettled, Entry
    <3> HIDE DEF U
    \* A goroutine gets an answer.
    <3>5. CASE SinkAccepts(e) \/ SinkRefuses(e)
      <4>1. PICK s \in {"ok", "refused"} : batch' = Move(e, s)
        BY <3>5 DEF SinkAccepts, SinkRefuses
      <4>2. tombed' = tombed
        BY <3>5 DEF SinkAccepts, SinkRefuses
      <4>3. CASE e.text = t
        <5>1. accepted'[t] + refused'[t] = accepted[t] + refused[t] + 1
          BY <3>5, <4>3 DEF SinkAccepts, SinkRefuses, TypeOK
        <5>2. Unsettled(t)' \subseteq U \cup {[e EXCEPT !.st = s]}
          BY <3>4, <4>1, <4>3 DEF EntryState
        <5>3. /\ IsFiniteSet(U \cup {[e EXCEPT !.st = s]})
              /\ Cardinality(U \cup {[e EXCEPT !.st = s]})
                    \in {Cardinality(U), Cardinality(U) + 1}
          BY <3>2, FS_AddElement
        <5>4. Cardinality(Unsettled(t)') <= Cardinality(U) + 1
              /\ Cardinality(Unsettled(t)') \in Nat
          BY <3>2, <5>2, <5>3, FS_Subset, FS_CardinalityType
        <5> QED
          BY <3>2, <3>3, <4>2, <5>1, <5>4 DEF TypeOK
      <4>4. CASE e.text # t
        <5>1. accepted'[t] = accepted[t] /\ refused'[t] = refused[t]
          BY <3>5, <4>4 DEF SinkAccepts, SinkRefuses, TypeOK
        <5>2. Unsettled(t)' \subseteq U
          BY <3>4, <4>1, <4>4 DEF EntryState
        <5>3. Cardinality(Unsettled(t)') <= Cardinality(U)
              /\ Cardinality(Unsettled(t)') \in Nat
          BY <3>2, <5>2, FS_Subset, FS_CardinalityType
        <5> QED
          BY <3>2, <3>3, <4>2, <5>1, <5>3 DEF TypeOK
      <4> QED
        BY <4>3, <4>4
    \* A goroutine gives up on its entry.
    <3>6. CASE EmitFails(e) \/ AnswerLost(e) \/ SettleFails(e)
      <4>1. batch' = Move(e, "failed") /\ tombed' = tombed
        BY <3>6 DEF EmitFails, AnswerLost, SettleFails
      <4>2. /\ accepted'[t] \in Nat /\ refused'[t] \in Nat
            /\ accepted[t] + refused[t] <= accepted'[t] + refused'[t]
        BY <3>6, <3>1 DEF EmitFails, AnswerLost, SettleFails, TypeOK, Entry
      <4>3. Unsettled(t)' \subseteq U
        BY <3>4, <4>1 DEF EntryState
      <4>4. Cardinality(Unsettled(t)') <= Cardinality(U)
            /\ Cardinality(Unsettled(t)') \in Nat
        BY <3>2, <4>3, FS_Subset, FS_CardinalityType
      <4> QED
        BY <3>2, <3>3, <4>1, <4>2, <4>4 DEF TypeOK
    \* The dead-letter record: the entry stays unsettled.
    <3>7. CASE DeadLetter(e)
      <4>1. /\ e.st = "refused" /\ batch' = Move(e, "dead")
            /\ UNCHANGED <<tombed, accepted, refused>>
        BY <3>7 DEF DeadLetter
      <4>2. CASE e \in U
        <5>1. Unsettled(t)' \subseteq (U \ {e}) \cup {[e EXCEPT !.st = "dead"]}
          BY <4>1 DEF Unsettled, Move, U
        <5>2. IsFiniteSet(U \ {e}) /\ Cardinality(U \ {e}) = Cardinality(U) - 1
          BY <3>2, <4>2, FS_RemoveElement
        <5>3. /\ IsFiniteSet((U \ {e}) \cup {[e EXCEPT !.st = "dead"]})
              /\ Cardinality((U \ {e}) \cup {[e EXCEPT !.st = "dead"]})
                    \in {Cardinality(U), Cardinality(U) - 1}
          <6> DEFINE V == U \ {e}
                     d == [e EXCEPT !.st = "dead"]
          <6> HIDE DEF V, d
          <6>1. /\ IsFiniteSet(V \cup {d})
                /\ Cardinality(V \cup {d}) = IF d \in V THEN Cardinality(V)
                                             ELSE Cardinality(V) + 1
            BY <5>2, FS_AddElement DEF V
          <6> QED
            BY <3>2, <5>2, <6>1 DEF V, d
        <5>4. Cardinality(Unsettled(t)') <= Cardinality(U)
              /\ Cardinality(Unsettled(t)') \in Nat
          BY <3>2, <5>1, <5>3, FS_Subset, FS_CardinalityType
        <5> QED
          BY <3>2, <3>3, <4>1, <5>4 DEF TypeOK
      <4>3. CASE e \notin U
        <5>1. Unsettled(t)' \subseteq U
          BY <3>1, <4>1, <4>3 DEF Unsettled, Move, U, Entry
        <5>2. Cardinality(Unsettled(t)') <= Cardinality(U)
              /\ Cardinality(Unsettled(t)') \in Nat
          BY <3>2, <5>1, FS_Subset, FS_CardinalityType
        <5> QED
          BY <3>2, <3>3, <4>1, <5>2 DEF TypeOK
      <4> QED
        BY <4>2, <4>3
    \* The tombstone uses up the answer of its entry.
    <3>8. CASE Settle(e)
      <4>1. /\ e.st \in {"ok", "dead"} /\ batch' = Move(e, "settled")
            /\ UNCHANGED <<accepted, refused>>
        BY <3>8 DEF Settle
      <4>2. Unsettled(t)' \subseteq U \ {e}
        BY <3>4, <4>1 DEF EntryState
      <4>3. CASE e.text = t /\ ~e.mem
        <5>1. e \in U
          BY <3>1, <4>1, <4>3 DEF U, Unsettled
        <5>2. IsFiniteSet(U \ {e}) /\ Cardinality(U \ {e}) = Cardinality(U) - 1
          BY <3>2, <5>1, FS_RemoveElement
        <5>3. tombed'[t] \in {tombed[t], tombed[t] + 1}
          BY <3>8, <4>3 DEF Settle, TypeOK
        <5>4. Cardinality(Unsettled(t)') <= Cardinality(U) - 1
              /\ Cardinality(Unsettled(t)') \in Nat
          BY <4>2, <5>2, FS_Subset, FS_CardinalityType
        <5> QED
          BY <3>2, <3>3, <4>1, <5>3, <5>4 DEF TypeOK
      <4>4. CASE ~(e.text = t /\ ~e.mem)
        <5>1. tombed'[t] = tombed[t]
          BY <3>8, <4>4 DEF Settle, TypeOK
        <5>2. Cardinality(Unsettled(t)') <= Cardinality(U)
              /\ Cardinality(Unsettled(t)') \in Nat
          BY <3>2, <4>2, FS_Subset, FS_CardinalityType
        <5> QED
          BY <3>2, <3>3, <4>1, <5>1, <5>2 DEF TypeOK
      <4> QED
        BY <4>3, <4>4
    <3> QED
      BY <2>5, <3>5, <3>6, <3>7, <3>8 DEF Deliver
  <2> QED
    BY <1>4, <2>1, <2>2, <2>3, <2>4, <2>5 DEF Drain
<1> QED
  BY <1>1, <1>2, <1>3, <1>4 DEF Next

\* Nothing is outstanding in an empty file.
LEMMA InitAccounted ==
    ASSUME Init
    PROVE  Accounted
<1>1. \A t : LiveOf(t) = {} /\ Unsettled(t) = {}
  BY DEF Init, LiveOf, Unsettled
<1>2. Cardinality({}) = 0
  BY FS_EmptySet
<1> QED
  BY <1>1, <1>2 DEF Init, Accounted, OffsetsOK, AppendsAccounted, TombsAnswered

\* For every event text, as many events were answered by the sink or are live
\* lines of the WAL as Enqueue appended: concurrent deliveries, compaction
\* under their feet, equal lines, failed and torn writes and crashes lose none.
THEOREM EventsNeverLost == Spec => []NoEventLost
<1>1. Init => TypeOK /\ Accounted
  BY InitType, InitAccounted
<1>2. TypeOK /\ Accounted /\ [Next]_vars => TypeOK' /\ Accounted'
  <2> SUFFICES ASSUME TypeOK, Accounted, [Next]_vars
               PROVE  TypeOK' /\ Accounted'
    OBVIOUS
  <2>1. TypeOK'
    BY NextType
  <2>2. CASE Next
    BY <2>1, <2>2, FileAccounted, TombsAccounted DEF Accounted
  <2>3. CASE UNCHANGED vars
    BY <2>1, <2>3 DEF vars, file, drainer, calls, answers, Accounted, OffsetsOK,
                      AppendsAccounted, TombsAnswered, LiveOf, Unsettled
  <2> QED
    BY <2>2, <2>3
<1>3. TypeOK /\ Accounted => NoEventLost
  <2> SUFFICES ASSUME TypeOK, Accounted, NEW t \in Texts
               PROVE  appended[t] <= Cardinality(LiveOf(t)) + accepted[t] + refused[t]
    BY DEF NoEventLost
  <2>1. Cardinality(LiveOf(t)) \in Nat /\ Cardinality(Unsettled(t)) \in Nat
    BY CountsType
  <2> QED
    BY <2>1 DEF TypeOK, Accounted, AppendsAccounted, TombsAnswered
<1> QED
  BY <1>1, <1>2, <1>3, PTL DEF Spec

-----------------------------------------------------------------------------
(* The drainer does not sleep on work.                                      *)

\* A finite set of lines has a first one.
LEMMA FirstLine ==
    ASSUME NEW S, IsFiniteSet(S), S # {}, \A x \in S : x.off \in Nat
    PROVE  \E x \in S : Rank(S, x) = 0
<1> DEFINE below(x) == {y \in S : y.off < x.off}
           F == {below(x) : x \in S}
<1>1. F \subseteq FiniteSubsetsOf(S) /\ F # {}
  <2>1. F \subseteq SUBSET S
    OBVIOUS
  <2>2. PICK x \in S : TRUE
    OBVIOUS
  <2>3. below(x) \in F
    OBVIOUS
  <2> HIDE DEF F
  <2> QED
    BY <2>1, <2>3, FS_FiniteSubsetsOfFinite
<1>2. PICK M \in F : \A U \in F : <<U, M>> \notin StrictSubsetOrdering(S)
  <2> HIDE DEF F
  <2> QED
    BY <1>1, FS_StrictSubsetOrderingWellFounded, WFMin
<1>3. PICK x \in S : M = below(x)
  OBVIOUS
<1>4. ASSUME NEW y \in below(x) PROVE FALSE
  <2>1. y \in S /\ y.off < x.off
    OBVIOUS
  <2>2. \A z \in S : z.off < y.off => z.off < x.off
    BY <2>1
  <2>3. below(y) \subseteq below(x)
    BY <2>2
  <2>4. y \notin below(y)
    BY <2>1
  <2>5. <<below(y), below(x)>> \in StrictSubsetOrdering(S)
    BY <1>4, <2>3, <2>4 DEF StrictSubsetOrdering
  <2> QED
    BY <1>2, <1>3, <2>1, <2>5
<1>5. below(x) = {}
  BY <1>4
<1>6. Rank(S, x) = Cardinality(below(x))
  BY DEF Rank
<1> QED
  BY <1>5, <1>6, FS_EmptySet

\* readBatch finds an entry whenever a line is pending.
LEMMA PendingIsRead ==
    ASSUME TypeOK, Pending # {}
    PROVE  WalEntries # {}
<1>1. IsFiniteSet(Pending) /\ \A x \in Pending : x.off \in Nat
  BY FS_Subset DEF TypeOK, Pending, Complete, Line
<1>2. PICK x \in Pending : Rank(Pending, x) = 0
  BY <1>1, FirstLine
<1>3. x \in {k \in Pending : Rank(Pending, k) < BatchSize}
  BY <1>2, SettingsAssumption
<1> QED
  BY <1>3 DEF WalEntries

\* The WAL can be read, and an append that fails leaves nothing behind: after a
\* readBatch that could not open the file, or after a torn last line that a
\* compaction completes, the drainer sleeps until the next Enqueue.
CleanFile == {"read", "torn"} \cap Faults = {}

\* Without torn appends a failed append leaves the file as it was.
LEMMA NoResidue ==
    ASSUME CleanFile, NEW t, NEW r, ResidueOK(r), LeaveResidue(t, r)
    PROVE  r = "none" /\ UNCHANGED <<wal, size, torn, cuts>>
<1>1. r = "none"
  BY DEF CleanFile, ResidueOK
<1> QED
  BY <1>1 DEF LeaveResidue, file

\* What WakeupsNeverLost carries over every step: the last line has its newline
\* and no wake is lost.
Awake == TypeOK /\ torn = FALSE /\ NoLostWakeup

\* The newline of the last line is there and no wake is lost, over every step.
LEMMA WakeKept ==
    ASSUME CleanFile, TypeOK, TypeOK', torn = FALSE, NoLostWakeup, Next
    PROVE  torn' = FALSE /\ NoLostWakeup'
<1> USE DEF file, letters, drainer, signals, calls, answers
\* A drainer that is not idle sleeps on nothing.
<1>a. ASSUME pc' # "idle" \/ wake' = TRUE \/ waking' # 0, torn' = FALSE
      PROVE  torn' = FALSE /\ NoLostWakeup'
  BY <1>a DEF NoLostWakeup
<1>1. ASSUME NEW t \in Texts, EnqueueAppends(t)
      PROVE  torn' = FALSE /\ NoLostWakeup'
  <2>1. torn' = FALSE /\ waking' # 0
    BY <1>1 DEF EnqueueAppends, TypeOK
  <2> QED
    BY <2>1, <1>a
<1>2. ASSUME NEW t \in Texts, EnqueueHolds(t)
      PROVE  torn' = FALSE /\ NoLostWakeup'
  <2>1. torn' = torn
    BY <1>2, NoResidue DEF EnqueueHolds
  <2>2. waking' # 0
    BY <1>2 DEF EnqueueHolds, TypeOK
  <2> QED
    BY <2>1, <2>2, <1>a
<1>3. CASE Wake
  BY <1>3, <1>a DEF Wake
<1>4. CASE Close
  BY <1>4 DEF Close, NoLostWakeup, Pending, Complete
<1>5. CASE Drain
  <2>1. CASE ReadBatch
    <3>1. torn' = FALSE /\ size' = size /\ mem' = {}
      BY <2>1 DEF ReadBatch
    <3>2. PICK marked \in SUBSET Unread :
             wal' = (wal \ marked) \cup {Tombstone(l) : l \in marked}
      BY <2>1 DEF ReadBatch
    <3>3. \A l \in marked : Tombstone(l).st = "tomb"
      BY DEF Tombstone, Unread, Complete, TypeOK, Line
    <3>4. Pending' \subseteq Pending
      BY <3>1, <3>2, <3>3 DEF Pending, Complete
    <3>5. ASSUME pc' = "idle" PROVE Pending = {}
      <4>1. WalEntries = {}
        BY <2>1, <3>5 DEF ReadBatch, StartPass
      <4> QED
        BY <4>1, PendingIsRead
    <3> QED
      BY <3>1, <3>4, <3>5 DEF NoLostWakeup
  <2>2. CASE ReadBatchFails
    BY <2>2 DEF ReadBatchFails, Inject, CleanFile
  <2>3. CASE TakeWake \/ StopIdle
    BY <2>3, <1>a DEF TakeWake, StopIdle
  <2>4. ASSUME NEW e \in Round, Deliver(e)
        PROVE  torn' = FALSE /\ NoLostWakeup'
    <3>1. pc = "round" /\ UNCHANGED <<pc, torn>>
      BY <2>4 DEF Deliver, SinkAccepts, SinkRefuses, EmitFails, AnswerLost,
                  DeadLetter, Settle, SettleFails
    <3> QED
      BY <3>1, <1>a
  <2>5. CASE RoundDone
    BY <2>5, <1>a DEF RoundDone, NextRound, LeavePass
  <2>6. CASE WaitDone \/ WaitStopped \/ PassDone
    BY <2>6, <1>a DEF WaitDone, WaitStopped, PassDone, NextRound, LeavePass
  <2> QED
    BY <1>5, <2>1, <2>2, <2>3, <2>4, <2>5, <2>6 DEF Drain
<1>6. CASE Compact
  <2>1. torn' = FALSE /\ UNCHANGED <<pc, wake, waking, mem>>
    BY <1>6 DEF Compact
  <2>2. ASSUME Pending = {} PROVE Pending' = {}
    <3>1. \A l \in Kept : l.st # "live" /\ l \in Line
      BY <2>2 DEF Pending, Complete, Kept, TypeOK
    <3>2. \A l \in Kept : [l EXCEPT !.off = Rank(Kept, l)].st # "live"
      BY <3>1 DEF Line
    <3>3. \A k \in wal' : k.st # "live"
      BY <1>6, <3>2 DEF Compact
    <3> QED
      BY <3>3 DEF Pending, Complete
  <2> QED
    BY <2>1, <2>2 DEF NoLostWakeup
<1>7. CASE Crash
  BY <1>7, <1>a DEF Crash, Restarted
<1>8. ASSUME NEW t \in Texts, CrashInAppend(t)
      PROVE  FALSE
  BY <1>8 DEF CrashInAppend, CleanFile
<1> QED
  BY <1>1, <1>2, <1>3, <1>4, <1>5, <1>6, <1>7, <1>8 DEF Next

\* The drainer never goes to sleep on an event, whatever Enqueue calls, passes,
\* compactions and crashes interleave, as long as the file can be read.
THEOREM WakeupsNeverLost ==
    ASSUME CleanFile
    PROVE  Spec => []NoLostWakeup
<1>1. Init => Awake
  BY InitType DEF Init, NoLostWakeup, Awake
<1>2. Awake /\ [Next]_vars => Awake'
  <2> SUFFICES ASSUME TypeOK, torn = FALSE, NoLostWakeup, [Next]_vars
               PROVE  TypeOK' /\ torn' = FALSE /\ NoLostWakeup'
    BY DEF Awake
  <2>1. TypeOK'
    BY NextType
  <2>2. CASE Next
    BY <2>1, <2>2, WakeKept
  <2>3. CASE UNCHANGED vars
    BY <2>1, <2>3 DEF vars, file, drainer, signals, NoLostWakeup, Pending, Complete
  <2> QED
    BY <2>2, <2>3
<1>3. Awake => NoLostWakeup
  BY DEF Awake
<1> QED
  BY <1>1, <1>2, <1>3, PTL DEF Spec

-----------------------------------------------------------------------------
(* What leaves the WAL unsent is on record.                                 *)

\* The dead-letter file can be opened.  When it cannot, deadLetterWAL logs the
\* error and the settling goes on: a refused event is then tombstoned and a cut
\* line dropped without a record.
DeadLettersOpen == "deadopen" \notin Faults

\* The entries whose tombstone is the next thing their goroutine writes.
ToTomb(t) ==
    {e \in batch : ~e.mem /\ e.text = t /\ e.st \in {"ok", "dead"}}

\* Every tombstone used up a 2xx answer or a dead-letter record of its text, and
\* those of the entries still to be tombstoned are not used up.
TombsRecorded ==
    \A t \in Texts : tombed[t] + Cardinality(ToTomb(t)) <= accepted[t] + dead[t]

\* The lines a failed append cut that are still in the WAL.
CutLines == {l \in wal : l.st = "bad"}

\* Every line a failed append cut is in the WAL or has a dead-letter record.
CutsRecorded == cuts <= Cardinality(CutLines) + deadCut

\* A set that loses a member counts one less, one that gains a member at most
\* one more.
LEMMA CountChange ==
    ASSUME NEW U, IsFiniteSet(U), NEW V, NEW x
    PROVE  /\ Cardinality(U) \in Nat
           /\ V \subseteq U => Cardinality(V) \in Nat /\ Cardinality(V) <= Cardinality(U)
           /\ V \subseteq U \cup {x}
                => Cardinality(V) \in Nat /\ Cardinality(V) <= Cardinality(U) + 1
           /\ V \subseteq U \ {x} /\ x \in U
                => Cardinality(V) \in Nat /\ Cardinality(V) <= Cardinality(U) - 1
<1>1. Cardinality(U) \in Nat
  BY FS_CardinalityType
<1>2. ASSUME V \subseteq U
      PROVE  Cardinality(V) \in Nat /\ Cardinality(V) <= Cardinality(U)
  BY <1>2, FS_Subset, FS_CardinalityType
<1>3. ASSUME V \subseteq U \cup {x}
      PROVE  Cardinality(V) \in Nat /\ Cardinality(V) <= Cardinality(U) + 1
  <2> DEFINE W == U \cup {x}
  <2>1. IsFiniteSet(W) /\ Cardinality(W) \in {Cardinality(U), Cardinality(U) + 1}
    BY FS_AddElement
  <2> HIDE DEF W
  <2>2. Cardinality(V) \in Nat /\ Cardinality(V) <= Cardinality(W)
    BY <1>3, <2>1, FS_Subset, FS_CardinalityType DEF W
  <2> QED
    BY <1>1, <2>1, <2>2
<1>4. ASSUME V \subseteq U \ {x}, x \in U
      PROVE  Cardinality(V) \in Nat /\ Cardinality(V) <= Cardinality(U) - 1
  <2> DEFINE W == U \ {x}
  <2>1. IsFiniteSet(W) /\ Cardinality(W) = Cardinality(U) - 1
    BY <1>4, FS_RemoveElement
  <2> HIDE DEF W
  <2>2. Cardinality(V) \in Nat /\ Cardinality(V) <= Cardinality(W)
    BY <1>4, <2>1, FS_Subset, FS_CardinalityType DEF W
  <2> QED
    BY <2>1, <2>2
<1> QED
  BY <1>1, <1>2, <1>3, <1>4

\* A delivery step tombstones nothing that is not on record.
LEMMA DeliverRecorded ==
    ASSUME DeadLettersOpen, TypeOK, TypeOK', TombsRecorded,
           NEW e \in Round, Deliver(e)
    PROVE  TombsRecorded'
<1> USE DEF file, letters, drainer, signals, calls, answers
<1>1. e \in batch /\ e \in Entry /\ e.text \in Texts /\ e.mem \in BOOLEAN
  BY DEF Round, TypeOK, Entry
<1> SUFFICES ASSUME NEW t \in Texts
             PROVE  tombed'[t] + Cardinality(ToTomb(t)') <= accepted'[t] + dead'[t]
  BY DEF TombsRecorded
<1> DEFINE U == ToTomb(t)
           V == ToTomb(t)'
<1>2. IsFiniteSet(U)
  BY FS_Subset DEF ToTomb, TypeOK
<1>3. tombed[t] + Cardinality(U) <= accepted[t] + dead[t]
  BY DEF TombsRecorded
<1>4. /\ tombed[t] \in Nat /\ accepted[t] \in Nat /\ dead[t] \in Nat
      /\ tombed'[t] \in Nat /\ accepted'[t] \in Nat /\ dead'[t] \in Nat
  BY DEF TypeOK
<1>5. ASSUME NEW s \in EntryState, batch' = Move(e, s)
      PROVE  /\ V \subseteq U \cup {[e EXCEPT !.st = s]}
             /\ e.text # t => V \subseteq U
             /\ s \notin {"ok", "dead"} => V \subseteq U \ {e}
  BY <1>1, <1>5 DEF Move, ToTomb, Entry
<1> HIDE DEF U, V
<1>c. /\ V \subseteq U => Cardinality(V) \in Nat /\ Cardinality(V) <= Cardinality(U)
      /\ \A x : V \subseteq U \cup {x}
           => Cardinality(V) \in Nat /\ Cardinality(V) <= Cardinality(U) + 1
      /\ \A x : V \subseteq U \ {x} /\ x \in U
           => Cardinality(V) \in Nat /\ Cardinality(V) <= Cardinality(U) - 1
      /\ Cardinality(U) \in Nat
  BY <1>2, CountChange
\* A 2xx answer, or a dead-letter record, of e's text.
<1>6. CASE SinkAccepts(e) \/ DeadLetter(e)
  <2>1. PICK s \in {"ok", "dead"} : batch' = Move(e, s)
    BY <1>6 DEF SinkAccepts, DeadLetter
  <2>2. tombed' = tombed
    BY <1>6 DEF SinkAccepts, DeadLetter
  <2>3. \/ accepted' = [accepted EXCEPT ![e.text] = @ + 1] /\ dead' = dead
        \/ dead' = [dead EXCEPT ![e.text] = @ + 1] /\ accepted' = accepted
    BY <1>6 DEF SinkAccepts, DeadLetter, Inject, DeadLettersOpen
  <2>4. CASE e.text = t
    <3>1. accepted'[t] + dead'[t] = accepted[t] + dead[t] + 1
      BY <2>3, <2>4, <1>1, <1>4 DEF TypeOK
    <3>2. Cardinality(V) \in Nat /\ Cardinality(V) <= Cardinality(U) + 1
      BY <2>1, <1>5, <1>c DEF EntryState
    <3> QED
      BY <1>3, <1>4, <1>c, <2>2, <3>1, <3>2 DEF V
  <2>5. CASE e.text # t
    <3>1. accepted'[t] = accepted[t] /\ dead'[t] = dead[t]
      BY <2>3, <2>5, <1>1 DEF TypeOK
    <3>2. Cardinality(V) \in Nat /\ Cardinality(V) <= Cardinality(U)
      BY <2>1, <2>5, <1>5, <1>c DEF EntryState
    <3> QED
      BY <1>3, <1>4, <1>c, <2>2, <3>1, <3>2 DEF V
  <2> QED
    BY <2>4, <2>5
\* A refusal, or a delivery given up.
<1>7. CASE SinkRefuses(e) \/ EmitFails(e) \/ AnswerLost(e) \/ SettleFails(e)
  <2>1. PICK s \in {"refused", "failed"} : batch' = Move(e, s)
    BY <1>7 DEF SinkRefuses, EmitFails, AnswerLost, SettleFails
  <2>2. tombed' = tombed /\ dead' = dead
    BY <1>7 DEF SinkRefuses, EmitFails, AnswerLost, SettleFails
  <2>3. accepted[t] <= accepted'[t]
    BY <1>7, <1>1 DEF SinkRefuses, EmitFails, AnswerLost, SettleFails, TypeOK
  <2>4. Cardinality(V) \in Nat /\ Cardinality(V) <= Cardinality(U)
    BY <2>1, <1>5, <1>c DEF EntryState
  <2> QED
    BY <1>3, <1>4, <1>c, <2>2, <2>3, <2>4 DEF V
\* The tombstone.
<1>8. CASE Settle(e)
  <2>1. /\ e.st \in {"ok", "dead"} /\ batch' = Move(e, "settled")
        /\ UNCHANGED <<accepted, dead>>
    BY <1>8 DEF Settle
  <2>2. V \subseteq U \ {e}
    BY <2>1, <1>5 DEF EntryState
  <2>3. CASE e.text = t /\ ~e.mem
    <3>1. e \in U
      BY <1>1, <2>1, <2>3 DEF U, ToTomb
    <3>2. tombed'[t] \in {tombed[t], tombed[t] + 1}
      BY <1>8, <2>3 DEF Settle, TypeOK
    <3> QED
      BY <1>3, <1>4, <1>c, <2>1, <2>2, <3>1, <3>2 DEF V
  <2>4. CASE ~(e.text = t /\ ~e.mem)
    <3>1. tombed'[t] = tombed[t]
      BY <1>8, <2>4 DEF Settle, TypeOK
    <3>2. Cardinality(V) \in Nat /\ Cardinality(V) <= Cardinality(U)
      BY <2>2, <1>c
    <3> QED
      BY <1>3, <1>4, <1>c, <2>1, <3>1, <3>2 DEF V
  <2> QED
    BY <2>3, <2>4
<1> QED
  BY <1>6, <1>7, <1>8 DEF Deliver

\* Every tombstone is on record, over every step.
LEMMA TombsStayRecorded ==
    ASSUME DeadLettersOpen, TypeOK, TypeOK', TombsRecorded, Next
    PROVE  TombsRecorded'
<1> USE DEF file, letters, drainer, signals, calls, answers
<1>s. ASSUME UNCHANGED <<batch, tombed, accepted, dead>>
      PROVE  TombsRecorded'
  BY <1>s DEF TombsRecorded, ToTomb
<1>f. ASSUME UNCHANGED <<tombed, accepted, dead>>,
             \A e \in batch' : e.st = "queued"
      PROVE  TombsRecorded'
  <2> SUFFICES ASSUME NEW t \in Texts
               PROVE  tombed[t] + Cardinality(ToTomb(t)') <= accepted[t] + dead[t]
    BY <1>f DEF TombsRecorded
  <2>1. ToTomb(t)' = {}
    BY <1>f DEF ToTomb
  <2>2. Cardinality(ToTomb(t)') = 0
    BY <2>1, FS_EmptySet
  <2>3. Cardinality(ToTomb(t)) \in Nat
    BY FS_Subset, FS_CardinalityType DEF ToTomb, TypeOK
  <2> QED
    BY <2>2, <2>3 DEF TombsRecorded, TypeOK
<1>1. ASSUME NEW t \in Texts, EnqueueAppends(t) \/ EnqueueHolds(t)
      PROVE  TombsRecorded'
  BY <1>1, <1>s DEF EnqueueAppends, EnqueueHolds
<1>2. ASSUME NEW t \in Texts, CrashInAppend(t)
      PROVE  TombsRecorded'
  BY <1>2, <1>f DEF CrashInAppend, Restarted
<1>3. CASE Wake \/ Close \/ Compact
  BY <1>3, <1>s DEF Wake, Close, Compact
<1>4. CASE Crash
  BY <1>4, <1>f DEF Crash, Restarted
<1>5. CASE Drain
  <2>1. CASE ReadBatch \/ ReadBatchFails
    <3>1. \A e \in batch' : e.st = "queued"
      BY <2>1, ReadQueued
    <3>2. UNCHANGED <<tombed, accepted, dead>>
      BY <2>1 DEF ReadBatch, ReadBatchFails
    <3> QED
      BY <3>1, <3>2, <1>f
  <2>2. CASE TakeWake \/ StopIdle \/ WaitDone
    BY <2>2, <1>s DEF TakeWake, StopIdle, WaitDone
  <2>3. CASE WaitStopped \/ PassDone
    BY <2>3, <1>f DEF WaitStopped, PassDone, LeavePass
  <2>4. CASE RoundDone
    <3>1. batch' = batch \/ batch' = {}
      BY <2>4 DEF RoundDone, LeavePass
    <3>2. UNCHANGED <<tombed, accepted, dead>>
      BY <2>4 DEF RoundDone
    <3> QED
      BY <3>1, <3>2, <1>s, <1>f
  <2>5. CASE \E e \in Round : Deliver(e)
    BY <2>5, DeliverRecorded
  <2> QED
    BY <1>5, <2>1, <2>2, <2>3, <2>4, <2>5 DEF Drain
<1> QED
  BY <1>1, <1>2, <1>3, <1>4, <1>5 DEF Next

\* A residue that cuts a line adds that line.
LEMMA ResidueCuts ==
    ASSUME TypeOK, OffsetsOK, CutsRecorded, NEW t, NEW r \in Residues,
           LeaveResidue(t, r), deadCut' = deadCut
    PROVE  CutsRecorded'
<1>1. IsFiniteSet(CutLines) /\ Cardinality(CutLines) \in Nat
  BY FS_Subset, FS_CardinalityType DEF CutLines, TypeOK
<1>2. CASE r = "cut"
  <2> DEFINE l == [off |-> size, text |-> t, st |-> "bad"]
  <2>1. wal' = wal \cup {l} /\ cuts' = cuts + 1 /\ l.st = "bad" /\ l.off = size
    BY <1>2 DEF LeaveResidue
  <2> HIDE DEF l
  <2>2. l \notin wal
    BY <2>1 DEF OffsetsOK, TypeOK, Line
  <2>3. CutLines' = CutLines \cup {l} /\ l \notin CutLines
    BY <2>1, <2>2 DEF CutLines
  <2>4. Cardinality(CutLines') = Cardinality(CutLines) + 1
    BY <1>1, <2>3, FS_AddElement
  <2> QED
    BY <1>1, <2>1, <2>4 DEF CutsRecorded, TypeOK
<1>3. CASE r # "cut"
  <2>1. cuts' = cuts /\ CutLines' = CutLines
    <3>1. CASE r = "whole"
      BY <3>1 DEF LeaveResidue, CutLines
    <3>2. CASE r \in {"none", "newline"}
      BY <3>2 DEF LeaveResidue, CutLines, file
    <3> QED
      BY <1>3, <3>1, <3>2 DEF Residues
  <2> QED
    BY <2>1 DEF CutsRecorded
<1> QED
  BY <1>2, <1>3

\* Compaction keeps the lines it cannot decode.
LEMMA CompactCuts ==
    ASSUME TypeOK, OffsetsOK, CutsRecorded, Compact
    PROVE  CutsRecorded'
<1> DEFINE move(l) == [l EXCEPT !.off = Rank(Kept, l)]
<1>1. wal' = {move(l) : l \in Kept} /\ UNCHANGED <<cuts, deadCut>>
  BY DEF Compact, calls, letters
<1>2. \A l \in Kept : move(l).st = l.st
  BY DEF Kept, TypeOK, Line
<1>3. CutLines \in SUBSET Kept
  BY DEF CutLines, Kept
<1> HIDE DEF move
<1>4. CutLines' = {move(l) : l \in CutLines}
  BY <1>1, <1>2, <1>3 DEF CutLines, Kept
<1>5. Cardinality(CutLines') = Cardinality(CutLines)
  BY <1>3, <1>4, CompactCount DEF move
<1> QED
  BY <1>1, <1>5 DEF CutsRecorded

\* Every cut line is in the WAL or on record, over every step.
LEMMA CutsStayRecorded ==
    ASSUME DeadLettersOpen, TypeOK, TypeOK', OffsetsOK, CutsRecorded, Next
    PROVE  CutsRecorded'
<1> USE DEF file, letters, drainer, signals, calls, answers
<1>s. ASSUME UNCHANGED <<wal, cuts, deadCut>>
      PROVE  CutsRecorded'
  BY <1>s DEF CutsRecorded, CutLines
<1>0. IsFiniteSet(CutLines) /\ Cardinality(CutLines) \in Nat
  BY FS_Subset, FS_CardinalityType DEF CutLines, TypeOK
<1>1. ASSUME NEW t \in Texts, EnqueueAppends(t)
      PROVE  CutsRecorded'
  <2>1. CutLines' = CutLines /\ UNCHANGED <<cuts, deadCut>>
    BY <1>1 DEF EnqueueAppends, CutLines
  <2> QED
    BY <2>1 DEF CutsRecorded
<1>2. ASSUME NEW t \in Texts, EnqueueHolds(t)
      PROVE  CutsRecorded'
  BY <1>2, ResidueCuts DEF EnqueueHolds
<1>3. ASSUME NEW t \in Texts, CrashInAppend(t)
      PROVE  CutsRecorded'
  BY <1>3, ResidueCuts DEF CrashInAppend
<1>4. CASE Wake \/ Close \/ Crash
  BY <1>4, <1>s DEF Wake, Close, Crash
<1>5. CASE Compact
  BY <1>5, CompactCuts
<1>6. CASE Drain
  <2>1. CASE ReadBatch
    <3>1. PICK marked \in SUBSET Unread :
             /\ wal' = (wal \ marked) \cup {Tombstone(l) : l \in marked}
             /\ deadCut' = deadCut + Cardinality(Unread)
      BY <2>1 DEF ReadBatch, DeadLettersOpen
    <3>2. \A l \in marked : Tombstone(l).st = "tomb"
      BY DEF Tombstone, Unread, Complete, TypeOK, Line
    <3>3. CutLines' = CutLines \ marked /\ Unread \subseteq CutLines
      BY <3>1, <3>2 DEF CutLines, Unread, Complete
    <3>4. IsFiniteSet(Unread) /\ Cardinality(Unread) \in Nat
      BY <1>0, <3>3, FS_Subset, FS_CardinalityType
    <3>5. Cardinality(CutLines \cap marked) <= Cardinality(Unread)
          /\ Cardinality(CutLines \cap marked) \in Nat
      BY <3>4, FS_Subset, FS_CardinalityType
    <3>6. Cardinality(CutLines') = Cardinality(CutLines) - Cardinality(CutLines \cap marked)
      BY <1>0, <3>3, FS_Difference
    <3>7. cuts' = cuts
      BY <2>1 DEF ReadBatch
    <3> QED
      BY <1>0, <3>1, <3>4, <3>5, <3>6, <3>7 DEF CutsRecorded, TypeOK
  <2>2. CASE ReadBatchFails \/ TakeWake \/ StopIdle
    BY <2>2, <1>s DEF ReadBatchFails, TakeWake, StopIdle
  <2>3. CASE RoundDone \/ WaitDone \/ WaitStopped \/ PassDone
    BY <2>3, <1>s DEF RoundDone, WaitDone, WaitStopped, PassDone
  <2>4. ASSUME NEW e \in Round, Deliver(e)
        PROVE  CutsRecorded'
    <3>1. CASE Settle(e)
      <4>1. UNCHANGED <<cuts, deadCut>>
        BY <3>1 DEF Settle
      <4>2. CASE e.mem
        BY <3>1, <4>1, <4>2, <1>s DEF Settle
      <4>3. CASE ~e.mem
        <5> DEFINE found == Locate(e.text, e.off)
        <5>1. wal' = (wal \ found) \cup {Tombstone(l) : l \in found}
          BY <3>1, <4>3 DEF Settle
        <5>2. \A l \in found : l.st = "live" /\ Tombstone(l).st = "tomb"
          BY DEF Locate, LiveOf, Tombstone, TypeOK, Line
        <5> HIDE DEF found
        <5>3. CutLines' = CutLines
          BY <5>1, <5>2 DEF CutLines
        <5> QED
          BY <4>1, <5>3 DEF CutsRecorded
      <4> QED
        BY <4>2, <4>3
    <3>2. CASE \/ SinkAccepts(e) \/ SinkRefuses(e) \/ EmitFails(e)
               \/ AnswerLost(e) \/ DeadLetter(e) \/ SettleFails(e)
      BY <3>2, <1>s DEF SinkAccepts, SinkRefuses, EmitFails, AnswerLost,
                        DeadLetter, SettleFails
    <3> QED
      BY <2>4, <3>1, <3>2 DEF Deliver
  <2> QED
    BY <1>6, <2>1, <2>2, <2>3, <2>4 DEF Drain
<1> QED
  BY <1>1, <1>2, <1>3, <1>4, <1>5, <1>6 DEF Next

\* What RecordsNeverMissing carries over every step.
Recorded == TypeOK /\ Accounted /\ TombsRecorded /\ CutsRecorded

\* What leaves the WAL unsent is on record, whatever is refused, cut, compacted
\* or crashed, as long as the dead-letter file can be opened.
THEOREM RecordsNeverMissing ==
    ASSUME DeadLettersOpen
    PROVE  Spec => []NothingVanishes
<1>1. Init => Recorded
  <2> SUFFICES ASSUME Init PROVE Recorded
    OBVIOUS
  <2>1. \A t : ToTomb(t) = {}
    BY DEF Init, ToTomb
  <2>2. CutLines = {}
    BY DEF Init, CutLines
  <2>3. Cardinality({}) = 0
    BY FS_EmptySet
  <2>4. TypeOK /\ Accounted
    BY InitType, InitAccounted
  <2>5. TombsRecorded
    BY <2>1, <2>3 DEF Init, TombsRecorded
  <2>6. CutsRecorded
    BY <2>2, <2>3 DEF Init, CutsRecorded
  <2> QED
    BY <2>4, <2>5, <2>6 DEF Recorded
<1>2. Recorded /\ [Next]_vars => Recorded'
  <2> SUFFICES ASSUME Recorded, [Next]_vars
               PROVE  Recorded'
    OBVIOUS
  <2>1. TypeOK'
    BY NextType DEF Recorded
  <2>2. CASE Next
    BY <2>1, <2>2, FileAccounted, TombsAccounted, TombsStayRecorded,
       CutsStayRecorded DEF Recorded, Accounted
  <2>3. CASE UNCHANGED vars
    BY <2>1, <2>3 DEF vars, file, letters, drainer, calls, answers, Recorded,
                      Accounted, OffsetsOK, AppendsAccounted, TombsAnswered, LiveOf,
                      Unsettled, TombsRecorded, ToTomb, CutsRecorded, CutLines
  <2> QED
    BY <2>2, <2>3
<1>3. Recorded => NothingVanishes
  <2> SUFFICES ASSUME Recorded PROVE NothingVanishes
    OBVIOUS
  <2>1. \A t \in Texts : Cardinality(ToTomb(t)) \in Nat
    BY FS_Subset, FS_CardinalityType DEF ToTomb, TypeOK, Recorded
  <2> QED
    BY <2>1 DEF Recorded, TypeOK, TombsRecorded, CutsRecorded, CutLines, NothingVanishes
<1> QED
  BY <1>1, <1>2, <1>3, PTL DEF Spec

-----------------------------------------------------------------------------
(* The discipline of the drainer.                                           *)

\* An entry with an answer of the sink that is not settled yet.
Busy == {"ok", "refused", "dead"}

\* An entry that is not settled yet.
Owed == EntryState \ {"settled"}

\* The entries of the batch with a text of T and a state of S: those read from
\* memory ("mem"), or those read from the WAL ("wal").
Entries(k, T, S) ==
    {e \in batch : (e.mem <=> k = "mem") /\ e.text \in T /\ e.st \in S}

\* The events in memory with a text of T.
MemOf(T) == {m \in mem : m.text \in T}

\* A goroutine holds an answer only while its round runs.
BusyInRound == \A e \in batch : e.st \in Busy => pc = "round" /\ e \in Round

\* Between two passes there is no batch.
IdleEmpty == pc \in {"read", "idle", "exited"} => batch = {}

\* Entries of the batch are distinct events: lines by offset, events from
\* memory by position.
EntriesDistinct ==
    \A e, f \in batch :
        /\ e.mem = f.mem
        /\ e.mem => e.pos = f.pos
        /\ ~e.mem => e.off = f.off
        => e = f

\* memCh holds its events at the positions 1, 2, ...
MemOrdered ==
    \A m \in mem : /\ m.pos >= 1 /\ m.pos <= Cardinality(mem)
                   /\ \A k \in mem : k.pos = m.pos => k = m

\* Every unsettled WAL entry still has a line to tombstone.
LinesForEntries ==
    \A t \in Texts :
        Cardinality(Entries("wal", {t}, Owed)) <= Cardinality(LiveOf(t))

\* The sets the invariants count are finite.
LEMMA EntriesType ==
    ASSUME TypeOK, NEW k, NEW T, NEW S
    PROVE  /\ IsFiniteSet(Entries(k, T, S)) /\ Cardinality(Entries(k, T, S)) \in Nat
           /\ IsFiniteSet(MemOf(T)) /\ Cardinality(MemOf(T)) \in Nat
<1>1. IsFiniteSet(Entries(k, T, S)) /\ IsFiniteSet(MemOf(T))
  BY FS_Subset DEF TypeOK, Entries, MemOf
<1> QED
  BY <1>1, FS_CardinalityType

\* What the move of an entry to another state does to the counts.
LEMMA MoveCount ==
    ASSUME TypeOK, EntriesDistinct, NEW e \in batch, NEW s \in EntryState,
           batch' = Move(e, s), NEW k, NEW T, NEW S
    PROVE  LET own == (e.mem <=> k = "mem") /\ e.text \in T
           IN  Cardinality(Entries(k, T, S)')
                 = Cardinality(Entries(k, T, S))
                   - (IF own /\ e.st \in S THEN 1 ELSE 0)
                   + (IF own /\ s \in S THEN 1 ELSE 0)
<1> DEFINE d == [e EXCEPT !.st = s]
           own == (e.mem <=> k = "mem") /\ e.text \in T
           X == Entries(k, T, S)
           Y == X \ {e}
<1>1. e \in Entry /\ d \in Entry /\ d.mem = e.mem /\ d.text = e.text
      /\ d.pos = e.pos /\ d.off = e.off /\ d.st = s
  BY DEF TypeOK, Entry
<1>2. d \notin batch \ {e}
  BY <1>1 DEF EntriesDistinct, TypeOK, Entry
<1>3. Entries(k, T, S)' = IF own /\ s \in S THEN Y \cup {d} ELSE Y
  BY <1>1 DEF Entries, Move
<1>4. d \notin Y
  BY <1>2 DEF Entries
<1>5. e \in X <=> own /\ e.st \in S
  BY DEF Entries
<1>6. IsFiniteSet(X) /\ Cardinality(X) \in Nat
  BY EntriesType
<1> HIDE DEF d, own, X
<1>7. IsFiniteSet(Y) /\ Cardinality(Y) = IF e \in X THEN Cardinality(X) - 1
                                         ELSE Cardinality(X)
  BY <1>6, FS_RemoveElement
<1> HIDE DEF Y
<1>8. Cardinality(Y \cup {d}) = Cardinality(Y) + 1
  BY <1>4, <1>7, FS_AddElement
<1>9. Cardinality(Entries(k, T, S)')
        = Cardinality(X) - (IF own /\ e.st \in S THEN 1 ELSE 0)
          + (IF own /\ s \in S THEN 1 ELSE 0)
  BY <1>3, <1>5, <1>6, <1>7, <1>8
<1> QED
  BY <1>9 DEF own, X

\* An entry of the round stays one entry of the round, in another state.
LEMMA DeliverMoves ==
    ASSUME TypeOK, NEW e \in Round, Deliver(e)
    PROVE  /\ pc = "round" /\ UNCHANGED <<pc, cursor, mem, size, torn, waking, wake>>
           /\ \E s \in EntryState : batch' = Move(e, s)
BY DEF Deliver, SinkAccepts, SinkRefuses, EmitFails, AnswerLost, DeadLetter,
       Settle, SettleFails, EntryState, file, letters, drainer, signals, calls,
       answers

\* The phases of a pass are kept over every step.
LEMMA PhasesKept ==
    ASSUME TypeOK, BusyInRound, IdleEmpty, Next
    PROVE  BusyInRound' /\ IdleEmpty'
<1> USE DEF file, letters, drainer, signals, calls, answers
<1>s. ASSUME UNCHANGED <<batch, pc, cursor>>
      PROVE  BusyInRound' /\ IdleEmpty'
  BY <1>s DEF BusyInRound, IdleEmpty, Round
<1>e. ASSUME batch' = {}
      PROVE  BusyInRound' /\ IdleEmpty'
  BY <1>e DEF BusyInRound, IdleEmpty
<1>1. ASSUME NEW t \in Texts, EnqueueAppends(t) \/ EnqueueHolds(t)
      PROVE  BusyInRound' /\ IdleEmpty'
  BY <1>1, <1>s DEF EnqueueAppends, EnqueueHolds
<1>2. ASSUME NEW t \in Texts, CrashInAppend(t)
      PROVE  BusyInRound' /\ IdleEmpty'
  BY <1>2, <1>e DEF CrashInAppend, Restarted
<1>3. CASE Wake \/ Close \/ Compact
  BY <1>3, <1>s DEF Wake, Close, Compact
<1>4. CASE Crash
  BY <1>4, <1>e DEF Crash, Restarted
<1>5. CASE ReadBatch \/ ReadBatchFails
  <2>1. BusyInRound'
    BY <1>5, ReadQueued DEF BusyInRound, Busy
  <2>2. IdleEmpty'
    BY <1>5 DEF ReadBatch, ReadBatchFails, StartPass, IdleEmpty
  <2> QED
    BY <2>1, <2>2
<1>6. CASE TakeWake \/ StopIdle
  BY <1>6, <1>e DEF TakeWake, StopIdle, IdleEmpty
<1>7. ASSUME NEW e \in Round, Deliver(e)
      PROVE  BusyInRound' /\ IdleEmpty'
  <2>1. PICK s \in EntryState : batch' = Move(e, s)
    BY <1>7, DeliverMoves
  <2>2. pc = "round" /\ pc' = "round" /\ cursor' = cursor
    BY <1>7, DeliverMoves
  <2>3. [e EXCEPT !.st = s].pos = e.pos /\ e \in batch
    BY DEF Round, TypeOK, Entry
  <2>4. \A f \in batch' : f.st \in Busy => f \in Round'
    BY <2>1, <2>2, <2>3 DEF Move, Round, BusyInRound
  <2> QED
    BY <2>2, <2>4 DEF BusyInRound, IdleEmpty
<1>n. ASSUME \A e \in batch : e.st \notin Busy, UNCHANGED batch,
             pc' \notin {"read", "idle", "exited"}
      PROVE  BusyInRound' /\ IdleEmpty'
  BY <1>n DEF BusyInRound, IdleEmpty
<1>8. CASE RoundDone
  <2>1. \A e \in batch : e.st \notin Busy
    BY <1>8 DEF RoundDone, BusyInRound, Busy
  <2>2. batch' = {} \/ (UNCHANGED batch /\ pc' \notin {"read", "idle", "exited"})
    <3>1. \/ UNCHANGED batch /\ NextRound
          \/ LeavePass("exited")
          \/ UNCHANGED batch /\ pc' = "wait"
      BY <1>8 DEF RoundDone
    <3>2. NextRound => pc' \in {"round", "end"}
      BY DEF NextRound
    <3>3. LeavePass("exited") => batch' = {}
      BY DEF LeavePass
    <3> QED
      BY <3>1, <3>2, <3>3
  <2> QED
    BY <2>1, <2>2, <1>n, <1>e
<1>9. CASE WaitDone
  <2>1. \A e \in batch : e.st \notin Busy
    BY <1>9 DEF WaitDone, BusyInRound
  <2>2. UNCHANGED batch /\ pc' \notin {"read", "idle", "exited"}
    BY <1>9 DEF WaitDone, NextRound
  <2> QED
    BY <2>1, <2>2, <1>n
<1>10. CASE WaitStopped \/ PassDone
  BY <1>10, <1>e DEF WaitStopped, PassDone, LeavePass
<1> QED
  BY <1>1, <1>2, <1>3, <1>4, <1>5, <1>6, <1>7, <1>8, <1>9, <1>10 DEF Next, Drain

\* What returnMemory puts back into memCh, the slot each event would take, and the
\* events for which there is one.
Back == Entries("mem", Texts, Owed)
Slot(e) == Cardinality(mem) + Cardinality({b \in Back : b.pos <= e.pos})
Fits == {b \in Back : Slot(b) <= MemCap}

\* Slots are free and different, in the order of the batch.
LEMMA SlotsFree ==
    ASSUME TypeOK, EntriesDistinct
    PROVE  /\ \A e \in Back : /\ Slot(e) \in Nat /\ Slot(e) > Cardinality(mem)
                              /\ Slot(e) <= Cardinality(mem) + Cardinality(Back)
           /\ \A e, f \in Back : Slot(e) = Slot(f) => e = f
           /\ \A e \in Fits : Slot(e) <= Cardinality(mem) + Cardinality(Fits)
<1> DEFINE upto(e) == {b \in Back : b.pos <= e.pos}
<1>1. IsFiniteSet(Back) /\ Cardinality(Back) \in Nat /\ Cardinality(mem) \in Nat
  BY EntriesType, FS_CardinalityType DEF Back, TypeOK
<1>2. \A e \in Back : e.pos \in Nat /\ e \in batch /\ e.mem
  BY DEF Back, Entries, TypeOK, Entry
<1>3. \A e : IsFiniteSet(upto(e)) /\ Cardinality(upto(e)) \in Nat
             /\ Cardinality(upto(e)) <= Cardinality(Back)
  <2> TAKE e
  <2>1. upto(e) \in SUBSET Back
    OBVIOUS
  <2> HIDE DEF upto
  <2> QED
    BY <1>1, <2>1, FS_Subset, FS_CardinalityType
<1>4. \A e : Slot(e) = Cardinality(mem) + Cardinality(upto(e))
  BY DEF Slot
<1>5. \A e \in Back : Cardinality(upto(e)) # 0
  <2> TAKE e \in Back
  <2>1. e \in upto(e)
    BY <1>2
  <2> HIDE DEF upto
  <2> QED
    BY <1>3, <2>1, FS_EmptySet
<1>6. \A e, f \in Back : e.pos <= f.pos =>
        Cardinality(upto(e)) <= Cardinality(upto(f))
  <2> TAKE e, f \in Back
  <2> HAVE e.pos <= f.pos
  <2>1. upto(e) \in SUBSET upto(f)
    BY <1>2
  <2> HIDE DEF upto
  <2> QED
    BY <1>3, <2>1, FS_Subset
<1>7. \A e, f \in Back : e.pos < f.pos =>
        Cardinality(upto(e)) # Cardinality(upto(f))
  <2> TAKE e, f \in Back
  <2> HAVE e.pos < f.pos
  <2>1. upto(e) \in SUBSET upto(f) /\ f \in upto(f) /\ f \notin upto(e)
    BY <1>2
  <2> HIDE DEF upto
  <2> QED
    BY <1>3, <2>1, FS_Subset
<1>8. \A e, f \in Back : Slot(e) = Slot(f) => e = f
  <2> TAKE e, f \in Back
  <2> HAVE Slot(e) = Slot(f)
  <2>1. Cardinality(upto(e)) = Cardinality(upto(f))
    <3> HIDE DEF upto
    <3> QED
      BY <1>1, <1>3, <1>4
  <2>2. ~(e.pos < f.pos) /\ ~(f.pos < e.pos)
    BY <1>7, <2>1
  <2>3. e.pos = f.pos
    BY <1>2, <2>2
  <2> QED
    BY <1>2, <2>3 DEF EntriesDistinct
<1>9. \A e \in Fits : Cardinality(upto(e)) <= Cardinality(Fits)
  <2> TAKE e \in Fits
  <2>1. e \in Back /\ Slot(e) <= MemCap /\ MemCap \in Nat
    BY SettingsAssumption DEF Fits
  <2>2. \A b \in upto(e) : b \in Back /\ b.pos <= e.pos
    OBVIOUS
  <2> HIDE DEF upto
  <2>3. \A b \in upto(e) : Slot(b) <= MemCap
    BY <1>1, <1>3, <1>4, <1>6, <2>1, <2>2
  <2>4. upto(e) \in SUBSET Fits
    BY <2>2, <2>3 DEF Fits
  <2>5. IsFiniteSet(Fits)
    BY <1>1, FS_Subset DEF Fits
  <2> QED
    BY <2>4, <2>5, FS_Subset
<1> HIDE DEF upto
<1>10. Fits \subseteq Back /\ Cardinality(Fits) \in Nat
  BY <1>1, FS_Subset, FS_CardinalityType DEF Fits
<1> QED
  BY <1>1, <1>3, <1>4, <1>5, <1>8, <1>9, <1>10

\* returnMemory puts events back at free positions, and all of them when memCh
\* has room.
LEMMA ReturnExact ==
    ASSUME TypeOK, EntriesDistinct, MemOrdered, ReturnMemory, NEW T
    PROVE  /\ MemOrdered'
           /\ Cardinality(MemOf(T)')
                <= Cardinality(MemOf(T)) + Cardinality(Entries("mem", T, Owed))
           /\ Cardinality(mem) + Cardinality(Back) <= MemCap
                => Cardinality(MemOf(T)')
                     = Cardinality(MemOf(T)) + Cardinality(Entries("mem", T, Owed))
<1> DEFINE g(e) == [pos |-> Slot(e), text |-> e.text]
           FT(U) == {e \in Fits : e.text \in U}
           G(U) == {g(e) : e \in FT(U)}
<1>1. Back = {e \in batch : e.mem /\ e.st # "settled"}
  BY DEF Back, Entries, Owed, TypeOK, Entry
<1>2. mem' = mem \cup {g(e) : e \in Fits}
  <2>1. \A e : Slot(e) = Cardinality(mem)
                  + Cardinality({b \in {x \in batch : x.mem /\ x.st # "settled"} :
                                   b.pos <= e.pos})
    BY <1>1 DEF Slot
  <2> QED
    BY <1>1, <2>1 DEF ReturnMemory, Fits
<1>3. IsFiniteSet(Fits) /\ Fits \subseteq Back /\ \A e \in Fits : e.text \in Texts
  <2>1. IsFiniteSet(Back)
    BY EntriesType DEF Back
  <2> QED
    BY <2>1, FS_Subset DEF Fits, Back, Entries
<1>4. ASSUME NEW U
      PROVE  /\ IsFiniteSet(FT(U)) /\ Cardinality(FT(U)) \in Nat
             /\ IsFiniteSet(G(U)) /\ Cardinality(G(U)) = Cardinality(FT(U))
  <2> DEFINE h == [e \in FT(U) |-> g(e)]
  <2>1. IsFiniteSet(FT(U)) /\ Cardinality(FT(U)) \in Nat
    BY <1>3, FS_Subset, FS_CardinalityType
  <2>2. \A e, f \in FT(U) : g(e) = g(f) => e = f
    BY <1>3, SlotsFree
  <2>3. h = [e \in FT(U) |-> h[e]] /\ {h[e] : e \in FT(U)} = G(U)
    OBVIOUS
  <2>4. \A e, f \in FT(U) : h[e] = h[f] => e = f
    BY <2>2
  <2> HIDE DEF h, FT, G
  <2>5. /\ IsFiniteSet({h[e] : e \in FT(U)})
        /\ Cardinality({h[e] : e \in FT(U)}) = Cardinality(FT(U))
    BY <2>1, <2>3, <2>4, ImageCount
  <2> QED
    BY <2>1, <2>3, <2>5
<1>5. \A m \in mem : m.pos <= Cardinality(mem) /\ m.pos >= 1 /\ m.pos \in Nat
  BY DEF MemOrdered, TypeOK, Held
<1>6. IsFiniteSet(mem) /\ Cardinality(mem) \in Nat
  BY FS_CardinalityType DEF TypeOK
<1>7. \A e \in Fits : /\ Slot(e) \in Nat /\ Slot(e) > Cardinality(mem)
                      /\ Slot(e) <= Cardinality(mem) + Cardinality(Fits)
  BY <1>3, SlotsFree
<1>8. ASSUME NEW U, NEW M, M \in SUBSET mem
      PROVE  /\ M \cap G(U) = {}
             /\ Cardinality(M \cup G(U)) = Cardinality(M) + Cardinality(FT(U))
             /\ Cardinality(M) \in Nat
  <2>1. M \cap G(U) = {}
    <3> SUFFICES ASSUME NEW m \in M, NEW e \in FT(U), m = g(e)
                 PROVE  FALSE
      OBVIOUS
    <3>1. m.pos = Slot(e) /\ m \in mem /\ e \in Fits
      BY <1>8
    <3> QED
      BY <3>1, <1>5, <1>6, <1>7
  <2>2. IsFiniteSet(M) /\ Cardinality(M) \in Nat
    BY <1>6, <1>8, FS_Subset, FS_CardinalityType
  <2>3. /\ IsFiniteSet(G(U)) /\ Cardinality(G(U)) = Cardinality(FT(U))
        /\ Cardinality(FT(U)) \in Nat
    BY <1>4
  <2> HIDE DEF G, FT
  <2>4. Cardinality(M \cup G(U)) = Cardinality(M) + Cardinality(G(U)) - Cardinality({})
    BY <2>1, <2>2, <2>3, FS_Union
  <2> QED
    BY <2>1, <2>2, <2>3, <2>4, FS_EmptySet
<1>9. Cardinality(mem') = Cardinality(mem) + Cardinality(Fits)
  <2>1. FT(Texts) = Fits
    BY <1>3
  <2>2. G(Texts) = {g(e) : e \in Fits}
    BY <2>1
  <2>3. Cardinality(mem \cup G(Texts)) = Cardinality(mem) + Cardinality(FT(Texts))
    BY <1>8
  <2> HIDE DEF G, FT, g
  <2> QED
    BY <1>2, <2>1, <2>2, <2>3
<1>10. MemOrdered'
  <2>1. Cardinality(Fits) \in Nat
    BY <1>3, FS_CardinalityType
  <2>2. \A m \in mem' : /\ m.pos >= 1 /\ m.pos <= Cardinality(mem')
    <3> TAKE m \in mem'
    <3>1. CASE m \in mem
      BY <3>1, <1>5, <1>6, <1>9, <2>1
    <3>2. ASSUME NEW e \in Fits, m = g(e)
          PROVE  m.pos >= 1 /\ m.pos <= Cardinality(mem')
      <4>1. m.pos = Slot(e)
        BY <3>2
      <4> QED
        BY <4>1, <1>6, <1>7, <1>9, <2>1
    <3> QED
      BY <1>2, <3>1, <3>2
  <2>3. ASSUME NEW m \in mem', NEW k \in mem', k.pos = m.pos
        PROVE  k = m
    <3>1. \A e \in Fits : g(e).pos = Slot(e)
      OBVIOUS
    <3>2. CASE m \in mem /\ k \in mem
      BY <2>3, <3>2 DEF MemOrdered
    <3>3. ASSUME NEW e \in Fits, NEW f \in Fits, m = g(e), k = g(f)
          PROVE  k = m
      BY <2>3, <3>1, <3>3, <1>3, SlotsFree
    <3>4. ASSUME NEW e \in Fits,
                 \/ m = g(e) /\ k \in mem
                 \/ k = g(e) /\ m \in mem
          PROVE  FALSE
      BY <2>3, <3>1, <3>4, <1>5, <1>6, <1>7
    <3> QED
      BY <1>2, <3>2, <3>3, <3>4
  <2> QED
    BY <2>2, <2>3 DEF MemOrdered
<1>11. Cardinality(MemOf(T)') = Cardinality(MemOf(T)) + Cardinality(FT(T))
       /\ Cardinality(MemOf(T)) \in Nat
  <2>1. MemOf(T) \in SUBSET mem
    BY DEF MemOf
  <2>2. MemOf(T)' = MemOf(T) \cup G(T)
    BY <1>2 DEF MemOf
  <2> QED
    BY <1>8, <2>1, <2>2
<1>12. FT(T) \in SUBSET Entries("mem", T, Owed)
  BY DEF Fits, Back, Entries
<1>13. Cardinality(FT(T)) <= Cardinality(Entries("mem", T, Owed))
       /\ Cardinality(FT(T)) \in Nat
       /\ Cardinality(Entries("mem", T, Owed)) \in Nat
  <2>1. IsFiniteSet(Entries("mem", T, Owed))
    BY EntriesType
  <2> HIDE DEF FT
  <2> QED
    BY <1>12, <2>1, FS_Subset, FS_CardinalityType
<1>14. ASSUME Cardinality(mem) + Cardinality(Back) <= MemCap
       PROVE  FT(T) = Entries("mem", T, Owed)
  <2>1. Cardinality(Back) \in Nat
    BY EntriesType DEF Back
  <2>2. \A e \in Back : Slot(e) <= MemCap
    BY <1>14, <1>6, <2>1, SlotsFree, SettingsAssumption
  <2>3. Fits = Back
    BY <2>2 DEF Fits
  <2> QED
    BY <2>3 DEF Back, Entries, TypeOK, Entry
<1> HIDE DEF FT, G, g
<1>15. Cardinality(MemOf(T)')
         <= Cardinality(MemOf(T)) + Cardinality(Entries("mem", T, Owed))
  BY <1>11, <1>13
<1>16. Cardinality(mem) + Cardinality(Back) <= MemCap
         => Cardinality(MemOf(T)')
              = Cardinality(MemOf(T)) + Cardinality(Entries("mem", T, Owed))
  BY <1>11, <1>14
<1> QED
  BY <1>10, <1>15, <1>16

\* A batch that readBatch makes holds every line and every event once.
LEMMA ReadDistinct ==
    ASSUME TypeOK, OffsetsOK, MemOrdered, ReadBatch \/ ReadBatchFails
    PROVE  EntriesDistinct'
<1>1. PICK n \in Nat : batch' \subseteq WalEntries \cup MemEntries(n)
  <2>1. Cardinality(WalEntries) \in Nat
    BY BatchType, FS_CardinalityType
  <2> QED
    BY <2>1 DEF ReadBatch, ReadBatchFails, StartPass
<1>2. ASSUME NEW e \in WalEntries, NEW f \in WalEntries, e.off = f.off
      PROVE  e = f
  <2>1. PICK l \in Pending :
           e = [pos |-> Rank(Pending, l) + 1, text |-> l.text, off |-> l.off,
                mem |-> FALSE, st |-> "queued"]
    BY DEF WalEntries
  <2>2. PICK k \in Pending :
           f = [pos |-> Rank(Pending, k) + 1, text |-> k.text, off |-> k.off,
                mem |-> FALSE, st |-> "queued"]
    BY DEF WalEntries
  <2>3. l.off = k.off /\ l \in wal /\ k \in wal
    BY <1>2, <2>1, <2>2 DEF Pending, Complete
  <2>4. l = k
    BY <2>3 DEF OffsetsOK
  <2> QED
    BY <2>1, <2>2, <2>4
<1>3. ASSUME NEW e \in MemEntries(n), NEW f \in MemEntries(n), e.pos = f.pos
      PROVE  e = f
  <2>1. PICK m \in mem : e = [pos |-> n + m.pos, text |-> m.text, off |-> -1,
                              mem |-> TRUE, st |-> "queued"]
    BY DEF MemEntries
  <2>2. PICK k \in mem : f = [pos |-> n + k.pos, text |-> k.text, off |-> -1,
                              mem |-> TRUE, st |-> "queued"]
    BY DEF MemEntries
  <2>3. n + m.pos = n + k.pos /\ m.pos \in Nat /\ k.pos \in Nat
    BY <1>3, <2>1, <2>2 DEF TypeOK, Held
  <2>4. m = k
    BY <2>3 DEF MemOrdered
  <2> QED
    BY <2>1, <2>2, <2>4
<1>4. (\A e \in WalEntries : ~e.mem) /\ (\A e \in MemEntries(n) : e.mem)
  BY DEF WalEntries, MemEntries
<1> QED
  BY <1>1, <1>2, <1>3, <1>4 DEF EntriesDistinct

\* Entries and memory events stay distinct over every step.
LEMMA DistinctKept ==
    ASSUME TypeOK, TypeOK', OffsetsOK, EntriesDistinct, MemOrdered, Next
    PROVE  EntriesDistinct' /\ MemOrdered'
<1> USE DEF file, letters, drainer, signals, calls, answers
<1>b. batch' = batch \/ batch' = {} => EntriesDistinct'
  BY DEF EntriesDistinct
<1>m. mem' = mem \/ mem' = {} => MemOrdered'
  BY DEF MemOrdered
<1>0. IsFiniteSet(mem) /\ Cardinality(mem) \in Nat
  BY FS_CardinalityType DEF TypeOK
<1>1. ASSUME NEW t \in Texts, EnqueueAppends(t)
      PROVE  EntriesDistinct' /\ MemOrdered'
  BY <1>1, <1>b, <1>m DEF EnqueueAppends
<1>2. ASSUME NEW t \in Texts, EnqueueHolds(t)
      PROVE  EntriesDistinct' /\ MemOrdered'
  <2>1. EntriesDistinct'
    BY <1>2, <1>b DEF EnqueueHolds
  <2>2. CASE mem' = mem
    BY <2>1, <2>2, <1>m
  <2>3. CASE mem' # mem
    <3> DEFINE m == [pos |-> Cardinality(mem) + 1, text |-> t]
    <3>1. mem' = mem \cup {m} /\ m.pos = Cardinality(mem) + 1
      BY <1>2, <2>3 DEF EnqueueHolds
    <3> HIDE DEF m
    <3>2. m \notin mem
      BY <1>0, <3>1 DEF MemOrdered
    <3>3. Cardinality(mem') = Cardinality(mem) + 1
      BY <1>0, <3>1, <3>2, FS_AddElement
    <3>4. \A k \in mem : k.pos \in Nat /\ k.pos >= 1 /\ k.pos <= Cardinality(mem)
      BY DEF MemOrdered, TypeOK, Held
    <3>5. MemOrdered'
      BY <1>0, <3>1, <3>3, <3>4 DEF MemOrdered
    <3> QED
      BY <2>1, <3>5
  <2> QED
    BY <2>2, <2>3
<1>3. ASSUME NEW t \in Texts, CrashInAppend(t)
      PROVE  EntriesDistinct' /\ MemOrdered'
  BY <1>3, <1>b, <1>m DEF CrashInAppend, Restarted
<1>4. CASE Wake \/ Close \/ Compact
  BY <1>4, <1>b, <1>m DEF Wake, Close, Compact
<1>5. CASE Crash
  BY <1>5, <1>b, <1>m DEF Crash, Restarted
<1>6. CASE ReadBatch \/ ReadBatchFails
  BY <1>6, <1>m, ReadDistinct DEF ReadBatch, ReadBatchFails
<1>7. CASE TakeWake \/ StopIdle \/ WaitDone
  BY <1>7, <1>b, <1>m DEF TakeWake, StopIdle, WaitDone
<1>8. ASSUME NEW e \in Round, Deliver(e)
      PROVE  EntriesDistinct' /\ MemOrdered'
  <2>1. PICK s \in EntryState : batch' = Move(e, s)
    BY <1>8, DeliverMoves
  <2>2. mem' = mem
    BY <1>8, DeliverMoves
  <2>3. e \in batch /\ batch \subseteq Entry
    BY DEF Round, TypeOK
  <2> DEFINE d == [e EXCEPT !.st = s]
  <2>4. d.mem = e.mem /\ d.pos = e.pos /\ d.off = e.off
    BY <2>3 DEF Entry
  <2>5. batch' = (batch \ {e}) \cup {d}
    BY <2>1 DEF Move
  <2> HIDE DEF d
  <2>6. \A f \in batch : f.mem \in BOOLEAN
    BY <2>3 DEF Entry
  <2>7. EntriesDistinct'
    BY <2>3, <2>4, <2>5, <2>6 DEF EntriesDistinct
  <2> QED
    BY <2>2, <2>7, <1>m
<1>l. ASSUME NEW next, LeavePass(next)
      PROVE  EntriesDistinct' /\ MemOrdered'
  <2>1. ReturnMemory /\ batch' = {}
    BY <1>l DEF LeavePass
  <2>2. MemOrdered'
    BY <2>1, ReturnExact
  <2> QED
    BY <2>1, <2>2, <1>b
<1>9. CASE RoundDone
  <2>1. UNCHANGED <<mem, batch>> \/ LeavePass("exited")
    BY <1>9 DEF RoundDone
  <2> QED
    BY <2>1, <1>b, <1>m, <1>l
<1>10. CASE WaitStopped
  BY <1>10, <1>l DEF WaitStopped
<1>11. CASE PassDone
  <2>1. PICK next \in {"read", "exited"} : LeavePass(next)
    BY <1>11 DEF PassDone
  <2> QED
    BY <2>1, <1>l
<1> QED
  BY <1>1, <1>2, <1>3, <1>4, <1>5, <1>6, <1>7, <1>8, <1>9, <1>10, <1>11
     DEF Next, Drain

\* compact keeps the live lines of every text, and the pending ones.
LEMMA CompactLive ==
    ASSUME TypeOK, OffsetsOK, Compact
    PROVE  /\ \A t \in Texts : Cardinality(LiveOf(t)') = Cardinality(LiveOf(t))
           /\ torn = FALSE => Cardinality(Pending') = Cardinality(Pending)
<1> DEFINE move(l) == [l EXCEPT !.off = Rank(Kept, l)]
<1>1. wal' = {move(l) : l \in Kept} /\ torn' = FALSE
  BY DEF Compact
<1>2. \A l \in Kept : move(l).text = l.text /\ move(l).st = l.st
  BY DEF Kept, TypeOK, Line
<1>3. ASSUME NEW S \in SUBSET Kept
      PROVE  Cardinality({move(l) : l \in S}) = Cardinality(S)
  BY CompactCount
<1> HIDE DEF move
<1>4. ASSUME NEW t \in Texts
      PROVE  Cardinality(LiveOf(t)') = Cardinality(LiveOf(t))
  <2>1. LiveOf(t) \in SUBSET Kept
    BY DEF LiveOf, Kept
  <2>2. LiveOf(t)' = {move(l) : l \in LiveOf(t)}
    BY <1>1, <1>2 DEF LiveOf, Kept
  <2> QED
    BY <1>3, <2>1, <2>2
<1>5. ASSUME torn = FALSE
      PROVE  Cardinality(Pending') = Cardinality(Pending)
  <2>1. Pending \in SUBSET Kept
    BY DEF Pending, Complete, Kept
  <2>2. Pending' = {move(l) : l \in Pending}
    BY <1>1, <1>2, <1>5 DEF Pending, Complete, Kept
  <2> QED
    BY <1>3, <2>1, <2>2
<1> QED
  BY <1>4, <1>5

\* An entry that is tombstoned takes one live line of its text with it.
LEMMA SettleLine ==
    ASSUME TypeOK, OffsetsOK, LinesForEntries, NEW e \in Round, Settle(e), ~e.mem
    PROVE  /\ \A t \in Texts : Cardinality(LiveOf(t)')
                = Cardinality(LiveOf(t)) - (IF t = e.text THEN 1 ELSE 0)
           /\ torn = FALSE => Cardinality(Pending') = Cardinality(Pending) - 1
<1>1. /\ e \in batch /\ e.text \in Texts /\ e.off \in Int /\ e.st \in {"ok", "dead"}
      /\ UNCHANGED <<size, torn>>
  BY DEF Round, TypeOK, Entry, Settle
<1> DEFINE t == e.text
           L == LiveOf(t)
           found == Locate(t, e.off)
<1>2. wal' = (wal \ found) \cup {Tombstone(l) : l \in found}
  BY DEF Settle
<1>3. IsFiniteSet(L) /\ L \subseteq wal /\ \A x \in L : x.off \in Nat /\ x.st = "live"
  BY CountsType DEF LiveOf, TypeOK, Line
<1>4. L # {}
  <2> DEFINE E == Entries("wal", {t}, Owed)
  <2>1. e \in E
    BY <1>1 DEF Entries, Owed, EntryState
  <2>2. IsFiniteSet(E) /\ Cardinality(E) \in Nat /\ Cardinality(E) <= Cardinality(L)
    BY <1>1, EntriesType DEF LinesForEntries
  <2> HIDE DEF E, L
  <2>3. Cardinality(E) # 0
    BY <2>1, <2>2, FS_EmptySet
  <2> QED
    BY <2>2, <2>3, FS_EmptySet
<1>5. found \subseteq L /\ found # {}
  <2>1. PICK x \in L : Rank(L, x) = 0
    <3> HIDE DEF L
    <3> QED
      BY <1>3, <1>4, FirstLine
  <2>2. {y \in L : y.off < x.off} = {}
    <3> DEFINE B == {y \in L : y.off < x.off}
    <3>1. IsFiniteSet(B) /\ Cardinality(B) = 0
      BY <1>3, <2>1, FS_Subset DEF Rank
    <3> HIDE DEF B
    <3>2. B = {}
      BY <3>1, FS_EmptySet
    <3> QED
      BY <3>2 DEF B
  <2>3. \A k \in L : x.off <= k.off
    BY <1>3, <2>2
  <2> QED
    BY <2>1, <2>3 DEF Locate
<1>6. PICK l \in L : found = {l}
  <2>1. \A k, j \in found : k.off = j.off
    BY <1>3 DEF Locate
  <2>2. \A k, j \in found : k = j
    BY <1>3, <1>5, <2>1 DEF OffsetsOK
  <2> QED
    BY <1>5, <2>2
<1> HIDE DEF found
<1>7. wal' = (wal \ {l}) \cup {Tombstone(l)} /\ l \in wal
  BY <1>2, <1>3, <1>6
<1>8. Tombstone(l).st = "tomb" /\ l.text = t /\ l.st = "live"
  BY <1>6 DEF Tombstone, TypeOK, Line, LiveOf
<1>9. ASSUME NEW u \in Texts
      PROVE  Cardinality(LiveOf(u)')
               = Cardinality(LiveOf(u)) - (IF u = t THEN 1 ELSE 0)
  <2>1. IsFiniteSet(LiveOf(u)) /\ Cardinality(LiveOf(u)) \in Nat
    BY CountsType
  <2>2. LiveOf(u)' = LiveOf(u) \ {l} /\ (l \in LiveOf(u) <=> u = t)
    BY <1>7, <1>8 DEF LiveOf
  <2>3. Cardinality(LiveOf(u) \ {l}) = IF l \in LiveOf(u) THEN Cardinality(LiveOf(u)) - 1
                                       ELSE Cardinality(LiveOf(u))
    BY <2>1, FS_RemoveElement
  <2> QED
    BY <2>1, <2>2, <2>3
<1>10. ASSUME torn = FALSE
       PROVE  Cardinality(Pending') = Cardinality(Pending) - 1
  <2>1. IsFiniteSet(Pending)
    BY FS_Subset DEF Pending, Complete, TypeOK
  <2>2. Pending' = Pending \ {l} /\ l \in Pending
    BY <1>1, <1>7, <1>8, <1>10 DEF Pending, Complete
  <2> QED
    BY <2>1, <2>2, FS_RemoveElement
<1> QED
  BY <1>9, <1>10

\* A batch that readBatch makes has a live line for every WAL entry.
LEMMA ReadLines ==
    ASSUME TypeOK, ReadBatch \/ ReadBatchFails
    PROVE  \A t \in Texts :
             /\ LiveOf(t)' = LiveOf(t)
             /\ Cardinality(Entries("wal", {t}, Owed)') <= Cardinality(LiveOf(t))
<1> TAKE t \in Texts
<1>1. LiveOf(t)' = LiveOf(t)
  <2>1. CASE ReadBatch
    <3>1. PICK marked \in SUBSET Unread :
             wal' = (wal \ marked) \cup {Tombstone(l) : l \in marked}
      BY <2>1 DEF ReadBatch
    <3>2. \A l \in marked : Tombstone(l).st = "tomb" /\ l.st = "bad"
      BY DEF Tombstone, Unread, Complete, TypeOK, Line
    <3> QED
      BY <3>1, <3>2 DEF LiveOf
  <2>2. CASE ReadBatchFails
    BY <2>2 DEF ReadBatchFails, file, LiveOf
  <2> QED
    BY <2>1, <2>2
<1> DEFINE f == [l \in LiveOf(t) |->
                   [pos |-> Rank(Pending, l) + 1, text |-> l.text, off |-> l.off,
                    mem |-> FALSE, st |-> "queued"]]
           I == {f[l] : l \in LiveOf(t)}
           E == Entries("wal", {t}, Owed)'
<1>2. PICK n : batch' \subseteq WalEntries \cup MemEntries(n)
  BY DEF ReadBatch, ReadBatchFails, StartPass
<1>3. \A e \in MemEntries(n) : e.mem
  BY DEF MemEntries
<1>4. ASSUME NEW e \in WalEntries, e.text = t
      PROVE  e \in I
  <2>1. PICK l \in Pending :
           e = [pos |-> Rank(Pending, l) + 1, text |-> l.text, off |-> l.off,
                mem |-> FALSE, st |-> "queued"]
    BY DEF WalEntries
  <2>2. l \in LiveOf(t)
    BY <1>4, <2>1 DEF Pending, Complete, LiveOf
  <2>3. e = f[l]
    BY <2>1, <2>2
  <2> QED
    BY <2>2, <2>3
<1>5. E \in SUBSET I
  BY <1>2, <1>3, <1>4 DEF Entries
<1>6. f \in Surjection(LiveOf(t), I)
  BY DEF Surjection
<1>7. IsFiniteSet(LiveOf(t)) /\ Cardinality(LiveOf(t)) \in Nat
  BY CountsType
<1> HIDE DEF f, I, E
<1>8. IsFiniteSet(I) /\ Cardinality(I) <= Cardinality(LiveOf(t)) /\ Cardinality(I) \in Nat
  BY <1>6, <1>7, FS_Surjection, FS_CardinalityType
<1>9. Cardinality(E) <= Cardinality(I) /\ Cardinality(E) \in Nat
  BY <1>5, <1>8, FS_Subset, FS_CardinalityType
<1>10. Cardinality(E) <= Cardinality(LiveOf(t))
  BY <1>7, <1>8, <1>9
<1> QED
  BY <1>1, <1>10 DEF E

\* The live lines of a text only grow by an append, whatever it leaves behind.
LEMMA ResidueLive ==
    ASSUME TypeOK, OffsetsOK, NEW t \in Texts, NEW r \in Residues,
           LeaveResidue(t, r), NEW u \in Texts
    PROVE  Cardinality(LiveOf(u)')
             = Cardinality(LiveOf(u)) + (IF r = "whole" /\ u = t THEN 1 ELSE 0)
<1>1. IsFiniteSet(LiveOf(u)) /\ Cardinality(LiveOf(u)) \in Nat
  BY CountsType
<1>2. CASE r = "whole" /\ u = t
  <2> DEFINE l == [off |-> size, text |-> t, st |-> "live"]
  <2>1. wal' = wal \cup {l} /\ l.off = size /\ l.st = "live" /\ l.text = t
    BY <1>2 DEF LeaveResidue
  <2> HIDE DEF l
  <2>2. l \notin wal
    BY <2>1 DEF OffsetsOK, TypeOK, Line
  <2>3. LiveOf(u)' = LiveOf(u) \cup {l} /\ l \notin LiveOf(u)
    BY <1>2, <2>1, <2>2 DEF LiveOf
  <2> QED
    BY <1>1, <1>2, <2>3, FS_AddElement
<1>3. CASE ~(r = "whole" /\ u = t)
  <2>1. LiveOf(u)' = LiveOf(u)
    <3>1. CASE r \in {"none", "newline"}
      BY <3>1 DEF LeaveResidue, file, LiveOf
    <3>2. CASE r = "cut"
      BY <3>2 DEF LeaveResidue, LiveOf
    <3>3. CASE r = "whole" /\ u # t
      BY <3>3 DEF LeaveResidue, LiveOf
    <3> QED
      BY <1>3, <3>1, <3>2, <3>3 DEF Residues
  <2> QED
    BY <1>1, <1>3, <2>1
<1> QED
  BY <1>2, <1>3

\* An Enqueue that succeeds adds one live line of its text.
LEMMA AppendLive ==
    ASSUME TypeOK, OffsetsOK, NEW t \in Texts, EnqueueAppends(t), NEW u \in Texts
    PROVE  Cardinality(LiveOf(u)')
             = Cardinality(LiveOf(u)) + (IF u = t THEN 1 ELSE 0)
<1>1. IsFiniteSet(LiveOf(u)) /\ Cardinality(LiveOf(u)) \in Nat
  BY CountsType
<1> DEFINE l == [off |-> size, text |-> t, st |-> "live"]
<1>2. wal' = wal \cup {l} /\ l.off = size /\ l.st = "live" /\ l.text = t
  BY DEF EnqueueAppends
<1> HIDE DEF l
<1>3. l \notin wal
  BY <1>2 DEF OffsetsOK, TypeOK, Line
<1>4. CASE u = t
  <2>1. LiveOf(u)' = LiveOf(u) \cup {l} /\ l \notin LiveOf(u)
    BY <1>2, <1>3, <1>4 DEF LiveOf
  <2> QED
    BY <1>1, <1>4, <2>1, FS_AddElement
<1>5. CASE u # t
  <2>1. LiveOf(u)' = LiveOf(u)
    BY <1>2, <1>5 DEF LiveOf
  <2> QED
    BY <1>1, <1>5, <2>1
<1> QED
  BY <1>4, <1>5

\* Every unsettled WAL entry keeps a line, over every step.
LEMMA LinesKept ==
    ASSUME TypeOK, TypeOK', OffsetsOK, EntriesDistinct, LinesForEntries, Next
    PROVE  LinesForEntries'
<1> USE DEF file, letters, drainer, signals, calls, answers
<1> SUFFICES ASSUME NEW u \in Texts
             PROVE  Cardinality(Entries("wal", {u}, Owed)') <= Cardinality(LiveOf(u)')
  BY DEF LinesForEntries
<1>0. /\ Cardinality(LiveOf(u)) \in Nat /\ Cardinality(LiveOf(u)') \in Nat
      /\ Cardinality(Entries("wal", {u}, Owed)) \in Nat
      /\ Cardinality(Entries("wal", {u}, Owed)) <= Cardinality(LiveOf(u))
  <2>1. IsFiniteSet(LiveOf(u)')
    BY FS_Subset DEF LiveOf, TypeOK
  <2>2. Cardinality(LiveOf(u)') \in Nat
    BY <2>1, FS_CardinalityType
  <2> QED
    BY <2>2, CountsType, EntriesType DEF LinesForEntries
<1> DEFINE Goal == Cardinality(Entries("wal", {u}, Owed)') <= Cardinality(LiveOf(u)')
<1>g. ASSUME batch' = batch, Cardinality(LiveOf(u)) <= Cardinality(LiveOf(u)')
      PROVE  Goal
  <2>1. Entries("wal", {u}, Owed)' = Entries("wal", {u}, Owed)
    BY <1>g DEF Entries
  <2> QED
    BY <1>0, <1>g, <2>1
<1>w. ASSUME batch' = batch, wal' = wal
      PROVE  Goal
  <2>1. LiveOf(u)' = LiveOf(u)
    BY <1>w DEF LiveOf
  <2> QED
    BY <1>w, <1>0, <1>g, <2>1
<1>e. ASSUME batch' = {}
      PROVE  Goal
  <2>1. Entries("wal", {u}, Owed)' = {}
    BY <1>e DEF Entries
  <2>2. Cardinality(Entries("wal", {u}, Owed)') = 0
    BY <2>1, FS_EmptySet
  <2> QED
    BY <1>0, <2>2
<1>1. ASSUME NEW t \in Texts, EnqueueAppends(t)
      PROVE  Goal
  <2>1. batch' = batch
    BY <1>1 DEF EnqueueAppends
  <2>2. Cardinality(LiveOf(u)')
          = Cardinality(LiveOf(u)) + (IF u = t THEN 1 ELSE 0)
    BY <1>1, AppendLive
  <2>3. Cardinality(LiveOf(u)) <= Cardinality(LiveOf(u)')
    BY <1>0, <2>2
  <2> QED
    BY <2>1, <2>3, <1>g
<1>2. ASSUME NEW t \in Texts, EnqueueHolds(t)
      PROVE  Goal
  <2>1. batch' = batch
    BY <1>2 DEF EnqueueHolds
  <2>2. PICK r \in Residues : LeaveResidue(t, r)
    BY <1>2 DEF EnqueueHolds
  <2>3. Cardinality(LiveOf(u)')
          = Cardinality(LiveOf(u)) + (IF r = "whole" /\ u = t THEN 1 ELSE 0)
    BY <2>2, ResidueLive
  <2>4. Cardinality(LiveOf(u)) <= Cardinality(LiveOf(u)')
    BY <1>0, <2>3
  <2> QED
    BY <2>1, <2>4, <1>g
<1>3. ASSUME NEW t \in Texts, CrashInAppend(t)
      PROVE  Goal
  BY <1>3, <1>e DEF CrashInAppend, Restarted
<1>4. CASE Wake \/ Close
  BY <1>4, <1>w DEF Wake, Close
<1>5. CASE Compact
  <2>1. batch' = batch
    BY <1>5 DEF Compact
  <2>2. Cardinality(LiveOf(u)') = Cardinality(LiveOf(u))
    BY <1>5, CompactLive
  <2>3. Cardinality(LiveOf(u)) <= Cardinality(LiveOf(u)')
    BY <1>0, <2>2
  <2> QED
    BY <2>1, <2>3, <1>g
<1>6. CASE Crash
  BY <1>6, <1>e DEF Crash, Restarted
<1>7. CASE ReadBatch \/ ReadBatchFails
  <2>1. /\ LiveOf(u)' = LiveOf(u)
        /\ Cardinality(Entries("wal", {u}, Owed)') <= Cardinality(LiveOf(u))
    BY <1>7, ReadLines
  <2> QED
    BY <2>1
<1>8. CASE TakeWake \/ StopIdle \/ WaitDone
  BY <1>8, <1>w DEF TakeWake, StopIdle, WaitDone
<1>9. ASSUME NEW e \in Round, Deliver(e)
      PROVE  Goal
  <2>1. e \in batch /\ e.mem \in BOOLEAN
    BY DEF Round, TypeOK, Entry
  <2>3. CASE Settle(e)
    <3>1. batch' = Move(e, "settled") /\ e.st \in Owed /\ "settled" \notin Owed
          /\ "settled" \in EntryState
      BY <2>3 DEF Settle, Owed, EntryState
    <3>2. Cardinality(Entries("wal", {u}, Owed)')
            = Cardinality(Entries("wal", {u}, Owed))
              - (IF ~e.mem /\ e.text = u THEN 1 ELSE 0)
      <4>1. Cardinality(Entries("wal", {u}, Owed)')
              = Cardinality(Entries("wal", {u}, Owed))
                - (IF ((e.mem <=> "wal" = "mem") /\ e.text \in {u}) /\ e.st \in Owed
                   THEN 1 ELSE 0)
                + (IF ((e.mem <=> "wal" = "mem") /\ e.text \in {u}) /\ "settled" \in Owed
                   THEN 1 ELSE 0)
        BY <2>1, <3>1, MoveCount
      <4> QED
        BY <1>0, <2>1, <3>1, <4>1
    <3>3. CASE e.mem
      <4>1. LiveOf(u)' = LiveOf(u)
        BY <2>3, <3>3 DEF Settle, LiveOf
      <4> QED
        BY <1>0, <3>2, <3>3, <4>1
    <3>4. CASE ~e.mem
      <4>1. Cardinality(LiveOf(u)')
              = Cardinality(LiveOf(u)) - (IF u = e.text THEN 1 ELSE 0)
        BY <2>3, <3>4, SettleLine
      <4> QED
        BY <1>0, <3>2, <3>4, <4>1
    <3> QED
      BY <3>3, <3>4
  <2>4. CASE \/ SinkAccepts(e) \/ SinkRefuses(e) \/ EmitFails(e)
             \/ AnswerLost(e) \/ DeadLetter(e) \/ SettleFails(e)
    <3>1. /\ e.st \in Owed /\ wal' = wal
          /\ \E s \in Owed : batch' = Move(e, s)
      BY <2>4 DEF SinkAccepts, SinkRefuses, EmitFails, AnswerLost, DeadLetter,
                  SettleFails, Owed, EntryState
    <3>2. PICK s \in Owed : batch' = Move(e, s)
      BY <3>1
    <3>3. Cardinality(Entries("wal", {u}, Owed)')
            = Cardinality(Entries("wal", {u}, Owed))
      <4>1. s \in EntryState
        BY DEF Owed
      <4>2. Cardinality(Entries("wal", {u}, Owed)')
              = Cardinality(Entries("wal", {u}, Owed))
                - (IF ((e.mem <=> "wal" = "mem") /\ e.text \in {u}) /\ e.st \in Owed
                   THEN 1 ELSE 0)
                + (IF ((e.mem <=> "wal" = "mem") /\ e.text \in {u}) /\ s \in Owed
                   THEN 1 ELSE 0)
        BY <2>1, <3>2, <4>1, MoveCount
      <4> QED
        BY <1>0, <3>1, <4>2
    <3>4. LiveOf(u)' = LiveOf(u)
      BY <3>1 DEF LiveOf
    <3> QED
      BY <1>0, <3>3, <3>4
  <2> QED
    BY <1>9, <2>3, <2>4 DEF Deliver
<1>10. CASE RoundDone
  <2>1. wal' = wal /\ (batch' = batch \/ batch' = {})
    BY <1>10 DEF RoundDone, LeavePass
  <2> QED
    BY <2>1, <1>e, <1>w
<1>11. CASE WaitStopped \/ PassDone
  BY <1>11, <1>e DEF WaitStopped, PassDone, LeavePass
<1> QED
  BY <1>1, <1>2, <1>3, <1>4, <1>5, <1>6, <1>7, <1>8, <1>9, <1>10, <1>11
     DEF Next, Drain

\* The discipline as a whole: what the two theorems below rest on.
Disciplined ==
    /\ TypeOK /\ Accounted
    /\ BusyInRound /\ IdleEmpty
    /\ EntriesDistinct /\ MemOrdered /\ LinesForEntries

\* The queue starts disciplined.
LEMMA InitDisciplined ==
    ASSUME Init
    PROVE  Disciplined
<1>1. TypeOK /\ Accounted
  BY InitType, InitAccounted
<1>2. BusyInRound /\ IdleEmpty /\ EntriesDistinct /\ MemOrdered
  BY DEF Init, BusyInRound, IdleEmpty, EntriesDistinct, MemOrdered
<1>3. \A t : Entries("wal", {t}, Owed) = {} /\ LiveOf(t) = {}
  BY DEF Init, Entries, LiveOf
<1>4. LinesForEntries
  <2> SUFFICES ASSUME NEW t \in Texts
               PROVE  Cardinality(Entries("wal", {t}, Owed)) <= Cardinality(LiveOf(t))
    BY DEF LinesForEntries
  <2>1. Cardinality(Entries("wal", {t}, Owed)) = 0 /\ Cardinality(LiveOf(t)) = 0
    BY <1>3, FS_EmptySet
  <2> QED
    BY <2>1
<1> QED
  BY <1>1, <1>2, <1>4 DEF Disciplined

\* The discipline is kept over every step.
LEMMA NextDisciplined ==
    ASSUME Disciplined, [Next]_vars
    PROVE  Disciplined'
<1>1. TypeOK'
  BY NextType DEF Disciplined
<1>2. CASE Next
  <2>1. Accounted'
    BY <1>1, <1>2, FileAccounted, TombsAccounted DEF Disciplined, Accounted
  <2>2. BusyInRound' /\ IdleEmpty'
    BY <1>2, PhasesKept DEF Disciplined
  <2>3. EntriesDistinct' /\ MemOrdered'
    BY <1>1, <1>2, DistinctKept DEF Disciplined, Accounted
  <2>4. LinesForEntries'
    BY <1>1, <1>2, LinesKept DEF Disciplined, Accounted
  <2> QED
    BY <1>1, <2>1, <2>2, <2>3, <2>4 DEF Disciplined
<1>3. CASE UNCHANGED vars
  <2>1. UNCHANGED <<wal, size, batch, pc, cursor, mem, appended, accepted, refused, tombed>>
    BY <1>3 DEF vars, file, drainer, calls, answers
  <2>2. Accounted'
    BY <2>1 DEF Disciplined, Accounted, OffsetsOK, AppendsAccounted, TombsAnswered,
                LiveOf, Unsettled
  <2>3. BusyInRound' /\ IdleEmpty' /\ EntriesDistinct' /\ MemOrdered'
    BY <2>1 DEF Disciplined, BusyInRound, Round, IdleEmpty, EntriesDistinct, MemOrdered
  <2>4. LinesForEntries'
    BY <2>1 DEF Disciplined, LinesForEntries, Entries, LiveOf
  <2> QED
    BY <1>1, <2>2, <2>3, <2>4 DEF Disciplined
<1> QED
  BY <1>2, <1>3

-----------------------------------------------------------------------------
(* No needless duplicate.                                                   *)

\* An entry the drainer may still offer to the sink, or return to memory.
Unsent == {"queued", "failed"}

\* The answers for t, plus the copies of t that may still be sent, are covered
\* by the Enqueue calls and the excused copies; an answered WAL entry whose line
\* is still to be tombstoned is counted on both sides.
DeliveriesOwed ==
    \A t \in Texts :
        accepted[t] + refused[t] + Cardinality(LiveOf(t))
          + Cardinality(MemOf({t})) + Cardinality(Entries("mem", {t}, Unsent))
        <= offered[t] + excused[t] + Cardinality(Unsettled(t))

\* Unsettled in terms of the entries of the batch.
LEMMA UnsettledEntries ==
    ASSUME TypeOK, NEW t
    PROVE  Unsettled(t) = Entries("wal", {t}, Busy)
BY DEF Unsettled, Entries, Busy, TypeOK, Entry

\* A delivery step sends nothing twice without an excuse.
LEMMA DeliverOwed ==
    ASSUME Disciplined, TypeOK', DeliveriesOwed, NEW e \in Round, Deliver(e)
    PROVE  DeliveriesOwed'
<1> USE DEF file, letters, drainer, signals, calls, answers
<1> SUFFICES ASSUME NEW t \in Texts
             PROVE  accepted'[t] + refused'[t] + Cardinality(LiveOf(t)')
                      + Cardinality(MemOf({t})') + Cardinality(Entries("mem", {t}, Unsent)')
                    <= offered'[t] + excused'[t] + Cardinality(Unsettled(t)')
  BY DEF DeliveriesOwed
<1>t. TypeOK /\ OffsetsOK /\ EntriesDistinct /\ LinesForEntries
  BY DEF Disciplined, Accounted
<1>e. e \in batch /\ e.mem \in BOOLEAN /\ e.text \in Texts
  BY <1>t DEF Round, TypeOK, Entry
<1> DEFINE L == Cardinality(LiveOf(t))
           M == Cardinality(MemOf({t}))
           Q == Cardinality(Entries("mem", {t}, Unsent))
           U == Cardinality(Unsettled(t))
           L1 == Cardinality(LiveOf(t)')
           Q1 == Cardinality(Entries("mem", {t}, Unsent)')
           U1 == Cardinality(Unsettled(t)')
<1>1. L \in Nat /\ M \in Nat /\ Q \in Nat /\ U \in Nat
  BY <1>t, CountsType, EntriesType
<1>2. Cardinality(MemOf({t})') = M /\ offered' = offered
  <2>1. mem' = mem /\ offered' = offered
    BY DEF Deliver, SinkAccepts, SinkRefuses, EmitFails, AnswerLost, DeadLetter,
           Settle, SettleFails
  <2> QED
    BY <2>1 DEF MemOf
<1>3. /\ accepted[t] \in Nat /\ refused[t] \in Nat /\ offered[t] \in Nat /\ excused[t] \in Nat
      /\ accepted'[t] \in Nat /\ refused'[t] \in Nat /\ excused'[t] \in Nat
  BY <1>t DEF TypeOK
<1>4. accepted[t] + refused[t] + L + M + Q <= offered[t] + excused[t] + U
  BY DEF DeliveriesOwed
<1>5. ASSUME NEW s \in EntryState, batch' = Move(e, s)
      PROVE  /\ Q1 = Q - (IF (e.mem /\ e.text = t) /\ e.st \in Unsent THEN 1 ELSE 0)
                       + (IF (e.mem /\ e.text = t) /\ s \in Unsent THEN 1 ELSE 0)
             /\ U1 = U - (IF (~e.mem /\ e.text = t) /\ e.st \in Busy THEN 1 ELSE 0)
                       + (IF (~e.mem /\ e.text = t) /\ s \in Busy THEN 1 ELSE 0)
  <2>1. /\ (e.mem /\ e.text = t) <=> ((e.mem <=> "mem" = "mem") /\ e.text \in {t})
        /\ (~e.mem /\ e.text = t) <=> ((e.mem <=> "wal" = "mem") /\ e.text \in {t})
    BY <1>e
  <2>2. /\ Unsettled(t) = Entries("wal", {t}, Busy)
        /\ Unsettled(t)' = Entries("wal", {t}, Busy)'
    BY <1>t, UnsettledEntries DEF Unsettled, Entries, Busy, TypeOK, Entry
  <2>3. Q1 = Q - (IF ((e.mem <=> "mem" = "mem") /\ e.text \in {t}) /\ e.st \in Unsent
                  THEN 1 ELSE 0)
               + (IF ((e.mem <=> "mem" = "mem") /\ e.text \in {t}) /\ s \in Unsent
                  THEN 1 ELSE 0)
    BY <1>t, <1>e, <1>5, MoveCount
  <2>4. Cardinality(Entries("wal", {t}, Busy)')
          = Cardinality(Entries("wal", {t}, Busy))
            - (IF ((e.mem <=> "wal" = "mem") /\ e.text \in {t}) /\ e.st \in Busy
               THEN 1 ELSE 0)
            + (IF ((e.mem <=> "wal" = "mem") /\ e.text \in {t}) /\ s \in Busy
               THEN 1 ELSE 0)
    BY <1>t, <1>e, <1>5, MoveCount
  <2> HIDE DEF Q1, Q
  <2> QED
    BY <2>1, <2>2, <2>3, <2>4
<1>l. wal' = wal => L1 = L
  BY DEF LiveOf
<1> HIDE DEF L, M, Q, U, L1, Q1, U1
<1>6. ASSUME accepted'[t] + refused'[t] + L1 + M + Q1
                <= offered[t] + excused'[t] + U1
      PROVE  accepted'[t] + refused'[t] + Cardinality(LiveOf(t)')
               + Cardinality(MemOf({t})') + Cardinality(Entries("mem", {t}, Unsent)')
             <= offered'[t] + excused'[t] + Cardinality(Unsettled(t)')
  BY <1>2, <1>6 DEF L1, Q1, U1
<1> SUFFICES accepted'[t] + refused'[t] + L1 + M + Q1
                <= offered[t] + excused'[t] + U1
  BY <1>6
\* An answer: a WAL entry becomes unsettled, a memory entry is used up.
<1>7. CASE SinkAccepts(e) \/ SinkRefuses(e)
  <2>1. PICK s \in {"ok", "refused"} : batch' = Move(e, s)
    BY <1>7 DEF SinkAccepts, SinkRefuses
  <2>2. e.st = "queued" /\ excused' = excused /\ wal' = wal
    BY <1>7 DEF SinkAccepts, SinkRefuses
  <2>3. accepted'[t] + refused'[t]
          = accepted[t] + refused[t] + (IF e.text = t THEN 1 ELSE 0)
    BY <1>7, <1>t, <1>e, <1>3 DEF SinkAccepts, SinkRefuses, TypeOK
  <2>4. /\ Q1 = Q - (IF e.mem /\ e.text = t THEN 1 ELSE 0)
        /\ U1 = U + (IF ~e.mem /\ e.text = t THEN 1 ELSE 0)
    BY <2>1, <2>2, <1>1, <1>5 DEF EntryState, Unsent, Busy
  <2> QED
    BY <1>1, <1>3, <1>4, <1>l, <1>e, <2>2, <2>3, <2>4
\* No answer.
<1>8. CASE EmitFails(e) \/ AnswerLost(e)
  <2>1. batch' = Move(e, "failed") /\ e.st = "queued" /\ wal' = wal /\ refused' = refused
    BY <1>8 DEF EmitFails, AnswerLost
  <2>2. accepted'[t] - excused'[t] = accepted[t] - excused[t]
    BY <1>8, <1>t, <1>e, <1>3 DEF EmitFails, AnswerLost, TypeOK
  <2>3. Q1 = Q /\ U1 = U
    BY <2>1, <1>1, <1>5 DEF EntryState, Unsent, Busy
  <2> QED
    BY <1>1, <1>3, <1>4, <1>l, <2>1, <2>2, <2>3
\* The dead-letter record.
<1>9. CASE DeadLetter(e)
  <2>1. /\ batch' = Move(e, "dead") /\ e.st = "refused" /\ wal' = wal
        /\ UNCHANGED <<accepted, refused, excused>>
    BY <1>9 DEF DeadLetter
  <2>2. Q1 = Q /\ U1 = U
    BY <2>1, <1>1, <1>5 DEF EntryState, Unsent, Busy
  <2> QED
    BY <1>1, <1>3, <1>4, <1>l, <2>1, <2>2
\* The tombstone.
<1>10. CASE Settle(e)
  <2>1. /\ batch' = Move(e, "settled") /\ e.st \in {"ok", "dead"}
        /\ UNCHANGED <<accepted, refused, excused>>
    BY <1>10 DEF Settle
  <2>2. /\ Q1 = Q
        /\ U1 = U - (IF ~e.mem /\ e.text = t THEN 1 ELSE 0)
    BY <2>1, <1>1, <1>5 DEF EntryState, Unsent, Busy
  <2>3. L1 = L - (IF ~e.mem /\ e.text = t THEN 1 ELSE 0)
    <3>1. CASE e.mem
      <4>1. wal' = wal
        BY <1>10, <3>1 DEF Settle
      <4> QED
        BY <3>1, <4>1, <1>1, <1>l
    <3>2. CASE ~e.mem
      <4>1. L1 = L - (IF t = e.text THEN 1 ELSE 0)
        BY <1>10, <1>t, <3>2, SettleLine DEF L, L1
      <4> QED
        BY <3>2, <4>1
    <3> QED
      BY <3>1, <3>2
  <2> QED
    BY <1>1, <1>3, <1>4, <2>1, <2>2, <2>3
\* A tombstone that cannot be written excuses a second delivery.
<1>11. CASE SettleFails(e)
  <2>1. /\ batch' = Move(e, "failed") /\ e.st \in {"ok", "dead"} /\ ~e.mem
        /\ wal' = wal /\ UNCHANGED <<accepted, refused>>
    BY <1>11 DEF SettleFails
  <2>2. excused'[t] = excused[t] + (IF e.text = t THEN 1 ELSE 0)
    BY <1>11, <1>t, <1>3 DEF SettleFails, TypeOK
  <2>3. Q1 = Q /\ U1 = U - (IF e.text = t THEN 1 ELSE 0)
    BY <2>1, <1>1, <1>5 DEF EntryState, Unsent, Busy
  <2> QED
    BY <1>1, <1>3, <1>4, <1>l, <2>1, <2>2, <2>3
<1> QED
  BY <1>7, <1>8, <1>9, <1>10, <1>11 DEF Deliver

\* The events in memory become at most as many entries of the batch.
LEMMA MemRead ==
    ASSUME TypeOK, ReadBatch \/ ReadBatchFails, NEW T, NEW S
    PROVE  /\ Cardinality(Entries("mem", T, S)') <= Cardinality(MemOf(T))
           /\ Cardinality(Entries("mem", T, S)') \in Nat
<1>1. PICK n : batch' \subseteq WalEntries \cup MemEntries(n)
  BY DEF ReadBatch, ReadBatchFails, StartPass
<1> DEFINE f == [m \in MemOf(T) |-> [pos |-> n + m.pos, text |-> m.text, off |-> -1,
                                     mem |-> TRUE, st |-> "queued"]]
           I == {f[m] : m \in MemOf(T)}
           E == Entries("mem", T, S)'
<1>2. \A e \in WalEntries : ~e.mem
  BY DEF WalEntries
<1>3. ASSUME NEW e \in MemEntries(n), e.text \in T
      PROVE  e \in I
  <2>1. PICK m \in mem : e = [pos |-> n + m.pos, text |-> m.text, off |-> -1,
                              mem |-> TRUE, st |-> "queued"]
    BY DEF MemEntries
  <2>2. m \in MemOf(T)
    BY <1>3, <2>1 DEF MemOf
  <2>3. e = f[m]
    BY <2>1, <2>2
  <2> QED
    BY <2>2, <2>3
<1>4. E \in SUBSET I
  BY <1>1, <1>2, <1>3 DEF Entries
<1>5. f \in Surjection(MemOf(T), I)
  BY DEF Surjection
<1>6. IsFiniteSet(MemOf(T)) /\ Cardinality(MemOf(T)) \in Nat
  BY EntriesType
<1> HIDE DEF f, I, E
<1>7. IsFiniteSet(I) /\ Cardinality(I) <= Cardinality(MemOf(T)) /\ Cardinality(I) \in Nat
  BY <1>5, <1>6, FS_Surjection, FS_CardinalityType
<1>8. Cardinality(E) <= Cardinality(I) /\ Cardinality(E) \in Nat
  BY <1>4, <1>7, FS_Subset, FS_CardinalityType
<1>9. Cardinality(E) <= Cardinality(MemOf(T)) /\ Cardinality(E) \in Nat
  BY <1>6, <1>7, <1>8
<1> QED
  BY <1>9 DEF E

\* No step sends an event twice without an excuse.
LEMMA OwedKept ==
    ASSUME Disciplined, Disciplined', DeliveriesOwed, Next
    PROVE  DeliveriesOwed'
<1> USE DEF file, letters, drainer, signals, calls, answers
<1>t. /\ TypeOK /\ TypeOK' /\ OffsetsOK /\ EntriesDistinct /\ MemOrdered /\ BusyInRound
      /\ IdleEmpty
  BY DEF Disciplined, Accounted
<1>1. ASSUME NEW e \in Round, Deliver(e)
      PROVE  DeliveriesOwed'
  BY <1>1, <1>t, DeliverOwed
<1>2. ASSUME ~\E e \in Round : Deliver(e)
      PROVE  DeliveriesOwed'
  <2> SUFFICES ASSUME NEW u \in Texts
               PROVE  accepted'[u] + refused'[u] + Cardinality(LiveOf(u)')
                        + Cardinality(MemOf({u})')
                        + Cardinality(Entries("mem", {u}, Unsent)')
                      <= offered'[u] + excused'[u] + Cardinality(Unsettled(u)')
    BY DEF DeliveriesOwed
  <2> DEFINE L == Cardinality(LiveOf(u))
             M == Cardinality(MemOf({u}))
             Q == Cardinality(Entries("mem", {u}, Unsent))
             U == Cardinality(Unsettled(u))
             L1 == Cardinality(LiveOf(u)')
             M1 == Cardinality(MemOf({u})')
             Q1 == Cardinality(Entries("mem", {u}, Unsent)')
             U1 == Cardinality(Unsettled(u)')
             Goal == accepted'[u] + refused'[u] + L1 + M1 + Q1
                       <= offered'[u] + excused'[u] + U1
  <2>1. L \in Nat /\ M \in Nat /\ Q \in Nat /\ U \in Nat
    BY <1>t, CountsType, EntriesType
  <2>2. /\ accepted[u] \in Nat /\ refused[u] \in Nat /\ offered[u] \in Nat
        /\ excused[u] \in Nat
    BY <1>t DEF TypeOK
  <2>3. accepted[u] + refused[u] + L + M + Q <= offered[u] + excused[u] + U
    BY DEF DeliveriesOwed
  <2>4. accepted' = accepted /\ refused' = refused
    BY <1>2 DEF Next, Drain, EnqueueAppends, EnqueueHolds, Wake, Close, Compact, Crash,
                CrashInAppend, ReadBatch, ReadBatchFails, TakeWake, StopIdle,
                RoundDone, WaitDone, WaitStopped, PassDone
  <2>l. wal' = wal => L1 = L
    BY DEF LiveOf
  <2>m. (mem' = mem => M1 = M) /\ (mem' = {} => M1 = 0)
    <3>1. (mem' = mem => MemOf({u})' = MemOf({u})) /\ (mem' = {} => MemOf({u})' = {})
      BY DEF MemOf
    <3> QED
      BY <3>1, FS_EmptySet
  <2>b. /\ batch' = batch => Q1 = Q /\ U1 = U
        /\ batch' = {} => Q1 = 0 /\ U1 = 0
    <3>1. batch' = batch => Entries("mem", {u}, Unsent)' = Entries("mem", {u}, Unsent)
                            /\ Unsettled(u)' = Unsettled(u)
      BY DEF Entries, Unsettled
    <3>2. batch' = {} => Entries("mem", {u}, Unsent)' = {} /\ Unsettled(u)' = {}
      BY DEF Entries, Unsettled
    <3> QED
      BY <3>1, <3>2, FS_EmptySet
  <2>u. (\A e \in batch : e.st \notin Busy) => U = 0
    <3>1. (\A e \in batch : e.st \notin Busy) => Unsettled(u) = {}
      BY DEF Busy, Unsettled
    <3> QED
      BY <3>1, FS_EmptySet
  <2>0. Goal => accepted'[u] + refused'[u] + Cardinality(LiveOf(u)')
                  + Cardinality(MemOf({u})')
                  + Cardinality(Entries("mem", {u}, Unsent)')
                <= offered'[u] + excused'[u] + Cardinality(Unsettled(u)')
    OBVIOUS
  <2> HIDE DEF L, M, Q, U, L1, M1, Q1, U1
  <2> SUFFICES Goal
    BY <2>0
  <2>5. ASSUME NEW t \in Texts, EnqueueAppends(t)
        PROVE  Goal
    <3>1. mem' = mem /\ batch' = batch /\ excused' = excused
      BY <2>5 DEF EnqueueAppends
    <3>2. offered'[u] = offered[u] + (IF u = t THEN 1 ELSE 0)
      BY <2>5, <1>t DEF EnqueueAppends, TypeOK
    <3>3. L1 = L + (IF u = t THEN 1 ELSE 0)
      BY <2>5, <1>t, AppendLive DEF L, L1
    <3> QED
      BY <2>1, <2>2, <2>3, <2>4, <2>m, <2>b, <3>1, <3>2, <3>3
  <2>6. ASSUME NEW t \in Texts, EnqueueHolds(t)
        PROVE  Goal
    <3>1. PICK r \in Residues :
            /\ LeaveResidue(t, r)
            /\ excused' = IF r = "whole"
                          THEN [excused EXCEPT ![t] = @ + 1] ELSE excused
      BY <2>6 DEF EnqueueHolds
    <3>2. excused'[u] = excused[u] + (IF r = "whole" /\ u = t THEN 1 ELSE 0)
      BY <3>1, <1>t, <2>2 DEF TypeOK
    <3>3. L1 = L + (IF r = "whole" /\ u = t THEN 1 ELSE 0)
      BY <3>1, <1>t, ResidueLive DEF L, L1
    <3>4. offered'[u] = offered[u] + (IF u = t THEN 1 ELSE 0) /\ batch' = batch
      BY <2>6, <1>t, <2>2 DEF EnqueueHolds, TypeOK
    <3>5. M1 \in Nat /\ M1 <= M + (IF u = t THEN 1 ELSE 0)
      <4> DEFINE m == [pos |-> Cardinality(mem) + 1, text |-> t]
      <4>1. mem' = mem \/ mem' = mem \cup {m}
        BY <2>6 DEF EnqueueHolds
      <4>2. m.text = t
        OBVIOUS
      <4> HIDE DEF m
      <4>3. IsFiniteSet(MemOf({u}))
        BY <1>t, EntriesType
      <4>4. CASE u = t
        <5>1. MemOf({u})' \subseteq MemOf({u}) \cup {m}
          BY <4>1 DEF MemOf
        <5>2. M1 \in Nat /\ M1 <= M + 1
          BY <4>3, <5>1, CountChange DEF M, M1
        <5> QED
          BY <2>1, <4>4, <5>2
      <4>5. CASE u # t
        <5>1. MemOf({u})' \subseteq MemOf({u})
          BY <4>1, <4>2, <4>5 DEF MemOf
        <5>2. M1 \in Nat /\ M1 <= M
          BY <4>3, <5>1, CountChange DEF M, M1
        <5> QED
          BY <2>1, <4>5, <5>2
      <4> QED
        BY <4>4, <4>5
    <3> QED
      BY <2>1, <2>2, <2>3, <2>4, <2>b, <3>2, <3>3, <3>4, <3>5
  <2>x. ASSUME ExcuseUnsettled
        PROVE  excused'[u] = excused[u] + U
    BY <2>x DEF ExcuseUnsettled, U
  <2>7. ASSUME NEW t \in Texts, CrashInAppend(t)
        PROVE  Goal
    <3>1. PICK r \in Residues : LeaveResidue(t, r)
      BY <2>7 DEF CrashInAppend
    <3>2. L1 = L + (IF r = "whole" /\ u = t THEN 1 ELSE 0)
      BY <3>1, <1>t, ResidueLive DEF L, L1
    <3>3. offered'[u] = offered[u] + (IF u = t THEN 1 ELSE 0)
      BY <2>7, <1>t, <2>2 DEF CrashInAppend, TypeOK
    <3>4. mem' = {} /\ batch' = {} /\ excused'[u] = excused[u] + U
      BY <2>7, <2>x DEF CrashInAppend, Restarted
    <3> QED
      BY <2>1, <2>2, <2>3, <2>4, <2>m, <2>b, <3>2, <3>3, <3>4
  <2>8. CASE Crash
    <3>1. mem' = {} /\ batch' = {} /\ excused'[u] = excused[u] + U
          /\ wal' = wal /\ offered' = offered
      BY <2>8, <2>x DEF Crash, Restarted
    <3> QED
      BY <2>1, <2>2, <2>3, <2>4, <2>l, <2>m, <2>b, <3>1
  <2>9. CASE Compact
    <3>1. L1 = L
      BY <2>9, <1>t, CompactLive DEF L, L1
    <3>2. UNCHANGED <<mem, batch, offered, excused>>
      BY <2>9 DEF Compact
    <3> QED
      BY <2>1, <2>2, <2>3, <2>4, <2>m, <2>b, <3>1, <3>2
  <2>s. ASSUME UNCHANGED <<wal, mem, batch, offered, excused>>
        PROVE  Goal
    BY <2>1, <2>2, <2>3, <2>4, <2>l, <2>m, <2>b, <2>s
  <2>10. CASE Wake \/ Close \/ TakeWake \/ StopIdle \/ WaitDone
    BY <2>10, <2>s DEF Wake, Close, TakeWake, StopIdle, WaitDone
  <2>11. CASE ReadBatch \/ ReadBatchFails
    <3>1. mem' = {} /\ UNCHANGED <<offered, excused>> /\ pc = "read"
      BY <2>11 DEF ReadBatch, ReadBatchFails
    <3>2. L1 = L
      <4>1. LiveOf(u)' = LiveOf(u)
        BY <2>11, <1>t, ReadLines
      <4> QED
        BY <4>1 DEF L, L1
    <3>3. Q1 <= M /\ Q1 \in Nat
      BY <2>11, <1>t, MemRead DEF Q1, M
    <3>4. U = 0
      <4>1. \A e \in batch : e.st \notin Busy
        BY <1>t, <3>1 DEF BusyInRound
      <4> QED
        BY <4>1, <2>u
    <3>5. U1 = 0
      <4>1. \A e \in batch' : e.st = "queued"
        BY <2>11, ReadQueued
      <4>2. Unsettled(u)' = {}
        BY <4>1 DEF Unsettled
      <4> QED
        BY <4>2, FS_EmptySet DEF U1
    <3> QED
      BY <2>1, <2>2, <2>3, <2>4, <2>m, <3>1, <3>2, <3>3, <3>4, <3>5
  \* The pass ends: the events from memory that were not sent return to it.
  <2>r. ASSUME NEW next, LeavePass(next), \A e \in batch : e.st \notin Busy,
               UNCHANGED <<wal, offered, excused>>
        PROVE  Goal
    <3>1. ReturnMemory /\ batch' = {}
      BY <2>r DEF LeavePass
    <3>2. Entries("mem", {u}, Owed) = Entries("mem", {u}, Unsent)
      BY <2>r DEF Entries, Owed, Unsent, Busy, EntryState
    <3>3. M1 <= M + Q
      <4>1. Cardinality(MemOf({u})')
              <= Cardinality(MemOf({u})) + Cardinality(Entries("mem", {u}, Owed))
        BY <1>t, <3>1, ReturnExact
      <4> QED
        BY <3>2, <4>1 DEF M1, M, Q
    <3>4. M1 \in Nat
      <4>1. IsFiniteSet(MemOf({u})')
        BY <1>t, FS_Subset DEF MemOf, TypeOK
      <4> QED
        BY <4>1, FS_CardinalityType DEF M1
    <3> QED
      BY <2>1, <2>2, <2>3, <2>4, <2>l, <2>b, <2>u, <2>r, <3>1, <3>3, <3>4
  <2>12. CASE RoundDone
    <3>1. \A e \in batch : e.st \notin Busy
      BY <2>12, <1>t DEF RoundDone, BusyInRound, Busy
    <3>2. UNCHANGED <<wal, offered, excused>>
      BY <2>12 DEF RoundDone
    <3>3. UNCHANGED <<mem, batch>> \/ LeavePass("exited")
      BY <2>12 DEF RoundDone
    <3> QED
      BY <3>1, <3>2, <3>3, <2>s, <2>r
  <2>13. CASE WaitStopped \/ PassDone
    <3>1. \A e \in batch : e.st \notin Busy
      BY <2>13, <1>t DEF WaitStopped, PassDone, BusyInRound
    <3>2. UNCHANGED <<wal, offered, excused>>
      BY <2>13 DEF WaitStopped, PassDone
    <3>3. PICK next \in {"read", "exited"} : LeavePass(next)
      BY <2>13 DEF WaitStopped, PassDone
    <3> QED
      BY <3>1, <3>2, <3>3, <2>r
  <2> QED
    BY <1>2, <2>5, <2>6, <2>7, <2>8, <2>9, <2>10, <2>11, <2>12, <2>13 DEF Next, Drain
<1> QED
  BY <1>1, <1>2

\* What DuplicatesExcused carries over every step.
Thrifty == Disciplined /\ DeliveriesOwed

\* The sink answers an event more often than it was enqueued only for a reason:
\* equal texts, compaction under the drainer's feet, and rounds that fail in
\* part never make the drainer send an event twice.
THEOREM DuplicatesExcused == Spec => []NoNeedlessDuplicate
<1>1. Init => Thrifty
  <2> SUFFICES ASSUME Init PROVE Thrifty
    OBVIOUS
  <2>1. Disciplined
    BY InitDisciplined
  <2>2. DeliveriesOwed
    <3> SUFFICES ASSUME NEW t \in Texts
                 PROVE  accepted[t] + refused[t] + Cardinality(LiveOf(t))
                          + Cardinality(MemOf({t}))
                          + Cardinality(Entries("mem", {t}, Unsent))
                        <= offered[t] + excused[t] + Cardinality(Unsettled(t))
      BY DEF DeliveriesOwed
    <3>1. /\ LiveOf(t) = {} /\ MemOf({t}) = {} /\ Entries("mem", {t}, Unsent) = {}
          /\ Unsettled(t) = {}
      BY DEF Init, LiveOf, MemOf, Entries, Unsettled
    <3>2. /\ Cardinality(LiveOf(t)) = 0 /\ Cardinality(MemOf({t})) = 0
          /\ Cardinality(Entries("mem", {t}, Unsent)) = 0
          /\ Cardinality(Unsettled(t)) = 0
      BY <3>1, FS_EmptySet
    <3>3. accepted[t] = 0 /\ refused[t] = 0 /\ offered[t] = 0 /\ excused[t] = 0
      BY DEF Init
    <3> QED
      BY <3>2, <3>3
  <2> QED
    BY <2>1, <2>2 DEF Thrifty
<1>2. Thrifty /\ [Next]_vars => Thrifty'
  <2> SUFFICES ASSUME Disciplined, DeliveriesOwed, [Next]_vars
               PROVE  Thrifty'
    BY DEF Thrifty
  <2>1. Disciplined'
    BY NextDisciplined
  <2>2. CASE Next
    BY <2>1, <2>2, OwedKept DEF Thrifty
  <2>3. CASE UNCHANGED vars
    <3>1. UNCHANGED <<wal, mem, batch, accepted, refused, offered, excused>>
      BY <2>3 DEF vars, file, drainer, calls, answers
    <3>2. DeliveriesOwed'
      BY <3>1 DEF DeliveriesOwed, LiveOf, MemOf, Entries, Unsettled
    <3> QED
      BY <2>1, <3>2 DEF Thrifty
  <2> QED
    BY <2>2, <2>3
<1>3. Thrifty => NoNeedlessDuplicate
  <2> SUFFICES ASSUME Thrifty, NEW t \in Texts
               PROVE  accepted[t] + refused[t] <= offered[t] + excused[t]
    BY DEF NoNeedlessDuplicate
  <2>1. TypeOK /\ LinesForEntries
    BY DEF Thrifty, Disciplined
  <2>2. /\ Cardinality(LiveOf(t)) \in Nat /\ Cardinality(MemOf({t})) \in Nat
        /\ Cardinality(Entries("mem", {t}, Unsent)) \in Nat
        /\ Cardinality(Unsettled(t)) \in Nat
    BY <2>1, CountsType, EntriesType
  <2>3. Cardinality(Unsettled(t)) <= Cardinality(LiveOf(t))
    <3>1. IsFiniteSet(Entries("wal", {t}, Owed))
      BY <2>1, EntriesType
    <3>2. Unsettled(t) \in SUBSET Entries("wal", {t}, Owed)
      BY DEF Unsettled, Entries, Owed, EntryState
    <3>3. Cardinality(Unsettled(t)) <= Cardinality(Entries("wal", {t}, Owed))
      BY <3>1, <3>2, FS_Subset
    <3>4. Cardinality(Entries("wal", {t}, Owed)) <= Cardinality(LiveOf(t))
          /\ Cardinality(Entries("wal", {t}, Owed)) \in Nat
      BY <2>1, EntriesType DEF LinesForEntries
    <3> QED
      BY <2>2, <3>3, <3>4
  <2>4. accepted[t] + refused[t] + Cardinality(LiveOf(t))
          + Cardinality(MemOf({t})) + Cardinality(Entries("mem", {t}, Unsent))
        <= offered[t] + excused[t] + Cardinality(Unsettled(t))
    BY DEF Thrifty, DeliveriesOwed
  <2> QED
    BY <2>1, <2>2, <2>3, <2>4 DEF TypeOK
<1> QED
  BY <1>1, <1>2, <1>3, PTL DEF Spec

-----------------------------------------------------------------------------
(* No event is lost from sight.                                             *)

\* memCh holds every event whose append can fail.  When it is full, Enqueue and
\* returnMemory drop the event and log the loss.
RoomInMemory == MaxFaults <= MemCap

\* The events with a text of T that are in memory or in the batch from memory.
InMemory(T) == Cardinality(MemOf(T)) + Cardinality(Entries("mem", T, Owed))

\* The number of events in memory is a number.
LEMMA InMemoryType ==
    ASSUME TypeOK, NEW T
    PROVE  /\ InMemory(T) \in Nat
           /\ Cardinality(MemOf(T)) \in Nat
           /\ Cardinality(Entries("mem", T, Owed)) \in Nat
           /\ MemOf(Texts) = mem
<1>1. /\ Cardinality(MemOf(T)) \in Nat
      /\ Cardinality(Entries("mem", T, Owed)) \in Nat
  BY EntriesType
<1>2. MemOf(Texts) = mem
  BY DEF MemOf, TypeOK, Held
<1> QED
  BY <1>1, <1>2 DEF InMemory

\* Enqueue holds one event more in memory.
LEMMA HoldCount ==
    ASSUME TypeOK, MemOrdered, NEW t \in Texts, EnqueueHolds(t),
           Cardinality(mem) < MemCap, NEW T
    PROVE  InMemory(T)' = InMemory(T) + (IF t \in T THEN 1 ELSE 0)
<1> DEFINE m == [pos |-> Cardinality(mem) + 1, text |-> t]
<1>1. mem' = mem \cup {m} /\ batch' = batch /\ m.text = t
      /\ m.pos = Cardinality(mem) + 1
  BY DEF EnqueueHolds, drainer
<1> HIDE DEF m
<1>2. m \notin mem
  <2>1. Cardinality(mem) \in Nat
    BY FS_CardinalityType DEF TypeOK
  <2> QED
    BY <1>1, <2>1 DEF MemOrdered
<1>3. Entries("mem", T, Owed)' = Entries("mem", T, Owed)
  BY <1>1 DEF Entries
<1>4. IsFiniteSet(MemOf(T)) /\ Cardinality(MemOf(T)) \in Nat
      /\ Cardinality(Entries("mem", T, Owed)) \in Nat
  BY EntriesType
<1>5. CASE t \in T
  <2>1. MemOf(T)' = MemOf(T) \cup {m} /\ m \notin MemOf(T)
    BY <1>1, <1>2, <1>5 DEF MemOf
  <2>2. Cardinality(MemOf(T)') = Cardinality(MemOf(T)) + 1
    BY <1>4, <2>1, FS_AddElement
  <2> QED
    BY <1>3, <1>4, <1>5, <2>2 DEF InMemory
<1>6. CASE t \notin T
  <2>1. MemOf(T)' = MemOf(T)
    BY <1>1, <1>6 DEF MemOf
  <2> QED
    BY <1>3, <1>4, <1>6, <2>1 DEF InMemory
<1> QED
  BY <1>5, <1>6

\* readBatch moves the events from memory to the batch.
LEMMA ReadCount ==
    ASSUME TypeOK, MemOrdered, IdleEmpty, ReadBatch, NEW T
    PROVE  InMemory(T)' = InMemory(T)
<1> DEFINE n == Cardinality(WalEntries)
           g(m) == [pos |-> n + m.pos, text |-> m.text, off |-> -1,
                    mem |-> TRUE, st |-> "queued"]
           f == [m \in MemOf(T) |-> g(m)]
<1>1. n \in Nat
  BY BatchType, FS_CardinalityType
<1> HIDE DEF n
<1>2. batch' = WalEntries \cup {g(m) : m \in mem} /\ mem' = {} /\ pc = "read"
  BY DEF ReadBatch, StartPass, MemEntries, n
<1>3. Cardinality(Entries("mem", T, Owed)) = 0
  <2>1. Entries("mem", T, Owed) = {}
    BY <1>2 DEF IdleEmpty, Entries
  <2> QED
    BY <2>1, FS_EmptySet
<1>4. Cardinality(MemOf(T)') = 0
  <2>1. MemOf(T)' = {}
    BY <1>2 DEF MemOf
  <2> QED
    BY <2>1, FS_EmptySet
<1>5. \A e \in WalEntries : ~e.mem
  BY DEF WalEntries
<1>6. \A m \in mem : g(m).text = m.text /\ g(m).mem /\ g(m).st = "queued"
                     /\ g(m).pos = n + m.pos /\ m.pos \in Nat
  BY DEF TypeOK, Held
<1> HIDE DEF g
<1>7. Entries("mem", T, Owed)' = {f[m] : m \in MemOf(T)}
  <2>1. Entries("mem", T, Owed)' = {g(m) : m \in MemOf(T)}
    BY <1>2, <1>5, <1>6 DEF Entries, MemOf, Owed, EntryState
  <2> QED
    BY <2>1
<1>8. \A m, k \in MemOf(T) : f[m] = f[k] => m = k
  <2> SUFFICES ASSUME NEW m \in MemOf(T), NEW k \in MemOf(T), g(m) = g(k)
               PROVE  m = k
    OBVIOUS
  <2>1. m \in mem /\ k \in mem
    BY DEF MemOf
  <2>2. n + m.pos = n + k.pos /\ m.pos \in Nat /\ k.pos \in Nat
    BY <1>6, <2>1
  <2>3. m.pos = k.pos
    BY <1>1, <2>2
  <2> QED
    BY <2>1, <2>3 DEF MemOrdered
<1>9. f = [m \in MemOf(T) |-> f[m]]
  OBVIOUS
<1>10. IsFiniteSet(MemOf(T)) /\ Cardinality(MemOf(T)) \in Nat
  BY EntriesType
<1> HIDE DEF f
<1>11. Cardinality(Entries("mem", T, Owed)') = Cardinality(MemOf(T))
  BY <1>7, <1>8, <1>9, <1>10, ImageCount
<1> QED
  BY <1>3, <1>4, <1>10, <1>11 DEF InMemory

\* returnMemory puts the unsettled events back while memCh has room for all.
LEMMA LeaveCount ==
    ASSUME TypeOK, EntriesDistinct, MemOrdered, NEW next, LeavePass(next),
           InMemory(Texts) <= MemCap, NEW T
    PROVE  InMemory(T)' = InMemory(T)
<1>1. ReturnMemory /\ batch' = {}
  BY DEF LeavePass
<1>2. Cardinality(mem) + Cardinality(Back) <= MemCap
  BY InMemoryType DEF InMemory, Back
<1>3. Cardinality(MemOf(T)')
        = Cardinality(MemOf(T)) + Cardinality(Entries("mem", T, Owed))
  BY <1>1, <1>2, ReturnExact
<1>4. Cardinality(Entries("mem", T, Owed)') = 0
  <2>1. Entries("mem", T, Owed)' = {}
    BY <1>1 DEF Entries
  <2> QED
    BY <2>1, FS_EmptySet
<1>5. Cardinality(MemOf(T)) \in Nat /\ Cardinality(Entries("mem", T, Owed)) \in Nat
  BY InMemoryType
<1> QED
  BY <1>3, <1>4, <1>5 DEF InMemory

\* A delivery step settles at most its own event.
LEMMA DeliverCount ==
    ASSUME TypeOK, EntriesDistinct, NEW e \in Round, mem' = mem, e.st \in Owed,
           NEW s \in EntryState, batch' = Move(e, s), NEW T
    PROVE  InMemory(T)' = InMemory(T)
             - (IF e.mem /\ e.text \in T /\ s = "settled" THEN 1 ELSE 0)
<1>1. e \in batch /\ e.mem \in BOOLEAN
  BY DEF Round, TypeOK, Entry
<1>2. Cardinality(Entries("mem", T, Owed)')
        = Cardinality(Entries("mem", T, Owed))
          - (IF ((e.mem <=> "mem" = "mem") /\ e.text \in T) /\ e.st \in Owed
             THEN 1 ELSE 0)
          + (IF ((e.mem <=> "mem" = "mem") /\ e.text \in T) /\ s \in Owed
             THEN 1 ELSE 0)
  BY <1>1, MoveCount
<1>3. MemOf(T)' = MemOf(T)
  BY DEF MemOf
<1>4. Cardinality(MemOf(T)) \in Nat /\ Cardinality(Entries("mem", T, Owed)) \in Nat
  BY InMemoryType
<1>5. s \in Owed <=> s # "settled"
  BY DEF Owed
<1> QED
  BY <1>1, <1>2, <1>3, <1>4, <1>5 DEF InMemory

\* The gauge, the memory and the held events in terms of these counts; at most
\* as many events are in memory as appends have failed.
InSight ==
    /\ torn = FALSE
    /\ backlog = Cardinality(Pending) + InMemory(Texts)
    /\ \A t \in Texts : held[t] = InMemory({t})
    /\ InMemory(Texts) <= faults
    /\ faults <= MaxFaults

\* An event leaves sight in no step.
LEMMA SightKept ==
    ASSUME CleanFile, RoomInMemory, Disciplined, Disciplined', InSight, Next
    PROVE  InSight'
<1> USE DEF file, letters, drainer, signals, calls, answers
<1>t. /\ TypeOK /\ TypeOK' /\ OffsetsOK /\ EntriesDistinct /\ MemOrdered /\ IdleEmpty
      /\ LinesForEntries
  BY DEF Disciplined, Accounted
<1> DEFINE P == Cardinality(Pending)
           P1 == Cardinality(Pending')
           A == InMemory(Texts)
           A1 == InMemory(Texts)'
<1>1. /\ torn = FALSE /\ backlog = P + A /\ A <= faults /\ faults <= MaxFaults
      /\ \A t \in Texts : held[t] = InMemory({t})
  BY DEF InSight
<1>2. P \in Nat /\ A \in Nat /\ MaxFaults \in Nat /\ MemCap \in Nat /\ faults \in Nat
  <2>1. IsFiniteSet(Pending)
    BY <1>t, FS_Subset DEF Pending, Complete, TypeOK
  <2> QED
    BY <1>t, <2>1, FS_CardinalityType, InMemoryType, SettingsAssumption,
       EnvironmentAssumption DEF TypeOK
<1>3. A <= MemCap
  BY <1>1, <1>2 DEF RoomInMemory
<1>p. wal' = wal /\ torn' = torn /\ size' = size => P1 = P
  BY DEF Pending, Complete
<1>m. ASSUME mem' = mem, batch' = batch, NEW T
      PROVE  InMemory(T)' = InMemory(T)
  BY <1>m DEF InMemory, MemOf, Entries
<1>e. ASSUME mem' = {}, batch' = {}, NEW T
      PROVE  InMemory(T)' = 0
  <2>1. MemOf(T)' = {} /\ Entries("mem", T, Owed)' = {}
    BY <1>e DEF MemOf, Entries
  <2> QED
    BY <2>1, FS_EmptySet DEF InMemory
<1>h. \A t \in Texts : held[t] \in Int /\ InMemory({t}) \in Nat
  BY <1>t, InMemoryType DEF TypeOK
<1>0. ASSUME torn' = FALSE, backlog' = P1 + A1, A1 <= faults', faults' <= MaxFaults,
             \A t \in Texts : held'[t] = InMemory({t})'
      PROVE  InSight'
  BY <1>0 DEF InSight
<1> HIDE DEF P, P1, A, A1
\* Steps that leave the counts alone.
<1>s. ASSUME torn' = FALSE, P1 = P, A1 = A, UNCHANGED <<backlog, held>>,
             faults' \in {faults, faults + 1}, faults' <= MaxFaults,
             \A t \in Texts : InMemory({t})' = InMemory({t})
      PROVE  InSight'
  <2>1. \A t \in Texts : held'[t] = InMemory({t})'
    BY <1>s, <1>1
  <2>2. backlog' = P1 + A1
    BY <1>s, <1>1
  <2>3. A1 <= faults'
    BY <1>s, <1>1, <1>2
  <2> QED
    BY <1>s, <1>0, <2>1, <2>2, <2>3
<1>u. ASSUME UNCHANGED <<wal, size, torn, mem, batch, backlog, held, faults>>
      PROVE  InSight'
  <2>1. A1 = A /\ \A t \in Texts : InMemory({t})' = InMemory({t})
    BY <1>u, <1>m DEF A, A1
  <2> QED
    BY <1>u, <1>s, <1>p, <1>1, <2>1
<1>4. ASSUME NEW t \in Texts, EnqueueAppends(t)
      PROVE  InSight'
  <2>1. torn' = FALSE /\ backlog' = backlog + 1 /\ UNCHANGED <<mem, batch, held, faults>>
    BY <1>4 DEF EnqueueAppends
  <2>2. P1 = P + 1
    <3> DEFINE l == [off |-> size, text |-> t, st |-> "live"]
    <3>1. wal' = wal \cup {l} /\ l.off = size /\ l.st = "live"
      BY <1>4 DEF EnqueueAppends
    <3> HIDE DEF l
    <3>2. l \notin wal
      BY <1>t, <3>1 DEF OffsetsOK, TypeOK, Line
    <3>3. Pending' = Pending \cup {l} /\ l \notin Pending
      BY <1>1, <2>1, <3>1, <3>2 DEF Pending, Complete
    <3>4. IsFiniteSet(Pending)
      BY <1>t, FS_Subset DEF Pending, Complete, TypeOK
    <3> QED
      BY <3>3, <3>4, FS_AddElement DEF P, P1
  <2>3. A1 = A /\ \A u \in Texts : InMemory({u})' = InMemory({u})
    BY <2>1, <1>m DEF A, A1
  <2>4. \A u \in Texts : held'[u] = InMemory({u})'
    BY <1>1, <2>1, <2>3
  <2>5. backlog' = P1 + A1
    BY <1>1, <1>2, <2>1, <2>2, <2>3
  <2> QED
    BY <1>0, <1>1, <2>1, <2>3, <2>4, <2>5
<1>5. ASSUME NEW t \in Texts, EnqueueHolds(t)
      PROVE  InSight'
  <2>1. UNCHANGED <<wal, size, torn>>
    BY <1>5, NoResidue DEF EnqueueHolds
  <2>2. faults < MaxFaults /\ faults' = faults + 1
    BY <1>5 DEF EnqueueHolds, Inject
  <2>3. Cardinality(mem) < MemCap
    <3>1. Cardinality(mem) \in Nat /\ Cardinality(mem) <= A
      BY <1>t, InMemoryType DEF A, InMemory
    <3> QED
      BY <1>1, <1>2, <2>2, <3>1 DEF RoomInMemory
  <2>4. backlog' = backlog + 1 /\ held' = [held EXCEPT ![t] = @ + 1]
    BY <1>5, <2>3 DEF EnqueueHolds
  <2>5. A1 = A + 1
    BY <1>5, <1>t, <1>2, <2>3, HoldCount DEF A, A1
  <2>6. ASSUME NEW u \in Texts
        PROVE  held'[u] = InMemory({u})'
    <3>1. InMemory({u})' = InMemory({u}) + (IF t \in {u} THEN 1 ELSE 0)
      BY <1>5, <1>t, <2>3, HoldCount
    <3>2. held'[u] = held[u] + (IF t \in {u} THEN 1 ELSE 0)
      BY <1>t, <1>h, <2>4 DEF TypeOK
    <3> QED
      BY <1>1, <3>1, <3>2
  <2>7. P1 = P /\ torn' = FALSE
    BY <1>1, <2>1, <1>p
  <2>8. backlog' = P1 + A1 /\ A1 <= faults' /\ faults' <= MaxFaults
    BY <1>1, <1>2, <2>2, <2>4, <2>5, <2>7
  <2> QED
    BY <1>0, <2>6, <2>7, <2>8
<1>6. CASE Wake \/ Close \/ TakeWake \/ StopIdle \/ WaitDone
  BY <1>6, <1>u DEF Wake, Close, TakeWake, StopIdle, WaitDone
<1>7. CASE ReadBatch
  <2>1. /\ torn' = FALSE /\ size' = size /\ held' = held
        /\ backlog' = P + Cardinality(mem) /\ faults' \in {faults, faults + 1}
        /\ faults' <= MaxFaults
    BY <1>7, <1>1, <1>2 DEF ReadBatch, P
  <2>2. A1 = A /\ \A t \in Texts : InMemory({t})' = InMemory({t})
    BY <1>7, <1>t, ReadCount DEF A, A1
  <2>3. P1 = P
    <3>1. PICK marked \in SUBSET Unread :
             wal' = (wal \ marked) \cup {Tombstone(l) : l \in marked}
      BY <1>7 DEF ReadBatch
    <3>2. \A l \in marked : Tombstone(l).st = "tomb" /\ l.st = "bad"
      BY <1>t DEF Tombstone, Unread, Complete, TypeOK, Line
    <3>3. Pending' = Pending
      BY <1>1, <2>1, <3>1, <3>2 DEF Pending, Complete
    <3> QED
      BY <3>3 DEF P, P1
  <2>4. A = Cardinality(mem)
    <3>1. Entries("mem", Texts, Owed) = {}
      BY <1>7, <1>t DEF ReadBatch, IdleEmpty, Entries
    <3>2. MemOf(Texts) = mem /\ Cardinality(MemOf(Texts)) \in Nat
      BY <1>t, InMemoryType
    <3> QED
      BY <3>1, <3>2, FS_EmptySet DEF A, InMemory
  <2>5. backlog' = backlog
    BY <1>1, <2>1, <2>4
  <2> QED
    BY <1>s, <2>1, <2>2, <2>3, <2>5
<1>8. CASE ReadBatchFails
  BY <1>8 DEF ReadBatchFails, Inject, CleanFile
<1>9. ASSUME NEW e \in Round, Deliver(e)
      PROVE  InSight'
  <2>1. e.text \in Texts /\ e.mem \in BOOLEAN
    BY <1>t DEF Round, TypeOK, Entry
  <2>2. mem' = mem /\ torn' = FALSE /\ size' = size
    BY <1>9, <1>t, <1>1, DeliverMoves
  <2>3. CASE Settle(e)
    <3>1. /\ batch' = Move(e, "settled") /\ e.st \in Owed /\ "settled" \in EntryState
          /\ backlog' = backlog - 1 /\ faults' = faults
      BY <2>3 DEF Settle, Owed, EntryState
    <3>2. A1 = A - (IF e.mem THEN 1 ELSE 0)
      <4>1. A1 = A - (IF e.mem /\ e.text \in Texts /\ "settled" = "settled"
                      THEN 1 ELSE 0)
        BY <1>t, <2>2, <3>1, DeliverCount DEF A, A1
      <4> QED
        BY <2>1, <4>1
    <3>3. ASSUME NEW u \in Texts
          PROVE  InMemory({u})' = InMemory({u}) - (IF e.mem /\ e.text = u THEN 1 ELSE 0)
      <4>1. InMemory({u})' = InMemory({u})
              - (IF e.mem /\ e.text \in {u} /\ "settled" = "settled" THEN 1 ELSE 0)
        BY <1>t, <2>2, <3>1, DeliverCount
      <4> QED
        BY <4>1
    <3>4. CASE e.mem
      <4>1. held' = [held EXCEPT ![e.text] = @ - 1] /\ wal' = wal
        BY <2>3, <3>4 DEF Settle
      <4>2. P1 = P
        BY <1>1, <2>2, <4>1, <1>p
      <4>3. ASSUME NEW u \in Texts
            PROVE  held'[u] = InMemory({u})'
        <5>1. held'[u] = held[u] - (IF e.text = u THEN 1 ELSE 0)
          BY <1>t, <1>h, <2>1, <4>1 DEF TypeOK
        <5>2. InMemory({u})' = InMemory({u}) - (IF e.text = u THEN 1 ELSE 0)
          BY <3>3, <3>4
        <5> QED
          BY <1>1, <5>1, <5>2
      <4>4. backlog' = P1 + A1 /\ A1 <= faults' /\ faults' <= MaxFaults
        BY <1>1, <1>2, <3>1, <3>2, <3>4, <4>2
      <4> QED
        BY <1>0, <2>2, <4>3, <4>4
    <3>5. CASE ~e.mem
      <4>1. held' = held
        BY <2>3, <3>5 DEF Settle
      <4>2. P1 = P - 1
        BY <1>t, <1>1, <2>3, <3>5, SettleLine DEF P, P1
      <4>3. ASSUME NEW u \in Texts
            PROVE  held'[u] = InMemory({u})'
        <5>1. InMemory({u})' = InMemory({u})
          BY <1>h, <3>3, <3>5
        <5> QED
          BY <1>1, <4>1, <5>1
      <4>4. backlog' = P1 + A1 /\ A1 <= faults' /\ faults' <= MaxFaults
        BY <1>1, <1>2, <3>1, <3>2, <3>5, <4>2
      <4> QED
        BY <1>0, <2>2, <4>3, <4>4
    <3> QED
      BY <3>4, <3>5
  <2>4. CASE \/ SinkAccepts(e) \/ SinkRefuses(e) \/ EmitFails(e)
             \/ AnswerLost(e) \/ DeadLetter(e) \/ SettleFails(e)
    <3>1. /\ e.st \in Owed /\ UNCHANGED <<wal, backlog, held>>
          /\ \E s \in Owed : batch' = Move(e, s)
      BY <2>4 DEF SinkAccepts, SinkRefuses, EmitFails, AnswerLost, DeadLetter,
                  SettleFails, Owed, EntryState
    <3>2. faults' \in {faults, faults + 1} /\ faults' <= MaxFaults
      BY <2>4, <1>1, <1>2 DEF SinkAccepts, SinkRefuses, EmitFails, AnswerLost,
                              DeadLetter, SettleFails, Inject
    <3>3. PICK s \in EntryState : batch' = Move(e, s) /\ s # "settled"
      BY <3>1 DEF Owed
    <3>4. ASSUME NEW T
          PROVE  InMemory(T)' = InMemory(T)
      <4>1. InMemory(T)' = InMemory(T)
              - (IF e.mem /\ e.text \in T /\ s = "settled" THEN 1 ELSE 0)
        BY <1>t, <2>2, <3>1, <3>3, DeliverCount
      <4>2. InMemory(T) \in Nat
        BY <1>t, InMemoryType
      <4> QED
        BY <3>3, <4>1, <4>2
    <3>5. P1 = P
      BY <1>1, <2>2, <3>1, <1>p
    <3>6. A1 = A /\ \A t \in Texts : InMemory({t})' = InMemory({t})
      BY <3>4 DEF A, A1
    <3> QED
      BY <1>s, <2>2, <3>1, <3>2, <3>5, <3>6
  <2> QED
    BY <1>9, <2>3, <2>4 DEF Deliver
<1>l. ASSUME NEW next, LeavePass(next),
             UNCHANGED <<wal, size, torn, backlog, held, faults>>
      PROVE  InSight'
  <2>1. ASSUME NEW T
        PROVE  InMemory(T)' = InMemory(T)
    BY <1>t, <1>3, <1>l, LeaveCount DEF A
  <2>2. A1 = A /\ \A t \in Texts : InMemory({t})' = InMemory({t})
    BY <2>1 DEF A, A1
  <2> QED
    BY <1>l, <1>1, <1>p, <1>s, <2>2
<1>10. CASE RoundDone
  <2>1. UNCHANGED <<wal, size, torn, backlog, held, faults>>
    BY <1>10 DEF RoundDone
  <2>2. UNCHANGED <<mem, batch>> \/ LeavePass("exited")
    BY <1>10 DEF RoundDone
  <2> QED
    BY <2>1, <2>2, <1>u, <1>l
<1>11. CASE WaitStopped \/ PassDone
  <2>1. UNCHANGED <<wal, size, torn, backlog, held, faults>>
    BY <1>11 DEF WaitStopped, PassDone
  <2>2. PICK next \in {"read", "exited"} : LeavePass(next)
    BY <1>11 DEF WaitStopped, PassDone
  <2> QED
    BY <2>1, <2>2, <1>l
<1>12. CASE Compact
  <2>1. torn' = FALSE /\ UNCHANGED <<mem, batch, backlog, held, faults>>
    BY <1>12 DEF Compact
  <2>2. P1 = P
    BY <1>12, <1>t, <1>1, CompactLive DEF P, P1
  <2>3. A1 = A /\ \A t \in Texts : InMemory({t})' = InMemory({t})
    BY <2>1, <1>m DEF A, A1
  <2> QED
    BY <1>s, <1>1, <2>1, <2>2, <2>3
<1>13. CASE Crash
  <2>1. /\ mem' = {} /\ batch' = {} /\ held' = [t \in Texts |-> 0]
        /\ backlog' = P /\ UNCHANGED <<wal, size, torn>>
        /\ faults < MaxFaults /\ faults' = faults + 1
    BY <1>13 DEF Crash, Restarted, Inject, P
  <2>2. A1 = 0 /\ \A t \in Texts : InMemory({t})' = 0
    BY <2>1, <1>e DEF A1
  <2>3. P1 = P /\ torn' = FALSE
    BY <2>1, <1>1, <1>p
  <2>4. \A t \in Texts : held'[t] = InMemory({t})'
    BY <2>1, <2>2
  <2>5. backlog' = P1 + A1 /\ A1 <= faults' /\ faults' <= MaxFaults
    BY <1>2, <2>1, <2>2, <2>3
  <2> QED
    BY <1>0, <2>3, <2>4, <2>5
<1>14. ASSUME NEW t \in Texts, CrashInAppend(t)
       PROVE  FALSE
  BY <1>14 DEF CrashInAppend, CleanFile
<1> QED
  BY <1>4, <1>5, <1>6, <1>7, <1>8, <1>9, <1>10, <1>11, <1>12, <1>13, <1>14
     DEF Next, Drain

\* What EventsNeverOutOfSight carries over every step.
Sighted == Disciplined /\ InSight

\* The backlog gauge counts exactly the events that are neither delivered nor
\* dead-lettered, and an event Enqueue holds in memory stays in memory or in the
\* batch until it is settled, as long as the file can be read and memCh has room.
THEOREM EventsNeverOutOfSight ==
    ASSUME CleanFile, RoomInMemory
    PROVE  Spec => []EventsAccounted
<1>1. Init => Sighted
  <2> SUFFICES ASSUME Init PROVE Sighted
    OBVIOUS
  <2>1. Disciplined
    BY InitDisciplined
  <2>2. ASSUME NEW T PROVE InMemory(T) = 0
    <3>1. MemOf(T) = {} /\ Entries("mem", T, Owed) = {}
      BY DEF Init, MemOf, Entries
    <3> QED
      BY <3>1, FS_EmptySet DEF InMemory
  <2>3. Pending = {}
    BY DEF Init, Pending, Complete
  <2>4. Cardinality(Pending) = 0 /\ MaxFaults \in Nat
    BY <2>3, FS_EmptySet, EnvironmentAssumption
  <2>5. \A t \in Texts : held[t] = InMemory({t})
    BY <2>2 DEF Init
  <2>6. torn = FALSE /\ backlog = 0 /\ faults = 0
    BY DEF Init
  <2>7. InMemory(Texts) = 0
    BY <2>2
  <2>8. InSight
    BY <2>4, <2>5, <2>6, <2>7 DEF InSight
  <2> QED
    BY <2>1, <2>8 DEF Sighted
<1>2. Sighted /\ [Next]_vars => Sighted'
  <2> SUFFICES ASSUME Disciplined, InSight, [Next]_vars
               PROVE  Sighted'
    BY DEF Sighted
  <2>1. Disciplined'
    BY NextDisciplined
  <2>2. CASE Next
    BY <2>1, <2>2, SightKept DEF Sighted
  <2>3. CASE UNCHANGED vars
    <3>1. UNCHANGED <<wal, size, torn, mem, batch, backlog, held, faults>>
      BY <2>3 DEF vars, file, drainer
    <3>2. InSight'
      BY <3>1 DEF InSight, InMemory, MemOf, Entries, Pending, Complete
    <3> QED
      BY <2>1, <3>2 DEF Sighted
  <2> QED
    BY <2>2, <2>3
<1>3. Sighted => EventsAccounted
  <2> SUFFICES ASSUME TypeOK, InSight PROVE EventsAccounted
    BY DEF Sighted, Disciplined
  <2>1. Entries("mem", Texts, Owed) = {e \in batch : e.mem /\ e.st # "settled"}
    BY DEF Entries, Owed, TypeOK, Entry
  <2>2. MemOf(Texts) = mem
    BY InMemoryType
  <2>3. /\ Cardinality(Pending) \in Nat /\ Cardinality(MemOf(Texts)) \in Nat
        /\ Cardinality(Entries("mem", Texts, Owed)) \in Nat
    <3>1. IsFiniteSet(Pending)
      BY FS_Subset DEF Pending, Complete, TypeOK
    <3> QED
      BY <3>1, FS_CardinalityType, InMemoryType
  <2>4. backlog = Cardinality(Pending) + (Cardinality(MemOf(Texts))
                    + Cardinality(Entries("mem", Texts, Owed)))
    BY DEF InSight, InMemory
  <2>5. backlog = Cardinality(Pending) + Cardinality(MemOf(Texts))
                    + Cardinality(Entries("mem", Texts, Owed))
    BY <2>3, <2>4
  <2>6. BacklogExact
    BY <2>1, <2>2, <2>5 DEF BacklogExact
  <2>7. ASSUME NEW t \in Texts
        PROVE  held[t] = Cardinality({m \in mem : m.text = t})
                         + Cardinality(InFlight(t))
    <3>1. MemOf({t}) = {m \in mem : m.text = t}
      BY DEF MemOf
    <3>2. Entries("mem", {t}, Owed) = InFlight(t)
      BY DEF Entries, InFlight, Owed, TypeOK, Entry
    <3>3. held[t] = Cardinality(MemOf({t})) + Cardinality(Entries("mem", {t}, Owed))
      BY DEF InSight, InMemory
    <3> QED
      BY <3>1, <3>2, <3>3
  <2> QED
    BY <2>6, <2>7 DEF EventsAccounted, MemoryHeld
<1> QED
  BY <1>1, <1>2, <1>3, PTL DEF Spec

=============================================================================
