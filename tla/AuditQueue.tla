------------------------------ MODULE AuditQueue ------------------------------
(***************************************************************************)
(* The write-ahead audit queue shared by the Go data-plane services        *)
(* (packages/go/auditq/queue.go and compact.go).                           *)
(*                                                                         *)
(* Enqueue appends an event to a WAL file and wakes a drainer goroutine.   *)
(* The drainer reads a batch of pending lines, posts them to the sink in   *)
(* rounds of concurrent goroutines and overwrites the line of every event  *)
(* the sink answered with a tombstone.  A compaction worker rewrites the   *)
(* file without its tombstones while deliveries are in flight.  A process  *)
(* crash loses everything but the WAL and the dead-letter file.            *)
(*                                                                         *)
(* An event is its text (a member of Texts): two Enqueue calls with equal  *)
(* contents write equal lines, and the code then tells them apart only by  *)
(* their offset.  Offsets are counted in lines, so after a compaction a    *)
(* remembered offset always points at some line, the worst case for the    *)
(* drainer's check of the remembered offset.                               *)
(***************************************************************************)
EXTENDS Integers, FiniteSets

CONSTANTS
    Texts,        \* the texts an event can have
    Refusable,    \* texts the sink refuses for good (400, 413, 422)
    Poison,       \* texts the sink never settles (403 on every attempt)
    Quota,        \* bound: Enqueue calls per text
    BatchSize,    \* drainSettings.batchSize
    Concurrency,  \* drainSettings.concurrency
    MemCap,       \* channelCap
    InitDelay,    \* drainSettings.initialDelay
    MaxDelay,     \* drainSettings.maxDelay
    Faults,       \* the kinds of fault the environment may inject
    MaxFaults     \* bound: faults injected in a behaviour

FaultKinds ==
    {"append", "torn", "read", "tombstone", "deadopen", "lost", "crash"}

ASSUME SettingsAssumption ==
    /\ BatchSize \in Nat \ {0}
    /\ Concurrency \in Nat \ {0}
    /\ MemCap \in Nat
    /\ InitDelay \in Nat \ {0}
    /\ MaxDelay \in Nat
    /\ InitDelay <= MaxDelay

ASSUME EnvironmentAssumption ==
    /\ Refusable \subseteq Texts
    /\ Poison \subseteq Texts
    /\ Quota \in [Texts -> Nat]
    /\ Faults \subseteq FaultKinds
    /\ MaxFaults \in Nat

VARIABLES
    wal,         \* the lines of the WAL file
    size,        \* the offset at which the next line starts
    torn,        \* the last line has no terminating newline
    dead,        \* dead-letter records of refused events, per text
    deadCut,     \* dead-letter records of unreadable lines
    mem,         \* memCh: the events held in memory
    wake,        \* a wake is pending in wakeCh
    waking,      \* Enqueue calls between the unlock of walMu and q.wake()
    closing,     \* stopCh is closed
    pc,          \* where the drainer is
    batch,       \* the drainer's batch
    cursor,      \* entries of the batch in the rounds already finished
    progressed,  \* a round of this pass settled an event
    delay,       \* the drainer's current back-off delay
    backlog,     \* the backlog gauge
    offered,     \* history: Enqueue calls per text
    appended,    \* history: Enqueue calls whose append succeeded
    cuts,        \* history: lines cut by a failed append
    held,        \* history: events Enqueue put in memory and not settled yet
    accepted,    \* history: events the sink recorded (2xx), per text
    refused,     \* history: events the sink refused for good, per text
    tombed,      \* history: event lines tombstoned, per text
    excused,     \* history: faults that entitle a text to a duplicate
    faults       \* faults injected so far

file    == <<wal, size, torn>>
letters == <<dead, deadCut>>
drainer == <<pc, batch, cursor, progressed, delay>>
signals == <<wake, waking, closing>>
calls   == <<offered, appended, cuts>>
answers == <<accepted, refused>>

vars == <<file, letters, mem, signals, drainer, backlog, calls, held, answers,
          tombed, excused, faults>>

\* A line of the WAL: a pending event, a tombstone, or text no JSON decoder
\* accepts.
Line == [off : Nat, text : Texts, st : {"live", "tomb", "bad"}]

\* An entry of the drainer's batch.  st follows the goroutine that delivers it.
EntryState ==
    {"queued", "ok", "refused", "dead", "failed", "settled"}

Entry == [pos : Nat, text : Texts, off : Int, mem : BOOLEAN, st : EntryState]

Held == [pos : Nat, text : Texts]

TypeOK ==
    /\ wal \in SUBSET Line /\ IsFiniteSet(wal)
    /\ size \in Nat
    /\ torn \in BOOLEAN
    /\ dead \in [Texts -> Nat] /\ deadCut \in Nat
    /\ mem \in SUBSET Held /\ IsFiniteSet(mem)
    /\ wake \in BOOLEAN /\ waking \in Nat /\ closing \in BOOLEAN
    /\ pc \in {"read", "idle", "round", "wait", "end", "exited"}
    /\ batch \in SUBSET Entry /\ IsFiniteSet(batch)
    /\ cursor \in Nat
    /\ progressed \in BOOLEAN
    /\ delay \in InitDelay .. MaxDelay
    /\ backlog \in Int
    /\ offered \in [Texts -> Nat]
    /\ appended \in [Texts -> Nat]
    /\ cuts \in Nat
    /\ held \in [Texts -> Int]
    /\ accepted \in [Texts -> Nat] /\ refused \in [Texts -> Nat]
    /\ tombed \in [Texts -> Nat]
    /\ excused \in [Texts -> Nat]
    /\ faults \in Nat

-----------------------------------------------------------------------------
(* The WAL file.                                                            *)

\* completeLines: the unterminated last line is not read.
Complete == {l \in wal : ~(torn /\ l.off = size - 1)}

\* The lines readBatch and countPendingLines take for pending events.
Pending == {l \in Complete : l.st = "live"}

LiveOf(t) == {l \in wal : l.st = "live" /\ l.text = t}

\* Mutant: compaction also drops the lines it cannot decode.
KeptReadable == {l \in wal : l.st = "live"}

\* The lines compact keeps: everything that is not a tombstone.
Kept == {l \in wal : l.st # "tomb"}

\* The 0-based position of x among the members of S, in file order.
Rank(S, x) == Cardinality({y \in S : y.off < x.off})

\* Mutant: the remembered offset is trusted without comparing its bytes.
LocateBlindly(t, hint) == {l \in wal : l.off = hint}

\* Mutant: no scan for a line that compaction has moved.
LocateAtHint(t, hint) == {l \in LiveOf(t) : l.off = hint}

\* locateLineLocked: the line at the remembered offset if it still holds the
\* text, otherwise the first live line with that text.  The scan also sees an
\* unterminated last line.
Locate(t, hint) ==
    LET atHint == {l \in LiveOf(t) : l.off = hint}
    IN  IF atHint # {}
        THEN atHint
        ELSE {l \in LiveOf(t) : \A k \in LiveOf(t) : l.off <= k.off}

Tombstone(l) == [l EXCEPT !.st = "tomb"]

\* The bytes a failed or interrupted append may leave behind.  Before its line
\* appendWALLocked writes the newline that a torn last line lacks.
Residues == {"none", "newline", "cut", "whole"}

LeaveResidue(t, r) ==
    CASE r = "none" -> UNCHANGED <<file, cuts>>
      [] r = "newline" -> /\ torn
                          /\ torn' = FALSE
                          /\ UNCHANGED <<wal, size, cuts>>
      [] r = "cut" -> /\ wal' = wal \cup {[off |-> size, text |-> t, st |-> "bad"]}
                      /\ size' = size + 1
                      /\ torn' = TRUE
                      /\ cuts' = cuts + 1
      [] r = "whole" -> /\ wal' = wal \cup {[off |-> size, text |-> t, st |-> "live"]}
                        /\ size' = size + 1
                        /\ torn' = TRUE
                        /\ UNCHANGED cuts

\* The residues possible under the injected kinds of fault.
ResidueOK(r) == r # "none" => "torn" \in Faults

Inject(kind) ==
    /\ kind \in Faults
    /\ faults < MaxFaults
    /\ faults' = faults + 1

-----------------------------------------------------------------------------
(* Enqueue and the callers' side.                                           *)

\* Enqueue when the append succeeds: the line, its newline and the backlog
\* change under walMu; q.wake() runs after the unlock.
EnqueueAppends(t) ==
    /\ offered[t] < Quota[t]
    /\ wal' = wal \cup {[off |-> size, text |-> t, st |-> "live"]}
    /\ size' = size + 1
    /\ torn' = FALSE
    /\ backlog' = backlog + 1
    /\ waking' = waking + 1
    /\ offered' = [offered EXCEPT ![t] = @ + 1]
    /\ appended' = [appended EXCEPT ![t] = @ + 1]
    /\ UNCHANGED <<letters, mem, wake, closing, drainer, cuts, held, answers,
                   tombed, excused, faults>>

\* Mutant: an event held in memory does not wake the drainer.
EnqueueHoldsSilently(t) ==
    /\ offered[t] < Quota[t]
    /\ Inject("append")
    /\ mem' = mem \cup {[pos |-> Cardinality(mem) + 1, text |-> t]}
    /\ backlog' = backlog + 1
    /\ held' = [held EXCEPT ![t] = @ + 1]
    /\ offered' = [offered EXCEPT ![t] = @ + 1]
    /\ UNCHANGED <<file, letters, signals, drainer, appended, cuts, answers,
                   tombed, excused>>

\* Enqueue when the append fails, possibly after a short write: the event goes
\* to memCh, or is lost when memCh is full.
EnqueueHolds(t) ==
    /\ offered[t] < Quota[t]
    /\ Inject("append")
    /\ \E r \in Residues :
         /\ ResidueOK(r)
         /\ LeaveResidue(t, r)
         /\ excused' = IF r = "whole"
                       THEN [excused EXCEPT ![t] = @ + 1] ELSE excused
    /\ IF Cardinality(mem) < MemCap
       THEN /\ mem' = mem \cup {[pos |-> Cardinality(mem) + 1, text |-> t]}
            /\ backlog' = backlog + 1
            /\ held' = [held EXCEPT ![t] = @ + 1]
       ELSE UNCHANGED <<mem, backlog, held>>
    /\ waking' = waking + 1
    /\ offered' = [offered EXCEPT ![t] = @ + 1]
    /\ UNCHANGED <<letters, wake, closing, drainer, appended, answers, tombed>>

\* The q.wake() that ends an Enqueue call.
Wake ==
    /\ waking > 0
    /\ waking' = waking - 1
    /\ wake' = TRUE
    /\ UNCHANGED <<file, letters, mem, closing, drainer, backlog, calls, held,
                   answers, tombed, excused, faults>>

\* CloseWithContext closes stopCh; a deadline that passes is a crash.
Close ==
    /\ ~closing
    /\ closing' = TRUE
    /\ UNCHANGED <<file, letters, mem, wake, waking, drainer, backlog, calls,
                   held, answers, tombed, excused, faults>>

-----------------------------------------------------------------------------
(* The drainer.                                                             *)

Unread == {l \in Complete : l.st = "bad"}

WalEntries ==
    {[pos |-> Rank(Pending, l) + 1, text |-> l.text, off |-> l.off,
      mem |-> FALSE, st |-> "queued"] :
        l \in {k \in Pending : Rank(Pending, k) < BatchSize}}

MemEntries(n) ==
    {[pos |-> n + m.pos, text |-> m.text, off |-> -1,
      mem |-> TRUE, st |-> "queued"] : m \in mem}

\* The drainer starts the pass over b, or goes to sleep (or exits) on none.
StartPass(b) ==
    /\ batch' = b
    /\ cursor' = 0
    /\ progressed' = FALSE
    /\ pc' = IF b # {} THEN "round" ELSE IF closing THEN "exited" ELSE "idle"

\* Mutant: the backlog is set to the length of the batch.
ReadBatchCounts ==
    /\ pc = "read"
    /\ StartPass(WalEntries \cup MemEntries(Cardinality(WalEntries)))
    /\ mem' = {}
    /\ backlog' = Cardinality(WalEntries) + Cardinality(mem)
    /\ UNCHANGED <<file, letters, signals, delay, calls, held, answers, tombed,
                   excused, faults>>

\* readBatch: unreadable lines go to the dead-letter file and are tombstoned;
\* the first BatchSize pending lines and all of memCh become the batch; the
\* backlog is set from the whole read.  recorded and marked are the unreadable
\* lines whose dead-letter write and tombstone write succeed.
ReadBatch ==
    /\ pc = "read"
    /\ \E recorded \in SUBSET Unread, marked \in SUBSET Unread :
         /\ IF recorded = Unread /\ marked = Unread
            THEN UNCHANGED faults
            ELSE /\ recorded # Unread => "deadopen" \in Faults
                 /\ marked # Unread => "tombstone" \in Faults
                 /\ faults < MaxFaults
                 /\ faults' = faults + 1
         /\ wal' = (wal \ marked) \cup {Tombstone(l) : l \in marked}
         /\ deadCut' = deadCut + Cardinality(recorded)
    /\ StartPass(WalEntries \cup MemEntries(Cardinality(WalEntries)))
    /\ mem' = {}
    /\ backlog' = Cardinality(Pending) + Cardinality(mem)
    /\ UNCHANGED <<size, torn, dead, signals, delay, calls, held, answers,
                   tombed, excused>>

\* readBatch when the WAL cannot be read: the error is logged and only the
\* events in memory make the batch and the backlog.
ReadBatchFails ==
    /\ pc = "read"
    /\ Inject("read")
    /\ StartPass(MemEntries(0))
    /\ mem' = {}
    /\ backlog' = Cardinality(mem)
    /\ UNCHANGED <<file, letters, signals, delay, calls, held, answers, tombed,
                   excused>>

\* The idle select takes a wake, or the closed stopCh.
TakeWake ==
    /\ pc = "idle" /\ wake
    /\ wake' = FALSE
    /\ pc' = "read"
    /\ UNCHANGED <<file, letters, mem, waking, closing, batch, cursor,
                   progressed, delay, backlog, calls, held, answers, tombed,
                   excused, faults>>

\* Mutant: the idle drainer looks at stopCh only after a wake.
StopIdleOnWake ==
    /\ pc = "idle" /\ closing /\ wake
    /\ pc' = "exited"
    /\ UNCHANGED <<file, letters, mem, signals, batch, cursor, progressed,
                   delay, backlog, calls, held, answers, tombed, excused,
                   faults>>

StopIdle ==
    /\ pc = "idle" /\ closing
    /\ pc' = "exited"
    /\ UNCHANGED <<file, letters, mem, signals, batch, cursor, progressed,
                   delay, backlog, calls, held, answers, tombed, excused,
                   faults>>

\* The entries of the round under way.
Round == {e \in batch : e.pos > cursor /\ e.pos <= cursor + Concurrency}

\* The batch after entry e has moved to state s.
Move(e, s) == (batch \ {e}) \cup {[e EXCEPT !.st = s]}

\* The goroutine of e gets the sink's answer: 2xx, or a final refusal.
SinkAccepts(e) ==
    /\ e.st = "queued" /\ e.text \notin Refusable \cup Poison
    /\ batch' = Move(e, "ok")
    /\ accepted' = [accepted EXCEPT ![e.text] = @ + 1]
    /\ UNCHANGED <<file, letters, mem, signals, pc, cursor, progressed, delay,
                   backlog, calls, held, refused, tombed, excused, faults>>

SinkRefuses(e) ==
    /\ e.st = "queued" /\ e.text \in Refusable
    /\ batch' = Move(e, "refused")
    /\ refused' = [refused EXCEPT ![e.text] = @ + 1]
    /\ UNCHANGED <<file, letters, mem, signals, pc, cursor, progressed, delay,
                   backlog, calls, held, accepted, tombed, excused, faults>>

\* Any other answer, no answer within the client timeout, or no connection.
EmitFails(e) ==
    /\ e.st = "queued"
    /\ batch' = Move(e, "failed")
    /\ UNCHANGED <<file, letters, mem, signals, pc, cursor, progressed, delay,
                   backlog, calls, held, answers, tombed, excused, faults>>

\* The sink records the event but its answer does not arrive.
AnswerLost(e) ==
    /\ e.st = "queued" /\ e.text \notin Refusable \cup Poison
    /\ Inject("lost")
    /\ batch' = Move(e, "failed")
    /\ accepted' = [accepted EXCEPT ![e.text] = @ + 1]
    /\ excused' = [excused EXCEPT ![e.text] = @ + 1]
    /\ UNCHANGED <<file, letters, mem, signals, pc, cursor, progressed, delay,
                   backlog, calls, held, refused, tombed>>

\* deadLetterWAL, the first half of settleRejected.  When the dead-letter file
\* cannot be opened the error is logged and the settling goes on.
DeadLetter(e) ==
    /\ e.st = "refused"
    /\ batch' = Move(e, "dead")
    /\ \/ dead' = [dead EXCEPT ![e.text] = @ + 1] /\ UNCHANGED faults
       \/ Inject("deadopen") /\ UNCHANGED dead
    /\ UNCHANGED <<file, deadCut, mem, signals, pc, cursor, progressed, delay,
                   backlog, calls, held, answers, tombed, excused>>

\* settleDelivered, and the second half of settleRejected: tombstoneWAL for a
\* WAL entry; an event that came from memory only leaves the backlog.
Settle(e) ==
    /\ e.st \in {"ok", "dead"}
    /\ batch' = Move(e, "settled")
    /\ backlog' = backlog - 1
    /\ IF e.mem
       THEN /\ held' = [held EXCEPT ![e.text] = @ - 1]
            /\ UNCHANGED <<wal, tombed>>
       ELSE LET found == Locate(e.text, e.off) IN
            /\ wal' = (wal \ found) \cup {Tombstone(l) : l \in found}
            /\ tombed' = IF found = {} THEN tombed
                         ELSE [tombed EXCEPT ![e.text] = @ + 1]
            /\ UNCHANGED held
    /\ UNCHANGED <<size, torn, letters, mem, signals, pc, cursor, progressed,
                   delay, calls, answers, excused, faults>>

\* tombstoneWAL fails: the line stays live and the entry is not settled.
SettleFails(e) ==
    /\ e.st \in {"ok", "dead"} /\ ~e.mem
    /\ Inject("tombstone")
    /\ batch' = Move(e, "failed")
    /\ excused' = [excused EXCEPT ![e.text] = @ + 1]
    /\ UNCHANGED <<file, letters, mem, signals, pc, cursor, progressed, delay,
                   backlog, calls, held, answers, tombed>>

\* returnMemory: unsettled memory events go back to memCh while it has room.
ReturnMemory ==
    LET back == {e \in batch : e.mem /\ e.st # "settled"}
        slot(e) == Cardinality(mem) + Cardinality({b \in back : b.pos <= e.pos})
    IN  mem' = mem \cup {[pos |-> slot(e), text |-> e.text] :
                            e \in {b \in back : slot(b) <= MemCap}}

\* The drainer returns the memory events and leaves the pass.
LeavePass(next) ==
    /\ ReturnMemory
    /\ batch' = {}
    /\ cursor' = 0
    /\ progressed' = FALSE
    /\ pc' = next

NextRound ==
    /\ cursor' = cursor + Concurrency
    /\ pc' = IF \E e \in batch : e.pos > cursor + Concurrency
             THEN "round" ELSE "end"

\* deliverRound returns: every goroutine of the round is done.
RoundDone ==
    /\ pc = "round"
    /\ \A e \in Round : e.st \in {"failed", "settled"}
    /\ \/ /\ \E e \in Round : e.st = "settled"
          /\ delay' = InitDelay
          /\ progressed' = TRUE
          /\ NextRound
          /\ UNCHANGED <<mem, batch>>
       \/ /\ \A e \in Round : e.st = "failed"
          /\ closing
          /\ LeavePass("exited")
          /\ UNCHANGED delay
       \/ /\ \A e \in Round : e.st = "failed"
          /\ ~closing
          /\ pc' = "wait"
          /\ UNCHANGED <<mem, batch, cursor, progressed, delay>>
    /\ UNCHANGED <<file, letters, signals, backlog, calls, held, answers,
                   tombed, excused, faults>>

\* Mutant: the doubling is not capped.
nextRetryDelayUncapped(current) == 2 * current

nextRetryDelay(current) ==
    IF current <= 0 \/ current > MaxDelay \div 2 THEN MaxDelay ELSE 2 * current

\* waitDelay: the timer fires, or stopCh ends the wait.
WaitDone ==
    /\ pc = "wait"
    /\ delay' = nextRetryDelay(delay)
    /\ NextRound
    /\ UNCHANGED <<file, letters, mem, signals, batch, progressed, backlog,
                   calls, held, answers, tombed, excused, faults>>

WaitStopped ==
    /\ pc = "wait" /\ closing
    /\ LeavePass("exited")
    /\ UNCHANGED <<file, letters, signals, delay, backlog, calls, held, answers,
                   tombed, excused, faults>>

\* Mutant: after a pass the drainer waits for a wake instead of reading on.
PassDoneWaits ==
    /\ pc = "end"
    /\ LeavePass(IF closing /\ ~progressed THEN "exited" ELSE "idle")
    /\ UNCHANGED <<file, letters, signals, delay, backlog, calls, held, answers,
                   tombed, excused, faults>>

\* The end of a pass.
PassDone ==
    /\ pc = "end"
    /\ LeavePass(IF closing /\ ~progressed THEN "exited" ELSE "read")
    /\ UNCHANGED <<file, letters, signals, delay, backlog, calls, held, answers,
                   tombed, excused, faults>>

-----------------------------------------------------------------------------
(* Compaction and crashes.                                                  *)

\* compact: under walMu the kept lines move together, in order, to the front
\* of the file, which again ends with a newline.  Any failure on the way to
\* the rename leaves the old file, as if compact had not run.
Compact ==
    /\ torn \/ Kept # wal
    /\ wal' = {[l EXCEPT !.off = Rank(Kept, l)] : l \in Kept}
    /\ size' = Cardinality(Kept)
    /\ torn' = FALSE
    /\ UNCHANGED <<letters, mem, signals, drainer, backlog, calls, held,
                   answers, tombed, excused, faults>>

\* A crash (or the process ending after Close) and the next start: only the
\* files survive.  Replay counts the pending lines, Start begins a pass.
Restarted ==
    /\ mem' = {}
    /\ held' = [t \in Texts |-> 0]
    /\ wake' = FALSE /\ waking' = 0 /\ closing' = FALSE
    /\ pc' = "read" /\ batch' = {} /\ cursor' = 0 /\ progressed' = FALSE
    /\ delay' = InitDelay

\* A WAL event answered but not yet tombstoned is delivered again.
Unsettled(t) ==
    {e \in batch : ~e.mem /\ e.text = t /\ e.st \in {"ok", "refused", "dead"}}

ExcuseUnsettled ==
    excused' = [t \in Texts |-> excused[t] + Cardinality(Unsettled(t))]

Crash ==
    /\ Inject("crash")
    /\ Restarted
    /\ ExcuseUnsettled
    /\ backlog' = Cardinality(Pending)
    /\ UNCHANGED <<file, letters, calls, answers, tombed>>

\* A crash in the middle of the write of appendWALLocked.
CrashInAppend(t) ==
    /\ offered[t] < Quota[t]
    /\ Inject("crash")
    /\ "torn" \in Faults
    /\ offered' = [offered EXCEPT ![t] = @ + 1]
    /\ \E r \in Residues \ {"none"} : LeaveResidue(t, r)
    /\ Restarted
    /\ ExcuseUnsettled
    /\ backlog' = Cardinality(Pending')
    /\ UNCHANGED <<letters, appended, answers, tombed>>

-----------------------------------------------------------------------------
Init ==
    /\ wal = {} /\ size = 0 /\ torn = FALSE
    /\ dead = [t \in Texts |-> 0] /\ deadCut = 0
    /\ mem = {}
    /\ wake = FALSE /\ waking = 0 /\ closing = FALSE
    /\ pc = "read" /\ batch = {} /\ cursor = 0 /\ progressed = FALSE
    /\ delay = InitDelay
    /\ backlog = 0
    /\ offered = [t \in Texts |-> 0]
    /\ appended = [t \in Texts |-> 0]
    /\ cuts = 0
    /\ held = [t \in Texts |-> 0]
    /\ accepted = [t \in Texts |-> 0]
    /\ refused = [t \in Texts |-> 0]
    /\ tombed = [t \in Texts |-> 0]
    /\ excused = [t \in Texts |-> 0]
    /\ faults = 0

\* A step of one goroutine of the round under way.
Deliver(e) ==
    /\ pc = "round"
    /\ \/ SinkAccepts(e) \/ SinkRefuses(e) \/ EmitFails(e) \/ AnswerLost(e)
       \/ DeadLetter(e) \/ Settle(e) \/ SettleFails(e)

Drain ==
    \/ ReadBatch \/ ReadBatchFails
    \/ TakeWake \/ StopIdle
    \/ \E e \in Round : Deliver(e)
    \/ RoundDone \/ WaitDone \/ WaitStopped \/ PassDone

Next ==
    \/ \E t \in Texts : EnqueueAppends(t) \/ EnqueueHolds(t)
    \/ Wake
    \/ Close
    \/ Drain
    \/ Compact
    \/ Crash
    \/ \E t \in Texts : CrashInAppend(t)

Spec == Init /\ [][Next]_vars

\* An attempt to deliver t that the sink answers.
Answered(t) ==
    \E e \in Round :
        /\ pc = "round" /\ e.text = t
        /\ SinkAccepts(e) \/ SinkRefuses(e)

(***************************************************************************)
(* The scheduler runs every goroutine that can take a step; a delivery     *)
(* attempt ends by the 10 s client timeout.  The sink is only assumed to   *)
(* answer an event it can settle if that event is offered again and again. *)
(***************************************************************************)
Fairness ==
    /\ WF_vars(Drain)
    /\ WF_vars(Wake)
    /\ \A t \in Texts : SF_vars(Answered(t))

FairSpec == Spec /\ Fairness

-----------------------------------------------------------------------------
(* Properties.                                                              *)

\* No crash, fault, compaction or interleaving loses a durably appended event:
\* as many events of every text were answered by the sink or are still live
\* lines as Enqueue appended.
NoEventLost ==
    \A t \in Texts :
        appended[t] <= Cardinality(LiveOf(t)) + accepted[t] + refused[t]

\* What leaves the WAL unsent is on record: a tombstone is backed by a 2xx
\* answer or by a dead-letter record, and every cut line is still in the WAL
\* or has a dead-letter record.
NothingVanishes ==
    /\ \A t \in Texts : tombed[t] <= accepted[t] + dead[t]
    /\ cuts <= Cardinality({l \in wal : l.st = "bad"}) + deadCut

\* Delivery is repeated only for a reason (a lost answer, a failed tombstone, a
\* crash before the tombstone, a short write that left a whole line): equal
\* texts and compaction never make the drainer send an event twice.
NoNeedlessDuplicate ==
    \A t \in Texts : accepted[t] + refused[t] <= offered[t] + excused[t]

\* The drainer never sleeps on work: when it is idle with no wake pending or
\* coming, no event waits in the WAL or in memory.
NoLostWakeup ==
    pc = "idle" /\ ~wake /\ waking = 0 => Pending = {} /\ mem = {}

\* Memory events of the batch still to be settled.
InFlight(t) == {e \in batch : e.mem /\ e.text = t /\ e.st # "settled"}

\* The backlog gauge is the number of events that are neither delivered nor
\* dead-lettered.
BacklogExact ==
    backlog = Cardinality(Pending) + Cardinality(mem)
              + Cardinality({e \in batch : e.mem /\ e.st # "settled"})

\* An event Enqueue holds in memory stays there, or in the drainer's batch,
\* until it is settled, as long as the process runs.
MemoryHeld ==
    \A t \in Texts :
        held[t] = Cardinality({m \in mem : m.text = t}) + Cardinality(InFlight(t))

\* No event is lost from sight while the process runs: gauge, memory, batch and
\* WAL add up, whatever appends, passes and tombstones interleave (storeBacklog,
\* returnMemory, tombstone).
EventsAccounted == BacklogExact /\ MemoryHeld

PendingOf(t) == {l \in Pending : l.text = t}

\* Every pending event the sink can settle leaves the WAL while the queue runs.
EventuallySettled ==
    \A t \in Texts \ Poison :
        PendingOf(t) # {} ~> PendingOf(t) = {} \/ closing

\* Close ends the drainer even if the sink settles nothing, unless the process
\* ends first.
CloseEndsDrainer == closing ~> pc = "exited" \/ ~closing

=============================================================================
