--------------------------- MODULE OptimisticLock ---------------------------
(***************************************************************************)
(* The optimistic locks of frontend/OptimisticLocks.hpp, as run_check of   *)
(* frontend/optdb_experiment.cpp and run_test of optmistic_benchmark.cpp   *)
(* use them: writers take a latch in the tuple by compare-and-swap,        *)
(* readers take none and validate what they read.  A batch of identical    *)
(* READs, of which the last one's data stays, is one READ.                 *)
(*                                                                         *)
(* A tuple is a row of cache lines.  A line holds the words the protocol   *)
(* looks at: a version, the latch, a checksum, and data, the counter that  *)
(* run_check keeps equal in every line (where run_test changes one word    *)
(* only, read it as the update that the line dates from).  Which line's    *)
(* version, latch and checksum mean something depends on the consistency   *)
(* proof and on where the latch is; elsewhere these words stay 0.          *)
(*                                                                         *)
(* A worker is a thread and the send queue of its queue pair.  The queue   *)
(* pair executes requests in posting order.  Its content is wr[w], the     *)
(* unexecuted part of, in this order, the previous operation's WRITE and   *)
(* FAA and the current operation's CAS and READ.  A READ takes the lines   *)
(* in any order.  A WRITE fills them in increasing order, on which the     *)
(* footer latch depends: it is released by the end of the payload's WRITE. *)
(***************************************************************************)
EXTENDS Integers, FiniteSets, Functions

CONSTANTS
    Workers,     \* the worker threads of all compute nodes
    NumLines,    \* the length of the tuple in cache lines
    Modes,       \* the instances of the templates, and their use, to explore
    MaxUpdates   \* bound: the updates each worker makes

ASSUME ConfigAssumption ==
    /\ Workers # {} /\ IsFiniteSet(Workers)
    /\ NumLines \in Nat \ {0}
    /\ MaxUpdates \in [Workers -> Nat]
    /\ Modes \subseteq [consistency : {"V2", "CRC", "FaRM"},
                        lock : {"Header", "Footer"},
                        buffers : {1, 2}]

Lines   == 1 .. NumLines
Buffers == {0, 1}

VARIABLES
    mode,      \* the template arguments <Consistency, LockType> of this run, and
               \* the number of local tuple buffers a worker alternates between
    tuple,     \* remote: the tuple's lines
    pc,        \* where each thread stands
    buffers,   \* tuple_buffers: local copies of the tuple
    b,         \* which of them the current operation uses
    x_locked,  \* lock_buffer[0]: the result of the thread's latest atomic
    prev,      \* prev_version of the current read
    wr,        \* what each queue pair still has to execute
    updates,   \* updates the thread has posted
    mine       \* history: the counter in the thread's latest update

thread == <<pc, buffers, b, x_locked, prev, updates, mine>>
vars   == <<mode, tuple, pc, buffers, b, x_locked, prev, wr, updates, mine>>

V2     == mode.consistency = "V2"
CRC    == mode.consistency = "CRC"
FaRM   == mode.consistency = "FaRM"
Header == mode.lock = "Header"

LatchLine == IF Header THEN 1 ELSE NumLines
\* The line whose version readers compare and writers increase.
VersionLine == IF V2 /\ ~Header THEN NumLines ELSE 1
\* FaRM has a version in every line.
Versioned(l) == FaRM \/ l = VersionLine

Line == [ver : Nat, latch : {0, 1}, crc : [Lines -> Nat], data : Nat]
ZeroLine == [ver |-> 0, latch |-> 0, crc |-> [l \in Lines |-> 0], data |-> 0]

Queues == [write : SUBSET Lines, from : Buffers, release : BOOLEAN, acquire : BOOLEAN,
           read : SUBSET Lines, part : {"all", "head", "rest", "version"}]

TypeOK ==
    /\ mode \in Modes
    /\ tuple \in [Lines -> Line]
    /\ pc \in [Workers -> {"idle", "r_lock", "r_head", "r_body", "r_validate", "r_done",
                           "w_lock", "w_locked"}]
    /\ buffers \in [Workers -> [Buffers -> [Lines -> Line]]]
    /\ b \in [Workers -> Buffers]
    /\ x_locked \in [Workers -> {0, 1}]
    /\ prev \in [Workers -> Nat]
    /\ wr \in [Workers -> Queues]
    /\ updates \in [Workers -> Nat]
    /\ mine \in [Workers -> Nat]

\* Remote memory is zeroed; crc64 of zeroes, started from 0, is 0.
Init ==
    /\ mode \in Modes
    /\ tuple = [l \in Lines |-> ZeroLine]
    /\ pc = [w \in Workers |-> "idle"]
    /\ buffers = [w \in Workers |-> [i \in Buffers |-> [l \in Lines |-> ZeroLine]]]
    /\ b = [w \in Workers |-> 0]
    /\ x_locked = [w \in Workers |-> 0]
    /\ prev = [w \in Workers |-> 0]
    /\ wr = [w \in Workers |-> [write |-> {}, from |-> 0, release |-> FALSE,
                                acquire |-> FALSE, read |-> {}, part |-> "all"]]
    /\ updates = [w \in Workers |-> 0]
    /\ mine = [w \in Workers |-> 0]

-----------------------------------------------------------------------------
(* The queue pair.                                                         *)

\* The WRITE of the whole tuple, its next line: the one after those already
\* written.  The network card fetches the line from the local buffer now, not
\* when the request was posted.
NicWrite(w) ==
    /\ wr[w].write # {}
    /\ LET l == CHOOSE l \in wr[w].write : \A m \in wr[w].write : l <= m
       IN  /\ tuple' = [tuple EXCEPT ![l] = buffers[w][wr[w].from][l]]
           /\ wr' = [wr EXCEPT ![w].write = @ \ {l}]
    /\ UNCHANGED <<mode, thread>>

\* Mutant: the release adds 1 instead of -1.
NicReleaseAdding(w) ==
    /\ wr[w].release
    /\ wr[w].write = {}
    /\ tuple' = [tuple EXCEPT ![LatchLine].latch = @ + 1]
    /\ x_locked' = [x_locked EXCEPT ![w] = tuple[LatchLine].latch]
    /\ wr' = [wr EXCEPT ![w].release = FALSE]
    /\ UNCHANGED <<mode, pc, buffers, b, prev, updates, mine>>

\* HeaderLock: the fenced FAA(-1) on the latch behind the WRITE.
NicRelease(w) ==
    /\ wr[w].release
    /\ wr[w].write = {}
    /\ tuple' = [tuple EXCEPT ![LatchLine].latch = @ - 1]
    /\ x_locked' = [x_locked EXCEPT ![w] = tuple[LatchLine].latch]
    /\ wr' = [wr EXCEPT ![w].release = FALSE]
    /\ UNCHANGED <<mode, pc, buffers, b, prev, updates, mine>>

Released(w) == wr[w].write = {} /\ ~wr[w].release

\* COMPARE_AND_SWAP(W_UNLOCKED, W_LOCKED) on the latch.
NicCompareSwap(w) ==
    /\ wr[w].acquire
    /\ Released(w)
    /\ tuple' = [tuple EXCEPT ![LatchLine].latch = 1]
    /\ x_locked' = [x_locked EXCEPT ![w] = tuple[LatchLine].latch]
    /\ wr' = [wr EXCEPT ![w].acquire = FALSE]
    /\ UNCHANGED <<mode, pc, buffers, b, prev, updates, mine>>

\* Mutant: READs go through a second queue pair, as with --rcopt.
AcquiredOnly(w) == ~wr[w].acquire

Acquired(w) == Released(w) /\ ~wr[w].acquire

\* What a READ of a part of the tuple leaves in a line of the local buffer.
Fetched(part, old, new) ==
    CASE part = "all"     -> new
      [] part = "head"    -> [old EXCEPT !.ver = new.ver, !.latch = new.latch]
      [] part = "rest"    -> [new EXCEPT !.ver = old.ver, !.latch = old.latch]
      [] part = "version" -> [old EXCEPT !.ver = new.ver]

NicRead(w, l) ==
    /\ l \in wr[w].read
    /\ Acquired(w)
    /\ buffers' = [buffers EXCEPT ![w][b[w]][l] = Fetched(wr[w].part, @, tuple[l])]
    /\ wr' = [wr EXCEPT ![w].read = @ \ {l}]
    /\ UNCHANGED <<mode, tuple, pc, b, x_locked, prev, updates, mine>>

Nic(w) == \/ NicWrite(w) \/ NicRelease(w) \/ NicCompareSwap(w)
          \/ \E l \in Lines : NicRead(w, l)

Polled(w) == Acquired(w) /\ wr[w].read = {}

-----------------------------------------------------------------------------
(* The thread: OptimisticLock::lock and unlock.                            *)

Goto(w, from, to) == pc[w] = from /\ pc' = [pc EXCEPT ![w] = to]

PostRead(w, lines, part) == wr' = [wr EXCEPT ![w].read = lines, ![w].part = part]

Local(w)    == buffers[w][b[w]]
Version(w)  == Local(w)[VersionLine].ver
Unlatched(w) == Local(w)[LatchLine].latch = 0     \* checkLock

\* Mutant: the buffers are not alternated.
SameBuffer(w) == b' = [b EXCEPT ![w] = 0]

NextBuffer(w) == b' = [b EXCEPT ![w] = (@ + 1) % mode.buffers]

BeginRead(w) ==
    /\ Goto(w, "idle", "r_lock")
    /\ NextBuffer(w)
    /\ prev' = [prev EXCEPT ![w] = 0]
    /\ UNCHANGED <<mode, tuple, buffers, x_locked, wr, updates, mine>>

\* V2 reads version and latch first, the rest when they have arrived; with a
\* footer it clears both words of the local buffer before.
LockV2(w) ==
    /\ V2
    /\ Goto(w, "r_lock", "r_head")
    /\ buffers' = IF Header THEN buffers
                  ELSE [buffers EXCEPT ![w][b[w]][NumLines] =
                             [@ EXCEPT !.ver = 0, !.latch = 0]]
    /\ PostRead(w, {VersionLine}, "head")
    /\ UNCHANGED <<mode, tuple, b, x_locked, prev, updates, mine>>

LockV2Rest(w) ==
    /\ Polled(w)
    /\ Goto(w, "r_head", "r_body")
    /\ PostRead(w, Lines, "rest")
    /\ UNCHANGED <<mode, tuple, buffers, b, x_locked, prev, updates, mine>>

\* The other proofs read the tuple at once.
LockAll(w) ==
    /\ ~V2
    /\ Goto(w, "r_lock", "r_body")
    /\ PostRead(w, Lines, "all")
    /\ UNCHANGED <<mode, tuple, buffers, b, x_locked, prev, updates, mine>>

\* checkConsistencyProof.  The checksum covers the data and nothing else.
ConsistencyProof(lines) ==
    /\ CRC => lines[1].crc = [l \in Lines |-> lines[l].data]
    /\ FaRM => \A l \in Lines : lines[l].ver = lines[1].ver

\* The part of lock() that may throw OLRestartException.
ReadAccepted(w) == (~FaRM => Unlatched(w)) /\ ConsistencyProof(Local(w))

ReadRestart(w) ==
    /\ Polled(w)
    /\ ~ReadAccepted(w)
    /\ Goto(w, "r_body", "r_lock")
    /\ prev' = IF ~FaRM THEN [prev EXCEPT ![w] = Version(w)] ELSE prev
    /\ UNCHANGED <<mode, tuple, buffers, b, x_locked, wr, updates, mine>>

\* Mutant: V2 with a footer reads the version again, but not the latch.
RevalidateVersion(w) ==
    /\ ~FaRM
    /\ Polled(w)
    /\ ReadAccepted(w)
    /\ Goto(w, "r_body", "r_validate")
    /\ prev' = [prev EXCEPT ![w] = Version(w)]
    /\ PostRead(w, {VersionLine}, "version")
    /\ UNCHANGED <<mode, tuple, buffers, b, x_locked, updates, mine>>

\* unlock() reads the version once more; with V2 and a footer the latch too.
Revalidate(w) ==
    /\ ~FaRM
    /\ Polled(w)
    /\ ReadAccepted(w)
    /\ Goto(w, "r_body", "r_validate")
    /\ prev' = [prev EXCEPT ![w] = Version(w)]
    /\ PostRead(w, {VersionLine}, IF V2 /\ ~Header THEN "head" ELSE "version")
    /\ UNCHANGED <<mode, tuple, buffers, b, x_locked, updates, mine>>

Valid(w) == prev[w] = Version(w) /\ Unlatched(w)

\* For FaRM unlock() is checkLock alone.
FarmUnlock(w) ==
    /\ FaRM
    /\ Polled(w)
    /\ ReadAccepted(w)
    /\ IF Unlatched(w) THEN Goto(w, "r_body", "r_done") ELSE Goto(w, "r_body", "r_lock")
    /\ UNCHANGED <<mode, tuple, buffers, b, x_locked, prev, wr, updates, mine>>

Unlock(w) ==
    /\ Polled(w)
    /\ IF Valid(w) THEN Goto(w, "r_validate", "r_done") ELSE Goto(w, "r_validate", "r_lock")
    /\ UNCHANGED <<mode, tuple, buffers, b, x_locked, prev, wr, updates, mine>>

EndRead(w) ==
    /\ Goto(w, "r_done", "idle")
    /\ UNCHANGED <<mode, tuple, buffers, b, x_locked, prev, wr, updates, mine>>

-----------------------------------------------------------------------------
(* The thread: ExclusiveLock::lock and unlock.                             *)

BeginWrite(w) ==
    /\ updates[w] < MaxUpdates[w]
    /\ Goto(w, "idle", "w_lock")
    /\ NextBuffer(w)
    /\ UNCHANGED <<mode, tuple, buffers, x_locked, prev, wr, updates, mine>>

\* AbstractLock::lock: CAS, and the READ of the tuple behind it.
WriteLock(w) ==
    /\ Goto(w, "w_lock", "w_locked")
    /\ wr' = [wr EXCEPT ![w].acquire = TRUE, ![w].read = Lines, ![w].part = "all"]
    /\ UNCHANGED <<mode, tuple, buffers, b, x_locked, prev, updates, mine>>

\* Mutant: the writer that did not get the latch releases it.
WriteRestartReleasing(w) ==
    /\ Polled(w)
    /\ x_locked[w] # 0
    /\ Goto(w, "w_locked", "w_lock")
    /\ wr' = [wr EXCEPT ![w].release = TRUE]
    /\ UNCHANGED <<mode, tuple, buffers, b, x_locked, prev, updates, mine>>

WriteRestart(w) ==
    /\ Polled(w)
    /\ x_locked[w] # 0
    /\ Goto(w, "w_locked", "w_lock")
    /\ UNCHANGED <<mode, tuple, buffers, b, x_locked, prev, wr, updates, mine>>

\* Mutant: the footer goes back as it was read, latched.
UpdatedLatched(lines) ==
    LET data == [l \in Lines |-> lines[l].data + 1]
    IN  [l \in Lines |->
            [ver   |-> IF Versioned(l) THEN lines[l].ver + 1 ELSE lines[l].ver,
             latch |-> lines[l].latch,
             crc   |-> IF CRC /\ l = 1 THEN data ELSE lines[l].crc,
             data  |-> data[l]]]

\* The update, generateConsistencyProof, the version, and with a footer the
\* latch, all in the local buffer.
Updated(lines) ==
    LET data == [l \in Lines |-> lines[l].data + 1]
    IN  [l \in Lines |->
            [ver   |-> IF Versioned(l) THEN lines[l].ver + 1 ELSE lines[l].ver,
             latch |-> IF l = LatchLine /\ ~Header THEN 0 ELSE lines[l].latch,
             crc   |-> IF CRC /\ l = 1 THEN data ELSE lines[l].crc,
             data  |-> data[l]]]

\* Mutant: the result of the swap is not looked at.
WriteUnlockUnlatched(w) ==
    /\ Polled(w)
    /\ Goto(w, "w_locked", "idle")
    /\ buffers' = [buffers EXCEPT ![w][b[w]] = Updated(@)]
    /\ wr' = [wr EXCEPT ![w].write = Lines, ![w].from = b[w], ![w].release = Header]
    /\ updates' = [updates EXCEPT ![w] = @ + 1]
    /\ mine' = [mine EXCEPT ![w] = Local(w)[1].data + 1]
    /\ UNCHANGED <<mode, tuple, b, x_locked, prev>>

\* ... which is then written back, unsignaled, with HeaderLock's FAA behind.
WriteUnlock(w) ==
    /\ Polled(w)
    /\ x_locked[w] = 0
    /\ Goto(w, "w_locked", "idle")
    /\ buffers' = [buffers EXCEPT ![w][b[w]] = Updated(@)]
    /\ wr' = [wr EXCEPT ![w].write = Lines, ![w].from = b[w], ![w].release = Header]
    /\ updates' = [updates EXCEPT ![w] = @ + 1]
    /\ mine' = [mine EXCEPT ![w] = Local(w)[1].data + 1]
    /\ UNCHANGED <<mode, tuple, b, x_locked, prev>>

-----------------------------------------------------------------------------

Reader(w) == \/ LockV2(w) \/ LockV2Rest(w) \/ LockAll(w) \/ ReadRestart(w)
             \/ Revalidate(w) \/ FarmUnlock(w) \/ Unlock(w) \/ EndRead(w)
Writer(w) == WriteLock(w) \/ WriteRestart(w) \/ WriteUnlock(w)

Next == \E w \in Workers : \/ Nic(w)
                           \/ Reader(w) \/ BeginRead(w)
                           \/ Writer(w) \/ BeginWrite(w)

Spec == Init /\ [][Next]_vars

\* Threads keep running and queue pairs keep executing; whether a thread
\* begins another operation is its own business.
Fairness == \A w \in Workers : WF_vars(Nic(w)) /\ WF_vars(Reader(w) \/ Writer(w))

FairSpec == Spec /\ Fairness

-----------------------------------------------------------------------------
(* Properties.                                                             *)

\* w's swap succeeded, and its release has not reached the tuple yet.
HoldsLatch(w) ==
    \/ pc[w] = "w_locked" /\ ~wr[w].acquire /\ x_locked[w] = 0
    \/ ~Released(w)

\* The latch is set exactly while one worker holds it, from its swap to the
\* end of the release that is still in its queue when the thread goes on.
LatchExclusive ==
    /\ tuple[LatchLine].latch = Cardinality({w \in Workers : HoldsLatch(w)})

\* run_check's test, "Read consistency check failed": a validated read is one
\* state of the tuple, although nothing kept writers out while it was made.
SnapshotConsistent ==
    \A w \in Workers : pc[w] = "r_done" =>
        \A l, m \in Lines : Local(w)[l].data = Local(w)[m].data

\* Every update reaches the tuple, once: when nobody holds the latch the
\* counter in each line is the number of updates made.
NoLostUpdate ==
    tuple[LatchLine].latch = 0 =>
        \A l \in Lines : tuple[l].data = FoldFunction(+, 0, updates)

\* A read sees the thread's own earlier update, posted but not polled for.
ReadsOwnWrites ==
    \A w \in Workers : pc[w] = "r_done" => \A l \in Lines : Local(w)[l].data >= mine[w]

\* A version word never goes back and never skips: what a validated version
\* stood for does not come again.
VersionsStepUp ==
    [][\A l \in Lines : tuple'[l].ver \in {tuple[l].ver, tuple[l].ver + 1}]_tuple

\* An operation ends once writers let it: the tuple is never left in a state
\* that validates for no reader (a latch set for ever, versions out of step).
OperationsEnd ==
    \A w \in Workers : pc[w] # "idle" ~> pc[w] = "idle"
=============================================================================
