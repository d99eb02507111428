----------------------- MODULE OptimisticLock_proofs -----------------------
(***************************************************************************)
(* OptimisticLock, for any finite set of workers, a tuple of any length    *)
(* and any number of updates: type correctness, the latch, that no update  *)
(* is lost and that readers see their own; and, if V2 with a footer latch  *)
(* has two buffers, that versions never skip and that validated reads are  *)
(* snapshots.                                                              *)
(***************************************************************************)
EXTENDS OptimisticLock, FiniteSetTheorems, SumTheorems, TLAPS

\* w's thread holds the latch, and reads the tuple or has read it.
Owner(w) == pc[w] = "w_locked" /\ ~wr[w].acquire /\ x_locked[w] = 0

\* What a thread has in its queue at each point of its program.  WRITEs of
\* FooterLock end in the latch, those of HeaderLock are followed by its release.
QueueOK(w) ==
    /\ wr[w].acquire => pc[w] = "w_locked" /\ wr[w].read = Lines
    /\ pc[w] = "w_locked" => wr[w].part = "all" /\ (wr[w].acquire \/ Released(w))
    /\ pc[w] = "r_head" => V2 /\ wr[w].part = "head" /\ wr[w].read \subseteq {VersionLine}
    /\ pc[w] = "r_body" => wr[w].part = IF V2 THEN "rest" ELSE "all"
    /\ pc[w] = "r_validate" => /\ ~FaRM
                               /\ wr[w].part = IF V2 /\ ~Header THEN "head" ELSE "version"
                               /\ wr[w].read \subseteq {VersionLine}
    /\ wr[w].read # {} => pc[w] \in {"r_head", "r_body", "r_validate", "w_locked"}
    /\ wr[w].release => Header
    /\ wr[w].write # {} => IF Header THEN wr[w].release ELSE LatchLine \in wr[w].write

\* The WRITE writes the latch: with HeaderLock it is still set.
LatchKept(w) ==
    LatchLine \in wr[w].write =>
        buffers[w][wr[w].from][LatchLine].latch = IF Header THEN 1 ELSE 0

\* What the latch's owner has read is what is stored.
OwnerReads(w) == Owner(w) => \A l \in Lines \ wr[w].read : Local(w)[l] = tuple[l]

\* Who holds the latch, and whether it is set.
Holders == {w \in Workers : HoldsLatch(w)}
Latched == tuple[LatchLine].latch = 1

\* The latch is set while it has a holder, which is the only one.
OneHolder == IF Latched THEN \E w \in Workers : Holders = {w} ELSE Holders = {}

IInv == /\ TypeOK
        /\ OneHolder
        /\ \A w \in Workers : QueueOK(w) /\ LatchKept(w) /\ OwnerReads(w)

\* V2 with a footer alternates between two local buffers.
EnoughBuffers ==
    \A m \in Modes : m.consistency = "V2" /\ m.lock = "Footer" => m.buffers = 2

\* A WRITE under way is from the thread's latest buffer; with two of them the
\* operation that has begun meanwhile uses the other.
BufferKept(w) ==
    wr[w].write # {} =>
        /\ pc[w] \notin {"r_validate", "r_done"}
        /\ IF pc[w] = "idle" THEN b[w] = wr[w].from
                             ELSE mode.buffers = 2 => b[w] # wr[w].from

\* A WRITE under way is of one version, the next; the lines it has yet to fill
\* are of the one before.
WriteOK(w) ==
    wr[w].write # {} =>
      LET new == buffers[w][wr[w].from]
          n   == new[VersionLine].data
      IN  \A l \in Lines :
            /\ new[l].data = n
            /\ new[l].ver = IF Versioned(l) THEN n ELSE 0
            /\ tuple[l].data = IF l \in wr[w].write THEN n - 1 ELSE n

\* Data advance with the versions, and all lines are of one version unless a
\* WRITE is under way.
TupleOK ==
    /\ \A l \in Lines : tuple[l].ver = IF Versioned(l) THEN tuple[l].data ELSE 0
    /\ (\A w \in Workers : wr[w].write = {}) =>
           \A l \in Lines : tuple[l].data = tuple[VersionLine].data

\* The data a checksum was computed from are those of one version.
Uniform(crc) == \A l, m \in Lines : crc[l] = crc[m]

\* What CRC and FaRM validate by, wherever a copy of it is.
ProofsOK ==
    /\ CRC => /\ Uniform(tuple[1].crc)
              /\ \A w \in Workers : \A i \in Buffers : Uniform(buffers[w][i][1].crc)
    /\ FaRM => \A w \in Workers : \A i \in Buffers : \A l \in Lines :
                   buffers[w][i][l].ver = buffers[w][i][l].data

\* Version v is still the one to read: its version word is there, and with a
\* footer latch nobody is about to overwrite it.
Current(v) == tuple[VersionLine].ver = v /\ (Header \/ ~Latched)

\* w has seen version v unlatched, and read some lines since: as long as v is
\* current these lines, and all of the tuple, are of version v.
Seen(w, v, lines) ==
    /\ tuple[VersionLine].ver >= v
    /\ Current(v) => /\ \A l \in Lines : tuple[l].data = v
                     /\ \A l \in lines : Local(w)[l].data = v

Even(w) == \A l, m \in Lines : Local(w)[l].data = Local(w)[m].data

\* What a reader knows at each point of its program.
ReadOK(w) ==
    /\ pc[w] = "r_head" /\ wr[w].read = {} /\ Unlatched(w) => Seen(w, Version(w), {})
    /\ pc[w] = "r_body" /\ V2 /\ Unlatched(w) => Seen(w, Version(w), Lines \ wr[w].read)
    /\ pc[w] = "r_validate" /\ V2 =>
          IF wr[w].read = {} THEN Valid(w) => Even(w) ELSE Seen(w, prev[w], Lines)
    /\ (pc[w] = "r_validate" /\ CRC) \/ pc[w] = "r_done" => Even(w)

DInv == /\ TupleOK /\ ProofsOK
        /\ \A w \in Workers : BufferKept(w) /\ WriteOK(w) /\ ReadOK(w)
-----------------------------------------------------------------------------

\* The lines that mean something are lines of the tuple.
LEMMA LineFacts ==
    /\ NumLines \in Nat /\ Lines \subseteq Nat /\ 1 \in Lines /\ NumLines \in Lines
    /\ \A l \in Lines : 1 <= l /\ l <= NumLines
    /\ LatchLine \in Lines /\ VersionLine \in Lines
    /\ Versioned(VersionLine)
    /\ Header \/ LatchLine = NumLines
    /\ Header => LatchLine = 1 /\ VersionLine = 1
    /\ ~V2 => VersionLine = 1
    /\ V2 /\ ~Header => VersionLine = NumLines
BY ConfigAssumption DEF Lines, LatchLine, VersionLine, Versioned

\* The template arguments do not change, nor what depends on them alone.
Same == /\ mode' = mode
        /\ V2' <=> V2
        /\ CRC' <=> CRC
        /\ FaRM' <=> FaRM
        /\ Header' <=> Header
        /\ LatchLine' = LatchLine /\ VersionLine' = VersionLine

\* ... in any step.
LEMMA ModeSame == mode' = mode => Same
BY DEF Same, V2, CRC, FaRM, Header, LatchLine, VersionLine

\* A run has one consistency proof, and as many buffers as its mode says.
LEMMA ModeFacts ==
    ASSUME mode \in Modes
    PROVE  /\ mode.buffers \in {1, 2}
           /\ (V2 /\ ~FaRM /\ ~CRC) \/ (~V2 /\ FaRM /\ ~CRC) \/ (~V2 /\ ~FaRM /\ CRC)
           /\ EnoughBuffers /\ V2 /\ ~Header => mode.buffers = 2
BY ConfigAssumption DEF V2, FaRM, CRC, Header, EnoughBuffers

\* The zeroed tuple and the idle threads satisfy the invariants.
LEMMA InitInv == Init => IInv /\ DInv
<1> SUFFICES ASSUME Init PROVE IInv /\ DInv
  OBVIOUS
<1>1. ZeroLine \in Line /\ ZeroLine.ver = 0 /\ ZeroLine.latch = 0 /\ ZeroLine.data = 0
      /\ ZeroLine.crc = [l \in Lines |-> 0]
  BY DEF ZeroLine, Line
<1>2. TypeOK
  BY <1>1 DEF Init, TypeOK, Queues, Buffers
<1>3. \A l \in Lines : tuple[l] = ZeroLine
  BY DEF Init
<1>4. \A w \in Workers : \A i \in Buffers : \A l \in Lines : buffers[w][i][l] = ZeroLine
  BY DEF Init
<1>5. \A w \in Workers : /\ pc[w] = "idle" /\ wr[w].write = {} /\ wr[w].release = FALSE
                         /\ wr[w].acquire = FALSE /\ wr[w].read = {}
  BY DEF Init
<1>6. \A w \in Workers : QueueOK(w) /\ LatchKept(w) /\ OwnerReads(w) /\ ~HoldsLatch(w)
  BY <1>5 DEF QueueOK, LatchKept, OwnerReads, Owner, HoldsLatch, Released
<1>7. OneHolder
  BY <1>1, <1>3, <1>6, LineFacts DEF OneHolder, Latched, Holders
<1>8. \A w \in Workers : BufferKept(w) /\ WriteOK(w) /\ ReadOK(w)
  BY <1>5 DEF BufferKept, WriteOK, ReadOK
<1>9. TupleOK
  BY <1>1, <1>3, LineFacts DEF TupleOK
<1>10. ProofsOK
  BY <1>1, <1>3, <1>4, LineFacts DEF ProofsOK, Uniform
<1>11. QED
  BY <1>2, <1>6, <1>7, <1>8, <1>9, <1>10 DEF IInv, DInv

-----------------------------------------------------------------------------
(* What a step of one worker leaves alone.                                 *)

\* A step of w leaves the other workers where they are.
Others(w) == \A v \in Workers \ {w} :
                 /\ pc'[v] = pc[v] /\ b'[v] = b[v] /\ x_locked'[v] = x_locked[v]
                 /\ prev'[v] = prev[v] /\ wr'[v] = wr[v] /\ buffers'[v] = buffers[v]

\* ... with what holds of their queues.
LEMMA OthersQueues ==
    ASSUME NEW w \in Workers, Others(w), Same, NEW v \in Workers \ {w}
    PROVE  /\ QueueOK(v) => QueueOK(v)'
           /\ LatchKept(v) => LatchKept(v)'
           /\ BufferKept(v) => BufferKept(v)'
           /\ HoldsLatch(v)' <=> HoldsLatch(v)
           /\ Owner(v)' <=> Owner(v)
<1>1. /\ pc'[v] = pc[v] /\ b'[v] = b[v] /\ x_locked'[v] = x_locked[v]
      /\ prev'[v] = prev[v] /\ wr'[v] = wr[v] /\ buffers'[v] = buffers[v]
  BY DEF Others
<1>2. QueueOK(v) => QueueOK(v)'
  BY <1>1 DEF Same, QueueOK, Released
<1>3. LatchKept(v) => LatchKept(v)'
  BY <1>1 DEF Same, LatchKept
<1>4. BufferKept(v) => BufferKept(v)'
  BY <1>1 DEF Same, BufferKept
<1>5. /\ HoldsLatch(v)' <=> HoldsLatch(v)
      /\ Owner(v)' <=> Owner(v)
  BY <1>1 DEF HoldsLatch, Owner, Released
<1>6. QED
  BY <1>2, <1>3, <1>4, <1>5

\* If the tuple stays, the other workers' data do.
LEMMA OthersData ==
    ASSUME NEW w \in Workers, Others(w), Same, tuple' = tuple, NEW v \in Workers \ {w}
    PROVE  /\ OwnerReads(v) => OwnerReads(v)'
           /\ WriteOK(v) => WriteOK(v)'
           /\ ReadOK(v) => ReadOK(v)'
<1>1. /\ pc'[v] = pc[v] /\ b'[v] = b[v] /\ x_locked'[v] = x_locked[v]
      /\ prev'[v] = prev[v] /\ wr'[v] = wr[v] /\ buffers'[v] = buffers[v]
  BY DEF Others
<1>2. OwnerReads(v) => OwnerReads(v)'
  BY <1>1, OthersQueues DEF OwnerReads, Local
<1>3. WriteOK(v) => WriteOK(v)'
  BY <1>1 DEF Same, WriteOK, Versioned
<1>4. ReadOK(v) => ReadOK(v)'
  BY <1>1 DEF Same, ReadOK, Unlatched, Seen, Current, Version, Valid, Even, Local, Latched
<1>5. QED
  BY <1>2, <1>3, <1>4

\* A step that leaves the tuple alone keeps the first invariant if it does so
\* for its own worker, and does not make it the latch's holder or end that.
LEMMA QuietStep ==
    ASSUME IInv, NEW w \in Workers, Others(w), Same, tuple' = tuple, TypeOK',
           HoldsLatch(w)' <=> HoldsLatch(w), QueueOK(w)', LatchKept(w)', OwnerReads(w)'
    PROVE  IInv'
<1>1. \A v \in Workers : HoldsLatch(v)' <=> HoldsLatch(v)
  BY OthersQueues
<1>2. Holders' = Holders /\ (Latched' <=> Latched)
  BY <1>1 DEF Holders, Latched, Same
<1>3. OneHolder'
  BY <1>2 DEF IInv, OneHolder
<1>4. \A v \in Workers : QueueOK(v)' /\ LatchKept(v)' /\ OwnerReads(v)'
  BY OthersQueues, OthersData DEF IInv
<1>5. QED
  BY <1>3, <1>4 DEF IInv

\* ... and likewise the second one, if it leaves the WRITE under way.
LEMMA QuietData ==
    ASSUME DInv, NEW w \in Workers, Others(w), Same, tuple' = tuple,
           wr'[w].write = {} => wr[w].write = {},
           BufferKept(w)', WriteOK(w)', ReadOK(w)',
           CRC => \A i \in Buffers : Uniform(buffers'[w][i][1].crc),
           FaRM => \A i \in Buffers : \A l \in Lines :
                       buffers'[w][i][l].ver = buffers'[w][i][l].data
    PROVE  DInv'
<1>1. \A v \in Workers : BufferKept(v)' /\ WriteOK(v)' /\ ReadOK(v)'
  BY OthersQueues, OthersData DEF DInv
<1>2. TupleOK'
  <2>1. (\A v \in Workers : wr'[v].write = {}) => \A v \in Workers : wr[v].write = {}
    BY DEF Others
  <2>2. QED
    BY <2>1 DEF DInv, TupleOK, Same, Versioned
<1>3. ProofsOK'
  <2>1. \A v \in Workers \ {w} : buffers'[v] = buffers[v]
    BY DEF Others
  <2>2. CRC => \A v \in Workers : \A i \in Buffers : Uniform(buffers'[v][i][1].crc)
    BY <2>1 DEF DInv, ProofsOK
  <2>3. FaRM => \A v \in Workers : \A i \in Buffers : \A l \in Lines :
                    buffers'[v][i][l].ver = buffers'[v][i][l].data
    BY <2>1 DEF DInv, ProofsOK
  <2>4. QED
    BY <2>2, <2>3 DEF DInv, ProofsOK, Same, Uniform
<1>4. QED
  BY <1>1, <1>2, <1>3 DEF DInv

-----------------------------------------------------------------------------
(* The threads.                                                            *)

PCs == {"idle", "r_lock", "r_head", "r_body", "r_validate", "r_done", "w_lock", "w_locked"}

\* An operation begins, with the next buffer.
LEMMA BeginStep ==
    ASSUME IInv, NEW w \in Workers, BeginRead(w) \/ BeginWrite(w)
    PROVE  IInv' /\ (DInv => DInv')
<1>1. /\ mode' = mode /\ tuple' = tuple /\ buffers' = buffers /\ x_locked' = x_locked
      /\ wr' = wr /\ updates' = updates /\ mine' = mine
      /\ b' = [b EXCEPT ![w] = (b[w] + 1) % mode.buffers]
      /\ prev' = [prev EXCEPT ![w] = 0] \/ prev' = prev
  BY DEF BeginRead, BeginWrite, NextBuffer
<1>2. /\ pc[w] = "idle" /\ pc' \in [Workers -> PCs]
      /\ pc'[w] \in {"r_lock", "w_lock"}
      /\ \A v \in Workers \ {w} : pc'[v] = pc[v]
  BY DEF IInv, TypeOK, BeginRead, BeginWrite, Goto, PCs
<1>3. TypeOK /\ mode \in Modes /\ mode.buffers \in {1, 2} /\ Same /\ QueueOK(w)
  BY <1>1, ModeSame, ModeFacts DEF IInv, TypeOK
<1>4. b[w] \in {0, 1} /\ (b[w] + 1) % mode.buffers \in Buffers
      /\ (mode.buffers = 2 => (b[w] + 1) % mode.buffers # b[w])
  <2>1. b[w] \in {0, 1}
    BY <1>3 DEF TypeOK, Buffers
  <2>2. QED
    BY <1>3, <2>1 DEF Buffers
<1>5. TypeOK' /\ Others(w)
  BY <1>1, <1>2, <1>3, <1>4 DEF TypeOK, Others, PCs
<1>6. /\ QueueOK(w)' /\ LatchKept(w)' /\ OwnerReads(w)'
      /\ HoldsLatch(w)' <=> HoldsLatch(w)
  <2>1. QueueOK(w)'
    BY <1>1, <1>2, <1>3 DEF QueueOK, Same
  <2>2. LatchKept(w)'
    BY <1>1, <1>3 DEF IInv, LatchKept, Same
  <2>3. ~Owner(w)' /\ (HoldsLatch(w)' <=> HoldsLatch(w))
    BY <1>1, <1>2 DEF Owner, HoldsLatch, Released
  <2>4. QED
    BY <2>1, <2>2, <2>3 DEF OwnerReads
<1>7. IInv'
  BY <1>1, <1>3, <1>5, <1>6, QuietStep
<1>8. ASSUME DInv PROVE DInv'
  <2>1. BufferKept(w)'
    <3>1. b'[w] = (b[w] + 1) % mode.buffers
      BY <1>1, <1>3 DEF TypeOK
    <3>2. QED
      BY <1>1, <1>2, <1>3, <1>4, <1>8, <3>1 DEF DInv, BufferKept
  <2>2. WriteOK(w)'
    BY <1>1, <1>3, <1>8 DEF DInv, WriteOK, Same, Versioned
  <2>3. ReadOK(w)'
    BY <1>2 DEF ReadOK
  <2>4. QED
    BY <1>1, <1>3, <1>5, <1>8, <2>1, <2>2, <2>3, QuietData DEF DInv, ProofsOK
<1>9. QED
  BY <1>7, <1>8

\* The thread judges by what it has read.
Judges(w) == ReadRestart(w) \/ FarmUnlock(w) \/ Unlock(w) \/ EndRead(w) \/ WriteRestart(w)

\* ... a reader that ends has validated an even copy of the tuple.
LEMMA JudgeStep ==
    ASSUME IInv, NEW w \in Workers, Judges(w)
    PROVE  IInv' /\ (DInv => DInv')
<1>1. /\ mode' = mode /\ tuple' = tuple /\ buffers' = buffers /\ x_locked' = x_locked
      /\ wr' = wr /\ updates' = updates /\ mine' = mine /\ b' = b
      /\ prev' = [prev EXCEPT ![w] = Version(w)] \/ prev' = prev
  BY DEF Judges, ReadRestart, FarmUnlock, Unlock, EndRead, WriteRestart
<1>2. /\ pc' \in [Workers -> PCs] /\ \A v \in Workers \ {w} : pc'[v] = pc[v]
      /\ \/ Polled(w) /\ pc[w] = "r_body" /\ pc'[w] = "r_lock"
         \/ /\ Polled(w) /\ pc[w] = "r_body" /\ pc'[w] = "r_done"
            /\ FaRM /\ ReadAccepted(w)
         \/ Polled(w) /\ pc[w] = "r_validate" /\ pc'[w] = "r_lock"
         \/ Polled(w) /\ pc[w] = "r_validate" /\ pc'[w] = "r_done" /\ Valid(w)
         \/ pc[w] = "r_done" /\ pc'[w] = "idle"
         \/ Polled(w) /\ x_locked[w] # 0 /\ pc[w] = "w_locked" /\ pc'[w] = "w_lock"
  <2>1. CASE ReadRestart(w)
    BY <2>1 DEF IInv, TypeOK, ReadRestart, Goto, PCs
  <2>2. CASE FarmUnlock(w)
    BY <2>2 DEF IInv, TypeOK, FarmUnlock, Goto, PCs
  <2>3. CASE Unlock(w)
    BY <2>3 DEF IInv, TypeOK, Unlock, Goto, PCs
  <2>4. CASE EndRead(w)
    BY <2>4 DEF IInv, TypeOK, EndRead, Goto, PCs
  <2>5. CASE WriteRestart(w)
    BY <2>5 DEF IInv, TypeOK, WriteRestart, Goto, PCs
  <2>6. QED
    BY <2>1, <2>2, <2>3, <2>4, <2>5 DEF Judges
<1>3. TypeOK /\ mode \in Modes /\ Same /\ QueueOK(w)
  BY <1>1, ModeSame DEF IInv, TypeOK
<1>4. Version(w) \in Nat
  BY <1>3, LineFacts DEF TypeOK, Version, Local, Line
<1>5. TypeOK' /\ Others(w)
  BY <1>1, <1>2, <1>3, <1>4 DEF TypeOK, Others, PCs
<1>6. /\ QueueOK(w)' /\ LatchKept(w)' /\ OwnerReads(w)'
      /\ HoldsLatch(w)' <=> HoldsLatch(w)
  <2>1. QueueOK(w)'
    BY <1>1, <1>2, <1>3 DEF QueueOK, Same, Polled, Acquired
  <2>2. LatchKept(w)'
    BY <1>1, <1>3 DEF IInv, LatchKept, Same
  <2>3. ~Owner(w)' /\ (HoldsLatch(w)' <=> HoldsLatch(w))
    BY <1>1, <1>2 DEF Owner, HoldsLatch, Released
  <2>4. QED
    BY <2>1, <2>2, <2>3 DEF OwnerReads
<1>7. IInv'
  BY <1>1, <1>3, <1>5, <1>6, QuietStep
<1>8. ASSUME DInv PROVE DInv'
  <2> USE DEF DInv
  <2>1. wr[w].write = {}
    BY <1>2, <1>8 DEF BufferKept, Polled, Acquired, Released
  <2>2. BufferKept(w)' /\ WriteOK(w)'
    BY <1>1, <2>1 DEF BufferKept, WriteOK
  <2>3. pc'[w] = "r_done" => Even(w)
    <3>1. CASE pc[w] = "r_body" /\ FaRM /\ ReadAccepted(w)
      <4>1. /\ \A l \in Lines : Local(w)[l].ver = Local(w)[1].ver
            /\ \A l \in Lines : Local(w)[l].ver = Local(w)[l].data
        BY <1>3, <1>8, <3>1 DEF ReadAccepted, ConsistencyProof, ProofsOK, Local, TypeOK
      <4>2. QED
        BY <4>1, LineFacts DEF Even
    <3>2. CASE pc[w] = "r_validate" /\ Valid(w) /\ Polled(w)
      BY <1>3, <1>8, <3>2, ModeFacts DEF ReadOK, QueueOK, Polled
    <3>3. QED
      BY <1>2, <3>1, <3>2
  <2>4. ReadOK(w)'
    BY <1>1, <1>2, <2>3 DEF ReadOK, Even, Local
  <2>5. QED
    BY <1>1, <1>3, <1>5, <1>8, <2>2, <2>4, QuietData DEF ProofsOK
<1>9. QED
  BY <1>7, <1>8

\* V2's first READ is posted.  With a footer the thread clears two words of its
\* buffer, which a WRITE under way must not be from.
LEMMA HeadStep ==
    ASSUME IInv, NEW w \in Workers, LockV2(w)
    PROVE  IInv' /\ (EnoughBuffers /\ DInv => DInv')
<1>1. /\ mode' = mode /\ tuple' = tuple /\ x_locked' = x_locked /\ b' = b /\ prev' = prev
      /\ updates' = updates /\ mine' = mine /\ V2
      /\ wr' = [wr EXCEPT ![w].read = {VersionLine}, ![w].part = "head"]
      /\ buffers' = IF Header THEN buffers
                    ELSE [buffers EXCEPT ![w][b[w]][NumLines] =
                             [buffers[w][b[w]][NumLines] EXCEPT !.ver = 0, !.latch = 0]]
  BY DEF LockV2, PostRead
<1>2. /\ pc[w] = "r_lock" /\ pc' \in [Workers -> PCs] /\ pc'[w] = "r_head"
      /\ \A v \in Workers \ {w} : pc'[v] = pc[v]
  BY DEF IInv, TypeOK, LockV2, Goto, PCs
<1>3. TypeOK /\ mode \in Modes /\ Same /\ QueueOK(w) /\ wr \in [Workers -> Queues]
  BY <1>1, ModeSame DEF IInv, TypeOK
<1>4. /\ wr'[w].write = wr[w].write /\ wr'[w].from = wr[w].from
      /\ wr'[w].release = wr[w].release /\ wr'[w].acquire = wr[w].acquire
      /\ wr'[w].read = {VersionLine} /\ wr'[w].part = "head"
  BY <1>1, <1>3 DEF Queues
<1>5. wr' \in [Workers -> Queues] /\ \A v \in Workers \ {w} : wr'[v] = wr[v]
  <2>1. [wr[w] EXCEPT !.read = {VersionLine}, !.part = "head"] \in Queues
    BY <1>3, LineFacts DEF Queues
  <2>2. wr' = [wr EXCEPT ![w] = [wr[w] EXCEPT !.read = {VersionLine}, !.part = "head"]]
    BY <1>1
  <2>3. QED
    BY <1>3, <2>1, <2>2
<1>6. b[w] \in Buffers /\ buffers \in [Workers -> [Buffers -> [Lines -> Line]]]
  BY <1>3 DEF TypeOK
<1>7. /\ buffers' \in [Workers -> [Buffers -> [Lines -> Line]]]
      /\ \A v \in Workers \ {w} : buffers'[v] = buffers[v]
      /\ \A i \in Buffers \ {b[w]} : buffers'[w][i] = buffers[w][i]
      /\ Header => buffers' = buffers
      /\ \A i \in Buffers : \/ buffers'[w][i][LatchLine].latch = buffers[w][i][LatchLine].latch
                            \/ (~Header /\ buffers'[w][i][LatchLine].latch = 0)
  <2>1. CASE Header
    BY <1>1, <1>6, <2>1
  <2>2. CASE ~Header
    <3> DEFINE last == [buffers[w][b[w]][NumLines] EXCEPT !.ver = 0, !.latch = 0]
    <3>1. last \in Line /\ last.latch = 0
      <4>1. buffers[w][b[w]][NumLines] \in Line
        BY <1>6, LineFacts
      <4>2. QED
        BY <4>1 DEF Line
    <3>2. buffers' = [buffers EXCEPT ![w][b[w]][NumLines] = last]
      BY <1>1, <2>2
    <3> HIDE DEF last
    <3>3. buffers'[w] = [buffers[w] EXCEPT ![b[w]][NumLines] = last]
      BY <1>6, <3>2
    <3>4. buffers'[w][b[w]] = [buffers[w][b[w]] EXCEPT ![NumLines] = last]
      BY <1>6, <3>3
    <3>5. buffers'[w][b[w]] \in [Lines -> Line] /\ buffers'[w][b[w]][NumLines] = last
      BY <1>6, <3>1, <3>4, LineFacts
    <3>6. /\ buffers'[w] \in [Buffers -> [Lines -> Line]]
          /\ \A i \in Buffers \ {b[w]} : buffers'[w][i] = buffers[w][i]
      BY <1>6, <3>3, <3>5
    <3>7. /\ buffers' \in [Workers -> [Buffers -> [Lines -> Line]]]
          /\ \A v \in Workers \ {w} : buffers'[v] = buffers[v]
      BY <1>6, <3>2, <3>6
    <3>8. LatchLine = NumLines
      BY <2>2, LineFacts
    <3>9. QED
      BY <2>2, <3>1, <3>5, <3>6, <3>7, <3>8
  <2>3. QED
    BY <2>1, <2>2
<1>8. TypeOK' /\ Others(w)
  BY <1>1, <1>2, <1>3, <1>5, <1>7 DEF TypeOK, Others, PCs
<1>9. /\ QueueOK(w)' /\ LatchKept(w)' /\ OwnerReads(w)'
      /\ HoldsLatch(w)' <=> HoldsLatch(w)
  <2>1. QueueOK(w)'
    BY <1>1, <1>2, <1>3, <1>4 DEF QueueOK, Same
  <2>2. LatchKept(w)'
    <3>1. wr[w].from \in Buffers /\ LatchKept(w)
      BY <1>3 DEF IInv, Queues
    <3>2. QED
      BY <1>3, <1>4, <1>7, <3>1 DEF LatchKept, Same
  <2>3. ~Owner(w)' /\ (HoldsLatch(w)' <=> HoldsLatch(w))
    BY <1>2, <1>4 DEF Owner, HoldsLatch, Released
  <2>4. QED
    BY <2>1, <2>2, <2>3 DEF OwnerReads
<1>10. IInv'
  BY <1>1, <1>3, <1>8, <1>9, QuietStep
<1>11. ASSUME EnoughBuffers, DInv PROVE DInv'
  <2> USE DEF DInv
  <2>1. BufferKept(w)'
    BY <1>1, <1>2, <1>4, <1>11 DEF BufferKept
  <2>2. WriteOK(w)'
    <3>1. wr[w].write # {} => buffers'[w][wr[w].from] = buffers[w][wr[w].from]
      BY <1>1, <1>2, <1>3, <1>7, <1>11, ModeFacts DEF BufferKept, Queues
    <3>2. CASE wr[w].write # {}
      <4>1. buffers'[w][wr'[w].from] = buffers[w][wr[w].from]
        BY <1>4, <3>1, <3>2
      <4>2. /\ wr'[w].write = wr[w].write /\ VersionLine' = VersionLine /\ tuple' = tuple
            /\ FaRM' <=> FaRM
        BY <1>1, <1>3, <1>4 DEF Same
      <4>3. WriteOK(w)
        BY <1>11
      <4>4. QED
        BY ONLY <3>2, <4>1, <4>2, <4>3 DEF WriteOK, Versioned
    <3>3. CASE wr[w].write = {}
      BY <1>4, <3>3 DEF WriteOK
    <3>4. QED
      BY <3>2, <3>3
  <2>3. ReadOK(w)'
    BY <1>2, <1>4 DEF ReadOK
  <2>4. QED
    BY <1>1, <1>3, <1>4, <1>8, <1>11, <2>1, <2>2, <2>3, QuietData, ModeFacts
<1>12. QED
  BY <1>10, <1>11

\* The other requests that are posted.
Posts(w) == LockV2Rest(w) \/ LockAll(w) \/ Revalidate(w) \/ WriteLock(w)

\* ... a validating reader has a copy that was even when it began to read it.
LEMMA PostStep ==
    ASSUME IInv, NEW w \in Workers, Posts(w)
    PROVE  IInv' /\ (DInv => DInv')
<1>1. /\ mode' = mode /\ tuple' = tuple /\ x_locked' = x_locked /\ b' = b
      /\ buffers' = buffers /\ updates' = updates /\ mine' = mine
  BY DEF Posts, LockV2Rest, LockAll, Revalidate, WriteLock
<1>2. TypeOK /\ mode \in Modes /\ Same /\ QueueOK(w) /\ wr \in [Workers -> Queues]
  BY <1>1, ModeSame DEF IInv, TypeOK
<1>3. PICK q \in Queues :
        /\ wr' = [wr EXCEPT ![w] = q]
        /\ q.write = wr[w].write /\ q.from = wr[w].from /\ q.release = wr[w].release
        /\ \/ /\ Polled(w) /\ pc[w] = "r_head" /\ pc' = [pc EXCEPT ![w] = "r_body"]
              /\ q.read = Lines /\ q.part = "rest" /\ ~q.acquire /\ prev' = prev
           \/ /\ ~V2 /\ pc[w] = "r_lock" /\ pc' = [pc EXCEPT ![w] = "r_body"]
              /\ q.read = Lines /\ q.part = "all" /\ ~q.acquire /\ prev' = prev
           \/ /\ ~FaRM /\ Polled(w) /\ ReadAccepted(w)
              /\ pc[w] = "r_body" /\ pc' = [pc EXCEPT ![w] = "r_validate"]
              /\ q.read = {VersionLine} /\ ~q.acquire
              /\ q.part = IF V2 /\ ~Header THEN "head" ELSE "version"
              /\ prev' = [prev EXCEPT ![w] = Version(w)]
           \/ /\ pc[w] = "w_lock" /\ pc' = [pc EXCEPT ![w] = "w_locked"]
              /\ q.read = Lines /\ q.part = "all" /\ q.acquire /\ prev' = prev
  <2>1. wr[w] \in Queues
    BY <1>2
  <2>2. CASE LockV2Rest(w)
    <3> DEFINE q == [wr[w] EXCEPT !.read = Lines, !.part = "rest"]
    <3>1. /\ wr' = [wr EXCEPT ![w] = q] /\ Polled(w) /\ pc[w] = "r_head"
          /\ pc' = [pc EXCEPT ![w] = "r_body"] /\ prev' = prev
      BY <2>2 DEF LockV2Rest, PostRead, Goto
    <3>2. /\ q \in Queues /\ q.read = Lines /\ q.part = "rest"
          /\ q.write = wr[w].write /\ q.from = wr[w].from /\ q.release = wr[w].release
          /\ q.acquire = wr[w].acquire
      BY <2>1 DEF Queues
    <3>3. ~wr[w].acquire
      BY <3>1 DEF Polled, Acquired
    <3>4. QED
      BY <3>1, <3>2, <3>3
  <2>3. CASE LockAll(w)
    <3> DEFINE q == [wr[w] EXCEPT !.read = Lines, !.part = "all"]
    <3>1. /\ wr' = [wr EXCEPT ![w] = q] /\ ~V2 /\ pc[w] = "r_lock"
          /\ pc' = [pc EXCEPT ![w] = "r_body"] /\ prev' = prev
      BY <2>3 DEF LockAll, PostRead, Goto
    <3>2. /\ q \in Queues /\ q.read = Lines /\ q.part = "all"
          /\ q.write = wr[w].write /\ q.from = wr[w].from /\ q.release = wr[w].release
          /\ q.acquire = wr[w].acquire
      BY <2>1 DEF Queues
    <3>3. ~wr[w].acquire
      BY <1>2, <3>1 DEF QueueOK
    <3>4. QED
      BY <3>1, <3>2, <3>3
  <2>4. CASE Revalidate(w)
    <3> DEFINE part == IF V2 /\ ~Header THEN "head" ELSE "version"
               q == [wr[w] EXCEPT !.read = {VersionLine}, !.part = part]
    <3>1. /\ wr' = [wr EXCEPT ![w] = q] /\ Polled(w) /\ pc[w] = "r_body" /\ ~FaRM
          /\ ReadAccepted(w) /\ pc' = [pc EXCEPT ![w] = "r_validate"]
          /\ prev' = [prev EXCEPT ![w] = Version(w)]
      BY <2>4 DEF Revalidate, PostRead, Goto
    <3>2. /\ q \in Queues /\ q.read = {VersionLine} /\ q.part = part
          /\ q.write = wr[w].write /\ q.from = wr[w].from /\ q.release = wr[w].release
          /\ q.acquire = wr[w].acquire
      BY <2>1, LineFacts DEF Queues
    <3>3. ~wr[w].acquire
      BY <3>1 DEF Polled, Acquired
    <3>4. QED
      BY <3>1, <3>2, <3>3
  <2>5. CASE WriteLock(w)
    <3> DEFINE q == [wr[w] EXCEPT !.acquire = TRUE, !.read = Lines, !.part = "all"]
    <3>1. /\ wr' = [wr EXCEPT ![w] = q] /\ pc[w] = "w_lock"
          /\ pc' = [pc EXCEPT ![w] = "w_locked"] /\ prev' = prev
      BY <2>5 DEF WriteLock, Goto
    <3>2. /\ q \in Queues /\ q.read = Lines /\ q.part = "all"
          /\ q.write = wr[w].write /\ q.from = wr[w].from /\ q.release = wr[w].release
          /\ q.acquire = TRUE
      BY <2>1 DEF Queues
    <3>3. QED
      BY <3>1, <3>2
  <2>6. QED
    BY <2>2, <2>3, <2>4, <2>5 DEF Posts
<1>4. wr' \in [Workers -> Queues] /\ wr'[w] = q /\ \A v \in Workers \ {w} : wr'[v] = wr[v]
  BY <1>2, <1>3
<1>5. /\ pc' \in [Workers -> PCs] /\ \A v \in Workers \ {w} : pc'[v] = pc[v]
      /\ prev' \in [Workers -> Nat] /\ \A v \in Workers \ {w} : prev'[v] = prev[v]
  <2>1. Version(w) \in Nat
    BY <1>2, LineFacts DEF TypeOK, Version, Local, Line
  <2>2. pc \in [Workers -> PCs] /\ prev \in [Workers -> Nat]
    BY <1>2 DEF TypeOK, PCs
  <2>3. QED
    BY <1>3, <2>1, <2>2 DEF PCs
<1>6. TypeOK' /\ Others(w)
  BY <1>1, <1>2, <1>4, <1>5 DEF TypeOK, Others, PCs
<1>7. pc \in [Workers -> PCs] /\ prev \in [Workers -> Nat]
  BY <1>2 DEF TypeOK, PCs
<1>8. /\ QueueOK(w)' /\ LatchKept(w)' /\ OwnerReads(w)'
      /\ HoldsLatch(w)' <=> HoldsLatch(w)
  <2>1. QueueOK(w)'
    BY <1>2, <1>3, <1>4, <1>7 DEF QueueOK, Same, Polled, Acquired, Released
  <2>2. LatchKept(w)'
    BY <1>1, <1>2, <1>3, <1>4 DEF IInv, LatchKept, Same
  <2>3. ~Owner(w)' /\ (HoldsLatch(w)' <=> HoldsLatch(w))
    BY <1>3, <1>4, <1>7 DEF Owner, HoldsLatch, Released
  <2>4. QED
    BY <2>1, <2>2, <2>3 DEF OwnerReads
<1>9. IInv'
  BY <1>1, <1>2, <1>6, <1>8, QuietStep
<1>10. ASSUME DInv PROVE DInv'
  <2> USE DEF DInv
  <2>1. BufferKept(w)'
    BY <1>1, <1>3, <1>4, <1>7, <1>10 DEF BufferKept, Polled, Acquired, Released
  <2>2. WriteOK(w)'
    BY <1>1, <1>2, <1>3, <1>4, <1>10 DEF WriteOK, Same, Versioned
  <2>3. ReadOK(w)'
    <3>1. CASE pc[w] = "r_head"
      <4>1. /\ pc'[w] = "r_body" /\ wr'[w].read = Lines /\ wr[w].read = {}
        BY <1>3, <1>4, <1>7, <3>1 DEF Polled
      <4>2. Unlatched(w) => Seen(w, Version(w), {})
        BY <1>10, <3>1, <4>1 DEF ReadOK
      <4>3. QED
        BY <1>1, <1>2, <4>1, <4>2 DEF ReadOK, Unlatched, Seen, Current, Version, Local, Same,
           Latched
    <3>2. CASE pc[w] = "r_lock"
      <4>1. pc'[w] = "r_body" /\ ~V2
        BY <1>3, <1>7, <3>2
      <4>2. QED
        BY <1>2, <4>1 DEF ReadOK, Same
    <3>3. CASE pc[w] = "r_body"
      <4>1. /\ pc'[w] = "r_validate" /\ wr'[w].read = {VersionLine} /\ wr[w].read = {}
            /\ ReadAccepted(w) /\ ~FaRM /\ prev'[w] = Version(w)
        BY <1>3, <1>4, <1>7, <3>3 DEF Polled
      <4>2. V2 => Seen(w, Version(w), Lines)
        BY <1>10, <3>3, <4>1 DEF ReadOK, ReadAccepted
      <4>3. CRC => Even(w)
        <5>1. CRC => /\ Local(w)[1].crc = [l \in Lines |-> Local(w)[l].data]
                     /\ Uniform(Local(w)[1].crc)
          BY <1>2, <1>10, <4>1 DEF ReadAccepted, ConsistencyProof, ProofsOK, Local, TypeOK
        <5>2. QED
          BY <5>1 DEF Uniform, Even
      <4>4. QED
        BY <1>1, <1>2, <4>1, <4>2, <4>3 DEF ReadOK, Seen, Current, Local, Same, Latched, Even
    <3>4. CASE pc[w] = "w_lock"
      <4>1. pc'[w] = "w_locked"
        BY <1>3, <1>7, <3>4
      <4>2. QED
        BY <4>1 DEF ReadOK
    <3>5. QED
      BY <1>3, <3>1, <3>2, <3>3, <3>4
  <2>4. QED
    BY <1>1, <1>2, <1>3, <1>4, <1>6, <1>10, <2>1, <2>2, <2>3, QuietData DEF ProofsOK
<1>11. QED
  BY <1>9, <1>10

\* Who has a WRITE or a release under way, or has got the latch, is alone, and
\* the latch is set.
LEMMA HolderAlone ==
    ASSUME IInv, NEW w \in Workers, HoldsLatch(w)
    PROVE  /\ Latched /\ Holders = {w}
           /\ \A v \in Workers \ {w} : ~HoldsLatch(v) /\ wr[v].write = {} /\ ~Owner(v)
<1>1. Latched /\ Holders = {w}
  BY DEF IInv, OneHolder, Holders
<1>2. \A v \in Workers \ {w} : ~HoldsLatch(v)
  BY <1>1 DEF Holders
<1>3. QED
  BY <1>1, <1>2 DEF HoldsLatch, Released, Owner

\* The updated copy, all lines of which the owner has read, is posted.
LEMMA UnlockStep ==
    ASSUME IInv, NEW w \in Workers, WriteUnlock(w)
    PROVE  IInv' /\ (DInv => DInv')
<1>1. /\ mode' = mode /\ tuple' = tuple /\ x_locked' = x_locked /\ b' = b /\ prev' = prev
      /\ Polled(w) /\ x_locked[w] = 0
      /\ updates' = [updates EXCEPT ![w] = updates[w] + 1]
      /\ mine' = [mine EXCEPT ![w] = Local(w)[1].data + 1]
      /\ wr' = [wr EXCEPT ![w].write = Lines, ![w].from = b[w], ![w].release = Header]
      /\ buffers' = [buffers EXCEPT ![w][b[w]] = Updated(buffers[w][b[w]])]
  BY DEF WriteUnlock
<1>2. /\ pc[w] = "w_locked" /\ pc' \in [Workers -> PCs] /\ pc'[w] = "idle"
      /\ \A v \in Workers \ {w} : pc'[v] = pc[v]
  BY DEF IInv, TypeOK, WriteUnlock, Goto, PCs
<1>3. TypeOK /\ mode \in Modes /\ Same /\ QueueOK(w) /\ wr \in [Workers -> Queues]
  BY <1>1, ModeSame DEF IInv, TypeOK
<1>4. /\ b[w] \in Buffers /\ buffers \in [Workers -> [Buffers -> [Lines -> Line]]]
      /\ Header \in BOOLEAN
  BY <1>3 DEF TypeOK, Header
<1>5. /\ wr'[w].write = Lines /\ wr'[w].from = b[w]
      /\ wr'[w].release = Header /\ wr'[w].acquire = wr[w].acquire
      /\ wr'[w].read = wr[w].read /\ wr'[w].part = wr[w].part
  BY <1>1, <1>3 DEF Queues
<1>6. wr' \in [Workers -> Queues] /\ \A v \in Workers \ {w} : wr'[v] = wr[v]
  <2> DEFINE q == [wr[w] EXCEPT !.write = Lines, !.from = b[w], !.release = Header]
  <2>1. q \in Queues
    BY <1>3, <1>4 DEF Queues
  <2>2. wr' = [wr EXCEPT ![w] = q]
    BY <1>1
  <2>3. QED
    BY <1>3, <2>1, <2>2
<1>7. wr[w].read = {} /\ ~wr[w].acquire /\ Owner(w) /\ HoldsLatch(w) /\ Released(w)
  BY <1>1, <1>2 DEF Polled, Acquired, Owner, HoldsLatch
<1>8. Latched /\ \A v \in Workers \ {w} : wr[v].write = {}
  BY <1>7, HolderAlone
<1>9. \A l \in Lines : buffers[w][b[w]][l] = tuple[l] /\ tuple[l] \in Line
  BY <1>3, <1>7 DEF IInv, OwnerReads, Local, TypeOK
<1> DEFINE new == Updated(buffers[w][b[w]])
           data == [l \in Lines |-> buffers[w][b[w]][l].data + 1]
<1>10. \A l \in Lines :
         /\ new[l] \in Line
         /\ new[l].ver = IF Versioned(l) THEN tuple[l].ver + 1 ELSE tuple[l].ver
         /\ new[l].latch = IF l = LatchLine /\ ~Header THEN 0 ELSE tuple[l].latch
         /\ new[l].crc = IF CRC /\ l = 1 THEN data ELSE tuple[l].crc
         /\ new[l].data = tuple[l].data + 1
  <2>1. data \in [Lines -> Nat]
    BY <1>9 DEF Line
  <2>2. \A l \in Lines : data[l] = tuple[l].data + 1
    BY <1>9
  <2> SUFFICES ASSUME NEW l \in Lines
               PROVE  /\ new[l] \in Line
                      /\ new[l].ver = IF Versioned(l) THEN tuple[l].ver + 1 ELSE tuple[l].ver
                      /\ new[l].latch = IF l = LatchLine /\ ~Header THEN 0 ELSE tuple[l].latch
                      /\ new[l].crc = IF CRC /\ l = 1 THEN data ELSE tuple[l].crc
                      /\ new[l].data = tuple[l].data + 1
    OBVIOUS
  <2>3. new[l] = [ver   |-> IF Versioned(l) THEN tuple[l].ver + 1 ELSE tuple[l].ver,
                  latch |-> IF l = LatchLine /\ ~Header THEN 0 ELSE tuple[l].latch,
                  crc   |-> IF CRC /\ l = 1 THEN data ELSE tuple[l].crc,
                  data  |-> data[l]]
    BY <1>9 DEF Updated
  <2>4. tuple[l] \in Line
    BY <1>9
  <2> HIDE DEF new, data
  <2>5. QED
    BY <2>1, <2>2, <2>3, <2>4 DEF Line
<1>11. new \in [Lines -> Line]
  <2>1. new = [l \in Lines |-> new[l]]
    BY DEF Updated
  <2> HIDE DEF new
  <2>2. QED
    BY <1>10, <2>1
<1>12. Local(w)[1].data + 1 \in Nat /\ updates[w] + 1 \in Nat
  BY <1>3, LineFacts DEF TypeOK, Local, Line
<1> HIDE DEF new
<1>13. /\ buffers' \in [Workers -> [Buffers -> [Lines -> Line]]]
       /\ buffers'[w][b[w]] = new
       /\ \A i \in Buffers \ {b[w]} : buffers'[w][i] = buffers[w][i]
       /\ \A v \in Workers \ {w} : buffers'[v] = buffers[v]
  <2>1. buffers' = [buffers EXCEPT ![w][b[w]] = new]
    BY <1>1 DEF new
  <2>2. QED
    BY <1>4, <1>11, <2>1
<1>14. TypeOK'
  <2>1. updates' \in [Workers -> Nat] /\ mine' \in [Workers -> Nat]
    BY <1>1, <1>3, <1>12 DEF TypeOK
  <2>2. QED
    BY <1>1, <1>2, <1>3, <1>6, <1>13, <2>1 DEF TypeOK, PCs
<1>15. Others(w)
  BY <1>1, <1>2, <1>6, <1>13 DEF Others
<1>16. /\ QueueOK(w)' /\ LatchKept(w)' /\ OwnerReads(w)'
       /\ HoldsLatch(w)' <=> HoldsLatch(w)
  <2>1. QueueOK(w)'
    BY <1>2, <1>3, <1>5, <1>7, LineFacts DEF QueueOK, Same
  <2>2. LatchKept(w)'
    <3>1. new[LatchLine].latch = IF ~Header THEN 0 ELSE tuple[LatchLine].latch
      BY <1>10, LineFacts
    <3>2. /\ buffers'[w][wr'[w].from] = new /\ LatchLine' = LatchLine
          /\ Header' <=> Header
      BY <1>3, <1>5, <1>13 DEF Same
    <3>3. QED
      BY ONLY <1>8, <3>1, <3>2 DEF LatchKept, Latched
  <2>3. HoldsLatch(w)' /\ ~Owner(w)'
    BY <1>2, <1>5, LineFacts DEF HoldsLatch, Released, Owner
  <2>4. QED
    BY <1>7, <2>1, <2>2, <2>3 DEF OwnerReads
<1>17. IInv'
  BY <1>1, <1>3, <1>14, <1>15, <1>16, QuietStep
<1>18. ASSUME DInv PROVE DInv'
  <2>1. PICK n \in Nat : n = tuple[VersionLine].data
    BY <1>9, LineFacts DEF Line
  <2>2. \A l \in Lines : /\ tuple[l].data = n
                         /\ tuple[l].ver = IF Versioned(l) THEN n ELSE 0
    <3>1. \A v \in Workers : wr[v].write = {}
      BY <1>7, <1>8 DEF Released
    <3>2. QED
      BY <1>18, <2>1, <3>1 DEF DInv, TupleOK
  <2>3. \A l \in Lines : /\ new[l].data = n + 1
                         /\ new[l].ver = IF Versioned(l) THEN n + 1 ELSE 0
    BY <1>10, <2>2
  <2>4. BufferKept(w)'
    BY <1>1, <1>2, <1>5 DEF BufferKept
  <2>5. WriteOK(w)'
    <3>1. /\ buffers'[w][wr'[w].from] = new /\ wr'[w].write = Lines /\ tuple' = tuple
          /\ VersionLine' = VersionLine /\ new[VersionLine].data = n + 1
          /\ FaRM' <=> FaRM
      BY <1>1, <1>3, <1>5, <1>13, <2>3, LineFacts DEF Same
    <3>2. QED
      BY ONLY <2>1, <2>2, <2>3, <3>1 DEF WriteOK, Versioned
  <2>6. ReadOK(w)'
    BY <1>2 DEF ReadOK
  <2>7. CRC => \A i \in Buffers : Uniform(buffers'[w][i][1].crc)
    <3>1. Uniform(data)
      BY <1>9, <2>2 DEF Uniform
    <3>2. CRC => Uniform(new[1].crc)
      BY <1>10, <3>1, LineFacts
    <3>3. QED
      BY <1>13, <1>18, <3>2 DEF DInv, ProofsOK
  <2>8. FaRM => \A i \in Buffers : \A l \in Lines :
                    buffers'[w][i][l].ver = buffers'[w][i][l].data
    <3>1. ASSUME FaRM, NEW i \in Buffers, NEW l \in Lines
          PROVE  buffers'[w][i][l].ver = buffers'[w][i][l].data
      <4>1. buffers[w][i][l].ver = buffers[w][i][l].data
        BY <1>18, <3>1 DEF DInv, ProofsOK
      <4>2. new[l].ver = new[l].data
        BY <2>3, <3>1 DEF Versioned
      <4>3. buffers'[w][i] = new \/ buffers'[w][i] = buffers[w][i]
        BY <1>13
      <4>4. QED
        BY ONLY <4>1, <4>2, <4>3
    <3>2. QED
      BY <3>1
  <2>9. wr'[w].write # {}
    BY <1>5, LineFacts
  <2>10. QED
    BY <1>1, <1>3, <1>15, <1>18, <2>4, <2>5, <2>6, <2>7, <2>8, <2>9, QuietData
<1>19. QED
  BY <1>17, <1>18

-----------------------------------------------------------------------------
(* The queue pairs: the READ.                                              *)

\* Of the part that is read the local line becomes the remote one.
LEMMA FetchedFacts ==
    ASSUME NEW old \in Line, NEW new \in Line, NEW part \in {"all", "head", "rest", "version"}
    PROVE  LET got == Fetched(part, old, new)
           IN  /\ got \in Line
               /\ part = "all" => got = new
               /\ got.ver = IF part = "rest" THEN old.ver ELSE new.ver
               /\ got.latch = IF part \in {"rest", "version"} THEN old.latch ELSE new.latch
               /\ got.data = IF part \in {"head", "version"} THEN old.data ELSE new.data
               /\ got.crc = IF part \in {"head", "version"} THEN old.crc ELSE new.crc
<1>1. CASE part = "all"
  BY <1>1 DEF Fetched
<1>2. CASE part = "head"
  BY <1>2 DEF Fetched, Line
<1>3. CASE part = "rest"
  BY <1>3 DEF Fetched, Line
<1>4. CASE part = "version"
  BY <1>4 DEF Fetched, Line
<1>5. QED
  BY <1>1, <1>2, <1>3, <1>4

\* Without a latch the tuple is one version.
LEMMA UnlatchedTuple ==
    ASSUME IInv, DInv, ~Latched
    PROVE  \A l \in Lines : tuple[l].data = tuple[VersionLine].ver
<1>1. \A v \in Workers : wr[v].write = {}
  BY DEF IInv, OneHolder, Holders, HoldsLatch, Released
<1>2. QED
  BY <1>1, LineFacts DEF DInv, TupleOK

\* A line of the READ: what was seen before, or first of all now, still counts
\* for a reader whose version is current.
LEMMA ReadStep ==
    ASSUME IInv, NEW w \in Workers, NEW l \in Lines, NicRead(w, l)
    PROVE  IInv' /\ (DInv => DInv')
<1>1. /\ mode' = mode /\ tuple' = tuple /\ x_locked' = x_locked /\ b' = b /\ prev' = prev
      /\ updates' = updates /\ mine' = mine /\ pc' = pc
      /\ l \in wr[w].read /\ Released(w) /\ ~wr[w].acquire
      /\ wr' = [wr EXCEPT ![w].read = wr[w].read \ {l}]
      /\ buffers' = [buffers EXCEPT ![w][b[w]][l] =
                        Fetched(wr[w].part, buffers[w][b[w]][l], tuple[l])]
  BY DEF NicRead, Acquired
<1>2. TypeOK /\ mode \in Modes /\ Same /\ QueueOK(w) /\ wr \in [Workers -> Queues]
  BY <1>1, ModeSame DEF IInv, TypeOK
<1>3. /\ b[w] \in Buffers /\ buffers \in [Workers -> [Buffers -> [Lines -> Line]]]
      /\ tuple \in [Lines -> Line] /\ wr[w].part \in {"all", "head", "rest", "version"}
  BY <1>2 DEF TypeOK, Queues
<1>4. /\ wr'[w].write = wr[w].write /\ wr'[w].from = wr[w].from
      /\ wr'[w].release = wr[w].release /\ wr'[w].acquire = wr[w].acquire
      /\ wr'[w].read = wr[w].read \ {l} /\ wr'[w].part = wr[w].part
      /\ wr[w].write = {}
  BY <1>1, <1>2 DEF Queues, Released
<1>5. wr' \in [Workers -> Queues] /\ \A v \in Workers \ {w} : wr'[v] = wr[v]
  <2>1. [wr[w] EXCEPT !.read = wr[w].read \ {l}] \in Queues
    BY <1>2 DEF Queues
  <2>2. wr' = [wr EXCEPT ![w] = [wr[w] EXCEPT !.read = wr[w].read \ {l}]]
    BY <1>1
  <2>3. QED
    BY <1>2, <2>1, <2>2
<1> DEFINE got == Fetched(wr[w].part, buffers[w][b[w]][l], tuple[l])
           part == wr[w].part
           was == buffers[w][b[w]][l]
<1>6. /\ got \in Line
      /\ part = "all" => got = tuple[l]
      /\ got.ver = IF part = "rest" THEN was.ver ELSE tuple[l].ver
      /\ got.latch = IF part \in {"rest", "version"} THEN was.latch ELSE tuple[l].latch
      /\ got.data = IF part \in {"head", "version"} THEN was.data ELSE tuple[l].data
      /\ got.crc = IF part \in {"head", "version"} THEN was.crc ELSE tuple[l].crc
  BY <1>3, FetchedFacts
<1> HIDE DEF got
<1>7. /\ buffers' \in [Workers -> [Buffers -> [Lines -> Line]]]
      /\ buffers'[w][b[w]][l] = got
      /\ \A m \in Lines \ {l} : buffers'[w][b[w]][m] = buffers[w][b[w]][m]
      /\ \A i \in Buffers \ {b[w]} : buffers'[w][i] = buffers[w][i]
      /\ \A v \in Workers \ {w} : buffers'[v] = buffers[v]
  <2>1. buffers' = [buffers EXCEPT ![w][b[w]][l] = got]
    BY <1>1 DEF got
  <2>2. buffers'[w] = [buffers[w] EXCEPT ![b[w]][l] = got]
    BY <1>3, <2>1
  <2>3. buffers'[w][b[w]] = [buffers[w][b[w]] EXCEPT ![l] = got]
    BY <1>3, <2>2
  <2>4. buffers'[w][b[w]] \in [Lines -> Line] /\ buffers'[w][b[w]][l] = got
        /\ \A m \in Lines \ {l} : buffers'[w][b[w]][m] = buffers[w][b[w]][m]
    BY <1>3, <1>6, <2>3
  <2>5. /\ buffers'[w] \in [Buffers -> [Lines -> Line]]
        /\ \A i \in Buffers \ {b[w]} : buffers'[w][i] = buffers[w][i]
    BY <1>3, <2>2, <2>4
  <2>6. QED
    BY <1>3, <2>1, <2>4, <2>5
<1>8. TypeOK' /\ Others(w)
  BY <1>1, <1>2, <1>5, <1>7 DEF TypeOK, Others
<1>9. /\ QueueOK(w)' /\ LatchKept(w)' /\ OwnerReads(w)'
      /\ HoldsLatch(w)' <=> HoldsLatch(w)
  <2>1. QueueOK(w)'
    BY <1>1, <1>2, <1>4 DEF QueueOK, Same, Released
  <2>2. LatchKept(w)'
    BY <1>4 DEF LatchKept
  <2>3. (Owner(w)' <=> Owner(w)) /\ (HoldsLatch(w)' <=> HoldsLatch(w))
    BY <1>1, <1>4 DEF Owner, HoldsLatch, Released
  <2>4. OwnerReads(w)'
    BY <1>1, <1>2, <1>4, <1>6, <1>7, <2>3 DEF IInv, OwnerReads, Owner, Local, QueueOK
  <2>5. QED
    BY <2>1, <2>2, <2>3, <2>4
<1>10. IInv'
  BY <1>1, <1>2, <1>8, <1>9, QuietStep
<1>11. ASSUME DInv PROVE DInv'
  <2>1. BufferKept(w)' /\ WriteOK(w)'
    BY <1>4 DEF BufferKept, WriteOK
  <2>2. /\ ReadOK(w)
        /\ \/ pc[w] = "w_locked" \/ pc[w] = "r_head"
           \/ pc[w] = "r_body" \/ pc[w] = "r_validate"
    BY <1>1, <1>2, <1>11 DEF DInv, QueueOK
  <2>3. ASSUME pc[w] = "r_head" PROVE ReadOK(w)'
    <3>1. /\ V2 /\ part = "head" /\ l = VersionLine /\ LatchLine = VersionLine
      BY <1>1, <1>2, <2>3, LineFacts DEF QueueOK
    <3>2. /\ Local(w)'[LatchLine].latch = tuple[LatchLine].latch
          /\ Local(w)'[VersionLine].ver = tuple[VersionLine].ver
      BY <1>1, <1>6, <1>7, <3>1 DEF Local
    <3>3. ~Latched => \A m \in Lines : tuple[m].data = tuple[VersionLine].ver
      BY <1>11, UnlatchedTuple
    <3>4. Unlatched(w)' => ~Latched
      BY <1>2, <3>2 DEF Unlatched, Same, Latched
    <3>5. Version(w)' = tuple[VersionLine].ver
      BY <1>2, <3>2 DEF Version, Same
    <3>6. Unlatched(w)' => Seen(w, Version(w), {})'
      <4>1. tuple[VersionLine].ver \in Nat
        BY <1>3, LineFacts DEF Line
      <4>2. QED
        BY <1>1, <1>2, <3>3, <3>4, <3>5, <4>1 DEF Seen, Same
    <3>7. QED
      BY <1>1, <2>3, <3>6 DEF ReadOK
  <2>4. ASSUME pc[w] = "r_body" /\ V2 PROVE ReadOK(w)'
    <3>1. part = "rest"
      BY <1>2, <2>4 DEF QueueOK
    <3>2. \A m \in Lines : /\ Local(w)'[m].ver = Local(w)[m].ver
                           /\ Local(w)'[m].latch = Local(w)[m].latch
      BY <1>1, <1>6, <1>7, <3>1 DEF Local
    <3>3. /\ Version(w)' = Version(w)
          /\ Unlatched(w)' <=> Unlatched(w)
      BY <1>2, <3>2, LineFacts DEF Version, Unlatched, Same
    <3>4. /\ Local(w)'[l].data = tuple[l].data
          /\ \A m \in Lines \ {l} : Local(w)'[m].data = Local(w)[m].data
      BY <1>1, <1>6, <1>7, <3>1 DEF Local
    <3>5. Unlatched(w) => Seen(w, Version(w), Lines \ wr[w].read)
      BY <2>2, <2>4 DEF ReadOK
    <3>6. Unlatched(w) => Seen(w, Version(w), Lines \ wr[w].read)'
      BY <1>1, <1>2, <1>4, <3>3, <3>4, <3>5 DEF Seen, Current, Same, Latched
    <3>7. QED
      BY <1>1, <2>4, <3>3, <3>6 DEF ReadOK
  <2>5. ASSUME pc[w] = "r_body" /\ ~V2 PROVE ReadOK(w)'
    BY <1>1, <1>2, <2>5 DEF ReadOK, Same
  <2>6. ASSUME pc[w] = "r_validate" PROVE ReadOK(w)'
    <3>1. /\ part = IF V2 /\ ~Header THEN "head" ELSE "version"
          /\ wr[w].read = {VersionLine} /\ l = VersionLine /\ wr'[w].read = {}
      BY <1>1, <1>2, <1>4, <2>6 DEF QueueOK
    <3>2. \A m \in Lines : Local(w)'[m].data = Local(w)[m].data
      BY <1>1, <1>6, <1>7, <3>1 DEF Local
    <3>3. CRC => Even(w)'
      BY <2>2, <2>6, <3>2 DEF ReadOK, Even
    <3>4. V2 /\ Valid(w)' => Even(w)'
      <4> SUFFICES ASSUME V2, Valid(w)' PROVE Even(w)'
        OBVIOUS
      <4>1. Seen(w, prev[w], Lines)
        BY <2>2, <2>6, <3>1 DEF ReadOK
      <4>2. prev[w] = tuple[VersionLine].ver
        BY <1>1, <1>2, <1>6, <1>7, <3>1 DEF Valid, Version, Local, Same
      <4>3. CASE Header
        BY <3>2, <4>1, <4>2, <4>3 DEF Seen, Current, Even
      <4>4. CASE ~Header
        <5>1. LatchLine = VersionLine /\ part = "head"
          BY <3>1, <4>4, LineFacts
        <5>2. ~Latched
          BY <1>1, <1>2, <1>6, <1>7, <3>1, <5>1 DEF Valid, Unlatched, Local, Same, Latched
        <5>3. QED
          BY <3>2, <4>1, <4>2, <5>2 DEF Seen, Current, Even
      <4>5. QED
        BY <4>3, <4>4
    <3>5. QED
      BY <1>1, <1>2, <2>6, <3>1, <3>3, <3>4 DEF ReadOK, Same
  <2>7. ASSUME pc[w] = "w_locked" PROVE ReadOK(w)'
    BY <1>1, <2>7 DEF ReadOK
  <2>8. CRC => \A i \in Buffers : Uniform(buffers'[w][i][1].crc)
    <3>1. CRC => Uniform(was.crc) \/ l # 1
      BY <1>3, <1>11 DEF DInv, ProofsOK
    <3>2. CRC => Uniform(tuple[1].crc)
      BY <1>11 DEF DInv, ProofsOK
    <3>3. CRC => Uniform(buffers'[w][b[w]][1].crc)
      <4>1. CASE l = 1
        BY <1>6, <1>7, <3>1, <3>2, <4>1
      <4>2. CASE l # 1
        BY <1>3, <1>7, <1>11, <4>2, LineFacts DEF DInv, ProofsOK
      <4>3. QED
        BY <4>1, <4>2
    <3>4. QED
      BY <1>7, <1>11, <3>3 DEF DInv, ProofsOK
  <2>9. FaRM => \A i \in Buffers : \A m \in Lines :
                    buffers'[w][i][m].ver = buffers'[w][i][m].data
    <3>1. FaRM => part = "all"
      BY <1>2, <2>2, ModeFacts DEF QueueOK
    <3>2. FaRM => got.ver = got.data
      BY <1>6, <1>11, <3>1 DEF DInv, TupleOK, Versioned
    <3>3. ASSUME FaRM, NEW i \in Buffers, NEW m \in Lines
          PROVE  buffers'[w][i][m].ver = buffers'[w][i][m].data
      <4>1. buffers[w][i][m].ver = buffers[w][i][m].data
        BY <1>11, <3>3 DEF DInv, ProofsOK
      <4>2. buffers'[w][i][m] = got \/ buffers'[w][i][m] = buffers[w][i][m]
        BY <1>7
      <4>3. QED
        BY ONLY <3>2, <3>3, <4>1, <4>2
    <3>4. QED
      BY <3>3
  <2>10. ReadOK(w)'
    BY <2>2, <2>3, <2>4, <2>5, <2>6, <2>7
  <2>11. QED
    BY <1>1, <1>2, <1>4, <1>8, <1>11, <2>1, <2>8, <2>9, <2>10, QuietData
<1>12. QED
  BY <1>10, <1>11

-----------------------------------------------------------------------------
(* The queue pairs: the WRITE and the latch.                               *)

\* Versions go up, and what becomes current was so, with the same data.
Advances == V2 =>
    /\ tuple[VersionLine].ver <= tuple'[VersionLine].ver
    /\ \A n \in Nat : n <= tuple[VersionLine].ver /\ Current(n)' =>
          /\ Current(n)
          /\ (\A l \in Lines : tuple[l].data = n) => \A l \in Lines : tuple'[l].data = n

\* ... so what a reader saw still counts.
LEMMA ReadersStep ==
    ASSUME TypeOK, TypeOK', Same, Advances, pc' = pc, b' = b, prev' = prev, buffers' = buffers,
           \A v \in Workers : wr'[v].read = wr[v].read, NEW w \in Workers, QueueOK(w), ReadOK(w)
    PROVE  ReadOK(w)'
<1>1. /\ Local(w)' = Local(w) /\ Version(w)' = Version(w)
      /\ Unlatched(w)' <=> Unlatched(w)
      /\ Valid(w)' <=> Valid(w)
      /\ Even(w)' <=> Even(w)
  BY DEF Local, Version, Unlatched, Valid, Even, Same
<1>2. Version(w) \in Nat /\ prev[w] \in Nat /\ tuple[VersionLine].ver \in Nat
      /\ tuple'[VersionLine].ver \in Nat
  BY LineFacts DEF TypeOK, Version, Local, Line, Same
<1>3. ASSUME V2, NEW n \in Nat, NEW lines \in SUBSET Lines, Seen(w, n, lines)
      PROVE  /\ tuple'[VersionLine].ver >= n
             /\ Current(n)' => /\ \A l \in Lines : tuple'[l].data = n
                               /\ \A l \in lines : Local(w)[l].data = n
  BY <1>2, <1>3 DEF Advances, Seen
<1>4. pc[w] = "r_head" /\ wr[w].read = {} /\ Unlatched(w) => Seen(w, Version(w), {})'
  <2> SUFFICES ASSUME pc[w] = "r_head", wr[w].read = {}, Unlatched(w)
               PROVE  Seen(w, Version(w), {})'
    OBVIOUS
  <2>1. Seen(w, Version(w), {})
    BY DEF ReadOK
  <2>2. V2
    BY DEF QueueOK
  <2>3. QED
    BY <1>1, <1>2, <1>3, <2>1, <2>2 DEF Seen, Same, Current
<1>5. pc[w] = "r_body" /\ V2 /\ Unlatched(w) => Seen(w, Version(w), Lines \ wr[w].read)'
  <2> SUFFICES ASSUME pc[w] = "r_body", V2, Unlatched(w)
               PROVE  Seen(w, Version(w), Lines \ wr[w].read)'
    OBVIOUS
  <2>1. Seen(w, Version(w), Lines \ wr[w].read)
    BY DEF ReadOK
  <2>2. /\ tuple'[VersionLine].ver >= Version(w)
        /\ Current(Version(w))' =>
              /\ \A l \in Lines : tuple'[l].data = Version(w)
              /\ \A l \in Lines \ wr[w].read : Local(w)[l].data = Version(w)
    <3>1. Lines \ wr[w].read \in SUBSET Lines
      OBVIOUS
    <3>2. Current(Version(w))' <=> /\ tuple'[VersionLine].ver = Version(w)
                                   /\ Header \/ ~Latched'
      BY <1>1 DEF Current, Same
    <3>3. QED
      BY <1>2, <1>3, <2>1, <3>1, <3>2 DEF Current, Same
  <2>3. QED
    BY <1>1, <2>2 DEF Seen, Same
<1>6. pc[w] = "r_validate" /\ V2 /\ wr[w].read # {} => Seen(w, prev[w], Lines)'
  <2> SUFFICES ASSUME pc[w] = "r_validate", V2, wr[w].read # {}
               PROVE  Seen(w, prev[w], Lines)'
    OBVIOUS
  <2>1. Seen(w, prev[w], Lines)
    BY DEF ReadOK
  <2>2. QED
    BY <1>1, <1>2, <1>3, <2>1 DEF Seen, Same, Current
<1>7. QED
  BY <1>1, <1>4, <1>5, <1>6 DEF ReadOK, Same

\* The next line of the WRITE.  The version comes first or last, and with it
\* comes or goes what readers look at.
LEMMA WriteStep ==
    ASSUME IInv, NEW w \in Workers, NicWrite(w)
    PROVE  /\ IInv'
           /\ DInv => /\ DInv'
                      /\ \A m \in Lines : tuple'[m].ver \in {tuple[m].ver, tuple[m].ver + 1}
<1>1. /\ mode' = mode /\ x_locked' = x_locked /\ b' = b /\ prev' = prev /\ pc' = pc
      /\ buffers' = buffers /\ updates' = updates /\ mine' = mine /\ wr[w].write # {}
  BY DEF NicWrite, thread
<1>2. TypeOK /\ mode \in Modes /\ Same /\ QueueOK(w) /\ wr \in [Workers -> Queues]
  BY <1>1, ModeSame DEF IInv, TypeOK
<1> DEFINE l == CHOOSE l \in wr[w].write : \A m \in wr[w].write : l <= m
           new == buffers[w][wr[w].from]
<1>3. /\ tuple' = [tuple EXCEPT ![l] = new[l]]
      /\ wr' = [wr EXCEPT ![w].write = wr[w].write \ {l}]
  BY DEF NicWrite
<1>4. l \in wr[w].write /\ \A m \in wr[w].write : l <= m
  <2>1. \E m \in wr[w].write : \A n \in wr[w].write : m <= n
    <3>1. wr[w].write \in SUBSET Nat /\ wr[w].write # {}
      BY <1>1, <1>2, LineFacts DEF Queues
    <3>2. QED
      BY <3>1, LeastNumber
  <2>2. QED
    BY <2>1
<1> HIDE DEF l
<1>5. l \in Lines /\ new \in [Lines -> Line] /\ tuple \in [Lines -> Line]
  BY <1>2, <1>4 DEF TypeOK, Queues
<1>6. /\ wr'[w].write = wr[w].write \ {l} /\ wr'[w].from = wr[w].from
      /\ wr'[w].release = wr[w].release /\ wr'[w].acquire = wr[w].acquire
      /\ wr'[w].read = wr[w].read /\ wr'[w].part = wr[w].part
  BY <1>2, <1>3 DEF Queues
<1>7. wr' \in [Workers -> Queues] /\ \A v \in Workers \ {w} : wr'[v] = wr[v]
  <2>1. [wr[w] EXCEPT !.write = wr[w].write \ {l}] \in Queues
    BY <1>2 DEF Queues
  <2>2. wr' = [wr EXCEPT ![w] = [wr[w] EXCEPT !.write = wr[w].write \ {l}]]
    BY <1>3
  <2>3. QED
    BY <1>2, <2>1, <2>2
<1>8. /\ tuple' \in [Lines -> Line] /\ tuple'[l] = new[l]
      /\ \A m \in Lines \ {l} : tuple'[m] = tuple[m]
  BY <1>3, <1>5
<1>9. TypeOK' /\ Others(w)
  BY <1>1, <1>2, <1>7, <1>8 DEF TypeOK, Others
<1>10. /\ HoldsLatch(w) /\ Latched /\ Holders = {w}
       /\ \A v \in Workers \ {w} : ~HoldsLatch(v) /\ wr[v].write = {} /\ ~Owner(v)
  <2>1. HoldsLatch(w)
    BY <1>1 DEF HoldsLatch, Released
  <2>2. QED
    BY <2>1, HolderAlone
<1>11. ~Header => (l = LatchLine <=> wr'[w].write = {})
  <2>1. ~Header => LatchLine = NumLines /\ LatchLine \in wr[w].write
    BY <1>1, <1>2, LineFacts DEF QueueOK
  <2>2. \A m \in wr[w].write : m \in Nat /\ m <= NumLines
    BY <1>2, LineFacts DEF Queues
  <2>3. ASSUME ~Header, l = LatchLine PROVE wr'[w].write = {}
    <3>1. \A m \in wr[w].write : m = l
      BY <1>4, <2>1, <2>2, <2>3, LineFacts
    <3>2. QED
      BY <1>6, <3>1
  <2>4. ASSUME ~Header, wr'[w].write = {} PROVE l = LatchLine
    BY <1>4, <1>6, <2>1, <2>4
  <2>5. QED
    BY <2>3, <2>4
<1>12. Header => (1 \in wr[w].write <=> l = 1)
  <2>1. ASSUME 1 \in wr[w].write PROVE l = 1
    <3>1. l <= 1 /\ 1 <= l /\ l \in Nat
      BY <1>4, <1>5, <2>1, LineFacts
    <3>2. QED
      BY <3>1
  <2>2. QED
    BY <1>4, <2>1
<1>13. tuple'[LatchLine].latch = IF wr'[w].write = {} /\ ~Header THEN 0 ELSE 1
  <2>1. LatchLine \in wr[w].write =>
          new[LatchLine].latch = IF Header THEN 1 ELSE 0
    BY DEF IInv, LatchKept
  <2>2. l # LatchLine => tuple'[LatchLine].latch = 1
    BY <1>8, <1>10, LineFacts DEF Latched
  <2>3. l = LatchLine => tuple'[LatchLine].latch = IF Header THEN 1 ELSE 0
    BY <1>4, <1>8, <2>1
  <2>4. QED
    BY <1>11, <2>2, <2>3
<1>14. QueueOK(w)' /\ LatchKept(w)'
  <2>1. QueueOK(w)'
    <3>1. wr'[w].write # {} => IF Header THEN wr[w].release ELSE LatchLine \in wr'[w].write
      BY <1>1, <1>2, <1>6, <1>11 DEF QueueOK
    <3>2. QED
      BY <1>1, <1>2, <1>6, <3>1 DEF QueueOK, Same, Released
  <2>2. LatchKept(w)'
    BY <1>1, <1>2, <1>6 DEF IInv, LatchKept, Same
  <2>3. QED
    BY <2>1, <2>2
<1>15. /\ ~Owner(w)'
       /\ HoldsLatch(w)' <=> ~(wr'[w].write = {} /\ ~Header)
  BY <1>1, <1>2, <1>6 DEF Owner, HoldsLatch, Released, QueueOK
<1>16. OneHolder'
  <2>1. Holders' = IF wr'[w].write = {} /\ ~Header THEN {} ELSE {w}
    BY <1>2, <1>9, <1>10, <1>15, OthersQueues DEF Holders
  <2>2. Latched' <=> ~(wr'[w].write = {} /\ ~Header)
    BY <1>2, <1>13 DEF Latched, Same
  <2>3. QED
    BY <2>1, <2>2 DEF OneHolder
<1>17. IInv'
  <2>1. \A v \in Workers : QueueOK(v)' /\ LatchKept(v)' /\ ~Owner(v)'
    BY <1>2, <1>9, <1>10, <1>14, <1>15, OthersQueues DEF IInv
  <2>2. QED
    BY <1>9, <1>16, <2>1 DEF IInv, OwnerReads
<1>18. ASSUME DInv
       PROVE  DInv' /\ \A m \in Lines : tuple'[m].ver \in {tuple[m].ver, tuple[m].ver + 1}
  <2>1. PICK n \in Nat : n = new[VersionLine].data
    BY <1>5, LineFacts DEF Line
  <2>2. \A m \in Lines :
          /\ new[m].data = n
          /\ new[m].ver = IF Versioned(m) THEN n ELSE 0
          /\ tuple[m].data = IF m \in wr[w].write THEN n - 1 ELSE n
          /\ tuple[m].ver = IF Versioned(m) THEN tuple[m].data ELSE 0
    BY <1>1, <1>18, <2>1 DEF DInv, WriteOK, TupleOK
  <2>3. \A m \in Lines :
          /\ tuple'[m].data = IF m \in wr'[w].write THEN n - 1 ELSE n
          /\ tuple'[m].ver = IF Versioned(m) THEN tuple'[m].data ELSE 0
    BY <1>6, <1>8, <2>2
  <2>4. TupleOK'
    <3>1. wr'[w].write = {} => \A m \in Lines : tuple'[m].data = n
      BY <2>3
    <3>2. QED
      BY <1>2, <2>3, <3>1, LineFacts DEF TupleOK, Same, Versioned
  <2>5. ProofsOK'
    <3>1. CRC => Uniform(tuple'[1].crc)
      BY <1>2, <1>5, <1>8, <1>18, LineFacts DEF DInv, ProofsOK, Queues
    <3>2. QED
      BY <1>1, <1>2, <1>18, <3>1 DEF DInv, ProofsOK, Same, Uniform
  <2>6. \A v \in Workers : BufferKept(v)' /\ WriteOK(v)'
    <3>1. BufferKept(w)'
      BY <1>1, <1>6, <1>18 DEF DInv, BufferKept
    <3>2. WriteOK(w)'
      <4>1. /\ buffers'[w][wr'[w].from] = new /\ VersionLine' = VersionLine
            /\ FaRM' <=> FaRM
        BY <1>1, <1>2, <1>6 DEF Same
      <4>2. QED
        BY ONLY <2>1, <2>2, <2>3, <4>1 DEF WriteOK, Versioned
    <3>3. \A v \in Workers \ {w} : BufferKept(v)' /\ WriteOK(v)'
      BY <1>7, <1>10 DEF BufferKept, WriteOK
    <3>4. QED
      BY <3>1, <3>2, <3>3
  <2>7. Versioned(VersionLine)
    BY LineFacts
  <2>8. /\ tuple[VersionLine].ver = IF VersionLine \in wr[w].write THEN n - 1 ELSE n
        /\ tuple'[VersionLine].ver = IF VersionLine \in wr'[w].write THEN n - 1 ELSE n
    BY <2>2, <2>3, <2>7, LineFacts
  <2>9. ASSUME V2
        PROVE  \A m \in Nat : m <= tuple[VersionLine].ver /\ Current(m)' =>
                 /\ Current(m)
                 /\ (\A k \in Lines : tuple[k].data = m) => \A k \in Lines : tuple'[k].data = m
    <3> SUFFICES ASSUME NEW m \in Nat, m <= tuple[VersionLine].ver, Current(m)'
                 PROVE  /\ Current(m)
                        /\ (\A k \in Lines : tuple[k].data = m) =>
                               \A k \in Lines : tuple'[k].data = m
      OBVIOUS
    <3>1. tuple'[VersionLine].ver = m /\ (Header \/ tuple'[LatchLine].latch # 1)
      BY <1>2 DEF Current, Same, Latched
    <3>2. CASE Header
      <4>1. VersionLine = 1
        BY <3>2, LineFacts
      <4>2. l # 1
        <5>1. l = 1 => 1 \in wr[w].write /\ 1 \notin wr'[w].write
          BY <1>4, <1>6
        <5>2. l = 1 => tuple[VersionLine].ver = n - 1 /\ tuple'[VersionLine].ver = n
          BY <2>8, <4>1, <5>1
        <5>3. QED
          BY <2>1, <3>1, <5>2
      <4>3. 1 \notin wr[w].write /\ tuple[VersionLine].ver = n /\ m = n
        BY <1>6, <1>12, <2>8, <3>1, <3>2, <4>1, <4>2
      <4>4. tuple[l].data = n - 1
        BY <1>4, <1>5, <2>2
      <4>5. Current(m)
        BY <3>2, <4>3 DEF Current
      <4>6. tuple[l].data # m
        BY ONLY <2>1, <4>3, <4>4
      <4>7. QED
        BY <1>5, <4>5, <4>6
    <3>3. CASE ~Header
      <4>1. wr'[w].write = {}
        BY <1>13, <3>1, <3>3
      <4>2. l = LatchLine /\ wr[w].write = {l}
        BY <1>4, <1>6, <1>11, <3>3, <4>1
      <4>3. tuple'[VersionLine].ver = n /\ m = n
        BY <2>8, <3>1, <4>1
      <4>4. VersionLine = l
        BY <2>9, <3>3, <4>2, LineFacts
      <4>5. tuple[VersionLine].ver = n - 1
        BY <1>4, <2>8, <4>4
      <4>6. m <= n - 1 /\ m = n
        BY <4>3, <4>5
      <4>7. QED
        BY ONLY <2>1, <4>6
    <3>4. QED
      BY <3>2, <3>3
  <2>10. Advances
    <3>1. tuple[VersionLine].ver <= tuple'[VersionLine].ver
      BY <1>6, <2>1, <2>8
    <3>2. QED
      BY <2>9, <3>1 DEF Advances
  <2>11. \A v \in Workers : wr'[v].read = wr[v].read /\ QueueOK(v) /\ ReadOK(v)
    BY <1>6, <1>7, <1>18 DEF IInv, DInv
  <2>12. \A v \in Workers : ReadOK(v)'
    BY <1>1, <1>2, <1>9, <2>10, <2>11, ReadersStep
  <2>13. \A m \in Lines : tuple'[m].ver \in {tuple[m].ver, tuple[m].ver + 1}
    <3> SUFFICES ASSUME NEW m \in Lines
                 PROVE  tuple'[m].ver \in {tuple[m].ver, tuple[m].ver + 1}
      OBVIOUS
    <3>1. CASE Versioned(m)
      BY <1>6, <2>1, <2>2, <2>3, <3>1
    <3>2. CASE ~Versioned(m)
      BY <2>2, <2>3, <3>2
    <3>3. QED
      BY <3>1, <3>2
  <2>14. QED
    BY <2>4, <2>5, <2>6, <2>12, <2>13 DEF DInv
<1>19. QED
  BY <1>17, <1>18

\* A step of w on the latch alone, by an atomic.
LatchStep(w, latch) ==
    /\ tuple' = [tuple EXCEPT ![LatchLine].latch = latch]
    /\ x_locked' = [x_locked EXCEPT ![w] = tuple[LatchLine].latch]
    /\ UNCHANGED <<mode, pc, buffers, b, prev, updates, mine>>

\* ... changes nothing else of the tuple.
LEMMA LatchEffect ==
    ASSUME TypeOK, NEW w \in Workers, NEW latch \in {0, 1}, LatchStep(w, latch),
           NEW q \in Queues, wr' = [wr EXCEPT ![w] = q]
    PROVE  /\ TypeOK' /\ Others(w) /\ Same
           /\ wr'[w] = q /\ x_locked'[w] = tuple[LatchLine].latch
           /\ tuple'[LatchLine].latch = latch
           /\ \A l \in Lines : /\ tuple'[l].ver = tuple[l].ver
                               /\ tuple'[l].data = tuple[l].data
                               /\ tuple'[l].crc = tuple[l].crc
           /\ pc' = pc /\ buffers' = buffers /\ b' = b /\ prev' = prev
<1>1. /\ mode' = mode /\ pc' = pc /\ buffers' = buffers /\ b' = b /\ prev' = prev
      /\ updates' = updates /\ mine' = mine
      /\ tuple' = [tuple EXCEPT ![LatchLine].latch = latch]
      /\ x_locked' = [x_locked EXCEPT ![w] = tuple[LatchLine].latch]
  BY DEF LatchStep
<1>2. /\ tuple \in [Lines -> Line] /\ LatchLine \in Lines /\ wr \in [Workers -> Queues]
      /\ x_locked \in [Workers -> {0, 1}] /\ tuple[LatchLine] \in Line
  BY LineFacts DEF TypeOK
<1>3. Same
  BY <1>1, ModeSame
<1>4. wr' \in [Workers -> Queues] /\ wr'[w] = q /\ \A v \in Workers \ {w} : wr'[v] = wr[v]
  BY <1>2
<1>5. tuple[LatchLine].latch \in {0, 1}
  BY <1>2 DEF Line
<1>6. /\ x_locked' \in [Workers -> {0, 1}] /\ x_locked'[w] = tuple[LatchLine].latch
      /\ \A v \in Workers \ {w} : x_locked'[v] = x_locked[v]
  BY <1>1, <1>2, <1>5
<1> DEFINE line == [tuple[LatchLine] EXCEPT !.latch = latch]
<1>7. /\ line \in Line /\ line.latch = latch
      /\ line.ver = tuple[LatchLine].ver
      /\ line.data = tuple[LatchLine].data
      /\ line.crc = tuple[LatchLine].crc
  BY <1>2 DEF Line
<1>8. tuple' = [tuple EXCEPT ![LatchLine] = line]
  BY <1>1
<1> HIDE DEF line
<1>9. /\ tuple' \in [Lines -> Line] /\ tuple'[LatchLine] = line
      /\ \A l \in Lines \ {LatchLine} : tuple'[l] = tuple[l]
  BY <1>2, <1>7, <1>8
<1>10. TypeOK'
  BY <1>1, <1>4, <1>6, <1>9 DEF TypeOK
<1>11. QED
  BY <1>1, <1>3, <1>4, <1>6, <1>7, <1>9, <1>10 DEF Others

\* ... and nothing of what is known about the data.
LEMMA LatchData ==
    ASSUME IInv, DInv, TypeOK', NEW w \in Workers, Others(w), Same,
           \A l \in Lines : /\ tuple'[l].ver = tuple[l].ver
                            /\ tuple'[l].data = tuple[l].data
                            /\ tuple'[l].crc = tuple[l].crc,
           pc' = pc, buffers' = buffers, b' = b, prev' = prev,
           wr[w].write = {}, wr'[w].write = {}, wr'[w].read = wr[w].read,
           Header \/ Latched'
    PROVE  DInv'
<1>1. \A v \in Workers : /\ wr'[v].write = wr[v].write /\ wr'[v].read = wr[v].read
                         /\ wr[v].write # {} => wr'[v].from = wr[v].from
  BY DEF Others
<1>2. TupleOK'
  <2>1. (\A v \in Workers : wr'[v].write = {}) => \A v \in Workers : wr[v].write = {}
    BY <1>1
  <2>2. QED
    BY <2>1, LineFacts DEF DInv, TupleOK, Same, Versioned
<1>3. ProofsOK'
  BY LineFacts DEF DInv, ProofsOK, Same, Uniform
<1>4. Advances
  <2>1. tuple[VersionLine].ver \in Nat
    BY LineFacts DEF IInv, TypeOK, Line
  <2>2. \A n \in Nat : Current(n)' => Current(n)
    BY LineFacts DEF Current, Same
  <2>3. tuple'[VersionLine].ver = tuple[VersionLine].ver
    BY LineFacts
  <2>4. QED
    BY <2>1, <2>2, <2>3 DEF Advances
<1>5. \A v \in Workers : ReadOK(v)'
  BY <1>1, <1>4, ReadersStep DEF IInv, DInv
<1>6. ASSUME NEW v \in Workers PROVE BufferKept(v)' /\ WriteOK(v)'
  <2>1. CASE wr[v].write = {}
    BY <1>1, <2>1 DEF BufferKept, WriteOK
  <2>2. CASE wr[v].write # {}
    <3>1. BufferKept(v) /\ WriteOK(v)
      BY DEF DInv
    <3>2. BufferKept(v)'
      BY <1>1, <2>2, <3>1 DEF BufferKept, Same
    <3>3. WriteOK(v)'
      BY <1>1, <2>2, <3>1 DEF WriteOK, Same, Versioned
    <3>4. QED
      BY <3>2, <3>3
  <2>3. QED
    BY <2>1, <2>2
<1>7. QED
  BY <1>2, <1>3, <1>5, <1>6 DEF DInv

\* HeaderLock's release: its worker was the latch's only holder.
LEMMA ReleaseStep ==
    ASSUME IInv, NEW w \in Workers, NicRelease(w)
    PROVE  IInv' /\ (DInv => DInv')
<1>1. TypeOK /\ QueueOK(w) /\ wr[w] \in Queues /\ wr[w].release /\ wr[w].write = {} /\ Header
  BY DEF IInv, TypeOK, NicRelease, QueueOK
<1>2. HoldsLatch(w) /\ Latched /\ Holders = {w}
      /\ \A v \in Workers \ {w} : ~HoldsLatch(v) /\ wr[v].write = {} /\ ~Owner(v)
  <2>1. HoldsLatch(w)
    BY <1>1 DEF HoldsLatch, Released
  <2>2. QED
    BY <2>1, HolderAlone
<1>3. LatchStep(w, 0)
  <2>1. tuple[LatchLine].latch - 1 = 0
    BY <1>2 DEF Latched
  <2>2. QED
    BY <2>1 DEF NicRelease, LatchStep
<1> DEFINE q == [wr[w] EXCEPT !.release = FALSE]
<1>4. /\ q \in Queues /\ q.release = FALSE /\ q.write = {} /\ q.from = wr[w].from
      /\ q.acquire = wr[w].acquire /\ q.read = wr[w].read /\ q.part = wr[w].part
  BY <1>1 DEF Queues
<1>5. wr' = [wr EXCEPT ![w] = q]
  BY DEF NicRelease
<1> HIDE DEF q
<1>6. /\ TypeOK' /\ Others(w) /\ Same
      /\ wr'[w] = q /\ tuple'[LatchLine].latch = 0
      /\ \A l \in Lines : /\ tuple'[l].ver = tuple[l].ver
                          /\ tuple'[l].data = tuple[l].data
                          /\ tuple'[l].crc = tuple[l].crc
      /\ pc' = pc /\ buffers' = buffers /\ b' = b /\ prev' = prev
  BY <1>1, <1>3, <1>4, <1>5, LatchEffect
<1>7. ~(pc[w] = "w_locked" /\ ~wr[w].acquire)
  BY <1>1 DEF QueueOK, Released
<1>8. QueueOK(w)' /\ LatchKept(w)' /\ ~Owner(w)' /\ ~HoldsLatch(w)'
  <2>1. QueueOK(w)'
    BY <1>1, <1>4, <1>6, <1>7 DEF QueueOK, Same, Released
  <2>2. QED
    BY <1>4, <1>6, <1>7, <2>1 DEF LatchKept, Owner, HoldsLatch, Released
<1>9. \A v \in Workers : ~HoldsLatch(v)' /\ QueueOK(v)' /\ LatchKept(v)' /\ ~Owner(v)'
  BY <1>2, <1>6, <1>8, OthersQueues DEF IInv
<1>10. IInv'
  <2>1. Holders' = {} /\ ~Latched'
    BY <1>6, <1>9 DEF Holders, Latched, Same
  <2>2. QED
    BY <1>6, <1>9, <2>1 DEF IInv, OneHolder, OwnerReads
<1>11. DInv => DInv'
  BY <1>1, <1>4, <1>6, LatchData
<1>12. QED
  BY <1>10, <1>11

\* The swap: where the latch was set it stays with its holder.
LEMMA SwapStep ==
    ASSUME IInv, NEW w \in Workers, NicCompareSwap(w)
    PROVE  IInv' /\ (DInv => DInv')
<1>1. /\ TypeOK /\ QueueOK(w) /\ wr[w] \in Queues /\ wr[w].acquire
      /\ wr[w].write = {} /\ ~wr[w].release /\ pc[w] = "w_locked" /\ wr[w].read = Lines
  BY DEF IInv, TypeOK, NicCompareSwap, QueueOK, Released
<1>2. LatchStep(w, 1)
  BY DEF NicCompareSwap, LatchStep
<1> DEFINE q == [wr[w] EXCEPT !.acquire = FALSE]
<1>3. /\ q \in Queues /\ q.release = wr[w].release /\ q.write = {} /\ q.from = wr[w].from
      /\ q.acquire = FALSE /\ q.read = wr[w].read /\ q.part = wr[w].part
  BY <1>1 DEF Queues
<1>4. wr' = [wr EXCEPT ![w] = q]
  BY DEF NicCompareSwap
<1> HIDE DEF q
<1>5. /\ TypeOK' /\ Others(w) /\ Same
      /\ wr'[w] = q /\ tuple'[LatchLine].latch = 1 /\ x_locked'[w] = tuple[LatchLine].latch
      /\ \A l \in Lines : /\ tuple'[l].ver = tuple[l].ver
                          /\ tuple'[l].data = tuple[l].data
                          /\ tuple'[l].crc = tuple[l].crc
      /\ pc' = pc /\ buffers' = buffers /\ b' = b /\ prev' = prev
  BY <1>1, <1>2, <1>3, <1>4, LatchEffect
<1>6. QueueOK(w)' /\ LatchKept(w)' /\ OwnerReads(w)'
  <2>1. QueueOK(w)'
    BY <1>1, <1>3, <1>5 DEF QueueOK, Same, Released
  <2>2. QED
    BY <1>1, <1>3, <1>5, <2>1 DEF LatchKept, OwnerReads
<1>7. /\ ~HoldsLatch(w)
      /\ HoldsLatch(w)' <=> tuple[LatchLine].latch = 0
  BY <1>1, <1>3, <1>5 DEF HoldsLatch, Released
<1>8. tuple[LatchLine].latch \in {0, 1} /\ Latched'
  BY <1>1, <1>5, LineFacts DEF TypeOK, Line, Latched, Same
<1>9. OneHolder'
  <2>1. CASE Latched
    <3>1. Holders' = Holders
      BY <1>5, <1>7, <2>1, OthersQueues DEF Holders, Latched
    <3>2. QED
      BY <1>8, <2>1, <3>1 DEF IInv, OneHolder
  <2>2. CASE ~Latched
    <3>1. Holders = {} /\ HoldsLatch(w)'
      BY <1>7, <1>8, <2>2 DEF IInv, OneHolder, Latched
    <3>2. Holders' = {w}
      BY <1>5, <3>1, OthersQueues DEF Holders
    <3>3. QED
      BY <1>8, <3>2 DEF OneHolder
  <2>3. QED
    BY <2>1, <2>2
<1>10. ASSUME NEW v \in Workers \ {w} PROVE OwnerReads(v)'
  <2>1. CASE Owner(v)
    <3>1. HoldsLatch(v) /\ OwnerReads(v) /\ tuple[LatchLine].latch = 1
      BY <2>1, HolderAlone DEF Owner, HoldsLatch, IInv, Latched
    <3>2. tuple' = tuple
      <4>1. tuple' = [tuple EXCEPT ![LatchLine].latch = 1]
        BY <1>2 DEF LatchStep
      <4>2. [tuple[LatchLine] EXCEPT !.latch = 1] = tuple[LatchLine]
        BY <1>1, <3>1, LineFacts DEF TypeOK, Line
      <4>3. tuple \in [Lines -> Line] /\ LatchLine \in Lines
        BY <1>1, LineFacts DEF TypeOK
      <4>4. QED
        BY <4>1, <4>2, <4>3
    <3>3. QED
      BY <1>5, <3>1, <3>2, OthersData
  <2>2. CASE ~Owner(v)
    BY <1>5, <2>2, OthersQueues DEF OwnerReads
  <2>3. QED
    BY <2>1, <2>2
<1>11. IInv'
  <2>1. \A v \in Workers : QueueOK(v)' /\ LatchKept(v)' /\ OwnerReads(v)'
    BY <1>5, <1>6, <1>10, OthersQueues DEF IInv
  <2>2. QED
    BY <1>5, <1>9, <2>1 DEF IInv
<1>12. DInv => DInv'
  BY <1>1, <1>3, <1>5, <1>8, LatchData
<1>13. QED
  BY <1>11, <1>12

-----------------------------------------------------------------------------

\* A step of the system, as the lemmas above have it.
LEMMA NextCases ==
    ASSUME Next
    PROVE  \E w \in Workers :
              \/ NicWrite(w) \/ NicRelease(w) \/ NicCompareSwap(w)
              \/ \E l \in Lines : NicRead(w, l)
              \/ BeginRead(w) \/ BeginWrite(w) \/ Judges(w)
              \/ LockV2(w) \/ Posts(w) \/ WriteUnlock(w)
BY DEF Next, Nic, Reader, Writer, Judges, Posts

\* Nothing happens.
LEMMA StutterStep ==
    ASSUME IInv, UNCHANGED vars
    PROVE  IInv' /\ (DInv => DInv')
<1>1. /\ mode' = mode /\ tuple' = tuple /\ pc' = pc /\ buffers' = buffers /\ b' = b
      /\ x_locked' = x_locked /\ prev' = prev /\ wr' = wr /\ updates' = updates /\ mine' = mine
  BY DEF vars
<1>2. PICK w \in Workers : TRUE
  BY ConfigAssumption
<1>3. Others(w) /\ Same /\ TypeOK'
  BY <1>1, ModeSame DEF Others, IInv, TypeOK
<1>4. /\ HoldsLatch(w)' <=> HoldsLatch(w)
      /\ QueueOK(w)' /\ LatchKept(w)' /\ OwnerReads(w)'
  BY <1>1, <1>3 DEF IInv, HoldsLatch, QueueOK, LatchKept, OwnerReads, Owner, Released, Local, Same
<1>5. IInv'
  BY <1>1, <1>3, <1>4, QuietStep
<1>6. ASSUME DInv PROVE DInv'
  <2>1. BufferKept(w)' /\ WriteOK(w)'
    BY <1>1, <1>3, <1>6 DEF DInv, BufferKept, WriteOK, Same, Versioned
  <2>2. ReadOK(w)'
    BY <1>1, <1>3, <1>6 DEF DInv, ReadOK, Unlatched, Seen, Current, Version, Valid, Even,
       Local, Latched, Same
  <2>3. QED
    BY <1>1, <1>3, <1>6, <2>1, <2>2, QuietData DEF DInv, ProofsOK
<1>7. QED
  BY <1>5, <1>6

\* Every step of the system keeps the first invariant,
LEMMA NextInv == IInv /\ [Next]_vars => IInv'
BY NextCases, StutterStep, WriteStep, ReleaseStep, SwapStep, ReadStep, BeginStep, JudgeStep,
   HeadStep, PostStep, UnlockStep

\* ... and the second one, given the buffers.
LEMMA NextData == EnoughBuffers /\ IInv /\ DInv /\ [Next]_vars => DInv'
BY NextCases, StutterStep, WriteStep, ReleaseStep, SwapStep, ReadStep, BeginStep, JudgeStep,
   HeadStep, PostStep, UnlockStep

\* IInv is an invariant of the optimistic locks in all their modes.
LEMMA Invariance == Spec => []IInv
BY InitInv, NextInv, PTL DEF Spec

\* ... and DInv in those that have the buffers.
LEMMA DataInvariance ==
    ASSUME EnoughBuffers
    PROVE  Spec => [](IInv /\ DInv)
<1>1. IInv /\ DInv /\ [Next]_vars => (IInv /\ DInv)'
  BY NextInv, NextData
<1>2. QED
  BY <1>1, InitInv, PTL DEF Spec

\* The state of OptimisticLock stays in its types, in every mode: the latch,
\* which atomics and WRITEs of the whole tuple both change, is 0 or 1.
THEOREM OptimisticTypeCorrect == Spec => []TypeOK
<1>1. IInv => TypeOK
  BY DEF IInv
<1>2. QED
  BY <1>1, Invariance, PTL

\* The latch has one holder while it is set, from the swap to the end of the
\* release or of the footer's WRITE, and none otherwise, in every mode.
THEOREM OptimisticLatchExclusive == Spec => []LatchExclusive
<1>1. IInv => LatchExclusive
  <2> SUFFICES ASSUME IInv PROVE tuple[LatchLine].latch = Cardinality(Holders)
    BY DEF LatchExclusive, Holders
  <2>1. tuple[LatchLine].latch \in {0, 1}
    BY LineFacts DEF IInv, TypeOK, Line
  <2>2. CASE Latched
    <3>1. PICK w \in Workers : Holders = {w}
      BY <2>2 DEF IInv, OneHolder
    <3>2. Cardinality(Holders) = 1
      BY <3>1, FS_Singleton
    <3>3. QED
      BY <2>2, <3>2 DEF Latched
  <2>3. CASE ~Latched
    <3>1. Cardinality(Holders) = 0
      BY <2>3, FS_EmptySet DEF IInv, OneHolder
    <3>2. QED
      BY <2>1, <2>3, <3>1 DEF Latched
  <2>4. QED
    BY <2>2, <2>3
<1>2. QED
  BY <1>1, Invariance, PTL

\* run_check's test never throws if V2 with a footer has two buffers: what a
\* reader has validated is one state of the tuple, by the version it had before
\* and after, by the checksum, or by the versions of its lines.
THEOREM ValidatedReadsAreSnapshots ==
    ASSUME EnoughBuffers
    PROVE  Spec => []SnapshotConsistent
<1>1. DInv => SnapshotConsistent
  BY DEF DInv, ReadOK, Even, SnapshotConsistent
<1>2. QED
  BY <1>1, DataInvariance, PTL

\* A version word goes up by one with each update and never otherwise, so that
\* a version that was seen does not come again.
THEOREM VersionsNeverSkip ==
    ASSUME EnoughBuffers
    PROVE  Spec => VersionsStepUp
<1> DEFINE StepUp == \A l \in Lines : tuple'[l].ver \in {tuple[l].ver, tuple[l].ver + 1}
<1>1. IInv /\ DInv /\ [Next]_vars => StepUp \/ UNCHANGED tuple
  <2> SUFFICES ASSUME IInv, DInv, [Next]_vars, ~UNCHANGED tuple PROVE StepUp
    OBVIOUS
  <2>1. Next
    BY DEF vars
  <2>2. PICK w \in Workers : NicWrite(w) \/ NicRelease(w) \/ NicCompareSwap(w)
    BY <2>1 DEF Next, Nic, NicRead, Reader, Writer, BeginRead, BeginWrite, LockV2, LockV2Rest,
       LockAll, ReadRestart, Revalidate, FarmUnlock, Unlock, EndRead, WriteLock, WriteRestart,
       WriteUnlock
  <2>3. CASE NicWrite(w)
    BY <2>3, WriteStep
  <2>4. CASE NicRelease(w) \/ NicCompareSwap(w)
    <3>1. PICK latch : tuple' = [tuple EXCEPT ![LatchLine].latch = latch]
      BY <2>4 DEF NicRelease, NicCompareSwap
    <3>2. tuple \in [Lines -> Line] /\ LatchLine \in Lines
      BY LineFacts DEF IInv, TypeOK
    <3>3. [tuple[LatchLine] EXCEPT !.latch = latch].ver = tuple[LatchLine].ver
      BY <3>2 DEF Line
    <3>4. \A l \in Lines : tuple'[l].ver = tuple[l].ver
      BY <3>1, <3>2, <3>3
    <3>5. QED
      BY <3>4
  <2>5. QED
    BY <2>2, <2>3, <2>4
<1>2. VersionsStepUp <=> [][StepUp]_tuple
  BY DEF VersionsStepUp
<1>3. QED
  BY <1>1, <1>2, DataInvariance, PTL DEF Spec
-----------------------------------------------------------------------------
(* The updates.                                                            *)

\* A WRITE under way is of a tuple that counts all updates, and the lines that
\* it has written do; if there is none the tuple counts them.
Sum == Total(updates)

Made(w) == \A l \in Lines : /\ buffers[w][wr[w].from][l].data = Sum
                            /\ l \notin wr[w].write => tuple[l].data = Sum

Counted == /\ \A w \in Workers : wr[w].write # {} => Made(w)
           /\ (\A w \in Workers : wr[w].write = {}) => \A l \in Lines : tuple[l].data = Sum

\* What a reader has read of the data.
Gotten(w) == CASE pc[w] = "r_body" -> Lines \ wr[w].read
               [] pc[w] \in {"r_validate", "r_done"} -> Lines
               [] OTHER -> {}

\* It is not older than the thread's own latest update, nor is what is left to
\* read once that update is written.
SeesOwn(w) ==
    /\ mine[w] <= Sum
    /\ \A l \in Lines \ wr[w].write : tuple[l].data >= mine[w]
    /\ \A l \in Gotten(w) : Local(w)[l].data >= mine[w]

CountOK == Sum \in Nat /\ Counted /\ \A w \in Workers : SeesOwn(w)

\* There is nothing to count in the beginning.
LEMMA InitCount == Init => CountOK
<1> SUFFICES ASSUME Init PROVE CountOK
  OBVIOUS
<1>1. Sum = 0
  BY ConfigAssumption, TotalOfZeros DEF Init, Sum
<1>2. \A l \in Lines : tuple[l].data = 0
  BY DEF Init, ZeroLine
<1>3. \A w \in Workers : wr[w].write = {} /\ mine[w] = 0 /\ Gotten(w) = {}
  BY DEF Init, Gotten
<1>4. QED
  BY <1>1, <1>2, <1>3 DEF CountOK, Counted, SeesOwn

\* What does not change the data of the tuple or of a WRITE under way keeps the
\* count, if what its own worker has read is not too old.
LEMMA SameCount ==
    ASSUME CountOK, NEW w \in Workers, Others(w), updates' = updates, mine' = mine,
           \A l \in Lines : tuple'[l].data = tuple[l].data,
           wr'[w].write = wr[w].write, wr'[w].from = wr[w].from,
           wr[w].write # {} =>
               \A l \in Lines : buffers'[w][wr[w].from][l].data = buffers[w][wr[w].from][l].data,
           \A l \in Gotten(w)' : Local(w)'[l].data >= mine[w]
    PROVE  CountOK'
<1>1. Sum' = Sum
  BY DEF Sum
<1>2. \A v \in Workers : wr'[v].write = wr[v].write
  BY DEF Others
<1>3. \A v \in Workers : wr[v].write # {} => Made(v)'
  <2> SUFFICES ASSUME NEW v \in Workers, wr[v].write # {} PROVE Made(v)'
    OBVIOUS
  <2>1. Made(v)
    BY DEF CountOK, Counted
  <2>2. \A l \in Lines : buffers'[v][wr'[v].from][l].data = buffers[v][wr[v].from][l].data
    BY DEF Others
  <2>3. QED
    BY <1>1, <1>2, <2>1, <2>2 DEF Made
<1>4. Counted'
  BY <1>1, <1>2, <1>3 DEF CountOK, Counted
<1>5. \A v \in Workers \ {w} : SeesOwn(v)'
  <2> SUFFICES ASSUME NEW v \in Workers \ {w} PROVE SeesOwn(v)'
    OBVIOUS
  <2>1. Gotten(v)' = Gotten(v) /\ Local(v)' = Local(v)
    BY DEF Others, Gotten, Local
  <2>2. QED
    BY <1>1, <1>2, <2>1 DEF CountOK, SeesOwn
<1>6. SeesOwn(w)'
  BY <1>1, <1>2 DEF CountOK, SeesOwn
<1>7. QED
  BY <1>1, <1>4, <1>5, <1>6 DEF CountOK

\* The steps of a thread that do not end an update.
LEMMA ThreadCount ==
    ASSUME IInv, CountOK, NEW w \in Workers,
           BeginRead(w) \/ BeginWrite(w) \/ Judges(w) \/ LockV2(w) \/ Posts(w)
    PROVE  CountOK'
<1>1. /\ tuple' = tuple /\ updates' = updates /\ mine' = mine
      /\ mode' = mode /\ Same
  BY ModeSame DEF BeginRead, BeginWrite, Judges, ReadRestart, FarmUnlock, Unlock, EndRead,
     WriteRestart, LockV2, Posts, LockV2Rest, LockAll, Revalidate, WriteLock
<1>2. Others(w)
  BY DEF Others, IInv, TypeOK, BeginRead, BeginWrite, NextBuffer, Goto, PostRead, Judges,
     ReadRestart, FarmUnlock, Unlock, EndRead, WriteRestart, LockV2, Posts, LockV2Rest, LockAll,
     Revalidate, WriteLock
<1>3. wr'[w].write = wr[w].write /\ wr'[w].from = wr[w].from
  BY DEF IInv, TypeOK, Queues, BeginRead, BeginWrite, PostRead, Judges, ReadRestart,
     FarmUnlock, Unlock, EndRead, WriteRestart, LockV2, Posts, LockV2Rest, LockAll, Revalidate,
     WriteLock
<1>4. \A i \in Buffers : \A l \in Lines : buffers'[w][i][l].data = buffers[w][i][l].data
  <2>1. CASE LockV2(w) /\ ~Header
    <3>1. buffers' = [buffers EXCEPT ![w][b[w]][NumLines] =
                          [buffers[w][b[w]][NumLines] EXCEPT !.ver = 0, !.latch = 0]]
      BY <2>1 DEF LockV2
    <3>2. buffers \in [Workers -> [Buffers -> [Lines -> Line]]] /\ b[w] \in Buffers
          /\ NumLines \in Lines
      BY LineFacts DEF IInv, TypeOK
    <3> DEFINE line == [buffers[w][b[w]][NumLines] EXCEPT !.ver = 0, !.latch = 0]
    <3>3. line.data = buffers[w][b[w]][NumLines].data
      BY <3>2 DEF Line
    <3> HIDE DEF line
    <3>4. buffers' = [buffers EXCEPT ![w][b[w]][NumLines] = line]
      BY <3>1 DEF line
    <3>5. QED
      BY <3>2, <3>3, <3>4
  <2>2. CASE ~(LockV2(w) /\ ~Header)
    <3>1. buffers' = buffers
      BY <2>2 DEF BeginRead, BeginWrite, Judges, ReadRestart, FarmUnlock, Unlock, EndRead,
         WriteRestart, LockV2, Posts, LockV2Rest, LockAll, Revalidate, WriteLock
    <3>2. QED
      BY <3>1
  <2>3. QED
    BY <2>1, <2>2
<1>5. wr[w].from \in Buffers
  BY DEF IInv, TypeOK, Queues
<1>6. \A l \in Gotten(w)' : Local(w)'[l].data >= mine[w]
  <2>1. CASE Gotten(w)' = {}
    BY <2>1
  <2>2. CASE Gotten(w)' # {}
    <3>1. /\ pc'[w] \in {"r_validate", "r_done"} /\ Gotten(w) = Lines
          /\ buffers' = buffers /\ b' = b
      <4>1. CASE FarmUnlock(w) \/ Revalidate(w)
        <5>1. pc[w] = "r_body" /\ wr[w].read = {} /\ buffers' = buffers /\ b' = b
          BY <4>1 DEF FarmUnlock, Revalidate, Polled, Goto
        <5>2. pc'[w] \in {"r_validate", "r_done", "r_lock"}
          BY <4>1 DEF FarmUnlock, Revalidate, Goto, IInv, TypeOK
        <5>3. pc'[w] # "r_lock"
          BY <2>2 DEF Gotten
        <5>4. QED
          BY <5>1, <5>2, <5>3 DEF Gotten
      <4>2. CASE Unlock(w)
        <5>1. /\ pc[w] = "r_validate" /\ buffers' = buffers /\ b' = b
              /\ pc'[w] \in {"r_done", "r_lock"}
          BY <4>2 DEF Unlock, Goto, IInv, TypeOK
        <5>2. QED
          BY <2>2, <5>1 DEF Gotten
      <4>3. CASE LockV2Rest(w) \/ LockAll(w)
        <5>1. pc'[w] = "r_body" /\ wr'[w].read = Lines
          BY <4>3 DEF LockV2Rest, LockAll, Goto, PostRead, IInv, TypeOK, Queues
        <5>2. QED
          BY <2>2, <5>1 DEF Gotten
      <4>4. CASE BeginRead(w) \/ BeginWrite(w) \/ ReadRestart(w) \/ EndRead(w)
                 \/ WriteRestart(w) \/ LockV2(w) \/ WriteLock(w)
        <5>1. pc'[w] \notin {"r_body", "r_validate", "r_done"}
          BY <4>4 DEF BeginRead, BeginWrite, ReadRestart, EndRead, WriteRestart, LockV2,
             WriteLock, Goto, IInv, TypeOK
        <5>2. QED
          BY <2>2, <5>1 DEF Gotten
      <4>5. QED
        BY <4>1, <4>2, <4>3, <4>4 DEF Judges, Posts
    <3>2. QED
      BY <3>1 DEF CountOK, SeesOwn, Gotten, Local
  <2>3. QED
    BY <2>1, <2>2
<1>7. QED
  BY <1>1, <1>2, <1>3, <1>4, <1>5, <1>6, SameCount

\* A line of a READ is executed behind the thread's WRITE.
LEMMA ReadCount ==
    ASSUME IInv, CountOK, NEW w \in Workers, NEW l \in Lines, NicRead(w, l)
    PROVE  CountOK'
<1>1. /\ tuple' = tuple /\ updates' = updates /\ mine' = mine /\ pc' = pc /\ b' = b
      /\ l \in wr[w].read /\ wr[w].write = {} /\ x_locked' = x_locked /\ prev' = prev
      /\ wr' = [wr EXCEPT ![w].read = wr[w].read \ {l}]
      /\ buffers' = [buffers EXCEPT ![w][b[w]][l] =
                        Fetched(wr[w].part, buffers[w][b[w]][l], tuple[l])]
  BY DEF NicRead, Acquired, Released
<1>2. /\ buffers \in [Workers -> [Buffers -> [Lines -> Line]]] /\ b[w] \in Buffers
      /\ tuple \in [Lines -> Line] /\ wr \in [Workers -> Queues]
      /\ wr[w].part \in {"all", "head", "rest", "version"} /\ QueueOK(w)
  BY DEF IInv, TypeOK, Queues
<1>3. /\ wr'[w].read = wr[w].read \ {l} /\ wr'[w].write = wr[w].write
      /\ wr'[w].from = wr[w].from /\ \A v \in Workers \ {w} : wr'[v] = wr[v]
  BY <1>1, <1>2 DEF Queues
<1> DEFINE got == Fetched(wr[w].part, buffers[w][b[w]][l], tuple[l])
<1>4. got.data = IF wr[w].part \in {"head", "version"} THEN Local(w)[l].data
                                                     ELSE tuple[l].data
  BY <1>2, FetchedFacts DEF Local
<1> HIDE DEF got
<1>5. buffers' = [buffers EXCEPT ![w][b[w]][l] = got]
  BY <1>1 DEF got
<1>6. /\ buffers'[w][b[w]][l] = got
      /\ \A m \in Lines \ {l} : buffers'[w][b[w]][m] = buffers[w][b[w]][m]
      /\ \A v \in Workers \ {w} : buffers'[v] = buffers[v]
  BY <1>2, <1>5
<1>7. Others(w)
  BY <1>1, <1>3, <1>6 DEF Others
<1>8. \A m \in Gotten(w)' : Local(w)'[m].data >= mine[w]
  <2>1. CASE pc[w] = "r_body"
    <3>1. wr[w].part \in {"rest", "all"}
      BY <1>2, <2>1 DEF QueueOK
    <3>2. Local(w)'[l].data = tuple[l].data
      BY <1>1, <1>4, <1>6, <3>1 DEF Local
    <3>3. tuple[l].data >= mine[w] /\ \A m \in Lines \ wr[w].read : Local(w)[m].data >= mine[w]
      BY <1>1, <2>1 DEF CountOK, SeesOwn, Gotten
    <3>4. Gotten(w)' = Lines \ (wr[w].read \ {l})
      BY <1>1, <1>3, <2>1 DEF Gotten
    <3>5. \A m \in Lines \ {l} : Local(w)'[m] = Local(w)[m]
      BY <1>1, <1>6 DEF Local
    <3>6. QED
      BY <3>2, <3>3, <3>4, <3>5
  <2>2. CASE pc[w] \in {"r_validate", "r_done"}
    <3>1. wr[w].part \in {"head", "version"}
      BY <1>1, <1>2, <2>2 DEF QueueOK
    <3>2. \A m \in Lines : Local(w)'[m].data = Local(w)[m].data
      BY <1>1, <1>4, <1>6, <3>1 DEF Local
    <3>3. \A m \in Lines : Local(w)[m].data >= mine[w]
      BY <2>2 DEF CountOK, SeesOwn, Gotten
    <3>4. QED
      BY <1>1, <2>2, <3>2, <3>3 DEF Gotten
  <2>3. CASE pc[w] \notin {"r_body", "r_validate", "r_done"}
    BY <1>1, <2>3 DEF Gotten
  <2>4. QED
    BY <2>1, <2>2, <2>3
<1>9. QED
  BY <1>1, <1>3, <1>7, <1>8, SameCount

\* The atomics change no data.
LEMMA LatchCount ==
    ASSUME IInv, CountOK, NEW w \in Workers, NicRelease(w) \/ NicCompareSwap(w)
    PROVE  CountOK'
<1>1. /\ updates' = updates /\ mine' = mine /\ pc' = pc /\ b' = b /\ buffers' = buffers
      /\ prev' = prev /\ x_locked' = [x_locked EXCEPT ![w] = tuple[LatchLine].latch]
      /\ \/ wr' = [wr EXCEPT ![w].release = FALSE]
         \/ wr' = [wr EXCEPT ![w].acquire = FALSE]
  BY DEF NicRelease, NicCompareSwap
<1>2. /\ wr \in [Workers -> Queues] /\ tuple \in [Lines -> Line] /\ LatchLine \in Lines
      /\ x_locked \in [Workers -> {0, 1}]
  BY LineFacts DEF IInv, TypeOK
<1>3. /\ wr'[w].read = wr[w].read /\ wr'[w].write = wr[w].write
      /\ wr'[w].from = wr[w].from /\ \A v \in Workers \ {w} : wr'[v] = wr[v]
  BY <1>1, <1>2 DEF Queues
<1>4. \A l \in Lines : tuple'[l].data = tuple[l].data
  <2>1. PICK latch : tuple' = [tuple EXCEPT ![LatchLine].latch = latch]
    BY DEF NicRelease, NicCompareSwap
  <2> DEFINE line == [tuple[LatchLine] EXCEPT !.latch = latch]
  <2>2. line.data = tuple[LatchLine].data
    BY <1>2 DEF Line
  <2> HIDE DEF line
  <2>3. tuple' = [tuple EXCEPT ![LatchLine] = line]
    BY <2>1 DEF line
  <2>4. QED
    BY <1>2, <2>2, <2>3
<1>5. Others(w)
  BY <1>1, <1>2, <1>3 DEF Others
<1>6. Gotten(w)' = Gotten(w) /\ Local(w)' = Local(w)
  BY <1>1, <1>3 DEF Gotten, Local
<1>7. QED
  BY <1>1, <1>3, <1>4, <1>5, <1>6, SameCount DEF CountOK, SeesOwn

\* A line of the WRITE counts all updates.
LEMMA WriteCount ==
    ASSUME IInv, CountOK, NEW w \in Workers, NicWrite(w)
    PROVE  CountOK'
<1>1. PICK l \in wr[w].write :
         /\ tuple' = [tuple EXCEPT ![l] = buffers[w][wr[w].from][l]]
         /\ wr' = [wr EXCEPT ![w].write = wr[w].write \ {l}]
  <2>1. wr[w].write \in SUBSET Nat /\ wr[w].write # {}
    BY LineFacts DEF IInv, TypeOK, Queues, NicWrite
  <2>2. \E l \in wr[w].write : \A m \in wr[w].write : l <= m
    BY <2>1, LeastNumber
  <2>3. QED
    BY <2>2 DEF NicWrite
<1>2. /\ pc' = pc /\ buffers' = buffers /\ b' = b /\ updates' = updates /\ mine' = mine
      /\ Sum' = Sum
  BY DEF NicWrite, thread, Sum
<1>3. wr \in [Workers -> Queues] /\ tuple \in [Lines -> Line] /\ l \in Lines
  BY DEF IInv, TypeOK, Queues
<1>4. /\ wr'[w].write = wr[w].write \ {l} /\ wr'[w].from = wr[w].from
      /\ wr'[w].read = wr[w].read /\ \A v \in Workers \ {w} : wr'[v] = wr[v]
  BY <1>1, <1>3 DEF Queues
<1>5. \A v \in Workers \ {w} : wr[v].write = {}
  BY HolderAlone DEF HoldsLatch, Released
<1>6. Made(w)
  BY DEF CountOK, Counted
<1>7. tuple'[l].data = Sum /\ \A m \in Lines \ {l} : tuple'[m] = tuple[m]
  BY <1>1, <1>3, <1>6 DEF Made
<1>8. Made(w)'
  BY <1>2, <1>4, <1>6, <1>7 DEF Made
<1>9. Counted'
  BY <1>2, <1>4, <1>5, <1>8 DEF Counted, Made
<1>10. \A v \in Workers : SeesOwn(v)'
  <2> SUFFICES ASSUME NEW v \in Workers PROVE SeesOwn(v)'
    OBVIOUS
  <2>1. SeesOwn(v)
    BY DEF CountOK
  <2>2. Gotten(v)' = Gotten(v) /\ Local(v)' = Local(v)
    BY <1>2, <1>4 DEF Gotten, Local
  <2>3. \A m \in Lines \ wr'[v].write : tuple'[m].data >= mine[v]
    BY <1>4, <1>7, <2>1 DEF SeesOwn, CountOK
  <2>4. QED
    BY <1>2, <2>1, <2>2, <2>3 DEF SeesOwn
<1>11. QED
  BY <1>2, <1>9, <1>10 DEF CountOK

\* An update counts when the thread has made it.
LEMMA UnlockCount ==
    ASSUME IInv, CountOK, NEW w \in Workers, WriteUnlock(w)
    PROVE  CountOK'
<1>1. /\ tuple' = tuple /\ x_locked' = x_locked /\ b' = b /\ prev' = prev
      /\ Polled(w) /\ x_locked[w] = 0 /\ pc[w] = "w_locked"
      /\ updates' = [updates EXCEPT ![w] = updates[w] + 1]
      /\ mine' = [mine EXCEPT ![w] = Local(w)[1].data + 1]
      /\ wr' = [wr EXCEPT ![w].write = Lines, ![w].from = b[w], ![w].release = Header]
      /\ buffers' = [buffers EXCEPT ![w][b[w]] = Updated(buffers[w][b[w]])]
      /\ pc' = [pc EXCEPT ![w] = "idle"]
  BY DEF WriteUnlock, Goto
<1>2. /\ wr \in [Workers -> Queues] /\ tuple \in [Lines -> Line] /\ b[w] \in Buffers
      /\ buffers \in [Workers -> [Buffers -> [Lines -> Line]]]
      /\ mine \in [Workers -> Nat] /\ pc \in [Workers -> PCs]
      /\ updates \in [Workers -> Nat]
  BY DEF IInv, TypeOK, PCs
<1>3. /\ wr'[w].write = Lines /\ wr'[w].from = b[w] /\ wr'[w].read = wr[w].read
      /\ \A v \in Workers \ {w} : wr'[v] = wr[v]
  BY <1>1, <1>2 DEF Queues
<1>4. HoldsLatch(w) /\ Owner(w) /\ wr[w].write = {} /\ wr[w].read = {}
  BY <1>1 DEF HoldsLatch, Owner, Polled, Acquired, Released
<1>5. \A v \in Workers : wr[v].write = {}
  BY <1>4, HolderAlone
<1>6. \A l \in Lines : Local(w)[l] = tuple[l] /\ tuple[l].data = Sum
  BY <1>4, <1>5 DEF IInv, OwnerReads, CountOK, Counted
<1>7. Sum \in Nat /\ Sum' = Sum + 1
  <2>1. updates \in [Workers -> Int] /\ updates' \in [Workers -> Int]
    BY <1>1, <1>2
  <2>2. updates'[w] = updates[w] + 1 /\ \A v \in Workers \ {w} : updates'[v] = updates[v]
    BY <1>1, <1>2
  <2>3. QED
    BY <2>1, <2>2, ConfigAssumption, TotalOfChanged DEF Sum, CountOK
<1>8. /\ buffers'[w][b[w]] = Updated(Local(w))
      /\ \A v \in Workers \ {w} : buffers'[v] = buffers[v]
  BY <1>1, <1>2 DEF Local
<1>9. \A l \in Lines : buffers'[w][wr'[w].from][l].data = Sum'
  <2>1. \A l \in Lines : Updated(Local(w))[l].data = Local(w)[l].data + 1
    BY DEF Updated
  <2>2. QED
    BY <1>3, <1>6, <1>7, <1>8, <2>1
<1>10. Counted'
  <2>1. Made(w)'
    BY <1>3, <1>9 DEF Made
  <2>2. \A v \in Workers \ {w} : wr'[v].write = {}
    BY <1>3, <1>5
  <2>3. wr'[w].write # {}
    BY <1>3, LineFacts
  <2>4. QED
    BY <2>1, <2>2, <2>3 DEF Counted
<1>11. SeesOwn(w)'
  <2>1. mine'[w] = Sum'
    BY <1>1, <1>2, <1>6, <1>7, LineFacts
  <2>2. Gotten(w)' = {}
    BY <1>1, <1>2 DEF Gotten
  <2>3. QED
    BY <1>3, <1>7, <2>1, <2>2 DEF SeesOwn
<1>12. \A v \in Workers \ {w} : SeesOwn(v)'
  <2> SUFFICES ASSUME NEW v \in Workers \ {w} PROVE SeesOwn(v)'
    OBVIOUS
  <2>1. SeesOwn(v) /\ mine'[v] = mine[v] /\ mine[v] \in Nat
    BY <1>1, <1>2 DEF CountOK
  <2>2. Gotten(v)' = Gotten(v) /\ Local(v)' = Local(v)
    BY <1>1, <1>2, <1>3, <1>8 DEF Gotten, Local
  <2>3. mine'[v] <= Sum'
    BY <1>7, <2>1 DEF SeesOwn
  <2>4. \A l \in Lines \ wr'[v].write : tuple'[l].data >= mine'[v]
    BY <1>1, <1>3, <2>1 DEF SeesOwn
  <2>5. \A l \in Gotten(v)' : Local(v)'[l].data >= mine'[v]
    BY <2>1, <2>2 DEF SeesOwn
  <2>6. QED
    BY <2>3, <2>4, <2>5 DEF SeesOwn
<1>13. QED
  BY <1>7, <1>10, <1>11, <1>12 DEF CountOK

\* Every step keeps the count, in all modes and with any buffers.
LEMMA NextCount == IInv /\ CountOK /\ [Next]_vars => CountOK'
<1> SUFFICES ASSUME IInv, CountOK, [Next]_vars PROVE CountOK'
  OBVIOUS
<1>1. CASE Next
  BY <1>1, NextCases, WriteCount, LatchCount, ReadCount, ThreadCount, UnlockCount
<1>2. CASE UNCHANGED vars
  <2>1. /\ tuple' = tuple /\ pc' = pc /\ buffers' = buffers /\ b' = b /\ x_locked' = x_locked
        /\ prev' = prev /\ wr' = wr /\ updates' = updates /\ mine' = mine
    BY <1>2 DEF vars
  <2>2. PICK w \in Workers : TRUE
    BY ConfigAssumption
  <2>3. Others(w) /\ Gotten(w)' = Gotten(w) /\ Local(w)' = Local(w)
    BY <2>1 DEF Others, Gotten, Local
  <2>4. QED
    BY <2>1, <2>3, SameCount DEF CountOK, SeesOwn
<1>3. QED
  BY <1>1, <1>2

\* The first invariant with the count.
LEMMA CountInvariance == Spec => [](IInv /\ CountOK)
<1>1. Init => IInv /\ CountOK
  BY InitInv, InitCount
<1>2. IInv /\ CountOK /\ [Next]_vars => (IInv /\ CountOK)'
  BY NextInv, NextCount
<1>3. QED
  BY <1>1, <1>2, PTL DEF Spec

\* When the latch is free every line counts the updates of all workers: none is
\* lost or made twice, in any mode and with any number of local buffers, also
\* where the WRITE is still under way when its thread goes on.
THEOREM OptimisticUpdatesAddUp == Spec => []NoLostUpdate
<1>1. IInv /\ CountOK => NoLostUpdate
  <2> SUFFICES ASSUME IInv, CountOK, tuple[LatchLine].latch = 0, NEW l \in Lines
               PROVE  tuple[l].data = Sum
    BY DEF NoLostUpdate, Sum, Total
  <2>1. \A w \in Workers : wr[w].write = {}
    BY DEF IInv, OneHolder, Latched, Holders, HoldsLatch, Released
  <2>2. QED
    BY <2>1 DEF CountOK, Counted
<1>2. QED
  BY <1>1, CountInvariance, PTL

\* A validated read is not older than what the reader itself wrote before and
\* did not wait for, whoever has written since.
THEOREM ReadersSeeTheirOwn == Spec => []ReadsOwnWrites
<1>1. CountOK => ReadsOwnWrites
  BY DEF CountOK, SeesOwn, Gotten, ReadsOwnWrites
<1>2. QED
  BY <1>1, CountInvariance, PTL
=============================================================================
