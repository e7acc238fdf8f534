----------------------------- MODULE ClockProofs -----------------------------
(***************************************************************************)
(* Proofs about the lifecycle clock, for every number of processes and     *)
(* requests, every limit and whatever the wall clocks show: a request is   *)
(* never given a time older than the freshness limit, only ticks that took *)
(* effect are published, a process has at most one maintenance backend,    *)
(* and no committed write runs ahead of the mark by more than its lag.     *)
(*                                                                         *)
(* A tick's clock is computed while its transaction holds the row, after   *)
(* the instant at which the tick was started.  So it is no earlier than    *)
(* any watermark from before that instant, and stays so however late it is *)
(* committed or published.  A COMMIT that was not answered keeps the row   *)
(* locked until its outcome is settled, so the clock and the mark that it  *)
(* would write are still ahead of the row's when it takes effect.          *)
(***************************************************************************)
EXTENDS LifecycleClock, SequenceTheorems, TLAPS

-----------------------------------------------------------------------------
(* The invariant.                                                          *)

\* The phases in which a lease may still move the row.
Holding == {"open", "unknown", "lost"}

\* A lease has its permit exactly as long as it may have a backend, a slot is
\* forgotten only by a process in quarantine, and a stopped process has nothing.
LeaseFits(p) ==
    LET l == leases[p] IN
    /\ l.phase \in {"open", "committed", "failed", "unknown"} =>
          l.permit = "held" /\ l.backends = 1
    /\ l.phase = "publishing" => l.permit = "free" /\ l.backends = 0
    /\ l.phase = "lost" => l.permit = "forgotten" /\ l.backends = 1
    /\ l.phase = "idle" =>
          \/ l.permit = "free" /\ l.backends = 0
          \/ l.permit = "forgotten" /\ l.backends = 1
    /\ l.permit = "forgotten" => procs[p].quarantined
    /\ l.started <= mono
    /\ ~ procs[p].up => l = NoLease /\ procs[p] = Down

LeasesFit == \A p \in Procs : LeaseFits(p)

\* The row is locked by one lease at most.
RowHeldOnce ==
    \A p, q \in Procs :
        leases[p].phase \in Holding /\ leases[q].phase \in Holding => p = q

\* The watermarks of the instants before a tick was started are not ahead of it.
Covers(tick) ==
    /\ tick.started <= mono
    /\ \A i \in 1 .. Limit :
          i + mono <= tick.started + Limit => past[i] <= tick.clock.ms

\* What an unanswered COMMIT would write is still ahead of the row.
PendingAhead ==
    \A p \in Procs : leases[p].phase \in {"unknown", "lost"} =>
        /\ leases[p].seconds >= observed
        /\ leases[p].tick.clock.ms >= clock.ms
        /\ Covers(leases[p].tick)

\* The tick of a confirmed COMMIT took effect.
ConfirmedCommitted ==
    \A p \in Procs : leases[p].phase \in {"committed", "publishing"} =>
        leases[p].tick \in committed

\* The progress of a process is a tick that took effect, from the instant its
\* freshness counts from.
ProgressCommitted ==
    \A p \in Procs :
        /\ procs[p].gen <= generation
        /\ procs[p].since = procs[p].progress.started
        /\ procs[p].since # 0 => procs[p].progress \in committed

\* No watermark is ahead of the row, and every tick covers those before it.
PastCovered ==
    /\ \A i \in 1 .. Limit : past[i] <= clock.ms
    /\ \A tick \in committed : Covers(tick)

\* The mark that a request has read is behind the row's, unless it is retired.
ReadsBehind ==
    /\ generation >= 1
    /\ \A r \in Readers : requests[r].active =>
          /\ procs[ProcOf[r]].gen # 0
          /\ procs[ProcOf[r]].gen = generation =>
                requests[r].observed <= observed

ClockInv ==
    /\ ClockTypeOK
    /\ LeasesFit
    /\ RowHeldOnce
    /\ PendingAhead
    /\ ConfirmedCommitted
    /\ ProgressCommitted
    /\ PublishedCommitted
    /\ PastCovered
    /\ ReadsBehind
    /\ WritesCovered

-----------------------------------------------------------------------------
(* Steps that leave the row alone.                                         *)

\* A lease that is replaced.
LEMMA LeaseTo ==
    ASSUME leases \in [Procs -> LeaseState], NEW p \in Procs, NEW l \in LeaseState, SetLease(p, l)
    PROVE  /\ leases' \in [Procs -> LeaseState]
           /\ leases'[p] = l
           /\ \A q \in Procs : q # p => leases'[q] = leases[q]
BY DEF SetLease

\* A lease stays fit while it and its process are left alone.
LEMMA FitKept ==
    ASSUME NEW q \in Procs, LeaseFits(q), leases'[q] = leases[q],
           procs'[q] = procs[q], leases[q].started \in Nat,
           mono \in Nat, mono' \in Nat, mono <= mono'
    PROVE  LeaseFits(q)'
BY DEF LeaseFits

\* A row that one lease holds, or none, stays so.
LEMMA HeldKept ==
    ASSUME RowHeldOnce, NEW p \in Procs,
           \A q \in Procs : q # p =>
                (leases'[q].phase \in Holding => leases[q].phase \in Holding),
           leases'[p].phase \in Holding =>
              \/ leases[p].phase \in Holding
              \/ \A q \in Procs : leases[q].phase \notin Holding
    PROVE  RowHeldOnce'
BY DEF RowHeldOnce, Holding

\* What p's maintenance may do to the process: its quarantine lasts, its generation
\* is fixed once, and its freshness rests on ticks that took effect.
ProcFits(p, s) ==
    /\ s \in Proc
    /\ Len(s.published) <= Keep
    /\ s.up = procs[p].up
    /\ procs[p].quarantined => s.quarantined
    /\ procs[p].gen # 0 => s.gen = procs[p].gen
    /\ s.gen <= generation
    /\ s.since = s.progress.started
    /\ s.since # 0 => s.progress \in committed
    /\ \A i \in DOMAIN s.published : s.published[i] \in committed

\* A process that keeps its freshness, or is put in quarantine.
LEMMA ProcFitsKept ==
    ASSUME ClockInv, NEW p \in Procs, NEW s \in Proc,
           s.published = procs[p].published, s.up = procs[p].up,
           procs[p].quarantined => s.quarantined, s.gen = procs[p].gen,
           s.since = procs[p].since, s.progress = procs[p].progress
    PROVE  ProcFits(p, s)
<1>1. Len(procs[p].published) <= Keep
  BY DEF ClockInv, ClockTypeOK
<1>2. \A i \in DOMAIN procs[p].published : procs[p].published[i] \in committed
  BY DEF ClockInv, PublishedCommitted
<1>3. /\ procs[p].gen <= generation
      /\ procs[p].since = procs[p].progress.started
      /\ procs[p].since # 0 => procs[p].progress \in committed
  BY DEF ClockInv, ProgressCommitted
<1> QED BY <1>1, <1>2, <1>3 DEF ProcFits

\* What p's maintenance may do to its lease without touching the row.
LeaseMoves(p, l) ==
    /\ l.phase \in Holding =>
          leases[p].phase \in Holding \/ RowFree
    /\ l.phase \in {"unknown", "lost"} =>
          /\ l.seconds >= observed
          /\ l.tick.clock.ms >= clock.ms
          /\ Covers(l.tick)
    /\ l.phase \in {"committed", "publishing"} => l.tick \in committed

\* A step of p's maintenance that leaves the row alone.
LEMMA QuietStep ==
    ASSUME ClockInv, NEW p \in Procs, NEW l \in LeaseState, NEW s,
           SetLease(p, l), LeaseMoves(p, l), ProcFits(p, s),
           procs' = [procs EXCEPT ![p] = s],
           LeaseFits(p)',
           UNCHANGED <<mono, durable, requests, clockHistory>>,
           clockFaults' \in 0 .. MaxClockFaults
    PROVE  ClockInv'
<1>t. /\ ClockTypeOK /\ leases \in [Procs -> LeaseState] /\ procs \in [Procs -> Proc]
      /\ mono \in Nat
  BY DEF ClockInv, ClockTypeOK
<1>u. /\ mono' = mono /\ clock' = clock /\ observed' = observed
      /\ generation' = generation /\ requests' = requests /\ past' = past
      /\ committed' = committed /\ written' = written
  BY DEF durable, clockHistory
<1>1. /\ leases' \in [Procs -> LeaseState] /\ leases'[p] = l
      /\ \A q \in Procs : q # p => leases'[q] = leases[q]
  BY <1>t, LeaseTo
<1>2. \A q \in Procs : procs'[q] = IF q = p THEN s ELSE procs[q]
  BY <1>t
<1>3. ClockTypeOK'
  <2>1. procs' \in [Procs -> Proc]
    BY <1>t DEF ProcFits
  <2>2. \A q \in Procs : Len(procs'[q].published) <= Keep
    BY <1>2, <1>t DEF ProcFits, ClockTypeOK
  <2> QED BY <1>1, <1>t, <1>u, <2>1, <2>2 DEF ClockTypeOK
<1>4. LeasesFit'
  <2>1. ASSUME NEW q \in Procs, q # p PROVE LeaseFits(q)'
    <3>1. LeaseFits(q) /\ leases[q].started \in Nat
      BY <1>t DEF ClockInv, LeasesFit, LeaseState
    <3>2. leases'[q] = leases[q] /\ procs'[q] = procs[q]
      BY <1>1, <1>2, <2>1
    <3> QED BY <1>t, <1>u, <3>1, <3>2, FitKept
  <2> QED BY <2>1 DEF LeasesFit
<1>5. RowHeldOnce'
  <2>1. RowFree => \A q \in Procs : leases[q].phase \notin Holding
    BY DEF RowFree, Holding
  <2> QED BY <1>1, <2>1, HeldKept DEF LeaseMoves, ClockInv
<1>6. PendingAhead'
  <2>1. ASSUME NEW q \in Procs, leases'[q].phase \in {"unknown", "lost"}
        PROVE  /\ leases'[q].seconds >= observed
               /\ leases'[q].tick.clock.ms >= clock.ms
               /\ Covers(leases'[q].tick)
    <3>1. CASE q = p
      BY <1>1, <2>1, <3>1 DEF LeaseMoves
    <3>2. CASE q # p
      BY <1>1, <2>1, <3>2 DEF ClockInv, PendingAhead
    <3> QED BY <3>1, <3>2
  <2> QED BY <1>u, <2>1 DEF PendingAhead, Covers
<1>7. ConfirmedCommitted'
  BY <1>1, <1>u DEF LeaseMoves, ClockInv, ConfirmedCommitted
<1>8. ProgressCommitted'
  BY <1>2, <1>u DEF ProcFits, ClockInv, ProgressCommitted
<1>9. PublishedCommitted'
  BY <1>2, <1>u DEF ProcFits, ClockInv, PublishedCommitted
<1>10. PastCovered'
  BY <1>u DEF ClockInv, PastCovered, Covers
<1>11. ReadsBehind'
  <2>1. \A q \in Procs : procs[q].gen # 0 => procs'[q].gen = procs[q].gen
    BY <1>2 DEF ProcFits
  <2>2. \A r \in Readers : ProcOf[r] \in Procs
    BY ClockAssumption
  <2> QED BY <1>u, <2>1, <2>2 DEF ClockInv, ReadsBehind
<1>12. WritesCovered'
  BY <1>u DEF ClockInv, WritesCovered
<1> QED BY <1>3, <1>4, <1>5, <1>6, <1>7, <1>8, <1>9, <1>10, <1>11, <1>12
        DEF ClockInv

\* The whole seconds of a wall clock.
LEMMA SecondsTyped == ASSUME NEW wall \in Nat PROVE wall \div Second \in Nat
<1>1. Second \in Nat /\ Second > 0
  BY ClockAssumption
<1> QED BY <1>1

\* The types of what is not indexed by a lease.
LEMMA Typed ==
    ASSUME ClockInv
    PROVE  /\ ClockTypeOK
           /\ mono \in Nat /\ observed \in Nat /\ generation \in Nat
           /\ written \in Nat
           /\ clock \in Clock /\ clock.ms \in Nat /\ clock.version \in Nat
           /\ leases \in [Procs -> LeaseState] /\ procs \in [Procs -> Proc]
           /\ requests \in [Readers -> Request]
BY DEF ClockInv, ClockTypeOK, Clock

\* A process that is left alone.
LEMMA SameProc ==
    ASSUME ClockInv, NEW p \in Procs, UNCHANGED procs
    PROVE  /\ ProcFits(p, procs[p])
           /\ procs' = [procs EXCEPT ![p] = procs[p]]
<1>1. procs \in [Procs -> Proc]
  BY Typed
<1> QED BY <1>1, ProcFitsKept

\* A process that is put in quarantine.
LEMMA Quarantined ==
    ASSUME ClockInv, NEW p \in Procs,
           procs' = [procs EXCEPT ![p].quarantined = TRUE]
    PROVE  LET s == [procs[p] EXCEPT !.quarantined = TRUE]
           IN  /\ ProcFits(p, s) /\ s.quarantined /\ s.up = procs[p].up
               /\ procs' = [procs EXCEPT ![p] = s]
<1> DEFINE s == [procs[p] EXCEPT !.quarantined = TRUE]
<1>1. procs[p] \in Proc
  BY Typed
<1>2. /\ s \in Proc /\ s.published = procs[p].published
      /\ s.up = procs[p].up /\ s.quarantined /\ s.gen = procs[p].gen
      /\ s.since = procs[p].since /\ s.progress = procs[p].progress
  BY <1>1 DEF Proc
<1>3. ProcFits(p, s)
  <2> HIDE DEF s
  <2> QED BY <1>2, ProcFitsKept
<1> QED BY <1>2, <1>3

\* What a process remembers of the seconds it has seen.
LEMMA Remembered ==
    ASSUME ClockInv, NEW p \in Procs, NEW seconds \in Nat, Remember(p, seconds)
    PROVE  LET s == [procs[p] EXCEPT !.memory = Later(@, seconds)]
           IN  /\ ProcFits(p, s) /\ s.up = procs[p].up
               /\ s.gen = procs[p].gen /\ s.quarantined = procs[p].quarantined
               /\ procs' = [procs EXCEPT ![p] = s]
<1> DEFINE m == Later(procs[p].memory, seconds)
           s == [procs[p] EXCEPT !.memory = m]
<1>1. procs[p] \in Proc
  BY Typed
<1>2. m \in Nat
  BY <1>1 DEF Later, Proc
<1>3. /\ s \in Proc /\ s.published = procs[p].published
      /\ s.up = procs[p].up /\ s.quarantined = procs[p].quarantined
      /\ s.gen = procs[p].gen
      /\ s.since = procs[p].since /\ s.progress = procs[p].progress
  <2> HIDE DEF m
  <2> QED BY <1>1, <1>2 DEF Proc
<1>4. procs' = [procs EXCEPT ![p] = s]
  BY DEF Remember
<1>5. ProcFits(p, s)
  <2> HIDE DEF s
  <2> QED BY <1>3, ProcFitsKept
<1> QED BY <1>3, <1>4, <1>5

\* A lease that begins takes the slot, which had no backend.
LEMMA OpenedLease ==
    ASSUME ClockInv, NEW p \in Procs, MayTick(p)
    PROVE  /\ Opened(p) \in LeaseState
           /\ Opened(p).phase = "idle" /\ Opened(p).permit = "held"
           /\ Opened(p).backends = 1
           /\ procs[p].up /\ leases[p].phase = "idle"
<1>1. /\ leases[p] \in LeaseState
      /\ leases[p].phase = "idle" /\ leases[p].permit = "free" /\ procs[p].up
  BY Typed DEF MayTick
<1>2. leases[p].backends = 0
  BY <1>1 DEF ClockInv, LeasesFit, LeaseFits
<1> DEFINE n == leases[p].backends + 1
<1>3. Opened(p) = [leases[p] EXCEPT !.permit = "held", !.backends = n]
  BY DEF Opened
<1>4. n = 1
  BY <1>2
<1> HIDE DEF n
<1>5. Opened(p) \in LeaseState
  <2> DEFINE l == leases[p]
  <2>1. l \in LeaseState /\ n \in Nat
    BY <1>1, <1>4
  <2>2. Opened(p) = [l EXCEPT !.permit = "held", !.backends = n]
    BY <1>3
  <2> HIDE DEF l
  <2> QED BY <2>1, <2>2 DEF LeaseState
<1>6. /\ Opened(p).phase = leases[p].phase
      /\ Opened(p).permit = "held" /\ Opened(p).backends = n
  BY <1>1, <1>3 DEF LeaseState
<1> QED BY <1>1, <1>4, <1>5, <1>6

\* A maintenance transaction opens on a free row, with its permit and one backend.
LEMMA LeaseBeginKeeps ==
    ASSUME ClockInv, NEW p \in Procs, NEW wall \in Walls, LeaseBegin(p, wall)
    PROVE  ClockInv'
<1> DEFINE l == [Opened(p) EXCEPT !.phase = "open", !.wall = wall,
                                  !.started = mono]
<1>1. /\ MayTick(p) /\ RowFree /\ SetLease(p, l)
      /\ UNCHANGED <<mono, durable, procs, requests, clockHistory, clockFaults>>
  BY DEF LeaseBegin
<1>2. /\ Opened(p) \in LeaseState /\ Opened(p).permit = "held"
      /\ Opened(p).backends = 1 /\ procs[p].up
  BY <1>1, OpenedLease
<1>3. wall \in Nat /\ mono \in Nat
  BY Typed, ClockAssumption
<1>4. /\ l \in LeaseState /\ l.phase = "open" /\ l.permit = "held"
      /\ l.backends = 1 /\ l.started = mono
  BY <1>2, <1>3 DEF LeaseState, LeasePhases
<1> HIDE DEF l
<1>5. leases'[p] = l
  BY <1>1, <1>4, Typed, LeaseTo
<1>6. LeaseFits(p)'
  BY <1>1, <1>2, <1>3, <1>4, <1>5 DEF LeaseFits
<1>7. LeaseMoves(p, l)
  BY <1>1, <1>4 DEF LeaseMoves
<1>8. clockFaults' \in 0 .. MaxClockFaults
  BY <1>1 DEF ClockInv, ClockTypeOK
<1> QED BY <1>1, <1>4, <1>6, <1>7, <1>8, SameProc, QuietStep

\* A tick that finds the row locked fails and leaves its backend to the cleanup.
LEMMA LeaseBusyKeeps ==
    ASSUME ClockInv, NEW p \in Procs, LeaseBusy(p)
    PROVE  ClockInv'
<1> DEFINE l == [Opened(p) EXCEPT !.phase = "failed", !.started = mono]
<1>1. /\ MayTick(p) /\ SetLease(p, l)
      /\ UNCHANGED <<mono, durable, procs, requests, clockHistory, clockFaults>>
  BY DEF LeaseBusy
<1>2. /\ Opened(p) \in LeaseState /\ Opened(p).permit = "held"
      /\ Opened(p).backends = 1 /\ procs[p].up
  BY <1>1, OpenedLease
<1>3. mono \in Nat
  BY Typed
<1>4. /\ l \in LeaseState /\ l.phase = "failed" /\ l.permit = "held"
      /\ l.backends = 1 /\ l.started = mono
  BY <1>2, <1>3 DEF LeaseState, LeasePhases
<1> HIDE DEF l
<1>5. leases'[p] = l
  BY <1>1, <1>4, Typed, LeaseTo
<1>6. LeaseFits(p)'
  BY <1>1, <1>2, <1>3, <1>4, <1>5 DEF LeaseFits
<1>7. LeaseMoves(p, l)
  BY <1>4 DEF LeaseMoves, Holding
<1>8. clockFaults' \in 0 .. MaxClockFaults
  BY <1>1 DEF ClockInv, ClockTypeOK
<1> QED BY <1>1, <1>4, <1>6, <1>7, <1>8, SameProc, QuietStep

\* One interruption more is still within the bound.
LEMMA InterruptTyped ==
    ASSUME ClockInv, ClockFault PROVE clockFaults' \in 0 .. MaxClockFaults
BY ClockAssumption DEF ClockInv, ClockTypeOK, ClockFault

\* An opening whose backend cannot be confirmed gone forgets its permit and puts the process in quarantine.
LEMMA LeaseUncertainKeeps ==
    ASSUME ClockInv, NEW p \in Procs, LeaseUncertain(p)
    PROVE  ClockInv'
<1> DEFINE l == [Opened(p) EXCEPT !.permit = "forgotten", !.started = mono]
           s == [procs[p] EXCEPT !.quarantined = TRUE]
<1>1. /\ MayTick(p) /\ ClockFault /\ SetLease(p, l)
      /\ procs' = [procs EXCEPT ![p].quarantined = TRUE]
      /\ UNCHANGED <<mono, durable, requests, clockHistory>>
  BY DEF LeaseUncertain
<1>2. /\ Opened(p) \in LeaseState /\ Opened(p).phase = "idle"
      /\ Opened(p).backends = 1 /\ procs[p].up
  BY <1>1, OpenedLease
<1>3. mono \in Nat /\ procs \in [Procs -> Proc]
  BY Typed
<1>4. /\ l \in LeaseState /\ l.phase = "idle" /\ l.permit = "forgotten"
      /\ l.backends = 1 /\ l.started = mono
  BY <1>2, <1>3 DEF LeaseState
<1>5. /\ ProcFits(p, s) /\ s.quarantined /\ s.up = procs[p].up
      /\ procs' = [procs EXCEPT ![p] = s]
  BY <1>1, Quarantined
<1> HIDE DEF l, s
<1>6. leases'[p] = l /\ procs'[p] = s
  BY <1>1, <1>3, <1>4, <1>5, Typed, LeaseTo
<1>7. LeaseFits(p)'
  BY <1>1, <1>2, <1>3, <1>4, <1>5, <1>6 DEF LeaseFits
<1>8. LeaseMoves(p, l)
  BY <1>4 DEF LeaseMoves, Holding
<1> QED BY <1>1, <1>4, <1>5, <1>7, <1>8, InterruptTyped, QuietStep

\* A failed tick writes nothing and goes to its cleanup.
LEMMA TickFailKeeps ==
    ASSUME ClockInv, NEW p \in Procs, TickFail(p)
    PROVE  ClockInv'
<1> DEFINE l == [leases[p] EXCEPT !.phase = "failed"]
<1>1. /\ leases[p].phase = "open" /\ SetLease(p, l)
      /\ Remember(p, Seconds(p)) \/ UNCHANGED procs
      /\ UNCHANGED <<mono, durable, requests, clockHistory, clockFaults>>
  BY DEF TickFail
<1>2. /\ leases[p] \in LeaseState /\ procs \in [Procs -> Proc] /\ LeaseFits(p)
      /\ mono \in Nat
  BY Typed DEF ClockInv, LeasesFit
<1>3. /\ l \in LeaseState /\ l.phase = "failed" /\ l.permit = "held"
      /\ l.backends = 1 /\ l.started = leases[p].started
  BY <1>1, <1>2 DEF LeaseState, LeasePhases, LeaseFits
<1>4. procs[p].up /\ leases[p].started <= mono
  BY <1>1, <1>2 DEF LeaseFits, NoLease
<1> HIDE DEF l
<1>5. leases'[p] = l
  BY <1>1, <1>3, Typed, LeaseTo
<1>6. PICK s : /\ ProcFits(p, s) /\ s.up = procs[p].up
               /\ procs' = [procs EXCEPT ![p] = s]
  <2>1. Seconds(p) \in Nat
    BY <1>2, SecondsTyped DEF Seconds, LeaseState
  <2> QED BY <1>1, <2>1, Remembered, SameProc
<1>7. procs'[p].up
  BY <1>2, <1>4, <1>6
<1>8. LeaseFits(p)'
  BY <1>1, <1>3, <1>4, <1>5, <1>7 DEF LeaseFits
<1>9. LeaseMoves(p, l)
  BY <1>3 DEF LeaseMoves, Holding
<1>10. clockFaults' \in 0 .. MaxClockFaults
  BY <1>1 DEF ClockInv, ClockTypeOK
<1> QED BY <1>1, <1>3, <1>6, <1>8, <1>9, <1>10, QuietStep

-----------------------------------------------------------------------------
(* A tick.                                                                 *)

\* A tick that is computed under the row's lock is ahead of the row, and covers
\* every instant before it was started.
LEMMA PreparedAhead ==
    ASSUME ClockInv, NEW p \in Procs, TickSucceeds(p)
    PROVE  LET l == Prepared(p)
           IN  /\ l \in LeaseState
               /\ l.phase = "open" /\ l.permit = leases[p].permit
               /\ l.backends = leases[p].backends
               /\ l.started = leases[p].started
               /\ l.seconds >= observed
               /\ l.tick \in TickRecord
               /\ l.tick.clock.ms >= clock.ms
               /\ Covers(l.tick)
               /\ Seconds(p) \in Nat
<1> DEFINE c == NextClock(p)
           tick == Ticked(p)
           sec == Effective(procs[p], observed, Seconds(p))
<1>1. /\ leases[p] \in LeaseState /\ leases[p].wall \in Nat
      /\ leases[p].started \in Nat /\ procs[p].memory \in Nat
      /\ clock.ms \in Nat /\ clock.version \in Nat /\ observed \in Nat
      /\ leases[p].phase = "open" /\ mono \in Nat
  BY Typed DEF LeaseState, Proc, TickSucceeds
<1>2. Seconds(p) \in Nat
  BY <1>1, SecondsTyped DEF Seconds
<1>3. c \in Clock /\ c.ms >= clock.ms
  BY <1>1 DEF NextClock, Later, Clock
<1>4. tick \in TickRecord /\ tick.clock = c /\ tick.started = leases[p].started
  <2> HIDE DEF c
  <2> QED BY <1>1, <1>3 DEF Ticked, TickRecord, c
<1>5. sec \in Nat /\ sec >= observed
  BY <1>1, <1>2 DEF Effective, HighMark, Later
<1>6. Covers(tick)
  <2>1. leases[p].started <= mono
    BY DEF ClockInv, LeasesFit, LeaseFits
  <2>2. \A i \in 1 .. Limit : past[i] <= clock.ms /\ past[i] \in Nat
    BY DEF ClockInv, PastCovered, ClockTypeOK
  <2>3. c.ms \in Nat
    BY <1>3 DEF Clock
  <2> HIDE DEF c, tick
  <2> QED BY <1>1, <1>3, <1>4, <2>1, <2>2, <2>3 DEF Covers
<1>7. Prepared(p) = [leases[p] EXCEPT !.tick = tick, !.seconds = sec]
  BY DEF Prepared
<1> HIDE DEF c, tick, sec
<1>8. /\ Prepared(p) \in LeaseState
      /\ Prepared(p).phase = leases[p].phase
      /\ Prepared(p).permit = leases[p].permit
      /\ Prepared(p).backends = leases[p].backends
      /\ Prepared(p).started = leases[p].started
      /\ Prepared(p).tick = tick /\ Prepared(p).seconds = sec
  BY <1>1, <1>4, <1>5, <1>7 DEF LeaseState
<1> QED BY <1>1, <1>2, <1>3, <1>4, <1>5, <1>6, <1>8

\* A COMMIT that is not answered keeps the row.
LEMMA TickUnknownKeeps ==
    ASSUME ClockInv, NEW p \in Procs, TickUnknown(p)
    PROVE  ClockInv'
<1> DEFINE k == Prepared(p)
           l == [k EXCEPT !.phase = "unknown"]
<1>1. /\ TickSucceeds(p) /\ ClockFault /\ Remember(p, Seconds(p)) /\ SetLease(p, l)
      /\ leases[p].phase = "open"
      /\ UNCHANGED <<mono, durable, requests, clockHistory>>
  BY DEF TickUnknown, TickSucceeds
<1>2. /\ k \in LeaseState /\ k.permit = leases[p].permit
      /\ k.backends = leases[p].backends /\ k.started = leases[p].started
      /\ k.seconds >= observed /\ k.tick.clock.ms >= clock.ms
      /\ Covers(k.tick) /\ Seconds(p) \in Nat
  BY <1>1, PreparedAhead
<1> HIDE DEF k
<1>3. /\ l \in LeaseState /\ l.phase = "unknown" /\ l.permit = k.permit
      /\ l.backends = k.backends /\ l.started = k.started
      /\ l.seconds = k.seconds /\ l.tick = k.tick
  BY <1>2 DEF LeaseState, LeasePhases
<1>4. LeaseFits(p)
  BY DEF ClockInv, LeasesFit
<1>5. /\ leases[p].permit = "held" /\ leases[p].backends = 1
      /\ leases[p].started <= mono /\ procs[p].up
  BY <1>1, <1>4 DEF LeaseFits, NoLease
<1> HIDE DEF l
<1>6. PICK s : /\ ProcFits(p, s) /\ s.up = procs[p].up
               /\ procs' = [procs EXCEPT ![p] = s]
  BY <1>1, <1>2, Remembered
<1>7. leases'[p] = l /\ procs'[p] = s
  BY <1>1, <1>3, <1>6, Typed, LeaseTo
<1>8. LeaseFits(p)'
  BY <1>1, <1>2, <1>3, <1>5, <1>6, <1>7 DEF LeaseFits
<1>9. LeaseMoves(p, l)
  BY <1>1, <1>2, <1>3 DEF LeaseMoves, Holding
<1> QED BY <1>1, <1>3, <1>6, <1>8, <1>9, InterruptTyped, QuietStep

\* The backend is confirmed stopped: the slot is free, and nothing holds the row.
LEMMA FinishKeeps ==
    ASSUME ClockInv, NEW p \in Procs, FinishLease(p)
    PROVE  ClockInv'
<1> DEFINE n == leases[p].backends - 1
           ph == IF leases[p].phase = "committed" THEN "publishing" ELSE "idle"
           l == [leases[p] EXCEPT !.phase = ph, !.permit = "free",
                                  !.backends = n]
<1>1. /\ leases[p].phase \in Finished
      /\ UNCHANGED <<mono, durable, procs, requests, clockHistory, clockFaults>>
  BY DEF FinishLease
<1>2. /\ leases[p] \in LeaseState /\ LeaseFits(p) /\ mono \in Nat
  BY Typed DEF ClockInv, LeasesFit
<1>3. /\ leases[p].backends = 1 /\ leases[p].started <= mono /\ procs[p].up
  BY <1>1, <1>2 DEF LeaseFits, NoLease, Finished
<1>4. n = 0
  BY <1>3
<1>5. SetLease(p, l)
  <2> DEFINE a == [leases[p] EXCEPT !.phase = ph]
  <2>1. AfterFinish(p) = a
    BY DEF AfterFinish
  <2>2. a.backends = leases[p].backends
    BY <1>2 DEF LeaseState
  <2>3. SetLease(p, [AfterFinish(p) EXCEPT !.permit = "free",
                                     !.backends = AfterFinish(p).backends - 1])
    BY DEF FinishLease
  <2>4. [a EXCEPT !.permit = "free", !.backends = n] = l
    <3> HIDE DEF n, ph
    <3> QED BY <1>2 DEF LeaseState
  <2> QED BY <2>1, <2>2, <2>3, <2>4
<1>6. /\ l \in LeaseState /\ l.phase = ph /\ l.permit = "free" /\ l.backends = 0
      /\ l.started = leases[p].started /\ l.tick = leases[p].tick
      /\ ph \in {"idle", "publishing"}
  <2>1. ph \in {"idle", "publishing"}
    OBVIOUS
  <2> HIDE DEF n, ph
  <2> QED BY <1>2, <1>4, <2>1 DEF LeaseState, LeasePhases
<1> HIDE DEF l, n
<1>7. leases'[p] = l
  BY <1>5, <1>6, Typed, LeaseTo
<1>8. LeaseFits(p)'
  BY <1>1, <1>3, <1>6, <1>7 DEF LeaseFits
<1>9. LeaseMoves(p, l)
  BY <1>6 DEF LeaseMoves, Holding, ClockInv, ConfirmedCommitted
<1>10. clockFaults' \in 0 .. MaxClockFaults
  BY <1>1 DEF ClockInv, ClockTypeOK
<1> QED BY <1>1, <1>5, <1>6, <1>8, <1>9, <1>10, SameProc, QuietStep

\* The backend is not confirmed stopped: the slot is forgotten, the process is put
\* in quarantine, and an unanswered COMMIT keeps the row.
LEMMA FinishUncertainKeeps ==
    ASSUME ClockInv, NEW p \in Procs, FinishUncertain(p)
    PROVE  ClockInv'
<1> DEFINE ph == IF leases[p].phase = "unknown" THEN "lost" ELSE "idle"
           l == [leases[p] EXCEPT !.phase = ph, !.permit = "forgotten"]
           s == [procs[p] EXCEPT !.quarantined = TRUE]
<1>1. /\ leases[p].phase \in Finished /\ ClockFault
      /\ SetLease(p, l)
      /\ procs' = [procs EXCEPT ![p].quarantined = TRUE]
      /\ UNCHANGED <<mono, durable, requests, clockHistory>>
  BY DEF FinishUncertain, UnconfirmedPermit
<1>2. /\ leases[p] \in LeaseState /\ LeaseFits(p) /\ mono \in Nat
      /\ procs \in [Procs -> Proc]
  BY Typed DEF ClockInv, LeasesFit
<1>3. /\ leases[p].backends = 1 /\ leases[p].started <= mono /\ procs[p].up
  BY <1>1, <1>2 DEF LeaseFits, NoLease, Finished
<1>4. /\ l \in LeaseState /\ l.phase = ph /\ l.permit = "forgotten"
      /\ l.backends = 1 /\ l.started = leases[p].started
      /\ l.tick = leases[p].tick /\ l.seconds = leases[p].seconds
      /\ ph \in {"idle", "lost"}
      /\ ph = "lost" => leases[p].phase = "unknown"
  <2>1. /\ ph \in {"idle", "lost"}
        /\ ph = "lost" => leases[p].phase = "unknown"
    OBVIOUS
  <2> HIDE DEF ph
  <2> QED BY <1>2, <1>3, <2>1 DEF LeaseState, LeasePhases
<1>5. /\ ProcFits(p, s) /\ s.quarantined /\ s.up = procs[p].up
      /\ procs' = [procs EXCEPT ![p] = s]
  BY <1>1, Quarantined
<1> HIDE DEF l, s, ph
<1>6. leases'[p] = l /\ procs'[p] = s
  BY <1>1, <1>2, <1>4, <1>5, Typed, LeaseTo
<1>7. LeaseFits(p)'
  BY <1>1, <1>3, <1>4, <1>5, <1>6 DEF LeaseFits
<1>8. LeaseMoves(p, l)
  BY <1>4 DEF LeaseMoves, Holding, ClockInv, PendingAhead
<1> QED BY <1>1, <1>4, <1>5, <1>7, <1>8, InterruptTyped, QuietStep

\* What publish makes of the evidence: the tick is its last element, and the others
\* were there before.
LEMMA PublishTyped ==
    ASSUME ClockInv, NEW p \in Procs, NEW tick \in TickRecord
    PROVE  LET s == publish(procs[p], tick)
           IN  /\ s \in Proc /\ Len(s.published) <= Keep
               /\ s.progress = tick
               /\ s.up = procs[p].up /\ s.quarantined = procs[p].quarantined
               /\ s.gen = procs[p].gen
               /\ s.memory = procs[p].memory
               /\ \A i \in DOMAIN s.published :
                     \/ s.published[i] = tick
                     \/ \E j \in DOMAIN procs[p].published :
                           s.published[i] = procs[p].published[j]
<1> DEFINE old == procs[p].published
           kept == IF Len(old) = Keep THEN Tail(old) ELSE old
           new == Append(kept, tick)
<1>1. /\ procs[p] \in Proc /\ old \in Seq(TickRecord) /\ Len(old) <= Keep
      /\ Len(old) \in Nat
  BY Typed DEF Proc, ClockTypeOK
<1>2. Keep \in Nat /\ Keep > 0
  BY ClockAssumption
<1>3. /\ kept \in Seq(TickRecord) /\ Len(kept) < Keep
      /\ \A i \in 1 .. Len(kept) : \E j \in 1 .. Len(old) : kept[i] = old[j]
  <2>1. CASE Len(old) = Keep
    <3>1. kept = Tail(old) /\ old # <<>>
      BY <1>2, <2>1
    <3>2. kept \in Seq(TickRecord) /\ Len(kept) = Len(old) - 1
      <4> HIDE DEF kept, old
      <4> QED BY <1>1, <3>1, HeadTailProperties
    <3>3. \A i \in 1 .. Len(kept) : kept[i] = old[i + 1]
      <4> HIDE DEF kept, old
      <4> QED BY <1>1, <3>1, <3>2, HeadTailProperties
    <3>4. \A i \in 1 .. Len(kept) : i + 1 \in 1 .. Len(old)
      BY <1>1, <3>2
    <3> HIDE DEF kept, old
    <3> QED BY <1>1, <1>2, <3>2, <3>3, <3>4
  <2>2. CASE Len(old) # Keep
    BY <1>1, <1>2, <2>2
  <2> QED BY <2>1, <2>2
<1> HIDE DEF kept
<1>4. /\ new \in Seq(TickRecord) /\ Len(new) = Len(kept) + 1
      /\ \A i \in 1 .. Len(new) :
            new[i] = IF i <= Len(kept) THEN kept[i] ELSE tick
  BY <1>3
<1>5. Len(new) <= Keep
  BY <1>2, <1>3, <1>4
<1>6. \A i \in DOMAIN new :
         new[i] = tick \/ \E j \in DOMAIN old : new[i] = old[j]
  <2>1. DOMAIN new = 1 .. Len(new) /\ DOMAIN old = 1 .. Len(old)
    BY <1>1, <1>4
  <2>2. ASSUME NEW i \in 1 .. Len(new), i <= Len(kept)
        PROVE  \E j \in 1 .. Len(old) : new[i] = old[j]
    <3>1. i \in 1 .. Len(kept)
      BY <1>3, <2>2
    <3> HIDE DEF new, old
    <3> QED BY <1>3, <1>4, <2>2, <3>1
  <2> HIDE DEF new, old
  <2> QED BY <1>4, <2>1, <2>2
<1>7. publish(procs[p], tick)
         = [procs[p] EXCEPT !.published = new, !.progress = tick]
  BY DEF publish, kept
<1>8. LET s == [procs[p] EXCEPT !.published = new, !.progress = tick]
      IN  /\ s \in Proc /\ s.published = new /\ s.progress = tick
          /\ s.up = procs[p].up /\ s.quarantined = procs[p].quarantined
          /\ s.gen = procs[p].gen /\ s.memory = procs[p].memory
  <2> HIDE DEF new, old
  <2> QED BY <1>1, <1>4 DEF Proc
<1> HIDE DEF new, old
<1> QED BY <1>5, <1>6, <1>7, <1>8 DEF old

\* A tick is published after it took effect, and freshness counts from its start.
LEMMA PublishKeeps ==
    ASSUME ClockInv, NEW p \in Procs, Publish(p)
    PROVE  ClockInv'
<1> DEFINE tick == leases[p].tick
           l == [leases[p] EXCEPT !.phase = "idle"]
           q == publish(procs[p], tick)
           g == IF procs[p].gen = 0 THEN generation ELSE procs[p].gen
           m == Later(procs[p].memory, leases[p].seconds)
           s == [q EXCEPT !.since = tick.started, !.gen = g, !.memory = m]
<1>1. /\ leases[p].phase = "publishing" /\ SetLease(p, l)
      /\ UNCHANGED <<mono, durable, requests, clockHistory, clockFaults>>
  BY DEF Publish
<1>2. /\ leases[p] \in LeaseState /\ LeaseFits(p) /\ mono \in Nat
      /\ procs[p] \in Proc /\ tick \in TickRecord /\ leases[p].seconds \in Nat
      /\ generation \in Nat /\ tick.started \in Nat
      /\ procs \in [Procs -> Proc] /\ procs[p].gen \in Nat
      /\ procs[p].memory \in Nat
  BY Typed DEF ClockInv, LeasesFit, LeaseState, TickRecord, Proc
<1>3. /\ leases[p].permit = "free" /\ leases[p].backends = 0
      /\ leases[p].started <= mono /\ procs[p].up
  BY <1>1, <1>2 DEF LeaseFits, NoLease
<1>4. /\ l \in LeaseState /\ l.phase = "idle" /\ l.permit = "free"
      /\ l.backends = 0 /\ l.started = leases[p].started
  BY <1>2, <1>3 DEF LeaseState, LeasePhases
<1>5. tick \in committed
  BY <1>1 DEF ClockInv, ConfirmedCommitted
<1>6. /\ q \in Proc /\ Len(q.published) <= Keep /\ q.progress = tick
      /\ q.up = procs[p].up /\ q.quarantined = procs[p].quarantined
      /\ q.gen = procs[p].gen /\ q.memory = procs[p].memory
      /\ \A i \in DOMAIN q.published :
            \/ q.published[i] = tick
            \/ \E j \in DOMAIN procs[p].published :
                  q.published[i] = procs[p].published[j]
  BY <1>2, PublishTyped
<1>7. g \in Nat /\ g <= generation /\ (procs[p].gen # 0 => g = procs[p].gen)
  BY <1>2 DEF ClockInv, ProgressCommitted
<1>8. m \in Nat
  BY <1>2 DEF Later
<1>9. procs' = procs \/ procs' = [procs EXCEPT ![p] = s]
  <2>1. CASE validate_progress(procs[p], tick)
    <3>1. procs' = [procs EXCEPT
             ![p] = [q EXCEPT !.since = tick.started,
                              !.gen = IF q.gen = 0 THEN generation ELSE q.gen,
                              !.memory = Later(q.memory, leases[p].seconds)]]
      BY <2>1 DEF Publish
    <3> HIDE DEF q
    <3> QED BY <1>6, <3>1
  <2>2. CASE ~ validate_progress(procs[p], tick)
    BY <2>2 DEF Publish
  <2> QED BY <2>1, <2>2
<1> HIDE DEF q, g, m, l, tick
<1>10. /\ s \in Proc /\ s.published = q.published /\ s.progress = tick
       /\ s.up = procs[p].up /\ s.quarantined = procs[p].quarantined
       /\ s.gen = g /\ s.since = tick.started
  BY <1>2, <1>6, <1>7, <1>8 DEF Proc
<1> HIDE DEF s
<1>11. ProcFits(p, s)
  <2>1. \A i \in DOMAIN s.published : s.published[i] \in committed
    BY <1>5, <1>6, <1>10 DEF ClockInv, PublishedCommitted
  <2> QED BY <1>5, <1>6, <1>7, <1>10, <2>1 DEF ProcFits
<1>12. PICK r : /\ ProcFits(p, r) /\ r.up
                /\ procs' = [procs EXCEPT ![p] = r]
  BY <1>3, <1>9, <1>10, <1>11, SameProc
<1>13. leases'[p] = l /\ procs'[p] = r
  BY <1>1, <1>2, <1>4, <1>12, Typed, LeaseTo
<1>14. LeaseFits(p)'
  BY <1>1, <1>3, <1>4, <1>12, <1>13 DEF LeaseFits
<1>15. LeaseMoves(p, l)
  BY <1>4 DEF LeaseMoves, Holding
<1>16. clockFaults' \in 0 .. MaxClockFaults
  BY <1>1 DEF ClockInv, ClockTypeOK
<1> QED BY <1>1, <1>4, <1>12, <1>14, <1>15, <1>16, QuietStep

-----------------------------------------------------------------------------
(* A COMMIT takes effect.                                                  *)

\* The transaction of p's lease takes effect: whoever holds the row holds it alone,
\* and what it writes is ahead of the row.
LEMMA ApplyStep ==
    ASSUME ClockInv, NEW p \in Procs, NEW k \in LeaseState, NEW l \in LeaseState, NEW s,
           Apply(k), SetLease(p, l), ProcFits(p, s), procs' = [procs EXCEPT ![p] = s],
           leases[p].phase \in Holding, l.phase \notin Holding,
           l.phase \in {"committed", "publishing"} => l.tick = k.tick,
           k.tick.clock.ms >= clock.ms, k.seconds >= observed, Covers(k.tick),
           generation' \in {generation, generation + 1},
           LeaseFits(p)',
           UNCHANGED <<mono, requests, clockFaults>>
    PROVE  ClockInv'
<1> USE ClockAssumption
<1>t. /\ ClockTypeOK /\ leases \in [Procs -> LeaseState] /\ procs \in [Procs -> Proc]
      /\ mono \in Nat /\ observed \in Nat /\ generation \in Nat
      /\ written \in Nat /\ clock.ms \in Nat
      /\ k.tick \in TickRecord /\ k.seconds \in Nat
      /\ k.tick.clock \in Clock /\ k.tick.clock.ms \in Nat
  BY Typed DEF LeaseState, TickRecord, Clock
<1>u. /\ mono' = mono /\ requests' = requests /\ past' = past
      /\ written' = written /\ clockFaults' = clockFaults
      /\ clock' = k.tick.clock /\ observed' = k.seconds
      /\ committed' = committed \cup {k.tick}
  BY DEF Apply
<1>1. /\ leases' \in [Procs -> LeaseState] /\ leases'[p] = l
      /\ \A q \in Procs : q # p => leases'[q] = leases[q]
  BY <1>t, LeaseTo
<1>2. \A q \in Procs : procs'[q] = IF q = p THEN s ELSE procs[q]
  BY <1>t
<1>3. \A q \in Procs : leases'[q].phase \notin Holding
  BY <1>1 DEF ClockInv, RowHeldOnce
<1>4. ClockTypeOK'
  <2>1. procs' \in [Procs -> Proc]
    BY <1>t DEF ProcFits
  <2>2. \A q \in Procs : Len(procs'[q].published) <= Keep
    BY <1>2, <1>t DEF ProcFits, ClockTypeOK
  <2>3. {mono', observed', generation', written'} \subseteq Nat
    BY <1>t, <1>u
  <2> QED BY <1>1, <1>t, <1>u, <2>1, <2>2, <2>3 DEF ClockTypeOK
<1>5. LeasesFit'
  <2>1. ASSUME NEW q \in Procs, q # p PROVE LeaseFits(q)'
    <3>1. LeaseFits(q) /\ leases[q].started \in Nat
      BY <1>t DEF ClockInv, LeasesFit, LeaseState
    <3>2. leases'[q] = leases[q] /\ procs'[q] = procs[q]
      BY <1>1, <1>2, <2>1
    <3> QED BY <1>t, <1>u, <3>1, <3>2, FitKept
  <2> QED BY <2>1 DEF LeasesFit
<1>6. RowHeldOnce' /\ PendingAhead'
  BY <1>3 DEF RowHeldOnce, PendingAhead, Holding
<1>7. ConfirmedCommitted'
  BY <1>1, <1>u DEF ClockInv, ConfirmedCommitted
<1>8. ProgressCommitted'
  <2>1. \A q \in Procs : procs'[q].gen \in Nat /\ procs'[q].gen <= generation
    BY <1>2, <1>t DEF ProcFits, ClockInv, ProgressCommitted, Proc
  <2>2. \A q \in Procs : procs'[q].gen <= generation'
    BY <1>t, <2>1
  <2> QED BY <1>2, <1>u, <2>2 DEF ProcFits, ClockInv, ProgressCommitted
<1>9. PublishedCommitted'
  BY <1>2, <1>u DEF ProcFits, ClockInv, PublishedCommitted
<1>10. PastCovered'
  <2>1. \A i \in 1 .. Limit : past[i] \in Nat /\ past[i] <= clock.ms
    BY <1>t DEF ClockTypeOK, ClockInv, PastCovered
  <2>2. \A i \in 1 .. Limit : past[i] <= k.tick.clock.ms
    BY <1>t, <2>1
  <2> QED BY <1>u, <2>2 DEF ClockInv, PastCovered, Covers
<1>11. ReadsBehind'
  <2>1. \A q \in Procs : procs[q].gen # 0 => procs'[q].gen = procs[q].gen
    BY <1>2 DEF ProcFits
  <2>2. \A r \in Readers : ProcOf[r] \in Procs
    OBVIOUS
  <2>3. generation' >= 1
    BY <1>t DEF ClockInv, ReadsBehind
  <2>4. ASSUME NEW r \in Readers, requests[r].active,
               procs'[ProcOf[r]].gen = generation'
        PROVE  requests[r].observed <= observed'
    <3>1. /\ procs[ProcOf[r]].gen = generation'
          /\ procs[ProcOf[r]].gen <= generation
          /\ requests[r].observed \in Nat
      BY <1>t, <2>1, <2>2, <2>4, Typed
         DEF ClockInv, ReadsBehind, ProgressCommitted, Request
    <3>2. procs[ProcOf[r]].gen = generation
      BY <1>t, <3>1
    <3>3. requests[r].observed <= observed
      BY <2>4, <3>2 DEF ClockInv, ReadsBehind
    <3> QED BY <1>t, <1>u, <3>1, <3>3
  <2>5. \A r \in Readers : requests[r].active => procs'[ProcOf[r]].gen # 0
    BY <2>1, <2>2 DEF ClockInv, ReadsBehind
  <2> QED BY <1>u, <2>3, <2>4, <2>5 DEF ReadsBehind
<1>12. WritesCovered'
  BY <1>t, <1>u DEF ClockInv, WritesCovered
<1> QED BY <1>4, <1>5, <1>6, <1>7, <1>8, <1>9, <1>10, <1>11, <1>12
        DEF ClockInv

\* A tick that is confirmed.
LEMMA TickCommitKeeps ==
    ASSUME ClockInv, NEW p \in Procs, NEW rotate \in BOOLEAN,
           TickCommit(p, rotate)
    PROVE  ClockInv'
<1> DEFINE k == Prepared(p)
           l == [k EXCEPT !.phase = "committed"]
<1>1. /\ TickSucceeds(p) /\ Apply(k) /\ Remember(p, Seconds(p)) /\ SetLease(p, l)
      /\ leases[p].phase = "open"
      /\ generation' \in {generation, generation + 1}
      /\ UNCHANGED <<mono, requests, clockFaults>>
  BY DEF TickCommit, TickSucceeds
<1>2. /\ k \in LeaseState /\ k.permit = leases[p].permit
      /\ k.backends = leases[p].backends /\ k.started = leases[p].started
      /\ k.seconds >= observed /\ k.tick.clock.ms >= clock.ms
      /\ Covers(k.tick) /\ Seconds(p) \in Nat
  BY <1>1, PreparedAhead
<1> HIDE DEF k
<1>3. /\ l \in LeaseState /\ l.phase = "committed" /\ l.permit = k.permit
      /\ l.backends = k.backends /\ l.started = k.started
      /\ l.tick = k.tick
  BY <1>2 DEF LeaseState, LeasePhases
<1>4. /\ LeaseFits(p) /\ procs \in [Procs -> Proc]
  BY Typed DEF ClockInv, LeasesFit
<1>5. /\ leases[p].permit = "held" /\ leases[p].backends = 1
      /\ leases[p].started <= mono /\ procs[p].up
  BY <1>1, <1>4 DEF LeaseFits, NoLease
<1> HIDE DEF l
<1>6. PICK s : /\ ProcFits(p, s) /\ s.up = procs[p].up
               /\ procs' = [procs EXCEPT ![p] = s]
  BY <1>1, <1>2, Remembered
<1>7. leases'[p] = l /\ procs'[p] = s
  BY <1>1, <1>3, <1>4, <1>6, Typed, LeaseTo
<1>8. LeaseFits(p)'
  BY <1>1, <1>2, <1>3, <1>5, <1>6, <1>7 DEF LeaseFits
<1>9. leases[p].phase \in Holding /\ l.phase \notin Holding
  BY <1>1, <1>3 DEF Holding
<1> QED BY <1>1, <1>2, <1>3, <1>6, <1>8, <1>9, ApplyStep

\* A COMMIT that takes effect although nobody was told.
LEMMA LateCommitKeeps ==
    ASSUME ClockInv, NEW p \in Procs, LateCommit(p)
    PROVE  ClockInv'
<1> DEFINE ph == IF leases[p].phase = "lost" THEN "idle" ELSE "failed"
           l == [leases[p] EXCEPT !.phase = ph]
<1>1. /\ leases[p].phase \in {"unknown", "lost"} /\ Apply(leases[p]) /\ SetLease(p, l)
      /\ UNCHANGED <<mono, generation, procs, requests, clockFaults>>
  BY DEF LateCommit
<1>2. /\ leases[p] \in LeaseState /\ LeaseFits(p)
  BY Typed DEF ClockInv, LeasesFit
<1>3. /\ l \in LeaseState /\ l.phase = ph /\ l.permit = leases[p].permit
      /\ l.backends = leases[p].backends /\ l.started = leases[p].started
      /\ ph \in {"idle", "failed"}
      /\ ph = "idle" => leases[p].phase = "lost"
      /\ ph = "failed" => leases[p].phase = "unknown"
  <2>1. /\ ph \in {"idle", "failed"}
        /\ ph = "idle" => leases[p].phase = "lost"
        /\ ph = "failed" => leases[p].phase = "unknown"
    BY <1>1
  <2> HIDE DEF ph
  <2> QED BY <1>2, <2>1 DEF LeaseState, LeasePhases
<1> HIDE DEF l, ph
<1>4. leases'[p] = l
  BY <1>1, <1>3, Typed, LeaseTo
<1>5. procs[p].up
  BY <1>1, <1>2 DEF LeaseFits, NoLease
<1>6. LeaseFits(p)'
  BY <1>1, <1>2, <1>3, <1>4, <1>5 DEF LeaseFits
<1>7. /\ leases[p].seconds >= observed
      /\ leases[p].tick.clock.ms >= clock.ms
      /\ Covers(leases[p].tick)
  BY <1>1 DEF ClockInv, PendingAhead
<1>8. leases[p].phase \in Holding /\ l.phase \notin Holding
      /\ l.phase \notin {"committed", "publishing"}
  BY <1>1, <1>3 DEF Holding
<1> QED BY <1>1, <1>2, <1>3, <1>6, <1>7, <1>8, SameProc, ApplyStep

-----------------------------------------------------------------------------
(* Requests.                                                               *)

\* Steps that leave the leases, the clock and the ticks alone.
LEMMA LeasesKept ==
    ASSUME ClockInv,
           UNCHANGED <<mono, clock, leases, past, committed>>,
           \A q \in Procs :
              /\ procs'[q].quarantined = procs[q].quarantined
              /\ procs'[q].up = procs[q].up
              /\ procs[q] = Down => procs'[q] = procs[q],
           \/ UNCHANGED observed
           \/ RowFree
    PROVE  /\ LeasesFit' /\ RowHeldOnce' /\ PendingAhead'
           /\ ConfirmedCommitted' /\ PastCovered'
<1>1. LeasesFit'
  BY DEF ClockInv, LeasesFit, LeaseFits
<1>2. RowHeldOnce'
  BY DEF ClockInv, RowHeldOnce
<1>3. PendingAhead'
  <2>1. CASE UNCHANGED observed
    BY <2>1 DEF ClockInv, PendingAhead, Covers
  <2>2. CASE RowFree
    BY <2>2 DEF RowFree, PendingAhead
  <2> QED BY <2>1, <2>2
<1>4. ConfirmedCommitted'
  BY DEF ClockInv, ConfirmedCommitted
<1>5. PastCovered'
  BY DEF ClockInv, PastCovered, Covers
<1> QED BY <1>1, <1>2, <1>3, <1>4, <1>5

\* A request that begins reads the row as it is.
LEMMA RequestBeginKeeps ==
    ASSUME ClockInv, NEW r \in Readers, NEW wall \in Walls, RequestBegin(r, wall)
    PROVE  ClockInv'
<1> DEFINE p == ProcOf[r]
           sec == wall \div Second
           eff == Effective(procs[p], observed, sec)
           q == [active |-> TRUE, clock |-> clock, observed |-> observed,
                 effective |-> eff]
<1>t. /\ ClockTypeOK /\ procs \in [Procs -> Proc] /\ observed \in Nat
      /\ requests \in [Readers -> Request] /\ clock \in Clock
      /\ generation \in Nat
  BY Typed
<1>1. /\ procs[p].up /\ procs[p].gen = generation
      /\ UNCHANGED <<mono, durable, leases, clockHistory, clockFaults>>
  BY DEF RequestBegin
<1>2. p \in Procs /\ sec \in Nat
  BY ClockAssumption, SecondsTyped
<1>3. eff \in Nat
  <2>1. procs[p].memory \in Nat
    BY <1>2, <1>t DEF Proc
  <2> HIDE DEF p, sec
  <2> QED BY <1>2, <1>t, <2>1 DEF Effective, HighMark, Later
<1>4. q \in Request /\ q.observed = observed
  <2> HIDE DEF eff
  <2> QED BY <1>3, <1>t DEF Request
<1>5. \/ Remember(p, eff) /\ requests' = [requests EXCEPT ![r] = q]
      \/ Remember(p, sec) /\ requests' = requests
  BY DEF RequestBegin
<1> HIDE DEF p, sec, eff, q
<1>6. PICK s : /\ ProcFits(p, s) /\ s.up = procs[p].up
               /\ s.gen = procs[p].gen /\ s.quarantined = procs[p].quarantined
               /\ procs' = [procs EXCEPT ![p] = s]
  BY <1>2, <1>3, <1>5, Remembered
<1>7. \A v \in Procs : procs'[v] = IF v = p THEN s ELSE procs[v]
  BY <1>6, <1>t
<1>8. ClockTypeOK'
  <2>1. procs' \in [Procs -> Proc]
    BY <1>6, <1>t DEF ProcFits
  <2>2. \A v \in Procs : Len(procs'[v].published) <= Keep
    BY <1>6, <1>7, <1>t DEF ProcFits, ClockTypeOK
  <2>3. requests' \in [Readers -> Request]
    BY <1>4, <1>5, <1>t
  <2> QED BY <1>1, <1>t, <2>1, <2>2, <2>3 DEF ClockTypeOK, durable, clockHistory
<1>9. /\ LeasesFit' /\ RowHeldOnce' /\ PendingAhead'
      /\ ConfirmedCommitted' /\ PastCovered'
  <2>1. p \in Procs /\ ~ (procs[p] = Down)
    BY <1>1, <1>2 DEF Down, p
  <2>2. \A v \in Procs :
           /\ procs'[v].quarantined = procs[v].quarantined
           /\ procs'[v].up = procs[v].up
           /\ procs[v] = Down => procs'[v] = procs[v]
    BY <1>6, <1>7, <2>1
  <2>3. UNCHANGED <<mono, clock, leases, past, committed>> /\ observed' = observed
    BY <1>1 DEF durable, clockHistory
  <2> QED BY <2>2, <2>3, LeasesKept
<1>10. ProgressCommitted' /\ PublishedCommitted'
  BY <1>1, <1>6, <1>7
     DEF ProcFits, ClockInv, ProgressCommitted, PublishedCommitted, durable,
         clockHistory
<1>11. ReadsBehind'
  <2>1. \A v \in Procs : procs'[v].gen = procs[v].gen
    BY <1>6, <1>7
  <2>2. \A u \in Readers : ProcOf[u] \in Procs
    BY ClockAssumption
  <2>3. generation' = generation /\ observed' = observed
    BY <1>1 DEF durable
  <2>4. ASSUME NEW u \in Readers, requests'[u].active
        PROVE  /\ procs[ProcOf[u]].gen # 0
               /\ procs[ProcOf[u]].gen = generation =>
                     requests'[u].observed <= observed
    <3>1. CASE requests'[u] = requests[u]
      BY <2>4, <3>1 DEF ClockInv, ReadsBehind
    <3>2. CASE u = r /\ requests'[u] = q
      <4>1. procs[ProcOf[u]].gen = generation /\ generation >= 1
        BY <1>1, <3>2 DEF ClockInv, ReadsBehind, p
      <4> QED BY <1>4, <1>t, <3>2, <4>1
    <3>3. requests'[u] = requests[u] \/ (u = r /\ requests'[u] = q)
      BY <1>5, <1>t
    <3> QED BY <3>1, <3>2, <3>3
  <2>5. generation >= 1
    BY DEF ClockInv, ReadsBehind
  <2> QED BY <2>1, <2>2, <2>3, <2>4, <2>5 DEF ReadsBehind
<1>12. WritesCovered'
  BY <1>1 DEF ClockInv, WritesCovered, durable, clockHistory
<1> QED BY <1>8, <1>9, <1>10, <1>11, <1>12 DEF ClockInv

\* A request that ends is forgotten.
LEMMA EndedRequests ==
    ASSUME ClockInv, NEW r \in Readers,
           requests' = [requests EXCEPT ![r] = NoRequest]
    PROVE  /\ requests' \in [Readers -> Request]
           /\ \A u \in Readers :
                 \/ requests'[u] = requests[u]
                 \/ ~ requests'[u].active
<1>1. NoRequest \in Request /\ ~ NoRequest.active
  BY DEF NoRequest, Request, NoTick, Clock
<1> QED BY <1>1, Typed

\* A request that ends holds no mark any more.
LEMMA RequestEndKeeps ==
    ASSUME ClockInv, NEW r \in Readers, RequestEnd(r)
    PROVE  ClockInv'
<1>1. /\ requests' = [requests EXCEPT ![r] = NoRequest]
      /\ UNCHANGED <<mono, durable, procs, leases, clockHistory, clockFaults>>
  BY DEF RequestEnd
<1>2. /\ requests' \in [Readers -> Request]
      /\ \A u \in Readers : requests'[u] = requests[u] \/ ~ requests'[u].active
  BY <1>1, EndedRequests
<1>3. ClockTypeOK'
  BY <1>1, <1>2, Typed DEF ClockTypeOK, durable, clockHistory
<1>4. /\ LeasesFit' /\ RowHeldOnce' /\ PendingAhead'
      /\ ConfirmedCommitted' /\ PastCovered'
  BY <1>1, LeasesKept DEF durable, clockHistory
<1>5. ProgressCommitted' /\ PublishedCommitted' /\ WritesCovered'
  BY <1>1 DEF ClockInv, ProgressCommitted, PublishedCommitted, WritesCovered,
              durable, clockHistory
<1>6. ReadsBehind'
  BY <1>1, <1>2 DEF ClockInv, ReadsBehind, durable
<1> QED BY <1>3, <1>4, <1>5, <1>6 DEF ClockInv

\* A write that commits: the mark it has read is not ahead of the row's, and it
\* moves the mark, to where nobody else has, if it would run too far ahead of it.
LEMMA RequestCommitKeeps ==
    ASSUME ClockInv, NEW r \in Readers, RequestCommit(r)
    PROVE  ClockInv'
<1> DEFINE q == requests[r]
<1>t. /\ ClockTypeOK /\ observed \in Nat /\ written \in Nat
      /\ q \in Request /\ q.observed \in Nat /\ q.effective \in Nat
      /\ Lag \in Nat
  BY Typed, ClockAssumption DEF Request
<1>1. /\ q.active /\ procs[ProcOf[r]].gen = generation
      /\ Behind(r) => RowFree /\ observed = q.observed
      /\ observed' = IF Behind(r) THEN q.effective ELSE observed
      /\ written' = Later(written, q.effective)
      /\ requests' = [requests EXCEPT ![r] = NoRequest]
      /\ UNCHANGED <<mono, clock, generation, procs, leases, past, committed,
                     clockFaults>>
  BY DEF RequestCommit
<1>2. /\ requests' \in [Readers -> Request]
      /\ \A u \in Readers : requests'[u] = requests[u] \/ ~ requests'[u].active
  BY <1>1, EndedRequests
<1>3. q.observed <= observed
  BY <1>1 DEF ClockInv, ReadsBehind
<1>4. Behind(r) <=> q.effective - q.observed > Lag
  BY DEF Behind
<1> HIDE DEF q
<1>5. observed' \in Nat /\ observed <= observed' /\ written' \in Nat
  BY <1>1, <1>3, <1>4, <1>t DEF Later
<1>6. WritesCovered'
  <2>1. written - observed <= Lag
    BY DEF ClockInv, WritesCovered
  <2>2. CASE Behind(r)
    BY <1>1, <1>4, <1>t, <2>1, <2>2 DEF WritesCovered, Later
  <2>3. CASE ~ Behind(r)
    BY <1>1, <1>3, <1>4, <1>t, <2>1, <2>3 DEF WritesCovered, Later
  <2> QED BY <2>2, <2>3
<1>7. ClockTypeOK'
  BY <1>1, <1>2, <1>5, <1>t DEF ClockTypeOK
<1>8. /\ LeasesFit' /\ RowHeldOnce' /\ PendingAhead'
      /\ ConfirmedCommitted' /\ PastCovered'
  BY <1>1, LeasesKept
<1>9. ProgressCommitted' /\ PublishedCommitted'
  BY <1>1 DEF ClockInv, ProgressCommitted, PublishedCommitted
<1>10. ReadsBehind'
  <2>1. ASSUME NEW u \in Readers, requests'[u].active
        PROVE  /\ procs[ProcOf[u]].gen # 0
               /\ procs[ProcOf[u]].gen = generation =>
                     requests'[u].observed <= observed'
    <3>1. requests'[u] = requests[u] /\ requests[u].observed \in Nat
      BY <1>2, <2>1, Typed DEF Request
    <3>2. /\ procs[ProcOf[u]].gen # 0
          /\ procs[ProcOf[u]].gen = generation =>
                requests[u].observed <= observed
      BY <2>1, <3>1 DEF ClockInv, ReadsBehind
    <3> QED BY <1>5, <1>t, <3>1, <3>2
  <2> QED BY <1>1, <2>1 DEF ClockInv, ReadsBehind
<1> QED BY <1>6, <1>7, <1>8, <1>9, <1>10 DEF ClockInv

-----------------------------------------------------------------------------
(* Processes, operators and time.                                          *)

\* A process that starts, or has exited, has no evidence and no backend.
LEMMA DownTyped ==
    /\ Down \in Proc /\ Down.published = <<>> /\ Len(Down.published) = 0
    /\ Down.gen = 0 /\ Down.since = 0 /\ Down.progress.started = 0
    /\ NoLease \in LeaseState /\ NoLease.phase = "idle"
    /\ NoLease.permit = "free" /\ NoLease.backends = 0 /\ NoLease.started = 0
<1>1. NoTick \in TickRecord /\ NoTick.started = 0
  BY DEF NoTick, TickRecord, Clock
<1>2. <<>> \in Seq(TickRecord) /\ Len(<<>>) = 0
  OBVIOUS
<1>3. /\ Down \in Proc /\ Down.published = <<>>
      /\ Down.gen = 0 /\ Down.since = 0 /\ Down.progress = NoTick
  <2> HIDE DEF NoTick
  <2> QED BY <1>1, <1>2 DEF Down, Proc
<1>4. /\ NoLease \in LeaseState /\ NoLease.phase = "idle"
      /\ NoLease.permit = "free" /\ NoLease.backends = 0 /\ NoLease.started = 0
  <2> HIDE DEF NoTick
  <2> QED BY <1>1 DEF NoLease, LeaseState, LeasePhases
<1> QED BY <1>1, <1>2, <1>3, <1>4

\* A process begins or ends, with a new memory and, when it ends, without requests.
LEMMA ProcessReset ==
    ASSUME ClockInv, NEW p \in Procs, NEW s \in Proc,
           s.published = <<>>, s.gen = 0, s.since = 0, s.progress.started = 0,
           procs' = [procs EXCEPT ![p] = s],
           leases' = [leases EXCEPT ![p] = NoLease],
           s.up \/ s = Down,
           requests' \in [Readers -> Request],
           \A r \in Readers : requests'[r].active =>
              requests'[r] = requests[r] /\ ProcOf[r] # p,
           UNCHANGED <<mono, durable, clockHistory>>,
           clockFaults' \in 0 .. MaxClockFaults
    PROVE  ClockInv'
<1> USE ClockAssumption
<1>t. /\ ClockTypeOK /\ leases \in [Procs -> LeaseState] /\ procs \in [Procs -> Proc]
      /\ mono \in Nat /\ generation \in Nat
  BY Typed
<1>u. /\ mono' = mono /\ clock' = clock /\ observed' = observed
      /\ generation' = generation /\ past' = past
      /\ committed' = committed /\ written' = written
  BY DEF durable, clockHistory
<1>1. \A q \in Procs :
         /\ procs'[q] = IF q = p THEN s ELSE procs[q]
         /\ leases'[q] = IF q = p THEN NoLease ELSE leases[q]
  BY <1>t
<1>2. ClockTypeOK'
  <2>1. procs' \in [Procs -> Proc] /\ leases' \in [Procs -> LeaseState]
    BY <1>t, DownTyped
  <2>2. Len(s.published) <= Keep
    BY DownTyped
  <2>3. \A q \in Procs : Len(procs'[q].published) <= Keep
    BY <1>1, <1>t, <2>2 DEF ClockTypeOK
  <2> QED BY <1>t, <1>u, <2>1, <2>3 DEF ClockTypeOK
<1>3. LeasesFit'
  <2>1. LeaseFits(p)'
    <3>1. leases'[p] = NoLease /\ procs'[p] = s
      BY <1>1
    <3> QED BY <1>t, <1>u, <3>1, DownTyped DEF LeaseFits
  <2>2. ASSUME NEW q \in Procs, q # p PROVE LeaseFits(q)'
    <3>1. LeaseFits(q) /\ leases[q].started \in Nat
      BY <1>t DEF ClockInv, LeasesFit, LeaseState
    <3>2. leases'[q] = leases[q] /\ procs'[q] = procs[q]
      BY <1>1, <2>2
    <3> QED BY <1>t, <1>u, <3>1, <3>2, FitKept
  <2> QED BY <2>1, <2>2 DEF LeasesFit
<1>4. RowHeldOnce'
  BY <1>1, DownTyped DEF ClockInv, RowHeldOnce, Holding
<1>5. PendingAhead'
  BY <1>1, <1>u, DownTyped DEF ClockInv, PendingAhead, Covers
<1>6. ConfirmedCommitted'
  BY <1>1, <1>u, DownTyped DEF ClockInv, ConfirmedCommitted
<1>7. ProgressCommitted'
  BY <1>1, <1>t, <1>u DEF ClockInv, ProgressCommitted
<1>8. PublishedCommitted'
  <2>1. DOMAIN s.published = {}
    OBVIOUS
  <2> QED BY <1>1, <1>u, <2>1 DEF ClockInv, PublishedCommitted
<1>9. PastCovered'
  BY <1>u DEF ClockInv, PastCovered, Covers
<1>10. ReadsBehind'
  <2>1. \A r \in Readers : ProcOf[r] \in Procs
    OBVIOUS
  <2> QED BY <1>1, <1>u, <2>1 DEF ClockInv, ReadsBehind
<1>11. WritesCovered'
  BY <1>u DEF ClockInv, WritesCovered
<1> QED BY <1>2, <1>3, <1>4, <1>5, <1>6, <1>7, <1>8, <1>9, <1>10, <1>11
        DEF ClockInv

\* A process starts with nothing.
LEMMA StartKeeps ==
    ASSUME ClockInv, NEW p \in Procs, Start(p)
    PROVE  ClockInv'
<1> DEFINE s == [Down EXCEPT !.up = TRUE]
<1>1. /\ ~ procs[p].up /\ procs' = [procs EXCEPT ![p] = s]
      /\ UNCHANGED <<mono, durable, leases, requests, clockHistory, clockFaults>>
  BY DEF Start
<1>2. leases[p] = NoLease /\ procs[p] = Down
  BY <1>1 DEF ClockInv, LeasesFit, LeaseFits
<1>3. /\ s \in Proc /\ s.published = <<>> /\ s.gen = 0 /\ s.since = 0
      /\ s.progress.started = 0 /\ s.up
  <2> HIDE DEF Down
  <2> QED BY DownTyped DEF Proc
<1>4. leases' = [leases EXCEPT ![p] = NoLease]
  BY <1>1, <1>2, Typed
<1>5. \A r \in Readers : requests'[r].active =>
         requests'[r] = requests[r] /\ ProcOf[r] # p
  BY <1>1, <1>2, DownTyped DEF ClockInv, ReadsBehind
<1>6. requests' \in [Readers -> Request]
      /\ clockFaults' \in 0 .. MaxClockFaults
  BY <1>1, Typed DEF ClockTypeOK
<1> HIDE DEF s
<1> QED BY <1>1, <1>3, <1>4, <1>5, <1>6, ProcessReset

\* A process that ends leaves no lease and no progress.
LEMMA ExitKeeps ==
    ASSUME ClockInv, NEW p \in Procs, Exit(p)
    PROVE  ClockInv'
<1>1. /\ ClockFault /\ procs' = [procs EXCEPT ![p] = Down]
      /\ leases' = [leases EXCEPT ![p] = NoLease]
      /\ requests' = [r \in Readers |->
                        IF ProcOf[r] = p THEN NoRequest ELSE requests[r]]
      /\ UNCHANGED <<mono, durable, clockHistory>>
  BY DEF Exit, SetLease
<1>2. NoRequest \in Request /\ ~ NoRequest.active
  BY DEF NoRequest, Request, NoTick, Clock
<1>3. requests' \in [Readers -> Request]
  BY <1>1, <1>2, Typed
<1>4. \A r \in Readers : requests'[r].active =>
         requests'[r] = requests[r] /\ ProcOf[r] # p
  BY <1>1, <1>2
<1>5. clockFaults' \in 0 .. MaxClockFaults
  BY <1>1, InterruptTyped
<1> QED BY <1>1, <1>3, <1>4, <1>5, DownTyped, ProcessReset

\* Recovery moves the mark with the row free, and retires every reader of it.
LEMMA RecoverClockKeeps ==
    ASSUME ClockInv, NEW wall \in Walls, RecoverDeployment(wall)
    PROVE  ClockInv'
<1> DEFINE sec == wall \div Second
<1>1. /\ RowFree /\ generation' = generation + 1 /\ observed' = sec
      /\ written' = 0
      /\ UNCHANGED <<mono, clock, procs, leases, requests, past, committed,
                     clockFaults>>
  BY DEF RecoverDeployment
<1>2. sec \in Nat
  BY SecondsTyped, ClockAssumption
<1> HIDE DEF sec
<1>3. generation \in Nat /\ generation' \in Nat /\ ClockTypeOK
  BY <1>1, Typed
<1>4. ClockTypeOK'
  BY <1>1, <1>2, <1>3 DEF ClockTypeOK
<1>5. /\ LeasesFit' /\ RowHeldOnce' /\ PendingAhead'
      /\ ConfirmedCommitted' /\ PastCovered'
  BY <1>1, LeasesKept
<1>6. \A p \in Procs : procs[p].gen \in Nat /\ procs[p].gen <= generation
  BY Typed DEF Proc, ClockInv, ProgressCommitted
<1>7. \A p \in Procs : procs[p].gen <= generation' /\ procs[p].gen # generation'
  BY <1>1, <1>3, <1>6
<1>8. ProgressCommitted' /\ PublishedCommitted'
  BY <1>1, <1>7 DEF ClockInv, ProgressCommitted, PublishedCommitted
<1>9. ReadsBehind'
  <2>1. \A r \in Readers : ProcOf[r] \in Procs
    BY ClockAssumption
  <2>2. generation' >= 1
    BY <1>1, <1>3
  <2> QED BY <1>1, <1>7, <2>1, <2>2 DEF ClockInv, ReadsBehind
<1>10. WritesCovered'
  BY <1>1, <1>2, ClockAssumption DEF WritesCovered
<1> QED BY <1>4, <1>5, <1>8, <1>9, <1>10 DEF ClockInv

\* An instant passes: what was the present is a watermark now, and no tick was
\* started after it.
LEMMA AdvanceKeeps == ASSUME ClockInv, Advance PROVE ClockInv'
<1> USE ClockAssumption
<1>t. /\ ClockTypeOK /\ mono \in Nat /\ clock.ms \in Nat /\ Limit \in Nat \ {0}
      /\ leases \in [Procs -> LeaseState] /\ past \in [1 .. Limit -> Nat]
  BY Typed DEF ClockTypeOK
<1>1. /\ mono' = mono + 1
      /\ past' = [i \in 1 .. Limit |->
                    IF i = Limit THEN clock.ms ELSE past[i + 1]]
      /\ UNCHANGED <<durable, procs, leases, requests, committed, written,
                     clockFaults>>
  BY DEF Advance
<1>2. \A i \in 1 .. Limit :
         /\ i = Limit => past'[i] = clock.ms
         /\ i # Limit => i + 1 \in 1 .. Limit /\ past'[i] = past[i + 1]
  BY <1>1, <1>t
<1>3. past' \in [1 .. Limit -> Nat]
  BY <1>1, <1>2, <1>t
<1>4. ClockTypeOK'
  BY <1>1, <1>3, <1>t DEF ClockTypeOK, durable
<1>5. \A tick \in TickRecord : Covers(tick) => Covers(tick)'
  <2> TAKE tick \in TickRecord
  <2>1. HAVE Covers(tick)
  <2>2. tick.started \in Nat /\ tick.started <= mono
    BY <2>1 DEF TickRecord, Covers
  <2>3. ASSUME NEW i \in 1 .. Limit, i + mono' <= tick.started + Limit
        PROVE  past'[i] <= tick.clock.ms
    <3>1. i # Limit
      BY <1>1, <1>t, <2>2, <2>3
    <3>2. i + 1 \in 1 .. Limit /\ past'[i] = past[i + 1]
      BY <1>2, <3>1
    <3>3. (i + 1) + mono <= tick.started + Limit
      BY <1>1, <1>t, <2>2, <2>3
    <3> QED BY <2>1, <3>2, <3>3 DEF Covers
  <2>4. tick.started <= mono'
    BY <1>1, <1>t, <2>2
  <2> QED BY <2>3, <2>4 DEF Covers
<1>6. LeasesFit'
  <2>1. ASSUME NEW q \in Procs PROVE LeaseFits(q)'
    <3>1. LeaseFits(q) /\ leases[q].started \in Nat
      BY <1>t DEF ClockInv, LeasesFit, LeaseState
    <3>2. mono' \in Nat /\ mono <= mono'
      BY <1>1, <1>t
    <3> QED BY <1>1, <1>t, <3>1, <3>2, FitKept
  <2> QED BY <2>1 DEF LeasesFit
<1>7. RowHeldOnce'
  BY <1>1 DEF ClockInv, RowHeldOnce
<1>8. PendingAhead'
  <2>1. \A q \in Procs : leases[q].tick \in TickRecord
    BY <1>t DEF LeaseState
  <2> QED BY <1>1, <1>5, <2>1 DEF ClockInv, PendingAhead, durable
<1>9. ConfirmedCommitted' /\ ProgressCommitted' /\ PublishedCommitted'
  BY <1>1 DEF ClockInv, ConfirmedCommitted, ProgressCommitted,
              PublishedCommitted, durable
<1>10. PastCovered'
  <2>1. \A i \in 1 .. Limit : past[i] <= clock.ms
    BY DEF ClockInv, PastCovered
  <2>2. ASSUME NEW i \in 1 .. Limit PROVE past'[i] <= clock.ms
    <3>1. CASE i = Limit
      BY <1>2, <1>t, <3>1
    <3>2. CASE i # Limit
      BY <1>2, <2>1, <3>2
    <3> QED BY <3>1, <3>2
  <2>3. \A tick \in committed : tick \in TickRecord /\ Covers(tick)
    BY <1>t DEF ClockTypeOK, ClockInv, PastCovered
  <2> QED BY <1>1, <1>5, <2>2, <2>3 DEF PastCovered, durable
<1>11. ReadsBehind' /\ WritesCovered'
  BY <1>1 DEF ClockInv, ReadsBehind, WritesCovered, durable
<1> QED BY <1>4, <1>6, <1>7, <1>8, <1>9, <1>10, <1>11 DEF ClockInv

-----------------------------------------------------------------------------
(* The invariant is inductive.                                             *)

\* Initially no tick has been made.
LEMMA InitClock == ASSUME ClockInit PROVE ClockInv
<1> USE ClockAssumption
<1>1. \A p \in Procs : procs[p] = Down /\ leases[p] = NoLease
  BY DEF ClockInit
<1>2. \A r \in Readers : ~ requests[r].active
  BY DEF ClockInit, NoRequest
<1>3. NoRequest \in Request /\ NoTick.clock \in Clock /\ NoTick.clock.ms = 0
  BY DEF NoRequest, Request, NoTick, Clock
<1>4. ClockTypeOK
  <2>1. procs \in [Procs -> Proc] /\ leases \in [Procs -> LeaseState]
    BY DownTyped DEF ClockInit
  <2>2. \A p \in Procs : Len(procs[p].published) <= Keep
    BY <1>1, DownTyped
  <2>3. requests \in [Readers -> Request] /\ clock \in Clock
    BY <1>3 DEF ClockInit
  <2>4. past \in [1 .. Limit -> Nat] /\ committed \subseteq TickRecord
        /\ clockFaults \in 0 .. MaxClockFaults
        /\ {mono, observed, generation, written} \subseteq Nat
    BY DEF ClockInit
  <2> QED BY <2>1, <2>2, <2>3, <2>4 DEF ClockTypeOK
<1>5. LeasesFit
  BY <1>1, DownTyped DEF LeasesFit, LeaseFits, ClockInit
<1>6. RowHeldOnce /\ PendingAhead /\ ConfirmedCommitted
  BY <1>1, DownTyped
     DEF RowHeldOnce, PendingAhead, ConfirmedCommitted, Holding
<1>7. ProgressCommitted /\ PublishedCommitted
  <2>1. DOMAIN Down.published = {}
    BY DownTyped
  <2> QED BY <1>1, <2>1, DownTyped
          DEF ProgressCommitted, PublishedCommitted, ClockInit
<1>8. PastCovered
  BY <1>3 DEF PastCovered, ClockInit
<1>9. ReadsBehind /\ WritesCovered
  BY <1>2 DEF ReadsBehind, WritesCovered, ClockInit
<1> QED BY <1>4, <1>5, <1>6, <1>7, <1>8, <1>9 DEF ClockInv

\* Every step keeps the invariant.
LEMMA StepClock == ASSUME ClockInv, [ClockNext]_clockVars PROVE ClockInv'
<1>1. ASSUME NEW p \in Procs, MaintenanceStep(p) PROVE ClockInv'
  <2> USE <1>1
  <2>1. CASE \E wall \in Walls : LeaseBegin(p, wall)
    BY <2>1, LeaseBeginKeeps
  <2>2. CASE LeaseBusy(p)
    BY <2>2, LeaseBusyKeeps
  <2>3. CASE LeaseUncertain(p)
    BY <2>3, LeaseUncertainKeeps
  <2>4. CASE \E rotate \in BOOLEAN : TickCommit(p, rotate)
    BY <2>4, TickCommitKeeps
  <2>5. CASE TickFail(p)
    BY <2>5, TickFailKeeps
  <2>6. CASE TickUnknown(p)
    BY <2>6, TickUnknownKeeps
  <2>7. CASE LateCommit(p)
    BY <2>7, LateCommitKeeps
  <2>8. CASE FinishLease(p)
    BY <2>8, FinishKeeps
  <2>9. CASE FinishUncertain(p)
    BY <2>9, FinishUncertainKeeps
  <2>10. CASE Publish(p)
    BY <2>10, PublishKeeps
  <2> QED BY <2>1, <2>2, <2>3, <2>4, <2>5, <2>6, <2>7, <2>8, <2>9, <2>10
          DEF MaintenanceStep
<1>2. ASSUME NEW p \in Procs, Start(p) \/ Exit(p) PROVE ClockInv'
  BY <1>2, StartKeeps, ExitKeeps
<1>3. ASSUME NEW r \in Readers, RequestStep(r) PROVE ClockInv'
  BY <1>3, RequestBeginKeeps, RequestEndKeeps, RequestCommitKeeps
     DEF RequestStep
<1>4. CASE \E wall \in Walls : RecoverDeployment(wall)
  BY <1>4, RecoverClockKeeps
<1>5. CASE Advance
  BY <1>5, AdvanceKeeps
<1>6. CASE UNCHANGED clockVars
  <2> USE <1>6 DEF clockVars
  <2>1. ClockTypeOK'
    BY Typed DEF ClockTypeOK
  <2>2. /\ LeasesFit' /\ RowHeldOnce' /\ PendingAhead'
        /\ ConfirmedCommitted' /\ PastCovered'
    BY LeasesKept
  <2>3. /\ ProgressCommitted' /\ PublishedCommitted' /\ ReadsBehind'
        /\ WritesCovered'
    BY DEF ClockInv, ProgressCommitted, PublishedCommitted, ReadsBehind,
           WritesCovered
  <2> QED BY <2>1, <2>2, <2>3 DEF ClockInv
<1> QED BY <1>1, <1>2, <1>3, <1>4, <1>5, <1>6 DEF ClockNext

\* The invariant holds in every reachable state.
LEMMA ClockInvariant == ClockSpec => []ClockInv
BY InitClock, StepClock, PTL DEF ClockSpec

-----------------------------------------------------------------------------
(* What is proved.                                                         *)

\* The lifecycle time that a request is given (Freshness::attempt_at) is no earlier
\* than the watermark of FRESHNESS_LIMIT ago, whether it follows the progress of the
\* process or equals one of the clocks it has published.
THEOREM FreshTime == ClockSpec => []StalenessBounded
<1>1. ASSUME ClockInv PROVE StalenessBounded
  <2> SUFFICES ASSUME NEW r \in Readers, Accepted(r)
               PROVE  requests[r].clock.ms >= past[1]
    BY DEF StalenessBounded
  <2> DEFINE s == procs[ProcOf[r]]
             c == requests[r].clock
  <2>u. /\ ClockTypeOK /\ mono \in Nat /\ procs \in [Procs -> Proc]
        /\ requests[r] \in Request /\ ProcOf[r] \in Procs
        /\ Limit \in Nat \ {0}
    BY <1>1, Typed, ClockAssumption
  <2>v. c \in Clock
    BY <2>u DEF Request
  <2>w. past[1] \in Nat
    BY <2>u DEF ClockTypeOK
  <2>t. /\ s \in Proc /\ c.ms \in Nat /\ mono \in Nat
        /\ past[1] \in Nat /\ ProcOf[r] \in Procs
        /\ Limit \in Nat \ {0} /\ 1 \in 1 .. Limit
    BY <2>u, <2>v, <2>w DEF Clock
  <2>1. ASSUME NEW tick \in committed, recent(tick.started)
        PROVE  past[1] <= tick.clock.ms /\ tick.clock.ms \in Nat
    <3>1. tick \in TickRecord /\ Covers(tick)
      BY <1>1, Typed DEF ClockTypeOK, ClockInv, PastCovered
    <3>2. tick.started \in Nat /\ tick.clock.ms \in Nat
      BY <3>1 DEF TickRecord, Clock
    <3>3. 1 + mono <= tick.started + Limit
      BY <2>1, <2>t, <3>2 DEF recent
    <3> QED BY <2>t, <3>1, <3>2, <3>3 DEF Covers
  <2>2. CASE Follows(c, s.progress.clock) /\ recent(s.since)
    <3>1. s.since = s.progress.started /\ s.progress \in committed
      BY <1>1, <2>2, <2>t DEF ClockInv, ProgressCommitted, recent
    <3>2. past[1] <= s.progress.clock.ms /\ s.progress.clock.ms \in Nat
      BY <2>1, <2>2, <3>1
    <3>3. c.ms >= s.progress.clock.ms
      BY <2>2 DEF Follows
    <3> QED BY <2>t, <3>2, <3>3
  <2>3. ASSUME NEW i \in DOMAIN s.published, s.published[i].clock = c,
               recent(s.published[i].started)
        PROVE  past[1] <= c.ms
    <3>1. s.published[i] \in committed
      BY <1>1, <2>t DEF ClockInv, PublishedCommitted
    <3> QED BY <2>1, <2>3, <3>1
  <2>4. attempt_at(s, c)
    BY DEF Accepted
  <2> HIDE DEF s
  <2>5. past[1] <= c.ms
    BY <2>2, <2>3, <2>4, <2>t DEF attempt_at
  <2> QED BY <2>5, <2>t
<1> QED BY <1>1, ClockInvariant, PTL

\* Freshness::committed is reached only with a tick whose COMMIT was confirmed.
THEOREM OnlyCommittedPublished == ClockSpec => []PublishedCommitted
<1>1. ClockInv => PublishedCommitted
  BY DEF ClockInv
<1> QED BY <1>1, ClockInvariant, PTL

\* One maintenance backend at most, in quarantine while it may still be running,
\* and no committed write more than CLOCK_PERSIST_LAG ahead of the mark, however
\* COMMITs are lost or late, processes exit and operators recover the clock.
THEOREM MarkCoversWrites == ClockSpec => []ClockSound
<1>1. ASSUME ClockInv PROVE OneMaintenance
  <2>1. ASSUME NEW p \in Procs
        PROVE  /\ leases[p].backends <= 1
               /\ leases[p].permit = "free" => leases[p].backends = 0
               /\ leases[p].permit = "forgotten" => procs[p].quarantined
    <3>1. LeaseFits(p) /\ leases[p].phase \in LeasePhases
      BY <1>1, Typed DEF ClockInv, LeasesFit, LeaseState
    <3> QED BY <3>1 DEF LeaseFits, LeasePhases
  <2>2. \A r \in Readers : procs[ProcOf[r]].quarantined => ~ Accepted(r)
    BY DEF Accepted, attempt_at
  <2> QED BY <2>1, <2>2 DEF OneMaintenance
<1>2. ClockInv => ClockSound
  BY <1>1 DEF ClockInv, ClockSound
<1> QED BY <1>2, ClockInvariant, PTL
=============================================================================
