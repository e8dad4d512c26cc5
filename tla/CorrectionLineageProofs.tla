----------------------- MODULE CorrectionLineageProofs -----------------------
(***************************************************************************)
(* Proofs about CorrectionLineage and CorrectionTrace for every number of   *)
(* memories, tombstones, keys, texts and callers.                           *)
(*                                                                         *)
(* None of the properties is inductive alone.  LineageInv adds what the     *)
(* code relies on without saying: the ends of a row that are memories are   *)
(* there and their targets closed, a row has its key, payload and response  *)
(* all together or not at all, and a correction was committed exactly once  *)
(* over each target that is on record.  ChainInv adds what trace relies on: *)
(* every node on record stands in a finite chain that rows lead along, so   *)
(* that the recursive walks end, and end at the ends of the chain.          *)
(***************************************************************************)
EXTENDS CorrectionTrace, SequenceTheorems, FiniteSetTheorems, WellFoundedInduction, TLAPS

-----------------------------------------------------------------------------
\* contradict closes what it targets, and only purge removes a closed memory.
TargetsAreClosed == \A k \in corrections : k.target \in Mem => k.target \in closed

\* A replacement is in memories as long as a row names it.
ReplacementsAreLive == \A k \in corrections : k.repl \in Mem => k.repl \in live

\* A row that keeps its key keeps all of its request and its response.
KeyedRowsAreWhole ==
    \A k \in corrections :
        IF k.key = None
        THEN k.payload = None /\ k.resp = None
        ELSE /\ k.target \in Mem
             /\ k.repl \in Mem \cup {None}
             /\ k.payload \in Payload /\ k.payload.target = k.target
             /\ k.resp = [superseded |-> k.target, repl |-> k.repl]

\* contradict committed once over each target on record, and over no memory
\* that is still open.
EffectsMatchRows ==
    /\ \A k \in corrections : k.target \in Mem => effects[k.target] = 1
    /\ \A m \in Mem : effects[m] = 0 \/ (effects[m] = 1 /\ m \in closed \cup erased)

LineageInv ==
    /\ TypeOK
    /\ TargetsAreClosed
    /\ ReplacementsAreLive
    /\ KeyedRowsAreWhole
    /\ EffectsMatchRows
    /\ LineageIsLinear
    /\ TombstonesTraceable
    /\ OriginFollowsCorrection

-----------------------------------------------------------------------------
(* The prune of _prune_erased_only_lineage.                                 *)

\* It removes no row that has a memory for an end.
LEMMA PruneKeepsMemories ==
    ASSUME NEW rs, NEW k \in rs, Ends(k) \cap Mem # {}
    PROVE  k \in Pruned(rs)
  BY DEF Pruned, ErasedOnly

\* One prune is enough: what it leaves has no part without a memory.
LEMMA PruneIsComplete ==
    ASSUME NEW rs
    PROVE  ErasedOnly(Pruned(rs)) = {}
<1> DEFINE P == Pruned(rs)
<1>1. SUFFICES ASSUME NEW k \in ErasedOnly(P) PROVE FALSE
  OBVIOUS
<1>2. PICK s \in SUBSET P : k \in s /\ Component(P, s) /\ \A j \in s : Ends(j) \cap Mem = {}
  BY <1>1 DEF ErasedOnly
<1>3. Component(rs, s)
  <2>1. SUFFICES ASSUME NEW i \in s, NEW j \in rs, Ends(i) \cap Ends(j) # {} PROVE j \in s
    BY DEF Component
  <2>2. CASE j \in P
    BY <1>2, <2>1, <2>2 DEF Component
  <2>3. CASE j \notin P
    <3>1. PICK z \in SUBSET rs : j \in z /\ Component(rs, z) /\ \A x \in z : Ends(x) \cap Mem = {}
      BY <2>3 DEF Pruned, ErasedOnly
    <3>2. i \in rs /\ i \notin ErasedOnly(rs)
      BY <1>2 DEF Pruned
    <3>3. i \in z
      BY <2>1, <3>1, <3>2 DEF Component
    <3>4. QED BY <3>1, <3>2, <3>3 DEF ErasedOnly
  <2>4. QED BY <2>2, <2>3
<1>4. k \in rs /\ s \in SUBSET rs
  BY <1>1, <1>2 DEF Pruned
<1>5. k \in ErasedOnly(rs)
  BY <1>2, <1>3, <1>4 DEF ErasedOnly
<1>6. QED BY <1>2, <1>5 DEF Pruned

\* A new row with a memory for an end leaves no part of the log without one.
LEMMA AddedRowIsTraceable ==
    ASSUME NEW rs, NEW n, Ends(n) \cap Mem # {}, ErasedOnly(rs) = {}
    PROVE  ErasedOnly(rs \cup {n}) = {}
<1>1. SUFFICES ASSUME NEW k \in ErasedOnly(rs \cup {n}) PROVE FALSE
  OBVIOUS
<1>2. PICK s \in SUBSET (rs \cup {n}) :
         k \in s /\ Component(rs \cup {n}, s) /\ \A j \in s : Ends(j) \cap Mem = {}
  BY <1>1 DEF ErasedOnly
<1>3. s \in SUBSET rs
  BY <1>2
<1>4. Component(rs, s)
  BY <1>2 DEF Component
<1>5. k \in ErasedOnly(rs)
  BY <1>2, <1>3, <1>4 DEF ErasedOnly
<1>6. QED BY <1>5

-----------------------------------------------------------------------------
(* What a replay answers.                                                   *)

\* _correction_replay finds a row with the key it was asked for.
LEMMA RecordedRow ==
    ASSUME NEW r, Recorded(r.key) # {}
    PROVE  \E k \in corrections :
              /\ k.key = r.key
              /\ ReplayOf(r) = IF k.payload = PayloadOf(r)
                              THEN [kind |-> "ok", resp |-> k.resp]
                              ELSE Refused("key_reused")
<1> DEFINE k == CHOOSE k \in Recorded(r.key) : TRUE
<1>1. k \in Recorded(r.key)
  OBVIOUS
<1>2. k \in corrections /\ k.key = r.key
  BY <1>1 DEF Recorded
<1>3. QED BY <1>2 DEF ReplayOf

\* Its answer is a reply of the declared kinds.
LEMMA ReplayIsReply ==
    ASSUME LineageInv, NEW r \in Request, Recorded(r.key) # {}
    PROVE  ReplayOf(r) \in Reply
<1>1. PICK k \in corrections :
         /\ k.key = r.key
         /\ ReplayOf(r) = IF k.payload = PayloadOf(r)
                         THEN [kind |-> "ok", resp |-> k.resp]
                         ELSE Refused("key_reused")
  BY RecordedRow
<1>2. r.key \in Key /\ r.key # None
  BY ConstantsDistinct DEF Request
<1>3. k.resp = [superseded |-> k.target, repl |-> k.repl] /\ k.target \in Mem /\ k.repl \in Mem \cup {None}
  BY <1>1, <1>2 DEF LineageInv, KeyedRowsAreWhole
<1>4. k.resp \in Response
  BY <1>3 DEF Response
<1>5. QED BY <1>1, <1>4 DEF Reply, Refused

-----------------------------------------------------------------------------
(* The inductive invariant, one lemma for each action.                      *)

\* An empty log.
LEMMA InitInv == Init => LineageInv
<1> SUFFICES ASSUME Init PROVE LineageInv
  OBVIOUS
<1>1. TypeOK
  BY DEF Init, TypeOK
<1>2. TargetsAreClosed /\ ReplacementsAreLive /\ KeyedRowsAreWhole /\ LineageIsLinear
  BY DEF Init, TargetsAreClosed, ReplacementsAreLive, KeyedRowsAreWhole, LineageIsLinear
<1>3. EffectsMatchRows /\ OriginFollowsCorrection
  BY DEF Init, EffectsMatchRows, OriginFollowsCorrection
<1>4. TombstonesTraceable
  BY DEF Init, TombstonesTraceable, ErasedOnly, Ends
<1>5. QED BY <1>1, <1>2, <1>3, <1>4 DEF LineageInv

\* A step that leaves the tables alone and keeps the callers well typed.
LEMMA CallerStep ==
    ASSUME LineageInv, UNCHANGED <<rows, erased, effects>>,
           pc' \in [Client -> {"idle", "called", "checked", "answered"}],
           req' \in [Client -> Request \cup {None}],
           reply' \in [Client -> Reply \cup {None}],
           \A c \in Client : pc'[c] # "idle" => req'[c] \in Request
    PROVE  LineageInv'
<1>1. TypeOK'
  BY DEF LineageInv, TypeOK, rows
<1>2. (TargetsAreClosed /\ ReplacementsAreLive /\ KeyedRowsAreWhole /\ LineageIsLinear)'
  BY DEF LineageInv, rows, TargetsAreClosed, ReplacementsAreLive, KeyedRowsAreWhole, LineageIsLinear
<1>3. (EffectsMatchRows /\ OriginFollowsCorrection)'
  BY DEF LineageInv, rows, EffectsMatchRows, OriginFollowsCorrection
<1>4. TombstonesTraceable'
  BY DEF LineageInv, rows, TombstonesTraceable, ErasedOnly, Ends, Component
<1>5. QED BY <1>1, <1>2, <1>3, <1>4 DEF LineageInv

\* A new memory, open and in no correction.
LEMMA ObserveStep ==
    ASSUME LineageInv, NEW m \in Mem, NEW bounded \in BOOLEAN, Observe(m, bounded)
    PROVE  LineageInv'
<1> USE DEF Observe, LineageInv, callers
<1>1. m \notin live /\ m \notin erased
  BY DEF Fresh
<1>2. TypeOK'
  BY <1>1 DEF TypeOK
<1>3. (TargetsAreClosed /\ ReplacementsAreLive /\ KeyedRowsAreWhole /\ LineageIsLinear)'
  BY DEF TargetsAreClosed, ReplacementsAreLive, KeyedRowsAreWhole, LineageIsLinear
<1>4. (EffectsMatchRows /\ OriginFollowsCorrection)'
  BY DEF EffectsMatchRows, OriginFollowsCorrection
<1>5. TombstonesTraceable'
  BY DEF TombstonesTraceable, ErasedOnly, Ends, Component
<1>6. QED BY <1>2, <1>3, <1>4, <1>5

\* A call only says what its caller wants.
LEMMA CallStep ==
    ASSUME LineageInv, NEW c \in Client, NEW r \in Request, Call(c, r)
    PROVE  LineageInv'
  BY CallerStep DEF Call, LineageInv, TypeOK

\* A caller that has its answer forgets what it asked.
LEMMA LeaveStep ==
    ASSUME LineageInv, NEW c \in Client, Leave(c)
    PROVE  LineageInv'
  BY CallerStep DEF Leave, LineageInv, TypeOK

\* The look-up by idempotency key writes nothing.
LEMMA ReplayStep ==
    ASSUME LineageInv, NEW c \in Client, pc[c] # "idle", Replay(c)
    PROVE  LineageInv'
<1>1. req[c] \in Request
  BY DEF LineageInv, TypeOK
<1>2. ReplayOf(req[c]) \in Reply
  BY <1>1, ReplayIsReply DEF Replay
<1>3. QED BY <1>1, <1>2, CallerStep DEF Replay, Answer, LineageInv, TypeOK

\* Nor does the check before the write lock.
LEMMA PreCheckStep ==
    ASSUME LineageInv, NEW c \in Client, PreCheck(c)
    PROVE  LineageInv'
<1>1. CASE Replay(c)
  BY <1>1, ReplayStep DEF PreCheck
<1>2. CASE pc' = [pc EXCEPT ![c] = "checked"] /\ UNCHANGED <<rows, req, reply, erased, effects>>
  BY <1>2, CallerStep DEF PreCheck, LineageInv, TypeOK
<1>3. QED BY <1>1, <1>2 DEF PreCheck

\* Nor does the second look-up, under the write lock.
LEMMA ReplayLockedStep ==
    ASSUME LineageInv, NEW c \in Client, ReplayLocked(c)
    PROVE  LineageInv'
  BY ReplayStep DEF ReplayLocked

\* Nor does a refusal.
LEMMA RefuseStep ==
    ASSUME LineageInv, NEW c \in Client, RefuseMissing(c) \/ RefuseSuperseded(c)
    PROVE  LineageInv'
<1>1. pc[c] = "checked" /\ UNCHANGED <<rows, erased, effects>>
  BY DEF RefuseMissing, RefuseSuperseded
<1>2. PICK a \in Reply : Answer(c, a)
  BY DEF RefuseMissing, RefuseSuperseded, Refused, Reply
<1>3. QED BY <1>1, <1>2, CallerStep DEF Answer, LineageInv, TypeOK

\* The row a committed correction adds, and what the invariant says of it.
LEMMA NewRow ==
    ASSUME NEW r \in Request, NEW n \in Replacement(r), r.target \in live
    PROVE  LET k == NewCorrection(r, n) IN
           /\ k \in Correction
           /\ k.target = r.target /\ k.repl = n /\ k.key = r.key /\ k.key # None
           /\ k.payload \in Payload /\ k.payload.target = k.target
           /\ k.resp \in Response
           /\ k.resp = [superseded |-> k.target, repl |-> k.repl]
           /\ n \in Mem \cup {None} /\ (n # None => n \notin live /\ n \notin erased)
           /\ Ends(k) \cap Tomb = {} /\ Ends(k) \cap Mem # {}
<1>1. r.target \in Mem /\ r.key \in Key /\ r.text \in Text \cup {None} /\ r.key # None /\ r.target # None
  BY ConstantsDistinct DEF Request
<1>2. n \in Mem \cup {None} /\ (n # None => n \notin live /\ n \notin erased)
  BY DEF Replacement, Fresh
<1>3. PayloadOf(r) \in Payload /\ PayloadOf(r).target = r.target
  BY <1>1 DEF PayloadOf, Payload
<1>4. [superseded |-> r.target, repl |-> n] \in Response
  BY <1>1, <1>2 DEF Response
<1>5. NewCorrection(r, n) \in Correction
  BY <1>1, <1>2, <1>3, <1>4 DEF NewCorrection, Correction, Node
<1>6. Ends(NewCorrection(r, n)) = {r.target, n} \ {None}
  BY DEF Ends, NewCorrection
<1>7. QED BY <1>1, <1>2, <1>3, <1>4, <1>5, <1>6, ConstantsDistinct DEF NewCorrection

\* The correction: one row closes, one opens, the log gains their record.
LEMMA SupersedeStep ==
    ASSUME LineageInv, NEW c \in Client, Supersede(c)
    PROVE  LineageInv'
<1> DEFINE r == req[c]
<1>1. /\ r \in Request /\ r.target \in live /\ r.target \notin closed
      /\ r.target \in Mem /\ r.target \notin erased /\ Recorded(r.key) = {}
  BY DEF Supersede, IsCurrent, KeyOnRecord, LineageInv, TypeOK
<1>2. PICK n \in Replacement(r) :
         /\ live' = live \cup ({n} \ {None})
         /\ stamped' = stamped \cup ({n} \ {None})
         /\ corrections' = corrections \cup {NewCorrection(r, n)}
         /\ Answer(c, [kind |-> "ok", resp |-> NewCorrection(r, n).resp])
  BY DEF Supersede
<1> DEFINE k == NewCorrection(r, n)
<1>3. /\ k \in Correction
      /\ k.target = r.target /\ k.repl = n /\ k.key = r.key /\ k.key # None
      /\ k.payload \in Payload /\ k.payload.target = k.target
      /\ k.resp \in Response
      /\ k.resp = [superseded |-> k.target, repl |-> k.repl]
      /\ n \in Mem \cup {None} /\ (n # None => n \notin live /\ n \notin erased)
      /\ Ends(k) \cap Tomb = {} /\ Ends(k) \cap Mem # {}
  BY <1>1, NewRow
<1>4. /\ closed' = closed \cup {r.target} /\ tombstones' = tombstones /\ erased' = erased
      /\ effects' = [effects EXCEPT ![r.target] = @ + 1]
      /\ corrections' = corrections \cup {k}
  BY <1>2 DEF Supersede
<1> HIDE DEF k, r
<1>5. [kind |-> "ok", resp |-> k.resp] \in Reply
  BY <1>3 DEF Reply
<1>6. TypeOK'
  <2>1. pc' \in [Client -> {"idle", "called", "checked", "answered"}] /\ req' = req
    BY <1>2 DEF Answer, LineageInv, TypeOK
  <2>2. reply' \in [Client -> Reply \cup {None}]
    BY <1>2, <1>5 DEF Answer, LineageInv, TypeOK, k
  <2>3. \A d \in Client : pc'[d] # "idle" => req'[d] \in Request
    BY <1>1, <1>2 DEF Answer, LineageInv, TypeOK, r
  <2>4. effects' \in [Mem -> Nat]
    BY <1>1, <1>4 DEF LineageInv, TypeOK
  <2>5. QED BY <1>1, <1>2, <1>3, <1>4, <2>1, <2>2, <2>3, <2>4 DEF LineageInv, TypeOK
<1>7. (TargetsAreClosed /\ ReplacementsAreLive)'
  BY <1>1, <1>2, <1>3, <1>4, ConstantsDistinct DEF LineageInv, TargetsAreClosed, ReplacementsAreLive
<1>8. KeyedRowsAreWhole'
  BY <1>1, <1>3, <1>4 DEF LineageInv, KeyedRowsAreWhole
<1>9. EffectsMatchRows'
  <2>1. effects[r.target] = 0
    BY <1>1 DEF LineageInv, EffectsMatchRows
  <2>2. \A j \in corrections : j.target # r.target
    BY <1>1 DEF LineageInv, TargetsAreClosed
  <2>3. QED BY <1>1, <1>3, <1>4, <2>1, <2>2 DEF LineageInv, EffectsMatchRows, TypeOK
<1>10. LineageIsLinear'
  <2>1. \A j \in corrections : j.target # k.target
    BY <1>1, <1>3 DEF LineageInv, TargetsAreClosed
  <2>2. \A j \in corrections : k.repl # None => j.repl # k.repl
    BY <1>3 DEF LineageInv, ReplacementsAreLive
  <2>3. \A j \in corrections : j.key # k.key
    BY <1>1, <1>3 DEF Recorded
  <2>4. QED BY <1>4, <2>1, <2>2, <2>3 DEF LineageInv, LineageIsLinear
<1>11. TombstonesTraceable'
  <2>1. ErasedOnly(corrections') = {}
    BY <1>3, <1>4, AddedRowIsTraceable DEF LineageInv, TombstonesTraceable
  <2>2. Tomb \cap UNION {Ends(j) : j \in corrections'} = Tomb \cap UNION {Ends(j) : j \in corrections}
    BY <1>3, <1>4
  <2>3. QED BY <1>4, <2>1, <2>2 DEF LineageInv, TombstonesTraceable, ErasedOnly, Ends, Component
<1>12. OriginFollowsCorrection'
  BY <1>2, <1>3, <1>4 DEF LineageInv, OriginFollowsCorrection, TypeOK
<1>13. QED BY <1>6, <1>7, <1>8, <1>9, <1>10, <1>11, <1>12 DEF LineageInv

\* What the loop over lineage_rows leaves: rows it did not touch, and rows
\* stripped of their request fields with the purged end replaced by t.
LEMMA ScrubbedRow ==
    ASSUME LineageInv, NEW m \in live, NEW t \in Tomb \ tombstones, NEW k \in Scrubbed(m, t)
    PROVE  \/ k \in corrections /\ k.target # m /\ k.repl # m
           \/ \E j \in corrections :
                /\ j.target = m \/ j.repl = m
                /\ ~(j.target = m /\ j.repl = None)
                /\ k = Scrub(j, m, t)
  BY DEF Scrubbed, Touches

\* A purge's tombstone replaces the purged memory in its corrections.
LEMMA ScrubbedFields ==
    ASSUME LineageInv, NEW m \in live, NEW t \in Tomb \ tombstones, NEW j \in corrections,
           j.target = m \/ j.repl = m
    PROVE  LET k == Scrub(j, m, t) IN
           /\ k \in Correction
           /\ k.key = None /\ k.payload = None /\ k.resp = None
           /\ k.target = IF j.target = m THEN t ELSE j.target
           /\ k.repl = IF j.repl = m THEN t ELSE j.repl
           /\ k.target # m /\ k.repl # m
<1>1. j \in Correction /\ t \in Node /\ t # m
  BY ConstantsDistinct DEF LineageInv, TypeOK, Node
<1>2. QED BY <1>1 DEF Scrub, Correction

\* No row names a tombstone that is not on record.
LEMMA EndsOnRecord ==
    ASSUME LineageInv, NEW t \in Tomb \ tombstones, NEW j \in corrections
    PROVE  j.target # t /\ j.repl # t
<1>1. t \notin Ends(j)
  BY DEF LineageInv, TombstonesTraceable
<1>2. QED BY <1>1, ConstantsDistinct DEF Ends

\* The rows after a purge name only memories that stay.
LEMMA PurgedRow ==
    ASSUME LineageInv, NEW m \in Mem, NEW t \in Tomb, Purge(m, t), NEW k \in corrections'
    PROVE  /\ k \in Scrubbed(m, t) /\ k \in Correction
           /\ k.target # m /\ k.repl # m
           /\ \/ k \in corrections
              \/ k.key = None /\ k.payload = None /\ k.resp = None
           /\ k.target \in Mem => \E j \in corrections : j.target = k.target
           /\ k.repl \in Mem => \E j \in corrections : j.repl = k.repl
<1>1. m \in live /\ t \in Tomb \ tombstones /\ k \in Scrubbed(m, t)
  BY DEF Purge, Pruned
<1>2. CASE k \in corrections /\ k.target # m /\ k.repl # m
  BY <1>1, <1>2 DEF LineageInv, TypeOK
<1>3. CASE \E j \in corrections :
              /\ j.target = m \/ j.repl = m
              /\ ~(j.target = m /\ j.repl = None)
              /\ k = Scrub(j, m, t)
  <2>1. PICK j \in corrections : (j.target = m \/ j.repl = m) /\ k = Scrub(j, m, t)
    BY <1>3
  <2>2. t \notin Mem
    BY ConstantsDistinct
  <2>3. QED BY <1>1, <2>1, <2>2, ScrubbedFields
<1>4. QED BY <1>1, <1>2, <1>3, ScrubbedRow

\* The records of other memories outlive a purge.
LEMMA PurgeKeepsRows ==
    ASSUME LineageInv, NEW m \in Mem, NEW t \in Tomb, Purge(m, t),
           NEW k \in corrections, k.target # m, k.repl # m, Ends(k) \cap Mem # {}
    PROVE  k \in corrections'
<1>1. k \in Scrubbed(m, t)
  BY DEF Scrubbed, Touches
<1>2. QED BY <1>1, PruneKeepsMemories DEF Purge

\* At most one record leaves a memory, and at most one reaches it, after a purge too.
LEMMA PurgeKeepsLinearity ==
    ASSUME LineageInv, NEW m \in Mem, NEW t \in Tomb, Purge(m, t)
    PROVE  LineageIsLinear'
<1>1. m \in live /\ t \in Tomb \ tombstones
  BY DEF Purge
<1> DEFINE Before(k, j) ==
              \/ k = j /\ k.target # m /\ k.repl # m
              \/ (j.target = m \/ j.repl = m) /\ k = Scrub(j, m, t)
<1>2. \A k \in corrections' : \E j \in corrections : Before(k, j)
  BY <1>1, PurgedRow, ScrubbedRow
<1>3. ASSUME NEW k \in corrections', NEW j \in corrections, Before(k, j)
      PROVE  /\ j.target = IF k.target = t THEN m ELSE k.target
             /\ j.repl = IF k.repl = t THEN m ELSE k.repl
             /\ k.key = j.key \/ k.key = None
  BY <1>1, <1>3, ScrubbedFields, EndsOnRecord
<1>4. SUFFICES ASSUME NEW k1 \in corrections', NEW k2 \in corrections',
                      \/ k1.target = k2.target
                      \/ k1.repl # None /\ k1.repl = k2.repl
                      \/ k1.key # None /\ k1.key = k2.key
               PROVE  k1 = k2
  BY DEF LineageIsLinear
<1>5. PICK j1 \in corrections : Before(k1, j1)
  BY <1>2
<1>6. PICK j2 \in corrections : Before(k2, j2)
  BY <1>2
<1> HIDE DEF Before
<1>7. j1 = j2
  <2>1. CASE k1.target = k2.target
    BY <1>3, <1>5, <1>6, <2>1 DEF LineageInv, LineageIsLinear
  <2>2. CASE k1.repl # None /\ k1.repl = k2.repl
    <3>1. j1.repl = j2.repl /\ j1.repl # None
      BY <1>3, <1>5, <1>6, <2>2, ConstantsDistinct
    <3>2. QED BY <3>1 DEF LineageInv, LineageIsLinear
  <2>3. CASE k1.key # None /\ k1.key = k2.key
    BY <1>3, <1>5, <1>6, <2>3 DEF LineageInv, LineageIsLinear
  <2>4. QED BY <1>4, <2>1, <2>2, <2>3
<1>8. QED BY <1>5, <1>6, <1>7 DEF Before

\* Each tombstone stands for one purged memory.
LEMMA PurgeKeepsTombstones ==
    ASSUME LineageInv, NEW m \in Mem, NEW t \in Tomb, Purge(m, t)
    PROVE  TombstonesTraceable'
<1>1. m \in live /\ t \in Tomb \ tombstones
  BY DEF Purge
<1>2. ErasedOnly(corrections') = {}
  BY PruneIsComplete DEF Purge
<1> DEFINE kept == tombstones \cup (IF NeedsTombstone(m) THEN {t} ELSE {})
<1>3. tombstones' = kept \cap UNION {Ends(k) : k \in corrections'}
  BY DEF Purge, Referenced
<1>4. ASSUME NEW k \in corrections', NEW x \in Tomb, x \in Ends(k)
      PROVE  x \in kept
  <2>1. k \in Scrubbed(m, t)
    BY PurgedRow
  <2>2. CASE k \in corrections
    BY <1>4, <2>2 DEF LineageInv, TombstonesTraceable
  <2>3. CASE \E j \in corrections :
                /\ j.target = m \/ j.repl = m
                /\ ~(j.target = m /\ j.repl = None)
                /\ k = Scrub(j, m, t)
    <3>1. PICK j \in corrections :
             /\ j.target = m \/ j.repl = m
             /\ ~(j.target = m /\ j.repl = None)
             /\ k = Scrub(j, m, t)
      BY <2>3
    <3>2. NeedsTombstone(m)
      BY <3>1 DEF NeedsTombstone
    <3>3. x \in Ends(j) \cup {t}
      BY <1>1, <1>4, <3>1, ScrubbedFields DEF Ends
    <3>4. QED BY <3>2, <3>3 DEF LineageInv, TombstonesTraceable
  <2>4. QED BY <1>1, <2>1, <2>2, <2>3, ScrubbedRow
<1>5. tombstones' \subseteq Tomb
  BY <1>1, <1>3 DEF LineageInv, TypeOK
<1>6. tombstones' = Tomb \cap UNION {Ends(k) : k \in corrections'}
  BY <1>3, <1>4, <1>5
<1>7. QED BY <1>2, <1>6 DEF TombstonesTraceable, ErasedOnly, Ends, Component

\* The purge of a memory keeps the invariant.
LEMMA PurgeStep ==
    ASSUME LineageInv, NEW m \in Mem, NEW t \in Tomb, Purge(m, t)
    PROVE  LineageInv'
<1>1. /\ m \in live /\ m \notin erased /\ live' = live \ {m} /\ closed' = closed \ {m}
      /\ stamped' = stamped \ (Sanitized(m) \cup {m}) /\ erased' = erased \cup {m}
      /\ effects' = effects /\ UNCHANGED callers
  BY DEF Purge, LineageInv, TypeOK
<1>2. TypeOK'
  <2>1. corrections' \subseteq Correction
    BY PurgedRow
  <2>2. tombstones' \subseteq Tomb
    BY DEF Purge, Referenced, LineageInv, TypeOK
  <2>3. QED BY <1>1, <2>1, <2>2 DEF LineageInv, TypeOK, callers
<1>3. TargetsAreClosed' /\ ReplacementsAreLive'
  BY <1>1, PurgedRow DEF LineageInv, TargetsAreClosed, ReplacementsAreLive
<1>4. KeyedRowsAreWhole'
  BY PurgedRow DEF LineageInv, KeyedRowsAreWhole
<1>5. EffectsMatchRows'
  <2>1. \A k \in corrections' : k.target \in Mem => effects'[k.target] = 1
    BY <1>1, PurgedRow DEF LineageInv, EffectsMatchRows
  <2>2. QED BY <1>1, <2>1 DEF LineageInv, EffectsMatchRows
<1>6. OriginFollowsCorrection'
  <2>1. SUFFICES ASSUME NEW x \in stamped' PROVE \E k \in corrections' : k.repl = x /\ k.key # None
    BY DEF OriginFollowsCorrection
  <2>2. x \in stamped /\ x \notin Sanitized(m) /\ x # m /\ x \in Mem
    BY <1>1 DEF LineageInv, TypeOK
  <2>3. PICK k \in corrections : k.repl = x /\ k.key # None
    BY <2>2 DEF LineageInv, OriginFollowsCorrection
  <2>4. k.target # m /\ k.repl # m
    BY <2>2, <2>3 DEF Sanitized
  <2>5. Ends(k) \cap Mem # {}
    BY <2>2, <2>3, ConstantsDistinct DEF Ends
  <2>6. k \in corrections'
    BY <2>4, <2>5, PurgeKeepsRows
  <2>7. QED BY <2>3, <2>6
<1>7. QED BY <1>2, <1>3, <1>4, <1>5, <1>6, PurgeKeepsLinearity, PurgeKeepsTombstones DEF LineageInv

\* Every step of the specification, action by action.
LEMMA StepInv == LineageInv /\ [Next]_vars => LineageInv'
<1> SUFFICES ASSUME LineageInv, [Next]_vars PROVE LineageInv'
  OBVIOUS
<1>1. CASE \E m \in Mem, bounded \in BOOLEAN : Observe(m, bounded)
  BY <1>1, ObserveStep
<1>2. CASE \E c \in Client, r \in Request : Call(c, r)
  BY <1>2, CallStep
<1>3. CASE \E c \in Client : PreCheck(c)
  BY <1>3, PreCheckStep
<1>4. CASE \E c \in Client : ReplayLocked(c)
  BY <1>4, ReplayLockedStep
<1>5. CASE \E c \in Client : RefuseMissing(c) \/ RefuseSuperseded(c)
  BY <1>5, RefuseStep
<1>6. CASE \E c \in Client : Supersede(c)
  BY <1>6, SupersedeStep
<1>7. CASE \E c \in Client : Leave(c)
  BY <1>7, LeaveStep
<1>8. CASE \E m \in Mem, t \in Tomb : Purge(m, t)
  BY <1>8, PurgeStep
<1>9. CASE UNCHANGED vars
  BY <1>9, CallerStep DEF vars, rows, LineageInv, TypeOK
<1>10. QED
  BY <1>1, <1>2, <1>3, <1>4, <1>5, <1>6, <1>7, <1>8, <1>9 DEF Next

\* The strengthened invariant holds in every reachable state, for any number
\* of memories, tombstones, keys, texts and concurrent callers of contradict.
THEOREM LineageInvariant == Spec => []LineageInv
  BY InitInv, StepInv, PTL DEF Spec

-----------------------------------------------------------------------------
(* The state properties.                                                    *)

\* Type correctness of the correction log and of the callers of contradict.
THEOREM TypeCorrect == Spec => []TypeOK
<1>1. LineageInv => TypeOK
  BY DEF LineageInv
<1>2. QED BY <1>1, LineageInvariant, PTL

\* The unique indexes of corrections never refuse a write of contradict or
\* purge: no two rows share a target, a replacement or a key.
THEOREM Linearity == Spec => []LineageIsLinear
<1>1. LineageInv => LineageIsLinear
  BY DEF LineageInv
<1>2. QED BY <1>1, LineageInvariant, PTL

\* After purge no row of corrections, in its columns, its request payload or
\* its stored response, names the purged memory, wherever it stood.
THEOREM ErasureIsComplete == Spec => []NoErasedIdentifier
<1>1. LineageInv => NoErasedIdentifier
  <2> SUFFICES ASSUME LineageInv, NEW k \in corrections
               PROVE  /\ Ends(k) \cap erased = {}
                      /\ k.payload # None => k.payload.target \in live
                      /\ k.resp # None => {k.resp.superseded, k.resp.repl} \subseteq live \cup {None}
    BY DEF NoErasedIdentifier
  <2>1. /\ k.target \in Node /\ k.repl \in Node \cup {None}
        /\ k.target \in Mem => k.target \in live
        /\ k.repl \in Mem => k.repl \in live
        /\ live \cap erased = {} /\ erased \subseteq Mem
    BY DEF LineageInv, TypeOK, Correction, TargetsAreClosed, ReplacementsAreLive
  <2>2. Ends(k) \cap erased = {}
    BY <2>1, ConstantsDistinct DEF Ends, Node
  <2>3. CASE k.key = None
    BY <2>2, <2>3 DEF LineageInv, KeyedRowsAreWhole
  <2>4. CASE k.key # None
    <3>1. /\ k.target \in Mem /\ k.repl \in Mem \cup {None}
          /\ k.payload.target = k.target
          /\ k.resp = [superseded |-> k.target, repl |-> k.repl]
      BY <2>4 DEF LineageInv, KeyedRowsAreWhole
    <3>2. k.resp.superseded = k.target /\ k.resp.repl = k.repl
      BY <3>1
    <3>3. QED BY <2>1, <2>2, <3>1, <3>2
  <2>5. QED BY <2>3, <2>4
<1>2. QED BY <1>1, LineageInvariant, PTL

\* The prune of purge leaves exactly the tombstones a surviving memory traces.
THEOREM NoUntraceableLineage == Spec => []TombstonesTraceable
<1>1. LineageInv => TombstonesTraceable
  BY DEF LineageInv
<1>2. QED BY <1>1, LineageInvariant, PTL

\* However often contradict is called, retried or raced, it commits at most
\* once over each memory.
THEOREM AtMostOneEffect == Spec => []SupersededOnce
<1>1. LineageInv => SupersededOnce
  BY DEF LineageInv, EffectsMatchRows, SupersededOnce
<1>2. QED BY <1>1, LineageInvariant, PTL

\* An event says it came from a correction only while that correction is on
\* record in full.
THEOREM OriginIsBacked == Spec => []OriginFollowsCorrection
<1>1. LineageInv => OriginFollowsCorrection
  BY DEF LineageInv
<1>2. QED BY <1>1, LineageInvariant, PTL

\* What contradict and purge leave on record is sound: one effect a memory, no
\* two rows on one memory, every tombstone traceable, every origin backed.
THEOREM LineageSoundness == Spec => []LineageIsSound
<1>1. LineageIsLinear /\ SupersededOnce /\ TombstonesTraceable /\ OriginFollowsCorrection
        => LineageIsSound
  BY DEF LineageIsSound
<1>2. QED BY <1>1, Linearity, AtMostOneEffect, NoUntraceableLineage, OriginIsBacked, PTL

-----------------------------------------------------------------------------
(* The action properties.                                                   *)

\* Only these actions change a caller's reply to something.
LEMMA WhoReplies ==
    ASSUME LineageInv, [Next]_vars, NEW c \in Client, reply'[c] # reply[c], reply'[c] # None
    PROVE  \/ Replay(c) /\ reply'[c] = ReplayOf(req[c]) /\ pc[c] # "idle"
           \/ RefuseMissing(c) /\ reply'[c] = Refused("not_found")
           \/ RefuseSuperseded(c) /\ reply'[c] = Refused("already_superseded")
           \/ Supersede(c)
<1> USE DEF LineageInv, TypeOK
<1>1. CASE \E m \in Mem, bounded \in BOOLEAN : Observe(m, bounded)
  BY <1>1 DEF Observe, callers
<1>2. CASE \E d \in Client, r \in Request : Call(d, r)
  BY <1>2 DEF Call
<1>3. CASE \E d \in Client : PreCheck(d)
  BY <1>3 DEF PreCheck, Replay, Answer
<1>4. CASE \E d \in Client : ReplayLocked(d)
  BY <1>4 DEF ReplayLocked, Replay, Answer
<1>5. CASE \E d \in Client : RefuseMissing(d)
  BY <1>5 DEF RefuseMissing, Answer
<1>6. CASE \E d \in Client : RefuseSuperseded(d)
  BY <1>6 DEF RefuseSuperseded, Answer
<1>7. CASE \E d \in Client : Supersede(d)
  <2>1. PICK d \in Client : Supersede(d)
    BY <1>7
  <2>2. PICK a : Answer(d, a)
    BY <2>1 DEF Supersede
  <2>3. d = c
    BY <2>2 DEF Answer
  <2>4. QED BY <2>1, <2>3
<1>8. CASE \E d \in Client : Leave(d)
  BY <1>8 DEF Leave
<1>9. CASE \E m \in Mem, t \in Tomb : Purge(m, t)
  BY <1>9 DEF Purge, callers
<1>10. CASE UNCHANGED vars
  BY <1>10 DEF vars
<1>11. QED
  BY <1>1, <1>2, <1>3, <1>4, <1>5, <1>6, <1>7, <1>8, <1>9, <1>10 DEF Next

\* A caller whose correction is on record never hears that the memory was
\* already superseded, whatever ran between its two lookups.
THEOREM RetryNeverConflicts == Spec => OwnSuccessIsReplayed
<1>1. ASSUME LineageInv, [Next]_vars, NEW c \in Client,
             reply'[c] # reply[c], reply'[c] # None, reply'[c].kind = "already_superseded",
             NEW k \in corrections, k.key = req[c].key, k.payload = PayloadOf(req[c])
      PROVE  FALSE
  <2>1. CASE Replay(c) /\ reply'[c] = ReplayOf(req[c])
    <3>1. Recorded(req[c].key) # {}
      BY <2>1 DEF Replay
    <3>2. QED BY <1>1, <2>1, <3>1, RecordedRow DEF Refused
  <2>2. CASE RefuseMissing(c) /\ reply'[c] = Refused("not_found")
    BY <1>1, <2>2 DEF Refused
  <2>3. CASE RefuseSuperseded(c)
    BY <1>1, <2>3 DEF RefuseSuperseded, KeyOnRecord, Recorded
  <2>4. CASE Supersede(c)
    BY <1>1, <2>4 DEF Supersede, KeyOnRecord, Recorded
  <2>5. QED BY <1>1, <2>1, <2>2, <2>3, <2>4, WhoReplies
<1>2. LineageInv /\ [Next]_vars =>
        [\A c \in Client :
          (reply'[c] # reply[c] /\ reply'[c] # None /\ reply'[c].kind = "already_superseded")
            => ~\E k \in corrections :
                  k.key = req[c].key /\ k.payload = PayloadOf(req[c])]_vars
  BY <1>1
<1>3. QED BY <1>2, LineageInvariant, PTL DEF Spec, OwnSuccessIsReplayed

\* A success that is told, at first or on a replay, names the target asked for
\* and memories that exist, and is the one effect over its target.
THEOREM SuccessIsCurrent == Spec => RepliesAreCurrent
<1>1. ASSUME LineageInv, [Next]_vars, NEW c \in Client,
             reply'[c] # reply[c], reply'[c] # None, reply'[c].kind = "ok"
      PROVE  /\ reply'[c].resp.superseded = req[c].target
             /\ {reply'[c].resp.superseded, reply'[c].resp.repl} \subseteq live' \cup {None}
             /\ effects'[req[c].target] = 1
  <2>1. CASE Replay(c) /\ reply'[c] = ReplayOf(req[c]) /\ pc[c] # "idle"
    <3>1. Recorded(req[c].key) # {} /\ UNCHANGED <<rows, effects>> /\ req[c] \in Request
      BY <1>1, <2>1 DEF Replay, LineageInv, TypeOK
    <3>2. PICK k \in corrections :
             /\ k.key = req[c].key
             /\ ReplayOf(req[c]) = IF k.payload = PayloadOf(req[c])
                                   THEN [kind |-> "ok", resp |-> k.resp]
                                   ELSE Refused("key_reused")
      BY <3>1, RecordedRow
    <3>3. k.payload = PayloadOf(req[c]) /\ reply'[c].resp = k.resp
      BY <1>1, <2>1, <3>2 DEF Refused
    <3>4. k.key # None
      BY <3>1, <3>2, ConstantsDistinct DEF Request
    <3>5. /\ k.target \in Mem /\ k.repl \in Mem \cup {None} /\ k.payload.target = k.target
          /\ k.resp = [superseded |-> k.target, repl |-> k.repl]
      BY <1>1, <3>4 DEF LineageInv, KeyedRowsAreWhole
    <3>6. /\ k.target = req[c].target
          /\ k.resp.superseded = k.target /\ k.resp.repl = k.repl
      BY <3>3, <3>5 DEF PayloadOf
    <3>7. k.target \in live /\ (k.repl # None => k.repl \in live) /\ effects[k.target] = 1
      BY <1>1, <3>5 DEF LineageInv, TypeOK, TargetsAreClosed, ReplacementsAreLive, EffectsMatchRows
    <3>8. QED BY <3>1, <3>3, <3>5, <3>6, <3>7 DEF rows
  <2>2. CASE RefuseMissing(c) /\ reply'[c] = Refused("not_found")
    BY <1>1, <2>2 DEF Refused
  <2>3. CASE RefuseSuperseded(c) /\ reply'[c] = Refused("already_superseded")
    BY <1>1, <2>3 DEF Refused
  <2>4. CASE Supersede(c)
    <3>1. req[c] \in Request /\ req[c].target \in live /\ req[c].target \notin closed
      BY <1>1, <2>4 DEF Supersede, IsCurrent, LineageInv, TypeOK
    <3>2. PICK n \in Replacement(req[c]) :
             /\ live' = live \cup ({n} \ {None})
             /\ Answer(c, [kind |-> "ok", resp |-> NewCorrection(req[c], n).resp])
      BY <2>4 DEF Supersede
    <3>3. reply'[c].resp = [superseded |-> req[c].target, repl |-> n]
      BY <1>1, <3>2 DEF Answer, NewCorrection, LineageInv, TypeOK
    <3>4. effects[req[c].target] = 0 /\ effects' = [effects EXCEPT ![req[c].target] = @ + 1]
      BY <1>1, <2>4, <3>1 DEF Supersede, LineageInv, TypeOK, EffectsMatchRows
    <3>5. QED BY <1>1, <3>1, <3>2, <3>3, <3>4 DEF LineageInv, TypeOK
  <2>5. QED BY <1>1, <2>1, <2>2, <2>3, <2>4, WhoReplies
<1>2. LineageInv /\ [Next]_vars =>
        [\A c \in Client :
          (reply'[c] # reply[c] /\ reply'[c] # None /\ reply'[c].kind = "ok")
            => /\ reply'[c].resp.superseded = req[c].target
               /\ {reply'[c].resp.superseded, reply'[c].resp.repl} \subseteq live' \cup {None}
               /\ effects'[req[c].target] = 1]_vars
  BY <1>1
<1>3. QED BY <1>2, LineageInvariant, PTL DEF Spec, RepliesAreCurrent

\* What a caller of contradict is told is true, first time or on a retry.
THEOREM RepliesAreHonest == Spec => RepliesAreTrue
<1>1. QED BY RetryNeverConflicts, SuccessIsCurrent, PTL DEF RepliesAreTrue

\* A row of corrections that is gone was purged from, or belonged to a part of
\* the log that no memory was left to trace.
THEOREM LogIsAppendOnly == Spec => AppendOnly
<1>1. ASSUME LineageInv, [Next]_vars, NEW k \in corrections \ corrections'
      PROVE  \E m \in erased' \ erased : Touches(k, m) \/ Ends(k) \cap Mem = {}
  <2>1. CASE \E m \in Mem, t \in Tomb : Purge(m, t)
    <3>1. PICK m \in Mem, t \in Tomb : Purge(m, t)
      BY <2>1
    <3>2. m \in erased' \ erased
      BY <1>1, <3>1 DEF Purge, LineageInv, TypeOK
    <3>3. Touches(k, m) \/ Ends(k) \cap Mem = {}
      BY <1>1, <3>1, PurgeKeepsRows DEF Touches
    <3>4. QED BY <3>2, <3>3
  <2>2. CASE ~\E m \in Mem, t \in Tomb : Purge(m, t)
    <3>1. corrections \subseteq corrections'
      BY <1>1, <2>2 DEF Next, vars, rows, Observe, Call, PreCheck, ReplayLocked, Replay,
                        RefuseMissing, RefuseSuperseded, Supersede, Leave
    <3>2. QED BY <1>1, <3>1
  <2>3. QED BY <2>1, <2>2
<1>2. LineageInv /\ [Next]_vars =>
        [\A k \in corrections \ corrections' :
          \E m \in erased' \ erased :
              \/ Touches(k, m)
              \/ Ends(k) \cap Mem = {}]_vars
  BY <1>1
<1>3. QED BY <1>2, LineageInvariant, PTL DEF Spec, AppendOnly

-----------------------------------------------------------------------------
(* Chains: what the rows of corrections look like to Store.trace.           *)

\* The versions of one memory, oldest first: a row leads from each node to the
\* next, none into the first, and none but a retraction out of the last.
IsChain(s) ==
    /\ s \in Seq(live \cup tombstones) /\ s # <<>>
    /\ Replacing(s[1]) = {}
    /\ \A i \in 1..(Len(s) - 1) : \E k \in corrections : k.target = s[i] /\ k.repl = s[i + 1]
    /\ \A k \in Targeting(s[Len(s)]) : k.repl = None

\* Every memory and every tombstone stands in such a chain, so that the walks
\* of trace end, and end where the chain does.
EveryNodeIsChained ==
    \A n \in live \cup tombstones : \E s : IsChain(s) /\ \E i \in DOMAIN s : s[i] = n

\* The log, and that all of it is chains: the inductive invariant of trace.
ChainInv == LineageInv /\ EveryNodeIsChained

\* A set of numbers has a least one.
LEMMA LeastOne ==
    ASSUME NEW T, T \subseteq Nat, T # {}
    PROVE  \E x \in T : \A y \in T : x <= y
<1>1. IsWellFoundedOn(OpToRel(<, Nat), Nat)
  BY NatLessThanWellFounded, Zenon
<1>2. PICK x \in T : \A y \in T : ~(<<y, x>> \in OpToRel(<, Nat))
  BY <1>1, WFMin, Zenon
<1>3. \A y \in T : ~(y < x)
  BY <1>2 DEF OpToRel
<1>4. QED BY <1>3

\* A chain is not empty and NULL is none of its nodes.
LEMMA ChainShape ==
    ASSUME LineageInv, NEW s, IsChain(s)
    PROVE  /\ Len(s) \in Nat /\ Len(s) >= 1 /\ DOMAIN s = 1..Len(s)
           /\ \A i \in 1..Len(s) : s[i] \in live \cup tombstones /\ s[i] \in Node /\ s[i] # None
<1>1. s \in Seq(live \cup tombstones) /\ s # <<>>
  BY DEF IsChain
<1>2. Len(s) \in Nat /\ DOMAIN s = 1..Len(s) /\ Len(s) # 0
  BY <1>1, LenProperties, EmptySeq
<1>3. live \cup tombstones \subseteq Node /\ None \notin Node
  BY ConstantsDistinct DEF LineageInv, TypeOK, Node
<1>4. \A i \in 1..Len(s) : s[i] \in live \cup tombstones
  BY <1>1, <1>2, ElementOfSeq
<1>5. QED BY <1>2, <1>3, <1>4

\* The row into a node of a chain is the one from the node before it.
LEMMA RowBefore ==
    ASSUME LineageInv, NEW s, IsChain(s), NEW i \in 2..Len(s)
    PROVE  /\ Replacing(s[i]) # {} /\ RowOf(Replacing(s[i])) \in corrections
           /\ RowOf(Replacing(s[i])).repl = s[i]
           /\ RowOf(Replacing(s[i])).target = s[i - 1]
           /\ \A k \in Replacing(s[i]) : k.target = s[i - 1]
<1>1. Len(s) \in Nat /\ i - 1 \in 1..(Len(s) - 1) /\ (i - 1) + 1 = i /\ s[i] # None
  BY ChainShape
<1>2. PICK k \in corrections : k.target = s[i - 1] /\ k.repl = s[i]
  BY <1>1 DEF IsChain
<1>3. Replacing(s[i]) # {}
  BY <1>2 DEF Replacing
<1>4. RowOf(Replacing(s[i])) \in Replacing(s[i])
  BY <1>3 DEF RowOf
<1>5. \A j \in Replacing(s[i]) : j = k
  BY <1>1, <1>2 DEF Replacing, LineageInv, LineageIsLinear
<1>6. QED BY <1>2, <1>3, <1>4, <1>5 DEF Replacing

\* The row out of a node is the one to the node after it; out of the last
\* there is a retraction or none.
LEMMA RowAfter ==
    ASSUME LineageInv, NEW s, IsChain(s), NEW i \in 1..Len(s)
    PROVE  /\ i < Len(s) =>
                /\ Targeting(s[i]) # {} /\ RowOf(Targeting(s[i])) \in corrections
                /\ RowOf(Targeting(s[i])).target = s[i]
                /\ RowOf(Targeting(s[i])).repl = s[i + 1] /\ s[i + 1] # None
                /\ \A k \in Targeting(s[i]) : k.repl = s[i + 1]
           /\ i = Len(s) => Targeting(s[i]) = {} \/ RowOf(Targeting(s[i])).repl = None
<1>1. Len(s) \in Nat
  BY ChainShape
<1>2. ASSUME i < Len(s)
      PROVE  /\ Targeting(s[i]) # {} /\ RowOf(Targeting(s[i])) \in corrections
             /\ RowOf(Targeting(s[i])).target = s[i]
             /\ RowOf(Targeting(s[i])).repl = s[i + 1] /\ s[i + 1] # None
             /\ \A k \in Targeting(s[i]) : k.repl = s[i + 1]
  <2>1. i \in 1..(Len(s) - 1) /\ i + 1 \in 1..Len(s)
    BY <1>1, <1>2
  <2>2. PICK k \in corrections : k.target = s[i] /\ k.repl = s[i + 1]
    BY <2>1 DEF IsChain
  <2>3. Targeting(s[i]) # {}
    BY <2>2 DEF Targeting
  <2>4. RowOf(Targeting(s[i])) \in Targeting(s[i])
    BY <2>3 DEF RowOf
  <2>5. \A j \in Targeting(s[i]) : j = k
    BY <2>2 DEF Targeting, LineageInv, LineageIsLinear
  <2>6. QED BY <2>1, <2>2, <2>3, <2>4, <2>5, ChainShape DEF Targeting
<1>3. ASSUME i = Len(s), Targeting(s[i]) # {}
      PROVE  RowOf(Targeting(s[i])).repl = None
  <2>1. RowOf(Targeting(s[i])) \in Targeting(s[i])
    BY <1>3 DEF RowOf
  <2>2. QED BY <1>3, <2>1 DEF IsChain
<1>4. QED BY <1>2, <1>3

\* A node has one place, whichever chain it is looked for in.
LEMMA SameIndex ==
    ASSUME LineageInv, NEW s, IsChain(s), NEW u, IsChain(u),
           NEW i \in 1..Len(s), NEW j \in 1..Len(u), s[i] = u[j]
    PROVE  i = j
<1> DEFINE T == {x \in Nat : x \in 1..Len(s) /\ \E y \in 1..Len(u) : s[x] = u[y] /\ x # y}
<1>1. SUFFICES ASSUME T # {} PROVE FALSE
  OBVIOUS
<1>2. PICK x \in T : \A z \in T : x <= z
  <2>1. T \subseteq Nat
    OBVIOUS
  <2>2. QED BY <1>1, <2>1, LeastOne
<1>3. PICK y \in 1..Len(u) : s[x] = u[y] /\ x # y
  BY <1>2
<1>4. Len(s) \in Nat /\ Len(u) \in Nat /\ x \in 1..Len(s)
  BY <1>2, ChainShape
<1>5. CASE x = 1
  <2>1. y \in 2..Len(u)
    BY <1>3, <1>4, <1>5
  <2>2. QED BY <1>3, <1>5, <2>1, RowBefore DEF IsChain
<1>6. CASE x # 1
  <2>1. x \in 2..Len(s)
    BY <1>4, <1>6
  <2>2. y # 1
    <3>1. Replacing(s[x]) # {}
      BY <2>1, RowBefore
    <3>2. Replacing(u[1]) = {}
      BY DEF IsChain
    <3>3. QED BY <1>3, <3>1, <3>2
  <2>3. y \in 2..Len(u)
    BY <1>4, <2>2
  <2>4. s[x - 1] = u[y - 1]
    <3>1. RowOf(Replacing(s[x])).target = s[x - 1]
      BY <2>1, RowBefore
    <3>2. RowOf(Replacing(u[y])).target = u[y - 1]
      BY <2>3, RowBefore
    <3>3. QED BY <1>3, <3>1, <3>2
  <2>5. x - 1 \in T
    BY <1>3, <1>4, <2>1, <2>3, <2>4
  <2>6. QED BY <1>2, <1>4, <2>5
<1>7. QED BY <1>5, <1>6

\* Two chains that meet at a place agree on every node before it.
LEMMA SameBelow ==
    ASSUME LineageInv, NEW s, IsChain(s), NEW u, IsChain(u),
           NEW i \in 1..Len(s), i \in 1..Len(u), s[i] = u[i]
    PROVE  \A l \in 1..i : s[l] = u[l]
<1> DEFINE T == {d \in Nat : d < i /\ s[i - d] # u[i - d]}
<1>1. SUFFICES ASSUME T # {} PROVE FALSE
  <2>1. ASSUME T = {}, NEW l \in 1..i PROVE s[l] = u[l]
    <3>1. i - l \in Nat /\ i - l < i /\ i - (i - l) = l
      OBVIOUS
    <3>2. QED BY <2>1, <3>1
  <2>2. QED BY <2>1
<1>2. PICK d \in T : \A z \in T : d <= z
  <2>1. T \subseteq Nat
    OBVIOUS
  <2>2. QED BY <1>1, <2>1, LeastOne
<1>3. Len(s) \in Nat /\ Len(u) \in Nat /\ d \in Nat /\ d < i /\ s[i - d] # u[i - d]
  BY <1>2, ChainShape
<1>4. d # 0
  BY <1>3
<1>5. d - 1 \in Nat /\ d - 1 < i /\ i - (d - 1) \in 2..Len(s) /\ i - (d - 1) \in 2..Len(u)
  BY <1>3, <1>4
<1>6. s[i - (d - 1)] = u[i - (d - 1)]
  BY <1>2, <1>3, <1>5
<1>7. s[i - (d - 1) - 1] = u[i - (d - 1) - 1]
  BY <1>5, <1>6, RowBefore
<1>8. i - (d - 1) - 1 = i - d
  BY <1>3
<1>9. QED BY <1>3, <1>7, <1>8

\* And from there to the last they agree too.
LEMMA SameAbove ==
    ASSUME LineageInv, NEW s, IsChain(s), NEW u, IsChain(u),
           NEW i \in 1..Len(s), i \in 1..Len(u), s[i] = u[i]
    PROVE  \A l \in i..Len(s) : l <= Len(u) /\ s[l] = u[l]
<1> DEFINE T == {l \in Nat : l \in i..Len(s) /\ ~(l <= Len(u) /\ s[l] = u[l])}
<1>1. SUFFICES ASSUME T # {} PROVE FALSE
  OBVIOUS
<1>2. PICK l \in T : \A z \in T : l <= z
  <2>1. T \subseteq Nat
    OBVIOUS
  <2>2. QED BY <1>1, <2>1, LeastOne
<1>3. Len(s) \in Nat /\ Len(u) \in Nat /\ l \in i..Len(s) /\ ~(l <= Len(u) /\ s[l] = u[l])
  BY <1>2, ChainShape
<1>4. l # i
  BY <1>3
<1>5. l - 1 \in i..Len(s) /\ l - 1 \in Nat /\ l - 1 \notin T
  BY <1>2, <1>3, <1>4
<1>6. l - 1 <= Len(u) /\ s[l - 1] = u[l - 1]
  BY <1>5
<1>7. l - 1 \in 1..Len(s) /\ l - 1 \in 1..Len(u) /\ l - 1 < Len(s) /\ (l - 1) + 1 = l
  BY <1>3, <1>5, <1>6
<1>8. /\ Targeting(s[l - 1]) # {} /\ RowOf(Targeting(s[l - 1])).repl = s[l] /\ s[l] # None
  BY <1>7, RowAfter
<1>9. l - 1 < Len(u)
  <2>1. l - 1 # Len(u)
    BY <1>6, <1>7, <1>8, RowAfter
  <2>2. QED BY <1>3, <1>7, <2>1
<1>10. s[l] = u[l]
  BY <1>6, <1>7, <1>8, <1>9, RowAfter
<1>11. QED BY <1>3, <1>7, <1>9, <1>10

\* Chains that share a node are one chain.
LEMMA OneChain ==
    ASSUME LineageInv, NEW s, IsChain(s), NEW u, IsChain(u),
           NEW i \in 1..Len(s), NEW j \in 1..Len(u), s[i] = u[j]
    PROVE  s = u /\ i = j
<1>1. i = j
  BY SameIndex
<1>2. Len(s) \in Nat /\ Len(u) \in Nat
  BY ChainShape
<1>3. \A l \in 1..i : s[l] = u[l]
  BY <1>1, SameBelow
<1>4. \A l \in i..Len(s) : l <= Len(u) /\ s[l] = u[l]
  BY <1>1, SameAbove
<1>5. \A l \in i..Len(u) : l <= Len(s) /\ u[l] = s[l]
  BY <1>1, SameAbove
<1>6. Len(s) = Len(u)
  BY <1>1, <1>2, <1>4, <1>5
<1>7. \A l \in 1..Len(s) : s[l] = u[l]
  BY <1>1, <1>2, <1>3, <1>4
<1>8. s \in Seq(Node) /\ u \in Seq(Node)
  BY ChainShape DEF IsChain, LineageInv, TypeOK, Node
<1>9. QED BY <1>1, <1>6, <1>7, <1>8, SeqEqual

-----------------------------------------------------------------------------
(* Every step keeps every node in a chain.                                  *)

\* A chain outlasts new rows, unless one enters its first node or leads on
\* from its last.
LEMMA ChainStays ==
    ASSUME LineageInv, NEW s, IsChain(s), corrections \subseteq corrections',
           \A i \in 1..Len(s) : s[i] \in live' \cup tombstones',
           \A k \in corrections' \ corrections :
               k.repl # s[1] /\ (k.target = s[Len(s)] => k.repl = None)
    PROVE  IsChain(s)'
<1>1. Len(s) \in Nat /\ Len(s) >= 1 /\ DOMAIN s = 1..Len(s)
  BY ChainShape
<1>2. s \in Seq(live' \cup tombstones') /\ s # <<>>
  BY <1>1, SeqDef DEF IsChain
<1>3. Replacing(s[1])' = {}
  BY DEF IsChain, Replacing
<1>4. \A i \in 1..(Len(s) - 1) : \E k \in corrections' : k.target = s[i] /\ k.repl = s[i + 1]
  BY DEF IsChain
<1>5. \A k \in Targeting(s[Len(s)])' : k.repl = None
  BY DEF IsChain, Targeting
<1>6. QED BY <1>2, <1>3, <1>4, <1>5 DEF IsChain

\* Steps that touch neither rows nor nodes leave every chain as it is.
LEMMA RowsUnchanged ==
    ASSUME ChainInv, corrections' = corrections, live \subseteq live', tombstones' = tombstones
    PROVE  \A s : IsChain(s) => IsChain(s)'
<1> SUFFICES ASSUME NEW s, IsChain(s) PROVE IsChain(s)'
  OBVIOUS
<1>1. \A i \in 1..Len(s) : s[i] \in live' \cup tombstones'
  BY ChainShape DEF ChainInv
<1>2. QED BY <1>1, ChainStays DEF ChainInv

\* A new memory is a chain of one.
LEMMA ObserveChains ==
    ASSUME ChainInv, NEW m \in Mem, NEW bounded \in BOOLEAN, Observe(m, bounded)
    PROVE  EveryNodeIsChained' /\ IsChain(<<m>>)'
<1>1. /\ m \notin live /\ live' = live \cup {m} /\ corrections' = corrections /\ tombstones' = tombstones
  BY DEF Observe, Fresh
<1>2. <<m>> \in Seq(live' \cup tombstones') /\ <<m>> # <<>> /\ Len(<<m>>) = 1 /\ <<m>>[1] = m
  BY <1>1
<1>3. \A k \in corrections : k.target # m /\ k.repl # m
  BY <1>1 DEF ChainInv, LineageInv, TypeOK, TargetsAreClosed, ReplacementsAreLive
<1>4. Replacing(m)' = {} /\ Targeting(m)' = {}
  BY <1>1, <1>3 DEF Replacing, Targeting
<1>5. IsChain(<<m>>)'
  BY <1>2, <1>4 DEF IsChain
<1>6. ASSUME NEW n \in live' \cup tombstones'
      PROVE  \E s : IsChain(s)' /\ \E i \in DOMAIN s : s[i] = n
  <2>1. CASE n = m
    BY <1>2, <1>5, <2>1
  <2>2. CASE n # m
    BY <1>1, <2>2, RowsUnchanged DEF ChainInv, EveryNodeIsChained
  <2>3. QED BY <2>1, <2>2
<1>7. QED BY <1>5, <1>6 DEF EveryNodeIsChained

\* The memory that is corrected is the last of its chain, being current.
LEMMA CurrentIsLast ==
    ASSUME LineageInv, NEW s, IsChain(s), NEW i \in 1..Len(s), s[i] \in Mem, s[i] \notin closed
    PROVE  i = Len(s)
<1>1. Len(s) \in Nat
  BY ChainShape
<1>2. SUFFICES ASSUME i < Len(s) PROVE FALSE
  BY <1>1
<1>3. RowOf(Targeting(s[i])) \in corrections /\ RowOf(Targeting(s[i])).target = s[i]
  BY <1>2, RowAfter
<1>4. QED BY <1>3 DEF LineageInv, TargetsAreClosed

\* What a committed correction writes, for the lemmas about chains.
LEMMA SupersedeWrites ==
    ASSUME LineageInv, NEW c \in Client, Supersede(c)
    PROVE  \E n : \E k \in Correction :
             /\ k.target = req[c].target /\ k.repl = n
             /\ n \in Mem \cup {None} /\ (n # None => n \notin live /\ n \notin erased)
             /\ corrections' = corrections \cup {k} /\ live' = live \cup ({n} \ {None})
             /\ tombstones' = tombstones /\ erased' = erased
             /\ closed' = closed \cup {req[c].target}
             /\ k.target \in Mem /\ k.target \in live /\ k.target \notin closed
<1>1. req[c] \in Request /\ req[c].target \in live /\ req[c].target \notin closed /\ req[c].target \in Mem
  BY DEF Supersede, IsCurrent, LineageInv, TypeOK
<1>2. PICK n \in Replacement(req[c]) :
         /\ live' = live \cup ({n} \ {None})
         /\ corrections' = corrections \cup {NewCorrection(req[c], n)}
  BY DEF Supersede
<1> DEFINE k == NewCorrection(req[c], n)
<1>3. /\ k \in Correction /\ k.target = req[c].target /\ k.repl = n
      /\ n \in Mem \cup {None} /\ (n # None => n \notin live /\ n \notin erased)
  BY <1>1, NewRow
<1>4. tombstones' = tombstones /\ erased' = erased /\ closed' = closed \cup {req[c].target}
  BY DEF Supersede
<1> HIDE DEF k
<1>5. corrections' = corrections \cup {k}
  BY <1>2 DEF k
<1>6. QED BY <1>1, <1>2, <1>3, <1>4, <1>5

\* A correction leaves the chains it does not name alone, a retraction all of
\* them.
LEMMA OthersStay ==
    ASSUME LineageInv, NEW k \in Correction, NEW n \in Mem \cup {None}, k.repl = n,
           n # None => n \notin live,
           corrections' = corrections \cup {k}, live' = live \cup ({n} \ {None}),
           tombstones' = tombstones,
           NEW s, IsChain(s), n = None \/ s[Len(s)] # k.target
    PROVE  IsChain(s)'
<1>1. /\ Len(s) \in Nat /\ Len(s) >= 1
      /\ \A i \in 1..Len(s) : s[i] \in live \cup tombstones /\ s[i] # None
  BY ChainShape
<1>2. n \notin live \cup tombstones
  BY ConstantsDistinct DEF LineageInv, TypeOK
<1>3. k.repl # s[1] /\ (k.target = s[Len(s)] => k.repl = None)
  BY <1>1, <1>2
<1>4. QED BY <1>1, <1>3, ChainStays

\* A replacement extends the chain of its target by one.
LEMMA TargetGrows ==
    ASSUME LineageInv, NEW k \in Correction, NEW n \in Mem, k.repl = n, n \notin live,
           corrections' = corrections \cup {k}, live' = live \cup {n},
           tombstones' = tombstones,
           NEW s, IsChain(s), s[Len(s)] = k.target
    PROVE  /\ IsChain(Append(s, n))'
           /\ Len(Append(s, n)) = Len(s) + 1 /\ Append(s, n)[Len(s) + 1] = n
           /\ \A i \in 1..Len(s) : Append(s, n)[i] = s[i]
<1> DEFINE u == Append(s, n)
<1>1. /\ Len(s) \in Nat /\ Len(s) >= 1 /\ DOMAIN s = 1..Len(s)
      /\ \A i \in 1..Len(s) : s[i] \in live \cup tombstones /\ s[i] # None
  BY ChainShape
<1>2. n \notin live \cup tombstones /\ n # None
  BY ConstantsDistinct DEF LineageInv, TypeOK
<1>3. s \in Seq(live' \cup tombstones')
  BY DEF IsChain
<1>4. /\ u \in Seq(live' \cup tombstones') /\ Len(u) = Len(s) + 1 /\ u[Len(s) + 1] = n
      /\ \A i \in 1..Len(s) : u[i] = s[i]
  BY <1>1, <1>3, AppendProperties
<1> HIDE DEF u
<1>5. u # <<>>
  BY <1>1, <1>4, EmptySeq
<1>6. Replacing(u[1])' = {}
  BY <1>1, <1>2, <1>4 DEF IsChain, Replacing
<1>7. \A i \in 1..(Len(u) - 1) : \E j \in corrections' : j.target = u[i] /\ j.repl = u[i + 1]
  <2>1. Len(u) - 1 = Len(s) /\ Len(s) \in Nat
    BY <1>1, <1>4
  <2>2. SUFFICES ASSUME NEW i \in 1..Len(s)
                 PROVE  \E j \in corrections' : j.target = u[i] /\ j.repl = u[i + 1]
    BY <2>1
  <2>3. CASE i = Len(s)
    BY <1>1, <1>4, <2>3
  <2>4. CASE i # Len(s)
    <3>1. i \in 1..(Len(s) - 1) /\ i + 1 \in 1..Len(s)
      BY <2>1, <2>4
    <3>2. u[i] = s[i] /\ u[i + 1] = s[i + 1]
      BY <1>4, <3>1
    <3>3. PICK j \in corrections : j.target = s[i] /\ j.repl = s[i + 1]
      BY <3>1 DEF IsChain
    <3>4. j \in corrections'
      OBVIOUS
    <3>5. QED BY <3>2, <3>3, <3>4
  <2>5. QED BY <2>3, <2>4
<1>8. \A j \in corrections : j.target # n
  BY <1>2 DEF LineageInv, TypeOK, TargetsAreClosed
<1>9. k.target # n
  BY <1>1, <1>2
<1>10. \A j \in Targeting(u[Len(u)])' : j.repl = None
  BY <1>4, <1>8, <1>9 DEF Targeting
<1>11. IsChain(u)'
  BY <1>4, <1>5, <1>6, <1>7, <1>10 DEF IsChain
<1>12. QED BY <1>4, <1>11 DEF u

\* contradict keeps every node in a chain, the replacement in its target's.
LEMMA SupersedeChains ==
    ASSUME ChainInv, NEW c \in Client, Supersede(c)
    PROVE  EveryNodeIsChained'
<1>a. PICK n : \E k \in Correction :
             /\ k.target = req[c].target /\ k.repl = n
             /\ n \in Mem \cup {None} /\ (n # None => n \notin live /\ n \notin erased)
             /\ corrections' = corrections \cup {k} /\ live' = live \cup ({n} \ {None})
             /\ tombstones' = tombstones /\ erased' = erased
             /\ closed' = closed \cup {req[c].target}
             /\ k.target \in Mem /\ k.target \in live /\ k.target \notin closed
  BY SupersedeWrites DEF ChainInv
<1>1. PICK k \in Correction :
             /\ k.target = req[c].target /\ k.repl = n
             /\ n \in Mem \cup {None} /\ (n # None => n \notin live /\ n \notin erased)
             /\ corrections' = corrections \cup {k} /\ live' = live \cup ({n} \ {None})
             /\ tombstones' = tombstones /\ erased' = erased
             /\ closed' = closed \cup {req[c].target}
             /\ k.target \in Mem /\ k.target \in live /\ k.target \notin closed
  BY <1>a
<1> SUFFICES ASSUME NEW x \in live' \cup tombstones'
             PROVE  \E s : IsChain(s)' /\ \E i \in DOMAIN s : s[i] = x
  BY DEF EveryNodeIsChained
<1>2. ASSUME NEW s, IsChain(s), NEW i \in DOMAIN s, s[i] = k.target
      PROVE  s[Len(s)] = k.target
  <2>1. i \in 1..Len(s)
    BY <1>2, ChainShape DEF ChainInv
  <2>2. QED BY <1>1, <1>2, <2>1, CurrentIsLast DEF ChainInv
<1>3. PICK t : IsChain(t) /\ \E i \in DOMAIN t : t[i] = k.target
  BY <1>1 DEF ChainInv, EveryNodeIsChained
<1>4. t[Len(t)] = k.target
  BY <1>2, <1>3
<1>5. CASE x = n
  <2>1. n \in Mem /\ n \notin live /\ live' = live \cup {n}
    BY <1>1, <1>5, ConstantsDistinct DEF ChainInv, LineageInv, TypeOK
  <2>2. IsChain(Append(t, n))' /\ Len(Append(t, n)) = Len(t) + 1 /\ Append(t, n)[Len(t) + 1] = n
    BY <1>1, <1>3, <1>4, <2>1, TargetGrows DEF ChainInv
  <2>3. Len(t) \in Nat /\ t \in Seq(live \cup tombstones)
    BY <1>3, ChainShape DEF ChainInv, IsChain
  <2>4. Len(t) + 1 \in DOMAIN Append(t, n)
    BY <2>2, <2>3
  <2>5. QED BY <1>5, <2>2, <2>4
<1>6. CASE x # n
  <2>1. x \in live \cup tombstones
    BY <1>1, <1>6
  <2>2. PICK s : IsChain(s) /\ \E i \in DOMAIN s : s[i] = x
    BY <2>1 DEF ChainInv, EveryNodeIsChained
  <2>3. CASE n = None \/ s[Len(s)] # k.target
    <3>1. IsChain(s)'
      BY <1>1, <2>2, <2>3, OthersStay DEF ChainInv
    <3>2. QED BY <2>2, <3>1
  <2>4. CASE n # None /\ s[Len(s)] = k.target
    <3>1. n \in Mem /\ n \notin live /\ live' = live \cup {n}
      BY <1>1, <2>4
    <3>2. IsChain(Append(s, n))' /\ \A i \in 1..Len(s) : Append(s, n)[i] = s[i]
      BY <1>1, <2>2, <2>4, <3>1, TargetGrows DEF ChainInv
    <3>3. Len(s) \in Nat /\ DOMAIN s = 1..Len(s) /\ s \in Seq(live \cup tombstones)
      BY <2>2, ChainShape DEF ChainInv, IsChain
    <3>4. DOMAIN s \subseteq DOMAIN Append(s, n)
      BY <3>3
    <3>5. QED BY <2>2, <3>2, <3>3, <3>4
  <2>5. QED BY <2>3, <2>4
<1>7. QED BY <1>5, <1>6

-----------------------------------------------------------------------------
(* A purge puts a tombstone where the memory stood.                         *)

\* The chain with the purged memory's tombstone in its place.
Gapped(s, m, t) == [i \in 1..Len(s) |-> IF s[i] = m THEN t ELSE s[i]]

\* Every row a purge leaves was a row before, with the memory for the
\* tombstone.
LEMMA RowWas ==
    ASSUME LineageInv, NEW m \in Mem, NEW t \in Tomb, Purge(m, t), NEW k \in corrections'
    PROVE  \E j \in corrections :
              /\ j.target = IF k.target = t THEN m ELSE k.target
              /\ j.repl = IF k.repl = t THEN m ELSE k.repl
<1>1. m \in live /\ t \in Tomb \ tombstones
  BY DEF Purge
<1>2. k \in Scrubbed(m, t) /\ k.target # m /\ k.repl # m
  BY PurgedRow
<1>3. CASE k \in corrections /\ k.target # m /\ k.repl # m
  BY <1>1, <1>3, EndsOnRecord
<1>4. CASE \E j \in corrections :
              /\ j.target = m \/ j.repl = m
              /\ ~(j.target = m /\ j.repl = None)
              /\ k = Scrub(j, m, t)
  <2>1. PICK j \in corrections : (j.target = m \/ j.repl = m) /\ k = Scrub(j, m, t)
    BY <1>4
  <2>2. QED BY <1>1, <2>1, ScrubbedFields, EndsOnRecord
<1>5. QED BY <1>1, <1>2, <1>3, <1>4, ScrubbedRow

\* Every row but a retraction of the purged memory has one in its place.
LEMMA RowBecomes ==
    ASSUME LineageInv, NEW m \in live, NEW t \in Tomb \ tombstones,
           NEW j \in corrections, j.repl # None
    PROVE  \E k \in Scrubbed(m, t) :
              /\ k.target = IF j.target = m THEN t ELSE j.target
              /\ k.repl = IF j.repl = m THEN t ELSE j.repl
<1>1. CASE j.target # m /\ j.repl # m
  <2>1. j \in Scrubbed(m, t)
    BY <1>1 DEF Scrubbed, Touches
  <2>2. QED BY <1>1, <2>1
<1>2. CASE j.target = m \/ j.repl = m
  <2>1. Scrub(j, m, t) \in Scrubbed(m, t)
    BY <1>2 DEF Scrubbed, Touches
  <2>2. QED BY <1>2, <2>1, ScrubbedFields
<1>3. QED BY <1>1, <1>2

\* A set of places that has one and the neighbours of each has them all.
LEMMA NeighboursAreAll ==
    ASSUME NEW n \in Nat, NEW I \in SUBSET (1..n), I # {},
           \A x \in I : (x < n => x + 1 \in I) /\ (x > 1 => x - 1 \in I)
    PROVE  I = 1..n
<1>1. I \subseteq Nat
  OBVIOUS
<1>2. PICK x \in I : \A y \in I : x <= y
  BY <1>1, LeastOne
<1>3. x = 1
  <2>1. x \in 1..n /\ ~(x > 1)
    <3>1. ASSUME x > 1 PROVE FALSE
      <4>1. x - 1 \in I
        BY <3>1
      <4>2. QED BY <1>2, <1>1, <4>1
    <3>2. QED BY <3>1
  <2>2. QED BY <2>1
<1> DEFINE T == {y \in Nat : y \in 1..n /\ y \notin I}
<1>4. SUFFICES ASSUME T # {} PROVE FALSE
  <2>1. ASSUME T = {} PROVE \A y \in 1..n : y \in I
    BY <2>1
  <2>2. ASSUME \A y \in 1..n : y \in I PROVE I = 1..n
    BY <2>2
  <2>3. QED BY <2>1, <2>2
<1>5. PICK y \in T : \A z \in T : y <= z
  <2>1. T \subseteq Nat
    OBVIOUS
  <2>2. QED BY <1>4, <2>1, LeastOne
<1>6. y \in Nat /\ y \in 1..n /\ y \notin I /\ y # 1
  BY <1>2, <1>3, <1>5
<1>7. y - 1 \in 1..n /\ y - 1 \in Nat /\ ~(y <= y - 1)
  BY <1>6
<1>8. y - 1 \in I
  BY <1>5, <1>7
<1>9. y - 1 < n /\ (y - 1) + 1 = y
  BY <1>6
<1>10. QED BY <1>6, <1>8, <1>9

\* The prune takes none of the rows of a chain that still has a node on
\* record: they are one part of the log, and that node is in it.
LEMMA ChainIsKept ==
    ASSUME NEW rs, NEW u, Len(u) \in Nat,
           \A l \in 1..Len(u) : u[l] # None,
           \A l \in 1..(Len(u) - 1) : \E k \in rs : k.target = u[l] /\ k.repl = u[l + 1],
           NEW p \in 1..Len(u), u[p] \in Mem \/ \E k \in Pruned(rs) : u[p] \in Ends(k)
    PROVE  \A l \in 1..(Len(u) - 1) : \E k \in Pruned(rs) : k.target = u[l] /\ k.repl = u[l + 1]
<1> SUFFICES ASSUME NEW l \in 1..(Len(u) - 1)
             PROVE  \E k \in Pruned(rs) : k.target = u[l] /\ k.repl = u[l + 1]
  OBVIOUS
<1>1. PICK k \in rs : k.target = u[l] /\ k.repl = u[l + 1]
  OBVIOUS
<1>2. SUFFICES ASSUME k \in ErasedOnly(rs) PROVE FALSE
  BY <1>1 DEF Pruned
<1>3. PICK z \in SUBSET rs : k \in z /\ Component(rs, z) /\ \A j \in z : Ends(j) \cap Mem = {}
  BY <1>2 DEF ErasedOnly
<1> DEFINE n == Len(u) - 1
           I == {x \in 1..n : \E j \in z : j.target = u[x] /\ j.repl = u[x + 1]}
<1>4. n \in Nat /\ l \in 1..n /\ l \in I
  BY <1>1, <1>3
<1>5. ASSUME NEW x \in 1..n, NEW j \in rs, j.target = u[x], j.repl = u[x + 1]
      PROVE  {u[x], u[x + 1]} \subseteq Ends(j)
  BY <1>5 DEF Ends
<1>6. ASSUME NEW x \in I, NEW y \in 1..n, y = x + 1 \/ y = x - 1
      PROVE  y \in I
  <2>1. x \in 1..n
    OBVIOUS
  <2>2. PICK j \in z : j.target = u[x] /\ j.repl = u[x + 1]
    OBVIOUS
  <2>3. PICK i \in rs : i.target = u[y] /\ i.repl = u[y + 1]
    OBVIOUS
  <2>4. {u[x], u[x + 1]} \subseteq Ends(j)
    BY <1>5, <2>1, <2>2
  <2>5. {u[y], u[y + 1]} \subseteq Ends(i)
    BY <1>5, <2>3
  <2>6. u[y] = u[x + 1] \/ u[y + 1] = u[x]
    <3>1. CASE y = x + 1
      BY <3>1
    <3>2. CASE y = x - 1
      <4>1. y + 1 = x
        BY <2>1, <3>2
      <4>2. QED BY <4>1
    <3>3. QED BY <1>6, <3>1, <3>2
  <2>7. Ends(j) \cap Ends(i) # {}
    BY <2>4, <2>5, <2>6
  <2>8. i \in z
    BY <1>3, <2>2, <2>7 DEF Component
  <2>9. QED BY <2>3, <2>8
<1>7. I = 1..n
  <2>1. \A x \in I : (x < n => x + 1 \in I) /\ (x > 1 => x - 1 \in I)
    <3>1. \A x \in I : (x < n => x + 1 \in 1..n) /\ (x > 1 => x - 1 \in 1..n)
      BY <1>4
    <3>2. QED BY <1>6, <3>1
  <2>2. I \in SUBSET (1..n)
    OBVIOUS
  <2>3. QED BY <1>4, <2>1, <2>2, NeighboursAreAll
<1>8. PICK x \in 1..n : p = x \/ p = x + 1
  <2>1. CASE p \in 1..n
    BY <2>1
  <2>2. CASE p \notin 1..n
    <3>1. p = n + 1 /\ n \in 1..n
      BY <1>4, <2>2
    <3>2. QED BY <3>1
  <2>3. QED BY <2>1, <2>2
<1>9. PICK j \in z : j.target = u[x] /\ j.repl = u[x + 1]
  BY <1>7
<1>10. u[p] \in Ends(j)
  BY <1>3, <1>5, <1>8, <1>9
<1>11. CASE u[p] \in Mem
  BY <1>3, <1>9, <1>10, <1>11
<1>12. CASE \E i \in Pruned(rs) : u[p] \in Ends(i)
  <2>1. PICK i \in Pruned(rs) : u[p] \in Ends(i)
    BY <1>12
  <2>2. i \in rs /\ i \notin ErasedOnly(rs)
    BY <2>1 DEF Pruned
  <2>3. i \in z
    BY <1>3, <1>9, <1>10, <2>1, <2>2 DEF Component
  <2>4. QED BY <1>3, <2>2, <2>3 DEF ErasedOnly
<1>13. QED BY <1>11, <1>12

\* What the purge of m does to a chain.
LEMMA PurgeGaps ==
    ASSUME ChainInv, NEW m \in Mem, NEW t \in Tomb, Purge(m, t),
           NEW s, IsChain(s), NEW p \in 1..Len(s),
           Gapped(s, m, t)[p] \in live' \cup tombstones'
    PROVE  IsChain(Gapped(s, m, t))'
<1> DEFINE u == Gapped(s, m, t)
<1>1. /\ m \in live /\ t \in Tomb \ tombstones /\ live' = live \ {m}
      /\ corrections' = Pruned(Scrubbed(m, t)) /\ LineageInv
  BY DEF Purge, ChainInv
<1>2. /\ Len(s) \in Nat /\ Len(s) >= 1 /\ DOMAIN s = 1..Len(s)
      /\ \A i \in 1..Len(s) : s[i] \in live \cup tombstones /\ s[i] \in Node /\ s[i] # None
  BY <1>1, ChainShape
<1>3. /\ u \in Seq(Node) /\ Len(u) = Len(s) /\ DOMAIN u = 1..Len(s)
      /\ \A i \in 1..Len(s) : u[i] = IF s[i] = m THEN t ELSE s[i]
  <2>1. \A i \in 1..Len(s) : (IF s[i] = m THEN t ELSE s[i]) \in Node
    BY <1>2 DEF Node
  <2>2. u \in [1..Len(s) -> Node]
    BY <2>1 DEF Gapped
  <2>3. u \in Seq(Node) /\ Len(u) = Len(s)
    BY <1>2, <2>2 DEF Gapped
  <2>4. QED BY <2>3 DEF Gapped
<1> HIDE DEF u
<1>4. t # m /\ m # None /\ t # None /\ t \notin live \cup tombstones /\ m \notin tombstones
  BY <1>1, ConstantsDistinct DEF LineageInv, TypeOK
<1>5. \A i \in 1..Len(s) : u[i] # None /\ u[i] # m /\ (s[i] = IF u[i] = t THEN m ELSE u[i])
  BY <1>2, <1>3, <1>4
<1>6. ASSUME NEW i \in 1..(Len(s) - 1)
      PROVE  \E k \in Scrubbed(m, t) : k.target = u[i] /\ k.repl = u[i + 1]
  <2>1. i \in 1..Len(s) /\ i + 1 \in 1..Len(s)
    BY <1>2
  <2>2. PICK j \in corrections : j.target = s[i] /\ j.repl = s[i + 1]
    BY DEF IsChain
  <2>3. j.repl # None
    BY <1>2, <2>1, <2>2
  <2>4. PICK k \in Scrubbed(m, t) :
           /\ k.target = IF j.target = m THEN t ELSE j.target
           /\ k.repl = IF j.repl = m THEN t ELSE j.repl
    BY <1>1, <2>3, RowBecomes
  <2>5. QED BY <1>3, <2>1, <2>2, <2>4
<1>7. u[p] \in Mem \/ \E k \in Pruned(Scrubbed(m, t)) : u[p] \in Ends(k)
  <2>1. u[p] \in live' \cup tombstones'
    BY DEF u
  <2>2. LineageInv'
    BY <1>1, PurgeStep
  <2>3. \A x \in tombstones' : \E k \in corrections' : x \in Ends(k)
    BY <2>2 DEF LineageInv, TombstonesTraceable, Ends
  <2>4. live' \subseteq Mem
    BY <2>2 DEF LineageInv, TypeOK
  <2>5. QED BY <1>1, <2>1, <2>3, <2>4
<1>8. \A i \in 1..(Len(u) - 1) : \E k \in corrections' : k.target = u[i] /\ k.repl = u[i + 1]
  <2>1. Len(u) \in Nat /\ p \in 1..Len(u)
    BY <1>2, <1>3
  <2>2. \A i \in 1..Len(u) : u[i] # None
    BY <1>3, <1>5
  <2>3. \A i \in 1..(Len(u) - 1) : \E k \in Scrubbed(m, t) : k.target = u[i] /\ k.repl = u[i + 1]
    BY <1>3, <1>6
  <2>4. QED BY <1>1, <1>7, <2>1, <2>2, <2>3, ChainIsKept
<1>9. \A i \in 1..Len(u) : u[i] \in live' \cup tombstones'
  <2> SUFFICES ASSUME NEW i \in 1..Len(u) PROVE u[i] \in live' \cup tombstones'
    OBVIOUS
  <2>1. i \in 1..Len(s) /\ u[i] \in Node /\ u[i] # None
    BY <1>2, <1>3, <1>5
  <2>2. CASE u[i] \in Mem
    <3>1. u[i] = s[i] /\ u[i] # m
      BY <1>1, <1>3, <1>5, <2>1, <2>2, ConstantsDistinct
    <3>2. QED BY <1>1, <1>2, <1>3, <2>1, <2>2, <3>1, ConstantsDistinct DEF LineageInv, TypeOK
  <2>3. CASE u[i] \in Tomb
    <3>1. LineageInv'
      BY <1>1, PurgeStep
    <3>2. tombstones' = Tomb \cap (UNION {{k.target, k.repl} \ {None} : k \in corrections'})
      BY <3>1 DEF LineageInv, TombstonesTraceable, Ends
    <3>3. CASE Len(s) = 1
      <4>1. i = p
        BY <2>1, <3>3
      <4>2. QED BY <4>1 DEF u
    <3>4. CASE Len(s) # 1
      <4>1. PICK l \in 1..(Len(u) - 1) : i = l \/ i = l + 1
        <5>1. i \in 1..(Len(u) - 1) \/ i - 1 \in 1..(Len(u) - 1)
          BY <1>2, <1>3, <3>4, <2>1
        <5>2. i = (i - 1) + 1
          BY <1>2, <2>1
        <5>3. QED BY <5>1, <5>2
      <4>2. PICK k \in corrections' : k.target = u[l] /\ k.repl = u[l + 1]
        BY <1>8
      <4>3. u[i] \in {k.target, k.repl} \ {None}
        BY <2>1, <4>1, <4>2
      <4>4. QED BY <2>3, <3>2, <4>3
    <3>5. QED BY <3>3, <3>4
  <2>4. QED BY <2>1, <2>2, <2>3 DEF Node
<1>10. u \in Seq(live' \cup tombstones') /\ u # <<>>
  <2>1. u \in [1..Len(s) -> live' \cup tombstones']
    BY <1>3, <1>9
  <2>2. u \in Seq(live' \cup tombstones')
    BY <1>2, <2>1, SeqDef
  <2>3. QED BY <1>2, <1>3, <2>2, EmptySeq
<1>11. Replacing(u[1])' = {}
  <2> SUFFICES ASSUME NEW k \in corrections', k.repl = u[1] PROVE FALSE
    BY DEF Replacing
  <2>1. PICK j \in corrections : j.repl = IF k.repl = t THEN m ELSE k.repl
    BY <1>1, RowWas
  <2>2. 1 \in 1..Len(s)
    BY <1>2
  <2>3. j.repl = s[1]
    BY <1>5, <2>1, <2>2
  <2>4. QED BY <2>3 DEF IsChain, Replacing
<1>12. \A k \in Targeting(u[Len(u)])' : k.repl = None
  <2> SUFFICES ASSUME NEW k \in corrections', k.target = u[Len(u)] PROVE k.repl = None
    BY DEF Targeting
  <2>1. PICK j \in corrections : /\ j.target = IF k.target = t THEN m ELSE k.target
                                 /\ j.repl = IF k.repl = t THEN m ELSE k.repl
    BY <1>1, RowWas
  <2>2. Len(s) \in 1..Len(s) /\ Len(u) = Len(s)
    BY <1>2, <1>3
  <2>3. j.target = s[Len(s)]
    BY <1>5, <2>1, <2>2
  <2>4. j.repl = None
    BY <2>3 DEF IsChain, Targeting
  <2>5. QED BY <1>4, <2>1, <2>4
<1>13. IsChain(u)'
  BY <1>8, <1>10, <1>11, <1>12 DEF IsChain
<1>14. QED BY <1>13 DEF u

\* purge keeps every node in a chain, its tombstone in the memory's.
LEMMA PurgeChains ==
    ASSUME ChainInv, NEW m \in Mem, NEW t \in Tomb, Purge(m, t)
    PROVE  EveryNodeIsChained'
<1>1. /\ m \in live /\ t \in Tomb \ tombstones /\ live' = live \ {m}
      /\ tombstones' \subseteq tombstones \cup {t}
  BY DEF Purge, Referenced
<1>2. m \notin tombstones /\ t \notin live
  BY <1>1, ConstantsDistinct DEF ChainInv, LineageInv, TypeOK
<1> SUFFICES ASSUME NEW n \in live' \cup tombstones'
             PROVE  \E u : IsChain(u)' /\ \E i \in DOMAIN u : u[i] = n
  BY DEF EveryNodeIsChained
<1> DEFINE b == IF n = t THEN m ELSE n
<1>3. b \in live \cup tombstones /\ n = IF b = m THEN t ELSE b
  BY <1>1, <1>2
<1> HIDE DEF b
<1>4. PICK s : IsChain(s) /\ \E i \in DOMAIN s : s[i] = b
  BY <1>3 DEF ChainInv, EveryNodeIsChained
<1>5. PICK p \in 1..Len(s) : s[p] = b
  BY <1>4, ChainShape DEF ChainInv
<1>6. Gapped(s, m, t)[p] = n
  BY <1>3, <1>5 DEF Gapped
<1>7. IsChain(Gapped(s, m, t))'
  BY <1>4, <1>6, PurgeGaps
<1>8. p \in DOMAIN Gapped(s, m, t)
  BY <1>5 DEF Gapped
<1>9. QED BY <1>6, <1>7, <1>8

\* The empty log has no node.
LEMMA InitChains == Init => ChainInv
  BY InitInv DEF Init, ChainInv, EveryNodeIsChained

\* Every step keeps every node of the log in a chain.
LEMMA StepChains == ChainInv /\ [Next]_vars => ChainInv'
<1> SUFFICES ASSUME ChainInv, [Next]_vars PROVE ChainInv'
  OBVIOUS
<1>1. LineageInv'
  BY StepInv DEF ChainInv
<1>2. CASE \E m \in Mem, bounded \in BOOLEAN : Observe(m, bounded)
  BY <1>1, <1>2, ObserveChains DEF ChainInv
<1>3. CASE \E c \in Client : Supersede(c)
  BY <1>1, <1>3, SupersedeChains DEF ChainInv
<1>4. CASE \E m \in Mem, t \in Tomb : Purge(m, t)
  BY <1>1, <1>4, PurgeChains DEF ChainInv
<1>5. CASE corrections' = corrections /\ live' = live /\ tombstones' = tombstones
  <2>1. EveryNodeIsChained'
    BY <1>5, RowsUnchanged DEF ChainInv, EveryNodeIsChained
  <2>2. QED BY <1>1, <2>1 DEF ChainInv
<1>6. CASE \E c \in Client : \/ \E r \in Request : Call(c, r)
                           \/ PreCheck(c) \/ ReplayLocked(c) \/ RefuseMissing(c)
                           \/ RefuseSuperseded(c) \/ Leave(c)
  BY <1>5, <1>6 DEF rows, Call, PreCheck, ReplayLocked, Replay, RefuseMissing, RefuseSuperseded, Leave
<1>7. CASE UNCHANGED vars
  BY <1>5, <1>7 DEF vars
<1>8. QED
  BY <1>2, <1>3, <1>4, <1>6, <1>7 DEF Next

\* Every memory and every tombstone of the log stands in a chain, in every
\* reachable state.
THEOREM ChainsInvariant == Spec => []ChainInv
  BY InitChains, StepChains, PTL DEF Spec

-----------------------------------------------------------------------------
(* The walks of trace.  A recursive function is one that satisfies its       *)
(* equation if any does, so that each walk needs one exhibited: where it     *)
(* stops in the chain of the node it starts at.                              *)

\* The chain of a node and its place there.
ChainOf(n) == CHOOSE s : IsChain(s) /\ \E i \in DOMAIN s : s[i] = n
PlaceOf(n) == CHOOSE i \in 1..Len(ChainOf(n)) : ChainOf(n)[i] = n

\* The place j where a walk back from place i stops: at a node seen or at the first.
StopsBack(s, seen, i, j) ==
    /\ j \in 1..i
    /\ j = 1 \/ s[j] \in seen
    /\ \A l \in (j + 1)..i : s[l] \notin seen

\* The place j before which a walk on from place i stops: at a node seen or after the last.
StopsOn(s, seen, i, j) ==
    /\ j \in i..(Len(s) + 1)
    /\ j = Len(s) + 1 \/ s[j] \in seen
    /\ \A l \in i..(j - 1) : s[l] \notin seen

BackFrom(n, seen) ==
    IF n \in live \cup tombstones
    THEN ChainOf(n)[CHOOSE j \in Nat : StopsBack(ChainOf(n), seen, PlaceOf(n), j)]
    ELSE n

OnFrom(n, seen) ==
    IF n \in live \cup tombstones
    THEN SubSeq(ChainOf(n), PlaceOf(n),
                (CHOOSE j \in Nat : StopsOn(ChainOf(n), seen, PlaceOf(n), j)) - 1)
    ELSE <<>>

\* A node on record is in its chain, and every chain it is in is that one.
LEMMA ChainOfNode ==
    ASSUME ChainInv, NEW s, IsChain(s), NEW i \in 1..Len(s)
    PROVE  ChainOf(s[i]) = s /\ PlaceOf(s[i]) = i
<1>1. LineageInv /\ DOMAIN s = 1..Len(s)
  BY ChainShape DEF ChainInv
<1>2. IsChain(ChainOf(s[i])) /\ \E j \in DOMAIN ChainOf(s[i]) : ChainOf(s[i])[j] = s[i]
  BY <1>1 DEF ChainOf
<1>3. PICK j \in 1..Len(ChainOf(s[i])) : ChainOf(s[i])[j] = s[i]
  BY <1>1, <1>2, ChainShape
<1>4. ChainOf(s[i]) = s
  BY <1>1, <1>2, <1>3, OneChain
<1>5. PlaceOf(s[i]) \in 1..Len(s) /\ s[PlaceOf(s[i])] = s[i]
  BY <1>4 DEF PlaceOf
<1>6. QED BY <1>1, <1>4, <1>5, OneChain

\* Where a walk back stops is one place.
LEMMA BackStops ==
    ASSUME NEW s, NEW seen, NEW i \in Nat, i >= 1
    PROVE  \E j \in Nat : /\ StopsBack(s, seen, i, j)
                          /\ \A k \in Nat : StopsBack(s, seen, i, k) => k = j
<1> DEFINE T == {d \in Nat : d < i /\ (i - d = 1 \/ s[i - d] \in seen)}
<1>1. i - 1 \in T
  OBVIOUS
<1>2. PICK d \in T : \A e \in T : d <= e
  <2>1. T \subseteq Nat /\ T # {}
    BY <1>1
  <2>2. QED BY <2>1, LeastOne
<1> DEFINE j == i - d
<1>3. d \in Nat /\ d < i /\ j \in 1..i /\ (j = 1 \/ s[j] \in seen)
  BY <1>2
<1>4. ASSUME NEW l \in (j + 1)..i PROVE s[l] \notin seen
  <2>1. i - l \in Nat /\ i - l < d /\ i - (i - l) = l /\ i - l < i
    BY <1>3
  <2>2. i - l \notin T
    BY <1>2, <1>3, <2>1
  <2>3. QED BY <2>1, <2>2
<1>5. StopsBack(s, seen, i, j)
  BY <1>3, <1>4 DEF StopsBack
<1> HIDE DEF j, T
<1>6. ASSUME NEW k \in Nat, StopsBack(s, seen, i, k) PROVE k = j
  <2>1. k \in 1..i /\ (k = 1 \/ s[k] \in seen) /\ \A l \in (k + 1)..i : s[l] \notin seen
    BY <1>6 DEF StopsBack
  <2>2. ~(j < k)
    BY <1>3, <1>4, <2>1
  <2>3. ~(k < j)
    BY <1>3, <2>1
  <2>4. QED BY <1>3, <2>1, <2>2, <2>3
<1>7. QED BY <1>3, <1>5, <1>6

\* So is where a walk on stops.
LEMMA OnStops ==
    ASSUME NEW s, NEW seen, Len(s) \in Nat, NEW i \in 1..Len(s)
    PROVE  \E j \in Nat : /\ StopsOn(s, seen, i, j)
                          /\ \A k \in Nat : StopsOn(s, seen, i, k) => k = j
<1> DEFINE T == {l \in Nat : l \in i..(Len(s) + 1) /\ (l = Len(s) + 1 \/ s[l] \in seen)}
<1>1. Len(s) + 1 \in T
  OBVIOUS
<1>2. PICK j \in T : \A e \in T : j <= e
  <2>1. T \subseteq Nat /\ T # {}
    BY <1>1
  <2>2. QED BY <2>1, LeastOne
<1>3. j \in Nat /\ j \in i..(Len(s) + 1) /\ (j = Len(s) + 1 \/ s[j] \in seen)
  BY <1>2
<1>4. ASSUME NEW l \in i..(j - 1) PROVE s[l] \notin seen
  <2>1. l \in Nat /\ l \in i..(Len(s) + 1) /\ ~(j <= l)
    BY <1>3
  <2>2. QED BY <1>2, <2>1
<1>5. StopsOn(s, seen, i, j)
  BY <1>3, <1>4 DEF StopsOn
<1> HIDE DEF T
<1>6. ASSUME NEW k \in Nat, StopsOn(s, seen, i, k) PROVE k = j
  <2>1. k \in i..(Len(s) + 1) /\ (k = Len(s) + 1 \/ s[k] \in seen) /\ \A l \in i..(k - 1) : s[l] \notin seen
    BY <1>6 DEF StopsOn
  <2>2. ~(j < k)
    BY <1>3, <2>1
  <2>3. ~(k < j)
    BY <1>3, <1>4, <2>1
  <2>4. QED BY <1>3, <2>1, <2>2, <2>3
<1>7. QED BY <1>3, <1>5, <1>6

\* The equation of the walk back has a solution.
LEMMA BackEquation ==
    ASSUME ChainInv, NEW n \in Node, NEW seen \in SUBSET Node
    PROVE  BackFrom(n, seen) =
             IF n \in seen \/ Replacing(n) = {}
             THEN n
             ELSE BackFrom(RowOf(Replacing(n)).target, seen \cup {n})
<1>1. LineageInv
  BY DEF ChainInv
<1>2. CASE n \notin live \cup tombstones
  <2>1. Replacing(n) = {}
    <3>1. SUFFICES ASSUME NEW k \in corrections, k.repl = n PROVE FALSE
      BY DEF Replacing
    <3>2. CASE n \in Mem
      BY <1>1, <1>2, <3>1, <3>2 DEF LineageInv, ReplacementsAreLive
    <3>3. CASE n \in Tomb
      <4>1. n \in Ends(k)
        BY <3>1, <3>3, ConstantsDistinct DEF Ends
      <4>2. QED BY <1>1, <1>2, <3>3, <4>1 DEF LineageInv, TombstonesTraceable
    <3>4. QED BY <3>2, <3>3 DEF Node
  <2>2. QED BY <1>2, <2>1 DEF BackFrom
<1>3. CASE n \in live \cup tombstones
  <2>1. PICK s : IsChain(s) /\ \E i \in DOMAIN s : s[i] = n
    BY <1>3 DEF ChainInv, EveryNodeIsChained
  <2>2. /\ Len(s) \in Nat /\ DOMAIN s = 1..Len(s)
        /\ \A l \in 1..Len(s) : s[l] \in live \cup tombstones
    BY <1>1, <2>1, ChainShape
  <2>3. PICK i \in 1..Len(s) : s[i] = n
    BY <2>1, <2>2
  <2>4. ChainOf(n) = s /\ PlaceOf(n) = i
    BY <2>1, <2>3, ChainOfNode
  <2>5. PICK j \in Nat : StopsBack(s, seen, i, j) /\ \A k \in Nat : StopsBack(s, seen, i, k) => k = j
    BY <2>2, BackStops
  <2>6. BackFrom(n, seen) = s[j]
    <3>1. (CHOOSE k \in Nat : StopsBack(s, seen, i, k)) = j
      BY <2>5
    <3>2. QED BY <1>3, <2>4, <3>1 DEF BackFrom
  <2>7. CASE n \in seen \/ i = 1
    <3>1. StopsBack(s, seen, i, i)
      BY <2>2, <2>3, <2>7 DEF StopsBack
    <3>2. j = i
      BY <2>2, <2>5, <3>1
    <3>3. n \in seen \/ Replacing(n) = {}
      BY <2>1, <2>3, <2>7 DEF IsChain
    <3>4. QED BY <2>3, <2>6, <3>2, <3>3
  <2>8. CASE n \notin seen /\ i # 1
    <3>1. i \in 2..Len(s) /\ i - 1 \in 1..Len(s)
      BY <2>2, <2>8
    <3>2. Replacing(n) # {} /\ RowOf(Replacing(n)).target = s[i - 1]
      BY <1>1, <2>1, <2>3, <3>1, RowBefore
    <3>3. ChainOf(s[i - 1]) = s /\ PlaceOf(s[i - 1]) = i - 1 /\ s[i - 1] \in live \cup tombstones
      BY <2>1, <2>2, <3>1, ChainOfNode
    <3>4. PICK h \in Nat : /\ StopsBack(s, seen \cup {n}, i - 1, h)
                           /\ \A k \in Nat : StopsBack(s, seen \cup {n}, i - 1, k) => k = h
      <4>1. i - 1 \in Nat /\ i - 1 >= 1
        BY <2>2, <3>1
      <4>2. QED BY <4>1, BackStops
    <3>5. BackFrom(s[i - 1], seen \cup {n}) = s[h]
      <4>1. (CHOOSE k \in Nat : StopsBack(s, seen \cup {n}, i - 1, k)) = h
        BY <3>4
      <4>2. QED BY <3>3, <4>1 DEF BackFrom
    <3>6. StopsBack(s, seen, i, h)
      <4>1. /\ h \in 1..(i - 1) /\ (h = 1 \/ s[h] \in seen \cup {n})
            /\ \A l \in (h + 1)..(i - 1) : s[l] \notin seen \cup {n}
        BY <3>4 DEF StopsBack
      <4>2. h \in 1..Len(s) /\ h # i /\ h \in 1..i
        BY <2>2, <3>1, <4>1
      <4>3. s[h] # n
        BY <1>1, <2>1, <2>3, <4>2, OneChain
      <4>4. ASSUME NEW l \in (h + 1)..i PROVE s[l] \notin seen
        <5>1. CASE l = i
          BY <2>3, <2>8, <5>1
        <5>2. CASE l # i
          <6>1. l \in (h + 1)..(i - 1)
            BY <2>2, <3>1, <4>1, <5>2
          <6>2. QED BY <4>1, <6>1
        <5>3. QED BY <5>1, <5>2
      <4>5. QED BY <4>1, <4>2, <4>3, <4>4 DEF StopsBack
    <3>7. h = j
      BY <2>5, <3>6
    <3>8. QED BY <2>6, <2>8, <3>2, <3>5, <3>7
  <2>9. QED BY <2>7, <2>8
<1>4. QED BY <1>2, <1>3

\* And of the walk on.
LEMMA OnEquation ==
    ASSUME ChainInv, NEW n \in Node, NEW seen \in SUBSET Node
    PROVE  OnFrom(n, seen) =
             IF n \in seen \/ n \notin live \cup tombstones
             THEN <<>>
             ELSE <<n>> \o (IF Targeting(n) = {} \/ RowOf(Targeting(n)).repl = None
                            THEN <<>>
                            ELSE OnFrom(RowOf(Targeting(n)).repl, seen \cup {n}))
<1>1. LineageInv
  BY DEF ChainInv
<1>2. CASE n \notin live \cup tombstones
  BY <1>2 DEF OnFrom
<1>3. CASE n \in live \cup tombstones
  <2>1. PICK s : IsChain(s) /\ \E i \in DOMAIN s : s[i] = n
    BY <1>3 DEF ChainInv, EveryNodeIsChained
  <2>2. /\ Len(s) \in Nat /\ DOMAIN s = 1..Len(s) /\ s \in Seq(Node)
        /\ \A l \in 1..Len(s) : s[l] \in live \cup tombstones
    <3>1. /\ Len(s) \in Nat /\ DOMAIN s = 1..Len(s)
          /\ \A l \in 1..Len(s) : s[l] \in live \cup tombstones /\ s[l] \in Node
      BY <1>1, <2>1, ChainShape
    <3>2. s \in Seq(live \cup tombstones)
      BY <2>1 DEF IsChain
    <3>3. QED BY <3>1, <3>2
  <2>3. PICK i \in 1..Len(s) : s[i] = n
    BY <2>1, <2>2
  <2>4. ChainOf(n) = s /\ PlaceOf(n) = i
    BY <2>1, <2>3, ChainOfNode
  <2>5. PICK j \in Nat : StopsOn(s, seen, i, j) /\ \A k \in Nat : StopsOn(s, seen, i, k) => k = j
    BY <2>2, OnStops
  <2>6. OnFrom(n, seen) = SubSeq(s, i, j - 1)
    <3>1. (CHOOSE k \in Nat : StopsOn(s, seen, i, k)) = j
      BY <2>5
    <3>2. QED BY <1>3, <2>4, <3>1 DEF OnFrom
  <2>7. CASE n \in seen
    <3>1. StopsOn(s, seen, i, i)
      BY <2>2, <2>3, <2>7 DEF StopsOn
    <3>2. j = i
      BY <2>2, <2>5, <3>1
    <3>3. SubSeq(s, i, i - 1) = <<>>
      BY <2>2, SubSeqEmpty
    <3>4. QED BY <2>6, <2>7, <3>2, <3>3
  <2>8. CASE n \notin seen /\ i = Len(s)
    <3>1. StopsOn(s, seen, i, i + 1)
      BY <2>2, <2>3, <2>8 DEF StopsOn
    <3>2. j = i + 1
      BY <2>2, <2>5, <3>1
    <3>3. Targeting(n) = {} \/ RowOf(Targeting(n)).repl = None
      BY <1>1, <2>1, <2>3, <2>8, RowAfter
    <3>4. SubSeq(s, i, i) = <<n>> \o SubSeq(s, i + 1, i)
      BY <2>2, <2>3, SubSeqRecursiveFirst
    <3>5. SubSeq(s, i + 1, i) = <<>>
      BY <2>2, SubSeqEmpty
    <3>6. (i + 1) - 1 = i
      BY <2>2
    <3>7. QED BY <1>3, <2>6, <2>8, <3>2, <3>3, <3>4, <3>5, <3>6
  <2>9. CASE n \notin seen /\ i # Len(s)
    <3>0. Len(s) \in Nat
      BY <2>2
    <3>1. i < Len(s) /\ i + 1 \in 1..Len(s)
      BY <2>9, <3>0
    <3>2. Targeting(n) # {} /\ RowOf(Targeting(n)).repl = s[i + 1] /\ s[i + 1] # None
      <4>1. Targeting(s[i]) # {} /\ RowOf(Targeting(s[i])).repl = s[i + 1] /\ s[i + 1] # None
        BY <1>1, <2>1, <3>1, RowAfter
      <4>2. QED BY <2>3, <4>1
    <3>3. ChainOf(s[i + 1]) = s /\ PlaceOf(s[i + 1]) = i + 1 /\ s[i + 1] \in live \cup tombstones
      BY <2>1, <2>2, <3>1, ChainOfNode
    <3>4. PICK h \in Nat : /\ StopsOn(s, seen \cup {n}, i + 1, h)
                           /\ \A k \in Nat : StopsOn(s, seen \cup {n}, i + 1, k) => k = h
      BY <2>2, <3>1, OnStops
    <3>5. OnFrom(s[i + 1], seen \cup {n}) = SubSeq(s, i + 1, h - 1)
      <4>1. (CHOOSE k \in Nat : StopsOn(s, seen \cup {n}, i + 1, k)) = h
        BY <3>4
      <4>2. QED BY <3>3, <4>1 DEF OnFrom
    <3>6. /\ h \in (i + 1)..(Len(s) + 1) /\ (h = Len(s) + 1 \/ s[h] \in seen \cup {n})
          /\ \A l \in (i + 1)..(h - 1) : s[l] \notin seen \cup {n}
      BY <3>4 DEF StopsOn
    <3>7. StopsOn(s, seen, i, h)
      <4>1. h \in i..(Len(s) + 1) /\ h # i
        BY <2>2, <3>6
      <4>2. ASSUME h # Len(s) + 1 PROVE s[h] # n
        <5>1. h \in 1..Len(s)
          BY <2>2, <3>6, <4>2
        <5>2. QED BY <1>1, <2>1, <2>3, <4>1, <5>1, OneChain
      <4>3. ASSUME NEW l \in i..(h - 1) PROVE s[l] \notin seen
        <5>1. CASE l = i
          BY <2>3, <2>9, <5>1
        <5>2. CASE l # i
          <6>1. l \in (i + 1)..(h - 1)
            BY <2>2, <3>6, <5>2
          <6>2. QED BY <3>6, <6>1
        <5>3. QED BY <5>1, <5>2
      <4>4. QED BY <3>6, <4>1, <4>2, <4>3 DEF StopsOn
    <3>8. h = j
      BY <2>5, <3>7
    <3>9. SubSeq(s, i, h - 1) = <<n>> \o SubSeq(s, i + 1, h - 1)
      <4>1. i \in 1..Len(s) /\ h - 1 \in i..Len(s) /\ s[i] = n
        BY <2>2, <2>3, <3>6
      <4>2. QED BY <2>2, <4>1, SubSeqRecursiveFirst
    <3>10. QED BY <1>3, <2>6, <2>9, <3>2, <3>5, <3>8, <3>9
  <2>10. QED BY <2>7, <2>8, <2>9
<1>4. QED BY <1>2, <1>3

\* So the recursive walk back does what its definition says.
LEMMA OldestUnfolds ==
    ASSUME ChainInv, NEW n \in Node, NEW seen \in SUBSET Node
    PROVE  Oldest[seen][n] =
             IF n \in seen \/ Replacing(n) = {}
             THEN n
             ELSE Oldest[seen \cup {n}][RowOf(Replacing(n)).target]
<1> DEFINE P(f) == f = [z \in SUBSET Node |->
                         [x \in Node |->
                            IF x \in z \/ Replacing(x) = {}
                            THEN x
                            ELSE f[z \cup {x}][RowOf(Replacing(x)).target]]]
           g == [z \in SUBSET Node |-> [x \in Node |-> BackFrom(x, z)]]
<1>1. ASSUME NEW x \in Node, Replacing(x) # {}
      PROVE  RowOf(Replacing(x)).target \in Node
  <2>1. RowOf(Replacing(x)) \in Replacing(x)
    BY <1>1 DEF RowOf
  <2>2. RowOf(Replacing(x)) \in Correction
    BY <2>1 DEF ChainInv, LineageInv, TypeOK, Replacing
  <2>3. QED BY <2>2 DEF Correction
<1>2. ASSUME NEW x \in Node, NEW z \in SUBSET Node
      PROVE  g[z][x] = BackFrom(x, z)
  OBVIOUS
<1>3. ASSUME NEW x \in Node, NEW z \in SUBSET Node
      PROVE  BackFrom(x, z) = IF x \in z \/ Replacing(x) = {}
                              THEN x
                              ELSE g[z \cup {x}][RowOf(Replacing(x)).target]
  <2>1. CASE x \in z \/ Replacing(x) = {}
    BY <2>1, BackEquation
  <2>2. CASE ~(x \in z \/ Replacing(x) = {})
    <3>1. RowOf(Replacing(x)).target \in Node /\ z \cup {x} \in SUBSET Node
      BY <1>1, <2>2
    <3>2. g[z \cup {x}][RowOf(Replacing(x)).target] = BackFrom(RowOf(Replacing(x)).target, z \cup {x})
      BY <1>2, <3>1
    <3>3. QED BY <2>2, <3>2, BackEquation
  <2>3. QED BY <2>1, <2>2
<1>4. P(g)
  <2>1. ASSUME NEW z \in SUBSET Node
        PROVE  [x \in Node |-> BackFrom(x, z)] =
                 [x \in Node |-> IF x \in z \/ Replacing(x) = {}
                                 THEN x
                                 ELSE g[z \cup {x}][RowOf(Replacing(x)).target]]
    <3> HIDE DEF g
    <3>1. QED BY <1>3
  <2>2. QED BY <2>1
<1>5. Oldest = CHOOSE f : P(f)
  BY Zenon DEF Oldest
<1>6. \E f : P(f)
  <2> HIDE DEF g
  <2>1. QED BY <1>4
<1>7. P(Oldest)
  <2> HIDE DEF P
  <2>1. QED BY <1>5, <1>6
<1>8. Oldest[seen] = [x \in Node |->
                        IF x \in seen \/ Replacing(x) = {}
                        THEN x
                        ELSE Oldest[seen \cup {x}][RowOf(Replacing(x)).target]]
  BY <1>7, Zenon
<1>9. QED BY <1>8, Zenon

\* And the walk on.
LEMMA NewerUnfolds ==
    ASSUME ChainInv, NEW n \in Node, NEW seen \in SUBSET Node
    PROVE  Newer[seen][n] =
             IF n \in seen \/ n \notin live \cup tombstones
             THEN <<>>
             ELSE <<n>> \o (IF Targeting(n) = {} \/ RowOf(Targeting(n)).repl = None
                            THEN <<>>
                            ELSE Newer[seen \cup {n}][RowOf(Targeting(n)).repl])
<1> DEFINE P(f) == f = [z \in SUBSET Node |->
                         [x \in Node |->
                            IF x \in z \/ x \notin live \cup tombstones
                            THEN <<>>
                            ELSE <<x>> \o (IF Targeting(x) = {} \/ RowOf(Targeting(x)).repl = None
                                           THEN <<>>
                                           ELSE f[z \cup {x}][RowOf(Targeting(x)).repl])]]
           g == [z \in SUBSET Node |-> [x \in Node |-> OnFrom(x, z)]]
<1>1. ASSUME NEW x \in Node, Targeting(x) # {}, RowOf(Targeting(x)).repl # None
      PROVE  RowOf(Targeting(x)).repl \in Node
  <2>1. RowOf(Targeting(x)) \in Targeting(x)
    BY <1>1 DEF RowOf
  <2>2. RowOf(Targeting(x)) \in Correction
    BY <2>1 DEF ChainInv, LineageInv, TypeOK, Targeting
  <2>3. QED BY <1>1, <2>2 DEF Correction
<1>2. ASSUME NEW x \in Node, NEW z \in SUBSET Node
      PROVE  g[z][x] = OnFrom(x, z)
  OBVIOUS
<1>3. ASSUME NEW x \in Node, NEW z \in SUBSET Node
      PROVE  OnFrom(x, z) =
               IF x \in z \/ x \notin live \cup tombstones
               THEN <<>>
               ELSE <<x>> \o (IF Targeting(x) = {} \/ RowOf(Targeting(x)).repl = None
                              THEN <<>>
                              ELSE g[z \cup {x}][RowOf(Targeting(x)).repl])
  <2>1. CASE Targeting(x) = {} \/ RowOf(Targeting(x)).repl = None
    BY <2>1, OnEquation
  <2>2. CASE ~(Targeting(x) = {} \/ RowOf(Targeting(x)).repl = None)
    <3>1. RowOf(Targeting(x)).repl \in Node /\ z \cup {x} \in SUBSET Node
      BY <1>1, <2>2
    <3>2. g[z \cup {x}][RowOf(Targeting(x)).repl] = OnFrom(RowOf(Targeting(x)).repl, z \cup {x})
      BY <1>2, <3>1
    <3>3. QED BY <2>2, <3>2, OnEquation
  <2>3. QED BY <2>1, <2>2
<1>4. P(g)
  <2>1. ASSUME NEW z \in SUBSET Node
        PROVE  [x \in Node |-> OnFrom(x, z)] =
                 [x \in Node |->
                    IF x \in z \/ x \notin live \cup tombstones
                    THEN <<>>
                    ELSE <<x>> \o (IF Targeting(x) = {} \/ RowOf(Targeting(x)).repl = None
                                   THEN <<>>
                                   ELSE g[z \cup {x}][RowOf(Targeting(x)).repl])]
    <3> HIDE DEF g
    <3>1. QED BY <1>3
  <2>2. QED BY <2>1
<1>5. Newer = CHOOSE f : P(f)
  BY Zenon DEF Newer
<1>6. \E f : P(f)
  <2> HIDE DEF g
  <2>1. QED BY <1>4
<1>7. P(Newer)
  <2> HIDE DEF P
  <2>1. QED BY <1>5, <1>6
<1>8. Newer[seen] = [x \in Node |->
                       IF x \in seen \/ x \notin live \cup tombstones
                       THEN <<>>
                       ELSE <<x>> \o (IF Targeting(x) = {} \/ RowOf(Targeting(x)).repl = None
                                      THEN <<>>
                                      ELSE Newer[seen \cup {x}][RowOf(Targeting(x)).repl])]
  BY <1>7, Zenon
<1>9. QED BY <1>8, Zenon

\* From any node of a chain the walk back ends at its first node.
LEMMA OldestIsFirst ==
    ASSUME ChainInv, NEW s, IsChain(s), NEW p \in 1..Len(s)
    PROVE  Oldest[{}][s[p]] = s[1]
<1>1. /\ LineageInv /\ Len(s) \in Nat
      /\ \A l \in 1..Len(s) : s[l] \in live \cup tombstones /\ s[l] \in Node
  BY ChainShape DEF ChainInv
<1> DEFINE Ends1(i) == \A z \in SUBSET Node :
                          (\A l \in 1..i : s[l] \notin z) => Oldest[z][s[i]] = s[1]
           T == {i \in Nat : i \in 1..Len(s) /\ ~Ends1(i)}
<1>2. SUFFICES ASSUME T # {} PROVE FALSE
  <2>1. ASSUME T = {} PROVE Ends1(p)
    <3>1. p \in Nat /\ p \notin T
      BY <2>1
    <3> HIDE DEF Ends1
    <3>2. QED BY <3>1
  <2>2. QED BY <2>1
<1> HIDE DEF Ends1
<1>3. PICK i \in T : \A z \in T : i <= z
  <2>1. T \subseteq Nat
    OBVIOUS
  <2>2. QED BY <1>2, <2>1, LeastOne
<1>4. i \in 1..Len(s) /\ ~Ends1(i)
  BY <1>3
<1>5. Ends1(i)
  <2> SUFFICES ASSUME NEW z \in SUBSET Node, \A l \in 1..i : s[l] \notin z
               PROVE  Oldest[z][s[i]] = s[1]
    BY DEF Ends1
  <2>1. s[i] \in Node /\ s[i] \notin z
    BY <1>1, <1>4
  <2>a. Oldest[z][s[i]] = IF s[i] \in z \/ Replacing(s[i]) = {}
                         THEN s[i]
                         ELSE Oldest[z \cup {s[i]}][RowOf(Replacing(s[i])).target]
    BY <2>1, OldestUnfolds
  <2>2. CASE i = 1
    <3>1. Replacing(s[i]) = {}
      BY <2>2 DEF IsChain
    <3>2. QED BY <2>a, <2>2, <3>1
  <2>3. CASE i # 1
    <3>1. i \in 2..Len(s) /\ i - 1 \in 1..Len(s) /\ i - 1 \in Nat /\ ~(i <= i - 1)
      BY <1>1, <1>4, <2>3
    <3>2. Replacing(s[i]) # {} /\ RowOf(Replacing(s[i])).target = s[i - 1]
      BY <1>1, <3>1, RowBefore
    <3>3. Oldest[z][s[i]] = Oldest[z \cup {s[i]}][s[i - 1]]
      BY <2>a, <2>1, <3>2
    <3>4. Ends1(i - 1)
      BY <1>3, <3>1
    <3>5. ASSUME NEW l \in 1..(i - 1) PROVE s[l] \notin z \cup {s[i]}
      <4>1. l \in 1..i /\ l \in 1..Len(s) /\ l # i
        BY <1>1, <3>1
      <4>2. s[l] # s[i]
        BY <1>1, <1>4, <4>1, OneChain
      <4>3. QED BY <4>1, <4>2
    <3>6. z \cup {s[i]} \in SUBSET Node
      BY <2>1
    <3>7. Oldest[z \cup {s[i]}][s[i - 1]] = s[1]
      BY <3>4, <3>5, <3>6 DEF Ends1
    <3>8. QED BY <3>3, <3>7
  <2>4. QED BY <2>2, <2>3
<1>6. QED BY <1>4, <1>5

\* From its first node the walk on lists the chain.
LEMMA NewerIsChain ==
    ASSUME ChainInv, NEW s, IsChain(s)
    PROVE  Newer[{}][s[1]] = s
<1>1. /\ LineageInv /\ Len(s) \in Nat /\ Len(s) >= 1 /\ s \in Seq(live \cup tombstones)
      /\ \A l \in 1..Len(s) : s[l] \in live \cup tombstones /\ s[l] \in Node
  BY ChainShape DEF ChainInv, IsChain
<1> DEFINE Lists(i) == \A z \in SUBSET Node :
                          (\A l \in i..Len(s) : s[l] \notin z) => Newer[z][s[i]] = SubSeq(s, i, Len(s))
           T == {d \in Nat : d < Len(s) /\ ~Lists(Len(s) - d)}
<1>2. SUFFICES ASSUME T # {} PROVE FALSE
  <2>1. ASSUME T = {} PROVE Lists(1)
    <3>0. Len(s) \in Nat /\ Len(s) >= 1
      BY <1>1
    <3>1. Len(s) - 1 \in Nat /\ Len(s) - 1 < Len(s) /\ Len(s) - (Len(s) - 1) = 1
      BY <3>0
    <3> HIDE DEF Lists
    <3>2. QED BY <2>1, <3>1
  <2>2. ASSUME Lists(1) PROVE Newer[{}][s[1]] = SubSeq(s, 1, Len(s))
    BY <2>2
  <2>3. SubSeq(s, 1, Len(s)) = s
    BY <1>1, SubSeqFull
  <2>4. QED BY <2>1, <2>2, <2>3
<1> HIDE DEF Lists
<1>3. PICK d \in T : \A z \in T : d <= z
  <2>1. T \subseteq Nat
    OBVIOUS
  <2>2. QED BY <1>2, <2>1, LeastOne
<1>4. d \in Nat /\ d < Len(s) /\ ~Lists(Len(s) - d)
  BY <1>3
<1>5. PICK i \in 1..Len(s) : i = Len(s) - d
  BY <1>1, <1>4
<1>6. Lists(i)
  <2> SUFFICES ASSUME NEW z \in SUBSET Node, \A l \in i..Len(s) : s[l] \notin z
               PROVE  Newer[z][s[i]] = SubSeq(s, i, Len(s))
    BY DEF Lists
  <2>1. s[i] \in Node /\ s[i] \notin z /\ s[i] \in live \cup tombstones
    BY <1>1
  <2>a. Newer[z][s[i]] =
          IF s[i] \in z \/ s[i] \notin live \cup tombstones
          THEN <<>>
          ELSE <<s[i]>> \o (IF Targeting(s[i]) = {} \/ RowOf(Targeting(s[i])).repl = None
                            THEN <<>>
                            ELSE Newer[z \cup {s[i]}][RowOf(Targeting(s[i])).repl])
    BY <2>1, NewerUnfolds
  <2>2. SubSeq(s, i, Len(s)) = <<s[i]>> \o SubSeq(s, i + 1, Len(s))
    BY <1>1, SubSeqRecursiveFirst
  <2>3. CASE i = Len(s)
    <3>1. Targeting(s[i]) = {} \/ RowOf(Targeting(s[i])).repl = None
      BY <1>1, <2>3, RowAfter
    <3>2. Newer[z][s[i]] = <<s[i]>> \o <<>>
      BY <2>a, <2>1, <3>1
    <3>3. SubSeq(s, i + 1, Len(s)) = <<>>
      BY <1>1, <2>3, SubSeqEmpty
    <3>4. QED BY <2>2, <3>2, <3>3
  <2>4. CASE i # Len(s)
    <3>1. i < Len(s) /\ i + 1 \in 1..Len(s)
      BY <1>1, <2>4
    <3>2. Targeting(s[i]) # {} /\ RowOf(Targeting(s[i])).repl = s[i + 1] /\ s[i + 1] # None
      BY <1>1, <3>1, RowAfter
    <3>3. Newer[z][s[i]] = <<s[i]>> \o Newer[z \cup {s[i]}][s[i + 1]]
      BY <2>a, <2>1, <3>2
    <3>4. Lists(i + 1)
      <4>1. d - 1 \in Nat /\ d - 1 < Len(s) /\ ~(d <= d - 1) /\ Len(s) - (d - 1) = i + 1
        BY <1>1, <1>4, <1>5, <3>1
      <4>2. d - 1 \notin T
        BY <1>3, <4>1
      <4>3. QED BY <4>1, <4>2
    <3>5. ASSUME NEW l \in (i + 1)..Len(s) PROVE s[l] \notin z \cup {s[i]}
      <4>1. l \in i..Len(s) /\ l \in 1..Len(s) /\ l # i
        BY <1>1
      <4>2. s[l] # s[i]
        BY <1>1, <4>1, OneChain
      <4>3. QED BY <4>1, <4>2
    <3>6. z \cup {s[i]} \in SUBSET Node
      BY <2>1
    <3>7. Newer[z \cup {s[i]}][s[i + 1]] = SubSeq(s, i + 1, Len(s))
      BY <3>4, <3>5, <3>6 DEF Lists
    <3>8. QED BY <2>2, <3>3, <3>7
  <2>5. QED BY <2>3, <2>4
<1>7. QED BY <1>4, <1>5, <1>6

\* trace of any member of a chain is that chain.
LEMMA TraceIsChain == ChainInv => \A s : IsChain(s) => \A i \in 1..Len(s) : Trace(s[i]) = s
  BY OldestIsFirst, NewerIsChain DEF Trace

\* The same of the state a step leads to.
LEMMA TraceIsChainNext ==
    (ChainInv => \A s : IsChain(s) => \A i \in 1..Len(s) : Trace(s[i]) = s)'
  BY TraceIsChain, PTL

-----------------------------------------------------------------------------
(* The walk of recall_references_many.                                      *)

\* The nodes of a chain from one place to another.
Slice(s, a, b) == {s[l] : l \in a..b}

\* The arms of the recursive query lead to the neighbours in the chain.
LEMMA LinkedAreNeighbours ==
    ASSUME LineageInv, NEW s, IsChain(s), NEW i \in 1..Len(s)
    PROVE  Linked(s[i]) = {s[l] : l \in {i - 1, i + 1} \cap (1..Len(s))}
<1>1. /\ Len(s) \in Nat
      /\ \A l \in 1..Len(s) : s[l] \in live \cup tombstones /\ s[l] # None
  BY ChainShape
<1>2. {k.target : k \in Replacing(s[i])} \ {None} = {s[l] : l \in {i - 1} \cap (1..Len(s))}
  <2>1. CASE i = 1
    <3>1. Replacing(s[i]) = {}
      BY <2>1 DEF IsChain
    <3>2. {i - 1} \cap (1..Len(s)) = {}
      BY <1>1, <2>1
    <3>3. QED BY <3>1, <3>2
  <2>2. CASE i # 1
    <3>1. i \in 2..Len(s) /\ i - 1 \in 1..Len(s)
      BY <1>1, <2>2
    <3>2. Replacing(s[i]) # {} /\ \A k \in Replacing(s[i]) : k.target = s[i - 1]
      BY <3>1, RowBefore
    <3>3. s[i - 1] # None
      BY <1>1, <3>1
    <3>4. {i - 1} \cap (1..Len(s)) = {i - 1}
      BY <3>1
    <3>5. {k.target : k \in Replacing(s[i])} = {s[i - 1]}
      BY <3>2
    <3>6. QED BY <3>3, <3>4, <3>5
  <2>3. QED BY <2>1, <2>2
<1>3. {k.repl : k \in Targeting(s[i])} \ {None} = {s[l] : l \in {i + 1} \cap (1..Len(s))}
  <2>1. CASE i = Len(s)
    <3>1. \A k \in Targeting(s[i]) : k.repl = None
      BY <2>1 DEF IsChain
    <3>2. {i + 1} \cap (1..Len(s)) = {}
      BY <1>1, <2>1
    <3>3. QED BY <3>1, <3>2
  <2>2. CASE i # Len(s)
    <3>1. i < Len(s) /\ i + 1 \in 1..Len(s)
      BY <1>1, <2>2
    <3>2. Targeting(s[i]) # {} /\ \A k \in Targeting(s[i]) : k.repl = s[i + 1]
      BY <3>1, RowAfter
    <3>3. s[i + 1] # None
      BY <1>1, <3>1
    <3>4. {i + 1} \cap (1..Len(s)) = {i + 1}
      BY <3>1
    <3>5. {k.repl : k \in Targeting(s[i])} = {s[i + 1]}
      BY <3>2
    <3>6. QED BY <3>3, <3>4, <3>5
  <2>3. QED BY <2>1, <2>2
<1>4. Linked(s[i]) = ({k.repl : k \in Targeting(s[i])} \ {None})
                       \cup ({k.target : k \in Replacing(s[i])} \ {None})
  BY DEF Linked
<1>5. QED BY <1>2, <1>3, <1>4

\* One round of the query: the nodes reached and the ones their rows lead to.
Round(x) == x \cup (UNION {Linked(n) : n \in x})

\* What UNION keeps adding to, in the end: the least set closed under the arms.
Closure(x) ==
    {n \in Node : \A z \in SUBSET Node : (x \subseteq z /\ \A y \in z : Linked(y) \subseteq z) => n \in z}

\* The recursive query does what its definition says.
LEMMA WalkUnfolds ==
    ASSUME LineageInv, NEW x \in SUBSET Node
    PROVE  Walk[x] = IF Round(x) = x THEN x ELSE Walk[Round(x)]
<1> DEFINE P(f) == f = [y \in SUBSET Node |->
                         LET more == y \cup (UNION {Linked(n) : n \in y})
                         IN  IF more = y THEN y ELSE f[more]]
           g == [y \in SUBSET Node |-> Closure(y)]
<1>1. \A y \in SUBSET Node : Round(y) \in SUBSET Node
  <2>1. \A n : Linked(n) \subseteq Node
    BY DEF Linked, Targeting, Replacing, LineageInv, TypeOK, Correction
  <2>2. QED BY <2>1 DEF Round
<1>2. ASSUME NEW y \in SUBSET Node
      PROVE  Closure(y) = IF Round(y) = y THEN y ELSE Closure(Round(y))
  <2>1. CASE Round(y) = y
    <3>1. \A n \in y : Linked(n) \subseteq y
      BY <2>1 DEF Round
    <3>2. QED BY <2>1, <3>1 DEF Closure
  <2>2. CASE Round(y) # y
    <3>1. ASSUME NEW z \in SUBSET Node, \A n \in z : Linked(n) \subseteq z
          PROVE  y \subseteq z <=> Round(y) \subseteq z
      BY <3>1 DEF Round
    <3>2. Closure(y) = Closure(Round(y))
      BY <3>1 DEF Closure
    <3>3. QED BY <2>2, <3>2
  <2>3. QED BY <2>1, <2>2
<1>3. P(g)
  <2>1. ASSUME NEW y \in SUBSET Node
        PROVE  Closure(y) = LET more == y \cup (UNION {Linked(n) : n \in y})
                            IN  IF more = y THEN y ELSE g[more]
    <3>1. g[Round(y)] = Closure(Round(y))
      BY <1>1
    <3> HIDE DEF g
    <3>2. QED BY <1>2, <3>1 DEF Round
  <2>2. QED BY <2>1
<1>4. Walk = CHOOSE f : P(f)
  BY Zenon DEF Walk
<1>5. \E f : P(f)
  <2> HIDE DEF g
  <2>1. QED BY <1>3
<1>6. P(Walk)
  <2> HIDE DEF P
  <2>1. QED BY <1>4, <1>5
<1>7. Walk[x] = LET more == x \cup (UNION {Linked(n) : n \in x})
                IN  IF more = x THEN x ELSE Walk[more]
  BY <1>6, Zenon
<1>8. QED BY <1>7 DEF Round

\* From any part of a chain the query reaches the chain and no more.
LEMMA WalkReachesChain ==
    ASSUME LineageInv, NEW s, IsChain(s), NEW p \in 1..Len(s)
    PROVE  Walk[{s[p]}] = Slice(s, 1, Len(s))
<1>1. /\ Len(s) \in Nat
      /\ \A l \in 1..Len(s) : s[l] \in live \cup tombstones /\ s[l] \in Node
  BY ChainShape
<1> DEFINE All(a, b) == Walk[Slice(s, a, b)] = Slice(s, 1, Len(s))
           T == {e \in Nat : \E a, b \in 1..Len(s) : a <= b /\ e = a + (Len(s) - b) /\ ~All(a, b)}
<1>2. SUFFICES ASSUME T # {} PROVE FALSE
  <2>1. ASSUME T = {} PROVE All(p, p)
    <3>0. Len(s) \in Nat
      BY <1>1
    <3>1. p + (Len(s) - p) \in Nat /\ p <= p
      BY <3>0
    <3> HIDE DEF All
    <3>2. QED BY <2>1, <3>1
  <2>2. Slice(s, p, p) = {s[p]}
    BY DEF Slice
  <2>3. QED BY <2>1, <2>2
<1> HIDE DEF All
<1>3. PICK e \in T : \A z \in T : e <= z
  <2>1. T \subseteq Nat
    OBVIOUS
  <2>2. QED BY <1>2, <2>1, LeastOne
<1>4. PICK a, b \in 1..Len(s) : a <= b /\ e = a + (Len(s) - b) /\ ~All(a, b)
  BY <1>3
<1> DEFINE c == IF a = 1 THEN 1 ELSE a - 1
           d == IF b = Len(s) THEN b ELSE b + 1
           x == Slice(s, a, b)
<1>5. /\ c \in 1..Len(s) /\ d \in 1..Len(s) /\ c <= d /\ a..b \subseteq c..d
      /\ c..d \subseteq 1..Len(s)
  BY <1>1, <1>4
<1>6. Round(x) = Slice(s, c, d)
  <2>1. \A l \in a..b : Linked(s[l]) = {s[h] : h \in {l - 1, l + 1} \cap (1..Len(s))}
    <3>1. a..b \subseteq 1..Len(s)
      BY <1>5
    <3>2. QED BY <3>1, LinkedAreNeighbours
  <2>2. Round(x) \subseteq Slice(s, c, d)
    <3> SUFFICES ASSUME NEW n \in Round(x) PROVE n \in Slice(s, c, d)
      OBVIOUS
    <3>1. CASE n \in x
      BY <1>5, <3>1 DEF Slice
    <3>2. CASE n \notin x
      <4>1. PICK l \in a..b : n \in Linked(s[l])
        BY <3>2 DEF Round, Slice
      <4>2. PICK h \in {l - 1, l + 1} \cap (1..Len(s)) : n = s[h]
        BY <2>1, <4>1
      <4>3. h \in c..d
        BY <1>1, <1>4, <4>1, <4>2
      <4>4. QED BY <4>2, <4>3 DEF Slice
    <3>3. QED BY <3>1, <3>2
  <2>3. Slice(s, c, d) \subseteq Round(x)
    <3> SUFFICES ASSUME NEW h \in c..d PROVE s[h] \in Round(x)
      BY DEF Slice
    <3>1. CASE h \in a..b
      BY <3>1 DEF Round, Slice
    <3>2. CASE h \notin a..b
      <4>1. PICK l \in a..b : h \in {l - 1, l + 1} \cap (1..Len(s))
        <5>1. a \in a..b /\ b \in a..b /\ h \in 1..Len(s)
          BY <1>4, <1>5
        <5>2. h = a - 1 \/ h = b + 1
          BY <1>1, <1>4, <3>2
        <5>3. QED BY <5>1, <5>2
      <4>2. s[h] \in Linked(s[l])
        BY <2>1, <4>1
      <4>3. QED BY <4>1, <4>2 DEF Round, Slice
    <3>3. QED BY <3>1, <3>2
  <2>4. QED BY <2>2, <2>3
<1>7. x \in SUBSET Node
  <2>1. a..b \subseteq 1..Len(s)
    BY <1>5
  <2>2. QED BY <1>1, <2>1 DEF Slice
<1>8. CASE a = 1 /\ b = Len(s)
  <2>1. c = 1 /\ d = Len(s)
    BY <1>8
  <2>2. Walk[x] = x
    BY <1>6, <1>7, <1>8, <2>1, WalkUnfolds
  <2>3. QED BY <1>4, <1>8, <2>2 DEF All
<1>9. CASE a # 1 \/ b # Len(s)
  <2>1. All(c, d)
    <3>0. Len(s) \in Nat
      BY <1>1
    <3>1. c + (Len(s) - d) \in Nat /\ ~(e <= c + (Len(s) - d))
      BY <1>4, <1>9, <3>0
    <3> HIDE DEF c, d
    <3>2. QED BY <1>3, <1>5, <3>1
  <2>2. Round(x) # x
    <3>1. ASSUME NEW h \in 1..Len(s), h \notin a..b PROVE s[h] \notin x
      <4>1. ASSUME NEW l \in a..b PROVE s[l] # s[h]
        <5>1. l \in 1..Len(s) /\ l # h
          BY <1>5, <3>1
        <5>2. QED BY <5>1, OneChain
      <4>2. QED BY <4>1 DEF Slice
    <3>2. PICK h \in c..d : h \notin a..b
      <4>1. c \in c..d /\ d \in c..d
        BY <1>5
      <4>2. c \notin a..b \/ d \notin a..b
        BY <1>1, <1>4, <1>9
      <4>3. QED BY <4>1, <4>2
    <3>3. s[h] \notin x
      BY <1>5, <3>1, <3>2
    <3>4. s[h] \in Slice(s, c, d)
      BY DEF Slice
    <3>5. QED BY <1>6, <3>3, <3>4
  <2>3. Walk[x] = Walk[Slice(s, c, d)]
    BY <1>6, <1>7, <2>2, WalkUnfolds
  <2>4. QED BY <1>4, <2>1, <2>3 DEF All
<1>10. QED BY <1>8, <1>9

-----------------------------------------------------------------------------
(* trace and recall_references_many tell one story.                         *)

\* A surviving memory has a chain, and trace shows it.
LEMMA TraceOfMemory ==
    ASSUME ChainInv, NEW m \in live
    PROVE  /\ IsChain(Trace(m))
           /\ \E p \in 1..Len(Trace(m)) : Trace(m)[p] = m
<1>1. PICK s : IsChain(s) /\ \E i \in DOMAIN s : s[i] = m
  BY DEF ChainInv, EveryNodeIsChained
<1>2. PICK p \in 1..Len(s) : s[p] = m
  BY <1>1, ChainShape DEF ChainInv
<1>3. Trace(m) = s
  BY <1>1, <1>2, TraceIsChain
<1>4. QED BY <1>1, <1>2, <1>3

\* The corrections of a chain: those that target one of its nodes are those
\* that have one of its nodes at either end.
LEMMA RowsOfChain ==
    ASSUME LineageInv, NEW s, IsChain(s), NEW k \in corrections
    PROVE  /\ k.repl \in Slice(s, 1, Len(s)) => k.target \in Slice(s, 1, Len(s))
           /\ k.target \in Slice(s, 1, Len(s)) => k.repl = None \/ k.repl \in Slice(s, 1, Len(s))
<1>1. Len(s) \in Nat
  BY ChainShape
<1>2. ASSUME NEW i \in 1..Len(s), k.repl = s[i]
      PROVE  k.target \in Slice(s, 1, Len(s))
  <2>1. k \in Replacing(s[i])
    BY <1>2 DEF Replacing
  <2>2. i # 1
    BY <2>1 DEF IsChain
  <2>3. i \in 2..Len(s) /\ i - 1 \in 1..Len(s)
    BY <1>1, <2>2
  <2>4. k.target = s[i - 1]
    BY <2>1, <2>3, RowBefore
  <2>5. QED BY <2>3, <2>4 DEF Slice
<1>3. ASSUME NEW i \in 1..Len(s), k.target = s[i]
      PROVE  k.repl = None \/ k.repl \in Slice(s, 1, Len(s))
  <2>1. k \in Targeting(s[i])
    BY <1>3 DEF Targeting
  <2>2. CASE i = Len(s)
    BY <2>1, <2>2 DEF IsChain
  <2>3. CASE i # Len(s)
    <3>1. i < Len(s) /\ i + 1 \in 1..Len(s)
      BY <1>1, <2>3
    <3>2. k.repl = s[i + 1]
      BY <2>1, <3>1, RowAfter
    <3>3. QED BY <3>1, <3>2 DEF Slice
  <2>4. QED BY <2>2, <2>3
<1>4. QED BY <1>2, <1>3 DEF Slice

\* trace lists a memory once, and the same list for every memory of it.
LEMMA MembersAgree == ChainInv => EveryMemberTracesTheChain
<1> SUFFICES ASSUME ChainInv, NEW m \in live
             PROVE  /\ Cardinality(Positions(Trace(m), m)) = 1
                    /\ \A i \in DOMAIN Trace(m) :
                          Trace(m)[i] \in live => Trace(Trace(m)[i]) = Trace(m)
  BY DEF EveryMemberTracesTheChain
<1>1. IsChain(Trace(m)) /\ LineageInv
  BY TraceOfMemory DEF ChainInv
<1>2. PICK p \in 1..Len(Trace(m)) : Trace(m)[p] = m
  BY TraceOfMemory
<1>3. DOMAIN Trace(m) = 1..Len(Trace(m))
  BY <1>1, ChainShape
<1>4. Positions(Trace(m), m) = {p}
  BY <1>1, <1>2, <1>3, OneChain DEF Positions
<1>5. Cardinality(Positions(Trace(m), m)) = 1
  BY <1>4, FS_Singleton
<1>6. \A i \in DOMAIN Trace(m) : Trace(Trace(m)[i]) = Trace(m)
  BY <1>1, <1>3, TraceIsChain
<1>7. QED BY <1>5, <1>6

\* Only the newest of a chain is current.
LEMMA NewestIsCurrent == ChainInv => OnlyTheNewestIsCurrent
<1> SUFFICES ASSUME ChainInv, NEW m \in live, Status(m) = "current"
             PROVE  m = Trace(m)[Len(Trace(m))]
  BY DEF OnlyTheNewestIsCurrent
<1>1. IsChain(Trace(m)) /\ LineageInv
  BY TraceOfMemory DEF ChainInv
<1>2. PICK p \in 1..Len(Trace(m)) : Trace(m)[p] = m
  BY TraceOfMemory
<1>3. Targeting(m) = {}
  BY DEF Status
<1>4. Len(Trace(m)) \in Nat
  BY <1>1, ChainShape
<1>5. ~(p < Len(Trace(m)))
  BY <1>1, <1>2, <1>3, RowAfter
<1>6. QED BY <1>2, <1>4, <1>5

\* A recall hit sees the corrections trace lists, and a gap where trace shows
\* one.
LEMMA ReferenceIsTrace == ChainInv => ReferencesFollowTrace
<1> SUFFICES ASSUME ChainInv, NEW m \in live
             PROVE  LET gap == \E i \in DOMAIN Trace(m) : Trace(m)[i] \in Tomb
                    IN  /\ ReferencedCorrections(m) = TracedCorrections(m)
                        /\ Reference(m) =
                             IF gap THEN [status |-> "privacy_tombstone", corrections |-> {}]
                             ELSE [status |-> LineageStatus(m), corrections |-> TracedCorrections(m)]
  BY DEF ReferencesFollowTrace
<1>1. PICK s : s = Trace(m)
  OBVIOUS
<1>2. IsChain(s) /\ LineageInv
  BY <1>1, TraceOfMemory DEF ChainInv
<1>3. PICK p \in 1..Len(s) : s[p] = m
  BY <1>1, TraceOfMemory
<1>4. /\ Len(s) \in Nat /\ DOMAIN s = 1..Len(s)
      /\ \A l \in 1..Len(s) : s[l] \in Node /\ s[l] # None
  BY <1>2, ChainShape
<1> DEFINE here == Slice(s, 1, Len(s))
           edges == {k \in corrections : k.target \in here}
<1>5. ReferencedCorrections(m) = edges
  <2>1. Walk[{m}] = here
    BY <1>2, <1>3, WalkReachesChain
  <2>2. ReferencedCorrections(m) = {k \in corrections : k.target \in here \/ k.repl \in here}
    BY <2>1 DEF ReferencedCorrections
  <2> HIDE DEF here
  <2>3. \A k \in corrections : k.repl \in here => k.target \in here
    BY <1>2, RowsOfChain DEF here
  <2>4. QED BY <2>2, <2>3
<1>6. TracedCorrections(m) = edges
  <2>1. TracedCorrections(m) = UNION {Targeting(s[i]) : i \in 1..Len(s)}
    BY <1>1, <1>4 DEF TracedCorrections
  <2>2. QED BY <2>1 DEF Targeting, Slice
<1>7. (\E i \in DOMAIN Trace(m) : Trace(m)[i] \in Tomb)
        <=> \E k \in edges : {k.target, k.repl} \cap Tomb # {}
  <2>1. ASSUME NEW k \in edges, {k.target, k.repl} \cap Tomb # {}
        PROVE  \E i \in 1..Len(s) : s[i] \in Tomb
    <3>1. k.repl = None \/ k.repl \in here
      BY <1>2, RowsOfChain
    <3>2. None \notin Tomb
      BY ConstantsDistinct
    <3>3. k.target \in here
      OBVIOUS
    <3>4. QED BY <2>1, <3>1, <3>2, <3>3 DEF Slice
  <2>2. ASSUME NEW i \in 1..Len(s), s[i] \in Tomb
        PROVE  \E k \in edges : {k.target, k.repl} \cap Tomb # {}
    <3>1. i # p /\ m \in Mem
      BY <1>2, <1>3, <2>2, ConstantsDistinct DEF LineageInv, TypeOK
    <3>2. PICK l \in 1..(Len(s) - 1) : i = l \/ i = l + 1
      <4>1. i \in 1..(Len(s) - 1) \/ (i - 1 \in 1..(Len(s) - 1) /\ i = (i - 1) + 1)
        BY <1>4, <3>1
      <4>2. QED BY <4>1
    <3>3. PICK k \in corrections : k.target = s[l] /\ k.repl = s[l + 1]
      BY <1>2 DEF IsChain
    <3>4. l \in 1..Len(s)
      BY <1>4
    <3>5. k \in edges
      BY <3>3, <3>4 DEF Slice
    <3>6. QED BY <2>2, <3>2, <3>3, <3>5
  <2>3. QED BY <1>1, <1>4, <2>1, <2>2
<1> HIDE DEF edges
<1>8. Replacing(m) \subseteq edges
  <2>1. m \in here
    BY <1>3 DEF Slice
  <2>2. QED BY <1>2, <2>1, RowsOfChain DEF Replacing, edges
<1>9. ASSUME ~\E i \in DOMAIN Trace(m) : Trace(m)[i] \in Tomb
      PROVE  Reference(m) = [status |-> LineageStatus(m), corrections |-> TracedCorrections(m)]
  <2>1. ~\E k \in edges : {k.target, k.repl} \cap Tomb # {}
    BY <1>7, <1>9
  <2>2. LineageStatus(m) = IF edges # {} THEN "linked"
                           ELSE IF m \in closed THEN "legacy_unlinked" ELSE "standalone"
    BY <1>6, <1>8 DEF LineageStatus
  <2>3. QED BY <1>5, <1>6, <2>1, <2>2 DEF Reference
<1>10. ASSUME \E i \in DOMAIN Trace(m) : Trace(m)[i] \in Tomb
       PROVE  Reference(m) = [status |-> "privacy_tombstone", corrections |-> {}]
  BY <1>5, <1>7, <1>10 DEF Reference
<1>11. QED BY <1>5, <1>6, <1>9, <1>10

\* trace gives one answer for a chain, only its newest node can be current,
\* and a recall hit says the same of it, whatever was corrected and purged.
THEOREM TraceTellsOneStory == Spec => []TraceIsOneChain
<1>1. ChainInv => TraceIsOneChain
  BY MembersAgree, NewestIsCurrent, ReferenceIsTrace DEF TraceIsOneChain
<1>2. QED BY <1>1, ChainsInvariant, PTL

-----------------------------------------------------------------------------
(* The refinement of MemoryChain, one lemma for each kind of step.          *)

\* What trace shows after a step is known once the chain after it is.
LEMMA TraceAfter ==
    ASSUME ChainInv', NEW s, IsChain(s)', NEW i \in 1..Len(s), NEW m, s[i] = m
    PROVE  Trace(m)' = s
  BY TraceIsChainNext

\* Where neither rows nor nodes change, nothing shown changes.
LEMMA ShownStays ==
    ASSUME ChainInv, ChainInv', corrections' = corrections, live \subseteq live',
           tombstones' = tombstones
    PROVE  \A m \in live : Trace(m)' = Trace(m)
<1> SUFFICES ASSUME NEW m \in live PROVE Trace(m)' = Trace(m)
  OBVIOUS
<1>1. PICK s : s = Trace(m)
  OBVIOUS
<1>2. IsChain(s) /\ \E p \in 1..Len(s) : s[p] = m
  BY <1>1, TraceOfMemory
<1>3. IsChain(s)'
  BY <1>2, RowsUnchanged
<1>4. QED BY <1>1, <1>2, <1>3, TraceAfter

\* A call that writes nothing is a stutter.
LEMMA CallerShows ==
    ASSUME ChainInv, ChainInv', UNCHANGED <<rows, erased>>
    PROVE  UNCHANGED Chains!vars
<1>1. /\ corrections' = corrections /\ live' = live /\ tombstones' = tombstones
      /\ closed' = closed /\ erased' = erased
  BY DEF rows
<1>2. \A m \in live : Trace(m)' = Trace(m)
  BY <1>1, ShownStays
<1>3. {Shown(Trace(m)) : m \in live}' = {Shown(Trace(m)) : m \in live}
  BY <1>1, <1>2 DEF Shown
<1>4. \A m : Targeting(m)' = Targeting(m) /\ Status(m)' = Status(m)
  BY <1>1 DEF Targeting, Status
<1>5. QED BY <1>1, <1>3, <1>4 DEF Chains!vars

\* observe starts a chain.
LEMMA ObserveShows ==
    ASSUME ChainInv, ChainInv', NEW m \in Mem, NEW bounded \in BOOLEAN, Observe(m, bounded)
    PROVE  Chains!Observe(m, bounded)
<1>1. /\ m \notin live /\ m \notin erased /\ m \notin closed /\ live' = live \cup {m}
      /\ corrections' = corrections /\ tombstones' = tombstones /\ erased' = erased
      /\ closed' = IF bounded THEN closed \cup {m} ELSE closed
  BY DEF Observe, Fresh, ChainInv, LineageInv, TypeOK
<1>2. \A x \in live : Trace(x)' = Trace(x)
  BY <1>1, ShownStays
<1>3. Trace(m)' = <<m>>
  <2>1. PICK s : s = <<m>>
    OBVIOUS
  <2>2. IsChain(s)' /\ 1 \in 1..Len(s) /\ s[1] = m
    BY <2>1, ObserveChains
  <2>3. Trace(m)' = s
    BY <2>2, TraceAfter
  <2>4. QED BY <2>1, <2>3
<1>4. Shown(<<m>>) = <<m>>
  BY DEF Shown
<1>5. {Shown(Trace(x)) : x \in live}' = {Shown(Trace(x)) : x \in live} \cup {<<m>>}
  BY <1>1, <1>2, <1>3, <1>4 DEF Shown
<1>6. \A x : Targeting(x)' = Targeting(x)
  BY <1>1 DEF Targeting
<1>7. Targeting(m) = {}
  BY <1>1 DEF Targeting, ChainInv, LineageInv, TypeOK, TargetsAreClosed
<1>8. {x \in live : Status(x) = "current"}' =
        IF bounded THEN {x \in live : Status(x) = "current"}
        ELSE {x \in live : Status(x) = "current"} \cup {m}
  BY <1>1, <1>6, <1>7 DEF Status
<1>9. {x \in live : \E k \in Targeting(x) : k.repl = None}' =
        {x \in live : \E k \in Targeting(x) : k.repl = None}
  BY <1>1, <1>6, <1>7
<1>10. m \in Mem \ (live \cup erased) /\ (live \cup erased)' = (live \cup erased) \cup {m}
  BY <1>1
<1>11. QED BY <1>5, <1>8, <1>9, <1>10 DEF Chains!Observe

\* A row into a node that no correction named before is its only one.
LEMMA NewTargeting ==
    ASSUME LineageInv, NEW k \in Correction, k.target \notin closed, k.target \in Mem,
           corrections' = corrections \cup {k}
    PROVE  /\ Targeting(k.target) = {} /\ Targeting(k.target)' = {k}
           /\ \A x : x # k.target => Targeting(x)' = Targeting(x)
<1>1. \A j \in corrections : j.target # k.target
  BY DEF LineageInv, TargetsAreClosed
<1>2. QED BY <1>1 DEF Targeting

\* A retraction withdraws the newest version.
LEMMA RetractionShows ==
    ASSUME ChainInv, ChainInv', NEW k \in Correction, k.repl = None,
           corrections' = corrections \cup {k}, live' = live, tombstones' = tombstones,
           erased' = erased, closed' = closed \cup {k.target},
           k.target \in live, k.target \in Mem, k.target \notin closed
    PROVE  Chains!Withdraw(k.target)
<1>1. LineageInv
  BY DEF ChainInv
<1>2. /\ Targeting(k.target) = {} /\ Targeting(k.target)' = {k}
      /\ \A x : x # k.target => Targeting(x)' = Targeting(x)
  BY <1>1, NewTargeting
<1>3. \A x \in live : Trace(x)' = Trace(x)
  <2> SUFFICES ASSUME NEW x \in live PROVE Trace(x)' = Trace(x)
    OBVIOUS
  <2>1. PICK s : s = Trace(x)
    OBVIOUS
  <2>2. IsChain(s) /\ \E p \in 1..Len(s) : s[p] = x
    BY <2>1, TraceOfMemory
  <2>3. IsChain(s)'
    <3>1. PICK n : n = None
      OBVIOUS
    <3>2. k.repl = n /\ n \in Mem \cup {None} /\ live' = live \cup ({n} \ {None})
      BY <3>1
    <3>3. QED BY <1>1, <2>2, <3>1, <3>2, OthersStay
  <2>4. QED BY <2>1, <2>2, <2>3, TraceAfter
<1>4. {Shown(Trace(x)) : x \in live}' = {Shown(Trace(x)) : x \in live}
  BY <1>3 DEF Shown
<1>5. k.target \in {x \in live : Status(x) = "current"}
  BY <1>2 DEF Status
<1>6. {x \in live : Status(x) = "current"}' = {x \in live : Status(x) = "current"} \ {k.target}
  BY <1>2 DEF Status
<1>7. {x \in live : \E j \in Targeting(x) : j.repl = None}' =
        {x \in live : \E j \in Targeting(x) : j.repl = None} \cup {k.target}
  BY <1>2
<1>8. QED BY <1>4, <1>5, <1>6, <1>7 DEF Chains!Withdraw

\* What a reader is shown of a longer chain, and of the end of one.
LEMMA ShownOfAppend ==
    ASSUME LineageInv, NEW s, IsChain(s), NEW n \in Mem
    PROVE  Shown(Append(s, n)) = Append(Shown(s), n)
<1>1. Len(s) \in Nat /\ DOMAIN s = 1..Len(s) /\ s \in Seq(live \cup tombstones)
  BY ChainShape DEF IsChain
<1>2. /\ Append(s, n) \in Seq(live \cup tombstones \cup {n}) /\ Len(Append(s, n)) = Len(s) + 1
      /\ Append(s, n)[Len(s) + 1] = n /\ \A i \in 1..Len(s) : Append(s, n)[i] = s[i]
  <2>1. s \in Seq(live \cup tombstones \cup {n})
    BY <1>1
  <2>2. QED BY <1>1, <2>1, AppendProperties
<1> DEFINE V == Mem \cup {Gap}
<1>3. /\ Shown(s) \in Seq(V) /\ Len(Shown(s)) = Len(s)
      /\ \A i \in 1..Len(s) : Shown(s)[i] = IF s[i] \in Mem THEN s[i] ELSE Gap
  <2>1. Shown(s) \in [1..Len(s) -> V]
    BY <1>1 DEF Shown
  <2>2. Shown(s) \in Seq(V) /\ Len(Shown(s)) = Len(s)
    BY <1>1, <2>1
  <2>3. QED BY <1>1, <2>2 DEF Shown
<1>4. /\ Append(Shown(s), n) \in Seq(V) /\ Len(Append(Shown(s), n)) = Len(s) + 1
      /\ Append(Shown(s), n)[Len(s) + 1] = n
      /\ \A i \in 1..Len(s) : Append(Shown(s), n)[i] = Shown(s)[i]
  BY <1>3, AppendProperties
<1>5. DOMAIN Append(s, n) = 1..(Len(s) + 1)
  BY <1>1, <1>2
<1>6. Shown(Append(s, n)) \in [1..(Len(s) + 1) -> V]
  BY <1>5 DEF Shown
<1>7. Shown(Append(s, n)) \in Seq(V) /\ Len(Shown(Append(s, n))) = Len(s) + 1
  BY <1>1, <1>6
<1>8. \A i \in 1..(Len(s) + 1) : Shown(Append(s, n))[i] = Append(Shown(s), n)[i]
  <2> SUFFICES ASSUME NEW i \in 1..(Len(s) + 1)
               PROVE  Shown(Append(s, n))[i] = Append(Shown(s), n)[i]
    OBVIOUS
  <2>1. Shown(Append(s, n))[i] = IF Append(s, n)[i] \in Mem THEN Append(s, n)[i] ELSE Gap
    BY <1>5 DEF Shown
  <2>2. CASE i = Len(s) + 1
    BY <1>2, <1>4, <2>1, <2>2
  <2>3. CASE i # Len(s) + 1
    <3>1. i \in 1..Len(s)
      BY <1>1, <2>3
    <3>2. QED BY <1>2, <1>3, <1>4, <2>1, <3>1
  <2>4. QED BY <2>2, <2>3
<1>9. QED BY <1>4, <1>7, <1>8, SeqEqual

\* The newest version is shown where it stands.
LEMMA ShownOfLast ==
    ASSUME LineageInv, NEW s, IsChain(s), NEW m \in Mem
    PROVE  /\ Len(Shown(s)) = Len(s)
           /\ Shown(s)[Len(s)] = m <=> s[Len(s)] = m
<1>1. Len(s) \in Nat /\ Len(s) >= 1 /\ DOMAIN s = 1..Len(s)
  BY ChainShape
<1>2. Shown(s) \in [1..Len(s) -> Mem \cup {Gap}]
  BY <1>1 DEF Shown
<1>3. Len(Shown(s)) = Len(s)
  BY <1>1, <1>2
<1>4. Shown(s)[Len(s)] = IF s[Len(s)] \in Mem THEN s[Len(s)] ELSE Gap
  BY <1>1 DEF Shown
<1>5. QED BY <1>3, <1>4, GapIsNoMemory

\* A replacement is appended to the chain of its target.
LEMMA ReplacementShows ==
    ASSUME ChainInv, ChainInv', NEW k \in Correction, NEW n \in Mem, k.repl = n,
           n \notin live, n \notin erased,
           corrections' = corrections \cup {k}, live' = live \cup {n}, tombstones' = tombstones,
           erased' = erased, closed' = closed \cup {k.target},
           k.target \in live, k.target \in Mem, k.target \notin closed
    PROVE  Chains!Replace(k.target, n)
<1>1. LineageInv /\ n # None /\ n \notin closed /\ n # k.target
  BY ConstantsDistinct DEF ChainInv, LineageInv, TypeOK
<1>2. /\ Targeting(k.target) = {} /\ Targeting(k.target)' = {k}
      /\ \A x : x # k.target => Targeting(x)' = Targeting(x)
  BY <1>1, NewTargeting
<1>3. Targeting(n) = {} /\ Targeting(n)' = {}
  BY <1>1, <1>2 DEF Targeting, LineageInv, TypeOK, TargetsAreClosed
<1> DEFINE r == k.target
           F(s) == IF Chains!Last(s) = r THEN Append(s, n) ELSE s
<1>4. ASSUME NEW x \in live
      PROVE  Shown(Trace(x))' = F(Shown(Trace(x)))
  <2>1. PICK s : s = Trace(x)
    OBVIOUS
  <2>2. IsChain(s)
    BY <2>1, TraceOfMemory
  <2>3. PICK p \in 1..Len(s) : s[p] = x
    BY <2>1, TraceOfMemory
  <2>4. Chains!Last(Shown(s)) = r <=> s[Len(s)] = r
    BY <1>1, <2>2, ShownOfLast DEF Chains!Last
  <2>5. CASE s[Len(s)] = r
    <3>1. PICK u : u = Append(s, n)
      OBVIOUS
    <3>2. IsChain(u)' /\ Len(u) = Len(s) + 1 /\ \A i \in 1..Len(s) : u[i] = s[i]
      BY <1>1, <2>2, <2>5, <3>1, TargetGrows
    <3>3. Len(s) \in Nat
      BY <1>1, <2>2, ChainShape
    <3>4. p \in 1..Len(u) /\ u[p] = x
      BY <2>3, <3>2, <3>3
    <3>5. Trace(x)' = u
      BY <3>2, <3>4, TraceAfter
    <3>6. Shown(u) = Append(Shown(s), n)
      BY <1>1, <2>2, <3>1, ShownOfAppend
    <3>7. Shown(Trace(x))' = Shown(u)
      BY <3>5 DEF Shown
    <3>8. QED BY <2>1, <2>4, <2>5, <3>6, <3>7
  <2>6. CASE s[Len(s)] # r
    <3>1. IsChain(s)'
      <4>1. n \in Mem \cup {None} /\ live' = live \cup ({n} \ {None})
        BY <1>1
      <4>2. QED BY <1>1, <2>2, <2>6, <4>1, OthersStay
    <3>2. Trace(x)' = s
      BY <2>3, <3>1, TraceAfter
    <3>3. Shown(Trace(x))' = Shown(s)
      BY <3>2 DEF Shown
    <3>4. QED BY <2>1, <2>4, <2>6, <3>3
  <2>7. QED BY <2>5, <2>6
<1>5. Shown(Trace(n))' = F(Shown(Trace(r)))
  <2>1. PICK s : s = Trace(r)
    OBVIOUS
  <2>2. IsChain(s)
    BY <2>1, TraceOfMemory
  <2>3. PICK p \in 1..Len(s) : s[p] = r
    BY <2>1, TraceOfMemory
  <2>4. s[Len(s)] = r
    BY <1>1, <2>2, <2>3, CurrentIsLast
  <2>5. Chains!Last(Shown(s)) = r
    BY <1>1, <2>2, <2>4, ShownOfLast DEF Chains!Last
  <2>6. PICK u : u = Append(s, n)
    OBVIOUS
  <2>7. IsChain(u)' /\ Len(u) = Len(s) + 1 /\ u[Len(s) + 1] = n /\ Len(s) \in Nat
    BY <1>1, <2>2, <2>4, <2>6, TargetGrows, ChainShape
  <2>8. Trace(n)' = u
    <3>1. Len(s) + 1 \in 1..Len(u)
      BY <2>7
    <3>2. QED BY <2>7, <3>1, TraceAfter
  <2>9. Shown(u) = Append(Shown(s), n)
    BY <1>1, <2>2, <2>6, ShownOfAppend
  <2>10. Shown(Trace(n))' = Shown(u)
    BY <2>8 DEF Shown
  <2>11. QED BY <2>1, <2>5, <2>9, <2>10
<1> HIDE DEF F
<1>6. {Shown(Trace(x)) : x \in live}' = {F(s) : s \in {Shown(Trace(x)) : x \in live}}
  BY <1>4, <1>5
<1>7. r \in {x \in live : Status(x) = "current"}
  BY <1>2 DEF Status
<1>8. {x \in live : Status(x) = "current"}' = ({x \in live : Status(x) = "current"} \ {r}) \cup {n}
  <2>1. \A x \in live : x # r => Status(x)' = Status(x)
    BY <1>2 DEF Status
  <2>2. Status(r)' # "current" /\ Status(n)' = "current"
    BY <1>1, <1>2, <1>3 DEF Status
  <2>3. QED BY <1>1, <2>1, <2>2
<1>9. {x \in live : \E j \in Targeting(x) : j.repl = None}' =
        {x \in live : \E j \in Targeting(x) : j.repl = None}
  BY <1>1, <1>2, <1>3
<1>10. n \in Mem \ (live \cup erased) /\ (live \cup erased)' = (live \cup erased) \cup {n}
  BY <1>1
<1>11. QED BY <1>6, <1>7, <1>8, <1>9, <1>10 DEF Chains!Replace, F

\* A purge leaves in place what a surviving memory is the target of.
LEMMA TargetsStay ==
    ASSUME LineageInv, NEW m \in Mem, NEW t \in Tomb, Purge(m, t), NEW x \in live'
    PROVE  /\ Targeting(x)' = {} <=> Targeting(x) = {}
           /\ (\E k \in Targeting(x)' : k.repl = None) <=> \E k \in Targeting(x) : k.repl = None
<1>1. /\ m \in live /\ t \in Tomb \ tombstones /\ live' = live \ {m}
      /\ corrections' = Pruned(Scrubbed(m, t))
  BY DEF Purge
<1>2. /\ x \in Mem /\ x # m /\ x # t /\ x # None /\ m # None /\ t # None
  BY <1>1, ConstantsDistinct DEF LineageInv, TypeOK
<1>3. ASSUME NEW k \in Targeting(x)'
      PROVE  \E j \in Targeting(x) : k.repl = None => j.repl = None
  <2>1. k \in corrections' /\ k.target = x
    BY DEF Targeting
  <2>2. PICK j \in corrections : /\ j.target = IF k.target = t THEN m ELSE k.target
                                 /\ j.repl = IF k.repl = t THEN m ELSE k.repl
    BY <2>1, RowWas
  <2>3. j.target = x /\ (k.repl = None => j.repl = None)
    BY <1>2, <2>1, <2>2
  <2>4. QED BY <2>3 DEF Targeting
<1>4. ASSUME NEW j \in Targeting(x)
      PROVE  \E k \in Targeting(x)' : j.repl = None => k.repl = None
  <2>1. j \in corrections /\ j.target = x
    BY DEF Targeting
  <2>2. PICK k \in Scrubbed(m, t) : k.target = x /\ (j.repl = None => k.repl = None)
    <3>1. CASE j.repl = None
      <4>1. j \in Scrubbed(m, t)
        BY <1>2, <2>1, <3>1 DEF Scrubbed, Touches
      <4>2. QED BY <2>1, <4>1
    <3>2. CASE j.repl # None
      BY <1>1, <1>2, <2>1, <3>2, RowBecomes
    <3>3. QED BY <3>1, <3>2
  <2>3. x \in Ends(k) \cap Mem
    BY <1>2, <2>2 DEF Ends
  <2>4. k \notin ErasedOnly(Scrubbed(m, t))
    BY <2>3 DEF ErasedOnly
  <2>5. k \in corrections'
    BY <1>1, <2>2, <2>4 DEF Pruned
  <2>6. QED BY <2>2, <2>5 DEF Targeting
<1>5. QED BY <1>3, <1>4

\* trace shows a survivor its chain with the tombstone in it.
LEMMA TraceIsGapped ==
    ASSUME ChainInv, ChainInv', NEW m \in Mem, NEW t \in Tomb, Purge(m, t), NEW x \in live'
    PROVE  Trace(x)' = Gapped(Trace(x), m, t)
<1>1. x \in live /\ x # m
  BY DEF Purge
<1>2. PICK s : s = Trace(x)
  OBVIOUS
<1>3. IsChain(s)
  BY <1>1, <1>2, TraceOfMemory
<1>4. PICK p \in 1..Len(s) : s[p] = x
  BY <1>1, <1>2, TraceOfMemory
<1>5. PICK u : u = Gapped(s, m, t)
  OBVIOUS
<1>6. u[p] = x
  BY <1>1, <1>4, <1>5 DEF Gapped
<1>7. IsChain(u)'
  BY <1>3, <1>4, <1>5, <1>6, PurgeGaps
<1>8. Len(u) = Len(s)
  <2>1. Len(s) \in Nat
    BY <1>3, ChainShape DEF ChainInv
  <2>2. u \in [1..Len(s) -> {u[i] : i \in 1..Len(s)}]
    BY <1>5 DEF Gapped
  <2>3. QED BY <2>1, <2>2
<1>9. Trace(x)' = u
  BY <1>4, <1>6, <1>7, <1>8, TraceAfter
<1>10. QED BY <1>2, <1>5, <1>9

\* What a reader is shown of a chain with a tombstone in it.
LEMMA ShownOfGapped ==
    ASSUME LineageInv, NEW s, IsChain(s), NEW m \in Mem, NEW t \in Tomb
    PROVE  Shown(Gapped(s, m, t)) = Chains!WithGap(Shown(s), m)
<1>1. DOMAIN s = 1..Len(s)
  BY ChainShape
<1>2. Shown(Gapped(s, m, t)) =
        [i \in 1..Len(s) |-> IF Gapped(s, m, t)[i] \in Mem THEN Gapped(s, m, t)[i] ELSE Gap]
  BY DEF Shown, Gapped
<1>3. Chains!WithGap(Shown(s), m) =
        [i \in 1..Len(s) |-> IF Shown(s)[i] = m THEN Gap ELSE Shown(s)[i]]
  BY <1>1 DEF Shown, Chains!WithGap
<1>4. \A i \in 1..Len(s) :
        (IF Gapped(s, m, t)[i] \in Mem THEN Gapped(s, m, t)[i] ELSE Gap)
          = (IF Shown(s)[i] = m THEN Gap ELSE Shown(s)[i])
  BY <1>1, GapIsNoMemory, ConstantsDistinct DEF Shown, Gapped
<1>5. QED BY <1>2, <1>3, <1>4

\* The memories shown of a chain are those that stand in it.
LEMMA MembersOfGapped ==
    ASSUME LineageInv, NEW s, IsChain(s), NEW m \in Mem, NEW y
    PROVE  y \in Chains!Members(Chains!WithGap(Shown(s), m))
             <=> y \in live \ {m} /\ \E i \in 1..Len(s) : s[i] = y
<1>1. DOMAIN s = 1..Len(s) /\ \A i \in 1..Len(s) : s[i] \in live \cup tombstones
  BY ChainShape DEF IsChain
<1>2. live \subseteq Mem /\ tombstones \cap Mem = {}
  BY ConstantsDistinct DEF LineageInv, TypeOK
<1> DEFINE g == Chains!WithGap(Shown(s), m)
<1>3. DOMAIN g = 1..Len(s)
  BY <1>1 DEF Shown, Chains!WithGap
<1>4. \A i \in 1..Len(s) : g[i] = IF s[i] = m THEN Gap ELSE IF s[i] \in Mem THEN s[i] ELSE Gap
  BY <1>1, GapIsNoMemory DEF Shown, Chains!WithGap
<1> HIDE DEF g
<1>5. y \in Chains!Members(g) <=> y \in Mem /\ \E i \in 1..Len(s) : y = g[i]
  BY <1>3 DEF Chains!Members, Chains!ToSet
<1>6. y \in Chains!Members(g) <=> y \in live \ {m} /\ \E i \in 1..Len(s) : s[i] = y
  BY <1>1, <1>2, <1>4, <1>5, GapIsNoMemory
<1>7. QED BY <1>6 DEF g

\* purge leaves a gap in the chain of the memory and the others as they are;
\* a chain no memory is left of is forgotten.
LEMMA PurgeShows ==
    ASSUME ChainInv, ChainInv', NEW m \in Mem, NEW t \in Tomb, Purge(m, t)
    PROVE  Chains!Erase(m)
<1>1. /\ m \in live /\ live' = live \ {m} /\ closed' = closed \ {m}
      /\ erased' = erased \cup {m} /\ LineageInv
  BY DEF Purge, ChainInv
<1> DEFINE G(s) == Chains!WithGap(s, m)
           told == {Shown(Trace(x)) : x \in live}
<1>2. ASSUME NEW x \in live'
      PROVE  Shown(Trace(x))' = G(Shown(Trace(x)))
  <2>1. Trace(x)' = Gapped(Trace(x), m, t)
    BY TraceIsGapped
  <2>2. IsChain(Trace(x))
    BY <1>1, TraceOfMemory
  <2>3. Shown(Gapped(Trace(x), m, t)) = G(Shown(Trace(x)))
    BY <1>1, <2>2, ShownOfGapped
  <2>4. Shown(Trace(x))' = Shown(Gapped(Trace(x), m, t))
    BY <2>1 DEF Shown
  <2>5. QED BY <2>3, <2>4
<1>3. ASSUME NEW x \in live'
      PROVE  Chains!Members(G(Shown(Trace(x)))) # {}
  <2>1. x \in live \ {m}
    BY <1>1
  <2>2. IsChain(Trace(x)) /\ \E i \in 1..Len(Trace(x)) : Trace(x)[i] = x
    BY <2>1, TraceOfMemory
  <2>3. x \in Chains!Members(G(Shown(Trace(x))))
    BY <1>1, <2>1, <2>2, MembersOfGapped
  <2>4. QED BY <2>3
<1>4. ASSUME NEW x \in live, Chains!Members(G(Shown(Trace(x)))) # {}
      PROVE  \E y \in live' : Trace(y) = Trace(x)
  <2>1. PICK y : y \in Chains!Members(G(Shown(Trace(x))))
    BY <1>4
  <2>2. IsChain(Trace(x))
    BY TraceOfMemory
  <2>3. y \in live' /\ \E i \in 1..Len(Trace(x)) : Trace(x)[i] = y
    BY <1>1, <2>1, <2>2, MembersOfGapped
  <2>4. Trace(y) = Trace(x)
    BY <1>1, <2>2, <2>3, TraceIsChain
  <2>5. QED BY <2>3, <2>4
<1>5. told' = {s \in {G(s) : s \in told} : Chains!Members(s) # {}}
  <2>1. told' = {G(Shown(Trace(x))) : x \in live'}
    BY <1>2
  <2>2. {G(s) : s \in told} = {G(Shown(Trace(x))) : x \in live}
    OBVIOUS
  <2> HIDE DEF G
  <2>3. \A x \in live' : x \in live
    BY <1>1
  <2>4. QED BY <1>3, <1>4, <2>1, <2>2, <2>3
<1>6. \E s \in told : m \in Chains!Members(s)
  <2>1. IsChain(Trace(m))
    BY <1>1, TraceOfMemory
  <2>2. PICK i \in 1..Len(Trace(m)) : Trace(m)[i] = m
    BY <1>1, TraceOfMemory
  <2>3. i \in DOMAIN Trace(m)
    BY <1>1, <2>1, ChainShape
  <2>4. i \in DOMAIN Shown(Trace(m)) /\ Shown(Trace(m))[i] = m
    BY <2>2, <2>3 DEF Shown
  <2>5. m \in Chains!Members(Shown(Trace(m)))
    BY <2>4 DEF Chains!Members, Chains!ToSet
  <2>6. QED BY <1>1, <2>5
<1> HIDE DEF G, told
<1>7. {x \in live : Status(x) = "current"}' = {x \in live : Status(x) = "current"} \ {m}
  <2>1. ASSUME NEW x \in live' PROVE Status(x)' = "current" <=> Status(x) = "current"
    BY <1>1, TargetsStay DEF Status
  <2>2. QED BY <1>1, <2>1
<1>8. {x \in live : \E k \in Targeting(x) : k.repl = None}' =
        {x \in live : \E k \in Targeting(x) : k.repl = None} \ {m}
  <2>1. ASSUME NEW x \in live'
        PROVE  (\E k \in Targeting(x)' : k.repl = None) <=> \E k \in Targeting(x) : k.repl = None
    BY <1>1, TargetsStay
  <2>2. QED BY <1>1, <2>1
<1>9. (live \cup erased)' = live \cup erased
  BY <1>1
<1>10. QED BY <1>5, <1>6, <1>7, <1>8, <1>9 DEF Chains!Erase, told, G

\* contradict replaces or withdraws the newest version of a chain.
LEMMA SupersedeShows ==
    ASSUME ChainInv, ChainInv', NEW c \in Client, Supersede(c)
    PROVE  Chains!Next
<1>1. PICK n : \E k \in Correction :
             /\ k.target = req[c].target /\ k.repl = n
             /\ n \in Mem \cup {None} /\ (n # None => n \notin live /\ n \notin erased)
             /\ corrections' = corrections \cup {k} /\ live' = live \cup ({n} \ {None})
             /\ tombstones' = tombstones /\ erased' = erased
             /\ closed' = closed \cup {req[c].target}
             /\ k.target \in Mem /\ k.target \in live /\ k.target \notin closed
  BY SupersedeWrites DEF ChainInv
<1>2. PICK k \in Correction :
             /\ k.target = req[c].target /\ k.repl = n
             /\ n \in Mem \cup {None} /\ (n # None => n \notin live /\ n \notin erased)
             /\ corrections' = corrections \cup {k} /\ live' = live \cup ({n} \ {None})
             /\ tombstones' = tombstones /\ erased' = erased
             /\ closed' = closed \cup {k.target}
             /\ k.target \in Mem /\ k.target \in live /\ k.target \notin closed
  BY <1>1
<1>3. CASE n = None
  <2>1. live' = live /\ k.repl = None
    BY <1>2, <1>3
  <2>2. Chains!Withdraw(k.target)
    BY <1>2, <2>1, RetractionShows
  <2>3. QED BY <1>2, <2>2 DEF Chains!Next
<1>4. CASE n # None
  <2>1. n \in Mem /\ live' = live \cup {n}
    BY <1>2, <1>4
  <2>2. Chains!Replace(k.target, n)
    BY <1>2, <1>4, <2>1, ReplacementShows
  <2>3. QED BY <1>2, <2>1, <2>2 DEF Chains!Next
<1>5. QED BY <1>3, <1>4

\* Every step of the log is a step of the abstract chains or shows nothing.
LEMMA StepShows == ChainInv /\ ChainInv' /\ [Next]_vars => [Chains!Next]_(Chains!vars)
<1> SUFFICES ASSUME ChainInv, ChainInv', [Next]_vars
             PROVE  [Chains!Next]_(Chains!vars)
  OBVIOUS
<1>1. CASE \E m \in Mem, bounded \in BOOLEAN : Observe(m, bounded)
  BY <1>1, ObserveShows DEF Chains!Next
<1>2. CASE \E c \in Client : Supersede(c)
  BY <1>2, SupersedeShows
<1>3. CASE \E m \in Mem, t \in Tomb : Purge(m, t)
  BY <1>3, PurgeShows DEF Chains!Next
<1>4. CASE \E c \in Client : \/ \E r \in Request : Call(c, r)
                           \/ PreCheck(c) \/ ReplayLocked(c) \/ RefuseMissing(c)
                           \/ RefuseSuperseded(c) \/ Leave(c)
  <2>1. UNCHANGED <<rows, erased>>
    BY <1>4 DEF Call, PreCheck, ReplayLocked, Replay, RefuseMissing, RefuseSuperseded, Leave
  <2>2. QED BY <2>1, CallerShows
<1>5. CASE UNCHANGED vars
  BY <1>5, CallerShows DEF vars, rows
<1>6. QED
  BY <1>1, <1>2, <1>3, <1>4, <1>5 DEF Next

\* What trace and status show of every surviving memory is a behaviour of the
\* abstract chains: corrections append or withdraw the newest version and
\* nothing else, and a purge leaves a gap and the rest as it was.
THEOREM TraceImplementsChain == Spec => ImplementsMemoryChain
<1>1. Init => Chains!Init
  BY DEF Init, Chains!Init
<1>2. ChainInv /\ ChainInv' /\ [Next]_vars => [Chains!Next]_(Chains!vars)
  BY StepShows
<1>3. QED BY <1>1, <1>2, ChainsInvariant, PTL DEF Spec, ImplementsMemoryChain, Chains!Spec
=============================================================================
