--------------------------- MODULE AutoRestoreProofs ---------------------------
(***************************************************************************)
(* Theorems about AutoRestore for any windows, records, desktops, delays   *)
(* and disturbances.  What keeps a binding one to one is a fact about the  *)
(* operation that will make the next ones: the records it may match are    *)
(* bound to nobody, and nobody has moved them since the plan was made.     *)
(***************************************************************************)
EXTENDS AutoRestore, FiniteSetTheorems, FunctionTheorems, TLAPS

-----------------------------------------------------------------------------
(* The inductive invariant.                                                *)

OneToOne(b) == \A v, w \in BoundWindows(b) : b[v] = b[w] => v = w

BindingsAreKnown == \A w \in BoundWindows(bound) : records[bound[w]] # Nothing

\* The windows an operation plans for were open in the layout it works from.
LooksAtItsLayout ==
  /\ Phase("prepare") => op.looked[1] = op.layout
  /\ op.phase \in {"plan", "moves"} => op.rows \subseteq Open(op.layout)

\* The records a plan may match are known, nobody's and where they were.
MatchesAreFree ==
  op.phase \in {"plan", "moves"} =>
    /\ Known(op.base) \subseteq Known(records)
    /\ BoundRecords(bound) \cap Known(op.base) \subseteq op.reserved
    /\ \A r \in Eligible : records[r].desk = op.base[r].desk

\* A window that is planned for is recorded in place meanwhile only when the
\* gate forbids moving it.
PlannedAreUnbound ==
  Phase("plan") /\ op.rows \cap BoundWindows(bound) # {} => RecordOnly(gate)

\* The moves carry out the plan, of windows that stay unbound, and there is
\* an identity for every record they will create.
MovesFollowThePlan ==
  Phase("moves") =>
    /\ op.matches \in Matchings
    /\ op.queue \subseteq Restores(op.matches)
    /\ op.queue \cap BoundWindows(bound) = {}
    /\ op.creates = NewRecords(op.matches)
    /\ Fits(op.creates, Known(records))

IInv ==
  /\ TypeOK /\ FlightHasOperation
  /\ OneToOne(bound) /\ OneToOne(persisted) /\ BindingsAreKnown
  /\ LooksAtItsLayout /\ MatchesAreFree /\ PlannedAreUnbound
  /\ MovesFollowThePlan

-----------------------------------------------------------------------------
(* New identities.                                                         *)

LEMMA WindowsAreFinite == \A S : S \subseteq Window => IsFiniteSet(S)
BY AutoRestoreAssumption, FS_Subset

LEMMA RecordsAreFinite ==
  ASSUME NEW T
  PROVE  /\ IsFiniteSet(Record \ T)
         /\ Cardinality(Record \ T) \in Nat
<1>1. IsFiniteSet(Record \ T)
  BY AutoRestoreAssumption, FS_Difference
<1>2. QED BY <1>1, FS_CardinalityType

LEMMA NoneFit == ASSUME NEW T PROVE Fits({}, T)
BY RecordsAreFinite, FS_EmptySet DEF Fits

\* NewRecordIds gives each window an identity of its own.
LEMMA IdsAreNew ==
  ASSUME NEW S, S \subseteq Window, NEW T, Fits(S, T)
  PROVE  /\ NewRecordIds(S, T) \in [S -> Record \ T]
         /\ IsInjective(NewRecordIds(S, T))
<1> DEFINE R == Record \ T
           n == Cardinality(S)
           m == Cardinality(R)
<1>1. IsFiniteSet(S) /\ IsFiniteSet(R)
  BY WindowsAreFinite, RecordsAreFinite
<1>2. /\ n \in Nat /\ m \in Nat /\ n <= m
      /\ ExistsBijection(1..n, S) /\ ExistsBijection(1..m, R)
  BY <1>1, FS_CardinalityType DEF Fits
<1>3. ExistsBijection(S, 1..n)
  BY <1>2, Fun_ExistsBijSymmetric
<1>4. PICK f : f \in [S -> 1..n] /\ \A a, b \in S : f[a] = f[b] => a = b
  BY <1>3 DEF ExistsBijection, Bijection, Injection, IsInjective
<1>5. PICK g : g \in [1..m -> R] /\ \A a, b \in 1..m : g[a] = g[b] => a = b
  BY <1>2 DEF ExistsBijection, Bijection, Injection, IsInjective
<1> DEFINE h == [s \in S |-> g[f[s]]]
<1>6. \A s \in S : f[s] \in 1..m
  BY <1>4, <1>2
<1>7. h \in [S -> R]
  BY <1>5, <1>6
<1>8. IsInjective(h)
  BY <1>4, <1>5, <1>6 DEF IsInjective
<1>9. QED BY <1>7, <1>8 DEF NewRecordIds

LEMMA KnownAre ==
  ASSUME NEW recs, NEW r
  PROVE  r \in Known(recs) <=> r \in Record /\ recs[r] # Nothing
BY DEF Known

\* There is room for those of S besides those that take the identities ids.
LEMMA RoomIsLeft ==
  ASSUME NEW S, NEW D, D \subseteq Window, NEW T,
         IsFiniteSet(S), Cardinality(D) + Cardinality(S) <= Cardinality(Record \ T),
         NEW ids, ids \in [D -> Record \ T], IsInjective(ids),
         NEW U, U = T \cup Range(ids)
  PROVE  Fits(S, U)
<1>1. Record \ U = (Record \ T) \ Range(ids) /\ Range(ids) \subseteq Record \ T
  BY DEF Range
<1>2. IsFiniteSet(D) /\ IsFiniteSet(Record \ T) /\ Cardinality(D) \in Nat
      /\ Cardinality(Record \ T) \in Nat /\ Cardinality(S) \in Nat
  BY WindowsAreFinite, RecordsAreFinite, FS_CardinalityType
<1>3. ids \in Surjection(D, Range(ids)) /\ ids \in Injection(D, Range(ids))
  BY DEF Surjection, Injection, Range
<1>4. Cardinality(Range(ids)) = Cardinality(D)
  BY <1>2, <1>3, FS_Surjection
<1>5. Cardinality(Record \ U)
        = Cardinality(Record \ T) - Cardinality((Record \ T) \cap Range(ids))
  BY <1>1, <1>2, FS_Difference
<1>6. (Record \ T) \cap Range(ids) = Range(ids)
  BY <1>1
<1>7. Cardinality((Record \ T) \cap Range(ids)) = Cardinality(D)
  BY <1>4, <1>6
<1>8. Cardinality(Record \ U) = Cardinality(Record \ T) - Cardinality(D)
  BY <1>5, <1>7
<1>9. QED BY <1>2, <1>8 DEF Fits

-----------------------------------------------------------------------------
(* Records of where windows belong.                                        *)

LEMMA KeptAre ==
  ASSUME NEW p \in Placement, p # Nothing
  PROVE  /\ p = Kept(p.page, p.desk, p.missing)
         /\ p.page \in Pages /\ p.desk \in Desktop /\ p.missing \in BOOLEAN
BY DEF Placement, Kept, Nothing

LEMMA KeptIsPlacement ==
  ASSUME NEW p \in Pages, NEW d \in Desktop, NEW m \in BOOLEAN
  PROVE  /\ Kept(p, d, m) \in Placement /\ Kept(p, d, m) # Nothing
         /\ Kept(p, d, m).desk = d /\ Kept(p, d, m).page = p
BY DEF Placement, Kept, Nothing

LEMMA MarkedIsPlacement ==
  ASSUME NEW p \in Placement, p # Nothing, NEW m \in BOOLEAN
  PROVE  /\ [p EXCEPT !.missing = m] \in Placement
         /\ [p EXCEPT !.missing = m] # Nothing
         /\ [p EXCEPT !.missing = m].desk = p.desk
<1>1. PICK a \in Pages, d \in Desktop, k \in BOOLEAN : p = Kept(a, d, k)
  BY DEF Placement
<1>2. [p EXCEPT !.missing = m] = Kept(a, d, m)
  <2>1. [Kept(a, d, k) EXCEPT !.missing = m] = Kept(a, d, m)
    BY DEF Kept
  <2>2. QED BY <1>1, <2>1
<1>3. p.desk = d
  BY <1>1, KeptIsPlacement
<1>4. QED BY <1>2, <1>3, KeptIsPlacement

\* A record after its window was seen on desktop d.
SeenAt(p, d) == [p EXCEPT !.desk = d, !.missing = FALSE]

LEMMA SeenIsPlacement ==
  ASSUME NEW p \in Placement, p # Nothing, NEW d \in Desktop
  PROVE  SeenAt(p, d) \in Placement /\ SeenAt(p, d) # Nothing /\ SeenAt(p, d).desk = d
<1> DEFINE Shape == [kind : {"kept"}, page : Pages, desk : Desktop, missing : BOOLEAN]
<1>1. p \in Shape
  BY DEF Placement, Kept, Nothing
<1>2. SeenAt(p, d) \in Shape /\ SeenAt(p, d).desk = d
  BY <1>1 DEF SeenAt
<1>3. \A q \in Shape : q \in Placement /\ q # Nothing
  <2> SUFFICES ASSUME NEW q \in Shape PROVE q \in Placement /\ q # Nothing
    OBVIOUS
  <2>1. q = Kept(q.page, q.desk, q.missing)
    BY DEF Kept
  <2>2. QED BY <2>1, KeptIsPlacement
<1>4. QED BY <1>2, <1>3

LEMMA OpenIsPlaced ==
  ASSUME NEW layout \in Layout, NEW w
  PROVE  w \in Open(layout) <=> w \in Window /\ layout[w] \in Desktop
BY LifecycleAssumption DEF Layout, Open

\* The records of new windows.
LEMMA CreatesAre ==
  ASSUME NEW recs \in [Record -> Placement], NEW ids, DOMAIN ids \subseteq Window,
         NEW places, \A w \in DOMAIN ids : places[w] \in Desktop
  PROVE  /\ Creates(recs, ids, places) \in [Record -> Placement]
         /\ \A r \in Record :
              IF r \in Range(ids) THEN Creates(recs, ids, places)[r] # Nothing
              ELSE Creates(recs, ids, places)[r] = recs[r]
<1> DEFINE C == Creates(recs, ids, places)
<1>1. ASSUME NEW r \in Record, r \in Range(ids)
      PROVE  C[r] \in Placement /\ C[r] # Nothing
  <2>1. PICK w \in DOMAIN ids : ids[w] = r /\ C[r] = Kept(Page[w], places[w], FALSE)
    BY <1>1 DEF Range, Creates
  <2>2. Page[w] \in Pages
    BY DEF Pages
  <2>3. QED BY <2>1, <2>2, KeptIsPlacement
<1>2. ASSUME NEW r \in Record, r \notin Range(ids) PROVE C[r] = recs[r]
  BY <1>2 DEF Range, Creates
<1>3. DOMAIN C = Record /\ C = [r \in Record |-> C[r]]
  BY DEF Creates
<1>4. QED BY <1>1, <1>2, <1>3

\* A refresh changes records of open bound windows only.
LEMMA RefreshedAre ==
  ASSUME NEW recs \in [Record -> Placement], NEW b \in [Window -> Record \cup {NoRecord}],
         at \in Layout, \A w \in BoundWindows(b) : recs[b[w]] # Nothing
  PROVE  /\ Refreshed(recs, b) \in [Record -> Placement]
         /\ \A r \in Record : Refreshed(recs, b)[r] = Nothing <=> recs[r] = Nothing
         /\ \A r \in Record :
              \/ Refreshed(recs, b)[r] = recs[r]
              \/ \E w \in Present : b[w] = r /\ Refreshed(recs, b)[r].desk = at[w]
<1> DEFINE F == Refreshed(recs, b)
<1>1. ASSUME NEW r \in Record, ~\E w \in Present : b[w] = r
      PROVE  F[r] = recs[r]
  BY <1>1 DEF Refreshed
<1>2. ASSUME NEW r \in Record, \E w \in Present : b[w] = r
      PROVE  /\ F[r] \in Placement /\ F[r] # Nothing /\ recs[r] # Nothing
             /\ \E w \in Present : b[w] = r /\ F[r].desk = at[w]
  <2>1. PICK w \in Present : b[w] = r
                /\ F[r] = SeenAt(recs[r], at[w])
    BY <1>2 DEF Refreshed, SeenAt
  <2>2. w \in Window /\ at[w] \in Desktop
    BY OpenIsPlaced DEF Present
  <2>3. recs[r] \in Placement /\ recs[r] # Nothing
    BY <2>1, <2>2, AutoRestoreAssumption DEF BoundWindows
  <2>4. QED BY <2>1, <2>2, <2>3, SeenIsPlacement
<1>3. DOMAIN F = Record /\ F = [r \in Record |-> F[r]]
  BY DEF Refreshed
<1>4. QED BY <1>1, <1>2, <1>3

-----------------------------------------------------------------------------
(* The lifecycle: what its functions return, and what they do to the flag  *)
(* that a restore is in flight.                                            *)

LEMMA OpenType == ASSUME NEW layout PROVE Open(layout) \in SUBSET Window
BY DEF Open

LEMMA OldAgeType ==
  /\ OldAge \in Nat /\ 0 \in 0..OldAge
  /\ 0 \in 0..MaxDeferrals /\ 0 \in Stamp /\ 0 \in 0..2 /\ 1 \in 0..2
BY LifecycleAssumption DEF OldAge

LEMMA LcNewType == LcNew \in LcState /\ ~LcNew.inFlight
<1>1. NoLayout \in Layout
  BY DEF NoLayout, Layout
<1>2. QED BY <1>1, OldAgeType, LifecycleAssumption DEF LcNew, LcState

LEMMA LcElapseType ==
  ASSUME NEW l \in LcState
  PROVE  LcElapse(l) \in LcState /\ (LcElapse(l).inFlight <=> l.inFlight)
BY OldAgeType DEF LcElapse, LcState

LEMMA LcArmType ==
  ASSUME NEW l \in LcState, NEW n \in 0..2
  PROVE  LcArmPending(l, n) \in LcState /\ (LcArmPending(l, n).inFlight <=> l.inFlight)
<1>1. LcArmPending(l, n) \in LcState
  BY OldAgeType DEF LcArmPending, LcState
<1>2. LcArmPending(l, n).inFlight <=> l.inFlight
  BY DEF LcArmPending, LcState
<1>3. QED BY <1>1, <1>2

LEMMA LcResetType ==
  ASSUME NEW l \in LcState
  PROVE  LcResetDeferred(l) \in LcState /\ (LcResetDeferred(l).inFlight <=> l.inFlight)
<1>1. LcResetDeferred(l) \in LcState
  BY OldAgeType DEF LcResetDeferred, LcState
<1>2. LcResetDeferred(l).inFlight <=> l.inFlight
  BY DEF LcResetDeferred, LcState
<1>3. QED BY <1>1, <1>2

LEMMA LcRearmType ==
  ASSUME NEW l \in LcState, NEW n \in 0..2
  PROVE  LcRearm(l, n) \in LcState /\ (LcRearm(l, n).inFlight <=> l.inFlight)
BY LcArmType, LcResetType DEF LcRearm

LEMMA LandedType ==
  ASSUME NEW l \in LcState
  PROVE  Landed(l) \in LcState /\ ~Landed(l).inFlight
BY DEF Landed, LcState

LEMMA SeeingType ==
  ASSUME NEW l \in LcState, NEW layout \in Layout, NEW t \in Titles, NEW n \in Stamp
  PROVE  /\ Seeing(l, layout, t, n) \in LcState
         /\ Seeing(l, layout, t, n).inFlight <=> l.inFlight
         /\ Seeing(l, layout, t, n).layout = layout
BY DEF Seeing, LcState

\* A heartbeat puts a restore in flight only when it begins one, and neither
\* begins one nor saves while one is in flight.
LEMMA LcObserveType ==
  ASSUME NEW l \in LcState, NEW layout \in Layout, NEW t \in Titles, NEW n \in Stamp
  PROVE  LET d == LcObserve(l, layout, t, n)
         IN  /\ d.lc \in LcState
             /\ d.lc.inFlight <=> l.inFlight \/ d.action = "BeginRestore"
             /\ d.action \in {"BeginRestore", "SaveLayout"} => ~l.inFlight
<1> DEFINE d == LcObserve(l, layout, t, n)
           seen == Seeing(l, layout, t, n)
           Good(e) == /\ e.lc \in LcState
                      /\ e.lc.inFlight <=> l.inFlight \/ e.action = "BeginRestore"
                      /\ e.action \in {"BeginRestore", "SaveLayout"} => ~l.inFlight
<1>1. seen \in LcState /\ (seen.inFlight <=> l.inFlight)
  BY SeeingType
<1>2. ASSUME NEW s \in LcState, s.inFlight <=> l.inFlight, NEW a \in {"None", "MarkMissing"}
      PROVE  Good(Decide(s, a))
  BY <1>2 DEF Decide
<1>3. Good(FirstSight(l, layout, t, n))
  <2> DEFINE s == [seen EXCEPT !.initialized = TRUE, !.completed = layout]
  <2>1. s \in LcState /\ (s.inFlight <=> l.inFlight)
    BY <1>1 DEF LcState
  <2>2. LcArmPending(s, 1) \in LcState /\ (LcArmPending(s, 1).inFlight <=> l.inFlight)
    BY <2>1, OldAgeType, LcArmType
  <2>3. QED BY <2>1, <2>2, <1>2 DEF FirstSight
<1>4. Good(LcGone(l, seen))
  <2> DEFINE s == [seen EXCEPT !.pending = FALSE, !.stable = 0,
                      !.rearm = @ \/ (l.present /\ l.inFlight)]
  <2>1. s \in LcState
    BY <1>1, OldAgeType DEF LcState
  <2>2. s.inFlight <=> l.inFlight
    BY <1>1 DEF LcState
  <2>3. QED BY <2>1, <2>2, <1>2 DEF LcGone
<1>5. ASSUME NEW c \in BOOLEAN
      PROVE Good(Decide([seen EXCEPT !.rearm = @ \/ c], "None"))
  <2>1. [seen EXCEPT !.rearm = @ \/ c] \in LcState
    BY <1>1 DEF LcState
  <2>2. [seen EXCEPT !.rearm = @ \/ c].inFlight <=> l.inFlight
    BY <1>1 DEF LcState
  <2>3. QED BY <2>1, <2>2, <1>2
<1>6. Good(Decide(LcRearm(seen, 1), "None"))
  BY <1>1, <1>2, LcRearmType
<1>7. ASSUME ~l.inFlight PROVE Good(LcSettle(l, seen, t))
  <2> DEFINE begun == [seen EXCEPT !.pending = FALSE, !.rearm = FALSE,
                              !.stable = 0, !.inFlight = TRUE,
                              !.inFlightSet = Open(seen.layout),
                              !.backoff = FALSE]
             k == EqualSnapshots(l, t)
             waits == [seen EXCEPT !.stable = k]
  <2>0. begun.inFlight
    BY <1>1 DEF LcState
  <2>1. begun \in LcState
    BY <1>1, OpenType, OldAgeType DEF LcState
  <2>2. k \in 0..2
    BY DEF EqualSnapshots, LcState
  <2>3. waits \in LcState /\ (waits.inFlight <=> l.inFlight)
    BY <1>1, <2>2 DEF LcState
  <2>4. Good(Decide(begun, "BeginRestore"))
    BY <1>7, <2>0, <2>1 DEF Decide
  <2>5. Good(Decide(waits, "None"))
    BY <2>3, <1>2
  <2>6. QED BY <2>4, <2>5 DEF LcSettle
<1>8. ASSUME ~l.inFlight
      PROVE  Good(Decide(seen, "SaveLayout")) /\ Good(Decide(seen, "None"))
  BY <1>1, <1>8 DEF Decide
<1>9. InputsChanged(l, layout, n) \in BOOLEAN
  BY DEF InputsChanged, LcState
<1>10. Good(d)
  <2>1. CASE ~l.initialized
    BY <2>1, <1>3 DEF LcObserve
  <2>2. CASE l.initialized /\ ~seen.present
    BY <2>2, <1>4 DEF LcObserve
  <2>3. CASE l.initialized /\ seen.present /\ l.inFlight
    BY <2>3, <1>5, <1>9 DEF LcObserve
  <2>4. CASE l.initialized /\ seen.present /\ ~l.inFlight /\ InputsChanged(l, layout, n)
    BY <2>4, <1>6 DEF LcObserve
  <2>5. CASE l.initialized /\ seen.present /\ ~l.inFlight /\ ~InputsChanged(l, layout, n)
    BY <2>5, <1>7, <1>8 DEF LcObserve
  <2>6. QED BY <2>1, <2>2, <2>3, <2>4, <2>5
<1>11. QED BY <1>10

LEMMA LcCancelType ==
  ASSUME NEW l \in LcState
  PROVE  LcCancelRestore(l) \in LcState /\ ~LcCancelRestore(l).inFlight
<1> DEFINE dropped == [Landed(l) EXCEPT !.pending = FALSE, !.stable = 0, !.backoff = FALSE]
<1>0. Landed(l) \in LcState /\ ~Landed(l).inFlight
  BY LandedType
<1>1. dropped \in LcState
  BY <1>0, OldAgeType DEF LcState
<1>2. ~dropped.inFlight
  BY <1>0 DEF LcState
<1>3. LcRearm(dropped, 0) \in LcState /\ ~LcRearm(dropped, 0).inFlight
  BY <1>1, <1>2, OldAgeType, LcRearmType
<1>4. QED BY <1>1, <1>2, <1>3 DEF LcCancelRestore

LEMMA LcCompletedType ==
  ASSUME NEW l \in LcState, NEW outcome, NEW layout \in Layout, NEW n \in Stamp
  PROVE  LET c == LcRestoreCompleted(l, outcome, layout, n)
         IN  c \in LcState /\ ~c.inFlight
<1> USE LifecycleAssumption
<1> DEFINE landed == Landed(l)
<1>1. landed \in LcState /\ ~landed.inFlight
  BY LandedType
<1>2. LcDeferred(l, n) \in LcState /\ ~LcDeferred(l, n).inFlight
  <2> DEFINE counted == [landed EXCEPT !.attempts = Deferrals(l, n),
                                    !.deferredSet = l.inFlightSet,
                                    !.deferredStamp = n]
             over == [counted EXCEPT !.pending = FALSE, !.stable = 0,
                          !.givenUp = TRUE, !.backoff = FALSE]
             again == [counted EXCEPT !.givenUp = FALSE, !.backoff = TRUE]
  <2>1. Deferrals(l, n) \in 0..MaxDeferrals
    BY DEF Deferrals, LcState
  <2>2. counted \in LcState /\ ~counted.inFlight
    BY <1>1, <2>1 DEF LcState
  <2>3. over \in LcState /\ again \in LcState
    BY <2>2, OldAgeType DEF LcState
  <2>7. ~over.inFlight /\ ~again.inFlight
    BY <2>2 DEF LcState
  <2>4. LcArmPending(again, 0) \in LcState /\ ~LcArmPending(again, 0).inFlight
    BY <2>3, <2>7, OldAgeType, LcArmType
  <2>5. LcRearm(landed, 0) \in LcState /\ ~LcRearm(landed, 0).inFlight
    BY <1>1, LcRearmType
  <2>6. QED BY <2>2, <2>3, <2>4, <2>5, <2>7 DEF LcDeferred
<1>3. LcConcluded(l, layout) \in LcState /\ ~LcConcluded(l, layout).inFlight
  <2> DEFINE now == [landed EXCEPT !.completed = layout]
             done == LcResetDeferred(now)
  <2>1. now \in LcState /\ ~now.inFlight
    BY <1>1 DEF LcState
  <2>2. done \in LcState /\ ~done.inFlight
    BY <2>1, LcResetType
  <2>3. LcArmPending(done, 0) \in LcState /\ ~LcArmPending(done, 0).inFlight
    BY <2>2, LcArmType
  <2>4. QED BY <2>2, <2>3 DEF LcConcluded
<1>4. QED BY <1>2, <1>3 DEF LcRestoreCompleted

LEMMA LcSavedType ==
  ASSUME NEW l \in LcState, NEW layout \in Layout
  PROVE  /\ LcExplicitSaveCompleted(l, layout) \in LcState
         /\ LcExplicitSaveCompleted(l, layout).inFlight <=> l.inFlight
         /\ LcExplicitSaveNeedsReconcile(l, layout) \in LcState
         /\ LcExplicitSaveNeedsReconcile(l, layout).inFlight <=> l.inFlight
<1> DEFINE now == [l EXCEPT !.completed = layout]
           saved == LcResetDeferred(now)
<1>1. now \in LcState /\ (now.inFlight <=> l.inFlight)
  BY DEF LcState
<1>2. saved \in LcState /\ (saved.inFlight <=> l.inFlight)
  BY <1>1, LcResetType
<1>3. LcRearm(saved, 0) \in LcState /\ (LcRearm(saved, 0).inFlight <=> l.inFlight)
  BY <1>2, LcRearmType
<1>4. QED BY <1>2, <1>3 DEF LcExplicitSaveCompleted, LcExplicitSaveNeedsReconcile

-----------------------------------------------------------------------------
(* The operation.                                                          *)

LEMMA PlanShape ==
  ASSUME op \in Operation, op.phase \in {"plan", "moves"}
  PROVE  /\ op.layout \in Layout /\ op.source \in Stamp
         /\ op.base \in [Record -> Placement] /\ op.rows \subseteq Window
         /\ op.reserved \subseteq Record /\ op.fresh \in BOOLEAN
BY DEF Operation, Idle

LEMMA PrepareShape ==
  ASSUME op \in Operation, Phase("prepare")
  PROVE  /\ op.looked \in Layout \X Titles /\ op.layout \in Layout
         /\ op.source \in Stamp /\ op.fresh \in BOOLEAN /\ op.stale \in BOOLEAN
BY DEF Operation, Idle, Phase

LEMMA PlanLooks ==
  ASSUME op \in Operation, Phase("plan")
  PROVE  op.looked \in Layout \X Titles /\ op.stale \in BOOLEAN
BY DEF Operation, Idle, Phase

LEMMA SessionShape ==
  ASSUME op \in Operation, Phase("session")
  PROVE  op.layout \in Layout /\ op.windows \subseteq Window
BY DEF Operation, Idle, Phase

LEMMA MovesShape ==
  ASSUME op \in Operation, Phase("moves")
  PROVE  /\ op \in [phase : {"moves"}, layout : Layout, source : Stamp,
                    base : [Record -> Placement], rows : SUBSET Window,
                    reserved : SUBSET Record, fresh : BOOLEAN,
                    matches : UNION {[ws -> Record] : ws \in SUBSET Window},
                    queue : SUBSET Window, done : SUBSET Window,
                    creates : SUBSET Window]
         /\ op.queue \subseteq Window /\ op.done \subseteq Window
         /\ op.creates \subseteq Window
BY DEF Operation, Idle, Phase

LEMMA PhasesAre ==
  ASSUME op \in Operation
  PROVE  /\ op.phase \in {"idle", "session", "prepare", "plan", "moves"}
         /\ op.phase = "idle" <=> op = Idle
BY DEF Operation, Idle

\* An operation that plans nothing yet has nothing to respect.
LEMMA NothingPlanned ==
  ASSUME op'.phase \in {"idle", "session"}
  PROVE  LooksAtItsLayout' /\ MatchesAreFree' /\ PlannedAreUnbound' /\ MovesFollowThePlan'
BY DEF LooksAtItsLayout, MatchesAreFree, PlannedAreUnbound, MovesFollowThePlan, Phase

\* What a matching gives, in terms of windows and records.
LEMMA MatchingsAre ==
  ASSUME NEW m \in Matchings
  PROVE  /\ DOMAIN m \subseteq op.rows /\ m \in [DOMAIN m -> Eligible]
         /\ \A v, w \in DOMAIN m : m[v] = m[w] => v = w
         /\ \A w \in DOMAIN m : m[w] \in Record /\ op.base[m[w]] # Nothing
                                /\ m[w] \notin op.reserved
BY DEF Matchings, IsInjective, Eligible, Known

-----------------------------------------------------------------------------
(* Initial states, and the steps that leave the bindings, the records and  *)
(* the operation alone.                                                    *)

LEMMA InitEstablishes == Init => IInv
<1> SUFFICES ASSUME Init PROVE IInv
  OBVIOUS
<1> USE AutoRestoreAssumption, LifecycleAssumption
<1>1. op = Idle /\ op.phase = "idle" /\ lc = LcNew
  BY DEF Init, Idle
<1>2. at \in Layout /\ records \in [Record -> Placement]
  BY DEF Init
<1>3. bound \in [Window -> Record \cup {NoRecord}]
  BY DEF Init, Known
<1>4. unbound \in [Window -> Ages(RecordDelay)] /\ gate \in Ages(Grace)
  BY DEF Init, Ages
<1>5. op \in Operation
  BY <1>1 DEF Operation
<1>6. born \subseteq Window /\ held \subseteq Window
      /\ spent \subseteq Record \X Window \X Desktop
  BY OpenType DEF Init
<1>7. titles \in Titles /\ stamp \in Stamp /\ fresh \in Stamp /\ calm \in 0..MaxDisturbances
  BY DEF Init
<1>8. readable \in BOOLEAN /\ decoded \in BOOLEAN /\ probing \in BOOLEAN
  BY DEF Init
<1>9. lc \in LcState /\ ~lc.inFlight
  BY <1>1, LcNewType
<1>10. TypeOK
  BY <1>2, <1>3, <1>4, <1>5, <1>6, <1>7, <1>8, <1>9 DEF TypeOK, Init
<1>11. FlightHasOperation
  BY <1>1, <1>9 DEF FlightHasOperation
<1>12. OneToOne(bound) /\ OneToOne(persisted)
  <2> DEFINE f == Restrict(bound, BoundWindows(bound))
  <2>1. IsInjective(f)
    BY DEF Init
  <2>2. DOMAIN f = BoundWindows(bound) /\ \A w \in BoundWindows(bound) : f[w] = bound[w]
    BY DEF Restrict
  <2>3. OneToOne(bound)
    BY <2>1, <2>2 DEF OneToOne, IsInjective
  <2>4. QED BY <2>3 DEF Init
<1>13. BindingsAreKnown
  BY DEF Init, BindingsAreKnown, BoundWindows, Known
<1>14. LooksAtItsLayout /\ MatchesAreFree /\ PlannedAreUnbound /\ MovesFollowThePlan
  BY <1>1 DEF LooksAtItsLayout, MatchesAreFree, PlannedAreUnbound, MovesFollowThePlan, Phase
<1>15. QED BY <1>10, <1>11, <1>12, <1>13, <1>14 DEF IInv

LEMMA SameKeeps ==
  ASSUME IInv, TypeOK', UNCHANGED <<records, bound, persisted, op>>,
         lc'.inFlight <=> lc.inFlight, RecordOnly(gate) => RecordOnly(gate)'
  PROVE  IInv'
<1> USE DEF IInv
<1>1. FlightHasOperation'
  BY DEF FlightHasOperation
<1>2. OneToOne(bound)' /\ OneToOne(persisted)' /\ BindingsAreKnown'
  BY DEF OneToOne, BindingsAreKnown, BoundWindows
<1>3. LooksAtItsLayout'
  BY DEF LooksAtItsLayout, Phase
<1>4. MatchesAreFree'
  BY DEF MatchesAreFree, BoundRecords, BoundWindows, Known, Eligible
<1>5. PlannedAreUnbound'
  BY DEF PlannedAreUnbound, Phase, BoundWindows
<1>6. MovesFollowThePlan'
  BY DEF MovesFollowThePlan, Phase, Matchings, Restores, BoundWindows, NewRecords, Fits,
     Known, Eligible, Destination
<1>7. QED BY <1>1, <1>2, <1>3, <1>4, <1>5, <1>6

LEMMA EnvironmentKeeps ==
  ASSUME IInv,
         \/ \E w \in Window, d \in Desktop : OpenWindow(w, d) \/ UserMoves(w, d)
         \/ \E w \in Window : CloseWindow(w)
         \/ TitlesChange \/ BrowserSaves
  PROVE  IInv'
<1>1. UNCHANGED <<store, persisted, clocks, session, lc, op>>
  BY DEF OpenWindow, UserMoves, CloseWindow, TitlesChange, BrowserSaves
<1>2. at' \in Layout /\ born' \subseteq Window /\ calm' \in 0..MaxDisturbances
  <2>1. at \in Layout /\ born \subseteq Window /\ calm \in 0..MaxDisturbances
    BY DEF IInv, TypeOK
  <2>2. \A w, d : d \in Desktop \cup {Away} => [at EXCEPT ![w] = d] \in Layout
    BY <2>1 DEF Layout
  <2>3. at' \in Layout
    <3>1. ASSUME NEW w \in Window, NEW d \in Desktop, OpenWindow(w, d) \/ UserMoves(w, d)
          PROVE  at' \in Layout
      <4>1. at' = [at EXCEPT ![w] = d]
        BY <3>1 DEF OpenWindow, UserMoves
      <4>2. QED BY <4>1, <2>2
    <3>2. ASSUME NEW w \in Window, CloseWindow(w) PROVE at' \in Layout
      BY <3>2, <2>2 DEF CloseWindow
    <3>3. TitlesChange \/ BrowserSaves => at' \in Layout
      BY <2>1 DEF TitlesChange, BrowserSaves
    <3>4. QED BY <3>1, <3>2, <3>3
  <2>4. born' \subseteq Window
    BY <2>1 DEF OpenWindow, UserMoves, CloseWindow, TitlesChange, BrowserSaves
  <2>5. Disturb
    BY DEF OpenWindow, UserMoves, CloseWindow, TitlesChange, BrowserSaves
  <2>6. calm' \in 0..MaxDisturbances
    BY <2>1, <2>5, AutoRestoreAssumption DEF Disturb
  <2>7. QED BY <2>3, <2>4, <2>6
<1>3. titles' \in Titles /\ stamp' \in Stamp /\ readable' \in BOOLEAN
  BY DEF IInv, TypeOK, OpenWindow, UserMoves, CloseWindow, TitlesChange, BrowserSaves
<1>4. TypeOK'
  BY <1>1, <1>2, <1>3 DEF IInv, TypeOK, store, clocks, session
<1>5. QED BY <1>1, <1>4, SameKeeps DEF store, clocks, RecordOnly

LEMMA OlderType ==
  ASSUME NEW limit \in Nat, NEW a \in Ages(limit)
  PROVE  /\ Older(a, limit) \in Ages(limit)
         /\ AtLeast(a, limit) => AtLeast(Older(a, limit), limit)
<1>1. \A n \in Nat : Since(n) # Never /\ Since(n).age = n
  BY DEF Since, Never
<1>2. CASE a = Never
  BY <1>2 DEF Older, Ages, AtLeast
<1>3. CASE a # Never
  <2>1. PICK n \in 0..limit : a = Since(n)
    BY <1>3 DEF Ages
  <2>2. AtLeast(a, limit) <=> n = limit
    BY <2>1, <1>1, <1>3 DEF AtLeast
  <2>3. Older(a, limit) = IF n = limit THEN a ELSE Since(n + 1)
    BY <2>1, <2>2, <1>1, <1>3 DEF Older
  <2>4. n # limit => n + 1 \in 0..limit
    OBVIOUS
  <2>5. Older(a, limit) \in Ages(limit)
    BY <2>3, <2>4 DEF Ages
  <2>6. AtLeast(a, limit) => Older(a, limit) = a
    BY <2>2, <2>3
  <2>7. QED BY <2>5, <2>6
<1>4. QED BY <1>2, <1>3

LEMMA TimeKeeps ==
  ASSUME IInv, TimePasses
  PROVE  IInv'
<1> USE AutoRestoreAssumption DEF IInv
<1>1. lc' \in LcState /\ (lc'.inFlight <=> lc.inFlight)
  BY LcElapseType DEF TimePasses, TypeOK
<1>2. gate' \in Ages(Grace) /\ (RecordOnly(gate) => RecordOnly(gate'))
  BY OlderType DEF TimePasses, TypeOK, RecordOnly
<1>3. unbound' \in [Window -> Ages(RecordDelay)]
  BY OlderType DEF TimePasses, TypeOK
<1>4. UNCHANGED <<at, env, store, persisted, session, op>>
  BY DEF TimePasses
<1>5. TypeOK'
  BY <1>1, <1>2, <1>3, <1>4 DEF TypeOK, env, store, session
<1>6. QED BY <1>1, <1>2, <1>4, <1>5, SameKeeps DEF store, RecordOnly

LEMMA ProbeKeeps ==
  ASSUME IInv, ProbeResult
  PROVE  IInv'
<1>1. UNCHANGED <<at, env, store, persisted, clocks, lc, op>>
  BY DEF ProbeResult
<1>2. decoded' \in BOOLEAN /\ fresh' \in Stamp /\ probing' \in BOOLEAN
  BY DEF IInv, TypeOK, ProbeResult
<1>3. TypeOK'
  BY <1>1, <1>2 DEF IInv, TypeOK, env, store, clocks
<1>4. QED BY <1>1, <1>3, SameKeeps DEF store, clocks, RecordOnly

-----------------------------------------------------------------------------
(* The ends of an operation that plans nothing, and its first two steps.   *)

LEMMA BindingsStay ==
  ASSUME IInv, UNCHANGED <<records, bound, persisted>>
  PROVE  OneToOne(bound)' /\ OneToOne(persisted)' /\ BindingsAreKnown'
BY DEF IInv, OneToOne, BindingsAreKnown, BoundWindows

LEMMA IdleType == Idle \in Operation /\ Idle.phase = "idle"
BY DEF Operation, Idle

LEMMA EndKeeps ==
  ASSUME IInv, TypeOK', UNCHANGED <<records, bound, persisted>>,
         op' = Idle, ~lc'.inFlight
  PROVE  IInv'
<1>1. op'.phase \in {"idle", "session"}
  BY IdleType
<1>2. FlightHasOperation'
  BY DEF FlightHasOperation
<1>3. QED BY <1>1, <1>2, NothingPlanned, BindingsStay DEF IInv

LEMMA RestartKeeps ==
  ASSUME IInv, Restart
  PROVE  IInv'
<1> USE AutoRestoreAssumption
<1>1. /\ lc' = LcNew /\ op' = Idle /\ held' = {} /\ spent' = {}
      /\ unbound' = [w \in Window |-> Never] /\ gate' = Never
      /\ decoded' = FALSE /\ fresh' = 0 /\ probing' = FALSE
      /\ UNCHANGED <<at, born, titles, stamp, readable, records, persisted>>
  BY DEF Restart
<1>2. \A w \in Window : bound'[w] = IF w \in Present /\ persisted[w] \in Known(records)
                                   THEN persisted[w] ELSE NoRecord
  BY DEF Restart
<1>3. bound' \in [Window -> Record \cup {NoRecord}]
  BY DEF Restart, Known
<1>4. calm' \in 0..MaxDisturbances
  BY DEF Restart, Disturb, IInv, TypeOK
<1>5. unbound' \in [Window -> Ages(RecordDelay)] /\ gate' \in Ages(Grace)
  BY <1>1 DEF Ages
<1>6. lc' \in LcState /\ ~lc'.inFlight
  BY <1>1, LcNewType
<1>7. op' \in Operation /\ op'.phase = "idle"
  BY <1>1, IdleType
<1>8. TypeOK'
  BY <1>1, <1>3, <1>4, <1>5, <1>6, <1>7, LifecycleAssumption DEF IInv, TypeOK
<1>9. FlightHasOperation'
  BY <1>1, <1>6 DEF FlightHasOperation
<1>10. \A w \in BoundWindows(bound') :
         w \in BoundWindows(persisted) /\ bound'[w] = persisted[w] /\ records[bound'[w]] # Nothing
  BY <1>2 DEF BoundWindows, Known
<1>11. OneToOne(bound)' /\ OneToOne(persisted)' /\ BindingsAreKnown'
  <2>1. OneToOne(bound')
    BY <1>10 DEF IInv, OneToOne
  <2>2. OneToOne(persisted')
    BY <1>1 DEF IInv
  <2>3. BindingsAreKnown'
    BY <1>1, <1>10 DEF BindingsAreKnown
  <2>4. QED BY <2>1, <2>2, <2>3
<1>12. QED BY <1>7, <1>8, <1>9, <1>11, NothingPlanned DEF IInv

LEMMA CancelKeeps ==
  ASSUME IInv, CancelAutoOperation,
         UNCHANGED <<at, born, titles, stamp, readable, store, persisted, clocks>>,
         calm' \in 0..MaxDisturbances,
         decoded' \in BOOLEAN, fresh' \in Stamp, probing' \in BOOLEAN
  PROVE  IInv'
<1>1. lc' \in LcState /\ ~lc'.inFlight
  BY LcCancelType DEF CancelAutoOperation, IInv, TypeOK
<1>2. op' = Idle /\ op' \in Operation
  BY IdleType DEF CancelAutoOperation
<1>3. TypeOK'
  BY <1>1, <1>2 DEF IInv, TypeOK, store, clocks
<1>4. QED BY <1>1, <1>2, <1>3, EndKeeps DEF store

LEMMA DeferKeeps ==
  ASSUME IInv, NEW layout \in Layout, NEW n \in Stamp,
         CompleteAutoDeferred(layout, n),
         UNCHANGED <<at, env, store, persisted, clocks, session>>
  PROVE  IInv'
<1>1. lc' \in LcState /\ ~lc'.inFlight
  BY LcCompletedType DEF CompleteAutoDeferred, IInv, TypeOK
<1>2. op' = Idle /\ op' \in Operation
  BY IdleType DEF CompleteAutoDeferred
<1>3. TypeOK'
  BY <1>1, <1>2 DEF IInv, TypeOK, store, clocks, env, session
<1>4. QED BY <1>1, <1>2, <1>3, EndKeeps DEF store

LEMMA AbandonKeeps ==
  ASSUME IInv, Abandon
  PROVE  IInv'
<1>1. calm' \in 0..MaxDisturbances
  BY AutoRestoreAssumption DEF Abandon, Disturb, IInv, TypeOK
<1>2. decoded' \in BOOLEAN /\ fresh' \in Stamp /\ probing' \in BOOLEAN
  BY DEF Abandon, session, IInv, TypeOK
<1>3. QED BY <1>1, <1>2, CancelKeeps DEF Abandon

LEMMA SessionUnavailableKeeps ==
  ASSUME IInv, SessionUnavailable
  PROVE  IInv'
<1>1. op.layout \in Layout /\ stamp \in Stamp
  BY SessionShape DEF SessionUnavailable, IInv, TypeOK
<1>2. QED BY <1>1, DeferKeeps DEF SessionUnavailable

LEMMA PlanEndsKeep ==
  ASSUME IInv, PlanDeferred \/ PlanOutdated
  PROVE  IInv'
<1>1. CASE PlanDeferred
  <2>1. op.layout \in Layout /\ op.source \in Stamp
    BY <1>1, PlanShape DEF PlanDeferred, Phase, IInv, TypeOK
  <2>2. QED BY <1>1, <2>1, DeferKeeps DEF PlanDeferred
<1>2. CASE PlanOutdated
  <2>1. /\ calm' \in 0..MaxDisturbances
        /\ decoded' \in BOOLEAN /\ fresh' \in Stamp /\ probing' \in BOOLEAN
    BY <1>2 DEF PlanOutdated, env, session, IInv, TypeOK
  <2>2. QED BY <1>2, <2>1, CancelKeeps DEF PlanOutdated, env
<1>3. QED BY <1>1, <1>2

LEMMA SessionUsableKeeps ==
  ASSUME IInv, SessionUsable
  PROVE  IInv'
<1>1. /\ calm' \in 0..MaxDisturbances
      /\ decoded' \in BOOLEAN /\ fresh' \in Stamp /\ probing' \in BOOLEAN
  BY DEF SessionUsable, env, IInv, TypeOK
<1>2. CASE Present # op.windows
  BY <1>1, <1>2, CancelKeeps DEF SessionUsable, env
<1>3. CASE Present = op.windows
  <2>1. /\ op' = [phase |-> "prepare", looked |-> Looked, layout |-> at,
                  source |-> stamp, fresh |-> readable, stale |-> FALSE]
        /\ UNCHANGED <<lc, at, env, store, persisted, clocks>>
        /\ Phase("session")
    BY <1>3 DEF SessionUsable
  <2>2. op'.phase = "prepare" /\ op'.looked[1] = op'.layout
    BY <2>1 DEF Looked
  <2>3. op' \in Operation
    <3>1. Looked \in Layout \X Titles /\ at \in Layout /\ stamp \in Stamp /\ readable \in BOOLEAN
      BY DEF IInv, TypeOK, Looked
    <3>2. QED BY <2>1, <3>1 DEF Operation
  <2>4. TypeOK'
    BY <1>1, <2>1, <2>3 DEF IInv, TypeOK, env, store, clocks
  <2>5. FlightHasOperation'
    <3>1. op # Idle /\ op' # Idle
      BY <2>1, <2>2, IdleType DEF Phase
    <3>2. QED BY <2>1, <3>1 DEF IInv, FlightHasOperation
  <2>6. LooksAtItsLayout' /\ MatchesAreFree' /\ PlannedAreUnbound' /\ MovesFollowThePlan'
    BY <2>2 DEF LooksAtItsLayout, MatchesAreFree, PlannedAreUnbound, MovesFollowThePlan, Phase
  <2>7. QED BY <2>1, <2>4, <2>5, <2>6, BindingsStay DEF IInv, store
<1>4. QED BY <1>2, <1>3

\* What a preparation does to the records: those of open bound windows are
\* brought up to date.
LEMMA PreparedRecords ==
  ASSUME IInv, NEW rows, Prepared(rows)
  PROVE  /\ records' \in [Record -> Placement]
         /\ \A r \in Record : records'[r] = Nothing <=> records[r] = Nothing
         /\ \A r \in Record :
              \/ records'[r] = records[r]
              \/ \E w \in Present : bound[w] = r /\ records'[r].desk = at[w]
<1>1. records' = records \/ records' = Refreshed(records, bound)
  BY DEF Prepared
<1>2. CASE records' = records
  BY <1>2 DEF IInv, TypeOK
<1>3. CASE records' = Refreshed(records, bound)
  BY <1>3, RefreshedAre DEF IInv, TypeOK, BindingsAreKnown
<1>4. QED BY <1>1, <1>2, <1>3

LEMMA PreparedKeeps ==
  ASSUME IInv, NEW rows, Prepared(rows)
  PROVE  IInv'
<1>1. UNCHANGED <<at, env, bound, spent, persisted, clocks, session>>
  BY DEF Prepared
<1>2. CASE ~Current
  <2>1. UNCHANGED store
    BY <1>1, <1>2 DEF Prepared, store
  <2>2. /\ calm' \in 0..MaxDisturbances
        /\ decoded' \in BOOLEAN /\ fresh' \in Stamp /\ probing' \in BOOLEAN
    BY <1>1 DEF env, session, IInv, TypeOK
  <2>3. QED BY <1>1, <1>2, <2>1, <2>2, CancelKeeps DEF Prepared, env
<1>3. CASE Current
  <2>1. /\ Phase("prepare") /\ rows \subseteq Present \ BoundWindows(bound)
        /\ held' = held \ BoundWindows(bound) /\ lc' = lc
        /\ op' = [phase |-> "plan", looked |-> op.looked,
                    layout |-> op.layout, source |-> op.source,
                    stale |-> op.stale, base |-> records', rows |-> rows,
                    reserved |-> BoundRecords(bound),
                    fresh |-> op.fresh /\ rows = Present \ BoundWindows(bound)]
    BY <1>3 DEF Prepared, PlanRows
  <2>2. /\ op.looked \in Layout \X Titles /\ op.layout \in Layout
        /\ op.source \in Stamp /\ op.fresh \in BOOLEAN /\ op.stale \in BOOLEAN
    BY <2>1, PrepareShape DEF IInv, TypeOK
  <2>3. op.layout = at
    BY <1>3, <2>1 DEF Current, Looked, IInv, LooksAtItsLayout
  <2>4. rows \subseteq Window /\ BoundRecords(bound) \subseteq Record
    BY <2>1 DEF Present, Open, BoundRecords, BoundWindows, IInv, TypeOK
  <2>5. op' \in Operation
    BY <2>1, <2>2, <2>4, PreparedRecords DEF Operation
  <2>6. /\ op'.phase = "plan" /\ op'.base = records' /\ op'.rows = rows
        /\ op'.layout = at /\ op'.reserved = BoundRecords(bound)
    BY <2>1, <2>3
  <2>7. TypeOK'
    <3>1. held' \subseteq Window
      BY <2>1 DEF IInv, TypeOK
    <3>2. QED BY <1>1, <2>1, <2>5, <3>1, PreparedRecords DEF IInv, TypeOK, env, clocks, session
  <2>8. FlightHasOperation'
    <3>1. op # Idle /\ op' # Idle
      BY <2>1, <2>6, IdleType DEF Phase
    <3>2. QED BY <2>1, <3>1 DEF IInv, FlightHasOperation
  <2>9. OneToOne(bound)' /\ OneToOne(persisted)' /\ BindingsAreKnown'
    <3>1. OneToOne(bound)' /\ OneToOne(persisted)'
      BY <1>1 DEF IInv, OneToOne, BoundWindows
    <3>2. \A w \in BoundWindows(bound) : bound[w] \in Record /\ records[bound[w]] # Nothing
      BY DEF IInv, TypeOK, BindingsAreKnown, BoundWindows
    <3>3. BindingsAreKnown'
      BY <1>1, <3>2, PreparedRecords DEF BindingsAreKnown, BoundWindows
    <3>4. QED BY <3>1, <3>3
  <2>10. LooksAtItsLayout'
    BY <2>1, <2>6 DEF LooksAtItsLayout, Phase, Present
  <2>11. MatchesAreFree'
    BY <1>1, <2>6 DEF MatchesAreFree, Eligible, BoundRecords, BoundWindows
  <2>12. PlannedAreUnbound'
    BY <1>1, <2>1, <2>6 DEF PlannedAreUnbound, BoundWindows
  <2>13. MovesFollowThePlan'
    BY <2>6 DEF MovesFollowThePlan, Phase
  <2>14. QED BY <2>7, <2>8, <2>9, <2>10, <2>11, <2>12, <2>13 DEF IInv
<1>4. QED BY <1>2, <1>3

-----------------------------------------------------------------------------
(* The end of an operation that planned.                                   *)

\* A plan is committed without moving a record, and none is forgotten.
LEMMA CommittedAre ==
  ASSUME IInv, op.phase \in {"plan", "moves"}, NEW m \in Matchings
  PROVE  /\ Committed(m) \in [Record -> Placement]
         /\ \A r \in Record : records[r] # Nothing =>
              Committed(m)[r] # Nothing /\ Committed(m)[r].desk = records[r].desk
         /\ \A r \in Eligible : Committed(m)[r] # Nothing
<1>1. records \in [Record -> Placement] /\ op.base \in [Record -> Placement]
  BY PlanShape DEF IInv, TypeOK
<1>2. Range(m) \subseteq Eligible /\ MissingRecords(m) \subseteq Eligible
  BY MatchingsAre DEF Range, MissingRecords
<1>3. ASSUME NEW r \in Record, NEW x \in BOOLEAN, r \in Eligible
      PROVE  /\ [op.base[r] EXCEPT !.missing = x] \in Placement
             /\ [op.base[r] EXCEPT !.missing = x] # Nothing
             /\ [op.base[r] EXCEPT !.missing = x].desk = records[r].desk
  <2>1. op.base[r] \in Placement /\ op.base[r] # Nothing
    BY <1>1, <1>3 DEF Eligible, Known
  <2>2. records[r].desk = op.base[r].desk
    BY <1>3 DEF IInv, MatchesAreFree
  <2>3. QED BY <2>1, <2>2, MarkedIsPlacement
<1>4. ASSUME NEW r \in Record
      PROVE  /\ Committed(m)[r] \in Placement
             /\ r \in Eligible \/ records[r] # Nothing => Committed(m)[r] # Nothing
             /\ records[r] # Nothing => Committed(m)[r].desk = records[r].desk
  <2>1. CASE r \in Range(m)
    <3>1. Committed(m)[r] = [op.base[r] EXCEPT !.missing = FALSE] /\ r \in Eligible
      BY <2>1, <1>2 DEF Committed
    <3>2. PICK x \in BOOLEAN : x = FALSE
      OBVIOUS
    <3>3. QED BY <3>1, <3>2, <1>3
  <2>2. CASE r \notin Range(m) /\ r \in MissingRecords(m)
    <3>1. Committed(m)[r] = [op.base[r] EXCEPT !.missing = TRUE] /\ r \in Eligible
      BY <2>2, <1>2 DEF Committed
    <3>2. PICK x \in BOOLEAN : x = TRUE
      OBVIOUS
    <3>3. QED BY <3>1, <3>2, <1>3
  <2>3. CASE r \notin Range(m) /\ r \notin MissingRecords(m)
    <3>1. Committed(m)[r] = records[r]
      BY <2>3 DEF Committed
    <3>2. r \in Eligible => records[r] # Nothing
      BY DEF IInv, MatchesAreFree, Eligible, Known
    <3>3. QED BY <3>1, <3>2, <1>1
  <2>4. QED BY <2>1, <2>2, <2>3
<1>5. Committed(m) = [r \in Record |-> Committed(m)[r]]
  BY DEF Committed
<1>6. Committed(m) \in [Record -> Placement]
  BY <1>4, <1>5
<1>7. Eligible \subseteq Record
  BY DEF Eligible, Known
<1>8. QED BY <1>4, <1>6, <1>7

\* The end of an operation: every record known stays where it was, what is
\* bound is bound as before or to a free record, and nothing is under way.
LEMMA FinishDoes ==
  ASSUME IInv, op.phase \in {"plan", "moves"}, NEW m \in Matchings,
         Fits(NewRecords(m), Known(records)), NEW done,
         NEW waiting \in SUBSET Window, FinishAutoOperation(m, done, waiting)
  PROVE  /\ records' \in [Record -> Placement]
         /\ \A r \in Record : records[r] # Nothing =>
              records'[r] # Nothing /\ records'[r].desk = records[r].desk
         /\ bound' \in [Window -> Record \cup {NoRecord}]
         /\ OneToOne(bound') /\ BindingsAreKnown'
         /\ \A w \in BoundWindows(bound) : w \in BoundWindows(bound')
         /\ held' \subseteq Window
         /\ op' = Idle /\ lc' \in LcState /\ ~lc'.inFlight
<1> USE AutoRestoreAssumption
<1> DEFINE succeeded == {w \in DOMAIN m : w \in Restores(m) => w \in done}
           new == NewRecords(m)
           ids == NewRecordIds(new, Known(records))
           placed == [w \in succeeded \cup new |-> IF w \in succeeded THEN m[w] ELSE ids[w]]
<1>1. /\ records' = Creates(Committed(m), ids, op.layout)
      /\ bound' = Binds(bound, placed)
      /\ held' = (waiting \cup Restores(m)) \ DOMAIN placed
      /\ lc' = LcRestoreCompleted(lc, "Success", op.layout, op.source)
      /\ op' = Idle
  BY DEF FinishAutoOperation
<1>2. /\ op.layout \in Layout /\ op.source \in Stamp /\ op.rows \subseteq Window
      /\ records \in [Record -> Placement] /\ lc \in LcState
      /\ bound \in [Window -> Record \cup {NoRecord}]
  BY PlanShape DEF IInv, TypeOK
<1>3. /\ DOMAIN m \subseteq op.rows /\ new \subseteq op.rows \ DOMAIN m
      /\ succeeded \subseteq DOMAIN m
  BY MatchingsAre DEF NewRecords
<1>4. ids \in [new -> Record \ Known(records)] /\ IsInjective(ids)
  BY <1>2, <1>3, IdsAreNew
<1>5. \A w \in new : op.layout[w] \in Desktop
  BY <1>3, <1>2, OpenIsPlaced DEF IInv, LooksAtItsLayout
<1>6. /\ records' \in [Record -> Placement]
      /\ \A r \in Record : IF r \in Range(ids) THEN records'[r] # Nothing
                           ELSE records'[r] = Committed(m)[r]
  <2>1. DOMAIN ids = new /\ new \subseteq Window
    BY <1>4, <1>3, <1>2
  <2>2. QED BY <1>1, <1>5, <2>1, CommittedAre, CreatesAre
<1>7. \A r \in Record : records[r] # Nothing =>
         records'[r] # Nothing /\ records'[r].desk = records[r].desk
  <2>1. \A r \in Range(ids) : records[r] = Nothing
    BY <1>4 DEF Range, Known
  <2>2. QED BY <2>1, <1>6, CommittedAre
<1>8. \A w \in Window : bound'[w] = IF w \in succeeded THEN m[w]
                                    ELSE IF w \in new THEN ids[w] ELSE bound[w]
  BY <1>1, <1>3 DEF Binds
<1>9. /\ \A w \in succeeded : m[w] \in Eligible /\ m[w] \in Record /\ m[w] \in Known(records)
                               /\ m[w] \notin BoundRecords(bound)
      /\ \A v, w \in succeeded : m[v] = m[w] => v = w
  <2>1. \A w \in DOMAIN m : m[w] \in Eligible
    BY MatchingsAre
  <2>2. \A r \in Eligible : r \in Record /\ r \in Known(records) /\ r \notin BoundRecords(bound)
    BY DEF IInv, MatchesAreFree, Eligible, Known
  <2>3. QED BY <2>1, <2>2, <1>3, MatchingsAre
<1>10. /\ \A w \in new : ids[w] \in Record /\ ids[w] \notin Known(records) /\ ids[w] \in Range(ids)
       /\ \A v, w \in new : ids[v] = ids[w] => v = w
  BY <1>4 DEF Range, IsInjective
<1>11. \A w \in BoundWindows(bound) : bound[w] \in Known(records) /\ bound[w] \in BoundRecords(bound)
  BY <1>2 DEF IInv, BindingsAreKnown, BoundRecords, BoundWindows, Known
<1>12. bound' \in [Window -> Record \cup {NoRecord}]
  <2>1. \A w \in Window : bound'[w] \in Record \cup {NoRecord}
    BY <1>2, <1>8, <1>9, <1>10
  <2>2. QED BY <2>1, <1>1 DEF Binds
<1>13. \A w \in BoundWindows(bound') : w \in succeeded \/ w \in new \/ w \in BoundWindows(bound)
  BY <1>8 DEF BoundWindows
<1>14. OneToOne(bound')
  <2> SUFFICES ASSUME NEW v \in BoundWindows(bound'), NEW w \in BoundWindows(bound'),
                      bound'[v] = bound'[w]
               PROVE  v = w
    BY DEF OneToOne
  <2>1. v \in Window /\ w \in Window
    BY DEF BoundWindows
  <2>2. CASE v \in succeeded
    BY <2>1, <2>2, <1>8, <1>9, <1>10, <1>11, <1>13
  <2>3. CASE v \notin succeeded /\ v \in new
    BY <2>1, <2>3, <1>8, <1>9, <1>10, <1>11, <1>13
  <2>4. CASE v \notin succeeded /\ v \notin new
    <3>1. v \in BoundWindows(bound) /\ bound'[v] = bound[v]
      BY <2>1, <2>4, <1>8, <1>13
    <3>2. w \notin succeeded /\ w \notin new
      BY <2>1, <3>1, <1>8, <1>9, <1>10, <1>11
    <3>3. w \in BoundWindows(bound) /\ bound'[w] = bound[w]
      BY <2>1, <3>2, <1>8, <1>13
    <3>4. QED BY <3>1, <3>3 DEF IInv, OneToOne
  <2>5. QED BY <2>2, <2>3, <2>4
<1>15. BindingsAreKnown'
  <2> SUFFICES ASSUME NEW w \in BoundWindows(bound') PROVE records'[bound'[w]] # Nothing
    BY DEF BindingsAreKnown
  <2>1. w \in Window
    BY DEF BoundWindows
  <2>2. CASE w \in succeeded
    BY <2>1, <2>2, <1>7, <1>8, <1>9 DEF Known
  <2>3. CASE w \notin succeeded /\ w \in new
    BY <2>1, <2>3, <1>6, <1>8, <1>10
  <2>4. CASE w \notin succeeded /\ w \notin new
    BY <2>1, <2>4, <1>7, <1>8, <1>11, <1>13 DEF Known
  <2>5. QED BY <2>2, <2>3, <2>4
<1>16. \A w \in BoundWindows(bound) : w \in BoundWindows(bound')
  <2>1. \A w \in BoundWindows(bound) : w \in Window /\ bound'[w] # NoRecord
    BY <1>8, <1>9, <1>10 DEF BoundWindows
  <2>2. QED BY <2>1 DEF BoundWindows
<1>17. held' \subseteq Window
  BY <1>1, <1>2, <1>3 DEF Restores
<1>18. lc' \in LcState /\ ~lc'.inFlight
  BY <1>1, <1>2, LcCompletedType
<1>19. QED BY <1>1, <1>6, <1>7, <1>12, <1>14, <1>15, <1>16, <1>17, <1>18

LEMMA FinishKeeps ==
  ASSUME IInv, op.phase \in {"plan", "moves"}, NEW m \in Matchings,
         Fits(NewRecords(m), Known(records)), NEW done,
         NEW waiting \in SUBSET Window, FinishAutoOperation(m, done, waiting),
         UNCHANGED <<env, persisted, clocks, session>>,
         at' \in Layout, spent' \subseteq Record \X Window \X Desktop
  PROVE  IInv'
<1>1. /\ records' \in [Record -> Placement]
      /\ bound' \in [Window -> Record \cup {NoRecord}]
      /\ OneToOne(bound') /\ BindingsAreKnown'
      /\ held' \subseteq Window
      /\ op' = Idle /\ lc' \in LcState /\ ~lc'.inFlight
  BY FinishDoes
<1>2. op' \in Operation /\ op'.phase = "idle"
  BY <1>1, IdleType
<1>3. TypeOK'
  BY <1>1, <1>2 DEF IInv, TypeOK, env, clocks, session
<1>4. FlightHasOperation'
  BY <1>1 DEF FlightHasOperation
<1>5. OneToOne(persisted')
  BY DEF IInv
<1>6. QED BY <1>1, <1>2, <1>3, <1>4, <1>5, NothingPlanned DEF IInv

-----------------------------------------------------------------------------
(* The plan and the moves.                                                 *)

LEMMA PlannedKeeps ==
  ASSUME IInv, NEW m, NEW unread, Planned(m, unread)
  PROVE  IInv'
<1> DEFINE allowed == ~RecordOnly(gate)
           tried == IF allowed THEN Restores(m) \ unread ELSE {}
           queue == {w \in tried : Budget(m, w) \notin spent}
<1>1. /\ Phase("plan") /\ m \in Matchings /\ Fits(NewRecords(m), Known(records))
      /\ UNCHANGED <<at, env, spent, persisted, clocks, session>>
  BY DEF Planned
<1>2. /\ op.phase = "plan" /\ op.layout \in Layout /\ op.source \in Stamp
      /\ op.base \in [Record -> Placement] /\ op.rows \subseteq Window
      /\ op.reserved \subseteq Record /\ op.fresh \in BOOLEAN
  BY <1>1, PlanShape DEF Phase, IInv, TypeOK
<1>3. held \subseteq Window /\ tried \subseteq Window /\ queue \subseteq Restores(m)
      /\ Restores(m) \subseteq DOMAIN m /\ DOMAIN m \subseteq op.rows
  BY <1>1, <1>2, MatchingsAre DEF Restores, IInv, TypeOK
<1>4. CASE queue = {}
  <2>1. FinishAutoOperation(m, {}, held \cup tried)
    BY <1>4 DEF Planned
  <2>2. at' \in Layout /\ spent' \subseteq Record \X Window \X Desktop
    BY <1>1 DEF IInv, TypeOK
  <2>3. QED BY <1>1, <1>2, <1>3, <2>1, <2>2, FinishKeeps
<1>5. CASE queue # {}
  <2>1. /\ held' = held \cup tried
        /\ op' = [phase |-> "moves", layout |-> op.layout,
                       source |-> op.source, base |-> op.base,
                       rows |-> op.rows, reserved |-> op.reserved,
                       fresh |-> op.fresh, matches |-> m, queue |-> queue,
                       done |-> {}, creates |-> NewRecords(m)]
        /\ UNCHANGED <<records, bound, lc>>
    BY <1>5 DEF Planned
  <2>2. /\ op'.phase = "moves" /\ op'.layout = op.layout /\ op'.base = op.base
        /\ op'.rows = op.rows /\ op'.reserved = op.reserved /\ op'.fresh = op.fresh
        /\ op'.matches = m /\ op'.queue = queue /\ op'.creates = NewRecords(m)
    BY <2>1
  <2>3. NewRecords(m) \subseteq Window /\ queue \subseteq Window
    BY <1>2, <1>3 DEF NewRecords
  <2>4. m \in UNION {[ws -> Record] : ws \in SUBSET Window}
    <3>1. m \in [DOMAIN m -> Record] /\ DOMAIN m \in SUBSET Window
      BY <1>1, <1>2, MatchingsAre
    <3>2. QED BY <3>1
  <2>5. op' \in Operation
    <3>1. op' \in [phase : {"moves"}, layout : Layout, source : Stamp,
                    base : [Record -> Placement], rows : SUBSET Window,
                    reserved : SUBSET Record, fresh : BOOLEAN,
                    matches : UNION {[ws -> Record] : ws \in SUBSET Window},
                    queue : SUBSET Window, done : SUBSET Window,
                    creates : SUBSET Window]
      <4> HIDE DEF queue
      <4>1. QED BY <1>2, <2>1, <2>3, <2>4
    <3>2. QED BY <3>1 DEF Operation
  <2>6. TypeOK'
    <3>1. held' \subseteq Window
      BY <1>3, <2>1
    <3>2. QED BY <1>1, <2>1, <2>5, <3>1 DEF IInv, TypeOK, env, clocks, session
  <2>7. FlightHasOperation'
    <3>1. op # Idle /\ op' # Idle
      BY <1>2, <2>2, IdleType
    <3>2. QED BY <2>1, <3>1 DEF IInv, FlightHasOperation
  <2>8. LooksAtItsLayout'
    BY <1>2, <2>2 DEF IInv, LooksAtItsLayout, Phase
  <2>9. MatchesAreFree'
    BY <1>2, <2>1, <2>2 DEF IInv, MatchesAreFree, Eligible, BoundRecords, BoundWindows
  <2>10. PlannedAreUnbound'
    BY <2>2 DEF PlannedAreUnbound, Phase
  <2>11. MovesFollowThePlan'
    <3>1. Matchings' = Matchings /\ NewRecords(m)' = NewRecords(m)
      BY <2>2 DEF Matchings, Eligible, NewRecords
    <3>2. Restores(m)' = Restores(m)
      BY <2>2 DEF Restores, Destination
    <3>3. queue \cap BoundWindows(bound) = {}
      <4>1. ~RecordOnly(gate)
        BY <1>5
      <4>2. op.rows \cap BoundWindows(bound) = {}
        BY <1>1, <4>1 DEF IInv, PlannedAreUnbound
      <4>3. QED BY <1>3, <4>2
    <3>4. BoundWindows(bound') = BoundWindows(bound) /\ Known(records') = Known(records)
      BY <2>1
    <3>5. op'.matches \in Matchings' /\ op'.queue \subseteq Restores(op.matches)'
          /\ op'.creates = NewRecords(op.matches)'
      BY <1>1, <1>3, <2>2, <3>1, <3>2
    <3>6. op'.queue \cap BoundWindows(bound') = {} /\ Fits(op'.creates, Known(records'))
      BY <1>1, <2>2, <3>3, <3>4
    <3>7. QED BY <3>5, <3>6 DEF MovesFollowThePlan
  <2>12. QED
    BY <1>1, <2>1, <2>6, <2>7, <2>8, <2>9, <2>10, <2>11, BindingsStay DEF IInv
<1>6. QED BY <1>4, <1>5

LEMMA MoveEndedKeeps ==
  ASSUME IInv, NEW w, NEW outcome, MoveEnded(w, outcome)
  PROVE  IInv'
<1> DEFINE m == op.matches
           done == IF outcome = "Succeeded" THEN op.done \cup {w} ELSE op.done
<1>1. /\ Phase("moves") /\ op.phase = "moves" /\ w \in op.queue
      /\ UNCHANGED <<env, persisted, clocks, session>>
  BY DEF MoveEnded, Phase
<1>2. /\ m \in Matchings /\ op.queue \subseteq Restores(m)
      /\ op.creates = NewRecords(m) /\ Fits(op.creates, Known(records))
      /\ op.queue \cap BoundWindows(bound) = {}
  BY <1>1 DEF IInv, MovesFollowThePlan
<1>3. /\ op.base \in [Record -> Placement] /\ op.queue \subseteq Window
      /\ op.done \subseteq Window /\ op.rows \subseteq Window
  BY <1>1, PlanShape, MovesShape DEF IInv, TypeOK
<1>4. w \in DOMAIN m /\ w \in Window /\ m[w] \in Record /\ Destination(m, w) \in Desktop
  <2>1. w \in DOMAIN m /\ w \in Window
    BY <1>1, <1>2, <1>3 DEF Restores
  <2>2. m[w] \in Record /\ op.base[m[w]] # Nothing
    BY <1>2, <2>1, MatchingsAre
  <2>3. op.base[m[w]] \in Placement
    BY <1>3, <2>2
  <2>4. QED BY <2>1, <2>2, <2>3, KeptAre DEF Destination
<1>5. at' \in Layout
  <2>1. at' = at \/ at' = [at EXCEPT ![w] = Destination(m, w)]
    BY DEF MoveEnded
  <2>2. QED BY <1>4, <2>1 DEF IInv, TypeOK, Layout
<1>6. spent' \subseteq Record \X Window \X Desktop
  <2>1. Budget(m, w) \in Record \X Window \X Desktop
    BY <1>4 DEF Budget
  <2>2. spent' \subseteq spent \cup {Budget(m, w)}
    BY DEF MoveEnded
  <2>3. QED BY <2>1, <2>2 DEF IInv, TypeOK
<1>7. CASE op.queue = {w}
  <2>1. FinishAutoOperation(m, done, held)
    BY <1>7 DEF MoveEnded
  <2>2. held \in SUBSET Window
    BY DEF IInv, TypeOK
  <2>3. QED BY <1>1, <1>2, <1>5, <1>6, <2>1, <2>2, FinishKeeps
<1>8. CASE op.queue # {w}
  <2>1. /\ op' = [op EXCEPT !.queue = @ \ {w}, !.done = done]
        /\ UNCHANGED <<records, bound, held, lc>>
    BY <1>8 DEF MoveEnded
  <2>2. done \subseteq Window
    BY <1>3, <1>4
  <2>3. /\ op' \in [phase : {"moves"}, layout : Layout, source : Stamp,
                    base : [Record -> Placement], rows : SUBSET Window,
                    reserved : SUBSET Record, fresh : BOOLEAN,
                    matches : UNION {[ws -> Record] : ws \in SUBSET Window},
                    queue : SUBSET Window, done : SUBSET Window,
                    creates : SUBSET Window]
        /\ op'.phase = "moves" /\ op'.layout = op.layout /\ op'.base = op.base
        /\ op'.rows = op.rows /\ op'.reserved = op.reserved
        /\ op'.matches = m /\ op'.queue = op.queue \ {w} /\ op'.creates = op.creates
    <3> HIDE DEF done
    <3>1. QED BY <1>1, <2>1, <2>2, MovesShape DEF IInv, TypeOK
  <2>4. op'.fresh <=> op.fresh
    BY <1>1, <2>1, MovesShape DEF IInv, TypeOK
  <2>5. TypeOK'
    <3>1. op' \in Operation
      BY <2>3 DEF Operation
    <3>2. QED BY <1>1, <1>5, <1>6, <2>1, <3>1 DEF IInv, TypeOK, env, clocks, session
  <2>6. FlightHasOperation'
    <3>1. op # Idle /\ op' # Idle
      BY <1>1, <2>3, IdleType
    <3>2. QED BY <2>1, <3>1 DEF IInv, FlightHasOperation
  <2>7. LooksAtItsLayout'
    BY <1>1, <2>3 DEF IInv, LooksAtItsLayout, Phase
  <2>8. MatchesAreFree'
    BY <1>1, <2>1, <2>3 DEF IInv, MatchesAreFree, Eligible, BoundRecords, BoundWindows
  <2>9. PlannedAreUnbound'
    BY <2>3 DEF PlannedAreUnbound, Phase
  <2>10. MovesFollowThePlan'
    <3>1. Matchings' = Matchings
      BY <2>3 DEF Matchings, Eligible
    <3>2. op'.matches \in Matchings'
      BY <1>2, <2>3, <3>1
    <3>3. op'.queue \subseteq Restores(op.matches)'
      BY <1>2, <2>3 DEF Restores, Destination
    <3>4. op'.creates = NewRecords(op.matches)'
      BY <1>2, <2>3, <2>4 DEF NewRecords
    <3>5. op'.queue \cap BoundWindows(bound') = {} /\ Fits(op'.creates, Known(records'))
      BY <1>2, <2>1, <2>3
    <3>6. QED BY <3>2, <3>3, <3>4, <3>5 DEF MovesFollowThePlan
  <2>11. QED
    BY <1>1, <2>1, <2>5, <2>6, <2>7, <2>8, <2>9, <2>10, BindingsStay DEF IInv
<1>9. QED BY <1>7, <1>8

-----------------------------------------------------------------------------
(* The heartbeat.                                                          *)

\* A heartbeat that records the windows inPlace under the identities ids.
ObservedWith(inPlace, ids) ==
  LET recs == Creates(records, ids, at)
      b == Binds(PrunedBindings, ids) IN
  /\ IsInjective(ids)
  /\ inPlace \cap (BoundWindows(PrunedBindings) \cup Reserved) = {}
  /\ gate' = ObservedGate(PrunedBindings)
  /\ inPlace # {} =>
       /\ RecordOnly(gate')
       /\ Cardinality(inPlace) + Claimed <= Cardinality(Record \ Known(records))
  /\ bound' = b /\ persisted' = b
  /\ records' \in {recs, AllMissing(recs), Refreshed(recs, b)}

LEMMA ObserveBinds ==
  ASSUME IInv, NEW trouble, Observe(trouble)
  PROVE  \E inPlace \in SUBSET Present :
           \E ids \in [inPlace -> Record \ Known(records)] : ObservedWith(inPlace, ids)
<1> DEFINE kept == PrunedBindings
           inPlace == IF trouble # "partial" THEN RecordedInPlace(kept, ObservedGate(kept)) ELSE {}
           ids == NewRecordIds(inPlace, Known(records))
<1>1. /\ bound' = Binds(kept, ids) /\ persisted' = Binds(kept, ids)
      /\ gate' = ObservedGate(kept)
      /\ records' \in {Creates(records, ids, at), AllMissing(Creates(records, ids, at)),
                       Refreshed(Creates(records, ids, at), Binds(kept, ids))}
  BY DEF Observe
<1>2. /\ inPlace \subseteq Lingering(kept)
      /\ inPlace # {} => /\ RecordOnly(ObservedGate(kept))
                         /\ Cardinality(inPlace) + Claimed <= Cardinality(Record \ Known(records))
  BY DEF RecordedInPlace
<1>3. Lingering(kept) \subseteq Present
      /\ Lingering(kept) \cap (BoundWindows(kept) \cup Reserved) = {}
  BY DEF Lingering, Overlooked
<1>4. inPlace \in SUBSET Present /\ Present \subseteq Window
  BY <1>2, <1>3 DEF Present, Open
<1>5. Claimed \in Nat
  <2>1. CASE Phase("moves")
    <3>1. op.creates \subseteq Window
      BY <2>1, MovesShape DEF IInv, TypeOK
    <3>2. IsFiniteSet(op.creates)
      BY <3>1, WindowsAreFinite
    <3>3. QED BY <2>1, <3>2, FS_CardinalityType DEF Claimed
  <2>2. CASE ~Phase("moves")
    BY <2>2 DEF Claimed
  <2>3. QED BY <2>1, <2>2
<1>6. Fits(inPlace, Known(records))
  <2>1. CASE inPlace = {}
    <3> HIDE DEF inPlace
    <3>1. QED BY <2>1, NoneFit
  <2>2. CASE inPlace # {}
    <3>1. IsFiniteSet(inPlace)
      BY <1>4, WindowsAreFinite
    <3>2. Cardinality(inPlace) \in Nat
      BY <3>1, FS_CardinalityType
    <3>3. Cardinality(Record \ Known(records)) \in Nat
      BY RecordsAreFinite
    <3> HIDE DEF inPlace
    <3>4. QED BY <1>2, <1>5, <2>2, <3>2, <3>3 DEF Fits
  <2>3. QED BY <2>1, <2>2
<1>7. ids \in [inPlace -> Record \ Known(records)] /\ IsInjective(ids)
  <2> HIDE DEF inPlace
  <2>1. QED BY <1>4, <1>6, IdsAreNew
<1> HIDE DEF inPlace, ids
<1>8. ObservedWith(inPlace, ids)
  BY <1>1, <1>2, <1>3, <1>7 DEF ObservedWith
<1>9. QED BY <1>4, <1>7, <1>8

\* What a heartbeat does to the records and the bindings: a record that was
\* known is moved only to its open window, and a window that is bound stays
\* bound while it is open.
LEMMA ObserveDoes ==
  ASSUME IInv, NEW trouble, Observe(trouble)
  PROVE  /\ records' \in [Record -> Placement]
         /\ \A r \in Record : records[r] # Nothing =>
              /\ records'[r] # Nothing
              /\ \/ records'[r].desk = records[r].desk
                 \/ \E w \in Present : /\ bound[w] = r /\ bound'[w] = r
                                       /\ records'[r].desk = at[w]
         /\ bound' \in [Window -> Record \cup {NoRecord}] /\ persisted' = bound'
         /\ OneToOne(bound') /\ BindingsAreKnown'
         /\ \A w \in BoundWindows(bound') :
              \/ bound'[w] = bound[w]
              \/ bound'[w] \notin Known(records) /\ w \notin Reserved /\ RecordOnly(gate')
         /\ \A w \in BoundWindows(bound) \cap Present : w \in BoundWindows(bound')
         /\ Phase("moves") => Fits(op.creates, Known(records'))
         /\ \/ gate' = gate \/ BoundWindows(PrunedBindings) = {} \/ gate = Never
         /\ BoundWindows(bound') \cap BoundWindows(bound) \subseteq BoundWindows(PrunedBindings)
              \/ RecordOnly(gate')
<1> USE AutoRestoreAssumption DEF ObservedWith
<1>0. PICK inPlace \in SUBSET Present :
        \E ids \in [inPlace -> Record \ Known(records)] : ObservedWith(inPlace, ids)
  BY ObserveBinds
<1>1. PICK ids \in [inPlace -> Record \ Known(records)] : ObservedWith(inPlace, ids)
  BY <1>0
<1> DEFINE recs == Creates(records, ids, at)
<1>2. /\ records \in [Record -> Placement] /\ at \in Layout
      /\ bound \in [Window -> Record \cup {NoRecord}] /\ op \in Operation
      /\ Present \subseteq Window
  BY DEF IInv, TypeOK, Present, Open
<1>3. \A w \in Window : bound'[w] = IF w \in inPlace THEN ids[w]
                                    ELSE IF w \in Living THEN bound[w] ELSE NoRecord
  BY <1>1 DEF Binds, PrunedBindings
<1>4. /\ \A w \in inPlace : ids[w] \in Record /\ ids[w] \notin Known(records)
                             /\ ids[w] \in Range(ids) /\ w \in Window
      /\ \A v, w \in inPlace : ids[v] = ids[w] => v = w
      /\ \A r \in Range(ids) : r \in Record /\ records[r] = Nothing
  BY <1>1, <1>2 DEF Range, IsInjective, Known
<1>5. \A w \in BoundWindows(bound) : w \in Window /\ bound[w] \in Record /\ bound[w] \in Known(records)
  BY <1>2 DEF IInv, BindingsAreKnown, BoundWindows, Known
<1>6. bound' \in [Window -> Record \cup {NoRecord}]
  <2>1. \A w \in Window : bound'[w] \in Record \cup {NoRecord}
    BY <1>2, <1>3, <1>4
  <2>2. QED BY <2>1, <1>1 DEF Binds
<1>7. \A w \in BoundWindows(bound') :
        /\ w \in Window
        /\ \/ w \in inPlace /\ bound'[w] = ids[w]
           \/ w \notin inPlace /\ w \in BoundWindows(bound) /\ bound'[w] = bound[w]
              /\ w \in BoundWindows(PrunedBindings)
  BY <1>3 DEF BoundWindows, PrunedBindings
<1>8. OneToOne(bound')
  <2> SUFFICES ASSUME NEW v \in BoundWindows(bound'), NEW w \in BoundWindows(bound'),
                      bound'[v] = bound'[w]
               PROVE  v = w
    BY DEF OneToOne
  <2>1. CASE v \in inPlace
    BY <2>1, <1>4, <1>5, <1>7
  <2>2. CASE v \notin inPlace
    BY <2>2, <1>4, <1>5, <1>7 DEF IInv, OneToOne
  <2>3. QED BY <2>1, <2>2
<1>9. /\ recs \in [Record -> Placement]
      /\ \A r \in Record : IF r \in Range(ids) THEN recs[r] # Nothing ELSE recs[r] = records[r]
  <2>1. DOMAIN ids \subseteq Window /\ \A w \in DOMAIN ids : at[w] \in Desktop
    BY <1>2, OpenIsPlaced DEF Present
  <2>2. QED BY <1>2, <2>1, CreatesAre
<1>10. \A r \in Record : records[r] # Nothing => recs[r] = records[r] /\ recs[r] # Nothing
  BY <1>4, <1>9
<1>11. \A w \in BoundWindows(bound') : recs[bound'[w]] # Nothing /\ bound'[w] \in Record
  BY <1>4, <1>5, <1>7, <1>9, <1>10 DEF Known
<1>12. /\ records' \in [Record -> Placement]
       /\ \A r \in Record : records'[r] = Nothing <=> recs[r] = Nothing
       /\ \A r \in Record : recs[r] # Nothing =>
            \/ records'[r].desk = recs[r].desk
            \/ \E w \in Present : bound'[w] = r /\ records'[r].desk = at[w]
  <2>1. CASE records' = recs
    BY <2>1, <1>9
  <2>2. CASE records' = AllMissing(recs)
    <3>1. PICK x \in BOOLEAN : x = TRUE
      OBVIOUS
    <3>2. ASSUME NEW r \in Record
          PROVE  /\ records'[r] \in Placement
                 /\ records'[r] = Nothing <=> recs[r] = Nothing
                 /\ recs[r] # Nothing => records'[r].desk = recs[r].desk
      <4>1. CASE recs[r] = Nothing
        BY <2>2, <4>1 DEF AllMissing, Placement
      <4>2. CASE recs[r] # Nothing
        <5>1. records'[r] = [recs[r] EXCEPT !.missing = x] /\ recs[r] \in Placement
          BY <2>2, <3>1, <4>2, <1>9 DEF AllMissing
        <5>2. QED BY <4>2, <5>1, MarkedIsPlacement
      <4>3. QED BY <4>1, <4>2
    <3>3. records' = [r \in Record |-> records'[r]]
      BY <2>2 DEF AllMissing
    <3>4. QED BY <3>2, <3>3
  <2>3. CASE records' = Refreshed(recs, bound')
    <3>1. /\ Refreshed(recs, bound') \in [Record -> Placement]
          /\ \A r \in Record : Refreshed(recs, bound')[r] = Nothing <=> recs[r] = Nothing
          /\ \A r \in Record :
               \/ Refreshed(recs, bound')[r] = recs[r]
               \/ \E w \in Present : bound'[w] = r /\ Refreshed(recs, bound')[r].desk = at[w]
      <4>1. PICK b \in [Window -> Record \cup {NoRecord}] : b = bound'
        BY <1>6
      <4>2. \A w \in BoundWindows(b) : recs[b[w]] # Nothing
        BY <1>11, <4>1
      <4>3. QED BY <1>2, <1>9, <4>1, <4>2, RefreshedAre
    <3>2. QED BY <2>3, <3>1
  <2>4. QED BY <1>1, <2>1, <2>2, <2>3
<1>13. BindingsAreKnown'
  BY <1>11, <1>12 DEF BindingsAreKnown
<1>14. ASSUME NEW r \in Record, records[r] # Nothing
       PROVE  /\ records'[r] # Nothing
              /\ \/ records'[r].desk = records[r].desk
                 \/ \E w \in Present : /\ bound[w] = r /\ bound'[w] = r
                                       /\ records'[r].desk = at[w]
  <2>1. recs[r] = records[r] /\ recs[r] # Nothing /\ r \in Known(records)
    BY <1>10, <1>14 DEF Known
  <2>2. ASSUME NEW w \in Present, bound'[w] = r PROVE bound[w] = r
    <3>1. w \in BoundWindows(bound')
      BY <2>2, <1>2 DEF BoundWindows
    <3>2. QED BY <2>1, <2>2, <3>1, <1>4, <1>7
  <2>3. QED BY <2>1, <2>2, <1>12
<1>15. \A w \in BoundWindows(bound') :
              \/ bound'[w] = bound[w]
              \/ bound'[w] \notin Known(records) /\ w \notin Reserved /\ RecordOnly(gate')
  BY <1>1, <1>4, <1>7
<1>16. \A w \in BoundWindows(bound) \cap Present : w \in BoundWindows(bound')
  <2>1. ASSUME NEW w \in BoundWindows(bound) \cap Present PROVE bound'[w] # NoRecord
    BY <1>3, <1>4, <1>5 DEF Living, BoundWindows
  <2>2. QED BY <2>1 DEF BoundWindows
<1>17. ASSUME Phase("moves") PROVE Fits(op.creates, Known(records'))
  <2>1. op.creates \subseteq Window /\ Claimed = Cardinality(op.creates)
    BY <1>17, <1>2, MovesShape DEF Claimed
  <2>2. IsFiniteSet(op.creates)
    BY <2>1, WindowsAreFinite
  <2>3. Known(records') = Known(records) \cup Range(ids)
    BY <1>4, <1>9, <1>12 DEF Known
  <2>4. CASE inPlace = {}
    <3>1. Known(records') = Known(records)
      BY <2>3, <2>4 DEF Range
    <3>2. QED BY <1>17, <3>1 DEF IInv, MovesFollowThePlan
  <2>5. CASE inPlace # {}
    <3>1. Cardinality(inPlace) + Cardinality(op.creates) <= Cardinality(Record \ Known(records))
      BY <1>1, <2>1, <2>5
    <3>2. inPlace \subseteq Window
      BY <1>2
    <3>3. QED BY <1>1, <2>2, <2>3, <3>1, <3>2, RoomIsLeft
  <2>6. QED BY <2>4, <2>5
<1>18. \/ gate' = gate \/ BoundWindows(PrunedBindings) = {} \/ gate = Never
  BY <1>1 DEF ObservedGate
<1>19. BoundWindows(bound') \cap BoundWindows(bound) \subseteq BoundWindows(PrunedBindings)
         \/ RecordOnly(gate')
  BY <1>1, <1>7
<1>20. persisted' = bound'
  BY <1>1
<1>21. QED
  BY <1>6, <1>8, <1>12, <1>13, <1>14, <1>15, <1>16, <1>17, <1>18, <1>19, <1>20

\* What a heartbeat does to the lifecycle and the operation: it begins an
\* operation when, and only when, it puts a restore in flight.
LEMMA ObserveBegins ==
  ASSUME IInv, NEW trouble, Observe(trouble)
  PROVE  /\ lc' \in LcState /\ op' \in Operation /\ FlightHasOperation'
         /\ \/ op'.phase \in {"idle", "session"}
            \/ /\ op'.phase = op.phase
               /\ op.phase = "prepare" =>
                    op'.looked = op.looked /\ op'.layout = op.layout
               /\ op.phase = "plan" =>
                    /\ op'.base = op.base /\ op'.rows = op.rows
                    /\ op'.reserved = op.reserved /\ op'.layout = op.layout
               /\ op.phase = "moves" => op' = op
<1> DEFINE d == LcObserve(lc, at, titles, fresh)
           begins == d.action = "BeginRestore" /\ trouble = "none"
           looksAgain == Phase("prepare") \/ Phase("plan")
<1>1. /\ lc \in LcState /\ at \in Layout /\ titles \in Titles /\ fresh \in Stamp
      /\ op \in Operation /\ (lc.inFlight <=> op # Idle)
  BY DEF IInv, TypeOK, FlightHasOperation
<1>2. /\ d.lc \in LcState
      /\ d.lc.inFlight <=> lc.inFlight \/ d.action = "BeginRestore"
      /\ d.action \in {"BeginRestore", "SaveLayout"} => ~lc.inFlight
  BY <1>1, LcObserveType
<1> HIDE DEF d
<1>3. /\ d.action = "SaveLayout" => lc' \in {LcExplicitSaveCompleted(d.lc, at),
                                             LcExplicitSaveNeedsReconcile(d.lc, at)}
      /\ d.action = "BeginRestore" /\ ~begins => lc' = LcCancelRestore(d.lc)
      /\ d.action # "SaveLayout" /\ (d.action = "BeginRestore" => begins) => lc' = d.lc
      /\ op' = IF begins
               THEN [phase |-> "session", windows |-> Present, layout |-> at]
               ELSE IF looksAgain THEN [op EXCEPT !.stale = @ \/ op.looked # Looked]
               ELSE op
  BY DEF Observe, d
<1>4. lc' \in LcState /\ (lc'.inFlight <=> lc.inFlight \/ begins)
  <2>1. CASE d.action = "SaveLayout"
    BY <2>1, <1>1, <1>2, <1>3, LcSavedType
  <2>2. CASE d.action = "BeginRestore" /\ ~begins
    BY <2>2, <1>1, <1>2, <1>3, LcCancelType
  <2>3. CASE d.action # "SaveLayout" /\ (d.action = "BeginRestore" => begins)
    BY <2>3, <1>2, <1>3
  <2>4. QED BY <2>1, <2>2, <2>3
<1>5. CASE begins
  <2>1. op' = [phase |-> "session", windows |-> Present, layout |-> at]
    BY <1>3, <1>5
  <2>2. op' \in Operation /\ op'.phase = "session"
    <3>1. Present \in SUBSET Window
      BY OpenType DEF Present
    <3>2. QED BY <1>1, <2>1, <3>1 DEF Operation
  <2>3. FlightHasOperation'
    BY <1>4, <1>5, <2>2, IdleType DEF FlightHasOperation
  <2>4. QED BY <1>4, <2>2, <2>3
<1>6. CASE ~begins /\ ~looksAgain
  <2>1. op' = op /\ op.phase \notin {"prepare", "plan"}
    BY <1>3, <1>6 DEF Phase
  <2>2. QED BY <1>1, <1>4, <1>6, <2>1 DEF FlightHasOperation
<1>7. CASE ~begins /\ looksAgain
  <2>1. PICK c \in BOOLEAN : c <=> op.looked # Looked
    OBVIOUS
  <2>2. op' = [op EXCEPT !.stale = @ \/ c]
    BY <1>3, <1>7, <2>1
  <2>3. CASE op.phase = "prepare"
    <3>1. op \in [phase : {"prepare"}, looked : Layout \X Titles, layout : Layout,
                  source : Stamp, fresh : BOOLEAN, stale : BOOLEAN]
      BY <1>1, <2>3 DEF Operation, Idle
    <3>2. op' \in [phase : {"prepare"}, looked : Layout \X Titles, layout : Layout,
                  source : Stamp, fresh : BOOLEAN, stale : BOOLEAN]
      BY <2>2, <3>1
    <3>3. op'.looked = op.looked /\ op'.layout = op.layout /\ op'.phase = "prepare"
      BY <2>2, <3>1
    <3>4. op' \in Operation
      BY <3>2 DEF Operation
    <3>5. FlightHasOperation'
      BY <1>1, <1>4, <1>7, <2>3, <3>3, IdleType DEF FlightHasOperation
    <3>6. QED BY <1>4, <2>3, <3>3, <3>4, <3>5
  <2>4. CASE op.phase = "plan"
    <3>1. op \in [phase : {"plan"}, looked : Layout \X Titles, layout : Layout,
                  source : Stamp, stale : BOOLEAN, base : [Record -> Placement],
                  rows : SUBSET Window, reserved : SUBSET Record, fresh : BOOLEAN]
      BY <1>1, <2>4 DEF Operation, Idle
    <3>2. op' \in [phase : {"plan"}, looked : Layout \X Titles, layout : Layout,
                  source : Stamp, stale : BOOLEAN, base : [Record -> Placement],
                  rows : SUBSET Window, reserved : SUBSET Record, fresh : BOOLEAN]
      BY <2>2, <3>1
    <3>3. /\ op'.base = op.base /\ op'.rows = op.rows /\ op'.layout = op.layout
          /\ op'.reserved = op.reserved /\ op'.phase = "plan"
      BY <2>2, <3>1
    <3>4. op' \in Operation
      BY <3>2 DEF Operation
    <3>5. FlightHasOperation'
      BY <1>1, <1>4, <1>7, <2>4, <3>3, IdleType DEF FlightHasOperation
    <3>6. QED BY <1>4, <2>4, <3>3, <3>4, <3>5
  <2>5. QED BY <1>7, <2>3, <2>4 DEF Phase
<1>8. QED BY <1>5, <1>6, <1>7

LEMMA ObserveKeeps ==
  ASSUME IInv, NEW trouble, Observe(trouble)
  PROVE  IInv'
<1> USE AutoRestoreAssumption
<1>1. TypeOK'
  <2>1. UNCHANGED <<at, born, titles, stamp, readable, decoded, fresh>>
    BY DEF Observe
  <2>2. calm' \in 0..MaxDisturbances
    BY DEF Observe, Disturb, IInv, TypeOK
  <2>3. gate' \in Ages(Grace)
    <3>1. Since(0) \in Ages(Grace) /\ Never \in Ages(Grace)
      BY DEF Ages
    <3>2. gate' \in {gate, Since(0), Never}
      BY DEF Observe, ObservedGate
    <3>3. QED BY <3>1, <3>2 DEF IInv, TypeOK
  <2>4. unbound' \in [Window -> Ages(RecordDelay)]
    <3>1. Since(0) \in Ages(RecordDelay) /\ Never \in Ages(RecordDelay)
      BY DEF Ages
    <3>2. PICK b, i, c : unbound' = NextUnbound(b, i, c)
      BY DEF Observe
    <3>3. QED BY <3>1, <3>2 DEF NextUnbound, IInv, TypeOK
  <2>5. held' \subseteq Window /\ spent' \subseteq Record \X Window \X Desktop
    <3>1. held' \subseteq held /\ spent' \subseteq spent
      BY DEF Observe
    <3>2. QED BY <3>1 DEF IInv, TypeOK
  <2>6. probing' \in BOOLEAN
    BY DEF Observe
  <2>7. QED
    BY <2>1, <2>2, <2>3, <2>4, <2>5, <2>6, ObserveDoes, ObserveBegins DEF IInv, TypeOK
<1>2. FlightHasOperation' /\ OneToOne(bound') /\ OneToOne(persisted') /\ BindingsAreKnown'
  BY ObserveDoes, ObserveBegins
<1>3. CASE op'.phase \in {"idle", "session"}
  BY <1>1, <1>2, <1>3, NothingPlanned DEF IInv
<1>4. CASE op'.phase \notin {"idle", "session"}
  <2>1. /\ op'.phase = op.phase
        /\ op.phase = "prepare" => op'.looked = op.looked /\ op'.layout = op.layout
        /\ op.phase \in {"plan", "moves"} =>
             /\ op'.base = op.base /\ op'.rows = op.rows
             /\ op'.reserved = op.reserved /\ op'.layout = op.layout
        /\ op.phase = "moves" => op' = op
    BY <1>4, ObserveBegins
  <2>2. LooksAtItsLayout'
    BY <2>1 DEF IInv, LooksAtItsLayout, Phase
  <2>3. MatchesAreFree'
    <3> SUFFICES ASSUME op.phase \in {"plan", "moves"}
                 PROVE  /\ Known(op.base) \subseteq Known(records')
                        /\ BoundRecords(bound') \cap Known(op.base) \subseteq op.reserved
                        /\ \A r \in Eligible : records'[r].desk = op.base[r].desk
      BY <2>1 DEF MatchesAreFree, Eligible
    <3>1. /\ Known(op.base) \subseteq Known(records)
          /\ BoundRecords(bound) \cap Known(op.base) \subseteq op.reserved
          /\ \A r \in Eligible : records[r].desk = op.base[r].desk
      BY DEF IInv, MatchesAreFree
    <3>2. \A r \in Known(records) : r \in Record /\ records[r] # Nothing
      BY DEF Known
    <3>3. Known(records) \subseteq Known(records')
      BY <3>2, ObserveDoes DEF Known
    <3>4. BoundRecords(bound') \cap Known(records) \subseteq BoundRecords(bound)
      <4> SUFFICES ASSUME NEW w \in BoundWindows(bound'), bound'[w] \in Known(records)
                   PROVE  bound'[w] \in BoundRecords(bound)
        BY DEF BoundRecords
      <4>1. bound'[w] = bound[w]
        BY ObserveDoes
      <4>2. QED BY <4>1 DEF BoundRecords, BoundWindows
    <3>5. ASSUME NEW r \in Eligible PROVE records'[r].desk = op.base[r].desk
      <4>1. r \in Record /\ records[r] # Nothing /\ r \notin BoundRecords(bound)
        BY <3>1, <3>2 DEF Eligible
      <4>2. \A w \in Present : bound[w] # r
        BY <4>1, AutoRestoreAssumption DEF BoundRecords, BoundWindows, Present, Open
      <4>3. QED BY <3>1, <4>1, <4>2, ObserveDoes
    <3>6. QED BY <3>1, <3>3, <3>4, <3>5
  <2>4. PlannedAreUnbound'
    <3> SUFFICES ASSUME op.phase = "plan", NEW w \in op.rows, w \in BoundWindows(bound')
                 PROVE  RecordOnly(gate')
      BY <2>1 DEF PlannedAreUnbound, Phase
    <3>1. bound'[w] = bound[w] \/ RecordOnly(gate')
      BY ObserveDoes
    <3>2. CASE bound'[w] = bound[w]
      <4>1. w \in BoundWindows(bound)
        BY <3>2 DEF BoundWindows
      <4>2. RecordOnly(gate)
        BY <4>1 DEF IInv, PlannedAreUnbound, Phase
      <4>3. w \in BoundWindows(PrunedBindings) \/ RecordOnly(gate')
        BY <4>1, ObserveDoes
      <4>4. gate # Never
        BY <4>2 DEF RecordOnly, AtLeast
      <4>5. w \in BoundWindows(PrunedBindings) => gate' = gate
        BY <4>4, ObserveDoes
      <4>6. QED BY <4>2, <4>3, <4>5
    <3>3. QED BY <3>1, <3>2
  <2>5. MovesFollowThePlan'
    <3> SUFFICES ASSUME op.phase = "moves" PROVE MovesFollowThePlan'
      BY <2>1 DEF MovesFollowThePlan, Phase
    <3>1. Phase("moves") /\ op' = op
      BY <2>1 DEF Phase
    <3>2. /\ op.matches \in Matchings
          /\ op.queue \subseteq Restores(op.matches)
          /\ op.queue \cap BoundWindows(bound) = {}
          /\ op.creates = NewRecords(op.matches)
      BY <3>1 DEF IInv, MovesFollowThePlan
    <3>3. op.queue \cap BoundWindows(bound') = {}
      <4>1. \A w \in op.queue : w \in Reserved
        BY <3>1 DEF Reserved
      <4>2. \A w \in BoundWindows(bound') : bound'[w] = bound[w] => w \in BoundWindows(bound)
        BY DEF BoundWindows
      <4>3. QED BY <3>2, <4>1, <4>2, ObserveDoes
    <3>4. Fits(op.creates, Known(records'))
      BY <3>1, ObserveDoes
    <3>5. Matchings' = Matchings /\ Restores(op.matches)' = Restores(op.matches)
          /\ NewRecords(op.matches)' = NewRecords(op.matches)
      BY <3>1 DEF Matchings, Eligible, Restores, Destination, NewRecords
    <3>6. QED BY <3>1, <3>2, <3>3, <3>4, <3>5 DEF MovesFollowThePlan
  <2>6. QED BY <1>1, <1>2, <2>2, <2>3, <2>4, <2>5 DEF IInv
<1>5. QED BY <1>3, <1>4

-----------------------------------------------------------------------------
(* Theorems.                                                               *)

LEMMA StepKeeps == IInv /\ [Next]_vars => IInv'
<1> SUFFICES ASSUME IInv, [Next]_vars PROVE IInv'
  OBVIOUS
<1>1. CASE Environment
  <2>1. CASE Restart
    BY <2>1, RestartKeeps
  <2>2. CASE Abandon
    BY <2>2, AbandonKeeps
  <2>3. CASE \E trouble \in {"partial", "refused"} : Observe(trouble)
    BY <2>3, ObserveKeeps
  <2>4. QED BY <1>1, <2>1, <2>2, <2>3, EnvironmentKeeps DEF Environment
<1>2. CASE TimePasses
  BY <1>2, TimeKeeps
<1>3. CASE Observe("none")
  BY <1>3, ObserveKeeps
<1>4. CASE ProbeResult
  BY <1>4, ProbeKeeps
<1>5. CASE SessionAnswers
  BY <1>5, SessionUnavailableKeeps, SessionUsableKeeps DEF SessionAnswers
<1>6. CASE PrepareAnswers
  BY <1>6, PreparedKeeps DEF PrepareAnswers
<1>7. CASE PlanAnswers
  BY <1>7, PlanEndsKeep, PlannedKeeps DEF PlanAnswers
<1>8. CASE MoveAnswers
  BY <1>8, MoveEndedKeeps DEF MoveAnswers
<1>9. CASE UNCHANGED vars
  <2>1. UNCHANGED <<at, env, store, persisted, clocks, session, lc, op>>
    BY <1>9 DEF vars
  <2>2. TypeOK'
    BY <2>1 DEF IInv, TypeOK, env, store, clocks, session
  <2>3. QED BY <2>1, <2>2, SameKeeps DEF store, clocks, RecordOnly
<1>10. QED
  BY <1>1, <1>2, <1>3, <1>4, <1>5, <1>6, <1>7, <1>8, <1>9 DEF Next

\* The invariant of automatic restore: what an operation may still match is
\* known, bound to nobody and where it was when the plan was made, whatever
\* heartbeats, windows and failures come in between (ObserveFastSnapshots,
\* HandleReconcileResult, FinishAutoOperation).
THEOREM RestoreInvariant == Spec => []IInv
<1>1. Init => IInv
  BY InitEstablishes
<1>2. IInv /\ [Next]_vars => IInv'
  BY StepKeeps
<1>3. QED BY <1>1, <1>2, PTL DEF Spec

\* Two windows are never bound to one record, and no window to a record that
\* does not exist.
THEOREM OneToOneAlways == Spec => []BindingsAreOneToOne
<1>1. IInv => BindingsAreOneToOne
  BY DEF IInv, BindingsAreOneToOne, OneToOne, BindingsAreKnown
<1>2. Spec => []IInv
  BY RestoreInvariant
<1>3. QED BY <1>1, <1>2, PTL

\* The lifecycle waits for a restore exactly when an operation is under way,
\* so no lost operation keeps the program from saving (LcObserve,
\* CancelAutoOperation, FinishAutoOperation).
THEOREM FlightHasOperationAlways == Spec => []FlightHasOperation
<1>1. IInv => FlightHasOperation
  BY DEF IInv
<1>2. Spec => []IInv
  BY RestoreInvariant
<1>3. QED BY <1>1, <1>2, PTL

LEMMA StepMovesNoRecord ==
  ASSUME IInv, Next, NEW r \in Record, Relocated(r)
  PROVE  \E w \in Window : bound[w] = r /\ bound'[w] = r /\ at[w] = records'[r].desk
<1>1. records[r] # Nothing /\ records'[r].desk # records[r].desk
  BY DEF Relocated
<1>2. Present \subseteq Window
  BY DEF Present, Open
<1>3. ASSUME NEW trouble, Observe(trouble)
      PROVE  \E w \in Window : bound[w] = r /\ bound'[w] = r /\ at[w] = records'[r].desk
  BY <1>1, <1>2, <1>3, ObserveDoes
<1>4. ASSUME NEW rows, Prepared(rows)
      PROVE  \E w \in Window : bound[w] = r /\ bound'[w] = r /\ at[w] = records'[r].desk
  <2>1. bound' = bound
    BY <1>4 DEF Prepared
  <2>2. QED BY <1>1, <1>2, <1>4, <2>1, PreparedRecords
<1>5. ASSUME NEW m, NEW unread, Planned(m, unread)
      PROVE  FALSE
  <2>1. CASE records' = records
    BY <1>1, <2>1
  <2>2. CASE records' # records
    <3>1. PICK waiting \in SUBSET Window : FinishAutoOperation(m, {}, waiting)
      <4>1. held \subseteq Window /\ op.rows \subseteq Window /\ DOMAIN m \subseteq op.rows
        BY <1>5, PlanShape, MatchingsAre DEF Planned, Phase, IInv, TypeOK
      <4>2. Restores(m) \subseteq Window
        BY <4>1 DEF Restores
      <4>3. QED BY <1>5, <2>2, <4>1, <4>2 DEF Planned
    <3>2. op.phase \in {"plan", "moves"} /\ m \in Matchings /\ Fits(NewRecords(m), Known(records))
      BY <1>5 DEF Planned, Phase
    <3>3. QED BY <1>1, <3>1, <3>2, FinishDoes
  <2>3. QED BY <2>1, <2>2
<1>6. ASSUME NEW w, NEW outcome, MoveEnded(w, outcome)
      PROVE  FALSE
  <2>1. CASE records' = records
    BY <1>1, <2>1
  <2>2. CASE records' # records
    <3>1. PICK done : FinishAutoOperation(op.matches, done, held)
      BY <1>6, <2>2 DEF MoveEnded
    <3>2. op.phase \in {"plan", "moves"} /\ op.matches \in Matchings
          /\ Fits(NewRecords(op.matches), Known(records))
      BY <1>6 DEF MoveEnded, Phase, IInv, MovesFollowThePlan
    <3>3. held \in SUBSET Window
      BY DEF IInv, TypeOK
    <3>4. QED BY <1>1, <3>1, <3>2, <3>3, FinishDoes
  <2>3. QED BY <2>1, <2>2
<1>7. CASE UNCHANGED records
  BY <1>1, <1>7
<1>8. QED
  <2>1. CASE Environment
    BY <2>1, <1>3, <1>7 DEF Environment, OpenWindow, UserMoves, CloseWindow, TitlesChange,
       BrowserSaves, Restart, Abandon, store
  <2>2. CASE TimePasses \/ ProbeResult \/ SessionAnswers
    BY <2>2, <1>7 DEF TimePasses, ProbeResult, SessionAnswers, SessionUnavailable,
       SessionUsable, store
  <2>3. CASE PlanAnswers
    BY <2>3, <1>5, <1>7 DEF PlanAnswers, PlanDeferred, PlanOutdated, store
  <2>4. QED BY <2>1, <2>2, <2>3, <1>3, <1>4, <1>6 DEF Next, PrepareAnswers, MoveAnswers

\* Where a window belongs is rewritten only by the open window that is bound
\* to the record, with where it is: no heartbeat, plan or restore that failed
\* overwrites a record with the place a restarted browser chose.
THEOREM PlacementsSurviveAlways == Spec => PlacementsSurvive
<1>1. IInv /\ [Next]_vars =>
        [\A r \in Record : Relocated(r) =>
           \E w \in Window : /\ bound[w] = r /\ bound'[w] = r
                             /\ at[w] = records'[r].desk]_vars
  BY StepMovesNoRecord
<1>2. Spec => []IInv
  BY RestoreInvariant
<1>3. QED BY <1>1, <1>2, PTL DEF Spec, PlacementsSurvive

LEMMA StepKeepsBindings ==
  ASSUME IInv, Next, NEW w \in BoundWindows(bound) \cap Present
  PROVE  bound'[w] # NoRecord \/ Restart
<1>1. w \in Window /\ bound[w] # NoRecord
  BY DEF BoundWindows
<1>2. CASE UNCHANGED bound
  BY <1>1, <1>2
<1>3. CASE w \in BoundWindows(bound')
  BY <1>3 DEF BoundWindows
<1>4. ASSUME NEW trouble, Observe(trouble) PROVE bound'[w] # NoRecord
  BY <1>3, <1>4, ObserveDoes DEF BoundWindows
<1>5. ASSUME NEW m \in Matchings, NEW done, NEW waiting \in SUBSET Window,
             op.phase \in {"plan", "moves"}, Fits(NewRecords(m), Known(records)),
             FinishAutoOperation(m, done, waiting)
      PROVE  bound'[w] # NoRecord
  BY <1>5, FinishDoes DEF BoundWindows
<1>6. ASSUME NEW m, NEW unread, Planned(m, unread) PROVE bound'[w] # NoRecord
  <2>1. /\ op.phase = "plan" /\ m \in Matchings /\ Fits(NewRecords(m), Known(records))
        /\ held \subseteq Window /\ op.rows \subseteq Window /\ DOMAIN m \subseteq op.rows
    BY <1>6, PlanShape, MatchingsAre DEF Planned, Phase, IInv, TypeOK
  <2>2. Restores(m) \subseteq Window
    BY <2>1 DEF Restores
  <2>3. bound' = bound \/ \E waiting \in SUBSET Window : FinishAutoOperation(m, {}, waiting)
    BY <1>6, <2>1, <2>2 DEF Planned
  <2>4. QED BY <1>1, <1>5, <2>1, <2>3
<1>7. ASSUME NEW v, NEW outcome, MoveEnded(v, outcome) PROVE bound'[w] # NoRecord
  <2>1. op.phase = "moves" /\ op.matches \in Matchings
        /\ Fits(NewRecords(op.matches), Known(records)) /\ held \in SUBSET Window
    BY <1>7 DEF MoveEnded, Phase, IInv, MovesFollowThePlan, TypeOK
  <2>2. bound' = bound \/ \E done : FinishAutoOperation(op.matches, done, held)
    BY <1>7 DEF MoveEnded
  <2>3. QED BY <1>1, <1>5, <2>1, <2>2
<1>8. QED
  <2>1. CASE Environment
    BY <2>1, <1>1, <1>4 DEF Environment, OpenWindow, UserMoves, CloseWindow, TitlesChange,
       BrowserSaves, Abandon, store
  <2>2. CASE TimePasses \/ ProbeResult \/ SessionAnswers \/ PrepareAnswers
    BY <2>2, <1>1 DEF TimePasses, ProbeResult, SessionAnswers, SessionUnavailable,
       SessionUsable, PrepareAnswers, Prepared, store
  <2>3. CASE PlanAnswers
    BY <2>3, <1>1, <1>6 DEF PlanAnswers, PlanDeferred, PlanOutdated, store
  <2>4. QED BY <2>1, <2>2, <2>3, <1>4, <1>7 DEF Next, MoveAnswers

\* A window the program knows is the user's: while it is open it stays bound,
\* unless the program is killed, and no restore moves it.
THEOREM BoundWindowsAreLeftAloneAlways == Spec => BoundWindowsAreLeftAlone
<1>1. IInv => Reserved \cap BoundWindows(bound) = {}
  BY DEF IInv, MovesFollowThePlan, Reserved
<1>2. IInv /\ [Next]_vars =>
        [\A w \in BoundWindows(bound) \cap Present :
           /\ bound'[w] # NoRecord \/ w \notin Present' \/ Restart
           /\ ~MovedBack(w)]_vars
  BY <1>1, StepKeepsBindings DEF MovedBack
<1>3. Spec => []IInv
  BY RestoreInvariant
<1>4. QED BY <1>2, <1>3, PTL DEF Spec, BoundWindowsAreLeftAlone

=============================================================================
