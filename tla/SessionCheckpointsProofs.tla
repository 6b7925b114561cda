---------------------- MODULE SessionCheckpointsProofs ----------------------
(* Proofs about the session checkpoints, for any number of slots, failures    *)
(* and processes: the history of shutdowns stays in order, one shutdown takes *)
(* one slot, each failure costs at most one, and the saved state is never     *)
(* replaced by an older one.                                                  *)
EXTENDS SessionCheckpoints, FiniteSetTheorems, TLAPS

(* The inductive invariant.                                                   *)

\* The processes that built an exit checkpoint, and how many came after p.
Made == {s.process : s \in shutdowns}
After(p) == {q \in Made : q > p}

\* Slot i holds an exit checkpoint of process p.
Holds(i, p) == slot[i] \in ExitsOf(p)

Typing ==
  /\ slot \in [0..Slots -> (1..captures) \cup {None}]
  /\ tabs \subseteq Records /\ bound \subseteq Records
  /\ rotated \in BOOLEAN
  /\ captures \in Nat /\ process \in Nat \ {0} /\ faults \in Nat
  /\ writing \in [step : (1..Slots) \cup {None}, number : Nat, to : {0, 1}]
  /\ writing.step = None => writing = Quiet
  /\ shutdowns \subseteq [process : 1..process, number : 1..captures]

\* A checkpoint is of one process.
NumbersAreUnique ==
  \A s, t \in shutdowns : s.number = t.number => s.process = t.process

\* The one that is being written is newer than every file, and the current
\* process's when it goes to the history.
WritesTheNewest ==
  writing.step # None =>
    /\ captures > 0 /\ writing.number = captures
    /\ \A i \in 0..Slots : Present(i) => slot[i] < captures
    /\ writing.to = 1 => [process |-> process, number |-> captures] \in shutdowns

\* Only an exit rotates, once, and before the process's first checkpoint is
\* in the history.
RotatesOnce ==
  /\ writing.to = 0 => writing.step \in {1, None}
  /\ rotated => Slots > 1 /\ process \in Made
  /\ writing.to = 1 /\ writing.step > 1 => ~rotated
  /\ writing.to = 1 /\ writing.step = 1 /\ Slots > 1 => rotated
  /\ writing.to = 0 /\ ~rotated /\ Slots > 1 => process \notin Made

\* The current process's checkpoint is the newest, and one of a process is
\* in one slot.
OneSlot ==
  /\ \A p \in Made : \A i, j \in 1..Slots : Holds(i, p) /\ Holds(j, p) => i = j
  /\ \A i \in 1..Slots : Holds(i, process) => i = 1 /\ (rotated \/ Slots = 1)

\* A checkpoint has moved up once for each later process that rotated, and not
\* yet for one that is rotating and has not come to its slot.
MovedByLaterOnes ==
  \A p \in Made : \A i \in 1..Slots :
    Holds(i, p) =>
      /\ i <= Cardinality(After(p)) + 1
      /\ writing.to = 1 /\ i < writing.step => i <= Cardinality(After(p))

\* The slot whose content the rotation, or the next write of the process,
\* replaces.
Doomed(i) ==
  IF writing.to = 1 THEN i = writing.step
  ELSE rotated /\ i = 1 /\ ~Holds(1, process)

Safe(p) == \E i \in 1..Slots : Holds(i, p) /\ ~Doomed(i)

\* The last shutdowns that are lost, or will be with the write under way; the
\* one that is being written is not yet one of them.
Lost == {p \in LastShutdowns : ~Safe(p) /\ ~(writing.to = 1 /\ p = process)}

FailuresPay == Cardinality(Lost) <= faults

IInv ==
  /\ Typing /\ NumbersAreUnique /\ WritesTheNewest /\ RotatesOnce
  /\ HistoryIsNewestFirst /\ OneSlot /\ MovedByLaterOnes /\ FailuresPay


------------------------------------------------------------------------------
(* What the definitions amount to in a state of the right type.               *)

LEMMA ExitsAre ==
  ASSUME NEW p, NEW n
  PROVE  n \in ExitsOf(p) <=> \E s \in shutdowns : s.process = p /\ s.number = n
BY DEF ExitsOf

LEMMA ExitsAreNext ==
  ASSUME NEW p, NEW n
  PROVE  n \in ExitsOf(p)' <=> \E s \in shutdowns' : s.process = p /\ s.number = n
BY DEF ExitsOf

LEMMA MadeAre ==
  ASSUME NEW p
  PROVE  /\ p \in Made <=> \E s \in shutdowns : s.process = p
         /\ p \in Made' <=> \E s \in shutdowns' : s.process = p
BY DEF Made

LEMMA MadeTyped ==
  ASSUME Typing
  PROVE  /\ Made \subseteq 1..process /\ IsFiniteSet(Made)
         /\ \A p : IsFiniteSet(After(p)) /\ Cardinality(After(p)) \in Nat
<1>1. Made \subseteq 1..process
  BY DEF Typing, Made
<1>2. IsFiniteSet(Made)
  <2>1. IsFiniteSet(1..process)
    BY FS_Interval DEF Typing
  <2>2. QED BY <1>1, <2>1, FS_Subset
<1>3. ASSUME NEW p PROVE IsFiniteSet(After(p)) /\ Cardinality(After(p)) \in Nat
  <2>1. After(p) \in SUBSET Made
    BY DEF After
  <2>2. QED BY <2>1, <1>2, FS_Subset, FS_CardinalityType
<1>4. QED BY <1>1, <1>2, <1>3

LEMMA LastAre == LastShutdowns = {p \in Made : Cardinality(After(p)) < Slots}
BY DEF LastShutdowns, Made, After

LEMMA LostIsFinite ==
  ASSUME Typing
  PROVE  IsFiniteSet(Lost) /\ Cardinality(Lost) \in Nat
<1>1. Lost \in SUBSET Made
  BY LastAre DEF Lost
<1>2. QED BY <1>1, MadeTyped, FS_Subset, FS_CardinalityType

LEMMA HeldIsNumber ==
  ASSUME Typing, NEW i, NEW p, Holds(i, p)
  PROVE  slot[i] \in 1..captures /\ slot[i] # None /\ p \in Made
BY ExitsAre, MadeAre, SessionCheckpointsAssumption DEF Typing, Holds

LEMMA HeldByOne ==
  ASSUME NumbersAreUnique, NEW i, NEW p, NEW q, Holds(i, p), Holds(i, q)
  PROVE  p = q
BY ExitsAre DEF NumbersAreUnique, Holds

(* A bound on the losses carries over when at most q is lost in a step, and   *)
(* that step is a failure.                                                    *)
LEMMA LossesGrow ==
  ASSUME NEW S, NEW T, NEW q, IsFiniteSet(T), S \subseteq T \cup {q},
         NEW n \in Nat, Cardinality(T) <= n
  PROVE  /\ IsFiniteSet(S) /\ Cardinality(S) <= n + 1
         /\ S \subseteq T => Cardinality(S) <= n
<1>1. /\ IsFiniteSet(T \cup {q})
      /\ Cardinality(T \cup {q}) <= Cardinality(T) + 1
      /\ Cardinality(T) \in Nat
  <2>1. Cardinality(T) \in Nat
    BY FS_CardinalityType
  <2>2. /\ IsFiniteSet(T \cup {q})
        /\ Cardinality(T \cup {q}) = IF q \in T THEN Cardinality(T) ELSE Cardinality(T) + 1
    BY FS_AddElement
  <2>3. QED BY <2>1, <2>2
<1>2. IsFiniteSet(S) /\ Cardinality(S) <= Cardinality(T \cup {q})
  BY <1>1, FS_Subset
<1>3. Cardinality(S) \in Nat /\ Cardinality(T \cup {q}) \in Nat
  BY <1>1, <1>2, FS_CardinalityType
<1>4. S \subseteq T => Cardinality(S) <= Cardinality(T)
  BY FS_Subset
<1>5. QED BY <1>1, <1>2, <1>3, <1>4

------------------------------------------------------------------------------
(* Init and the steps that leave the history alone.                           *)

LEMMA InitEstablishes == Init => IInv
<1> SUFFICES ASSUME Init PROVE IInv
  OBVIOUS
<1> USE SessionCheckpointsAssumption
<1>1. Typing
  <2>1. slot \in [0..Slots -> (1..captures) \cup {None}] /\ shutdowns = {}
    BY DEF Init
  <2>2. writing \in [step : (1..Slots) \cup {None}, number : Nat, to : {0, 1}]
    BY DEF Init, Quiet
  <2>3. captures \in Nat /\ process \in Nat \ {0} /\ faults \in Nat
    BY DEF Init
  <2>4. rotated \in BOOLEAN /\ tabs \subseteq Records /\ bound \subseteq Records
        /\ writing = Quiet
    BY DEF Init
  <2>5. QED BY <2>1, <2>2, <2>3, <2>4 DEF Typing
<1>2. Made = {} /\ \A p : ExitsOf(p) = {}
  BY DEF Init, Made, ExitsOf
<1>3. NumbersAreUnique /\ WritesTheNewest /\ RotatesOnce /\ HistoryIsNewestFirst
  BY <1>2 DEF Init, Quiet, NumbersAreUnique, WritesTheNewest, RotatesOnce,
     HistoryIsNewestFirst, Present
<1>4. OneSlot /\ MovedByLaterOnes
  BY <1>2 DEF OneSlot, MovedByLaterOnes, Holds
<1>5. FailuresPay
  <2>1. Lost = {}
    BY <1>2, LastAre DEF Lost
  <2>2. QED BY <2>1, FS_EmptySet DEF Init, FailuresPay
<1>6. QED BY <1>1, <1>3, <1>4, <1>5 DEF IInv

(* Nothing but the saved state is written, begun to be written or read.       *)
LEMMA FrameKeeps ==
  ASSUME IInv, Typing',
         \A i \in 1..Slots : slot'[i] = slot[i],
         UNCHANGED <<shutdowns, process, rotated>>,
         writing.to = 0, writing'.to = 0, faults' >= faults
  PROVE  NumbersAreUnique' /\ HistoryIsNewestFirst' /\ OneSlot'
         /\ MovedByLaterOnes' /\ FailuresPay'
<1> USE DEF IInv
<1>1. \A p : ExitsOf(p)' = ExitsOf(p)
  BY DEF ExitsOf
<1>2. Made' = Made /\ \A p : After(p)' = After(p)
  BY DEF Made, After
<1>3. \A i \in 1..Slots : \A p : Holds(i, p)' <=> Holds(i, p)
  BY <1>1 DEF Holds
<1>4. NumbersAreUnique' /\ HistoryIsNewestFirst'
  BY DEF NumbersAreUnique, HistoryIsNewestFirst, Present
<1>5. OneSlot'
  BY <1>2, <1>3 DEF OneSlot
<1>6. MovedByLaterOnes'
  BY <1>2, <1>3 DEF MovedByLaterOnes
<1>7. FailuresPay'
  <2>1. \A i \in 1..Slots : Doomed(i)' = Doomed(i)
    BY <1>3, SessionCheckpointsAssumption DEF Doomed
  <2>2. Lost' = Lost
    BY <1>2, <1>3, <2>1 DEF Lost, Safe, LastShutdowns, Made
  <2>3. QED BY <2>2, LostIsFinite DEF FailuresPay, Typing
<1>8. QED BY <1>4, <1>5, <1>6, <1>7

------------------------------------------------------------------------------
(* The exit checkpoint.                                                       *)

LEMMA ExitSnapshotKeeps ==
  ASSUME IInv, ExitSnapshot, Typing'
  PROVE  IInv'
<1> USE SessionCheckpointsAssumption DEF IInv
<1> DEFINE e == [process |-> process, number |-> captures + 1]
<1>1. /\ shutdowns' = shutdowns \cup {e} /\ captures' = captures + 1
      /\ writing' = [step |-> IF rotated THEN 1 ELSE Slots,
                     number |-> captures + 1, to |-> 1]
      /\ writing = Quiet
      /\ UNCHANGED <<slot, rotated, process, faults>>
  BY DEF ExitSnapshot, Capture, Ready
<1>2. writing.to = 0 /\ writing.step = None /\ writing'.to = 1
      /\ writing'.number = captures'
      /\ writing'.step = (IF rotated THEN 1 ELSE Slots)
  BY <1>1 DEF Quiet
<1> e.process = process /\ e.number = captures + 1 /\ e \in shutdowns'
  BY <1>1
<1>3. Made' = Made \cup {process} /\ process \in Made'
  BY <1>1, MadeAre
<1>6. \A i \in 0..Slots : slot[i] # captures + 1 /\ (Present(i) => slot[i] < captures + 1)
  BY DEF Typing, Present
<1>7. \A i \in 1..Slots : \A p : Holds(i, p)' <=> Holds(i, p)
  <2> SUFFICES ASSUME NEW i \in 1..Slots, NEW p PROVE Holds(i, p)' <=> Holds(i, p)
    OBVIOUS
  <2>1. slot'[i] = slot[i] /\ slot[i] # captures + 1
    BY <1>1, <1>6
  <2>2. QED BY <2>1, <1>1, ExitsAre, ExitsAreNext DEF Holds
<1>8. NumbersAreUnique'
  <2>1. \A s \in shutdowns : s.number # captures + 1
    BY DEF Typing
  <2>2. QED BY <2>1, <1>1 DEF NumbersAreUnique
<1>9. WritesTheNewest'
  <2>1. \A i \in 0..Slots : Present(i)' => slot'[i] < captures'
    BY <1>1, <1>6 DEF Present
  <2>2. captures' > 0
    BY <1>1 DEF Typing
  <2>3. [process |-> process', number |-> captures'] \in shutdowns'
    BY <1>1
  <2>4. QED BY <2>1, <2>2, <2>3, <1>2 DEF WritesTheNewest
<1>10. RotatesOnce'
  BY <1>1, <1>2, <1>3 DEF RotatesOnce
<1>11. HistoryIsNewestFirst'
  BY <1>1 DEF HistoryIsNewestFirst, Present
<1>12. OneSlot'
  BY <1>1, <1>3, <1>7, HeldIsNumber DEF OneSlot
\* A process that was there already is followed by the current one now, if it
\* was not before.
<1>13. ASSUME NEW p \in Made
       PROVE  IF process \in Made \/ p = process THEN After(p)' = After(p)
              ELSE Cardinality(After(p)') = Cardinality(After(p)) + 1
  <2>1. CASE process \in Made \/ p = process
    BY <2>1, <1>3, MadeTyped DEF After
  <2>2. CASE ~(process \in Made \/ p = process)
    <3>1. After(p)' = After(p) \cup {process} /\ process \notin After(p)
      BY <2>2, <1>3, MadeTyped DEF After, Typing
    <3>2. QED BY <2>2, <3>1, MadeTyped, FS_AddElement
  <2>3. QED BY <2>1, <2>2
<1>14. ~rotated => process \notin Made \/ Slots = 1
  BY <1>2 DEF RotatesOnce, Typing
<1>15. MovedByLaterOnes'
  <2> SUFFICES ASSUME NEW p \in Made', NEW i \in 1..Slots, Holds(i, p)'
               PROVE  /\ i <= Cardinality(After(p)') + 1
                      /\ i < writing'.step => i <= Cardinality(After(p)')
    BY <1>2 DEF MovedByLaterOnes
  <2>1. p \in Made /\ Holds(i, p)
    BY <1>7, HeldIsNumber
  <2>2. i <= Cardinality(After(p)) + 1 /\ Cardinality(After(p)) \in Nat
    BY <2>1, MadeTyped DEF MovedByLaterOnes
  <2>3. CASE process \in Made \/ p = process
    BY <2>1, <2>2, <2>3, <1>2, <1>13, <1>14
  <2>4. CASE ~(process \in Made \/ p = process)
    BY <2>1, <2>2, <2>4, <1>13
  <2>5. QED BY <2>3, <2>4
<1>16. Lost' \subseteq Lost
  <2> SUFFICES ASSUME NEW p \in Lost' PROVE p \in Lost
    OBVIOUS
  <2>1. /\ p \in Made' /\ Cardinality(After(p)') < Slots /\ p # process /\ ~Safe(p)'
    BY <1>2, <1>1, LastAre DEF Lost, LastShutdowns, Made, After
  <2>2. p \in Made /\ Cardinality(After(p)) < Slots
    BY <2>1, <1>3, <1>13, MadeTyped
  <2>3. ASSUME NEW i \in 1..Slots, Holds(i, p) PROVE Doomed(i)
    <3>1. Doomed(i)'
      BY <2>1, <2>3, <1>7 DEF Safe
    <3>2. i = writing'.step
      BY <3>1, <1>2 DEF Doomed
    <3>3. CASE rotated
      BY <3>2, <3>3, <1>2, <2>3, <2>1, HeldByOne DEF Doomed
    <3>4. CASE ~rotated
      <4>1. i = Slots /\ Slots <= Cardinality(After(p)) + 1
        BY <3>2, <3>4, <1>2, <2>2, <2>3 DEF MovedByLaterOnes
      <4>2. process \notin Made
        <5>1. SUFFICES ASSUME process \in Made PROVE FALSE
          OBVIOUS
        <5>2. Slots = 1
          BY <5>1, <1>14, <3>4
        <5>3. process \in After(p)
          BY <5>1, <2>1, <2>2, MadeTyped DEF After, Typing
        <5>4. Cardinality(After(p)) # 0
          BY <5>3, MadeTyped, FS_EmptySet
        <5>5. QED BY <5>2, <5>4, <2>2, MadeTyped
      <4>3. QED BY <4>1, <4>2, <2>1, <2>2, <1>13, MadeTyped
    <3>5. QED BY <3>3, <3>4
  <2>4. QED BY <2>1, <2>2, <2>3, LastAre DEF Lost, Safe
<1>17. FailuresPay'
  <2>1. Cardinality(Lost') <= Cardinality(Lost)
    BY <1>16, LostIsFinite, FS_Subset
  <2>2. Cardinality(Lost') \in Nat
    BY <1>16, LostIsFinite, FS_Subset, FS_CardinalityType
  <2>3. QED BY <1>1, <2>1, <2>2, LostIsFinite DEF FailuresPay, Typing
<1>18. QED BY <1>8, <1>9, <1>10, <1>11, <1>12, <1>15, <1>17

------------------------------------------------------------------------------
(* The rotation, a slot at a time.                                            *)

LEMMA LossesArePaid ==
  ASSUME Typing, FailuresPay, NEW q, Lost' \subseteq Lost \cup {q},
         faults' = faults + 1 \/ (faults' = faults /\ Lost' \subseteq Lost)
  PROVE  FailuresPay'
<1>1. IsFiniteSet(Lost) /\ Cardinality(Lost) <= faults /\ faults \in Nat
  BY LostIsFinite DEF FailuresPay, Typing
<1>2. /\ Cardinality(Lost') <= faults + 1
      /\ Lost' \subseteq Lost => Cardinality(Lost') <= faults
  BY <1>1, LossesGrow
<1>3. QED BY <1>2 DEF FailuresPay

LEMMA RotateStepKeeps ==
  ASSUME IInv, RotateStep, Typing'
  PROVE  IInv'
<1> USE SessionCheckpointsAssumption DEF IInv
<1>0. PICK k \in 2..Slots : k = writing.step
  BY DEF RotateStep, Typing
<1> DEFINE Moved == slot' = (IF Present(k - 1) THEN [slot EXCEPT ![k] = slot[k - 1], ![k - 1] = None]
                             ELSE [slot EXCEPT ![k] = None])
<1>1. /\ k \in 2..Slots /\ k - 1 \in 1..Slots /\ Slots > 1
      /\ writing.to = 1 /\ writing.number = captures
  BY <1>0 DEF RotateStep, Typing, RotatesOnce, WritesTheNewest
<1>2. /\ writing' = [writing EXCEPT !.step = k - 1]
      /\ rotated' <=> rotated \/ k = 2
      /\ UNCHANGED <<captures, process, shutdowns>>
      /\ \/ Moved /\ faults' = faults
         \/ faults' = faults + 1 /\ slot' = slot
  BY <1>0 DEF RotateStep, Fault
<1>3. writing'.step = k - 1 /\ writing'.to = 1 /\ writing'.number = captures'
  BY <1>1, <1>2 DEF Typing
<1>4. ~rotated
  BY <1>0, <1>1 DEF RotatesOnce
<1>5. Made' = Made /\ \A p : After(p)' = After(p) /\ ExitsOf(p)' = ExitsOf(p)
  BY <1>2 DEF Made, After, ExitsOf
<1> HIDE DEF Moved
\* What a move does to the slots.
<1>6. ASSUME Moved
      PROVE  /\ Present(k - 1) => slot'[k] = slot[k - 1] /\ slot'[k - 1] = None
             /\ ~Present(k - 1) => slot'[k] = None /\ slot'[k - 1] = slot[k - 1]
             /\ \A i \in 0..Slots : i # k /\ i # k - 1 => slot'[i] = slot[i]
  BY <1>1, <1>6 DEF Typing, Moved
<1>7. ASSUME Moved, NEW p, NEW i \in 1..Slots
      PROVE  Holds(i, p)' <=> IF i = k THEN Holds(k - 1, p)
                              ELSE i # k - 1 /\ Holds(i, p)
  <2>1. None \notin ExitsOf(p)
    BY ExitsAre, SessionCheckpointsAssumption DEF Typing
  <2>2. slot'[i] = IF i = k THEN slot[k - 1] ELSE IF i = k - 1 THEN None ELSE slot[i]
    BY <1>6, <1>7, <1>1 DEF Present
  <2>3. Holds(i, p)' <=> slot'[i] \in ExitsOf(p)
    BY <1>5 DEF Holds
  <2>4. QED BY <2>1, <2>2, <2>3, <1>1 DEF Holds
<1>8. ASSUME slot' = slot, NEW i, NEW p PROVE Holds(i, p)' <=> Holds(i, p)
  BY <1>8, <1>5 DEF Holds
<1>9. NumbersAreUnique'
  BY <1>2 DEF NumbersAreUnique
<1>10. WritesTheNewest'
  <2>1. \A i \in 0..Slots : Present(i)' => slot'[i] < captures
    <3>1. CASE Moved
      BY <1>0, <3>1, <1>6, <1>1 DEF WritesTheNewest, Present
    <3>2. CASE slot' = slot
      BY <1>0, <3>2, <1>1 DEF WritesTheNewest, Present
    <3>3. QED BY <3>1, <3>2, <1>2
  <2>2. QED BY <1>0, <2>1, <1>1, <1>2, <1>3 DEF WritesTheNewest
<1>11. RotatesOnce'
  <2>1. process \in Made
    BY <1>0, <1>1, MadeAre DEF WritesTheNewest
  <2>2. QED BY <2>1, <1>1, <1>2, <1>3, <1>4, <1>5 DEF RotatesOnce
<1>12. HistoryIsNewestFirst'
  <2>1. CASE Moved
    BY <2>1, <1>6, <1>1 DEF HistoryIsNewestFirst, Present
  <2>2. CASE slot' = slot
    BY <2>2 DEF HistoryIsNewestFirst, Present
  <2>3. QED BY <2>1, <2>2, <1>2
<1>13. OneSlot'
  <2>1. \A i \in 1..Slots : ~Holds(i, process)
    BY <1>1, <1>4 DEF OneSlot
  <2>2. CASE Moved
    <3>1. \A i \in 1..Slots : ~Holds(i, process)'
      <4>1. PICK p : p = process
        OBVIOUS
      <4>2. ASSUME NEW i \in 1..Slots PROVE ~Holds(i, p)'
        BY <2>1, <2>2, <4>1, <1>7, <1>1
      <4>3. QED BY <4>1, <4>2, <1>2 DEF Holds, ExitsOf
    <3>2. ASSUME NEW p \in Made, NEW i \in 1..Slots, NEW j \in 1..Slots,
                 Holds(i, p)', Holds(j, p)'
          PROVE  i = j
      <4>1. \A a, b \in 1..Slots : Holds(a, p) /\ Holds(b, p) => a = b
        BY DEF OneSlot
      <4>2. QED BY <4>1, <3>2, <2>2, <1>7, <1>1
    <3>3. process' = process
      BY <1>2
    <3>4. QED BY <3>1, <3>2, <3>3, <1>5, <1>7, <2>2, <1>1 DEF OneSlot
  <2>3. CASE slot' = slot
    BY <2>1, <2>3, <1>2, <1>5, <1>8 DEF OneSlot
  <2>4. QED BY <2>2, <2>3, <1>2
<1>14. MovedByLaterOnes'
  <2> SUFFICES ASSUME NEW p \in Made, NEW i \in 1..Slots, Holds(i, p)'
               PROVE  /\ i <= Cardinality(After(p)) + 1
                      /\ i < k - 1 => i <= Cardinality(After(p))
    BY <1>3, <1>5 DEF MovedByLaterOnes
  <2>1. Cardinality(After(p)) \in Nat
    BY MadeTyped
  <2>2. CASE Moved /\ i = k
    <3>1. Holds(k - 1, p)
      BY <2>2, <1>7
    <3>2. k - 1 <= Cardinality(After(p))
      BY <1>0, <3>1, <1>1 DEF MovedByLaterOnes
    <3>3. QED BY <3>2, <2>1, <2>2, <1>1
  <2>3. CASE slot' = slot \/ (Moved /\ i # k)
    <3>1. Holds(i, p)
      BY <2>3, <1>7, <1>8
    <3>2. i <= Cardinality(After(p)) + 1 /\ (i < k => i <= Cardinality(After(p)))
      BY <1>0, <3>1, <1>1 DEF MovedByLaterOnes
    <3>3. QED BY <3>2, <2>1, <1>1
  <2>4. QED BY <2>2, <2>3, <1>2
<1>15. \A i \in 1..Slots : (Doomed(i) <=> i = k) /\ (Doomed(i)' <=> i = k - 1)
  BY <1>0, <1>1, <1>3 DEF Doomed
<1>16. \A p : p \in Lost' <=> p \in LastShutdowns /\ ~Safe(p)' /\ p # process
  BY <1>2, <1>3, <1>5, LastAre DEF Lost, LastShutdowns, Made, After
<1>17. FailuresPay'
  <2>1. CASE Moved /\ faults' = faults
    <3>1. Lost' \subseteq Lost
      <4> SUFFICES ASSUME NEW p \in Lost', NEW i \in 1..Slots, Holds(i, p), i # k
                   PROVE FALSE
        BY <1>1, <1>15, <1>16 DEF Lost, Safe
      <4>1. CASE i = k - 1
        <5>1. Holds(k, p)' /\ ~Doomed(k)'
          BY <4>1, <2>1, <1>7, <1>1, <1>15
        <5>2. QED BY <5>1, <1>1, <1>16 DEF Safe
      <4>2. CASE i # k - 1
        <5>1. Holds(i, p)'
          BY <4>2, <2>1, <1>7
        <5>2. QED BY <5>1, <4>2, <1>15, <1>16 DEF Safe
      <4>3. QED BY <4>1, <4>2
    <3>2. QED BY <3>1, <2>1, LossesArePaid
  <2>2. CASE slot' = slot /\ faults' = faults + 1
    <3>1. PICK q : \A p : Holds(k - 1, p) => p = q
      BY HeldByOne
    <3>2. Lost' \subseteq Lost \cup {q}
      <4> SUFFICES ASSUME NEW p \in Lost', p # q, NEW i \in 1..Slots, Holds(i, p), i # k
                   PROVE FALSE
        BY <1>1, <1>15, <1>16 DEF Lost, Safe
      <4>1. i # k - 1 /\ Holds(i, p)'
        BY <3>1, <2>2, <1>8
      <4>2. QED BY <4>1, <1>15, <1>16 DEF Safe
    <3>3. QED BY <3>2, <2>2, LossesArePaid
  <2>3. QED BY <2>1, <2>2, <1>2
<1>18. QED BY <1>9, <1>10, <1>11, <1>12, <1>13, <1>14, <1>17

------------------------------------------------------------------------------
(* The write.                                                                 *)

LEMMA WriteSnapshotKeeps ==
  ASSUME IInv, WriteSnapshot, Typing'
  PROVE  IInv'
<1> USE SessionCheckpointsAssumption DEF IInv
<1>1. /\ writing.step = 1 /\ writing.number = captures /\ writing.to \in {0, 1}
      /\ captures \in Nat /\ captures > 0
  BY DEF WriteSnapshot, WritesTheNewest, Typing
<1>2. /\ writing'.to = 0 /\ writing'.step = None
      /\ UNCHANGED <<rotated, captures, process, shutdowns>>
      /\ \/ slot' = [slot EXCEPT ![writing.to] = captures] /\ faults' = faults
         \/ slot' = slot /\ faults' = faults + 1
  BY <1>1 DEF WriteSnapshot, Fault, Quiet
<1>3. Made' = Made /\ \A p : After(p)' = After(p) /\ ExitsOf(p)' = ExitsOf(p)
  BY <1>2 DEF Made, After, ExitsOf
<1>4. WritesTheNewest'
  BY <1>2 DEF WritesTheNewest
<1>5. RotatesOnce'
  BY <1>1, <1>2, <1>3 DEF RotatesOnce
<1>6. CASE writing.to = 0
  <2>1. \A i \in 1..Slots : slot'[i] = slot[i]
    BY <1>2, <1>6 DEF Typing
  <2>2. faults' >= faults
    BY <1>2 DEF Typing
  <2>3. QED BY <1>2, <1>4, <1>5, <1>6, <2>1, <2>2, FrameKeeps
<1>7. CASE writing.to = 1
  <2>1. rotated \/ Slots = 1
    BY <1>1, <1>7 DEF RotatesOnce
  <2>2. PICK c : c = process
    OBVIOUS
  <2>3. \A p : captures \in ExitsOf(p) <=> p = c
    BY <1>1, <1>7, <2>2, ExitsAre DEF WritesTheNewest, NumbersAreUnique
  <2>4. \A i \in 1..Slots : Holds(i, c) => i = 1
    BY <2>2 DEF OneSlot
  <2>5. NumbersAreUnique'
    BY <1>2 DEF NumbersAreUnique
  <2>6. \A i \in 1..Slots : Doomed(i) <=> i = 1
    BY <1>1, <1>7 DEF Doomed
  <2>7. \A p : p \in Lost <=> p \in LastShutdowns /\ ~Safe(p) /\ p # c
    BY <1>7, <2>2 DEF Lost
  <2>8. \A p : p \in Lost' <=> p \in LastShutdowns /\ ~Safe(p)'
    BY <1>2 DEF Lost, LastShutdowns
  <2>9. CASE slot' = [slot EXCEPT ![1] = captures] /\ faults' = faults
    <3>1. slot'[1] = captures /\ \A i \in 1..Slots : i # 1 => slot'[i] = slot[i]
      BY <2>9 DEF Typing
    <3>2. ASSUME NEW p, NEW i \in 1..Slots
          PROVE  Holds(i, p)' <=> IF i = 1 THEN p = c ELSE Holds(i, p)
      BY <3>1, <2>3, <1>3 DEF Holds
    <3>3. HistoryIsNewestFirst'
      BY <3>1, <1>1 DEF HistoryIsNewestFirst, Present, WritesTheNewest
    <3>4. OneSlot'
      <4>1. \A p \in Made : \A i, j \in 1..Slots : Holds(i, p)' /\ Holds(j, p)' => i = j
        BY <3>2, <2>4 DEF OneSlot
      <4>2. \A i \in 1..Slots : Holds(i, c)' => i = 1
        BY <3>2, <2>4
      <4>3. \A i \in 1..Slots : Holds(i, process)' => i = 1
        BY <4>2, <2>2, <1>2 DEF Holds, ExitsOf
      <4>4. QED BY <4>1, <4>3, <2>1, <1>2, <1>3 DEF OneSlot
    <3>5. MovedByLaterOnes'
      <4> SUFFICES ASSUME NEW p \in Made, NEW i \in 1..Slots, Holds(i, p)'
                   PROVE  i <= Cardinality(After(p)) + 1
        BY <1>2, <1>3 DEF MovedByLaterOnes
      <4>1. Cardinality(After(p)) \in Nat
        BY MadeTyped
      <4>2. i = 1 \/ Holds(i, p)
        BY <3>2
      <4>3. QED BY <4>1, <4>2 DEF MovedByLaterOnes
    <3>6. \A i \in 1..Slots : ~Doomed(i)'
      <4>1. Holds(1, c)'
        BY <3>2
      <4>2. Holds(1, process)'
        BY <4>1, <2>2, <1>2 DEF Holds, ExitsOf
      <4>3. QED BY <4>2, <1>2 DEF Doomed
    <3>7. Lost' \subseteq Lost
      <4> SUFFICES ASSUME NEW p \in Lost' PROVE p \in Lost
        OBVIOUS
      <4>1. \A i \in 1..Slots : ~Holds(i, p)'
        BY <2>8, <3>6 DEF Safe
      <4>2. p # c /\ \A i \in 1..Slots : Holds(i, p) => i = 1
        BY <4>1, <3>2
      <4>3. QED BY <4>2, <2>6, <2>7, <2>8 DEF Safe
    <3>8. FailuresPay'
      BY <3>7, <2>9, LossesArePaid
    <3>9. QED BY <1>4, <1>5, <2>5, <3>3, <3>4, <3>5, <3>8
  <2>10. CASE slot' = slot /\ faults' = faults + 1
    <3>1. \A p, i : Holds(i, p)' <=> Holds(i, p)
      BY <2>10, <1>3 DEF Holds
    <3>2. HistoryIsNewestFirst'
      BY <2>10 DEF HistoryIsNewestFirst, Present
    <3>3. OneSlot'
      BY <2>10, <1>2, <1>3, <3>1 DEF OneSlot
    <3>4. MovedByLaterOnes'
      BY <1>2, <1>3, <3>1 DEF MovedByLaterOnes
    <3>5. Lost' \subseteq Lost \cup {c}
      <4> SUFFICES ASSUME NEW p \in Lost', p # c, NEW i \in 1..Slots, Holds(i, p), i # 1
                   PROVE  FALSE
        BY <2>6, <2>7, <2>8 DEF Safe
      <4>1. Holds(i, p)' /\ ~Doomed(i)'
        BY <3>1, <1>2 DEF Doomed
      <4>2. QED BY <4>1, <2>8 DEF Safe
    <3>6. FailuresPay'
      BY <3>5, <2>10, LossesArePaid
    <3>7. QED BY <1>4, <1>5, <2>5, <3>2, <3>3, <3>4, <3>6
  <2>11. QED BY <1>2, <1>7, <2>9, <2>10
<1>8. QED BY <1>1, <1>6, <1>7

------------------------------------------------------------------------------
(* The next process.                                                          *)

LEMMA NewProcessKeeps ==
  ASSUME IInv, NewProcess, UNCHANGED <<slot, captures, shutdowns>>, Typing',
         faults' = faults + 1 \/ (faults' = faults /\ Ready)
  PROVE  IInv'
<1> USE SessionCheckpointsAssumption DEF IInv
<1>1. /\ writing'.to = 0 /\ writing'.step = None /\ ~rotated'
      /\ UNCHANGED <<slot, captures, shutdowns>>
  BY DEF NewProcess, Quiet
<1>2. Made' = Made /\ \A p : After(p)' = After(p) /\ ExitsOf(p)' = ExitsOf(p)
  BY <1>1 DEF Made, After, ExitsOf
<1>3. \A p, i : Holds(i, p)' <=> Holds(i, p)
  BY <1>1, <1>2 DEF Holds
<1>4. process' \notin Made
  <2>1. CASE ExitsOf(process) = {}
    BY <2>1, MadeAre, ExitsAre DEF NewProcess
  <2>2. CASE ExitsOf(process) # {}
    <3>1. process' = process + 1
      BY <2>2 DEF NewProcess
    <3>2. QED BY <3>1, MadeTyped DEF Typing
  <2>3. QED BY <2>1, <2>2
<1>5. \A i \in 1..Slots : ~Holds(i, process)'
  <2>1. PICK c : c = process'
    OBVIOUS
  <2>2. \A i \in 1..Slots : ~Holds(i, c)
    BY <2>1, <1>4, HeldIsNumber
  <2>3. QED BY <2>1, <2>2, <1>1 DEF Holds, ExitsOf
<1>6. NumbersAreUnique' /\ WritesTheNewest' /\ HistoryIsNewestFirst'
  BY <1>1 DEF NumbersAreUnique, WritesTheNewest, HistoryIsNewestFirst, Present
<1>7. RotatesOnce'
  BY <1>1, <1>2, <1>4 DEF RotatesOnce
<1>8. OneSlot'
  BY <1>2, <1>3, <1>5 DEF OneSlot
<1>9. MovedByLaterOnes'
  BY <1>1, <1>2, <1>3 DEF MovedByLaterOnes
<1>10. \A p : p \in Lost' <=> p \in LastShutdowns /\ \A i \in 1..Slots : ~Holds(i, p)
  BY <1>1, <1>3 DEF Lost, LastShutdowns, Safe, Doomed
<1>11. PICK c : c = process
  OBVIOUS
<1>12. Lost' \subseteq Lost \cup {c}
  BY <1>10, <1>11 DEF Lost, Safe
<1>13. Ready => Lost' \subseteq Lost
  BY <1>10 DEF Lost, Safe, Ready, Quiet
<1>14. FailuresPay'
  BY <1>12, <1>13, LossesArePaid
<1>15. QED BY <1>6, <1>7, <1>8, <1>9, <1>14

------------------------------------------------------------------------------
(* The invariant.                                                             *)

LEMMA TypingKeeps == Typing /\ WritesTheNewest /\ [Next]_vars => Typing'
<1> SUFFICES ASSUME Typing, WritesTheNewest, [Next]_vars PROVE Typing'
  OBVIOUS
<1> USE SessionCheckpointsAssumption DEF Typing
<1> DEFINE Writings == [step : (1..Slots) \cup {None}, number : Nat, to : {0, 1}]
<1>1. Quiet \in Writings /\ (Quiet.step = None)
  BY DEF Quiet
<1>2. CASE Rebind
  BY <1>2 DEF Rebind
<1>3. CASE RememberSessionTabs
  BY <1>3 DEF RememberSessionTabs
<1>4. ASSUME NEW to \in {0, 1}, Capture(to), UNCHANGED <<slot, bound, tabs, rotated, process, faults>>,
             \/ UNCHANGED shutdowns
             \/ shutdowns' = shutdowns \cup {[process |-> process, number |-> captures + 1]}
      PROVE  Typing'
  <2>1. captures' \in Nat /\ captures' = captures + 1
    BY <1>4 DEF Capture
  <2>2. writing' \in Writings /\ writing'.step # None
    BY <1>4 DEF Capture
  <2>3. slot' \in [0..Slots -> (1..captures') \cup {None}]
    BY <1>4, <2>1
  <2>4. shutdowns' \subseteq [process : 1..process', number : 1..captures']
    BY <1>4, <2>1
  <2>5. QED BY <1>4, <2>1, <2>2, <2>3, <2>4
<1>5. CASE SaveSnapshot
  BY <1>5, <1>4 DEF SaveSnapshot
<1>6. CASE MaintainSavedSnapshot
  <2>1. CASE Capture(0)
    BY <1>6, <2>1, <1>4 DEF MaintainSavedSnapshot
  <2>2. CASE UNCHANGED <<captures, writing>>
    BY <1>6, <2>2 DEF MaintainSavedSnapshot
  <2>3. QED BY <1>6, <2>1, <2>2 DEF MaintainSavedSnapshot
<1>7. CASE IntervalPasses
  BY <1>7 DEF IntervalPasses
<1>8. CASE ExitSnapshot
  <2>1. Capture(1) /\ UNCHANGED <<slot, bound, tabs, rotated, process, faults>>
    BY <1>8 DEF ExitSnapshot, Capture
  <2>2. QED BY <1>8, <2>1, <1>4 DEF ExitSnapshot
<1>9. CASE RotateStep
  <2>1. writing.step \in 2..Slots
    BY <1>9 DEF RotateStep
  <2>2. slot' \in [0..Slots -> (1..captures) \cup {None}]
    BY <1>9, <2>1 DEF RotateStep
  <2>3. writing' \in Writings /\ writing'.step # None
    BY <1>9, <2>1 DEF RotateStep
  <2>4. faults' \in Nat /\ rotated' \in BOOLEAN
    BY <1>9 DEF RotateStep, Fault
  <2>5. QED BY <1>9, <2>2, <2>3, <2>4 DEF RotateStep
<1>10. CASE WriteSnapshot
  <2>1. writing.number \in 1..captures /\ writing.to \in 0..Slots
    BY <1>10 DEF WriteSnapshot, WritesTheNewest
  <2>2. slot' \in [0..Slots -> (1..captures) \cup {None}]
    BY <1>10, <2>1 DEF WriteSnapshot
  <2>3. faults' \in Nat /\ writing' = Quiet
    BY <1>10 DEF WriteSnapshot, Fault
  <2>4. QED BY <1>10, <1>1, <2>2, <2>3 DEF WriteSnapshot
<1>11. ASSUME NewProcess, UNCHANGED <<slot, captures, shutdowns>>, faults' \in Nat
       PROVE  Typing'
  <2>1. process' \in Nat \ {0} /\ process' >= process
    BY <1>11 DEF NewProcess
  <2>2. shutdowns' \subseteq [process : 1..process', number : 1..captures']
    BY <1>11, <2>1
  <2>3. QED BY <1>11, <1>1, <2>1, <2>2 DEF NewProcess
<1>12. CASE Exit
  BY <1>12, <1>11 DEF Exit
<1>13. CASE Die
  BY <1>13, <1>11 DEF Die, Fault
<1>14. CASE UNCHANGED vars
  BY <1>14 DEF vars
<1>15. QED
  BY <1>2, <1>3, <1>5, <1>6, <1>7, <1>8, <1>9, <1>10, <1>12, <1>13, <1>14 DEF Next

(* A capture for the saved state, and the steps that touch no file.           *)
LEMMA SaveKeeps ==
  ASSUME IInv, Typing', Ready, UNCHANGED <<slot, shutdowns, process, rotated, faults>>,
         Capture(0) \/ UNCHANGED <<captures, writing>>
  PROVE  IInv'
<1> USE SessionCheckpointsAssumption DEF IInv
<1>1. writing.to = 0 /\ writing.step = None
  BY DEF Ready, Quiet
<1>2. writing'.to = 0 /\ writing'.step \in {1, None}
  BY <1>1 DEF Capture
<1>3. Made' = Made
  BY DEF Made
<1>4. RotatesOnce'
  BY <1>1, <1>2, <1>3 DEF RotatesOnce
<1>5. WritesTheNewest'
  <2>1. CASE Capture(0)
    <3>1. captures' = captures + 1 /\ writing'.number = captures'
      BY <2>1 DEF Capture
    <3>2. \A i \in 0..Slots : Present(i)' => slot'[i] < captures'
      BY <3>1 DEF Typing, Present
    <3>3. captures' > 0
      BY <3>1 DEF Typing
    <3>4. QED BY <3>1, <3>2, <3>3, <1>2 DEF WritesTheNewest
  <2>2. CASE UNCHANGED <<captures, writing>>
    BY <2>2, <1>1 DEF WritesTheNewest
  <2>3. QED BY <2>1, <2>2
<1>6. faults' >= faults
  BY DEF Typing
<1>7. QED BY <1>1, <1>2, <1>4, <1>5, <1>6, FrameKeeps

LEMMA StutteringKeeps == IInv /\ UNCHANGED vars => IInv'
<1> SUFFICES ASSUME IInv, UNCHANGED vars PROVE IInv'
  OBVIOUS
<1>1. UNCHANGED <<slot, bound, tabs, rotated, writing, captures, process, shutdowns, faults>>
  BY DEF vars
<1>2. \A p : ExitsOf(p)' = ExitsOf(p)
  BY <1>1 DEF ExitsOf
<1>3. QED
  BY <1>1 DEF IInv, Typing, NumbersAreUnique, WritesTheNewest, RotatesOnce,
     HistoryIsNewestFirst, Present, OneSlot, MovedByLaterOnes, FailuresPay, Lost,
     LastShutdowns, Safe, Doomed, Holds, ExitsOf, Made, After, Quiet

LEMMA StepKeeps == IInv /\ [Next]_vars => IInv'
<1> SUFFICES ASSUME IInv, [Next]_vars PROVE IInv'
  OBVIOUS
<1>1. Typing'
  BY TypingKeeps DEF IInv
<1>2. CASE Rebind
  BY <1>1, <1>2, SaveKeeps DEF Rebind
<1>3. CASE RememberSessionTabs
  BY <1>1, <1>3, SaveKeeps DEF RememberSessionTabs
<1>4. CASE SaveSnapshot
  BY <1>1, <1>4, SaveKeeps DEF SaveSnapshot
<1>5. CASE MaintainSavedSnapshot
  BY <1>1, <1>5, SaveKeeps DEF MaintainSavedSnapshot
<1>6. CASE IntervalPasses
  BY <1>1, <1>6, SaveKeeps DEF IntervalPasses
<1>7. CASE ExitSnapshot
  BY <1>1, <1>7, ExitSnapshotKeeps
<1>8. CASE RotateStep
  BY <1>1, <1>8, RotateStepKeeps
<1>9. CASE WriteSnapshot
  BY <1>1, <1>9, WriteSnapshotKeeps
<1>10. CASE Exit
  BY <1>1, <1>10, NewProcessKeeps DEF Exit
<1>11. CASE Die
  BY <1>1, <1>11, NewProcessKeeps DEF Die, Fault
<1>12. CASE UNCHANGED vars
  BY <1>12, StutteringKeeps
<1>13. QED
  BY <1>2, <1>3, <1>4, <1>5, <1>6, <1>7, <1>8, <1>9, <1>10, <1>11, <1>12 DEF Next

(* The inductive invariant holds in every state: checkpoints are numbered in  *)
(* the order they are built, a process's exit rotates once, and a checkpoint  *)
(* has moved up a slot for each later process and no more (CaptureSession-    *)
(* Snapshot, RotateExitSnapshots, WriteSnapshotSlot).                         *)
THEOREM CheckpointsInvariant == Spec => []IInv
<1>1. Init => IInv
  BY InitEstablishes
<1>2. IInv /\ [Next]_vars => IInv'
  BY StepKeeps
<1>3. QED BY <1>1, <1>2, PTL DEF Spec

LEMMA InvariantIsSound == IInv => HistoryIsSound
<1> SUFFICES ASSUME IInv PROVE HistoryIsSound
  OBVIOUS
<1> USE SessionCheckpointsAssumption DEF IInv
<1>1. TypeOK
  BY DEF TypeOK, Typing
<1>2. \A p : InHistory(p) = {i \in 1..Slots : Holds(i, p)}
  BY DEF InHistory, Holds
<1>3. OneShutdownOneSlot
  <2> SUFFICES ASSUME NEW p PROVE Cardinality(InHistory(p)) <= 1
    BY DEF OneShutdownOneSlot
  <2>1. CASE InHistory(p) = {}
    BY <2>1, FS_EmptySet
  <2>2. CASE InHistory(p) # {}
    <3>1. PICK i \in 1..Slots : Holds(i, p)
      BY <2>2, <1>2
    <3>2. InHistory(p) = {i}
      BY <3>1, <1>2, HeldIsNumber DEF OneSlot
    <3>3. Cardinality(InHistory(p)) = 1
      BY <3>2, FS_Singleton
    <3>4. QED BY <3>3
  <2>3. QED BY <2>1, <2>2
<1>4. EachFailureCostsOne
  <2> SUFFICES ASSUME Ready
               PROVE  Cardinality({p \in LastShutdowns : InHistory(p) = {}}) <= faults
    BY DEF EachFailureCostsOne
  <2> DEFINE Gone == {p \in LastShutdowns : InHistory(p) = {}}
  <2>1. Gone \subseteq Lost
    BY <1>2 DEF Lost, Safe, Ready, Quiet
  <2>2. IsFiniteSet(Gone) /\ Cardinality(Gone) <= Cardinality(Lost)
    BY <2>1, LostIsFinite, FS_Subset
  <2>3. Cardinality(Gone) \in Nat
    BY <2>2, FS_CardinalityType
  <2>4. QED BY <2>2, <2>3, LostIsFinite DEF FailuresPay, Typing
<1>5. QED BY <1>1, <1>3, <1>4 DEF HistoryIsSound

(* The history of shutdowns is newest first, holds at most one checkpoint of  *)
(* a process, and of the last Slots shutdowns no more are lost than file      *)
(* operations failed and processes died: for any number of slots, any number  *)
(* of failures and wherever they fall.                                        *)
THEOREM HistoryHolds == Spec => []HistoryIsSound
<1>1. Spec => []IInv
  BY CheckpointsInvariant
<1>2. IInv => HistoryIsSound
  BY InvariantIsSound
<1>3. QED BY <1>1, <1>2, PTL

(* A saved state is replaced by a newer one only, and nothing takes it away:  *)
(* neither a rotation, nor a failed write, nor the end of the process.        *)
THEOREM SavedIsKept == Spec => SavedStays
<1>1. IInv /\ [Next]_vars => [Present(0) => slot'[0] # None /\ slot'[0] >= slot[0]]_vars
  <2> SUFFICES ASSUME IInv, Next, Present(0) PROVE slot'[0] # None /\ slot'[0] >= slot[0]
    OBVIOUS
  <2> USE SessionCheckpointsAssumption DEF IInv
  <2>1. slot[0] \in Nat /\ slot[0] # None
    BY DEF Present, Typing
  <2>2. CASE RotateStep
    <3>1. writing.step \in 2..Slots
      BY <2>2 DEF RotateStep, Typing
    <3>2. slot'[0] = slot[0]
      BY <2>2, <3>1 DEF RotateStep, Typing
    <3>3. QED BY <2>1, <3>2
  <2>3. CASE WriteSnapshot
    <3>1. writing.number = captures /\ captures \in Nat /\ slot[0] < captures
      BY <2>3 DEF WriteSnapshot, WritesTheNewest, Typing
    <3>2. slot'[0] = slot[0] \/ slot'[0] = captures
      BY <2>3, <3>1 DEF WriteSnapshot, Typing
    <3>3. QED BY <2>1, <3>1, <3>2
  <2>4. CASE ~RotateStep /\ ~WriteSnapshot
    <3>1. slot' = slot
      BY <2>4 DEF Next, Rebind, RememberSessionTabs, SaveSnapshot, MaintainSavedSnapshot,
         IntervalPasses, ExitSnapshot, Exit, Die
    <3>2. QED BY <2>1, <3>1
  <2>5. QED BY <2>2, <2>3, <2>4
<1>2. Spec => []IInv
  BY CheckpointsInvariant
<1>3. QED BY <1>1, <1>2, PTL DEF Spec, SavedStays

=============================================================================
