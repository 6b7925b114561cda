-------------------------- MODULE SessionCheckpoints --------------------------
(* The checkpoints of the browser sessions: the tabs remembered for the       *)
(* layout records, and the five files they are written to -- slot 0, the last *)
(* saved state, and slots 1 to Slots, the last shutdowns, newest first        *)
(* (tabsnap.hpp, vde.cpp).  Every file operation is a step of its own: any of *)
(* them may fail, and the process may die before each.                        *)
EXTENDS Naturals, FiniteSets

CONSTANTS
  Records,       \* the layout records
  Slots,         \* MAX_SNAPSHOT_EXIT_SLOTS
  MaxCaptures,   \* checkpoints built in a behaviour
  MaxFaults,     \* failed file operations and sudden deaths in a behaviour
  None

ASSUME SessionCheckpointsAssumption == Slots \in Nat \ {0} /\ None \notin Nat

VARIABLES
  slot,          \* the files: the number of the checkpoint in each, or None
  bound,         \* the records bound to a window now, g_recordByRuntime
  tabs,          \* the records whose tabs are known, g_tabsByRecord
  due,           \* SAVED_SNAPSHOT_MIN_INTERVAL_MS have passed
  rotated,       \* g_exitSnapshotRotated
  writing,       \* the write under way: [to, number], and the rotation before it
  captures,      \* checkpoints built so far
  process,       \* the process that runs, by number
  shutdowns,     \* the exit checkpoints each process built
  faults

vars == <<slot, bound, tabs, due, rotated, writing, captures, process, shutdowns, faults>>

Quiet == [step |-> None, number |-> 0, to |-> 0]

Init ==
  /\ slot = [i \in 0..Slots |-> None]
  /\ bound = {} /\ tabs = {} /\ due = TRUE /\ rotated = FALSE /\ writing = Quiet
  /\ captures = 0 /\ process = 1 /\ shutdowns = {} /\ faults = 0

Ready == writing = Quiet

Fault == faults < MaxFaults /\ faults' = faults + 1

\* A slot holds a checkpoint that can be read: ReadSnapshotSlot.
Present(i) == slot[i] # None

------------------------------------------------------------------------------
(* The tabs.                                                                  *)

\* Windows come and go, and with them the bindings and, later, the records.
Rebind ==
  /\ Ready
  /\ bound' \in SUBSET Records
  /\ UNCHANGED <<slot, tabs, due, rotated, writing, captures, process, shutdowns, faults>>

\* RememberSessionTabs on a finished reconcile: the windows that are bound get
\* their tabs, and the tabs of records that are gone are dropped.
RememberSessionTabs ==
  /\ Ready
  /\ \E read \in SUBSET bound, gone \in SUBSET (Records \ bound) : tabs' = (tabs \cup read) \ gone
  /\ UNCHANGED <<slot, bound, due, rotated, writing, captures, process, shutdowns, faults>>

\* BuildCurrentSessionSnapshot: the records of the windows that are open and
\* whose tabs are known.
Snapshot == bound \cap tabs

------------------------------------------------------------------------------
(* The writes.                                                                *)

\* CaptureSessionSnapshot: an empty one is refused; an exit rotates first, once
\* in the life of the process.
Capture(to) ==
  /\ Snapshot # {} /\ captures < MaxCaptures
  /\ captures' = captures + 1
  /\ writing' = [step |-> IF to = 1 /\ ~rotated THEN Slots ELSE 1,
                 number |-> captures + 1, to |-> to]

\* FinishManualSave.
SaveSnapshot ==
  /\ Ready /\ Capture(0)
  /\ due' = FALSE
  /\ UNCHANGED <<slot, bound, tabs, rotated, process, shutdowns, faults>>

\* MaintainSavedSnapshot on the monitor's tick: the interval starts again
\* whether or not there was something to write.
MaintainSavedSnapshot ==
  /\ Ready /\ due /\ tabs # {}
  /\ \/ Capture(0)
     \/ Snapshot = {} /\ UNCHANGED <<captures, writing>>
  /\ due' = FALSE
  /\ UNCHANGED <<slot, bound, tabs, rotated, process, shutdowns, faults>>

IntervalPasses ==
  /\ Ready /\ ~due /\ due' = TRUE
  /\ UNCHANGED <<slot, bound, tabs, rotated, writing, captures, process, shutdowns, faults>>

\* ExecuteCheckpoint on WM_QUERYENDSESSION and on the end of the program; a
\* shutdown that is called off leaves the process running.
ExitSnapshot ==
  /\ Ready /\ Capture(1)
  /\ shutdowns' = shutdowns \cup {[process |-> process, number |-> captures + 1]}
  /\ UNCHANGED <<slot, bound, tabs, due, rotated, process, faults>>

\* Mutant: the newest slot is moved first.
RotateStepNewestFirst ==
  LET i == writing.step
      j == Slots + 2 - i IN
  /\ i # None /\ i > 1
  /\ \/ /\ slot' = IF Present(j - 1) THEN [slot EXCEPT ![j] = slot[j - 1], ![j - 1] = None]
                   ELSE [slot EXCEPT ![j] = None]
        /\ UNCHANGED faults
     \/ /\ Fault /\ UNCHANGED slot
  /\ writing' = [writing EXCEPT !.step = i - 1]
  /\ rotated' = (rotated \/ i = 2)
  /\ UNCHANGED <<bound, tabs, due, captures, process, shutdowns>>

\* RotateExitSnapshots, the step that fills slot writing.step from the one
\* before it: a file that is not there takes the older one with it.
RotateStep ==
  LET i == writing.step IN
  /\ i # None /\ i > 1
  /\ \/ /\ slot' = IF Present(i - 1) THEN [slot EXCEPT ![i] = slot[i - 1], ![i - 1] = None]
                   ELSE [slot EXCEPT ![i] = None]
        /\ UNCHANGED faults
     \/ /\ Fault /\ UNCHANGED slot
  /\ writing' = [writing EXCEPT !.step = i - 1]
  /\ rotated' = (rotated \/ i = 2)
  /\ UNCHANGED <<bound, tabs, due, captures, process, shutdowns>>

\* WriteReplaceFileAtomic: a temporary file, then the replacement.
WriteSnapshot ==
  /\ writing.step = 1
  /\ \/ slot' = [slot EXCEPT ![writing.to] = writing.number] /\ UNCHANGED faults
     \/ Fault /\ UNCHANGED slot
  /\ writing' = Quiet
  /\ UNCHANGED <<bound, tabs, due, rotated, captures, process, shutdowns>>

------------------------------------------------------------------------------
(* Processes.                                                                 *)

\* The exit checkpoints a process built.
ExitsOf(p) == {s.number : s \in {e \in shutdowns : e.process = p}}

\* A process that made no exit checkpoint is as good as its successor, and
\* keeps its number.  The tabs and the bindings are memory; bindings are made anew by observation.
NewProcess ==
  /\ bound' = {} /\ tabs' = {} /\ due' = TRUE /\ rotated' = FALSE /\ writing' = Quiet
  /\ process' = IF ExitsOf(process) = {} THEN process ELSE process + 1

\* The program ended, with or without a checkpoint, and is started again.
Exit == Ready /\ NewProcess /\ UNCHANGED <<slot, captures, shutdowns, faults>>

\* Power loss or termination in the middle of a write.
Die == ~Ready /\ NewProcess /\ Fault /\ UNCHANGED <<slot, captures, shutdowns>>

Next ==
  \/ Rebind \/ RememberSessionTabs
  \/ SaveSnapshot \/ MaintainSavedSnapshot \/ IntervalPasses \/ ExitSnapshot
  \/ RotateStep \/ WriteSnapshot \/ Exit \/ Die

Spec == Init /\ [][Next]_vars

------------------------------------------------------------------------------
(* Properties.                                                                *)

TypeOK ==
  /\ slot \in [0..Slots -> (1..captures) \cup {None}]
  /\ tabs \subseteq Records /\ bound \subseteq Records
  /\ writing.step \in (1..Slots) \cup {None} /\ writing.to \in {0, 1}

(* "The oldest slot is dropped first so a failed rename can never overwrite a *)
(* newer snapshot with an older one" (SnapshotRotationSteps): the history is  *)
(* newest first, whatever fails and wherever the process dies.                *)
HistoryIsNewestFirst ==
  \A i, j \in 1..Slots : i < j /\ Present(i) /\ Present(j) => slot[i] > slot[j]

(* "One shutdown must consume exactly one history slot" (vde.cpp): whatever a *)
(* process does -- a shutdown asked for, called off, asked for again, a write *)
(* that failed -- at most one slot holds a checkpoint of it.                  *)
InHistory(p) == {i \in 1..Slots : slot[i] \in ExitsOf(p)}

OneShutdownOneSlot == \A p \in 1..process : Cardinality(InHistory(p)) <= 1

(* "The last four shutdowns stay reopenable" (ExecuteCheckpoint), and "a torn *)
(* write costs at most one checkpoint" (WriteReplaceFileAtomic): of the last  *)
(* Slots processes that made an exit checkpoint, each failed operation and    *)
(* each sudden death costs one, and nothing else does.                        *)
LastShutdowns ==
  LET made == {s.process : s \in shutdowns} IN
  {p \in made : Cardinality({q \in made : q > p}) < Slots}

EachFailureCostsOne == Ready => Cardinality({p \in LastShutdowns : InHistory(p) = {}}) <= faults

(* The history of shutdowns: newest first, one slot for each, and no more of  *)
(* them lost than there were failures.                                        *)
HistoryIsSound ==
  TypeOK /\ HistoryIsNewestFirst /\ OneShutdownOneSlot /\ EachFailureCostsOne

(* The saved state is never replaced by an older one, and no failure takes it *)
(* away: a power loss "still leaves a recent checkpoint".                     *)
SavedStays == [][Present(0) => slot'[0] # None /\ slot'[0] >= slot[0]]_vars

==============================================================================
