------------------------------ MODULE FileOps ------------------------------
(***************************************************************************)
(* The directory that holds a layout file, and what the file operations of *)
(* LayoutFsOps (str_util.hpp) can do to it.                                *)
(*                                                                         *)
(* An operation is a set of outcomes.  An outcome has the directory it     *)
(* leaves, whether the call reported success, and whether the failure, if  *)
(* it is one, is the code's own decision (clean) or a fault of the system. *)
(* A fault stands for a call that fails before or after its effect, for a  *)
(* read-back that fails after it, and for a crash at that point: the       *)
(* directory is the same for all of them.                                  *)
(***************************************************************************)
EXTENDS FiniteSets

CONSTANTS
    Versions,   \* contents the program writes, all parseable
    Missing,    \* there is no such file
    Torn        \* bytes that are not a layout

ASSUME FileOpsAssumption ==
    /\ Versions # {}
    /\ Missing # Torn
    /\ {Missing, Torn} \cap Versions = {}

\* The names AtomicWriteText derives from the path of the layout.
Files ==
    {"primary", "temp", "tempStage", "backup", "rollback", "displaced",
     "previous", "previousStage", "restore", "promote", "promoteStage"}

Contents == Versions \cup {Missing, Torn}

Directories == [Files -> Contents]

Has(fs, f) == fs[f] # Missing

-----------------------------------------------------------------------------
(* Outcomes and their composition.                                         *)

Done(fs)    == {[fs |-> fs, ok |-> TRUE,  clean |-> TRUE]}
Refused(fs) == {[fs |-> fs, ok |-> FALSE, clean |-> TRUE]}
Broken(dirs) == {[fs |-> fs, ok |-> FALSE, clean |-> FALSE] : fs \in dirs}

\* The code stops at the first step that fails.
Then(outcomes, Rest(_)) ==
    UNION {IF o.ok THEN Rest(o.fs) ELSE {o} : o \in outcomes}

\* The steps run, but what they are part of has failed already.
Failing(outcomes) == {[o EXCEPT !.ok = FALSE, !.clean = FALSE] : o \in outcomes}

-----------------------------------------------------------------------------
(* Primitives.                                                             *)

Put(fs, f, bytes) == [fs EXCEPT ![f] = bytes]

\* DeleteFileW.
Delete(fs, f) ==
    LET gone == Put(fs, f, Missing)
    IN  IF Has(fs, f) THEN Done(gone) \cup Broken({fs, gone}) ELSE Refused(fs)

DeleteIfPresent(fs, f) == IF Has(fs, f) THEN Delete(fs, f) ELSE Done(fs)

\* MoveFileExW: a rename; it replaces the target only when told to.
Move(fs, from, to, replace) ==
    LET moved == [fs EXCEPT ![to] = fs[from], ![from] = Missing]
    IN  IF Has(fs, from) /\ (replace \/ ~Has(fs, to))
        THEN Done(moved) \cup Broken({fs, moved})
        ELSE Refused(fs)

\* CopyFileW: a copy that fails may leave part of the bytes.
Copy(fs, from, to, failIfExists) ==
    LET full == Put(fs, to, fs[from])
    IN  IF Has(fs, from) /\ ~(failIfExists /\ Has(fs, to))
        THEN Done(full) \cup Broken({fs, full, Put(fs, to, Torn)})
        ELSE Refused(fs)

\* ReplaceFileW keeps the replaced bytes in `kept`.  It may fail after it has
\* moved them there and before the replacement has its name.
Replace(fs, replaced, replacement, kept) ==
    LET aside == [fs EXCEPT ![kept] = fs[replaced], ![replaced] = Missing]
        full  == [aside EXCEPT ![replaced] = fs[replacement],
                               ![replacement] = Missing]
    IN  IF Has(fs, replaced) /\ Has(fs, replacement)
        THEN Done(full) \cup Broken({fs, aside, full})
        ELSE Refused(fs)

\* WriteTempFile: created empty, written, flushed, closed.
WriteTempFile(fs, f, bytes) ==
    Done(Put(fs, f, bytes))
        \cup Broken({fs, Put(fs, f, Torn), Put(fs, f, bytes)})

\* A copy just made is read back; when that read fails the copy is removed.
ReadBackOrDelete(fs, f) == Done(fs) \cup Failing(Delete(fs, f))
=============================================================================
