--------------------------- MODULE LayoutRecords ---------------------------
(***************************************************************************)
(* The in-memory layout of the tray program and the journal of what it has *)
(* changed since it last wrote the file (layout_store.hpp, "RecordDelta"). *)
(* The file may have been written by another process meanwhile: before a   *)
(* write the journal is carried over to the file's records ("rebase"), and *)
(* a change that no longer fits becomes a deferred conflict, which blocks  *)
(* the write until the file or the record changes again.                   *)
(*                                                                         *)
(* A record is abstracted to where its window belongs ("place"), when it   *)
(* was last seen and since when it is missing (0: it is not); every record *)
(* is of one browser.  A revision of the file is a number.  Everything is  *)
(* per record, so a batch of changes is one function from record ids.      *)
(***************************************************************************)
EXTENDS Integers

CONSTANTS Ids,        \* record ids
          Places,     \* desktops
          Retention,  \* clock units after which a missing record expires
          NoRec       \* "the record is not there"

ASSUME RetentionAssumption == Retention \in Nat \ {0}

Without(f, S) == [x \in DOMAIN f \ S |-> f[x]]
\* What f says, and what g says of the rest.
Over(f, g) == [x \in DOMAIN f \cup DOMAIN g |-> IF x \in DOMAIN f THEN f[x] ELSE g[x]]
RecAt(recs, r) == IF r \in DOMAIN recs THEN recs[r] ELSE NoRec
Later(a, b) == IF a >= b THEN a ELSE b
IsPartial(f, S, T) == DOMAIN f \subseteq S /\ \A x \in DOMAIN f : f[x] \in T

(* ------------------------------ records -------------------------------- *)

SeenAt(place, t) == [place |-> place, seen |-> t, missing |-> 0]

MarkMissing(rec, t) ==
  IF rec.missing # 0 THEN rec
  ELSE [rec EXCEPT !.missing = IF rec.seen > 0 THEN rec.seen ELSE t]

IsExpired(rec, t) == rec.missing > 0 /\ t - rec.missing >= Retention

RecordSemanticTimestamp(rec) == Later(rec.seen, rec.missing)

(* Equal but for when it was last seen. *)
SameSemantic(a, b) == a.place = b.place /\ a.missing = b.missing

(* The file already says what a change wants. *)
SatisfiedBy(latest, desired) ==
  /\ latest # NoRec
  /\ SameSemantic(latest, desired)
  /\ latest.seen >= desired.seen

(* ------------------------------ the journal ---------------------------- *)
(* A journal has the records in memory, the pending deltas, the touches    *)
(* (windows seen in place, which alone make nothing dirty) and the         *)
(* deferred conflicts.  "current": the causal generation of the delta or   *)
(* touch is the one the window bound to the record carries now.            *)

Kinds == {"explicit", "runtime", "missing", "expire"}
Upserts == {"explicit", "runtime"}

Delta(kind, rec, base, rev, t) ==
  [kind |-> kind, rec |-> rec, base |-> base, baseRev |-> rev,
   changed |-> t, current |-> TRUE]

EmptyJournal(recs) ==
  [records |-> recs, deltas |-> <<>>, touches |-> <<>>, conflicts |-> <<>>]

(* A record in conflict takes nothing but a newer upsert that starts from  *)
(* the record as it was adopted from the file.                             *)
MayStage(J, r, d) ==
  \/ r \notin DOMAIN J.conflicts
  \/ LET adopted == J.conflicts[r]
     IN  /\ d.kind \in Upserts
         /\ adopted.rec # NoRec
         /\ d.baseRev = adopted.rev
         /\ d.base = adopted.rec
         /\ d.changed > RecordSemanticTimestamp(adopted.rec)

(* A later change of the record keeps the base of the first. *)
ChainRecordDelta(first, later) ==
  [later EXCEPT !.base = first.base, !.baseRev = first.baseRev]

StageRecordDeltas(J, ds) ==
  LET chained(r) == IF r \in DOMAIN J.deltas /\ r \notin DOMAIN J.conflicts
                    THEN ChainRecordDelta(J.deltas[r], ds[r])
                    ELSE ds[r]
      erased == {r \in DOMAIN ds : ds[r].kind = "expire"}
  IN  [records |-> Over([r \in DOMAIN ds \ erased |-> ds[r].rec],
                        Without(J.records, erased)),
       deltas |-> Over([r \in DOMAIN ds |-> chained(r)], J.deltas),
       touches |-> J.touches,
       conflicts |-> Without(J.conflicts, DOMAIN ds)]

(* A window bound to the record was seen at t. *)
RememberTouches(J, R, t) ==
  LET newer == {r \in R : r \in DOMAIN J.touches => J.touches[r].seen < t}
  IN  [J EXCEPT !.touches = Over([r \in newer |-> [seen |-> t, current |-> TRUE]], @)]

(* The bindings of the records R carry another causal generation, or none. *)
OutdateGenerations(J, R) ==
  LET outdate(f) == [r \in DOMAIN f |->
                       IF r \in R THEN [f[r] EXCEPT !.current = FALSE] ELSE f[r]]
  IN  [records |-> J.records, deltas |-> outdate(J.deltas),
       touches |-> outdate(J.touches), conflicts |-> J.conflicts]

(* ------------------------------ the rebase ----------------------------- *)

\* Mutant: an upsert applies to whatever record the file has now.
AppliesOverLater(d, latest, rev, t) ==
  \/ d.baseRev = rev \/ latest = d.base
  \/ d.kind # "expire" /\ SatisfiedBy(latest, d.rec)
  \/ d.kind = "expire" /\ (latest = NoRec \/ IsExpired(latest, t))
  \/ d.kind \in Upserts /\ latest # NoRec /\ d.base # NoRec

(* Whether a delta may be applied to the record the file has now. *)
DeltaApplies(d, latest, rev, t) ==
  \/ d.baseRev = rev \/ latest = d.base
  \/ d.kind # "expire" /\ SatisfiedBy(latest, d.rec)
  \/ d.kind = "expire" /\ (latest = NoRec \/ IsExpired(latest, t))
  \/ /\ d.kind \in Upserts
     /\ latest # NoRec /\ d.base # NoRec
     /\ d.changed > RecordSemanticTimestamp(latest)

(* Deltas a window made are void once the file says the same, and wait     *)
(* when the window has moved on to another generation.                     *)
PrepareRecordDeltas(J, latest) ==
  LET ofWindows == {r \in DOMAIN J.deltas : J.deltas[r].kind = "runtime"}
      satisfied == {r \in ofWindows :
                      SatisfiedBy(RecAt(latest, r), J.deltas[r].rec)}
      deferred == {r \in ofWindows \ satisfied : ~J.deltas[r].current}
  IN  [satisfied |-> satisfied, deferred |-> deferred,
       ready |-> DOMAIN J.deltas \ (satisfied \cup deferred)]

(* The ready deltas laid over the file's records. *)
RebaseRecordDeltas(J, ready, latest, rev, t) ==
  LET refused == {r \in ready : ~DeltaApplies(J.deltas[r], RecAt(latest, r), rev, t)}
      deletes == {r \in ready \ refused : J.deltas[r].kind = "expire"}
      written == {r \in ready \ (refused \cup deletes) :
                    ~SatisfiedBy(RecAt(latest, r), J.deltas[r].rec)}
  IN  [refused |-> refused, deletes |-> deletes,
       records |-> Over([r \in written |-> J.deltas[r].rec], Without(latest, deletes))]

(* The touches laid over those. *)
ReapplyValidatedTouches(touches, recs) ==
  LET present == DOMAIN touches \cap DOMAIN recs
      satisfied == {r \in present : /\ recs[r].seen >= touches[r].seen
                                    /\ recs[r].missing = 0}
      applied == {r \in present \ satisfied : touches[r].current}
  IN  [satisfied |-> satisfied,
       deferred |-> DOMAIN touches \ (satisfied \cup applied),
       records |-> Over([r \in applied |->
                           SeenAt(recs[r].place, Later(recs[r].seen, touches[r].seen))],
                         recs)]

\* Mutant: the deltas that were applied are dropped before they are written.
ResidualWithoutApplied(J, satisfied, aligned, latest, rev) ==
  [r \in DOMAIN J.deltas \ (satisfied \cup aligned) |-> J.deltas[r]]

(* What stays in the journal: the deltas that were applied start from the  *)
(* file's record from here on, the refused ones stay as they were.         *)
ResidualDeltas(J, satisfied, aligned, latest, rev) ==
  [r \in DOMAIN J.deltas \ satisfied |->
     IF r \in aligned
     THEN [J.deltas[r] EXCEPT !.base = RecAt(latest, r), !.baseRev = rev]
     ELSE J.deltas[r]]

(* The journal after the file was found at another revision. *)
RebasedJournal(J, latest, rev, t) ==
  LET prepared == PrepareRecordDeltas(J, latest)
      rebased == RebaseRecordDeltas(J, prepared.ready, latest, rev, t)
      touched == ReapplyValidatedTouches(
                   Without(J.touches, rebased.deletes), rebased.records)
      open == prepared.deferred \cup rebased.refused \cup touched.deferred
  IN  [records |-> touched.records,
       deltas |-> ResidualDeltas(J, prepared.satisfied,
                    prepared.ready \ rebased.refused, latest, rev),
       touches |-> Without(J.touches, rebased.deletes \cup touched.satisfied),
       conflicts |-> [r \in open |->
                        [rev |-> rev, rec |-> RecAt(touched.records, r)]]]

(* The file is still the one the conflicts were found against. *)
ConflictsBlockPublish(J, rev) ==
  \E r \in DOMAIN J.conflicts : J.conflicts[r].rev = rev
=============================================================================
