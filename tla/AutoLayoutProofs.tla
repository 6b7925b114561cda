---------------------------- MODULE AutoLayoutProofs ----------------------------
(***************************************************************************)
(* Theorems about AutoLayout for any windows, records, desktops and number *)
(* of events.  The argument is about one record at a time: a handler       *)
(* either refreshes a record of the memory or takes a change to it, a      *)
(* rebase lays what is pending over the file's record, a write makes the   *)
(* file what the memory is.  Each keeps what the journal says of the       *)
(* memory, of the file and of a write whose result is unknown.             *)
(***************************************************************************)
EXTENDS AutoLayout, FiniteSetTheorems, WellFoundedInduction, TLAPS

-----------------------------------------------------------------------------
(* The inductive invariant, at the time t.                                 *)

(* A missing record is missing since it was last seen. *)
Dated(t) == {x \in [place : Places, seen : 1..t, missing : 0..t] :
               x.missing \in {0, x.seen}}

(* Not seen for as long as a missing record is kept. *)
Old(x, t) == t - x.seen >= Retention

DeltasAt(t) == [kind : Kinds, rec : Dated(t), base : Dated(t) \cup {NoRec},
                baseRev : Revisions, changed : 1..t, current : BOOLEAN]
TouchesAt(t) == [seen : 1..t, current : BOOLEAN]
ConflictsAt(t) == [rev : Revisions, rec : Dated(t) \cup {NoRec}]

Partials(T) == UNION {[D -> T] : D \in SUBSET Ids}

Journals(t) == [records : Partials(Dated(t)), deltas : Partials(DeltasAt(t)),
                touches : Partials(TouchesAt(t)), conflicts : Partials(ConflictsAt(t))]

ConflictsAreOpen(J) == DOMAIN J.conflicts \subseteq DOMAIN J.deltas \cup DOMAIN J.touches

\* recs say what the memory says, but for what is in the journal.
Explains(J, recs) ==
  \A r \in Ids \ (DOMAIN J.deltas \cup DOMAIN J.touches) :
    /\ r \in DOMAIN J.records <=> r \in DOMAIN recs
    /\ r \in DOMAIN recs => SameSemantic(J.records[r], recs[r])

\* The memory has what recs say, or knows better.
Supersedes(J, recs, t) ==
  \A r \in DOMAIN recs :
    IF r \in DOMAIN J.records THEN J.records[r].seen >= recs[r].seen
                              ELSE Old(recs[r], t)

DeltaFits(d, t) ==
  IF d.kind = "expire" THEN Old(d.rec, t) /\ (d.base # NoRec => Old(d.base, t))
  ELSE /\ d.base # NoRec => d.base.seen <= d.rec.seen \/ SatisfiedBy(d.base, d.rec)
       /\ d.kind \in Upserts => d.rec.seen = d.changed

MemoryHas(J, r) ==
  IF J.deltas[r].kind = "expire" THEN r \notin DOMAIN J.records
  ELSE /\ r \in DOMAIN J.records /\ J.records[r].seen >= J.deltas[r].rec.seen
       /\ J.deltas[r].base # NoRec => J.records[r].seen >= J.deltas[r].base.seen

Chained(J, t) ==
  \A r \in DOMAIN J.deltas :
    DeltaFits(J.deltas[r], t) /\ (r \notin DOMAIN J.conflicts => MemoryHas(J, r))

\* What another process deleted would not be written again.
Buried(J, rev, f, dd) ==
  /\ rev = f.rev => dd \cap DOMAIN J.records = {}
  /\ \A r \in dd \cap DOMAIN J.deltas :
       J.deltas[r].kind # "expire" =>
         J.deltas[r].base # NoRec /\ J.deltas[r].baseRev # f.rev

Current(J, rev, f, t) ==
  IF rev = f.rev THEN Explains(J, f.recs) /\ Supersedes(J, f.recs, t)
                 ELSE \A r \in DOMAIN J.deltas : J.deltas[r].baseRev # f.rev

\* Should the unsettled write turn out to be the file, the memory is its own.
Candidate(J, arm, dd, t) ==
  arm.set => /\ Explains(J, arm.recs) /\ Supersedes(J, arm.recs, t)
             /\ DOMAIN J.conflicts = {}
             /\ dd \cap DOMAIN J.records \subseteq DOMAIN arm.recs

Core(J, rev, arm, f, dd, t) ==
  /\ J \in Journals(t) /\ ConflictsAreOpen(J)
  /\ Chained(J, t) /\ Buried(J, rev, f, dd)
  /\ Current(J, rev, f, t) /\ Candidate(J, arm, dd, t)

FilesAt(t) == [rev : Revisions \ {0}, recs : Partials(Dated(t)), by : {"vde", "other"}]
ArmedAt(t) == [set : BOOLEAN, recs : Partials(Dated(t))]

Typing ==
  /\ clock \in 1..MaxClock
  /\ file \in FilesAt(clock) /\ armed \in ArmedAt(clock) /\ revision \in Revisions
  /\ where \in [Wins -> Places \cup {Closed}] /\ bound \in [Wins -> Ids \cup {NoId}]
  /\ dead \subseteq Ids /\ flush \in [dirty : BOOLEAN, due : BOOLEAN] /\ timer \in BOOLEAN
  /\ life \in [present : BOOLEAN, pending : BOOLEAN, saved : [Wins -> Places \cup {Closed}]]
  /\ phase \in {"up", "off", "exited", "ended"}
  /\ started \in {StartedBefore(stop) : stop \in Stages \cup {"none"}}
  /\ phase # "up" => started = {}

\* Until the start is complete, only expired records are pending.
OnlyExpired(J, recs) ==
  /\ DOMAIN J.conflicts = {} /\ DOMAIN J.touches = {}
  /\ \A r \in DOMAIN J.deltas :
       /\ J.deltas[r].kind = "expire"
       /\ r \in DOMAIN recs => recs[r].seen >= J.deltas[r].rec.seen

Starting ==
  /\ "layout" \notin started => journal = EmptyJournal(<<>>) /\ ~armed.set /\ revision = 0
  /\ started # Stages => OnlyExpired(journal, file.recs) /\ ~armed.set

\* The file is the memory's, the unsettled write's, or another process's.
KnowsItsFile(rev, arm, f) ==
  f.by = "vde" => rev = f.rev \/ (arm.set /\ arm.recs = f.recs)

IInv ==
  /\ Typing /\ Starting
  /\ Core(journal, revision, armed, file, dead, clock)
  /\ "layout" \in started => KnowsItsFile(revision, armed, file)
  /\ DOMAIN journal.deltas # {} => flush.dirty
  /\ dead \cap DOMAIN file.recs = {}

-----------------------------------------------------------------------------
(* Partial functions.                                                      *)

LEMMA IsPartialOf ==
  ASSUME NEW T, NEW f \in Partials(T)
  PROVE  /\ f = [r \in DOMAIN f |-> f[r]] /\ DOMAIN f \subseteq Ids
         /\ \A r \in DOMAIN f : f[r] \in T
BY DEF Partials

LEMMA PartialFrom ==
  ASSUME NEW T, NEW D \in SUBSET Ids, NEW f \in [D -> T]
  PROVE  f \in Partials(T)
BY DEF Partials

LEMMA PartialEqual ==
  ASSUME NEW T, NEW f \in Partials(T), NEW g \in Partials(T),
         DOMAIN f = DOMAIN g, \A r \in DOMAIN f : f[r] = g[r]
  PROVE  f = g
BY IsPartialOf

LEMMA NothingIsPartial ==
  ASSUME NEW T
  PROVE  <<>> \in Partials(T) /\ DOMAIN <<>> = {}
BY DEF Partials

LEMMA EmptyIsNothing ==
  ASSUME NEW T, NEW f \in Partials(T), DOMAIN f = {}
  PROVE  f = <<>>
<1>1. f = [r \in {} |-> f[r]]
  BY IsPartialOf
<1>2. <<>> = [r \in {} |-> f[r]]
  OBVIOUS
<1>3. QED BY <1>1, <1>2

LEMMA WithoutParts ==
  ASSUME NEW f, NEW S
  PROVE  /\ DOMAIN Without(f, S) = DOMAIN f \ S
         /\ \A r \in DOMAIN f \ S : Without(f, S)[r] = f[r]
BY DEF Without

LEMMA WithoutSome ==
  ASSUME NEW T, NEW f \in Partials(T), NEW S
  PROVE  Without(f, S) \in Partials(T)
<1>1. DOMAIN f \ S \subseteq Ids /\ \A r \in DOMAIN f : f[r] \in T
  BY IsPartialOf
<1>2. Without(f, S) \in [DOMAIN f \ S -> T]
  BY <1>1 DEF Without
<1>3. QED BY <1>1, <1>2, PartialFrom

LEMMA OverParts ==
  ASSUME NEW f, NEW g
  PROVE  /\ DOMAIN Over(f, g) = DOMAIN f \cup DOMAIN g
         /\ \A r \in DOMAIN f : Over(f, g)[r] = f[r]
         /\ \A r \in DOMAIN g \ DOMAIN f : Over(f, g)[r] = g[r]
BY DEF Over

LEMMA Overlaid ==
  ASSUME NEW T, NEW f \in Partials(T), NEW g \in Partials(T)
  PROVE  Over(f, g) \in Partials(T)
<1>1. /\ DOMAIN f \cup DOMAIN g \subseteq Ids
      /\ \A r \in DOMAIN f : f[r] \in T
      /\ \A r \in DOMAIN g : g[r] \in T
  BY IsPartialOf
<1>2. Over(f, g) \in [DOMAIN f \cup DOMAIN g -> T]
  BY <1>1 DEF Over
<1>3. QED BY <1>1, <1>2, PartialFrom

LEMMA LargerPartial ==
  ASSUME NEW T, NEW U, T \subseteq U, NEW f \in Partials(T)
  PROVE  f \in Partials(U)
BY DEF Partials

-----------------------------------------------------------------------------
(* Records.                                                                *)

LEMMA DatedFacts ==
  ASSUME NEW t \in Nat \ {0}, NEW x \in Dated(t)
  PROVE  /\ x.place \in Places /\ x.seen \in 1..t /\ x.missing \in {0, x.seen}
         /\ x # NoRec /\ RecordSemanticTimestamp(x) = x.seen
         /\ x = [place |-> x.place, seen |-> x.seen, missing |-> x.missing]
<1>1. x \in [place : Places, seen : 1..t, missing : 0..t]
  BY DEF Dated
<1>2. x \in [place : Places, seen : Nat, missing : Nat]
  BY <1>1
<1>3. QED BY <1>1, <1>2, AutoLayoutAssumption DEF Dated, RecordSemanticTimestamp, Later

LEMMA SeenAtDated ==
  ASSUME NEW t \in Nat \ {0}, NEW place \in Places
  PROVE  /\ SeenAt(place, t) \in Dated(t)
         /\ SeenAt(place, t).seen = t /\ SeenAt(place, t).missing = 0
         /\ SeenAt(place, t).place = place
BY DEF Dated, SeenAt

LEMMA MarkMissingDated ==
  ASSUME NEW t \in Nat \ {0}, NEW x \in Dated(t)
  PROVE  /\ MarkMissing(x, t) \in Dated(t)
         /\ MarkMissing(x, t).seen = x.seen /\ MarkMissing(x, t).missing = x.seen
         /\ MarkMissing(x, t).place = x.place
         /\ IsExpired(MarkMissing(x, t), t) <=> Old(x, t)
         /\ x.missing # 0 => MarkMissing(x, t) = x
<1>1. /\ x.place \in Places /\ x.seen \in 1..t /\ x.missing \in {0, x.seen}
      /\ x = [place |-> x.place, seen |-> x.seen, missing |-> x.missing]
  BY DatedFacts
<1>2. MarkMissing(x, t) = [place |-> x.place, seen |-> x.seen, missing |-> x.seen]
  BY <1>1 DEF MarkMissing
<1>3. QED BY <1>1, <1>2, RetentionAssumption DEF Dated, IsExpired, Old, MarkMissing

LEMMA ExpiredIsOld ==
  ASSUME NEW t \in Nat \ {0}, NEW x \in Dated(t), IsExpired(x, t)
  PROVE  Old(x, t)
BY DatedFacts, RetentionAssumption DEF IsExpired, Old

LEMMA OldAndOlder ==
  ASSUME NEW t \in Nat \ {0}, NEW x \in Dated(t), NEW y \in Dated(t),
         Old(x, t), y.seen <= x.seen
  PROVE  Old(y, t)
BY DatedFacts, RetentionAssumption DEF Old

LEMMA RecAtFacts ==
  ASSUME NEW t \in Nat \ {0}, NEW recs \in Partials(Dated(t)), NEW r
  PROVE  /\ RecAt(recs, r) \in Dated(t) \cup {NoRec}
         /\ RecAt(recs, r) = NoRec <=> r \notin DOMAIN recs
         /\ r \in DOMAIN recs => RecAt(recs, r) = recs[r]
BY IsPartialOf, DatedFacts DEF RecAt

-----------------------------------------------------------------------------
(* What a handler may do to a record: refresh it, or take a change to it.  *)

SameDelta(a, b) ==
  /\ a.kind = b.kind /\ a.rec = b.rec /\ a.base = b.base
  /\ a.baseRev = b.baseRev /\ a.changed = b.changed

Refreshed(J, K, r) ==
  /\ r \in DOMAIN K.records <=> r \in DOMAIN J.records
  /\ r \in DOMAIN J.records => /\ SameSemantic(K.records[r], J.records[r])
                               /\ K.records[r].seen >= J.records[r].seen
  /\ r \in DOMAIN K.deltas <=> r \in DOMAIN J.deltas
  /\ r \in DOMAIN J.deltas => SameDelta(K.deltas[r], J.deltas[r])
  /\ r \in DOMAIN K.conflicts <=> r \in DOMAIN J.conflicts
  /\ r \in DOMAIN J.touches => r \in DOMAIN K.touches

(* A new change of r starts from the memory and does not go back. *)
ChangeFits(J, r, d, rev, dd, t) ==
  /\ d \in DeltasAt(t) /\ d.baseRev = rev /\ d.base = RecAt(J.records, r)
  /\ r \in DOMAIN J.conflicts => d.kind \in Upserts
  /\ r \in DOMAIN J.records \/ r \notin dd
  /\ d.kind = "expire" => r \in DOMAIN J.records /\ d.rec = J.records[r] /\ Old(d.rec, t)
  /\ d.kind = "missing" => r \in DOMAIN J.records /\ d.rec.seen = J.records[r].seen
  /\ d.kind \in Upserts => d.rec.seen = t /\ d.changed = t

Joined(J, r, d) ==
  IF r \in DOMAIN J.deltas /\ r \notin DOMAIN J.conflicts
  THEN ChainRecordDelta(J.deltas[r], d) ELSE d

Takes(J, K, r, d) ==
  /\ r \in DOMAIN K.deltas /\ SameDelta(K.deltas[r], Joined(J, r, d))
  /\ r \notin DOMAIN K.conflicts
  /\ IF d.kind = "expire" THEN r \notin DOMAIN K.records
     ELSE r \in DOMAIN K.records /\ K.records[r] = d.rec

Changes(J, K, rev, dd, t) ==
  /\ K \in Journals(t)
  /\ \A r \in Ids : \/ Refreshed(J, K, r)
                    \/ \E d \in DeltasAt(t) : ChangeFits(J, r, d, rev, dd, t) /\ Takes(J, K, r, d)

(* No change is lost or goes back, no conflict is new. *)
Grows(J, K) ==
  /\ \A r \in DOMAIN J.deltas : r \in DOMAIN K.deltas /\ K.deltas[r].rec.seen >= J.deltas[r].rec.seen
  /\ DOMAIN K.conflicts \subseteq DOMAIN J.conflicts

LEMMA JournalParts ==
  ASSUME NEW t, NEW J \in Journals(t)
  PROVE  /\ J.records \in Partials(Dated(t)) /\ J.deltas \in Partials(DeltasAt(t))
         /\ J.touches \in Partials(TouchesAt(t)) /\ J.conflicts \in Partials(ConflictsAt(t))
         /\ DOMAIN J.records \subseteq Ids /\ DOMAIN J.deltas \subseteq Ids
         /\ DOMAIN J.touches \subseteq Ids /\ DOMAIN J.conflicts \subseteq Ids
         /\ \A r \in DOMAIN J.records : J.records[r] \in Dated(t)
         /\ \A r \in DOMAIN J.deltas : J.deltas[r] \in DeltasAt(t)
         /\ \A r \in DOMAIN J.touches : J.touches[r] \in TouchesAt(t)
         /\ \A r \in DOMAIN J.conflicts : J.conflicts[r] \in ConflictsAt(t)
<1>1. /\ J.records \in Partials(Dated(t)) /\ J.deltas \in Partials(DeltasAt(t))
      /\ J.touches \in Partials(TouchesAt(t)) /\ J.conflicts \in Partials(ConflictsAt(t))
  BY DEF Journals
<1>2. QED BY <1>1, IsPartialOf

LEMMA DeltaParts ==
  ASSUME NEW t \in Nat \ {0}, NEW d \in DeltasAt(t)
  PROVE  /\ d.kind \in Kinds /\ d.rec \in Dated(t) /\ d.base \in Dated(t) \cup {NoRec}
         /\ d.baseRev \in Revisions /\ d.changed \in 1..t /\ d.current \in BOOLEAN
         /\ d.rec.seen \in 1..t
         /\ d.base # NoRec => d.base.seen \in 1..t
BY DatedFacts DEF DeltasAt

\* One step of a record keeps its change in line with the memory.
LEMMA TakenIsChained ==
  ASSUME NEW t \in Nat \ {0}, NEW J \in Journals(t), NEW K \in Journals(t), Chained(J, t),
         NEW r \in Ids, NEW rev, NEW dd, NEW d \in DeltasAt(t),
         ChangeFits(J, r, d, rev, dd, t), Takes(J, K, r, d)
  PROVE  /\ DeltaFits(K.deltas[r], t) /\ MemoryHas(K, r)
         /\ r \in DOMAIN J.deltas => K.deltas[r].rec.seen >= J.deltas[r].rec.seen
         /\ r \in DOMAIN J.records =>
              IF r \in DOMAIN K.records THEN K.records[r].seen >= J.records[r].seen
                                        ELSE Old(J.records[r], t)
         /\ r \notin DOMAIN J.records => r \in DOMAIN K.records /\ K.records[r].seen = t
<1> DEFINE e == K.deltas[r]
<1>1. /\ e.kind = d.kind /\ e.rec = d.rec /\ e.changed = d.changed
      /\ IF r \in DOMAIN J.deltas /\ r \notin DOMAIN J.conflicts
         THEN e.base = J.deltas[r].base ELSE e.base = d.base
  BY DEF Takes, SameDelta, Joined, ChainRecordDelta, DeltasAt
<1>2. /\ d.kind \in Kinds /\ d.rec \in Dated(t) /\ d.rec.seen \in 1..t
      /\ d.base = RecAt(J.records, r) /\ d.base \in Dated(t) \cup {NoRec}
  BY DeltaParts DEF ChangeFits
<1>3. /\ d.base = NoRec <=> r \notin DOMAIN J.records
      /\ r \in DOMAIN J.records => d.base = J.records[r] /\ J.records[r] \in Dated(t)
                                   /\ J.records[r].seen \in 1..t
  BY <1>2, JournalParts, RecAtFacts, DatedFacts
<1>4. ASSUME r \in DOMAIN J.deltas
      PROVE  /\ J.deltas[r].rec \in Dated(t) /\ J.deltas[r].rec.seen \in 1..t
             /\ J.deltas[r].base \in Dated(t) \cup {NoRec}
             /\ J.deltas[r].base # NoRec => J.deltas[r].base.seen \in 1..t
             /\ DeltaFits(J.deltas[r], t)
             /\ r \notin DOMAIN J.conflicts => MemoryHas(J, r)
  <2>1. J.deltas[r] \in DeltasAt(t)
    BY <1>4, JournalParts
  <2>2. QED BY <1>4, <2>1, DeltaParts DEF Chained
<1>5. CASE d.kind = "expire"
  <2>1. /\ r \in DOMAIN J.records /\ d.rec = J.records[r] /\ Old(d.rec, t)
        /\ r \notin DOMAIN J.conflicts
    BY <1>5 DEF ChangeFits, Upserts
  <2>2. ASSUME r \in DOMAIN J.deltas
        PROVE  /\ J.records[r].seen >= J.deltas[r].rec.seen
               /\ J.deltas[r].base # NoRec => J.records[r].seen >= J.deltas[r].base.seen
    BY <2>1, <2>2, <1>4 DEF MemoryHas
  <2>3. ASSUME r \in DOMAIN J.deltas, J.deltas[r].base # NoRec PROVE Old(J.deltas[r].base, t)
    BY <2>1, <2>2, <2>3, <1>3, <1>4, OldAndOlder
  <2>4. DeltaFits(e, t)
    BY <1>1, <1>3, <1>5, <2>1, <2>3 DEF DeltaFits
  <2>5. MemoryHas(K, r) /\ r \notin DOMAIN K.records
    BY <1>1, <1>5 DEF MemoryHas, Takes
  <2>6. QED BY <1>1, <2>1, <2>2, <2>4, <2>5
<1>6. CASE d.kind # "expire"
  <2>1. r \in DOMAIN K.records /\ K.records[r] = d.rec
    BY <1>6 DEF Takes
  <2>2. /\ r \in DOMAIN J.records => d.rec.seen >= J.records[r].seen
        /\ d.kind \in Upserts \/ r \in DOMAIN J.records
        /\ d.kind \in Upserts => d.rec.seen = t /\ d.changed = t
        /\ r \in DOMAIN J.conflicts => d.kind \in Upserts
    BY <1>2, <1>3, <1>6 DEF ChangeFits, Kinds, Upserts
  <2>3. ASSUME r \in DOMAIN J.deltas
        PROVE  /\ d.rec.seen >= J.deltas[r].rec.seen
               /\ J.deltas[r].base # NoRec => d.rec.seen >= J.deltas[r].base.seen
    <3>1. CASE d.kind \in Upserts
      BY <1>4, <2>2, <2>3, <3>1
    <3>2. CASE d.kind \notin Upserts
      <4>1. r \in DOMAIN J.records /\ MemoryHas(J, r)
        BY <1>4, <2>2, <2>3, <3>2
      <4>2. QED BY <1>2, <1>3, <1>4, <2>2, <2>3, <4>1 DEF MemoryHas
    <3>3. QED BY <3>1, <3>2
  <2>4. e.base # NoRec => e.base.seen <= e.rec.seen
    BY <1>1, <1>2, <1>3, <1>4, <2>2, <2>3
  <2>5. DeltaFits(e, t)
    BY <1>1, <1>6, <2>2, <2>4 DEF DeltaFits
  <2>6. MemoryHas(K, r)
    BY <1>1, <1>2, <1>3, <1>4, <1>6, <2>1, <2>2, <2>3, <2>4 DEF MemoryHas
  <2>7. QED BY <1>1, <1>2, <2>1, <2>2, <2>3, <2>5, <2>6, <1>3
<1>7. QED BY <1>5, <1>6

\* Refreshing a record keeps its change in line with the memory.
LEMMA RefreshedIsChained ==
  ASSUME NEW t \in Nat \ {0}, NEW J \in Journals(t), NEW K \in Journals(t), Chained(J, t),
         NEW r \in Ids, Refreshed(J, K, r)
  PROVE  /\ r \in DOMAIN K.deltas => /\ DeltaFits(K.deltas[r], t)
                                     /\ r \notin DOMAIN K.conflicts => MemoryHas(K, r)
         /\ r \in DOMAIN J.deltas => K.deltas[r].rec.seen >= J.deltas[r].rec.seen
<1> SUFFICES ASSUME r \in DOMAIN J.deltas
             PROVE  /\ DeltaFits(K.deltas[r], t)
                    /\ r \notin DOMAIN K.conflicts => MemoryHas(K, r)
                    /\ K.deltas[r].rec.seen >= J.deltas[r].rec.seen
  BY DEF Refreshed
<1>1. /\ SameDelta(K.deltas[r], J.deltas[r]) /\ J.deltas[r] \in DeltasAt(t)
      /\ DeltaFits(J.deltas[r], t) /\ (r \notin DOMAIN J.conflicts => MemoryHas(J, r))
  BY JournalParts DEF Refreshed, Chained
<1>2. /\ J.deltas[r].rec.seen \in 1..t
      /\ J.deltas[r].base # NoRec => J.deltas[r].base.seen \in 1..t
  BY <1>1, DeltaParts
<1>3. DeltaFits(K.deltas[r], t) /\ K.deltas[r].rec.seen >= J.deltas[r].rec.seen
  BY <1>1, <1>2 DEF DeltaFits, SameDelta
<1>4. ASSUME r \notin DOMAIN K.conflicts PROVE MemoryHas(K, r)
  <2>1. MemoryHas(J, r)
    BY <1>1, <1>4 DEF Refreshed
  <2>2. r \in DOMAIN J.records => /\ J.records[r].seen \in 1..t /\ K.records[r].seen \in 1..t
                                  /\ K.records[r].seen >= J.records[r].seen
    BY JournalParts, DatedFacts DEF Refreshed
  <2>3. QED BY <1>1, <1>2, <2>1, <2>2 DEF MemoryHas, SameDelta, Refreshed
<1>5. QED BY <1>3, <1>4

LEMMA ChangesChain ==
  ASSUME NEW t \in Nat \ {0}, NEW J \in Journals(t), NEW K, NEW rev, NEW dd,
         Chained(J, t), Changes(J, K, rev, dd, t)
  PROVE  Chained(K, t) /\ Grows(J, K)
<1>1. K \in Journals(t)
  BY DEF Changes
<1>2. ASSUME NEW r \in Ids
      PROVE  /\ r \in DOMAIN K.deltas => /\ DeltaFits(K.deltas[r], t)
                                         /\ r \notin DOMAIN K.conflicts => MemoryHas(K, r)
             /\ r \in DOMAIN J.deltas => /\ r \in DOMAIN K.deltas
                                         /\ K.deltas[r].rec.seen >= J.deltas[r].rec.seen
             /\ r \in DOMAIN K.conflicts => r \in DOMAIN J.conflicts
  <2>1. CASE Refreshed(J, K, r)
    BY <1>1, <2>1, RefreshedIsChained DEF Refreshed
  <2>2. CASE ~ Refreshed(J, K, r)
    <3>1. PICK d \in DeltasAt(t) : ChangeFits(J, r, d, rev, dd, t) /\ Takes(J, K, r, d)
      BY <2>2 DEF Changes
    <3>2. QED BY <1>1, <3>1, TakenIsChained DEF Takes
  <2>3. QED BY <2>1, <2>2
<1>3. DOMAIN K.deltas \subseteq Ids /\ DOMAIN J.deltas \subseteq Ids /\ DOMAIN K.conflicts \subseteq Ids
  BY <1>1, JournalParts
<1>4. QED BY <1>2, <1>3 DEF Chained, Grows

LEMMA ChangesSupersede ==
  ASSUME NEW t \in Nat \ {0}, NEW J \in Journals(t), NEW K, NEW rev, NEW dd,
         NEW recs \in Partials(Dated(t)),
         Chained(J, t), Changes(J, K, rev, dd, t), Explains(J, recs), Supersedes(J, recs, t)
  PROVE  Explains(K, recs) /\ Supersedes(K, recs, t)
<1>1. K \in Journals(t)
  BY DEF Changes
<1>2. ASSUME NEW r \in Ids \ (DOMAIN K.deltas \cup DOMAIN K.touches)
      PROVE  /\ r \in DOMAIN K.records <=> r \in DOMAIN recs
             /\ r \in DOMAIN recs => SameSemantic(K.records[r], recs[r])
  <2>1. Refreshed(J, K, r)
    BY <1>2 DEF Changes, Takes
  <2>2. r \notin DOMAIN J.deltas \cup DOMAIN J.touches
    BY <1>2, <2>1 DEF Refreshed
  <2>3. QED BY <2>1, <2>2 DEF Refreshed, Explains, SameSemantic
<1>3. ASSUME NEW r \in DOMAIN recs
      PROVE  IF r \in DOMAIN K.records THEN K.records[r].seen >= recs[r].seen ELSE Old(recs[r], t)
  <2>1. r \in Ids /\ recs[r] \in Dated(t) /\ recs[r].seen \in 1..t
    BY <1>3, IsPartialOf, DatedFacts
  <2>2. /\ r \in DOMAIN J.records => J.records[r] \in Dated(t) /\ J.records[r].seen \in 1..t
        /\ r \in DOMAIN K.records => K.records[r].seen \in 1..t
    BY <1>1, JournalParts, DatedFacts
  <2>3. IF r \in DOMAIN J.records THEN J.records[r].seen >= recs[r].seen ELSE Old(recs[r], t)
    BY <1>3 DEF Supersedes
  <2>4. CASE Refreshed(J, K, r)
    BY <2>1, <2>2, <2>3, <2>4 DEF Refreshed
  <2>5. CASE ~ Refreshed(J, K, r)
    <3>1. PICK d \in DeltasAt(t) : ChangeFits(J, r, d, rev, dd, t) /\ Takes(J, K, r, d)
      BY <2>1, <2>5 DEF Changes
    <3>2. /\ r \in DOMAIN J.records =>
                IF r \in DOMAIN K.records THEN K.records[r].seen >= J.records[r].seen
                                          ELSE Old(J.records[r], t)
          /\ r \notin DOMAIN J.records => r \in DOMAIN K.records /\ K.records[r].seen = t
      BY <1>1, <2>1, <3>1, TakenIsChained
    <3>3. CASE r \in DOMAIN J.records /\ r \notin DOMAIN K.records
      BY <2>1, <2>2, <2>3, <3>2, <3>3, OldAndOlder
    <3>4. QED BY <2>1, <2>2, <2>3, <3>2, <3>3
  <2>6. QED BY <2>4, <2>5
<1>4. QED BY <1>2, <1>3 DEF Explains, Supersedes

LEMMA ChangesBury ==
  ASSUME NEW t \in Nat \ {0}, NEW J \in Journals(t), NEW K, NEW rev, NEW dd, NEW f,
         Chained(J, t), Buried(J, rev, f, dd), Changes(J, K, rev, dd, t)
  PROVE  Buried(K, rev, f, dd) /\ dd \cap DOMAIN K.records \subseteq dd \cap DOMAIN J.records
<1>1. K \in Journals(t) /\ DOMAIN K.records \subseteq Ids /\ DOMAIN K.deltas \subseteq Ids
  BY JournalParts DEF Changes
<1>2. ASSUME NEW r \in dd \cap Ids
      PROVE  /\ r \in DOMAIN K.records => r \in DOMAIN J.records
             /\ r \in DOMAIN K.deltas /\ K.deltas[r].kind # "expire" =>
                  K.deltas[r].base # NoRec /\ K.deltas[r].baseRev # f.rev
  <2>1. CASE Refreshed(J, K, r)
    <3>1. r \in DOMAIN J.records <=> r \in DOMAIN K.records
      BY <2>1 DEF Refreshed
    <3>2. ASSUME r \in DOMAIN K.deltas, K.deltas[r].kind # "expire"
          PROVE  K.deltas[r].base # NoRec /\ K.deltas[r].baseRev # f.rev
      <4>1. r \in DOMAIN J.deltas /\ SameDelta(K.deltas[r], J.deltas[r])
        BY <2>1, <3>2 DEF Refreshed
      <4>2. QED BY <1>2, <3>2, <4>1 DEF SameDelta, Buried
    <3>3. QED BY <3>1, <3>2
  <2>2. CASE ~ Refreshed(J, K, r)
    <3>1. PICK d \in DeltasAt(t) : ChangeFits(J, r, d, rev, dd, t) /\ Takes(J, K, r, d)
      BY <2>2 DEF Changes
    <3>2. /\ r \in DOMAIN J.records /\ J.records[r] \in Dated(t) /\ rev # f.rev
          /\ d.base = J.records[r] /\ d.base # NoRec /\ d.baseRev = rev
      BY <1>2, <3>1, JournalParts, RecAtFacts, DatedFacts DEF ChangeFits, Buried
    <3>3. ASSUME K.deltas[r].kind # "expire"
          PROVE  K.deltas[r].base # NoRec /\ K.deltas[r].baseRev # f.rev
      <4>1. CASE r \in DOMAIN J.deltas /\ r \notin DOMAIN J.conflicts
        <5>1. MemoryHas(J, r)
          BY <4>1 DEF Chained
        <5>2. J.deltas[r].kind # "expire"
          BY <5>1, <3>2 DEF MemoryHas
        <5>3. K.deltas[r].base = J.deltas[r].base /\ K.deltas[r].baseRev = J.deltas[r].baseRev
          BY <3>1, <4>1 DEF Takes, Joined, SameDelta, ChainRecordDelta, DeltasAt
        <5>4. QED BY <1>2, <4>1, <5>2, <5>3 DEF Buried
      <4>2. CASE ~ (r \in DOMAIN J.deltas /\ r \notin DOMAIN J.conflicts)
        BY <3>1, <3>2, <4>2 DEF Takes, Joined, SameDelta
      <4>3. QED BY <4>1, <4>2
    <3>4. QED BY <3>2, <3>3
  <2>3. QED BY <2>1, <2>2
<1>3. QED BY <1>1, <1>2 DEF Buried

(* Whatever a handler does to the records in memory, the journal stays     *)
(* sound and nothing pending is lost.                                      *)
LEMMA ChangesKeepCore ==
  ASSUME NEW t \in Nat \ {0}, NEW J, NEW K, NEW rev, NEW arm \in ArmedAt(t),
         NEW f \in FilesAt(t), NEW dd,
         Core(J, rev, arm, f, dd, t), Changes(J, K, rev, dd, t)
  PROVE  Core(K, rev, arm, f, dd, t) /\ Grows(J, K)
<1>1. /\ J \in Journals(t) /\ K \in Journals(t) /\ Chained(J, t)
      /\ f.recs \in Partials(Dated(t)) /\ arm.recs \in Partials(Dated(t))
  BY DEF Core, Changes, FilesAt, ArmedAt
<1>2. Chained(K, t) /\ Grows(J, K)
  BY <1>1, ChangesChain
<1>3. Buried(K, rev, f, dd) /\ dd \cap DOMAIN K.records \subseteq dd \cap DOMAIN J.records
  BY <1>1, ChangesBury DEF Core
<1>4. Candidate(K, arm, dd, t)
  <2> SUFFICES ASSUME arm.set
               PROVE  /\ Explains(K, arm.recs) /\ Supersedes(K, arm.recs, t)
                      /\ DOMAIN K.conflicts = {} /\ dd \cap DOMAIN K.records \subseteq DOMAIN arm.recs
    BY DEF Candidate
  <2>1. /\ Explains(J, arm.recs) /\ Supersedes(J, arm.recs, t)
        /\ DOMAIN J.conflicts = {} /\ dd \cap DOMAIN J.records \subseteq DOMAIN arm.recs
    BY DEF Core, Candidate
  <2>2. QED BY <1>1, <1>2, <1>3, <2>1, ChangesSupersede DEF Grows
<1>5. ASSUME NEW r \in Ids
      PROVE  /\ r \in DOMAIN K.conflicts => r \in DOMAIN K.deltas \cup DOMAIN K.touches
             /\ rev # f.rev /\ r \in DOMAIN K.deltas => K.deltas[r].baseRev # f.rev
  <2>1. CASE Refreshed(J, K, r)
    BY <2>1 DEF Refreshed, Core, Current, ConflictsAreOpen, SameDelta
  <2>2. CASE ~ Refreshed(J, K, r)
    <3>1. PICK d \in DeltasAt(t) : ChangeFits(J, r, d, rev, dd, t) /\ Takes(J, K, r, d)
      BY <2>2 DEF Changes
    <3>2. K.deltas[r].baseRev \in {rev} \cup {J.deltas[x].baseRev : x \in DOMAIN J.deltas}
      BY <3>1 DEF Takes, ChangeFits, Joined, SameDelta, ChainRecordDelta, DeltasAt
    <3>3. QED BY <3>1, <3>2 DEF Takes, Core, Current
  <2>3. QED BY <2>1, <2>2
<1>6. ConflictsAreOpen(K)
  BY <1>1, <1>5, JournalParts DEF ConflictsAreOpen
<1>7. Current(K, rev, f, t)
  <2>1. CASE rev = f.rev
    BY <1>1, <2>1, ChangesSupersede DEF Core, Current
  <2>2. CASE rev # f.rev
    BY <1>1, <1>5, <2>2, JournalParts DEF Current
  <2>3. QED BY <2>1, <2>2
<1>8. QED BY <1>1, <1>2, <1>3, <1>4, <1>6, <1>7 DEF Core

LEMMA GrowsOn ==
  ASSUME NEW t \in Nat \ {0}, NEW J \in Journals(t), NEW K \in Journals(t), NEW L \in Journals(t),
         Grows(J, K), Grows(K, L)
  PROVE  Grows(J, L)
<1>1. ASSUME NEW r \in DOMAIN J.deltas
      PROVE  r \in DOMAIN L.deltas /\ L.deltas[r].rec.seen >= J.deltas[r].rec.seen
  <2>1. r \in DOMAIN K.deltas /\ r \in DOMAIN L.deltas
    BY <1>1 DEF Grows
  <2>2. J.deltas[r] \in DeltasAt(t) /\ K.deltas[r] \in DeltasAt(t) /\ L.deltas[r] \in DeltasAt(t)
    BY <1>1, <2>1, JournalParts
  <2>3. J.deltas[r].rec.seen \in 1..t /\ K.deltas[r].rec.seen \in 1..t /\ L.deltas[r].rec.seen \in 1..t
    BY <2>2, DeltaParts
  <2>4. QED BY <1>1, <2>1, <2>3 DEF Grows
<1>2. QED BY <1>1 DEF Grows

LEMMA GrowsFromItself ==
  ASSUME NEW t \in Nat \ {0}, NEW J \in Journals(t)
  PROVE  Grows(J, J)
BY JournalParts, DeltaParts DEF Grows

-----------------------------------------------------------------------------
(* The operators on journals.                                              *)

LEMMA JournalFrom ==
  ASSUME NEW t, NEW recs \in Partials(Dated(t)), NEW ds \in Partials(DeltasAt(t)),
         NEW ts \in Partials(TouchesAt(t)), NEW cs \in Partials(ConflictsAt(t))
  PROVE  [records |-> recs, deltas |-> ds, touches |-> ts, conflicts |-> cs] \in Journals(t)
BY DEF Journals

LEMMA IsJournal ==
  ASSUME NEW t, NEW J \in Journals(t)
  PROVE  J = [records |-> J.records, deltas |-> J.deltas, touches |-> J.touches,
              conflicts |-> J.conflicts]
BY DEF Journals

LEMMA OutdatingRefreshes ==
  ASSUME NEW t \in Nat \ {0}, NEW J \in Journals(t), NEW R, NEW rev, NEW dd
  PROVE  /\ Changes(J, OutdateGenerations(J, R), rev, dd, t)
         /\ OutdateGenerations(J, R).records = J.records
         /\ OutdateGenerations(J, R).conflicts = J.conflicts
         /\ DOMAIN OutdateGenerations(J, R).deltas = DOMAIN J.deltas
         /\ DOMAIN OutdateGenerations(J, R).touches = DOMAIN J.touches
<1> DEFINE outdate(f) == [r \in DOMAIN f |->
                            IF r \in R THEN [f[r] EXCEPT !.current = FALSE] ELSE f[r]]
           K == OutdateGenerations(J, R)
<1>1. K = [records |-> J.records, deltas |-> outdate(J.deltas), touches |-> outdate(J.touches),
           conflicts |-> J.conflicts]
  BY DEF OutdateGenerations
<1>2. /\ outdate(J.deltas) \in [DOMAIN J.deltas -> DeltasAt(t)]
      /\ \A r \in DOMAIN J.deltas : SameDelta(outdate(J.deltas)[r], J.deltas[r])
  BY JournalParts DEF DeltasAt, SameDelta
<1>3. outdate(J.touches) \in [DOMAIN J.touches -> TouchesAt(t)]
  BY JournalParts DEF TouchesAt
<1>4. outdate(J.deltas) \in Partials(DeltasAt(t)) /\ outdate(J.touches) \in Partials(TouchesAt(t))
  BY <1>2, <1>3, PartialFrom, JournalParts
<1>5. K \in Journals(t)
  BY <1>1, <1>4, JournalFrom, JournalParts
<1>6. ASSUME NEW r \in DOMAIN J.records
      PROVE  SameSemantic(J.records[r], J.records[r]) /\ J.records[r].seen >= J.records[r].seen
  <2>1. J.records[r].seen \in 1..t
    BY JournalParts, DatedFacts
  <2>2. QED BY <2>1 DEF SameSemantic
<1> HIDE DEF outdate
<1>7. DOMAIN outdate(J.deltas) = DOMAIN J.deltas /\ DOMAIN outdate(J.touches) = DOMAIN J.touches
  BY <1>2, <1>3
<1>8. /\ K.records = J.records /\ K.conflicts = J.conflicts
      /\ K.deltas = outdate(J.deltas) /\ K.touches = outdate(J.touches)
  BY <1>1
<1> HIDE DEF K
<1>9. \A r \in Ids : Refreshed(J, K, r)
  BY <1>2, <1>6, <1>7, <1>8 DEF Refreshed
<1>10. QED BY <1>5, <1>7, <1>8, <1>9 DEF Changes, K

\* What staging does: each staged change is taken, the rest stays.
LEMMA StagingParts ==
  ASSUME NEW t \in Nat \ {0}, NEW J \in Journals(t), NEW ds \in Partials(DeltasAt(t))
  PROVE  LET K == StageRecordDeltas(J, ds)
         IN  /\ K \in Journals(t) /\ K.touches = J.touches
             /\ DOMAIN K.deltas = DOMAIN ds \cup DOMAIN J.deltas
             /\ DOMAIN K.conflicts = DOMAIN J.conflicts \ DOMAIN ds
             /\ \A r \in DOMAIN ds : Takes(J, K, r, ds[r])
             /\ \A r \in Ids \ DOMAIN ds :
                  /\ r \in DOMAIN K.records <=> r \in DOMAIN J.records
                  /\ r \in DOMAIN J.records => K.records[r] = J.records[r]
                  /\ r \in DOMAIN J.deltas => K.deltas[r] = J.deltas[r]
<1> DEFINE K == StageRecordDeltas(J, ds)
           erased == {r \in DOMAIN ds : ds[r].kind = "expire"}
           joined == [r \in DOMAIN ds |-> Joined(J, r, ds[r])]
           upserts == [r \in DOMAIN ds \ erased |-> ds[r].rec]
           rest == Without(J.records, erased)
           open == Without(J.conflicts, DOMAIN ds)
<1>0. /\ J.records \in Partials(Dated(t)) /\ J.deltas \in Partials(DeltasAt(t))
      /\ J.touches \in Partials(TouchesAt(t)) /\ J.conflicts \in Partials(ConflictsAt(t))
  BY JournalParts
<1>1. K = [records |-> Over(upserts, rest), deltas |-> Over(joined, J.deltas), touches |-> J.touches,
           conflicts |-> open]
  BY DEF StageRecordDeltas, Joined
<1>2. DOMAIN ds \subseteq Ids /\ \A r \in DOMAIN ds : ds[r] \in DeltasAt(t) /\ ds[r].rec \in Dated(t)
  BY IsPartialOf, DeltaParts
<1>3. \A r \in DOMAIN ds : Joined(J, r, ds[r]) \in DeltasAt(t)
  BY <1>2, JournalParts DEF Joined, ChainRecordDelta, DeltasAt
<1>4. upserts \in Partials(Dated(t)) /\ joined \in Partials(DeltasAt(t))
  <2>1. upserts \in [DOMAIN ds \ erased -> Dated(t)] /\ joined \in [DOMAIN ds -> DeltasAt(t)]
    BY <1>2, <1>3
  <2>2. DOMAIN ds \ erased \in SUBSET Ids /\ DOMAIN ds \in SUBSET Ids
    BY <1>2
  <2> HIDE DEF upserts, joined, erased
  <2>3. QED BY <2>1, <2>2, PartialFrom
<1>5. /\ DOMAIN upserts = DOMAIN ds \ erased /\ DOMAIN joined = DOMAIN ds
      /\ \A r \in DOMAIN ds \ erased : upserts[r] = ds[r].rec
      /\ \A r \in DOMAIN ds : joined[r] = Joined(J, r, ds[r])
      /\ erased \subseteq DOMAIN ds /\ \A r \in DOMAIN ds : r \in erased <=> ds[r].kind = "expire"
  OBVIOUS
<1> HIDE DEF upserts, joined, erased
<1>6. /\ rest \in Partials(Dated(t)) /\ DOMAIN rest = DOMAIN J.records \ erased
      /\ \A r \in DOMAIN J.records \ erased : rest[r] = J.records[r]
  <2>1. rest \in Partials(Dated(t))
    BY <1>0, WithoutSome
  <2>2. QED BY <2>1, WithoutParts
<1>7. open \in Partials(ConflictsAt(t)) /\ DOMAIN open = DOMAIN J.conflicts \ DOMAIN ds
  <2>1. open \in Partials(ConflictsAt(t))
    BY <1>0, WithoutSome
  <2>2. QED BY <2>1, WithoutParts
<1> HIDE DEF rest, open
<1>8. Over(upserts, rest) \in Partials(Dated(t)) /\ Over(joined, J.deltas) \in Partials(DeltasAt(t))
  BY <1>0, <1>4, <1>6, Overlaid
<1>9. /\ DOMAIN Over(upserts, rest) = DOMAIN upserts \cup DOMAIN rest
      /\ \A r \in DOMAIN upserts : Over(upserts, rest)[r] = upserts[r]
      /\ \A r \in DOMAIN rest \ DOMAIN upserts : Over(upserts, rest)[r] = rest[r]
      /\ DOMAIN Over(joined, J.deltas) = DOMAIN joined \cup DOMAIN J.deltas
      /\ \A r \in DOMAIN joined : Over(joined, J.deltas)[r] = joined[r]
      /\ \A r \in DOMAIN J.deltas \ DOMAIN joined : Over(joined, J.deltas)[r] = J.deltas[r]
  BY OverParts
<1>10. K \in Journals(t)
  BY <1>0, <1>1, <1>7, <1>8, JournalFrom
<1>11. /\ K.records = Over(upserts, rest) /\ K.deltas = Over(joined, J.deltas)
       /\ K.touches = J.touches /\ K.conflicts = open
  BY <1>1
<1> HIDE DEF K
<1>12. ASSUME NEW r \in DOMAIN ds PROVE Takes(J, K, r, ds[r])
  <2>1. K.deltas[r] = Joined(J, r, ds[r]) /\ r \in DOMAIN K.deltas /\ r \notin DOMAIN K.conflicts
    BY <1>7, <1>5, <1>9, <1>11
  <2>2. CASE ds[r].kind = "expire"
    BY <1>6, <1>5, <1>9, <1>11, <2>1, <2>2 DEF Takes, SameDelta
  <2>3. CASE ds[r].kind # "expire"
    BY <1>6, <1>5, <1>9, <1>11, <2>1, <2>3 DEF Takes, SameDelta
  <2>4. QED BY <2>2, <2>3
<1>13. ASSUME NEW r \in Ids \ DOMAIN ds
       PROVE  /\ r \in DOMAIN K.records <=> r \in DOMAIN J.records
              /\ r \in DOMAIN J.records => K.records[r] = J.records[r]
              /\ r \in DOMAIN J.deltas => K.deltas[r] = J.deltas[r]
  BY <1>6, <1>5, <1>9, <1>11, <1>13
<1>14. QED BY <1>7, <1>5, <1>9, <1>10, <1>11, <1>12, <1>13 DEF K

\* K has the changes ds staged on J, and other records refreshed.
Carries(J, ds, K) ==
  /\ K.deltas = StageRecordDeltas(J, ds).deltas
  /\ K.conflicts = StageRecordDeltas(J, ds).conflicts
  /\ \A r \in DOMAIN ds :
       /\ r \in DOMAIN K.records <=> r \in DOMAIN StageRecordDeltas(J, ds).records
       /\ r \in DOMAIN K.records => K.records[r] = StageRecordDeltas(J, ds).records[r]
  /\ \A r \in Ids \ DOMAIN ds :
       /\ r \in DOMAIN K.records <=> r \in DOMAIN J.records
       /\ r \in DOMAIN J.records => /\ SameSemantic(K.records[r], J.records[r])
                                    /\ K.records[r].seen >= J.records[r].seen
       /\ r \in DOMAIN J.touches => r \in DOMAIN K.touches

LEMMA StagingChanges ==
  ASSUME NEW t \in Nat \ {0}, NEW J \in Journals(t), NEW ds \in Partials(DeltasAt(t)),
         NEW rev, NEW dd, NEW K \in Journals(t), Carries(J, ds, K),
         \A r \in DOMAIN ds : ChangeFits(J, r, ds[r], rev, dd, t)
  PROVE  Changes(J, K, rev, dd, t) /\ DOMAIN K.deltas = DOMAIN ds \cup DOMAIN J.deltas
<1> DEFINE S == StageRecordDeltas(J, ds)
<1>1. /\ S \in Journals(t) /\ DOMAIN S.deltas = DOMAIN ds \cup DOMAIN J.deltas
      /\ DOMAIN S.conflicts = DOMAIN J.conflicts \ DOMAIN ds
      /\ \A r \in DOMAIN ds : Takes(J, S, r, ds[r])
      /\ \A r \in Ids \ DOMAIN ds : r \in DOMAIN J.deltas => S.deltas[r] = J.deltas[r]
  BY StagingParts
<1> HIDE DEF S
<1>2. /\ K.deltas = S.deltas /\ K.conflicts = S.conflicts
      /\ \A r \in DOMAIN ds :
           /\ r \in DOMAIN K.records <=> r \in DOMAIN S.records
           /\ r \in DOMAIN K.records => K.records[r] = S.records[r]
  BY DEF S, Carries
<1>3. ASSUME NEW r \in DOMAIN ds
      PROVE  ds[r] \in DeltasAt(t) /\ Takes(J, K, r, ds[r])
  BY <1>1, <1>2, IsPartialOf DEF Takes
<1>4. ASSUME NEW r \in Ids \ DOMAIN ds PROVE Refreshed(J, K, r)
  BY <1>1, <1>2 DEF Refreshed, SameDelta, Carries
<1>5. QED BY <1>1, <1>2, <1>3, <1>4 DEF Changes

LEMMA TouchingParts ==
  ASSUME NEW t \in Nat \ {0}, NEW J \in Journals(t), NEW R \in SUBSET Ids
  PROVE  LET K == RememberTouches(J, R, t)
         IN  /\ K \in Journals(t) /\ K.records = J.records /\ K.deltas = J.deltas
             /\ K.conflicts = J.conflicts /\ DOMAIN J.touches \subseteq DOMAIN K.touches
<1> DEFINE newer == {r \in R : r \in DOMAIN J.touches => J.touches[r].seen < t}
           fresh == [r \in newer |-> [seen |-> t, current |-> TRUE]]
           touches == Over(fresh, J.touches)
<1>1. RememberTouches(J, R, t) = [J EXCEPT !.touches = touches]
  BY DEF RememberTouches
<1>2. newer \subseteq Ids /\ fresh \in [newer -> TouchesAt(t)]
  BY DEF TouchesAt
<1>3. fresh \in Partials(TouchesAt(t)) /\ J.touches \in Partials(TouchesAt(t))
  BY <1>2, PartialFrom, JournalParts
<1> HIDE DEF fresh
<1>4. touches \in Partials(TouchesAt(t))
  BY <1>3, Overlaid
<1>5. DOMAIN J.touches \subseteq DOMAIN touches
  <2>1. DOMAIN Over(fresh, J.touches) = DOMAIN fresh \cup DOMAIN J.touches
    BY OverParts
  <2>2. QED BY <2>1
<1> HIDE DEF touches
<1>6. RememberTouches(J, R, t) = [records |-> J.records, deltas |-> J.deltas, touches |-> touches,
                                  conflicts |-> J.conflicts]
  BY <1>1 DEF Journals
<1>7. QED BY <1>4, <1>5, <1>6, JournalParts, JournalFrom

\* Windows seen now: a record in conflict stays as it is.
LEMMA UpsertingChanges ==
  ASSUME clock \in Nat \ {0}, revision \in Revisions, NEW J \in Journals(clock), NEW dd,
         NEW seen \in Partials(Dated(clock)),
         \A r \in DOMAIN seen : /\ seen[r].seen = clock
                                /\ r \in DOMAIN J.records \/ r \notin dd
  PROVE  LET S == UpsertAutoRecords(J, seen)
         IN  /\ Changes(J, S.J, revision, dd, clock)
             /\ S.dirty \in BOOLEAN
             /\ DOMAIN S.J.deltas # {} => DOMAIN J.deltas # {} \/ S.dirty
<1> DEFINE changes == {r \in DOMAIN seen : r \in DOMAIN J.records => ~SameSemantic(J.records[r], seen[r])}
           delta(r) == Delta("runtime", seen[r], RecAt(J.records, r), revision, clock)
           staged == {r \in changes : MayStage(J, r, delta(r))}
           same == DOMAIN seen \ changes
           ds == [r \in staged |-> delta(r)]
           J1 == StageRecordDeltas(J, ds)
           again == [r \in same |-> seen[r]]
           J2 == [J1 EXCEPT !.records = Over(again, J1.records)]
           K == RememberTouches(J2, staged \cup same, clock)
<1>1. UpsertAutoRecords(J, seen) = [J |-> K, done |-> staged \cup same, dirty |-> changes # {}]
  BY DEF UpsertAutoRecords
<1>2. /\ DOMAIN seen \subseteq Ids /\ changes \subseteq DOMAIN seen /\ staged \subseteq changes
      /\ same = DOMAIN seen \ changes
      /\ \A r \in DOMAIN seen : seen[r] \in Dated(clock)
      /\ \A r \in same : r \in DOMAIN J.records /\ SameSemantic(J.records[r], seen[r])
  BY IsPartialOf
<1>3. ASSUME NEW r \in staged
      PROVE  delta(r) \in DeltasAt(clock) /\ ChangeFits(J, r, delta(r), revision, dd, clock)
  <2>1. r \in DOMAIN seen /\ seen[r] \in Dated(clock)
    BY <1>2
  <2>2. RecAt(J.records, r) \in Dated(clock) \cup {NoRec}
    BY JournalParts, RecAtFacts
  <2>3. delta(r) \in DeltasAt(clock)
    BY <2>1, <2>2 DEF Delta, DeltasAt, Kinds
  <2>4. /\ delta(r).kind = "runtime" /\ delta(r).rec = seen[r] /\ delta(r).changed = clock
        /\ delta(r).base = RecAt(J.records, r) /\ delta(r).baseRev = revision
    BY DEF Delta
  <2>5. seen[r].seen = clock /\ (r \in DOMAIN J.records \/ r \notin dd)
    BY <2>1
  <2> HIDE DEF delta
  <2>6. QED BY <2>3, <2>4, <2>5 DEF ChangeFits, Upserts
<1>4. /\ ds \in [staged -> DeltasAt(clock)] /\ DOMAIN ds = staged
      /\ \A r \in staged : ds[r] = delta(r)
  BY <1>3
<1>5. again \in [same -> Dated(clock)] /\ DOMAIN again = same /\ \A r \in same : again[r] = seen[r]
  BY <1>2
<1> HIDE DEF changes, staged, same, delta, ds, again
<1>6. ds \in Partials(DeltasAt(clock)) /\ again \in Partials(Dated(clock))
  BY <1>2, <1>4, <1>5, PartialFrom
<1>7. \A r \in DOMAIN ds : ChangeFits(J, r, ds[r], revision, dd, clock)
  BY <1>3, <1>4
<1>8. /\ J1 \in Journals(clock) /\ J1.touches = J.touches
      /\ \A r \in Ids \ DOMAIN ds : /\ r \in DOMAIN J1.records <=> r \in DOMAIN J.records
                                    /\ r \in DOMAIN J.records => J1.records[r] = J.records[r]
  BY <1>6, StagingParts
<1>9. J1.records \in Partials(Dated(clock))
  BY <1>8, JournalParts
<1> HIDE DEF J1
<1>10. Over(again, J1.records) \in Partials(Dated(clock))
  BY <1>6, <1>9, Overlaid
<1>11. /\ DOMAIN Over(again, J1.records) = same \cup DOMAIN J1.records
       /\ \A r \in same : Over(again, J1.records)[r] = seen[r]
       /\ \A r \in DOMAIN J1.records \ same : Over(again, J1.records)[r] = J1.records[r]
  <2>1. /\ DOMAIN Over(again, J1.records) = DOMAIN again \cup DOMAIN J1.records
        /\ \A r \in DOMAIN again : Over(again, J1.records)[r] = again[r]
        /\ \A r \in DOMAIN J1.records \ DOMAIN again : Over(again, J1.records)[r] = J1.records[r]
    BY OverParts
  <2>2. QED BY <1>5, <2>1
<1>12. J2 = [records |-> Over(again, J1.records), deltas |-> J1.deltas, touches |-> J1.touches,
             conflicts |-> J1.conflicts]
  BY <1>8 DEF Journals
<1>13. J2 \in Journals(clock)
  <2>1. /\ J1.deltas \in Partials(DeltasAt(clock)) /\ J1.touches \in Partials(TouchesAt(clock))
        /\ J1.conflicts \in Partials(ConflictsAt(clock))
    BY <1>8, JournalParts
  <2>2. QED BY <1>10, <1>12, <2>1, JournalFrom
<1>14. /\ J2.records = Over(again, J1.records) /\ J2.deltas = J1.deltas
       /\ J2.touches = J.touches /\ J2.conflicts = J1.conflicts
  BY <1>8, <1>12
<1> HIDE DEF J2
<1>15. staged \cup same \in SUBSET Ids
  BY <1>2
<1>16. /\ K \in Journals(clock) /\ K.records = J2.records /\ K.deltas = J2.deltas
       /\ K.conflicts = J2.conflicts /\ DOMAIN J2.touches \subseteq DOMAIN K.touches
  BY <1>13, <1>15, TouchingParts
<1> HIDE DEF K
<1>17. /\ K.deltas = StageRecordDeltas(J, ds).deltas
       /\ K.conflicts = StageRecordDeltas(J, ds).conflicts
       /\ \A r \in DOMAIN ds :
            /\ r \in DOMAIN K.records <=> r \in DOMAIN StageRecordDeltas(J, ds).records
            /\ r \in DOMAIN K.records => K.records[r] = StageRecordDeltas(J, ds).records[r]
  <2>1. \A r \in DOMAIN ds : /\ r \in DOMAIN K.records <=> r \in DOMAIN J1.records
                             /\ r \in DOMAIN K.records => K.records[r] = J1.records[r]
    BY <1>2, <1>4, <1>11, <1>14, <1>16
  <2>2. QED BY <1>14, <1>16, <2>1 DEF J1
<1>18. ASSUME NEW r \in Ids \ DOMAIN ds
       PROVE  /\ r \in DOMAIN K.records <=> r \in DOMAIN J.records
              /\ r \in DOMAIN J.records => /\ SameSemantic(K.records[r], J.records[r])
                                           /\ K.records[r].seen >= J.records[r].seen
              /\ r \in DOMAIN J.touches => r \in DOMAIN K.touches
  <2>1. /\ r \in DOMAIN K.records <=> r \in DOMAIN J.records
        /\ r \in DOMAIN J.touches => r \in DOMAIN K.touches
    BY <1>2, <1>8, <1>11, <1>14, <1>16
  <2>2. ASSUME r \in DOMAIN J.records
        PROVE  SameSemantic(K.records[r], J.records[r]) /\ K.records[r].seen >= J.records[r].seen
    <3>1. J.records[r] \in Dated(clock) /\ J.records[r].seen \in 1..clock
      BY <2>2, JournalParts, DatedFacts
    <3>2. CASE r \in same
      <4>1. K.records[r] = seen[r] /\ SameSemantic(J.records[r], seen[r]) /\ seen[r].seen = clock
        BY <1>2, <1>11, <1>14, <1>16, <3>2
      <4>2. QED BY <3>1, <4>1 DEF SameSemantic
    <3>3. CASE r \notin same
      <4>1. K.records[r] = J.records[r]
        BY <1>8, <1>11, <1>14, <1>16, <2>2, <3>3
      <4>2. QED BY <3>1, <4>1 DEF SameSemantic
    <3>4. QED BY <3>2, <3>3
  <2>3. QED BY <2>1, <2>2
<1>19. Changes(J, K, revision, dd, clock) /\ DOMAIN K.deltas = DOMAIN ds \cup DOMAIN J.deltas
  <2>1. Carries(J, ds, K)
    BY <1>17, <1>18 DEF Carries
  <2>2. QED BY <1>6, <1>7, <1>16, <2>1, StagingChanges
<1>20. DOMAIN K.deltas # {} => DOMAIN J.deltas # {} \/ changes # {}
  BY <1>2, <1>4, <1>19
<1>21. UpsertAutoRecords(J, seen).J = K /\ UpsertAutoRecords(J, seen).dirty = (changes # {})
  BY <1>1
<1>22. QED BY <1>19, <1>20, <1>21

\* The browser is gone: its records are marked, or expire.
LEMMA MarkingChanges ==
  ASSUME clock \in Nat \ {0}, NEW rev \in Revisions, NEW J \in Journals(clock), NEW dd
  PROVE  LET S == MarkAppMissing(J, rev)
         IN  /\ Changes(J, S.J, rev, dd, clock)
             /\ S.dirty \in BOOLEAN /\ S.done = TRUE
             /\ DOMAIN S.J.deltas # {} => DOMAIN J.deltas # {} \/ S.dirty
<1> DEFINE after(r) == MarkMissing(J.records[r], clock)
           gone == {r \in DOMAIN J.records : IsExpired(after(r), clock)}
           turned == {r \in DOMAIN J.records \ gone : ~SameSemantic(J.records[r], after(r))}
           delta(r) == IF r \in gone
                       THEN Delta("expire", J.records[r], J.records[r], rev, clock)
                       ELSE Delta("missing", after(r), J.records[r], rev, clock)
           accepted == {r \in gone \cup turned : MayStage(J, r, delta(r))}
           ds == [r \in accepted |-> delta(r)]
           S == StageRecordDeltas(J, ds)
           left == Without(S.touches, gone \cap accepted)
           K == [S EXCEPT !.touches = left]
<1>1. MarkAppMissing(J, rev) = [J |-> K, dirty |-> gone \cup turned # {}, done |-> TRUE]
  BY DEF MarkAppMissing
<1>2. /\ DOMAIN J.records \subseteq Ids
      /\ gone \subseteq DOMAIN J.records /\ turned \subseteq DOMAIN J.records
      /\ accepted \subseteq gone \cup turned
  BY JournalParts
<1>3. ASSUME NEW r \in accepted
      PROVE  /\ delta(r) \in DeltasAt(clock) /\ ChangeFits(J, r, delta(r), rev, dd, clock)
             /\ r \in gone => delta(r).kind = "expire"
  <2>1. r \in DOMAIN J.records /\ J.records[r] \in Dated(clock) /\ MayStage(J, r, delta(r))
    BY <1>2, JournalParts
  <2>2. /\ after(r) \in Dated(clock) /\ after(r).seen = J.records[r].seen
        /\ r \in gone => Old(J.records[r], clock)
    BY <2>1, MarkMissingDated
  <2>3. RecAt(J.records, r) = J.records[r]
    BY <2>1 DEF RecAt
  <2>4. /\ delta(r).kind = IF r \in gone THEN "expire" ELSE "missing"
        /\ delta(r).rec = IF r \in gone THEN J.records[r] ELSE after(r)
        /\ delta(r).base = J.records[r] /\ delta(r).baseRev = rev
    BY DEF Delta
  <2>5. delta(r) \in DeltasAt(clock)
    BY <2>1, <2>2 DEF Delta, DeltasAt, Kinds
  <2> HIDE DEF delta, gone, after
  <2>6. delta(r).kind \notin Upserts /\ r \notin DOMAIN J.conflicts
    BY <2>1, <2>4 DEF MayStage, Upserts
  <2>7. QED BY <2>1, <2>2, <2>3, <2>4, <2>5, <2>6 DEF ChangeFits
<1>4. /\ ds \in [accepted -> DeltasAt(clock)] /\ DOMAIN ds = accepted
      /\ \A r \in accepted : ds[r] = delta(r)
  BY <1>3
<1> HIDE DEF gone, turned, accepted, delta, ds
<1>5. ds \in Partials(DeltasAt(clock))
  BY <1>2, <1>4, PartialFrom
<1>6. \A r \in DOMAIN ds : ChangeFits(J, r, ds[r], rev, dd, clock)
  BY <1>3, <1>4
<1>7. /\ S \in Journals(clock) /\ S.touches = J.touches
      /\ \A r \in Ids \ DOMAIN ds : /\ r \in DOMAIN S.records <=> r \in DOMAIN J.records
                                    /\ r \in DOMAIN J.records => S.records[r] = J.records[r]
  BY <1>5, StagingParts
<1> HIDE DEF S
<1>8. /\ S.records \in Partials(Dated(clock)) /\ S.deltas \in Partials(DeltasAt(clock))
      /\ S.touches \in Partials(TouchesAt(clock)) /\ S.conflicts \in Partials(ConflictsAt(clock))
  BY <1>7, JournalParts
<1>9. left \in Partials(TouchesAt(clock))
  BY <1>8, WithoutSome
<1>10. DOMAIN left = DOMAIN S.touches \ (gone \cap accepted)
  BY WithoutParts
<1> HIDE DEF left
<1>11. K = [records |-> S.records, deltas |-> S.deltas, touches |-> left, conflicts |-> S.conflicts]
  BY <1>7 DEF Journals
<1>12. K \in Journals(clock)
  BY <1>8, <1>9, <1>11, JournalFrom
<1>13. Carries(J, ds, K)
  <2>1. ASSUME NEW r \in Ids \ DOMAIN ds
        PROVE  /\ r \in DOMAIN K.records <=> r \in DOMAIN J.records
               /\ r \in DOMAIN J.records => /\ SameSemantic(K.records[r], J.records[r])
                                            /\ K.records[r].seen >= J.records[r].seen
               /\ r \in DOMAIN J.touches => r \in DOMAIN K.touches
    <3>1. r \in DOMAIN J.records => J.records[r].seen \in 1..clock
      BY JournalParts, DatedFacts
    <3>2. QED BY <1>4, <1>7, <1>10, <1>11, <3>1 DEF SameSemantic
  <2>2. /\ K.deltas = StageRecordDeltas(J, ds).deltas
        /\ K.conflicts = StageRecordDeltas(J, ds).conflicts
        /\ K.records = StageRecordDeltas(J, ds).records
    BY <1>11 DEF S
  <2>3. QED BY <2>1, <2>2 DEF Carries
<1> HIDE DEF K
<1>14. Changes(J, K, rev, dd, clock) /\ DOMAIN K.deltas = DOMAIN ds \cup DOMAIN J.deltas
  BY <1>5, <1>6, <1>12, <1>13, StagingChanges
<1>15. DOMAIN K.deltas # {} => DOMAIN J.deltas # {} \/ gone \cup turned # {}
  BY <1>2, <1>4, <1>14
<1>16. /\ MarkAppMissing(J, rev).J = K /\ MarkAppMissing(J, rev).done = TRUE
       /\ MarkAppMissing(J, rev).dirty = (gone \cup turned # {})
  BY <1>1
<1>17. QED BY <1>14, <1>15, <1>16

-----------------------------------------------------------------------------
(* The final checkpoint.                                                   *)

LEMMA RaisingParts ==
  ASSUME NEW t \in Nat \ {0}, NEW J \in Journals(t), NEW R \in SUBSET DOMAIN J.records
  PROVE  LET K == RaiseTouches(J, R)
         IN  /\ K \in Journals(t) /\ K.records = J.records /\ K.deltas = J.deltas
             /\ K.conflicts = J.conflicts /\ DOMAIN J.touches \subseteq DOMAIN K.touches
<1> DEFINE newer == {r \in R : r \in DOMAIN J.touches => J.touches[r].seen < J.records[r].seen}
           raised == [r \in newer |-> [seen |-> J.records[r].seen, current |-> TRUE]]
           touches == Over(raised, J.touches)
<1>1. RaiseTouches(J, R) = [J EXCEPT !.touches = touches]
  BY DEF RaiseTouches
<1>2. newer \subseteq Ids /\ \A r \in newer : J.records[r].seen \in 1..t
  BY JournalParts, DatedFacts
<1>3. raised \in [newer -> TouchesAt(t)]
  BY <1>2 DEF TouchesAt
<1> HIDE DEF raised
<1>4. raised \in Partials(TouchesAt(t)) /\ J.touches \in Partials(TouchesAt(t))
  BY <1>2, <1>3, PartialFrom, JournalParts
<1>5. touches \in Partials(TouchesAt(t))
  BY <1>4, Overlaid
<1>6. DOMAIN J.touches \subseteq DOMAIN touches
  <2>1. DOMAIN Over(raised, J.touches) = DOMAIN raised \cup DOMAIN J.touches
    BY OverParts
  <2>2. QED BY <2>1
<1> HIDE DEF touches
<1>7. RaiseTouches(J, R) = [records |-> J.records, deltas |-> J.deltas, touches |-> touches,
                            conflicts |-> J.conflicts]
  BY <1>1 DEF Journals
<1>8. QED BY <1>5, <1>6, <1>7, JournalParts, JournalFrom

\* The records of a checkpoint: seen now, or as they were, or marked.
FinalFits(final, dd) ==
  /\ final \in Partials(Dated(clock))
  /\ \A r \in DOMAIN journal.records \ DOMAIN final : Old(journal.records[r], clock)
  /\ \A r \in DOMAIN final \ DOMAIN journal.records : r \notin dd /\ final[r].seen = clock
  /\ \A r \in DOMAIN final \cap DOMAIN journal.records :
       \/ final[r] \in {journal.records[r], MarkMissing(journal.records[r], clock)}
       \/ final[r].seen = clock /\ final[r].missing = 0

LEMMA FinalDeltasFit ==
  ASSUME clock \in Nat \ {0}, revision \in Revisions, journal \in Journals(clock), NEW dd,
         NEW final, FinalFits(final, dd), FinalAccepted(final)
  PROVE  LET ds == FinalDeltas(final)
         IN  /\ ds \in Partials(DeltasAt(clock))
             /\ \A r \in DOMAIN ds :
                  /\ ChangeFits(journal, r, ds[r], revision, dd, clock)
                  /\ IF r \in DOMAIN final THEN ds[r].kind # "expire" /\ ds[r].rec = final[r]
                                           ELSE ds[r].kind = "expire"
             /\ \A r \in DOMAIN journal.records \ DOMAIN final : r \in DOMAIN ds
             /\ \A r \in DOMAIN final \ DOMAIN ds :
                  r \in DOMAIN journal.records /\ SameSemantic(journal.records[r], final[r])
<1> DEFINE before == journal.records
           gone == DOMAIN before \ DOMAIN final
           changed == {r \in DOMAIN final :
                         r \in DOMAIN before => ~SameSemantic(before[r], final[r])}
           kind(r) == IF r \in gone THEN "expire"
                      ELSE IF r \in DOMAIN before /\ before[r].missing = 0
                              /\ final[r].missing # 0 THEN "missing"
                      ELSE "explicit"
           delta(r) == Delta(kind(r), IF r \in gone THEN before[r] ELSE final[r],
                             RecAt(before, r), revision, clock)
           ds == FinalDeltas(final)
<1>1. ds = [r \in gone \cup changed |-> delta(r)]
  BY DEF FinalDeltas
<1>2. /\ DOMAIN before \subseteq Ids /\ DOMAIN final \subseteq Ids
      /\ \A r \in DOMAIN before : before[r] \in Dated(clock)
      /\ \A r \in DOMAIN final : final[r] \in Dated(clock)
  BY JournalParts, IsPartialOf DEF FinalFits
<1>3. ASSUME NEW r \in gone \cup changed
      PROVE  /\ delta(r) \in DeltasAt(clock)
             /\ MayStage(journal, r, delta(r)) => ChangeFits(journal, r, delta(r), revision, dd, clock)
             /\ IF r \in DOMAIN final THEN delta(r).kind # "expire" /\ delta(r).rec = final[r]
                                      ELSE delta(r).kind = "expire"
  <2>1. RecAt(before, r) \in Dated(clock) \cup {NoRec}
    BY JournalParts, RecAtFacts
  <2>2. /\ r \in gone \/ (r \in changed /\ r \in DOMAIN final /\ r \notin gone)
        /\ r \in gone => before[r] \in Dated(clock) /\ r \in DOMAIN before /\ r \notin DOMAIN final
    BY <1>2
  <2>3. delta(r) \in DeltasAt(clock)
    BY <1>2, <2>1, <2>2 DEF Delta, DeltasAt, Kinds
  <2>4. /\ delta(r).kind = kind(r) /\ delta(r).base = RecAt(before, r)
        /\ delta(r).rec = (IF r \in gone THEN before[r] ELSE final[r])
        /\ delta(r).baseRev = revision /\ delta(r).changed = clock
    BY DEF Delta
  <2> HIDE DEF delta
  <2>5. IF r \in DOMAIN final THEN delta(r).kind # "expire" /\ delta(r).rec = final[r]
                              ELSE delta(r).kind = "expire"
    BY <2>2, <2>4
  <2>6. ASSUME MayStage(journal, r, delta(r))
        PROVE  ChangeFits(journal, r, delta(r), revision, dd, clock)
    <3>1. r \in DOMAIN journal.conflicts => delta(r).kind \in Upserts
      BY <2>6 DEF MayStage
    <3>2. r \in DOMAIN before \/ r \notin dd
      BY <2>2 DEF FinalFits
    <3>3. CASE r \in gone
      <4>1. delta(r).kind = "expire" /\ delta(r).rec = before[r] /\ Old(before[r], clock)
        BY <2>4, <3>3 DEF FinalFits
      <4>2. QED BY <2>2, <2>3, <2>4, <3>1, <3>2, <3>3, <4>1 DEF ChangeFits, Upserts
    <3>4. CASE r \in changed /\ r \in DOMAIN before
      <4>1. /\ before[r] \in Dated(clock) /\ final[r] \in Dated(clock)
            /\ r \in DOMAIN final /\ r \notin gone
            /\ ~SameSemantic(before[r], final[r])
        BY <1>2, <3>4
      <4>2. \/ final[r] = MarkMissing(before[r], clock) /\ before[r].missing = 0
            \/ final[r].seen = clock /\ final[r].missing = 0
        <5>1. \/ final[r] \in {before[r], MarkMissing(before[r], clock)}
              \/ final[r].seen = clock /\ final[r].missing = 0
          BY <3>4, <4>1 DEF FinalFits
        <5>2. final[r] # before[r]
          BY <4>1 DEF SameSemantic
        <5>3. QED BY <4>1, <5>1, <5>2, MarkMissingDated
      <4>3. CASE final[r] = MarkMissing(before[r], clock) /\ before[r].missing = 0
        <5>1. final[r].seen = before[r].seen /\ final[r].missing # 0
          BY <4>1, <4>3, MarkMissingDated, DatedFacts
        <5>2. delta(r).kind = "missing" /\ delta(r).rec = final[r]
          BY <2>4, <3>4, <4>1, <4>3, <5>1
        <5>3. QED BY <2>3, <2>4, <3>1, <3>4, <5>1, <5>2 DEF ChangeFits, Upserts
      <4>4. CASE final[r].seen = clock /\ final[r].missing = 0
        <5>1. delta(r).kind = "explicit" /\ delta(r).rec = final[r]
          BY <2>4, <4>1, <4>4
        <5>2. QED BY <2>3, <2>4, <3>4, <4>4, <5>1 DEF ChangeFits, Upserts
      <4>5. QED BY <4>2, <4>3, <4>4
    <3>5. CASE r \in changed /\ r \notin DOMAIN before
      <4>1. delta(r).kind = "explicit" /\ delta(r).rec = final[r] /\ final[r].seen = clock
        BY <2>4, <3>5 DEF FinalFits
      <4>2. QED BY <2>3, <2>4, <3>2, <4>1 DEF ChangeFits, Upserts
    <3>6. QED BY <3>3, <3>4, <3>5
  <2>7. QED BY <2>3, <2>5, <2>6
<1>4. /\ ds \in [gone \cup changed -> DeltasAt(clock)] /\ DOMAIN ds = gone \cup changed
      /\ gone \cup changed \in SUBSET Ids /\ \A r \in gone \cup changed : ds[r] = delta(r)
  BY <1>1, <1>2, <1>3
<1>5. \A r \in DOMAIN ds : MayStage(journal, r, ds[r])
  BY DEF FinalAccepted
<1> HIDE DEF delta, ds
<1>6. ds \in Partials(DeltasAt(clock))
  BY <1>4, PartialFrom
<1>7. ASSUME NEW r \in DOMAIN ds
      PROVE  /\ ChangeFits(journal, r, ds[r], revision, dd, clock)
             /\ IF r \in DOMAIN final THEN ds[r].kind # "expire" /\ ds[r].rec = final[r]
                                      ELSE ds[r].kind = "expire"
  BY <1>3, <1>4, <1>5
<1>8. \A r \in DOMAIN final \ DOMAIN ds :
        r \in DOMAIN journal.records /\ SameSemantic(journal.records[r], final[r])
  BY <1>4
<1>9. \A r \in DOMAIN journal.records \ DOMAIN final : r \in DOMAIN ds
  BY <1>4
<1>10. QED BY <1>6, <1>7, <1>8, <1>9 DEF ds

\* What the checkpoint makes of the journal.
LEMMA FinalJournalKeeps ==
  ASSUME clock \in Nat \ {0}, revision \in Revisions, armed \in ArmedAt(clock),
         file \in FilesAt(clock), NEW dd, Core(journal, revision, armed, file, dd, clock),
         NEW final, FinalFits(final, dd), FinalAccepted(final)
  PROVE  /\ Core(FinalJournal(final), revision, armed, file, dd, clock)
         /\ Grows(journal, FinalJournal(final))
<1> DEFINE ds == FinalDeltas(final)
           S == StageRecordDeltas(journal, ds)
           gone == DOMAIN journal.records \ DOMAIN final
           left == Without(journal.touches, gone)
           J == [records |-> final, deltas |-> S.deltas, touches |-> left, conflicts |-> S.conflicts]
           K == RaiseTouches(J, BoundIds \cap DOMAIN final)
           L == PrunedJournal(K, bound)
<1>1. FinalJournal(final) = L
  BY DEF FinalJournal
<1>2. journal \in Journals(clock)
  BY DEF Core
<1>3. /\ ds \in Partials(DeltasAt(clock))
      /\ \A r \in DOMAIN ds : ChangeFits(journal, r, ds[r], revision, dd, clock)
      /\ \A r \in DOMAIN ds :
           IF r \in DOMAIN final THEN ds[r].kind # "expire" /\ ds[r].rec = final[r]
                                 ELSE ds[r].kind = "expire"
      /\ \A r \in gone : r \in DOMAIN ds
      /\ \A r \in DOMAIN final \ DOMAIN ds :
           r \in DOMAIN journal.records /\ SameSemantic(journal.records[r], final[r])
  BY <1>2, FinalDeltasFit
<1> HIDE DEF ds
<1>4. S \in Journals(clock) /\ \A r \in DOMAIN ds : Takes(journal, S, r, ds[r])
  BY <1>2, <1>3, StagingParts
<1> HIDE DEF S
<1>5. S.deltas \in Partials(DeltasAt(clock)) /\ S.conflicts \in Partials(ConflictsAt(clock))
  BY <1>4, JournalParts
<1>6. journal.touches \in Partials(TouchesAt(clock))
  BY <1>2, JournalParts
<1>7. left \in Partials(TouchesAt(clock))
  BY <1>6, WithoutSome
<1>8. DOMAIN left = DOMAIN journal.touches \ gone
  BY WithoutParts
<1> HIDE DEF left
<1>9. final \in Partials(Dated(clock))
  BY DEF FinalFits
<1>10. J \in Journals(clock)
  BY <1>5, <1>7, <1>9, JournalFrom
<1>11. /\ J.records = final /\ J.deltas = S.deltas /\ J.touches = left /\ J.conflicts = S.conflicts
  OBVIOUS
<1> HIDE DEF J
<1>12. /\ K \in Journals(clock) /\ K.records = J.records /\ K.deltas = J.deltas
       /\ K.conflicts = J.conflicts /\ DOMAIN J.touches \subseteq DOMAIN K.touches
  <2>1. BoundIds \cap DOMAIN final \in SUBSET DOMAIN J.records
    BY <1>11
  <2>2. QED BY <1>10, <2>1, RaisingParts
<1> HIDE DEF K
<1>13. Carries(journal, ds, K)
  <2>1. ASSUME NEW r \in DOMAIN ds
        PROVE  /\ r \in DOMAIN K.records <=> r \in DOMAIN S.records
               /\ r \in DOMAIN K.records => K.records[r] = S.records[r]
    BY <1>3, <1>4, <1>11, <1>12 DEF Takes
  <2>2. ASSUME NEW r \in Ids \ DOMAIN ds
        PROVE  /\ r \in DOMAIN K.records <=> r \in DOMAIN journal.records
               /\ r \in DOMAIN journal.records => /\ SameSemantic(K.records[r], journal.records[r])
                                                  /\ K.records[r].seen >= journal.records[r].seen
               /\ r \in DOMAIN journal.touches => r \in DOMAIN K.touches
    <3>1. /\ r \in DOMAIN K.records <=> r \in DOMAIN journal.records
          /\ r \in DOMAIN journal.touches => r \in DOMAIN K.touches
      BY <1>3, <1>8, <1>11, <1>12
    <3>2. ASSUME r \in DOMAIN journal.records
          PROVE  /\ SameSemantic(K.records[r], journal.records[r])
                 /\ K.records[r].seen >= journal.records[r].seen
      <4>1. journal.records[r] \in Dated(clock) /\ journal.records[r].seen \in 1..clock
        BY <1>2, <3>2, JournalParts, DatedFacts
      <4>2. r \in DOMAIN final /\ K.records[r] = final[r] /\ SameSemantic(journal.records[r], final[r])
        BY <1>3, <1>11, <1>12, <3>1, <3>2
      <4>3. final[r].seen \in {clock, journal.records[r].seen}
        BY <3>2, <4>1, <4>2, MarkMissingDated DEF FinalFits
      <4>4. QED BY <4>1, <4>2, <4>3 DEF SameSemantic
    <3>3. QED BY <3>1, <3>2
  <2>3. K.deltas = S.deltas /\ K.conflicts = S.conflicts
    BY <1>11, <1>12
  <2>4. QED BY <2>1, <2>2, <2>3 DEF Carries, S
<1>14. Changes(journal, K, revision, dd, clock)
  BY <1>2, <1>3, <1>12, <1>13, StagingChanges
<1>15. Core(K, revision, armed, file, dd, clock) /\ Grows(journal, K)
  BY <1>14, ChangesKeepCore
<1>16. Changes(K, L, revision, dd, clock)
  BY <1>12, OutdatingRefreshes DEF PrunedJournal
<1> HIDE DEF L
<1>17. Core(L, revision, armed, file, dd, clock) /\ Grows(K, L)
  BY <1>15, <1>16, ChangesKeepCore
<1>18. L \in Journals(clock)
  BY <1>17 DEF Core
<1>19. Grows(journal, L)
  BY <1>2, <1>12, <1>15, <1>17, <1>18, GrowsOn
<1>20. QED BY <1>1, <1>17, <1>19

\* Nothing is seen, nothing changes.
LEMMA UnseenFinalFits ==
  ASSUME clock \in Nat \ {0}, journal \in Journals(clock), NEW dd
  PROVE  FinalFits(journal.records, dd)
BY JournalParts DEF FinalFits

LEMMA OpenIsSomewhere ==
  ASSUME Typing, NEW w \in Open
  PROVE  w \in Wins /\ where[w] \in Places
BY DEF Typing, Open

LEMMA FinalRecordsFit ==
  ASSUME Typing, journal \in Journals(clock), NEW m \in FinalMatches
  PROVE  FinalFits(FinalRecords(m), dead)
<1> DEFINE records == journal.records
           boundRec == {w \in Open : bound[w] \in DOMAIN records}
           id(w) == IF w \in boundRec THEN bound[w] ELSE m[w]
           seenBy(r) == CHOOSE w \in Open : id(w) = r
           ids == {id(w) : w \in Open}
           now(r) == IF seenBy(r) \notin boundRec /\ r \in DOMAIN records
                     THEN SeenAt(records[r].place, clock)
                     ELSE SeenAt(where[seenBy(r)], clock)
           seen == [r \in ids |-> now(r)]
           unseen == [r \in DOMAIN records \ DOMAIN seen |-> MarkMissing(records[r], clock)]
           expired == {r \in DOMAIN unseen : IsExpired(unseen[r], clock)}
           rest == Without(unseen, expired)
           final == Over(seen, rest)
<1>1. FinalRecords(m) = final
  BY DEF FinalRecords
<1>2. /\ clock \in Nat \ {0} /\ DOMAIN records \subseteq Ids
      /\ \A r \in DOMAIN records : records[r] \in Dated(clock) /\ records[r].place \in Places
  BY JournalParts, DatedFacts, AutoLayoutAssumption DEF Typing
<1>3. ASSUME NEW w \in Open
      PROVE  /\ w \in boundRec => id(w) \in DOMAIN records
             /\ w \notin boundRec => id(w) \in Ids /\ (id(w) \in DOMAIN records \/ id(w) \notin dead)
  BY <1>2 DEF FinalMatches, Fresh
<1>4. ASSUME NEW r \in ids
      PROVE  seenBy(r) \in Open /\ id(seenBy(r)) = r
  BY <1>4
<1>5. ASSUME NEW r \in ids
      PROVE  /\ r \in Ids /\ (r \in DOMAIN records \/ r \notin dead)
             /\ now(r) \in Dated(clock) /\ now(r).seen = clock /\ now(r).missing = 0
  <2>1. r \in Ids /\ (r \in DOMAIN records \/ r \notin dead)
    BY <1>2, <1>3, <1>4
  <2>2. where[seenBy(r)] \in Places
    BY <1>4, OpenIsSomewhere
  <2>3. now(r) \in {SeenAt(place, clock) : place \in Places}
    BY <1>2, <2>2
  <2> HIDE DEF now
  <2>4. QED BY <1>2, <2>1, <2>3, SeenAtDated
<1> HIDE DEF now
<1>6. seen \in [ids -> Dated(clock)] /\ DOMAIN seen = ids /\ \A r \in ids : seen[r] = now(r)
  BY <1>5
<1>7. ids \in SUBSET Ids
  BY <1>5
<1> HIDE DEF ids, seen
<1>8. seen \in Partials(Dated(clock))
  BY <1>6, <1>7, PartialFrom
<1>9. /\ unseen \in [DOMAIN records \ ids -> Dated(clock)] /\ DOMAIN unseen = DOMAIN records \ ids
      /\ \A r \in DOMAIN records \ ids : unseen[r] = MarkMissing(records[r], clock)
  BY <1>2, <1>6, MarkMissingDated
<1> HIDE DEF unseen
<1>10. unseen \in Partials(Dated(clock))
  BY <1>2, <1>9, PartialFrom
<1>11. \A r \in expired : r \in DOMAIN records /\ Old(records[r], clock)
  BY <1>2, <1>9, MarkMissingDated
<1> HIDE DEF expired
<1>12. rest \in Partials(Dated(clock))
  BY <1>10, WithoutSome
<1>13. /\ DOMAIN rest = DOMAIN unseen \ expired
       /\ \A r \in DOMAIN unseen \ expired : rest[r] = unseen[r]
  BY WithoutParts
<1> HIDE DEF rest
<1>14. final \in Partials(Dated(clock))
  BY <1>8, <1>12, Overlaid
<1>15. /\ DOMAIN final = DOMAIN seen \cup DOMAIN rest
       /\ \A r \in DOMAIN seen : final[r] = seen[r]
       /\ \A r \in DOMAIN rest \ DOMAIN seen : final[r] = rest[r]
  BY OverParts
<1> HIDE DEF final
<1>16. \A r \in DOMAIN records \ DOMAIN final : Old(records[r], clock)
  BY <1>6, <1>9, <1>11, <1>13, <1>15
<1>17. \A r \in DOMAIN final \ DOMAIN records : r \notin dead /\ final[r].seen = clock
  BY <1>5, <1>6, <1>9, <1>13, <1>15
<1>18. ASSUME NEW r \in DOMAIN final \cap DOMAIN records
       PROVE  \/ final[r] \in {records[r], MarkMissing(records[r], clock)}
              \/ final[r].seen = clock /\ final[r].missing = 0
  <2>1. CASE r \in ids
    BY <1>5, <1>6, <1>15, <2>1
  <2>2. CASE r \notin ids
    BY <1>6, <1>9, <1>13, <1>15, <2>2
  <2>3. QED BY <2>1, <2>2
<1>19. QED BY <1>1, <1>14, <1>16, <1>17, <1>18 DEF FinalFits

-----------------------------------------------------------------------------
(* The rebase.                                                             *)

\* The deltas that are applied fit the file's record.
Applied(d, latest, t) ==
  IF d.kind = "expire" THEN latest # NoRec => Old(latest, t)
  ELSE latest # NoRec => latest.seen <= d.rec.seen \/ SatisfiedBy(latest, d.rec)

LEMMA AppliesToLatest ==
  ASSUME NEW t \in Nat \ {0}, NEW d \in DeltasAt(t), NEW latest \in Dated(t) \cup {NoRec},
         NEW rev, DeltaFits(d, t), d.baseRev # rev, DeltaApplies(d, latest, rev, t)
  PROVE  /\ Applied(d, latest, t)
         /\ latest = NoRec /\ d.kind # "expire" => d.base = NoRec
<1>1. /\ d.kind \in Kinds /\ d.rec.seen \in 1..t
      /\ latest # NoRec => latest \in Dated(t) /\ latest.seen \in 1..t
                           /\ RecordSemanticTimestamp(latest) = latest.seen
  BY DeltaParts, DatedFacts
<1>2. CASE latest = d.base
  BY <1>2 DEF DeltaFits, Applied
<1>3. CASE d.kind # "expire" /\ SatisfiedBy(latest, d.rec)
  BY <1>3 DEF Applied, SatisfiedBy
<1>4. CASE d.kind = "expire" /\ (latest = NoRec \/ IsExpired(latest, t))
  BY <1>1, <1>4, ExpiredIsOld DEF Applied
<1>5. CASE /\ d.kind \in Upserts /\ latest # NoRec /\ d.base # NoRec
           /\ d.changed > RecordSemanticTimestamp(latest)
  <2>1. d.kind # "expire" /\ d.rec.seen = d.changed
    BY <1>5 DEF DeltaFits, Upserts
  <2>2. QED BY <1>1, <1>5, <2>1 DEF Applied
<1>6. QED BY <1>2, <1>3, <1>4, <1>5 DEF DeltaApplies

LEMMA PreparedParts ==
  ASSUME NEW J, NEW latest
  PROVE  LET P == PrepareRecordDeltas(J, latest)
         IN  /\ P.satisfied \subseteq DOMAIN J.deltas
             /\ \A r \in P.satisfied : SatisfiedBy(RecAt(latest, r), J.deltas[r].rec)
             /\ P.deferred \subseteq DOMAIN J.deltas \ P.satisfied
             /\ P.ready = DOMAIN J.deltas \ (P.satisfied \cup P.deferred)
BY DEF PrepareRecordDeltas

LEMMA LaidOverParts ==
  ASSUME NEW t \in Nat \ {0}, NEW J \in Journals(t), NEW ready \in SUBSET DOMAIN J.deltas,
         NEW latest \in Partials(Dated(t)), NEW rev
  PROVE  LET B == RebaseRecordDeltas(J, ready, latest, rev, t)
         IN  /\ B.refused \subseteq ready /\ B.deletes \subseteq ready \ B.refused
             /\ \A r \in ready \ B.refused :
                  /\ DeltaApplies(J.deltas[r], RecAt(latest, r), rev, t)
                  /\ r \in B.deletes <=> J.deltas[r].kind = "expire"
             /\ B.records \in Partials(Dated(t))
             /\ \A r \in ready \ (B.refused \cup B.deletes) :
                  /\ ~SatisfiedBy(RecAt(latest, r), J.deltas[r].rec) =>
                       r \in DOMAIN B.records /\ B.records[r] = J.deltas[r].rec
                  /\ SatisfiedBy(RecAt(latest, r), J.deltas[r].rec) =>
                       r \in DOMAIN latest /\ r \in DOMAIN B.records /\ B.records[r] = latest[r]
             /\ \A r \in B.deletes : r \notin DOMAIN B.records
             /\ \A r \in Ids \ (ready \ B.refused) :
                  /\ r \in DOMAIN B.records <=> r \in DOMAIN latest
                  /\ r \in DOMAIN latest => B.records[r] = latest[r]
<1> DEFINE B == RebaseRecordDeltas(J, ready, latest, rev, t)
           refused == {r \in ready : ~DeltaApplies(J.deltas[r], RecAt(latest, r), rev, t)}
           deletes == {r \in ready \ refused : J.deltas[r].kind = "expire"}
           written == {r \in ready \ (refused \cup deletes) :
                         ~SatisfiedBy(RecAt(latest, r), J.deltas[r].rec)}
           new == [r \in written |-> J.deltas[r].rec]
           rest == Without(latest, deletes)
<1>1. B = [refused |-> refused, deletes |-> deletes, records |-> Over(new, rest)]
  BY DEF RebaseRecordDeltas
<1>2. /\ refused \subseteq ready /\ deletes \subseteq ready \ refused
      /\ \A r \in ready \ refused : /\ DeltaApplies(J.deltas[r], RecAt(latest, r), rev, t)
                                    /\ r \in deletes <=> J.deltas[r].kind = "expire"
      /\ written \subseteq ready \ (refused \cup deletes)
      /\ \A r \in ready \ (refused \cup deletes) :
           r \in written <=> ~SatisfiedBy(RecAt(latest, r), J.deltas[r].rec)
  OBVIOUS
<1>3. written \in SUBSET Ids /\ \A r \in written : J.deltas[r].rec \in Dated(t)
  <2>1. \A r \in written : r \in Ids /\ J.deltas[r] \in DeltasAt(t)
    BY JournalParts
  <2>2. QED BY <2>1, DeltaParts
<1>4. /\ new \in [written -> Dated(t)] /\ DOMAIN new = written
      /\ \A r \in written : new[r] = J.deltas[r].rec
  BY <1>3
<1> HIDE DEF refused, deletes, written, new
<1>5. new \in Partials(Dated(t)) /\ rest \in Partials(Dated(t))
  BY <1>3, <1>4, PartialFrom, WithoutSome
<1>6. DOMAIN rest = DOMAIN latest \ deletes /\ \A r \in DOMAIN latest \ deletes : rest[r] = latest[r]
  BY WithoutParts
<1> HIDE DEF rest
<1>7. Over(new, rest) \in Partials(Dated(t))
  BY <1>5, Overlaid
<1>8. /\ DOMAIN Over(new, rest) = DOMAIN new \cup DOMAIN rest
      /\ \A r \in DOMAIN new : Over(new, rest)[r] = new[r]
      /\ \A r \in DOMAIN rest \ DOMAIN new : Over(new, rest)[r] = rest[r]
  BY OverParts
<1>9. B.refused = refused /\ B.deletes = deletes /\ B.records = Over(new, rest)
  BY <1>1
<1> HIDE DEF B
<1>10. ASSUME NEW r \in ready \ (refused \cup deletes)
       PROVE  /\ ~SatisfiedBy(RecAt(latest, r), J.deltas[r].rec) =>
                   r \in DOMAIN B.records /\ B.records[r] = J.deltas[r].rec
              /\ SatisfiedBy(RecAt(latest, r), J.deltas[r].rec) =>
                   r \in DOMAIN latest /\ r \in DOMAIN B.records /\ B.records[r] = latest[r]
  <2>1. CASE r \in written
    BY <1>2, <1>4, <1>8, <1>9, <2>1
  <2>2. CASE r \notin written
    <3>1. SatisfiedBy(RecAt(latest, r), J.deltas[r].rec) /\ r \in DOMAIN latest
      BY <1>2, <2>2 DEF SatisfiedBy, RecAt
    <3>2. QED BY <1>4, <1>6, <1>8, <1>9, <2>2, <3>1
  <2>3. QED BY <2>1, <2>2
<1>11. /\ \A r \in deletes : r \notin DOMAIN B.records
       /\ \A r \in Ids \ (ready \ refused) :
            /\ r \in DOMAIN B.records <=> r \in DOMAIN latest
            /\ r \in DOMAIN latest => B.records[r] = latest[r]
  BY <1>2, <1>4, <1>6, <1>8, <1>9
<1>12. QED BY <1>2, <1>7, <1>9, <1>10, <1>11 DEF B

LEMMA TouchedParts ==
  ASSUME NEW t \in Nat \ {0}, NEW touches \in Partials(TouchesAt(t)), NEW recs \in Partials(Dated(t))
  PROVE  LET U == ReapplyValidatedTouches(touches, recs)
         IN  /\ U.satisfied \subseteq DOMAIN touches
             /\ U.deferred \subseteq DOMAIN touches \ U.satisfied
             /\ U.records \in Partials(Dated(t)) /\ DOMAIN U.records = DOMAIN recs
             /\ \A r \in DOMAIN recs : U.records[r].seen >= recs[r].seen
             /\ \A r \in DOMAIN recs \ (DOMAIN touches \ U.satisfied) : U.records[r] = recs[r]
<1> DEFINE U == ReapplyValidatedTouches(touches, recs)
           present == DOMAIN touches \cap DOMAIN recs
           satisfied == {r \in present : recs[r].seen >= touches[r].seen /\ recs[r].missing = 0}
           applied == {r \in present \ satisfied : touches[r].current}
           raised(r) == SeenAt(recs[r].place, Later(recs[r].seen, touches[r].seen))
           new == [r \in applied |-> raised(r)]
<1>1. U = [satisfied |-> satisfied, deferred |-> DOMAIN touches \ (satisfied \cup applied),
           records |-> Over(new, recs)]
  BY DEF ReapplyValidatedTouches
<1>2. /\ DOMAIN recs \subseteq Ids /\ \A r \in DOMAIN recs : recs[r] \in Dated(t)
      /\ \A r \in DOMAIN touches : touches[r] \in TouchesAt(t)
  BY IsPartialOf
<1>3. ASSUME NEW r \in applied
      PROVE  raised(r) \in Dated(t) /\ raised(r).seen >= recs[r].seen
  <2>1. /\ recs[r] \in Dated(t) /\ touches[r].seen \in 1..t /\ recs[r].seen \in 1..t
        /\ recs[r].place \in Places
    BY <1>2, DatedFacts DEF TouchesAt
  <2>2. Later(recs[r].seen, touches[r].seen) \in 1..t /\ Later(recs[r].seen, touches[r].seen) >= recs[r].seen
    BY <2>1 DEF Later
  <2>3. QED BY <2>1, <2>2 DEF SeenAt, Dated
<1>4. applied \in SUBSET Ids /\ applied \subseteq DOMAIN recs /\ applied \subseteq DOMAIN touches \ satisfied
  BY <1>2
<1>5. /\ new \in [applied -> Dated(t)] /\ DOMAIN new = applied
      /\ \A r \in applied : new[r] = raised(r)
  BY <1>3
<1>6. satisfied \subseteq DOMAIN touches
  OBVIOUS
<1> HIDE DEF satisfied, applied, raised, new
<1>7. new \in Partials(Dated(t))
  BY <1>4, <1>5, PartialFrom
<1>8. Over(new, recs) \in Partials(Dated(t))
  BY <1>7, Overlaid
<1>9. /\ DOMAIN Over(new, recs) = DOMAIN new \cup DOMAIN recs
      /\ \A r \in DOMAIN new : Over(new, recs)[r] = new[r]
      /\ \A r \in DOMAIN recs \ DOMAIN new : Over(new, recs)[r] = recs[r]
  BY OverParts
<1>10. /\ U.satisfied = satisfied /\ U.deferred = DOMAIN touches \ (satisfied \cup applied)
       /\ U.records = Over(new, recs)
  BY <1>1
<1>11. \A r \in DOMAIN recs : recs[r].seen >= recs[r].seen
  <2>1. \A r \in DOMAIN recs : recs[r].seen \in 1..t
    BY <1>2, DatedFacts
  <2>2. QED BY <2>1
<1> HIDE DEF U
<1>12. ASSUME NEW r \in DOMAIN recs PROVE U.records[r].seen >= recs[r].seen
  BY <1>3, <1>5, <1>9, <1>10, <1>11
<1>13. \A r \in DOMAIN recs \ (DOMAIN touches \ U.satisfied) : U.records[r] = recs[r]
  BY <1>4, <1>5, <1>9, <1>10
<1>14. DOMAIN U.records = DOMAIN recs
  BY <1>4, <1>5, <1>9, <1>10
<1>15. QED BY <1>6, <1>8, <1>10, <1>12, <1>13, <1>14 DEF U

\* What is left of the journal: a change that is not in the file yet.
LeftOver(J, satisfied, aligned, latest, rev, ds, t) ==
  /\ ds \in Partials(DeltasAt(t)) /\ DOMAIN ds = DOMAIN J.deltas \ satisfied
  /\ \A r \in DOMAIN ds :
       /\ ds[r].kind = J.deltas[r].kind /\ ds[r].rec = J.deltas[r].rec
       /\ ds[r].changed = J.deltas[r].changed
       /\ r \in aligned => ds[r].base = RecAt(latest, r) /\ ds[r].baseRev = rev
       /\ r \notin aligned => ds[r] = J.deltas[r]

LEMMA ResidualParts ==
  ASSUME NEW t \in Nat \ {0}, NEW J \in Journals(t), NEW satisfied, NEW aligned,
         NEW latest \in Partials(Dated(t)), NEW rev \in Revisions
  PROVE  LeftOver(J, satisfied, aligned, latest, rev,
                  ResidualDeltas(J, satisfied, aligned, latest, rev), t)
<1> DEFINE left == DOMAIN J.deltas \ satisfied
           ds == ResidualDeltas(J, satisfied, aligned, latest, rev)
           residual(r) == IF r \in aligned
                          THEN [J.deltas[r] EXCEPT !.base = RecAt(latest, r), !.baseRev = rev]
                          ELSE J.deltas[r]
<1>1. ds = [r \in left |-> residual(r)]
  BY DEF ResidualDeltas
<1>2. left \in SUBSET Ids /\ \A r \in left : J.deltas[r] \in DeltasAt(t)
  BY JournalParts
<1>3. ASSUME NEW r \in left
      PROVE  /\ residual(r) \in DeltasAt(t)
             /\ residual(r).kind = J.deltas[r].kind /\ residual(r).rec = J.deltas[r].rec
             /\ residual(r).changed = J.deltas[r].changed
             /\ r \in aligned => residual(r).base = RecAt(latest, r) /\ residual(r).baseRev = rev
             /\ r \notin aligned => residual(r) = J.deltas[r]
  <2>1. RecAt(latest, r) \in Dated(t) \cup {NoRec}
    BY RecAtFacts
  <2>2. QED BY <1>2, <2>1 DEF DeltasAt
<1> HIDE DEF residual
<1>4. ds \in [left -> DeltasAt(t)] /\ DOMAIN ds = left /\ \A r \in left : ds[r] = residual(r)
  BY <1>1, <1>3
<1> HIDE DEF ds
<1>5. ds \in Partials(DeltasAt(t))
  BY <1>2, <1>4, PartialFrom
<1>6. LeftOver(J, satisfied, aligned, latest, rev, ds, t)
  BY <1>3, <1>4, <1>5 DEF LeftOver
<1>7. QED BY <1>6 DEF ds

(* The journal carried over to the file's records says again what the      *)
(* memory knows that the file does not.  A change leaves it only when the  *)
(* file has it.                                                            *)
LEMMA RebasingKeeps ==
  ASSUME NEW t \in Nat \ {0}, NEW J, NEW rev, NEW arm, NEW f \in FilesAt(t), NEW dd,
         Core(J, rev, arm, f, dd, t), rev # f.rev, dd \cap DOMAIN f.recs = {}
  PROVE  LET K == RebasedJournal(J, f.recs, f.rev, t)
         IN  /\ Core(K, f.rev, Unarmed, f, dd, t)
             /\ \A r \in DOMAIN J.deltas \ DOMAIN K.deltas :
                  r \in DOMAIN f.recs /\ f.recs[r].seen >= J.deltas[r].rec.seen
             /\ \A r \in DOMAIN K.deltas :
                  r \in DOMAIN J.deltas /\ K.deltas[r].rec = J.deltas[r].rec
<1> DEFINE latest == f.recs
           P == PrepareRecordDeltas(J, latest)
           B == RebaseRecordDeltas(J, P.ready, latest, f.rev, t)
           ts == Without(J.touches, B.deletes)
           U == ReapplyValidatedTouches(ts, B.records)
           open == P.deferred \cup B.refused \cup U.deferred
           aligned == P.ready \ B.refused
           ds == ResidualDeltas(J, P.satisfied, aligned, latest, f.rev)
           left == Without(J.touches, B.deletes \cup U.satisfied)
           conflict(r) == [rev |-> f.rev, rec |-> RecAt(U.records, r)]
           cs == [r \in open |-> conflict(r)]
           K == RebasedJournal(J, f.recs, f.rev, t)
           recAt(r) == RecAt(latest, r)
<1>1. K = [records |-> U.records, deltas |-> ds, touches |-> left, conflicts |-> cs]
  BY DEF RebasedJournal
<1>2. /\ J \in Journals(t) /\ Chained(J, t) /\ latest \in Partials(Dated(t)) /\ f.rev \in Revisions
      /\ \A r \in DOMAIN J.deltas : J.deltas[r].baseRev # f.rev
  BY DEF Core, FilesAt, Current
<1>3. /\ P.satisfied \subseteq DOMAIN J.deltas
      /\ \A r \in P.satisfied : SatisfiedBy(recAt(r), J.deltas[r].rec)
      /\ P.deferred \subseteq DOMAIN J.deltas \ P.satisfied
      /\ P.ready = DOMAIN J.deltas \ (P.satisfied \cup P.deferred)
  BY PreparedParts
<1> HIDE DEF P
<1>4. /\ B.refused \subseteq P.ready /\ B.deletes \subseteq aligned
      /\ \A r \in aligned : /\ DeltaApplies(J.deltas[r], recAt(r), f.rev, t)
                            /\ r \in B.deletes <=> J.deltas[r].kind = "expire"
      /\ B.records \in Partials(Dated(t))
      /\ \A r \in aligned \ B.deletes :
           /\ ~SatisfiedBy(recAt(r), J.deltas[r].rec) =>
                r \in DOMAIN B.records /\ B.records[r] = J.deltas[r].rec
           /\ SatisfiedBy(recAt(r), J.deltas[r].rec) =>
                r \in DOMAIN latest /\ r \in DOMAIN B.records /\ B.records[r] = latest[r]
      /\ \A r \in B.deletes : r \notin DOMAIN B.records
      /\ \A r \in Ids \ aligned : /\ r \in DOMAIN B.records <=> r \in DOMAIN latest
                                  /\ r \in DOMAIN latest => B.records[r] = latest[r]
  <2>1. P.ready \in SUBSET DOMAIN J.deltas
    BY <1>3
  <2>2. aligned \ B.deletes = P.ready \ (B.refused \cup B.deletes)
    OBVIOUS
  <2> DEFINE Z == P.ready
  <2>3. Z \in SUBSET DOMAIN J.deltas /\ B = RebaseRecordDeltas(J, Z, latest, f.rev, t)
    BY <2>1
  <2> HIDE DEF Z, B, latest
  <2>4. LET C == RebaseRecordDeltas(J, Z, latest, f.rev, t)
        IN  /\ C.refused \subseteq Z /\ C.deletes \subseteq Z \ C.refused
            /\ \A r \in Z \ C.refused :
                 /\ DeltaApplies(J.deltas[r], RecAt(latest, r), f.rev, t)
                 /\ r \in C.deletes <=> J.deltas[r].kind = "expire"
            /\ C.records \in Partials(Dated(t))
            /\ \A r \in Z \ (C.refused \cup C.deletes) :
                 /\ ~SatisfiedBy(RecAt(latest, r), J.deltas[r].rec) =>
                      r \in DOMAIN C.records /\ C.records[r] = J.deltas[r].rec
                 /\ SatisfiedBy(RecAt(latest, r), J.deltas[r].rec) =>
                      r \in DOMAIN latest /\ r \in DOMAIN C.records /\ C.records[r] = latest[r]
            /\ \A r \in C.deletes : r \notin DOMAIN C.records
            /\ \A r \in Ids \ (Z \ C.refused) :
                 /\ r \in DOMAIN C.records <=> r \in DOMAIN latest
                 /\ r \in DOMAIN latest => C.records[r] = latest[r]
    BY <1>2, <2>3, LaidOverParts
  <2>5. Z = P.ready
    BY DEF Z
  <2>6. QED BY <2>2, <2>3, <2>4, <2>5
<1> HIDE DEF B
<1>5. J.touches \in Partials(TouchesAt(t))
  BY <1>2, JournalParts
<1>6. ts \in Partials(TouchesAt(t)) /\ left \in Partials(TouchesAt(t))
  BY <1>5, WithoutSome
<1>7. DOMAIN ts = DOMAIN J.touches \ B.deletes /\ DOMAIN left = DOMAIN J.touches \ (B.deletes \cup U.satisfied)
  BY WithoutParts
<1> HIDE DEF ts, left
<1>8. /\ U.satisfied \subseteq DOMAIN ts /\ U.deferred \subseteq DOMAIN ts \ U.satisfied
      /\ U.records \in Partials(Dated(t)) /\ DOMAIN U.records = DOMAIN B.records
      /\ \A r \in DOMAIN B.records : U.records[r].seen >= B.records[r].seen
      /\ \A r \in DOMAIN B.records \ (DOMAIN ts \ U.satisfied) : U.records[r] = B.records[r]
  BY <1>4, <1>6, TouchedParts
<1> HIDE DEF U
<1>9. /\ ds \in Partials(DeltasAt(t)) /\ DOMAIN ds = DOMAIN J.deltas \ P.satisfied
      /\ \A r \in DOMAIN ds :
           /\ ds[r].kind = J.deltas[r].kind /\ ds[r].rec = J.deltas[r].rec
           /\ ds[r].changed = J.deltas[r].changed
           /\ r \in aligned => ds[r].base = recAt(r) /\ ds[r].baseRev = f.rev
           /\ r \notin aligned => ds[r] = J.deltas[r]
  <2> DEFINE Z == P.satisfied
             n == f.rev
  <2>1. J \in Journals(t) /\ latest \in Partials(Dated(t)) /\ n \in Revisions
    BY <1>2
  <2>2. ds = ResidualDeltas(J, Z, aligned, latest, n)
    OBVIOUS
  <2> HIDE DEF aligned, Z, latest, ds, n
  <2>3. LeftOver(J, Z, aligned, latest, n, ds, t)
    BY <2>1, <2>2, ResidualParts
  <2>4. QED BY <2>3 DEF LeftOver, Z, n, recAt
<1> HIDE DEF ds
<1>10. open \in SUBSET Ids /\ open \subseteq DOMAIN ds \cup DOMAIN left
  BY <1>2, <1>3, <1>4, <1>7, <1>8, <1>9, JournalParts
<1>11. /\ cs \in [open -> ConflictsAt(t)] /\ DOMAIN cs = open
  <2>1. \A r \in open : RecAt(U.records, r) \in Dated(t) \cup {NoRec}
    BY <1>8, RecAtFacts
  <2>2. QED BY <1>2, <2>1 DEF ConflictsAt
<1> HIDE DEF cs
<1>12. cs \in Partials(ConflictsAt(t))
  BY <1>10, <1>11, PartialFrom
<1>13. K \in Journals(t)
  BY <1>1, <1>6, <1>8, <1>9, <1>12, JournalFrom
<1>14. K.records = U.records /\ K.deltas = ds /\ K.touches = left /\ K.conflicts = cs
  BY <1>1
<1> HIDE DEF K, open
<1>15. ConflictsAreOpen(K)
  BY <1>10, <1>11, <1>14 DEF ConflictsAreOpen
<1>16. ASSUME NEW r \in aligned
       PROVE  /\ r \in DOMAIN J.deltas /\ r \in DOMAIN ds /\ J.deltas[r] \in DeltasAt(t)
              /\ recAt(r) \in Dated(t) \cup {NoRec} /\ DeltaFits(J.deltas[r], t)
              /\ Applied(J.deltas[r], recAt(r), t)
              /\ recAt(r) = NoRec /\ J.deltas[r].kind # "expire" => J.deltas[r].base = NoRec
  <2>1. r \in DOMAIN J.deltas /\ r \in DOMAIN ds /\ J.deltas[r] \in DeltasAt(t)
    BY <1>2, <1>3, <1>4, <1>9, JournalParts
  <2>2. recAt(r) \in Dated(t) \cup {NoRec}
    BY <1>2, RecAtFacts
  <2>3. DeltaFits(J.deltas[r], t) /\ J.deltas[r].baseRev # f.rev
    BY <1>2, <2>1 DEF Chained
  <2> HIDE DEF aligned, recAt
  <2>4. DeltaApplies(J.deltas[r], recAt(r), f.rev, t)
    BY <1>4
  <2>5. QED BY <2>1, <2>2, <2>3, <2>4, AppliesToLatest
<1>17. \A r \in DOMAIN latest : latest[r] \in Dated(t) /\ latest[r].seen \in 1..t /\ recAt(r) = latest[r]
  BY <1>2, IsPartialOf, DatedFacts DEF RecAt
<1>18. \A r \in Ids \ DOMAIN latest : recAt(r) = NoRec
  BY DEF RecAt
<1>19. \A r \in DOMAIN B.records : B.records[r].seen \in 1..t /\ U.records[r].seen \in 1..t
  <2>1. \A r \in DOMAIN B.records : B.records[r] \in Dated(t) /\ U.records[r] \in Dated(t)
    BY <1>4, <1>8, IsPartialOf
  <2>2. QED BY <2>1, DatedFacts
<1> HIDE DEF recAt, latest
\* An applied upsert is in the memory, over the file's record.
<1>20. ASSUME NEW r \in aligned, J.deltas[r].kind # "expire"
       PROVE  /\ r \in DOMAIN K.records /\ K.records[r].seen >= J.deltas[r].rec.seen
              /\ recAt(r) # NoRec => K.records[r].seen >= recAt(r).seen
  <2>1. r \notin B.deletes /\ J.deltas[r].rec.seen \in 1..t
    BY <1>4, <1>16, <1>20, DeltaParts
  <2>2. CASE SatisfiedBy(recAt(r), J.deltas[r].rec)
    <3>1. /\ r \in DOMAIN latest /\ r \in DOMAIN B.records /\ B.records[r] = latest[r]
          /\ latest[r].seen >= J.deltas[r].rec.seen
      BY <1>4, <1>17, <2>1, <2>2 DEF SatisfiedBy
    <3>2. QED BY <1>8, <1>14, <1>17, <1>19, <2>1, <3>1
  <2>3. CASE ~SatisfiedBy(recAt(r), J.deltas[r].rec)
    <3>1. r \in DOMAIN B.records /\ B.records[r] = J.deltas[r].rec
      BY <1>4, <2>1, <2>3
    <3>2. recAt(r) # NoRec => recAt(r) \in Dated(t) /\ recAt(r).seen \in 1..t
                              /\ recAt(r).seen <= J.deltas[r].rec.seen
      BY <1>16, <1>20, <2>3, DatedFacts DEF Applied
    <3>3. QED BY <1>8, <1>14, <1>19, <2>1, <3>1, <3>2
  <2>4. QED BY <2>2, <2>3
<1>21. Chained(K, t)
  <2> SUFFICES ASSUME NEW r \in DOMAIN K.deltas
               PROVE  /\ DeltaFits(K.deltas[r], t)
                      /\ r \notin DOMAIN K.conflicts => MemoryHas(K, r)
    BY DEF Chained
  <2>1. r \in DOMAIN J.deltas /\ DeltaFits(J.deltas[r], t)
    BY <1>2, <1>9, <1>14 DEF Chained
  <2>2. CASE r \in aligned
    <3>1. /\ K.deltas[r].kind = J.deltas[r].kind /\ K.deltas[r].rec = J.deltas[r].rec
          /\ K.deltas[r].changed = J.deltas[r].changed /\ K.deltas[r].base = recAt(r)
      BY <1>9, <1>14, <2>2
    <3>2. DeltaFits(K.deltas[r], t)
      BY <1>16, <2>1, <2>2, <3>1 DEF DeltaFits, Applied
    <3>3. CASE J.deltas[r].kind = "expire"
      BY <1>4, <1>8, <1>14, <2>2, <3>1, <3>2, <3>3 DEF MemoryHas
    <3>4. CASE J.deltas[r].kind # "expire"
      BY <1>20, <2>2, <3>1, <3>2, <3>4 DEF MemoryHas
    <3>5. QED BY <3>3, <3>4
  <2>3. CASE r \notin aligned
    <3>1. r \in DOMAIN K.conflicts
      BY <1>3, <1>9, <1>11, <1>14, <2>3 DEF open
    <3>2. K.deltas[r] = J.deltas[r]
      BY <1>9, <1>14, <2>3
    <3>3. QED BY <2>1, <3>1, <3>2
  <2>4. QED BY <2>2, <2>3
<1>22. Explains(K, f.recs)
  <2> SUFFICES ASSUME NEW r \in Ids \ (DOMAIN K.deltas \cup DOMAIN K.touches)
               PROVE  /\ r \in DOMAIN K.records <=> r \in DOMAIN latest
                      /\ r \in DOMAIN latest => SameSemantic(K.records[r], latest[r])
    BY DEF Explains, latest
  <2>1. r \notin aligned /\ r \notin B.deletes
    BY <1>3, <1>4, <1>9, <1>14
  <2>2. r \notin DOMAIN ts \ U.satisfied
    BY <1>7, <1>14, <2>1
  <2>3. /\ r \in DOMAIN K.records <=> r \in DOMAIN latest
        /\ r \in DOMAIN latest => K.records[r] = latest[r]
    BY <1>4, <1>8, <1>14, <2>1, <2>2
  <2>4. QED BY <2>3 DEF SameSemantic
<1>23. Supersedes(K, f.recs, t)
  <2> SUFFICES ASSUME NEW r \in DOMAIN latest
               PROVE  IF r \in DOMAIN K.records THEN K.records[r].seen >= latest[r].seen
                                                ELSE Old(latest[r], t)
    BY DEF Supersedes, latest
  <2>1. r \in Ids /\ recAt(r) = latest[r] /\ latest[r] # NoRec
    BY <1>2, <1>17, IsPartialOf, DatedFacts
  <2>2. CASE r \in aligned /\ J.deltas[r].kind = "expire"
    <3>1. r \notin DOMAIN K.records
      BY <1>4, <1>8, <1>14, <2>2
    <3>2. Old(latest[r], t)
      BY <1>16, <2>1, <2>2 DEF Applied
    <3>3. QED BY <3>1, <3>2
  <2>3. CASE r \in aligned /\ J.deltas[r].kind # "expire"
    BY <1>20, <2>1, <2>3
  <2>4. CASE r \notin aligned
    BY <1>4, <1>8, <1>14, <1>17, <2>1, <2>4
  <2>5. QED BY <2>2, <2>3, <2>4
<1>24. ASSUME NEW r \in dd \cap aligned, J.deltas[r].kind # "expire" PROVE FALSE
  <2>1. r \in Ids /\ r \notin DOMAIN latest
    BY <1>2, <1>3, <1>4, JournalParts DEF latest
  <2>2. J.deltas[r].base = NoRec
    BY <1>16, <1>18, <1>24, <2>1
  <2>3. J.deltas[r].base # NoRec
    BY <1>16, <1>24 DEF Core, Buried
  <2>4. QED BY <2>2, <2>3
<1>25. Buried(K, f.rev, f, dd)
  <2>1. ASSUME NEW r \in dd \cap DOMAIN K.records PROVE FALSE
    <3>1. r \in DOMAIN B.records /\ r \in Ids /\ r \notin DOMAIN latest
      BY <1>8, <1>14, <2>1, IsPartialOf DEF latest
    <3>2. r \in aligned /\ r \notin B.deletes
      BY <1>4, <3>1
    <3>3. QED BY <1>4, <1>24, <2>1, <3>2
  <2>2. ASSUME NEW r \in dd \cap DOMAIN K.deltas, K.deltas[r].kind # "expire"
        PROVE  K.deltas[r].base # NoRec /\ K.deltas[r].baseRev # f.rev
    <3>1. r \in DOMAIN J.deltas /\ J.deltas[r].kind # "expire"
      BY <1>9, <1>14, <2>2
    <3>2. r \notin aligned
      BY <1>24, <2>2, <3>1
    <3>3. K.deltas[r] = J.deltas[r]
      BY <1>9, <1>14, <2>2, <3>2
    <3>4. QED BY <2>2, <3>1, <3>3 DEF Core, Buried
  <2>3. QED BY <2>1, <2>2 DEF Buried
<1>26. Core(K, f.rev, Unarmed, f, dd, t)
  BY <1>13, <1>15, <1>21, <1>22, <1>23, <1>25 DEF Core, Current, Candidate, Unarmed
<1>27. ASSUME NEW r \in DOMAIN J.deltas \ DOMAIN K.deltas
       PROVE  r \in DOMAIN f.recs /\ f.recs[r].seen >= J.deltas[r].rec.seen
  <2>1. r \in Ids /\ SatisfiedBy(recAt(r), J.deltas[r].rec)
    BY <1>2, <1>3, <1>9, <1>14, JournalParts
  <2>2. r \in DOMAIN latest
    BY <1>18, <2>1 DEF SatisfiedBy
  <2>3. QED BY <1>17, <2>1, <2>2 DEF SatisfiedBy, latest
<1>28. \A r \in DOMAIN K.deltas : r \in DOMAIN J.deltas /\ K.deltas[r].rec = J.deltas[r].rec
  BY <1>9, <1>14
<1>29. QED BY <1>26, <1>27, <1>28 DEF K

-----------------------------------------------------------------------------
(* The revision of a write is one nobody remembers.                        *)

LEMMA FewRevisions ==
  ASSUME NEW D \in SUBSET Ids, NEW T, NEW g \in Surjection(D, T)
  PROVE  /\ IsFiniteSet(T) /\ Cardinality(T) <= Cardinality(Ids)
         /\ Cardinality(T) \in Nat /\ Cardinality(Ids) \in Nat
<1>1. /\ IsFiniteSet(D) /\ Cardinality(D) <= Cardinality(Ids)
      /\ Cardinality(D) \in Nat /\ Cardinality(Ids) \in Nat
  BY AutoLayoutAssumption, FS_Subset, FS_CardinalityType
<1>2. IsFiniteSet(T) /\ Cardinality(T) <= Cardinality(D)
  BY <1>1, FS_Surjection
<1>3. Cardinality(T) \in Nat
  BY <1>2, FS_CardinalityType
<1>4. QED BY <1>1, <1>2, <1>3

LEMMA OneMore ==
  ASSUME NEW S, NEW x, IsFiniteSet(S)
  PROVE  /\ IsFiniteSet(S \cup {x}) /\ Cardinality(S) \in Nat
         /\ Cardinality(S \cup {x}) \in Nat /\ Cardinality(S \cup {x}) <= Cardinality(S) + 1
<1>1. Cardinality(S) \in Nat
  BY FS_CardinalityType
<1>2. CASE x \in S
  <2> DEFINE U == S \cup {x}
  <2>1. U = S
    BY <1>2
  <2> HIDE DEF U
  <2>2. /\ IsFiniteSet(U) /\ Cardinality(U) \in Nat /\ Cardinality(S) \in Nat
        /\ Cardinality(U) <= Cardinality(S) + 1
    BY <1>1, <2>1
  <2>3. QED BY <2>2 DEF U
<1>3. CASE x \notin S
  BY <1>1, <1>3, FS_AddElement
<1>4. QED BY <1>2, <1>3

LEMMA Together ==
  ASSUME NEW S, NEW T, IsFiniteSet(S), IsFiniteSet(T)
  PROVE  /\ IsFiniteSet(S \cup T) /\ Cardinality(S \cup T) \in Nat
         /\ Cardinality(S \cup T) <= Cardinality(S) + Cardinality(T)
<1>1. IsFiniteSet(S \cap T)
  BY FS_Subset
<1>2. Cardinality(S \cap T) \in Nat /\ Cardinality(S) \in Nat /\ Cardinality(T) \in Nat
  BY <1>1, FS_CardinalityType
<1>3. /\ IsFiniteSet(S \cup T)
      /\ Cardinality(S \cup T) = Cardinality(S) + Cardinality(T) - Cardinality(S \cap T)
  BY FS_Union
<1>4. Cardinality(S \cup T) \in Nat
  BY <1>3, FS_CardinalityType
<1>5. QED BY <1>2, <1>3, <1>4

LEMMA LeastOf ==
  ASSUME NEW S, S \subseteq Nat, S # {}
  PROVE  \E x \in S : \A y \in S : x <= y
<1>1. PICK x \in S : \A y \in S : ~ (<<y, x>> \in OpToRel(<, Nat))
  BY NatLessThanWellFounded, WFMin
<1>2. ASSUME NEW y \in S, y < x PROVE FALSE
  <2>1. <<y, x>> \in {ss \in Nat \X Nat : ss[1] < ss[2]}
    BY <1>2
  <2>2. QED BY <1>1, <2>1 DEF OpToRel
<1>3. QED BY <1>2

LEMMA RevisionIsNew ==
  ASSUME NEW t \in Nat \ {0}, NEW J \in Journals(t), NEW rev, NEW current
  PROVE  LET n == NewRevision(J, rev, current)
         IN  /\ n \in Revisions \ {0} /\ n # rev /\ n # current
             /\ \A r \in DOMAIN J.deltas : J.deltas[r].baseRev # n
             /\ \A r \in DOMAIN J.conflicts : J.conflicts[r].rev # n
<1> DEFINE bases == {J.deltas[r].baseRev : r \in DOMAIN J.deltas}
           revs == {J.conflicts[r].rev : r \in DOMAIN J.conflicts}
           known == bases \cup revs \cup {rev, current}
           N == 2 * Cardinality(Ids) + 3
           free == 1..N \ known
           n == NewRevision(J, rev, current)
<1>1. n = CHOOSE x \in 1..N : x \notin known /\ \A k \in 1..x - 1 : k \in known
  BY DEF NewRevision
<1>2. Cardinality(Ids) \in Nat /\ N \in Nat
  BY AutoLayoutAssumption, FS_CardinalityType
<1>3. /\ IsFiniteSet(bases) /\ Cardinality(bases) <= Cardinality(Ids)
      /\ Cardinality(bases) \in Nat
  <2> DEFINE g == [r \in DOMAIN J.deltas |-> J.deltas[r].baseRev]
  <2>1. DOMAIN J.deltas \in SUBSET Ids
    BY JournalParts
  <2>2. g \in Surjection(DOMAIN J.deltas, bases)
    BY DEF Surjection
  <2> HIDE DEF g, bases
  <2>3. QED BY <2>1, <2>2, FewRevisions
<1>4. /\ IsFiniteSet(revs) /\ Cardinality(revs) <= Cardinality(Ids)
      /\ Cardinality(revs) \in Nat
  <2> DEFINE g == [r \in DOMAIN J.conflicts |-> J.conflicts[r].rev]
  <2>1. DOMAIN J.conflicts \in SUBSET Ids
    BY JournalParts
  <2>2. g \in Surjection(DOMAIN J.conflicts, revs)
    BY DEF Surjection
  <2> HIDE DEF g, revs
  <2>3. QED BY <2>1, <2>2, FewRevisions
<1> HIDE DEF n, bases, revs
<1>5. IsFiniteSet(known) /\ Cardinality(known) < N
  <2> DEFINE A == bases \cup revs
             B == A \cup {rev}
  <2>1. /\ IsFiniteSet(A) /\ Cardinality(A) \in Nat
        /\ Cardinality(A) <= Cardinality(bases) + Cardinality(revs)
    BY <1>3, <1>4, Together
  <2>2. known = B \cup {current}
    OBVIOUS
  <2> HIDE DEF A, known
  <2>3. /\ IsFiniteSet(B) /\ Cardinality(B) \in Nat
        /\ Cardinality(B) <= Cardinality(A) + 1
    BY <2>1, OneMore
  <2> HIDE DEF B
  <2>4. /\ IsFiniteSet(known) /\ Cardinality(known) \in Nat
        /\ Cardinality(known) <= Cardinality(B) + 1
    BY <2>2, <2>3, OneMore
  <2>5. QED BY <1>2, <1>3, <1>4, <2>1, <2>3, <2>4
<1>6. free # {}
  <2>1. SUFFICES ASSUME free = {} PROVE FALSE
    OBVIOUS
  <2>2. 1..N \subseteq known
    BY <2>1
  <2> HIDE DEF known, N
  <2>3. Cardinality(1..N) <= Cardinality(known)
    BY <1>5, <2>2, FS_Subset
  <2>4. Cardinality(1..N) = N
    BY <1>2, FS_Interval DEF N
  <2>5. Cardinality(known) \in Nat
    BY <1>5, FS_CardinalityType
  <2>6. QED BY <1>2, <1>5, <2>3, <2>4, <2>5
<1> HIDE DEF known, N
<1>7. free \subseteq Nat
  BY <1>2
<1>8. PICK x \in free : \A y \in free : x <= y
  BY <1>6, <1>7, LeastOf
<1>9. x \in 1..N /\ x \notin known /\ \A k \in 1..x - 1 : k \in known
  <2>1. x \in 1..N /\ x \notin known
    OBVIOUS
  <2>2. ASSUME NEW k \in 1..x - 1, k \notin known PROVE FALSE
    <3>1. k \in free /\ k < x
      BY <1>2, <2>1, <2>2
    <3>2. QED BY <1>7, <1>8, <3>1
  <2>3. QED BY <2>1, <2>2
<1>10. n \in 1..N /\ n \notin known
  BY <1>1, <1>9
<1>11. n \in Revisions \ {0}
  BY <1>2, <1>10 DEF Revisions, N
<1>12. /\ n # rev /\ n # current
       /\ \A r \in DOMAIN J.deltas : J.deltas[r].baseRev # n
       /\ \A r \in DOMAIN J.conflicts : J.conflicts[r].rev # n
  BY <1>10 DEF known, bases, revs
<1>13. QED BY <1>11, <1>12 DEF n

-----------------------------------------------------------------------------
(* The write of the file.                                                  *)

States == [J : Journals(clock), rev : Revisions, armed : ArmedAt(clock),
           file : FilesAt(clock), saved : BOOLEAN]

Sound(S, dd) ==
  /\ Core(S.J, S.rev, S.armed, S.file, dd, clock)
  /\ KnowsItsFile(S.rev, S.armed, S.file)
  /\ dd \cap DOMAIN S.file.recs = {}

\* The records of a write know what those before it know, or it has expired.
KnowsAll(recs, before) ==
  \A r \in DOMAIN before : IF r \in DOMAIN recs THEN recs[r].seen >= before[r].seen
                                                ELSE Old(before[r], clock)

\* What a write does to the changes of J: one that is gone is in the file.
Delivers(J, S) ==
  /\ \A r \in DOMAIN J.deltas \ DOMAIN S.J.deltas :
       IF r \in DOMAIN S.file.recs THEN S.file.recs[r].seen >= J.deltas[r].rec.seen
                                   ELSE Old(J.deltas[r].rec, clock)
  /\ S.saved => DOMAIN S.J.deltas = {}

\* The candidate of an unsettled write is recognised in the file or given up.
LEMMA Observing ==
  ASSUME clock \in Nat \ {0}, NEW S \in States, NEW dd, Sound(S, dd)
  PROVE  LET T == ObserveCandidate(S)
         IN  /\ T \in States /\ Sound(T, dd) /\ ~T.armed.set
             /\ T.file.by = "vde" => T.rev = T.file.rev
             /\ T.J = S.J /\ T.file = S.file /\ T.saved = S.saved
<1> DEFINE T == ObserveCandidate(S)
<1>1. /\ S.J \in Journals(clock) /\ S.rev \in Revisions /\ S.armed \in ArmedAt(clock)
      /\ S.file \in FilesAt(clock) /\ S.saved \in BOOLEAN
  BY DEF States
<1>2. CASE ~S.armed.set
  <2>1. T = S
    BY <1>2 DEF ObserveCandidate
  <2>2. QED BY <1>2, <2>1 DEF Sound, KnowsItsFile
<1>3. CASE S.armed.set
  <2> DEFINE n == IF S.armed.recs = S.file.recs THEN S.file.rev ELSE S.rev
  <2>1. n \in Revisions /\ Unarmed \in ArmedAt(clock) /\ ~Unarmed.set
    BY <1>1, NothingIsPartial DEF FilesAt, Unarmed, ArmedAt
  <2>2. T = [S EXCEPT !.rev = n, !.armed = Unarmed]
    BY <1>3 DEF ObserveCandidate
  <2> HIDE DEF T, n
  <2>3. /\ T \in States /\ T.J = S.J /\ T.file = S.file /\ T.saved = S.saved
        /\ T.rev = n /\ T.armed = Unarmed
    BY <2>1, <2>2 DEF States
  <2>4. S.file.by = "vde" => n = S.file.rev
    BY DEF Sound, KnowsItsFile, n
  <2>5. KnowsItsFile(n, Unarmed, S.file) /\ Candidate(S.J, Unarmed, dd, clock)
    BY <2>1, <2>4 DEF KnowsItsFile, Candidate
  <2>6. Core(S.J, n, Unarmed, S.file, dd, clock)
    <3>1. CASE S.armed.recs = S.file.recs
      <4>1. n = S.file.rev
        BY <3>1 DEF n
      <4>2. /\ Explains(S.J, S.file.recs) /\ Supersedes(S.J, S.file.recs, clock)
            /\ dd \cap DOMAIN S.J.records \subseteq DOMAIN S.file.recs
        BY <1>3, <3>1 DEF Sound, Core, Candidate
      <4>3. Buried(S.J, n, S.file, dd)
        BY <4>2 DEF Sound, Core, Buried
      <4>4. QED BY <2>5, <4>1, <4>2, <4>3 DEF Sound, Core, Current
    <3>2. CASE S.armed.recs # S.file.recs
      BY <2>5, <3>2 DEF Sound, Core, n
    <3>3. QED BY <3>1, <3>2
  <2>7. Sound(T, dd)
    BY <2>3, <2>5, <2>6 DEF Sound
  <2>8. QED BY <2>1, <2>3, <2>4, <2>7 DEF T
<1>4. QED BY <1>2, <1>3

\* A file of another revision is adopted.
LEMMA Adopting ==
  ASSUME clock \in Nat \ {0}, NEW S \in States, NEW dd, Sound(S, dd), ~S.armed.set,
         S.file.by = "vde" => S.rev = S.file.rev
  PROVE  LET T == AdoptRevision(S)
         IN  /\ T \in States /\ Sound(T, dd) /\ ~T.armed.set /\ T.rev = T.file.rev
             /\ T.file = S.file /\ T.saved = S.saved
             /\ \A r \in DOMAIN S.J.deltas \ DOMAIN T.J.deltas :
                  r \in DOMAIN S.file.recs /\ S.file.recs[r].seen >= S.J.deltas[r].rec.seen
             /\ \A r \in DOMAIN S.J.deltas \cap DOMAIN T.J.deltas :
                  T.J.deltas[r].rec = S.J.deltas[r].rec
             /\ T.J # S.J => S.file.by = "other"
<1> DEFINE T == AdoptRevision(S)
<1>1. /\ S.J \in Journals(clock) /\ S.rev \in Revisions /\ S.armed \in ArmedAt(clock)
      /\ S.file \in FilesAt(clock) /\ S.saved \in BOOLEAN
  BY DEF States
<1>2. CASE S.rev = S.file.rev
  <2>1. T = S
    BY <1>2 DEF AdoptRevision
  <2>2. QED BY <1>2, <2>1
<1>3. CASE S.rev # S.file.rev
  <2> DEFINE K == RebasedJournal(S.J, S.file.recs, S.file.rev, clock)
  <2>1. /\ Core(K, S.file.rev, Unarmed, S.file, dd, clock)
        /\ \A r \in DOMAIN S.J.deltas \ DOMAIN K.deltas :
             r \in DOMAIN S.file.recs /\ S.file.recs[r].seen >= S.J.deltas[r].rec.seen
        /\ \A r \in DOMAIN K.deltas :
             r \in DOMAIN S.J.deltas /\ K.deltas[r].rec = S.J.deltas[r].rec
    <3> DEFINE f == S.file
               J == S.J
               rev == S.rev
               arm == S.armed
    <3>1. f \in FilesAt(clock) /\ Core(J, rev, arm, f, dd, clock) /\ rev # f.rev /\ dd \cap DOMAIN f.recs = {}
      BY <1>1, <1>3 DEF Sound
    <3> HIDE DEF f, J, rev, arm
    <3> DEFINE L == RebasedJournal(J, f.recs, f.rev, clock)
    <3>2. /\ Core(L, f.rev, Unarmed, f, dd, clock)
          /\ \A r \in DOMAIN J.deltas \ DOMAIN L.deltas :
               r \in DOMAIN f.recs /\ f.recs[r].seen >= J.deltas[r].rec.seen
          /\ \A r \in DOMAIN L.deltas :
               r \in DOMAIN J.deltas /\ L.deltas[r].rec = J.deltas[r].rec
      BY <3>1, RebasingKeeps
    <3>3. QED BY <3>2 DEF f, J
  <2>2. T = [S EXCEPT !.J = K, !.rev = S.file.rev]
    BY <1>3 DEF AdoptRevision
  <2> HIDE DEF K, T
  <2>3. K \in Journals(clock) /\ S.file.rev \in Revisions
    BY <1>1, <2>1 DEF Core, FilesAt
  <2>4. /\ T \in States /\ T.J = K /\ T.file = S.file /\ T.saved = S.saved
        /\ T.rev = S.file.rev /\ T.armed = S.armed
    BY <2>2, <2>3 DEF States
  <2>5. Sound(T, dd)
    BY <2>1, <2>4 DEF Sound, Core, Candidate, KnowsItsFile
  <2>6. S.file.by = "other"
    BY <1>1, <1>3 DEF FilesAt
  <2>7. QED BY <2>1, <2>4, <2>5, <2>6 DEF T
<1>4. QED BY <1>2, <1>3

\* The memory with nothing in conflict is what a write needs.
LEMMA MemoryIsWritable ==
  ASSUME clock \in Nat \ {0}, NEW S \in States, NEW dd, Sound(S, dd), S.rev = S.file.rev,
         S.J.conflicts = <<>>
  PROVE  /\ KnowsAll(S.J.records, S.file.recs) /\ dd \cap DOMAIN S.J.records = {}
         /\ \A r \in DOMAIN S.J.deltas :
              IF r \in DOMAIN S.J.records THEN S.J.records[r].seen >= S.J.deltas[r].rec.seen
                                          ELSE Old(S.J.deltas[r].rec, clock)
<1>1. /\ KnowsAll(S.J.records, S.file.recs) /\ dd \cap DOMAIN S.J.records = {}
      /\ Chained(S.J, clock)
  BY DEF Sound, Core, Current, Buried, Supersedes, KnowsAll
<1>2. \A r \in DOMAIN S.J.deltas : DeltaFits(S.J.deltas[r], clock) /\ MemoryHas(S.J, r)
  BY <1>1, NothingIsPartial DEF Chained
<1>3. QED BY <1>1, <1>2 DEF DeltaFits, MemoryHas

\* What the file is made of is what explains the memory.
LEMMA MemoryExplainsItself ==
  ASSUME clock \in Nat \ {0}, NEW J \in Journals(clock)
  PROVE  Explains(J, J.records) /\ Supersedes(J, J.records, clock)
<1>1. \A r \in DOMAIN J.records : J.records[r].seen \in 1..clock
  BY JournalParts, DatedFacts
<1>2. QED BY <1>1 DEF Explains, Supersedes, SameSemantic

LEMMA EmptyJournalFits ==
  ASSUME clock \in Nat \ {0}, NEW recs \in Partials(Dated(clock)), NEW arm, ~arm.set, NEW f,
         NEW rev, NEW dd, rev = f.rev => f.recs = recs, dd \cap DOMAIN recs = {}
  PROVE  /\ Core(EmptyJournal(recs), rev, arm, f, dd, clock)
         /\ EmptyJournal(recs).deltas = <<>> /\ EmptyJournal(recs).records = recs
<1> DEFINE J == EmptyJournal(recs)
<1>1. /\ J.records = recs /\ J.deltas = <<>> /\ J.touches = <<>> /\ J.conflicts = <<>>
      /\ J = [records |-> recs, deltas |-> <<>>, touches |-> <<>>, conflicts |-> <<>>]
  BY DEF EmptyJournal
<1>2. /\ <<>> \in Partials(DeltasAt(clock)) /\ <<>> \in Partials(TouchesAt(clock))
      /\ <<>> \in Partials(ConflictsAt(clock)) /\ DOMAIN <<>> = {}
  BY NothingIsPartial
<1>3. J \in Journals(clock)
  BY <1>1, <1>2, JournalFrom
<1> HIDE DEF J
<1>4. Explains(J, recs) /\ Supersedes(J, recs, clock)
  BY <1>1, <1>3, MemoryExplainsItself
<1>5. QED BY <1>1, <1>2, <1>3, <1>4
  DEF J, Core, ConflictsAreOpen, Chained, Buried, Current, Candidate

\* Each outcome of a write leaves a sound state, and delivers what it drops.
LEMMA Publishing ==
  ASSUME clock \in Nat \ {0}, NEW S \in States, NEW dd, Sound(S, dd), ~S.armed.set,
         S.rev = S.file.rev, S.J.conflicts = <<>>, ~S.saved, NEW fault
  PROVE  LET T == Publish(S, fault)
         IN  /\ T \in States /\ Sound(T, dd) /\ Delivers(S.J, T)
             /\ T.J = S.J \/ (T.file.recs = S.J.records /\ T.J.conflicts = <<>>)
             /\ \/ T.file = S.file
                \/ /\ T.file.by = "vde" /\ T.file.recs = S.J.records
<1> DEFINE T == Publish(S, fault)
           J == S.J
           f == S.file
           n == NewRevision(J, S.rev, f.rev)
           new == [rev |-> n, recs |-> J.records, by |-> "vde"]
           candidate == [set |-> TRUE, recs |-> J.records]
<1>1. /\ J \in Journals(clock) /\ S.rev \in Revisions /\ S.armed \in ArmedAt(clock)
      /\ f \in FilesAt(clock) /\ S.saved \in BOOLEAN
  BY DEF States
<1>2. /\ J.records \in Partials(Dated(clock)) /\ DOMAIN J.deltas \subseteq Ids
  BY <1>1, JournalParts
<1>3. /\ KnowsAll(J.records, f.recs) /\ dd \cap DOMAIN J.records = {}
      /\ \A r \in DOMAIN J.deltas :
           IF r \in DOMAIN J.records THEN J.records[r].seen >= J.deltas[r].rec.seen
                                     ELSE Old(J.deltas[r].rec, clock)
  BY MemoryIsWritable
<1>4. Explains(J, J.records) /\ Supersedes(J, J.records, clock)
  BY <1>1, MemoryExplainsItself
<1>5. /\ n \in Revisions \ {0} /\ n # S.rev
      /\ \A r \in DOMAIN J.deltas : J.deltas[r].baseRev # n
  BY <1>1, RevisionIsNew
<1>6. /\ Core(J, S.rev, S.armed, f, dd, clock) /\ S.rev = f.rev
      /\ KnowsItsFile(S.rev, S.armed, f) /\ dd \cap DOMAIN f.recs = {}
  BY DEF Sound
<1>7. /\ J \in Journals(clock) /\ ConflictsAreOpen(J) /\ Chained(J, clock)
      /\ Buried(J, S.rev, f, dd) /\ Current(J, S.rev, f, clock) /\ DOMAIN J.conflicts = {}
  BY <1>6, NothingIsPartial DEF Core
<1> HIDE DEF n
<1>8. new \in FilesAt(clock) /\ candidate \in ArmedAt(clock)
  BY <1>2, <1>5 DEF FilesAt, ArmedAt
<1>9. /\ new.rev = n /\ new.recs = J.records /\ new.by = "vde"
      /\ candidate.set /\ candidate.recs = J.records
  OBVIOUS
<1>10. Candidate(J, candidate, dd, clock)
  BY <1>4, <1>7, <1>9 DEF Candidate
<1>11. /\ Buried(J, S.rev, new, dd) /\ Current(J, S.rev, new, clock)
       /\ Buried(J, n, new, dd) /\ Current(J, n, new, clock)
  BY <1>3, <1>4, <1>5, <1>7, <1>9 DEF Buried, Current
<1>12. T = CASE fault = "desktops"    -> S
             [] fault = "unwritten"   -> [S EXCEPT !.armed = candidate]
             [] fault = "unconfirmed" -> [S EXCEPT !.armed = candidate, !.file = new]
             [] fault = "unsettled"   -> [S EXCEPT !.file = new, !.rev = new.rev]
             [] OTHER -> [S EXCEPT !.file = [new EXCEPT !.rev = 1], !.rev = 1,
                                   !.saved = TRUE, !.J = EmptyJournal(S.J.records)]
  BY DEF Publish, n
<1> HIDE DEF T
<1>13. CASE fault = "desktops"
  <2>1. T = S
    BY <1>12, <1>13
  <2>2. QED BY <2>1 DEF Delivers, T
<1>14. CASE fault = "unwritten"
  <2>1. T = [S EXCEPT !.armed = candidate]
    BY <1>12, <1>14
  <2> HIDE DEF new, candidate, J, f
  <2>2. /\ T \in States /\ T.armed = candidate /\ T.file = f /\ T.rev = S.rev
        /\ T.J = J /\ ~T.saved
    BY <1>8, <2>1 DEF States, J, f
  <2>3. Core(J, S.rev, candidate, f, dd, clock)
    BY <1>7, <1>10 DEF Core
  <2>4. Sound(T, dd)
    BY <1>6, <2>2, <2>3 DEF Sound, KnowsItsFile
  <2>5. QED BY <2>2, <2>4 DEF Delivers, T, J, f
<1>15. CASE fault = "unconfirmed"
  <2>1. T = [S EXCEPT !.armed = candidate, !.file = new]
    BY <1>12, <1>15
  <2> HIDE DEF new, candidate, J, f
  <2>2. /\ T \in States /\ T.armed = candidate /\ T.file = new /\ T.rev = S.rev
        /\ T.J = J /\ ~T.saved
    BY <1>8, <2>1 DEF States, J
  <2>3. Core(J, S.rev, candidate, new, dd, clock)
    BY <1>7, <1>10, <1>11 DEF Core
  <2>4. Sound(T, dd)
    BY <1>3, <1>9, <2>2, <2>3 DEF Sound, KnowsItsFile
  <2>5. QED BY <1>9, <2>2, <2>4 DEF Delivers, T, J
<1>16. CASE fault = "unsettled"
  <2>1. T = [S EXCEPT !.file = new, !.rev = n]
    BY <1>9, <1>12, <1>16
  <2> HIDE DEF new, candidate, J, f
  <2>2. /\ T \in States /\ T.armed = S.armed /\ T.file = new /\ T.rev = n
        /\ T.J = J /\ ~T.saved
    BY <1>5, <1>8, <2>1 DEF States, J
  <2>3. Core(J, n, S.armed, new, dd, clock)
    BY <1>7, <1>11 DEF Core, Candidate
  <2>4. Sound(T, dd)
    BY <1>3, <1>9, <2>2, <2>3 DEF Sound, KnowsItsFile
  <2>5. QED BY <1>9, <2>2, <2>4 DEF Delivers, T, J
<1>17. CASE fault \notin {"desktops", "unwritten", "unconfirmed", "unsettled"}
  <2> DEFINE w == [new EXCEPT !.rev = 1]
             E == EmptyJournal(J.records)
  <2>1. T = [S EXCEPT !.file = w, !.rev = 1, !.saved = TRUE, !.J = E]
    BY <1>12, <1>17
  <2>2. 1 \in Revisions
    BY AutoLayoutAssumption, FS_CardinalityType DEF Revisions
  <2>3. w \in FilesAt(clock) /\ w.rev = 1 /\ w.recs = J.records /\ w.by = "vde"
    BY <1>2, <2>2 DEF FilesAt
  <2> HIDE DEF new, candidate, J, f, w
  <2>4. /\ Core(E, 1, S.armed, w, dd, clock)
        /\ E.deltas = <<>> /\ E.records = J.records
    BY <1>2, <1>3, <2>3, EmptyJournalFits
  <2>5. E.conflicts = <<>>
    BY DEF EmptyJournal
  <2> HIDE DEF E
  <2>6. E \in Journals(clock)
    BY <2>4 DEF Core
  <2>7. /\ T \in States /\ T.armed = S.armed /\ T.file = w /\ T.rev = 1
        /\ T.J = E /\ T.saved
    BY <2>1, <2>2, <2>3, <2>6 DEF States
  <2>8. Sound(T, dd)
    BY <1>3, <2>3, <2>4, <2>7 DEF Sound, KnowsItsFile
  <2>9. Delivers(J, T)
    BY <1>3, <2>3, <2>4, <2>7, NothingIsPartial DEF Delivers
  <2>10. QED BY <2>3, <2>5, <2>7, <2>8, <2>9 DEF T, J
<1>18. QED BY <1>13, <1>14, <1>15, <1>16, <1>17

\* What another write makes of the file is what it knew or more.
Follows(f, g) == f = g \/ (f.by = "vde" /\ KnowsAll(f.recs, g.recs))

LEMMA Persisting ==
  ASSUME clock \in Nat \ {0}, NEW S \in States, NEW dd, Sound(S, dd), ~S.saved, NEW fault
  PROVE  LET T == PersistAutoLayout(S, fault)
         IN  /\ T \in States /\ Sound(T, dd) /\ Delivers(S.J, T) /\ Follows(T.file, S.file)
             /\ DOMAIN T.J.conflicts \ DOMAIN S.J.conflicts # {} => S.file.by = "other"
<1> DEFINE T == PersistAutoLayout(S, fault)
           C == ObserveCandidate(S)
           A == AdoptRevision(C)
           P == Publish(A, fault)
<1>1. CASE fault = "unreadable"
  <2>1. T = S
    BY <1>1 DEF PersistAutoLayout
  <2>2. QED BY <2>1 DEF Delivers, Follows
<1>2. CASE fault # "unreadable"
  <2>1. T = PublishObserved(C, fault)
    BY <1>2 DEF PersistAutoLayout
  <2>2. /\ C \in States /\ Sound(C, dd) /\ ~C.armed.set
        /\ C.file.by = "vde" => C.rev = C.file.rev
        /\ C.J = S.J /\ C.file = S.file /\ C.saved = S.saved
    BY Observing
  <2> HIDE DEF T, C
  <2>3. CASE T = C
    BY <2>2, <2>3 DEF Delivers, Follows, T
  <2>4. CASE T # C
    <3>1. T = PublishAdopted(A, fault)
      BY <2>1, <2>4 DEF PublishObserved
    <3>2. /\ A \in States /\ Sound(A, dd) /\ ~A.armed.set /\ A.rev = A.file.rev
          /\ A.file = C.file /\ A.saved = C.saved
          /\ \A r \in DOMAIN C.J.deltas \ DOMAIN A.J.deltas :
               r \in DOMAIN C.file.recs /\ C.file.recs[r].seen >= C.J.deltas[r].rec.seen
          /\ \A r \in DOMAIN C.J.deltas \cap DOMAIN A.J.deltas :
               A.J.deltas[r].rec = C.J.deltas[r].rec
          /\ A.J # C.J => C.file.by = "other"
      BY <2>2, Adopting
    <3> HIDE DEF A
    <3>3. DOMAIN A.J.conflicts \ DOMAIN S.J.conflicts # {} => S.file.by = "other"
      BY <2>2, <3>2
    <3>4. CASE A.J.conflicts # <<>>
      <4>1. T = A
        BY <3>1, <3>4 DEF PublishAdopted
      <4>2. Delivers(S.J, A)
        BY <2>2, <3>2 DEF Delivers
      <4>3. QED BY <2>2, <3>2, <3>3, <4>1, <4>2 DEF Follows, T
    <3>5. CASE A.J.conflicts = <<>>
      <4>1. T = P
        BY <3>1, <3>5 DEF PublishAdopted
      <4>2. /\ P \in States /\ Sound(P, dd) /\ Delivers(A.J, P)
            /\ P.J = A.J \/ (P.file.recs = A.J.records /\ P.J.conflicts = <<>>)
            /\ \/ P.file = A.file
               \/ /\ P.file.by = "vde" /\ P.file.recs = A.J.records
        BY <2>2, <3>2, <3>5, Publishing
      <4> HIDE DEF P
      <4>3. KnowsAll(A.J.records, A.file.recs)
        BY <3>2, <3>5, MemoryIsWritable
      <4>4. Follows(P.file, S.file)
        BY <2>2, <3>2, <4>2, <4>3 DEF Follows
      <4>5. DOMAIN P.J.conflicts \ DOMAIN S.J.conflicts # {} => S.file.by = "other"
        BY <3>3, <4>2, NothingIsPartial
      <4>6. ASSUME NEW r \in DOMAIN S.J.deltas \ DOMAIN P.J.deltas
            PROVE  IF r \in DOMAIN P.file.recs
                   THEN P.file.recs[r].seen >= S.J.deltas[r].rec.seen
                   ELSE Old(S.J.deltas[r].rec, clock)
        <5>1. CASE r \in DOMAIN A.J.deltas
          BY <2>2, <3>2, <4>2, <5>1 DEF Delivers
        <5>2. CASE r \notin DOMAIN A.J.deltas
          <6>1. r \in DOMAIN S.file.recs /\ S.file.recs[r].seen >= S.J.deltas[r].rec.seen
            BY <2>2, <3>2, <5>2
          <6>2. /\ S.file.recs \in Partials(Dated(clock)) /\ P.file.recs \in Partials(Dated(clock))
                /\ S.J \in Journals(clock)
            BY <4>2 DEF States, FilesAt
          <6>3. S.file.recs[r] \in Dated(clock)
            BY <6>1, <6>2, IsPartialOf
          <6>4. r \in DOMAIN P.file.recs => P.file.recs[r] \in Dated(clock)
            BY <6>2, IsPartialOf
          <6>5. S.J.deltas[r].rec \in Dated(clock)
            BY <6>2, JournalParts, DeltaParts
          <6>6. /\ S.file.recs[r].seen \in 1..clock /\ S.J.deltas[r].rec.seen \in 1..clock
                /\ r \in DOMAIN P.file.recs => P.file.recs[r].seen \in 1..clock
            BY <6>3, <6>4, <6>5, DatedFacts
          <6>7. CASE r \in DOMAIN P.file.recs
            <7>1. P.file.recs[r].seen >= S.file.recs[r].seen
              BY <4>4, <6>1, <6>6, <6>7 DEF Follows, KnowsAll
            <7>2. QED BY <6>1, <6>6, <6>7, <7>1
          <6>8. CASE r \notin DOMAIN P.file.recs
            <7>1. Old(S.file.recs[r], clock)
              BY <4>4, <6>1, <6>8 DEF Follows, KnowsAll
            <7>2. QED BY <6>1, <6>3, <6>5, <6>8, <7>1, OldAndOlder
          <6>9. QED BY <6>7, <6>8
        <5>3. QED BY <5>1, <5>2
      <4>7. Delivers(S.J, P)
        BY <4>2, <4>6 DEF Delivers
      <4>8. QED BY <4>1, <4>2, <4>4, <4>5, <4>7 DEF T
    <3>6. QED BY <3>4, <3>5
  <2>5. QED BY <2>3, <2>4
<1>3. QED BY <1>1, <1>2

\* FlushAutoLayout keeps the state sound; the file keeps what it knows.
LEMMA Flushing ==
  ASSUME clock \in Nat \ {0}, Typing, NEW J, NEW fl, NEW force, NEW fault, NEW dd,
         Core(J, revision, armed, file, dd, clock), KnowsItsFile(revision, armed, file),
         dd \cap DOMAIN file.recs = {},
         fl \in [dirty : BOOLEAN, due : BOOLEAN], DOMAIN J.deltas # {} => fl.dirty
  PROVE  LET F == Flushed(J, fl, force, fault)
             S == F.state
         IN  /\ S \in States /\ Sound(S, dd) /\ Delivers(J, S) /\ Follows(S.file, file)
             /\ DOMAIN S.J.conflicts \ DOMAIN J.conflicts # {} => file.by = "other"
             /\ F.flush \in [dirty : BOOLEAN, due : BOOLEAN]
             /\ DOMAIN S.J.deltas # {} => F.flush.dirty
             /\ F.clean /\ fl.dirty => S.saved
<1> DEFINE F == Flushed(J, fl, force, fault)
           W == WriteState(J)
           P == PersistAutoLayout(W, fault)
<1>1. /\ W.J = J /\ W.rev = revision /\ W.armed = armed /\ W.file = file /\ W.saved = FALSE
      /\ W = [J |-> J, rev |-> revision, armed |-> armed, file |-> file, saved |-> FALSE]
  BY DEF WriteState
<1>2. J \in Journals(clock)
  BY DEF Core
<1>3. W \in States
  BY <1>1, <1>2 DEF States, Typing
<1> HIDE DEF W
<1>4. Sound(W, dd)
  BY <1>1 DEF Sound
<1>5. CASE ~fl.dirty \/ (~force /\ (J.conflicts # <<>> \/ ~fl.due))
  <2>1. F = [state |-> W, flush |-> fl, clean |-> ~fl.dirty]
    BY <1>5 DEF Flushed, W
  <2>2. F.state = W /\ F.flush = fl /\ F.clean = ~fl.dirty
    BY <2>1
  <2> HIDE DEF F
  <2>3. Delivers(J, W) /\ Follows(W.file, file)
    BY <1>1 DEF Delivers, Follows
  <2>4. QED BY <1>1, <1>3, <1>4, <2>2, <2>3 DEF F
<1>6. CASE ~(~fl.dirty \/ (~force /\ (J.conflicts # <<>> \/ ~fl.due)))
  <2>1. /\ P \in States /\ Sound(P, dd) /\ Delivers(W.J, P) /\ Follows(P.file, W.file)
        /\ DOMAIN P.J.conflicts \ DOMAIN W.J.conflicts # {} => W.file.by = "other"
    BY <1>1, <1>3, <1>4, Persisting
  <2> HIDE DEF P
  <2>2. F = [state |-> P, clean |-> P.saved, flush |-> [dirty |-> ~P.saved, due |-> FALSE]]
    BY <1>6 DEF Flushed, FlushOutcome, W, P
  <2>3. F.state = P /\ F.clean = P.saved /\ F.flush = [dirty |-> ~P.saved, due |-> FALSE]
    BY <2>2
  <2> HIDE DEF F
  <2>4. P.saved \in BOOLEAN
    BY <2>1 DEF States
  <2>5. F.flush \in [dirty : BOOLEAN, due : BOOLEAN] /\ F.flush.dirty = ~P.saved
    BY <2>3, <2>4
  <2>6. DOMAIN P.J.deltas # {} => F.flush.dirty
    BY <2>1, <2>4, <2>5 DEF Delivers
  <2>7. QED BY <1>1, <2>1, <2>3, <2>5, <2>6 DEF F
<1>7. QED BY <1>5, <1>6

-----------------------------------------------------------------------------
(* The steps.                                                              *)

(* What the action properties say of a step, at the time of the step. *)
Kept ==
  /\ file' = file \/ file'.by = "other" \/ KnowsAll(file'.recs, file.recs)
  /\ phase' # "ended" =>
       \A r \in DOMAIN journal.deltas \ DOMAIN journal'.deltas :
         IF r \in DOMAIN file'.recs THEN file'.recs[r].seen >= journal.deltas[r].rec.seen
                                    ELSE Old(journal.deltas[r].rec, clock)
  /\ DOMAIN journal'.conflicts \ DOMAIN journal.conflicts # {} => file.by = "other"

Flushes == [dirty : BOOLEAN, due : BOOLEAN]
Lives == [present : BOOLEAN, pending : BOOLEAN, saved : [Wins -> Places \cup {Closed}]]

\* The windows and the timers have their types.
WindowTyping ==
  /\ where \in [Wins -> Places \cup {Closed}] /\ bound \in [Wins -> Ids \cup {NoId}]
  /\ life \in Lives /\ timer \in BOOLEAN /\ flush \in Flushes

\* What the loaded layout is between two handlers.
Held ==
  /\ file \in FilesAt(clock) /\ armed \in ArmedAt(clock) /\ revision \in Revisions
  /\ Core(journal, revision, armed, file, dead, clock) /\ dead \subseteq Ids
  /\ KnowsItsFile(revision, armed, file)
  /\ DOMAIN journal.deltas # {} => flush.dirty
  /\ dead \cap DOMAIN file.recs = {}

\* What a handler that writes nothing yet makes of the journal.
Ready(J, fl, dd) ==
  /\ Core(J, revision, armed, file, dd, clock) /\ Grows(journal, J)
  /\ fl \in Flushes /\ (DOMAIN J.deltas # {} => fl.dirty)

LEMMA WhenLoaded ==
  ASSUME IInv, Loaded
  PROVE  Held /\ WindowTyping /\ clock \in Nat \ {0} /\ journal \in Journals(clock)
         /\ Ready(journal, flush, dead)
<1>1. clock \in Nat \ {0}
  BY AutoLayoutAssumption DEF IInv, Typing
<1>2. journal \in Journals(clock) /\ Core(journal, revision, armed, file, dead, clock)
  BY DEF IInv, Core
<1>3. Held /\ WindowTyping
  BY <1>2 DEF IInv, Typing, Held, WindowTyping, Loaded, Stages, Lives, Flushes
<1>4. Grows(journal, journal)
  BY <1>1, <1>2, GrowsFromItself
<1>5. QED BY <1>1, <1>2, <1>3, <1>4 DEF Ready, Held, WindowTyping

\* A step of the loaded layout keeps the invariant.
LEMMA LoadedKeeps ==
  ASSUME IInv, Loaded, UNCHANGED <<clock, started, phase>>, Held', WindowTyping'
  PROVE  IInv'
<1>1. Typing'
  BY DEF IInv, Typing, Held, WindowTyping, Lives, Flushes
<1>2. Starting'
  BY DEF Loaded, Starting, Stages
<1>3. QED BY <1>1, <1>2 DEF IInv, Held

LEMMA ChangingKeeps ==
  ASSUME IInv, Loaded, UNCHANGED <<clock, file, dead, revision, armed, started, phase>>,
         Ready(journal', flush', dead), WindowTyping'
  PROVE  IInv' /\ Kept
<1>1. Held
  BY WhenLoaded
<1>2. Held'
  BY <1>1 DEF Held, Ready
<1>3. Kept
  BY DEF Kept, Ready, Grows
<1>4. QED BY <1>2, <1>3, LoadedKeeps

\* What the write of a ready journal makes of the changes there were.
LEMMA WriteDelivers ==
  ASSUME IInv, Loaded, NEW J, NEW fl, NEW force, NEW fault, NEW dd,
         Ready(J, fl, dd), dd \cap DOMAIN file.recs = {}
  PROVE  LET F == Flushed(J, fl, force, fault)
             S == F.state
         IN  /\ S \in States /\ Sound(S, dd) /\ Delivers(journal, S) /\ Follows(S.file, file)
             /\ DOMAIN S.J.conflicts \ DOMAIN journal.conflicts # {} => file.by = "other"
             /\ F.flush \in Flushes
             /\ DOMAIN S.J.deltas # {} => F.flush.dirty
             /\ F.clean /\ fl.dirty => S.saved
<1> DEFINE F == Flushed(J, fl, force, fault)
           S == F.state
<1>1. Held /\ clock \in Nat \ {0} /\ Typing /\ journal \in Journals(clock)
  BY WhenLoaded DEF IInv
<1>2. /\ S \in States /\ Sound(S, dd) /\ Delivers(J, S) /\ Follows(S.file, file)
      /\ DOMAIN S.J.conflicts \ DOMAIN J.conflicts # {} => file.by = "other"
      /\ F.flush \in [dirty : BOOLEAN, due : BOOLEAN]
      /\ DOMAIN S.J.deltas # {} => F.flush.dirty
      /\ F.clean /\ fl.dirty => S.saved
  <2>1. /\ Core(J, revision, armed, file, dd, clock) /\ KnowsItsFile(revision, armed, file)
        /\ dd \cap DOMAIN file.recs = {} /\ fl \in [dirty : BOOLEAN, due : BOOLEAN]
        /\ DOMAIN J.deltas # {} => fl.dirty
    BY <1>1 DEF Held, Ready, Flushes
  <2>2. /\ S \in States /\ Sound(S, dd) /\ Delivers(J, S) /\ Follows(S.file, file)
        /\ DOMAIN S.J.conflicts \ DOMAIN J.conflicts # {} => file.by = "other"
        /\ F.flush \in [dirty : BOOLEAN, due : BOOLEAN]
        /\ DOMAIN S.J.deltas # {} => F.flush.dirty
    BY <1>1, <2>1, Flushing
  <2>3. F.clean /\ fl.dirty => S.saved
    BY <1>1, <2>1, Flushing
  <2>4. QED BY <2>2, <2>3
<1> HIDE DEF F
<1>3. J \in Journals(clock)
  BY DEF Ready, Core
<1>4. ASSUME NEW r \in DOMAIN journal.deltas \ DOMAIN S.J.deltas
      PROVE  IF r \in DOMAIN S.file.recs THEN S.file.recs[r].seen >= journal.deltas[r].rec.seen
                                          ELSE Old(journal.deltas[r].rec, clock)
  <2>1. /\ r \in DOMAIN J.deltas \ DOMAIN S.J.deltas
        /\ J.deltas[r].rec.seen >= journal.deltas[r].rec.seen
    BY DEF Ready, Grows
  <2>2. /\ J.deltas[r].rec \in Dated(clock) /\ journal.deltas[r].rec \in Dated(clock)
        /\ J.deltas[r].rec.seen \in 1..clock /\ journal.deltas[r].rec.seen \in 1..clock
    BY <1>1, <1>3, <2>1, JournalParts, DeltaParts
  <2>3. IF r \in DOMAIN S.file.recs THEN S.file.recs[r].seen >= J.deltas[r].rec.seen
                                     ELSE Old(J.deltas[r].rec, clock)
    BY <1>2, <2>1 DEF Delivers
  <2>4. CASE r \in DOMAIN S.file.recs
    <3>1. S.file.recs[r].seen \in 1..clock
      <4>1. S.file.recs \in Partials(Dated(clock))
        BY <1>2 DEF States, FilesAt
      <4>2. S.file.recs[r] \in Dated(clock)
        BY <2>4, <4>1, IsPartialOf
      <4>3. QED BY <1>1, <4>2, DatedFacts
    <3>2. QED BY <1>1, <2>1, <2>2, <2>3, <2>4, <3>1
  <2>5. CASE r \notin DOMAIN S.file.recs
    <3>1. Old(J.deltas[r].rec, clock)
      BY <2>3, <2>5
    <3>2. QED BY <1>1, <2>1, <2>2, <2>5, <3>1, OldAndOlder
  <2>6. QED BY <2>4, <2>5
<1>5. Delivers(journal, S)
  BY <1>2, <1>4 DEF Delivers
<1>6. DOMAIN S.J.conflicts \ DOMAIN journal.conflicts # {} => file.by = "other"
  BY <1>2 DEF Ready, Grows
<1>7. QED BY <1>2, <1>5, <1>6 DEF F, Flushes

LEMMA WritingKeeps ==
  ASSUME IInv, Loaded, UNCHANGED <<clock, started, phase>>,
         NEW J, NEW fl, NEW force, NEW fault, dead' \subseteq Ids,
         Ready(J, fl, dead'), dead' \cap DOMAIN file.recs = {},
         Write(Flushed(J, fl, force, fault)),
         flush' \in Flushes => WindowTyping'
  PROVE  IInv' /\ Kept
<1> DEFINE F == Flushed(J, fl, force, fault)
           S == F.state
<1>1. /\ S \in States /\ Sound(S, dead') /\ Delivers(journal, S) /\ Follows(S.file, file)
      /\ DOMAIN S.J.conflicts \ DOMAIN journal.conflicts # {} => file.by = "other"
      /\ F.flush \in Flushes
      /\ DOMAIN S.J.deltas # {} => F.flush.dirty
  <2> DEFINE dd == dead'
  <2>1. Ready(J, fl, dd) /\ dd \cap DOMAIN file.recs = {}
    OBVIOUS
  <2> HIDE DEF dd
  <2>2. /\ S \in States /\ Sound(S, dd) /\ Delivers(journal, S) /\ Follows(S.file, file)
        /\ DOMAIN S.J.conflicts \ DOMAIN journal.conflicts # {} => file.by = "other"
        /\ F.flush \in Flushes
        /\ DOMAIN S.J.deltas # {} => F.flush.dirty
    BY <2>1, WriteDelivers
  <2>3. QED BY <2>2 DEF dd
<1>2. /\ journal' = S.J /\ revision' = S.rev /\ armed' = S.armed /\ file' = S.file
      /\ flush' = F.flush
  BY DEF Write
<1> HIDE DEF F
<1>3. Held' /\ flush' \in Flushes
  BY <1>1, <1>2 DEF Held, States, Sound
<1>4. IInv'
  BY <1>3, LoadedKeeps
<1>5. Kept
  BY <1>1, <1>2 DEF Kept, Delivers, Follows
<1>6. QED BY <1>4, <1>5

\* Marking the layout dirty is what a change needs.
LEMMA DirtyIsReady ==
  ASSUME NEW J, NEW dd, NEW fl \in Flushes,
         Core(J, revision, armed, file, dd, clock), Grows(journal, J)
  PROVE  MarkDirty(fl) \in Flushes /\ Ready(J, MarkDirty(fl), dd)
<1>1. MarkDirty(fl) \in Flushes /\ MarkDirty(fl).dirty
  BY DEF MarkDirty, Flushes
<1>2. QED BY <1>1 DEF Ready

LEMMA ScheduledIsBoolean ==
  ASSUME timer \in BOOLEAN, NEW fl, NEW fault
  PROVE  Scheduled(fl, fault) \in BOOLEAN
BY DEF Scheduled

LEMMA FlushTimerKeeps ==
  ASSUME IInv, FlushTimer
  PROVE  IInv' /\ Kept
<1>1. Loaded /\ UNCHANGED <<clock, where, bound, dead, life, started, phase>>
  BY DEF FlushTimer
<1>2. PICK fault \in StorageFaults \cup {"timer"} :
        /\ Write(Flushed(journal, flush, Conflicted, fault))
        /\ timer' \in BOOLEAN
  BY DEF FlushTimer
<1>3. Held /\ WindowTyping /\ Ready(journal, flush, dead)
  BY <1>1, WhenLoaded
<1>4. flush' \in Flushes => WindowTyping'
  BY <1>1, <1>2, <1>3 DEF WindowTyping
<1>5. dead' = dead /\ dead' \subseteq Ids /\ dead' \cap DOMAIN file.recs = {}
  BY <1>1, <1>3 DEF Held
<1>6. QED BY <1>1, <1>2, <1>3, <1>4, <1>5, WritingKeeps

LEMMA FlushComesDueKeeps ==
  ASSUME IInv, FlushComesDue
  PROVE  IInv' /\ Kept
<1>1. /\ flush' \in Flushes /\ flush'.dirty = flush.dirty
      /\ UNCHANGED <<clock, file, where, bound, dead, journal, revision, armed, timer,
                     life, started, phase, events>>
  BY DEF FlushComesDue, IInv, Typing, Flushes
<1>2. Typing' /\ Starting'
  BY <1>1 DEF IInv, Typing, Starting, Flushes
<1>3. IInv'
  BY <1>1, <1>2 DEF IInv
<1>4. Kept
  BY <1>1 DEF Kept
<1>5. QED BY <1>3, <1>4

LEMMA MaintainAutoFlushTimerKeeps ==
  ASSUME IInv, MaintainAutoFlushTimer
  PROVE  IInv' /\ Kept
<1>1. /\ timer' = TRUE
      /\ UNCHANGED <<clock, file, where, bound, dead, journal, revision, armed, flush,
                     life, started, phase, events>>
  BY DEF MaintainAutoFlushTimer
<1>2. Typing' /\ Starting'
  BY <1>1 DEF IInv, Typing, Starting
<1>3. IInv'
  BY <1>1, <1>2 DEF IInv
<1>4. Kept
  BY <1>1 DEF Kept
<1>5. QED BY <1>3, <1>4

\* A handler that refreshes records and takes changes keeps the core.
LEMMA ChangesAreReady ==
  ASSUME clock \in Nat \ {0}, Held, NEW J, NEW K, NEW L, NEW fl \in Flushes,
         Changes(J, K, revision, dead, clock), Changes(K, L, revision, dead, clock),
         Core(J, revision, armed, file, dead, clock), Grows(journal, J),
         journal \in Journals(clock), DOMAIN L.deltas # {} => fl.dirty
  PROVE  Ready(L, fl, dead)
<1>1. Core(K, revision, armed, file, dead, clock) /\ Grows(J, K)
  BY ChangesKeepCore DEF Held
<1>2. Core(L, revision, armed, file, dead, clock) /\ Grows(K, L)
  BY <1>1, ChangesKeepCore DEF Held
<1>3. J \in Journals(clock) /\ K \in Journals(clock) /\ L \in Journals(clock)
  BY <1>1, <1>2 DEF Core
<1>4. Grows(journal, L)
  BY <1>1, <1>2, <1>3, GrowsOn
<1>5. QED BY <1>2, <1>4 DEF Ready

LEMMA NothingChanges ==
  ASSUME NEW t \in Nat \ {0}, NEW J \in Journals(t), NEW rev, NEW dd
  PROVE  Changes(J, J, rev, dd, t)
<1>1. \A r \in DOMAIN J.records : J.records[r].seen >= J.records[r].seen
  BY JournalParts, DatedFacts
<1>2. QED BY <1>1 DEF Changes, Refreshed, SameSemantic, SameDelta

LEMMA SaveObservedChanges ==
  ASSUME Typing, clock \in Nat \ {0}, NEW J \in Journals(clock)
  PROVE  LET S == SaveObserved(J)
         IN  /\ \E K : Changes(J, K, revision, dead, clock) /\ Changes(K, S.J, revision, dead, clock)
             /\ S.dirty \in BOOLEAN
             /\ DOMAIN S.J.deltas # {} => DOMAIN J.deltas # {} \/ S.dirty
<1> DEFINE seen == [r \in {bound[w] : w \in Open} \cap DOMAIN J.records |->
                      SeenAt(where[CHOOSE w \in Open : bound[w] = r], clock)]
           K == OutdateGenerations(J, DOMAIN seen)
           U == UpsertAutoRecords(K, seen)
           done == U.done = DOMAIN seen
           S == SaveObserved(J)
<1>1. /\ S = [J |-> IF done THEN U.J ELSE J, dirty |-> done /\ U.dirty, done |-> done]
  BY DEF SaveObserved
<1>2. S.J = (IF done THEN U.J ELSE J) /\ S.dirty = (done /\ U.dirty)
  BY <1>1
<1>3. /\ Changes(J, K, revision, dead, clock) /\ K.records = J.records
      /\ DOMAIN K.deltas = DOMAIN J.deltas
  BY OutdatingRefreshes
<1>4. K \in Journals(clock)
  BY <1>3 DEF Changes
<1> DEFINE R == {bound[w] : w \in Open} \cap DOMAIN J.records
           place(r) == where[CHOOSE w \in Open : bound[w] = r]
<1>5. ASSUME NEW r \in R PROVE SeenAt(place(r), clock) \in Dated(clock) /\ SeenAt(place(r), clock).seen = clock
  <2>1. \E w \in Open : bound[w] = r
    OBVIOUS
  <2>2. (CHOOSE w \in Open : bound[w] = r) \in Open
    BY <2>1
  <2>3. place(r) \in Places
    BY <2>2, OpenIsSomewhere
  <2>4. QED BY <2>3, SeenAtDated
<1>6. R \in SUBSET Ids
  BY JournalParts
<1>7. DOMAIN seen = R /\ \A r \in R : seen[r] = SeenAt(place(r), clock)
  OBVIOUS
<1>8. seen \in [R -> Dated(clock)]
  BY <1>5
<1> HIDE DEF seen, R, K, U, S
<1>9. seen \in Partials(Dated(clock))
  BY <1>6, <1>8, PartialFrom
<1>10. \A r \in DOMAIN seen : seen[r].seen = clock /\ (r \in DOMAIN K.records \/ r \notin dead)
  BY <1>3, <1>5, <1>7 DEF R
<1>11. /\ Changes(K, U.J, revision, dead, clock) /\ U.dirty \in BOOLEAN
       /\ DOMAIN U.J.deltas # {} => DOMAIN K.deltas # {} \/ U.dirty
  BY <1>4, <1>9, <1>10, UpsertingChanges DEF Typing, U
<1>12. CASE done
  BY <1>2, <1>3, <1>11, <1>12 DEF S
<1>13. CASE ~done
  BY <1>2, <1>13, NothingChanges DEF S
<1>14. QED BY <1>12, <1>13

LEMMA SeenChanges ==
  ASSUME Typing, clock \in Nat \ {0}, NEW J \in Journals(clock)
  PROVE  LET S == Seen(J)
         IN  /\ \E K : Changes(J, K, revision, dead, clock) /\ Changes(K, S.J, revision, dead, clock)
             /\ S.dirty \in BOOLEAN
             /\ DOMAIN S.J.deltas # {} => DOMAIN J.deltas # {} \/ S.dirty
<1>1. CASE Open = {} /\ life.present
  <2>1. Seen(J) = MarkAppMissing(J, revision)
    BY <1>1 DEF Seen
  <2>2. Changes(J, J, revision, dead, clock) /\ revision \in Revisions
    BY NothingChanges DEF Typing
  <2>3. QED BY <2>1, <2>2, MarkingChanges
<1>2. CASE ~(Open = {} /\ life.present) /\ MovedSinceSaved
  <2>1. Seen(J) = SaveObserved(J)
    BY <1>2 DEF Seen
  <2>2. QED BY <2>1, SaveObservedChanges
<1>3. CASE ~(Open = {} /\ life.present) /\ ~MovedSinceSaved
  <2>1. Seen(J) = [J |-> J, dirty |-> FALSE, done |-> FALSE]
    BY <1>3 DEF Seen
  <2>2. Seen(J).J = J /\ Seen(J).dirty = FALSE
    BY <2>1
  <2>3. QED BY <2>2, NothingChanges
<1>4. QED BY <1>1, <1>2, <1>3

\* Windows that are gone leave the journal ready.
LEMMA PruningKeeps ==
  ASSUME clock \in Nat \ {0}, Held, journal \in Journals(clock), WindowTyping
  PROVE  LET J == PrunedJournal(journal, bound)
         IN  /\ Core(J, revision, armed, file, dead, clock) /\ Grows(journal, J)
             /\ J \in Journals(clock) /\ J.records = journal.records
             /\ DOMAIN J.deltas = DOMAIN journal.deltas
             /\ Pruned(bound) \in [Wins -> Ids \cup {NoId}]
<1> DEFINE J == PrunedJournal(journal, bound)
<1>1. /\ Changes(journal, J, revision, dead, clock) /\ J.records = journal.records
      /\ DOMAIN J.deltas = DOMAIN journal.deltas
  BY OutdatingRefreshes DEF PrunedJournal
<1> HIDE DEF J
<1>2. Core(J, revision, armed, file, dead, clock) /\ Grows(journal, J)
  BY <1>1, ChangesKeepCore DEF Held
<1>3. Pruned(bound) \in [Wins -> Ids \cup {NoId}]
  BY DEF Pruned, WindowTyping
<1>4. QED BY <1>1, <1>2, <1>3 DEF J, Core

LEMMA ObserveKeeps ==
  ASSUME IInv, Observe
  PROVE  IInv' /\ Kept
<1> DEFINE J == PrunedJournal(journal, bound)
           S == Seen(J)
           fl == IF S.dirty THEN MarkDirty(flush) ELSE flush
<1>1. /\ Loaded /\ bound' = Pruned(bound)
      /\ UNCHANGED <<clock, file, where, dead, revision, armed, started, phase>>
  BY DEF Observe
<1>2. PICK fault \in {"none", "timer"} :
        /\ journal' = S.J /\ flush' = fl
        /\ timer' = IF S.dirty THEN Scheduled(fl, fault) ELSE timer
        /\ life' = [present |-> Open # {},
                    pending |-> Open # {} /\ (~Settled \/ (MovedSinceSaved /\ ~(S.done /\ \A w \in Open : bound[w] # NoId))),
                    saved |-> IF S.done /\ \A w \in Open : bound[w] # NoId THEN where ELSE life.saved]
  BY DEF Observe
<1>3. /\ Held /\ WindowTyping /\ clock \in Nat \ {0} /\ journal \in Journals(clock) /\ Typing
  BY <1>1, WhenLoaded DEF IInv
<1>4. /\ Core(J, revision, armed, file, dead, clock) /\ Grows(journal, J)
      /\ J \in Journals(clock) /\ DOMAIN J.deltas = DOMAIN journal.deltas
      /\ Pruned(bound) \in [Wins -> Ids \cup {NoId}]
  BY <1>3, PruningKeeps
<1> HIDE DEF J
<1>5. /\ \E K : Changes(J, K, revision, dead, clock) /\ Changes(K, S.J, revision, dead, clock)
      /\ S.dirty \in BOOLEAN
      /\ DOMAIN S.J.deltas # {} => DOMAIN J.deltas # {} \/ S.dirty
  BY <1>3, <1>4, SeenChanges
<1> HIDE DEF S
<1>6. fl \in Flushes /\ (S.dirty => fl.dirty) /\ (flush.dirty => fl.dirty)
  BY <1>3, <1>5 DEF WindowTyping, Flushes, MarkDirty
<1>7. DOMAIN S.J.deltas # {} => fl.dirty
  BY <1>3, <1>4, <1>5, <1>6 DEF Held
<1> HIDE DEF fl
<1>8. Ready(S.J, fl, dead)
  BY <1>3, <1>4, <1>5, <1>6, <1>7, ChangesAreReady
<1>9. life' \in Lives
  BY <1>2, <1>3 DEF Lives, WindowTyping
<1>10. timer' \in BOOLEAN
  BY <1>2, <1>3, ScheduledIsBoolean DEF WindowTyping
<1>11. WindowTyping'
  BY <1>1, <1>2, <1>3, <1>4, <1>6, <1>9, <1>10 DEF WindowTyping
<1>12. QED BY <1>1, <1>2, <1>8, <1>11, ChangingKeeps

\* What is seen now, of records that are known or new, keeps the journal ready.
LEMMA SeeingIsReady ==
  ASSUME IInv, Loaded, NEW R \in SUBSET Ids, NEW p \in [R -> Places], NEW T,
         R \subseteq DOMAIN journal.records \cup (Ids \ dead)
  PROVE  LET J == PrunedJournal(journal, bound)
             S == UpsertAutoRecords(OutdateGenerations(J, T), [r \in R |-> SeenAt(p[r], clock)])
         IN  /\ Ready(S.J, MarkDirty(flush), dead) /\ S.dirty \in BOOLEAN
             /\ ~S.dirty => Ready(S.J, flush, dead)
<1> DEFINE J == PrunedJournal(journal, bound)
           K == OutdateGenerations(J, T)
           seen == [r \in R |-> SeenAt(p[r], clock)]
           S == UpsertAutoRecords(K, seen)
           fl == MarkDirty(flush)
<1>1. /\ Held /\ WindowTyping /\ clock \in Nat \ {0} /\ journal \in Journals(clock) /\ Typing
  BY WhenLoaded DEF IInv
<1>2. /\ Core(J, revision, armed, file, dead, clock) /\ Grows(journal, J)
      /\ J \in Journals(clock) /\ J.records = journal.records
      /\ DOMAIN J.deltas = DOMAIN journal.deltas
  BY <1>1, PruningKeeps
<1> HIDE DEF J
<1>3. /\ Changes(J, K, revision, dead, clock) /\ K.records = J.records
      /\ DOMAIN K.deltas = DOMAIN J.deltas
  BY <1>1, <1>2, OutdatingRefreshes
<1> HIDE DEF K
<1>4. K \in Journals(clock)
  BY <1>3 DEF Changes
<1>5. \A r \in R : SeenAt(p[r], clock) \in Dated(clock) /\ SeenAt(p[r], clock).seen = clock
  BY <1>1, SeenAtDated
<1>6. /\ seen \in [R -> Dated(clock)] /\ DOMAIN seen = R
      /\ \A r \in R : seen[r].seen = clock
  BY <1>5
<1> HIDE DEF seen
<1>7. seen \in Partials(Dated(clock))
  BY <1>6, PartialFrom
<1>8. \A r \in DOMAIN seen : seen[r].seen = clock /\ (r \in DOMAIN K.records \/ r \notin dead)
  BY <1>2, <1>3, <1>6
<1>9. /\ Changes(K, S.J, revision, dead, clock) /\ S.dirty \in BOOLEAN
      /\ DOMAIN S.J.deltas # {} => DOMAIN K.deltas # {} \/ S.dirty
  BY <1>1, <1>4, <1>7, <1>8, UpsertingChanges DEF Typing
<1> HIDE DEF S
<1>10. fl \in Flushes /\ fl.dirty
  BY <1>1 DEF WindowTyping, Flushes, MarkDirty
<1> HIDE DEF fl
<1>11. Ready(S.J, fl, dead)
  BY <1>1, <1>2, <1>3, <1>9, <1>10, ChangesAreReady
<1>12. ASSUME ~S.dirty PROVE Ready(S.J, flush, dead)
  <2>1. flush \in Flushes /\ (DOMAIN S.J.deltas # {} => flush.dirty)
    BY <1>1, <1>2, <1>3, <1>9, <1>12 DEF Held, WindowTyping
  <2>2. QED BY <1>1, <1>2, <1>3, <1>9, <2>1, ChangesAreReady
<1>13. QED BY <1>9, <1>11, <1>12 DEF S, fl, K, J, seen

LEMMA OutdatingNothing ==
  ASSUME NEW t \in Nat \ {0}, NEW J \in Journals(t)
  PROVE  OutdateGenerations(J, {}) = J
<1>1. /\ J = [records |-> J.records, deltas |-> J.deltas, touches |-> J.touches,
              conflicts |-> J.conflicts]
  BY IsJournal
<1>2. J.deltas \in Partials(DeltasAt(t)) /\ J.touches \in Partials(TouchesAt(t))
  BY JournalParts
<1>3. J.deltas = [r \in DOMAIN J.deltas |-> J.deltas[r]]
  BY <1>2, IsPartialOf
<1>4. J.touches = [r \in DOMAIN J.touches |-> J.touches[r]]
  BY <1>2, IsPartialOf
<1> DEFINE K == OutdateGenerations(J, {})
<1>5. K = [records |-> J.records, deltas |-> [r \in DOMAIN J.deltas |-> J.deltas[r]],
           touches |-> [r \in DOMAIN J.touches |-> J.touches[r]], conflicts |-> J.conflicts]
  BY DEF OutdateGenerations
<1> HIDE DEF K
<1>6. K = [records |-> J.records, deltas |-> J.deltas, touches |-> J.touches,
           conflicts |-> J.conflicts]
  BY <1>3, <1>4, <1>5
<1>7. QED BY <1>1, <1>6 DEF K

LEMMA RecordWindowInPlaceKeeps ==
  ASSUME IInv, NEW w \in Wins, RecordWindowInPlace(w)
  PROVE  IInv' /\ Kept
<1>1. /\ Loaded /\ w \in Open
      /\ UNCHANGED <<clock, file, where, dead, revision, armed, life, started, phase, events>>
  BY DEF RecordWindowInPlace
<1>2. PICK r \in Ids :
        /\ Fresh(r)
        /\ journal' = UpsertAutoRecords(PrunedJournal(journal, bound),
                                        [x \in {r} |-> SeenAt(where[w], clock)]).J
        /\ flush' = MarkDirty(flush) /\ timer' = Scheduled(flush', "none")
        /\ bound' = [Pruned(bound) EXCEPT ![w] = r]
  BY DEF RecordWindowInPlace
<1> DEFINE J == PrunedJournal(journal, bound)
           p == [x \in {r} |-> where[w]]
           seen == [x \in {r} |-> SeenAt(where[w], clock)]
<1>3. /\ Held /\ WindowTyping /\ clock \in Nat \ {0} /\ journal \in Journals(clock) /\ Typing
  BY <1>1, WhenLoaded DEF IInv
<1>4. J \in Journals(clock) /\ Pruned(bound) \in [Wins -> Ids \cup {NoId}]
  BY <1>3, PruningKeeps
<1>5. OutdateGenerations(J, {}) = J
  BY <1>3, <1>4, OutdatingNothing
<1>6. p \in [{r} -> Places] /\ seen = [x \in {r} |-> SeenAt(p[x], clock)]
  BY <1>1, <1>3, OpenIsSomewhere
<1>7. {r} \in SUBSET Ids /\ {r} \subseteq DOMAIN journal.records \cup (Ids \ dead)
  BY <1>2 DEF Fresh
<1> HIDE DEF J, p, seen
<1>8. Ready(UpsertAutoRecords(J, seen).J, MarkDirty(flush), dead)
  <2>1. Ready(UpsertAutoRecords(OutdateGenerations(J, {}),
                                [x \in {r} |-> SeenAt(p[x], clock)]).J, MarkDirty(flush), dead)
    BY <1>1, <1>6, <1>7, SeeingIsReady DEF J
  <2>2. QED BY <1>5, <1>6, <2>1
<1>9. flush' \in Flushes /\ timer' \in BOOLEAN /\ bound' \in [Wins -> Ids \cup {NoId}]
  <2>1. flush' \in Flushes
    BY <1>2, <1>8 DEF Ready
  <2>2. timer' \in BOOLEAN
    BY <1>2, <1>3, ScheduledIsBoolean DEF WindowTyping
  <2>3. bound' \in [Wins -> Ids \cup {NoId}]
    BY <1>2, <1>4
  <2>4. QED BY <2>1, <2>2, <2>3
<1>10. WindowTyping'
  BY <1>1, <1>3, <1>9 DEF WindowTyping
<1>11. journal' = UpsertAutoRecords(J, seen).J
  BY <1>2 DEF J, seen
<1>12. Ready(journal', flush', dead)
  BY <1>2, <1>8, <1>11
<1>13. QED BY <1>1, <1>10, <1>12, ChangingKeeps

LEMMA RestorePassKeeps ==
  ASSUME IInv, RestorePass
  PROVE  IInv' /\ Kept
<1> DEFINE kept == {w \in Open : bound[w] \in DOMAIN journal.records}
           J == PrunedJournal(journal, bound)
<1>1. /\ Loaded /\ UNCHANGED <<clock, file, dead, revision, armed, started, phase>>
      /\ life' = [present |-> TRUE, pending |-> FALSE, saved |-> where]
  BY DEF RestorePass
<1>2. PICK m \in [Open -> Ids] :
       LET matched == {w \in Open \ kept : m[w] \in DOMAIN journal.records}
           place(w) == IF w \in matched THEN journal.records[m[w]].place
                       ELSE where[w]
           seen == [r \in {m[w] : w \in Open} |->
                      SeenAt(place(CHOOSE w \in Open : m[w] = r), clock)]
           refused == {m[w] : w \in kept} \ UpsertAutoRecords(J, seen).done
           S == UpsertAutoRecords(OutdateGenerations(J, DOMAIN seen \ refused), seen)
           fl == IF S.dirty THEN MarkDirty(flush) ELSE flush
       IN  /\ \A w \in kept : m[w] = bound[w]
           /\ \A w \in Open \ (kept \cup matched) : Fresh(m[w])
           /\ journal' = S.J
           /\ flush' = fl
           /\ timer' = IF S.dirty THEN Scheduled(fl, "none") ELSE timer
           /\ \E failed \in SUBSET matched :
                /\ bound' = [w \in Wins |-> IF w \in Open \ failed THEN m[w] ELSE NoId]
                /\ where' = [w \in Wins |-> IF w \in Open \ failed THEN place(w)
                                           ELSE where[w]]
  BY DEF RestorePass
<1> DEFINE matched == {w \in Open \ kept : m[w] \in DOMAIN journal.records}
           place(w) == IF w \in matched THEN journal.records[m[w]].place ELSE where[w]
           R == {m[w] : w \in Open}
           p == [r \in R |-> place(CHOOSE w \in Open : m[w] = r)]
           seen == [r \in R |-> SeenAt(place(CHOOSE w \in Open : m[w] = r), clock)]
           refused == {m[w] : w \in kept} \ UpsertAutoRecords(J, seen).done
           T == DOMAIN seen \ refused
           S == UpsertAutoRecords(OutdateGenerations(J, T), seen)
           fl == IF S.dirty THEN MarkDirty(flush) ELSE flush
<1>3. /\ \A w \in kept : m[w] = bound[w]
      /\ \A w \in Open \ (kept \cup matched) : Fresh(m[w])
      /\ journal' = S.J /\ flush' = fl
      /\ timer' = IF S.dirty THEN Scheduled(fl, "none") ELSE timer
  BY <1>2
<1>4. PICK failed \in SUBSET matched :
        /\ bound' = [w \in Wins |-> IF w \in Open \ failed THEN m[w] ELSE NoId]
        /\ where' = [w \in Wins |-> IF w \in Open \ failed THEN place(w) ELSE where[w]]
  BY <1>2
<1>5. /\ Held /\ WindowTyping /\ clock \in Nat \ {0} /\ journal \in Journals(clock) /\ Typing
  BY <1>1, WhenLoaded DEF IInv
<1>6. ASSUME NEW w \in Open PROVE place(w) \in Places
  <2>1. CASE w \in matched
    <3>1. journal.records[m[w]] \in Dated(clock)
      BY <1>5, <2>1, JournalParts
    <3>2. QED BY <1>5, <2>1, <3>1, DatedFacts
  <2>2. CASE w \notin matched
    BY <1>5, <2>2, OpenIsSomewhere
  <2>3. QED BY <2>1, <2>2
<1>7. ASSUME NEW r \in R
      PROVE  r \in Ids /\ (r \in DOMAIN journal.records \/ r \notin dead)
  <2>1. PICK w \in Open : m[w] = r
    OBVIOUS
  <2>2. w \in kept \/ w \in matched \/ Fresh(r)
    BY <1>3, <2>1
  <2>3. QED BY <1>3, <2>1, <2>2 DEF Fresh
<1> HIDE DEF place
<1>8. p \in [R -> Places] /\ seen = [r \in R |-> SeenAt(p[r], clock)]
  <2>1. ASSUME NEW r \in R PROVE (CHOOSE w \in Open : m[w] = r) \in Open
    <3>1. \E w \in Open : m[w] = r
      OBVIOUS
    <3>2. QED BY <3>1
  <2>2. \A r \in R : place(CHOOSE w \in Open : m[w] = r) \in Places
    BY <1>6, <2>1
  <2>3. QED BY <2>2
<1>9. R \in SUBSET Ids /\ R \subseteq DOMAIN journal.records \cup (Ids \ dead)
  BY <1>7
<1> HIDE DEF R, p, seen, T, kept, matched, S
<1>10. /\ Ready(S.J, MarkDirty(flush), dead) /\ S.dirty \in BOOLEAN
       /\ ~S.dirty => Ready(S.J, flush, dead)
  <2> DEFINE V == UpsertAutoRecords(OutdateGenerations(J, T), [r \in R |-> SeenAt(p[r], clock)])
  <2>1. /\ Ready(V.J, MarkDirty(flush), dead) /\ V.dirty \in BOOLEAN
        /\ ~V.dirty => Ready(V.J, flush, dead)
    BY <1>1, <1>8, <1>9, SeeingIsReady
  <2>2. S = V
    BY <1>8 DEF S
  <2> HIDE DEF V
  <2>3. QED BY <2>1, <2>2
<1>11. Ready(journal', flush', dead)
  BY <1>3, <1>10
<1>12. bound' \in [Wins -> Ids \cup {NoId}] /\ where' \in [Wins -> Places \cup {Closed}]
  <2>1. \A w \in Open : m[w] \in Ids
    OBVIOUS
  <2>2. \A w \in Wins : where[w] \in Places \cup {Closed}
    BY <1>5 DEF WindowTyping
  <2>3. bound' \in [Wins -> Ids \cup {NoId}]
    BY <1>4, <2>1
  <2>4. where' \in [Wins -> Places \cup {Closed}]
    BY <1>4, <1>6, <2>2
  <2>5. QED BY <2>3, <2>4
<1>13. life' \in Lives /\ flush' \in Flushes /\ timer' \in BOOLEAN
  <2>1. life' \in Lives
    BY <1>1, <1>5 DEF Lives, WindowTyping
  <2>2. flush' \in Flushes
    BY <1>11 DEF Ready
  <2>3. timer' \in BOOLEAN
    BY <1>3, <1>5, ScheduledIsBoolean DEF WindowTyping
  <2>4. QED BY <2>1, <2>2, <2>3
<1>14. WindowTyping'
  BY <1>12, <1>13 DEF WindowTyping
<1>15. QED BY <1>1, <1>11, <1>14, ChangingKeeps

LEMMA FewerDead ==
  ASSUME NEW J, NEW rev, NEW arm, NEW f, NEW dd, NEW t, Core(J, rev, arm, f, dd, t),
         NEW ee, ee \subseteq dd
  PROVE  Core(J, rev, arm, f, ee, t)
BY DEF Core, Buried, Candidate

LEMMA PopupSaveKeeps ==
  ASSUME IInv, NEW w \in Wins, PopupSave(w)
  PROVE  IInv' /\ Kept
<1>1. Loaded /\ w \in Open /\ UNCHANGED <<clock, life, started, phase>>
  BY DEF PopupSave
<1>2. PICK p \in Places \ {where[w]}, r \in Ids, fault \in StorageFaults :
       LET J == OutdateGenerations(journal, {r})
           d == Delta("explicit", SeenAt(p, clock), RecAt(journal.records, r),
                      revision, clock)
           touched == [StageRecordDeltas(J, [x \in {r} |-> d]) EXCEPT
                         !.touches = Over([x \in {r} |-> [seen |-> clock, current |-> TRUE]], @)]
       IN  /\ where' = [where EXCEPT ![w] = p]
           /\ IF MayStage(journal, r, d)
              THEN \E F \in {Flushed(touched, MarkDirty(flush), TRUE, fault)} :
                     /\ Write(F)
                     /\ timer' = Scheduled(F.flush, fault)
                     /\ bound' = [bound EXCEPT ![w] = r]
                     /\ dead' = IF r \in DOMAIN journal.records THEN dead ELSE dead \ {r}
              ELSE /\ fault = "none"
                   /\ UNCHANGED <<bound, dead, journal, revision, armed, file, flush, timer>>
  BY DEF PopupSave
<1> DEFINE J == OutdateGenerations(journal, {r})
           d == Delta("explicit", SeenAt(p, clock), RecAt(journal.records, r), revision, clock)
           ds == [x \in {r} |-> d]
           staged == StageRecordDeltas(J, ds)
           touches == Over([x \in {r} |-> [seen |-> clock, current |-> TRUE]], staged.touches)
           touched == [staged EXCEPT !.touches = touches]
           F == Flushed(touched, MarkDirty(flush), TRUE, fault)
<1>3. /\ where' = [where EXCEPT ![w] = p]
      /\ IF MayStage(journal, r, d)
         THEN /\ Write(F) /\ timer' = Scheduled(F.flush, fault)
              /\ bound' = [bound EXCEPT ![w] = r]
              /\ dead' = IF r \in DOMAIN journal.records THEN dead ELSE dead \ {r}
         ELSE UNCHANGED <<bound, dead, journal, revision, armed, file, flush, timer>>
  BY <1>2
<1>4. /\ Held /\ WindowTyping /\ clock \in Nat \ {0} /\ journal \in Journals(clock) /\ Typing
      /\ Ready(journal, flush, dead)
  BY <1>1, WhenLoaded DEF IInv
<1>5. where' \in [Wins -> Places \cup {Closed}]
  BY <1>3, <1>4 DEF WindowTyping
<1>6. CASE ~MayStage(journal, r, d)
  <2>1. UNCHANGED <<bound, dead, journal, revision, armed, file, flush, timer>>
    BY <1>3, <1>6
  <2>2. WindowTyping'
    BY <1>1, <1>4, <1>5, <2>1 DEF WindowTyping
  <2>3. Ready(journal', flush', dead)
    BY <1>4, <2>1
  <2>4. QED BY <1>1, <2>1, <2>2, <2>3, ChangingKeeps
<1>7. CASE MayStage(journal, r, d)
  <2>1. /\ Write(F) /\ timer' = Scheduled(F.flush, fault) /\ bound' = [bound EXCEPT ![w] = r]
        /\ dead' = IF r \in DOMAIN journal.records THEN dead ELSE dead \ {r}
    BY <1>3, <1>7
  <2>2. /\ dead' \subseteq dead /\ dead' \subseteq Ids /\ dead' \cap DOMAIN file.recs = {}
        /\ r \in DOMAIN journal.records \/ r \notin dead'
    BY <1>4, <2>1 DEF Held
  <2> DEFINE dd == dead'
  <2>3. Core(journal, revision, armed, file, dd, clock)
    BY <1>4, <2>2, FewerDead DEF Held
  <2> HIDE DEF dd
  <2>4. /\ Changes(journal, J, revision, dd, clock) /\ J.records = journal.records
        /\ J.conflicts = journal.conflicts
    BY <1>4, OutdatingRefreshes
  <2> HIDE DEF J
  <2>5. J \in Journals(clock) /\ Core(J, revision, armed, file, dd, clock) /\ Grows(journal, J)
    BY <1>4, <2>3, <2>4, ChangesKeepCore DEF Held, Core
  <2>6. SeenAt(p, clock) \in Dated(clock) /\ SeenAt(p, clock).seen = clock
    BY <1>4, SeenAtDated
  <2>7. RecAt(journal.records, r) \in Dated(clock) \cup {NoRec}
    <3>1. journal.records \in Partials(Dated(clock))
      BY <1>4, JournalParts
    <3>2. QED BY <1>4, <3>1, RecAtFacts
  <2>8. d = [kind |-> "explicit", rec |-> SeenAt(p, clock), base |-> RecAt(journal.records, r),
             baseRev |-> revision, changed |-> clock, current |-> TRUE]
    BY DEF Delta
  <2> HIDE DEF d
  <2>9. /\ d \in DeltasAt(clock) /\ d.kind = "explicit" /\ d.rec.seen = clock /\ d.changed = clock
        /\ d.baseRev = revision /\ d.base = RecAt(journal.records, r)
    BY <1>4, <2>6, <2>7, <2>8 DEF DeltasAt, Kinds, Held
  <2>10. ChangeFits(J, r, d, revision, dd, clock)
    BY <2>2, <2>4, <2>9 DEF ChangeFits, Upserts, dd
  <2>11. /\ ds \in [{r} -> DeltasAt(clock)] /\ DOMAIN ds = {r} /\ ds[r] = d
    BY <2>9
  <2> HIDE DEF ds
  <2>12. ds \in Partials(DeltasAt(clock)) /\ \A x \in DOMAIN ds : ChangeFits(J, x, ds[x], revision, dd, clock)
    BY <2>10, <2>11, PartialFrom
  <2>13. staged \in Journals(clock)
    BY <1>4, <2>5, <2>12, StagingParts
  <2> HIDE DEF staged
  <2>14. touches \in Partials(TouchesAt(clock)) /\ DOMAIN staged.touches \subseteq DOMAIN touches
    <3> DEFINE one == [x \in {r} |-> [seen |-> clock, current |-> TRUE]]
    <3>1. one \in [{r} -> TouchesAt(clock)]
      BY <1>4 DEF TouchesAt
    <3> HIDE DEF one
    <3>2. one \in Partials(TouchesAt(clock))
      BY <3>1, PartialFrom
    <3>3. staged.touches \in Partials(TouchesAt(clock))
      BY <2>13, JournalParts
    <3>4. Over(one, staged.touches) \in Partials(TouchesAt(clock))
      BY <3>2, <3>3, Overlaid
    <3>5. DOMAIN staged.touches \subseteq DOMAIN Over(one, staged.touches)
      BY DEF Over
    <3>6. QED BY <3>4, <3>5 DEF one
  <2> HIDE DEF touches
  <2>15. /\ touched \in Journals(clock) /\ touched.records = staged.records
         /\ touched.deltas = staged.deltas /\ touched.conflicts = staged.conflicts
         /\ touched.touches = touches
    BY <2>13, <2>14 DEF Journals
  <2> HIDE DEF touched
  <2>16. Carries(J, ds, touched)
    <3>1. /\ staged.touches = J.touches
          /\ \A x \in Ids \ DOMAIN ds :
               /\ x \in DOMAIN staged.records <=> x \in DOMAIN J.records
               /\ x \in DOMAIN J.records => staged.records[x] = J.records[x]
      BY <1>4, <2>5, <2>12, StagingParts DEF staged
    <3>2. \A x \in DOMAIN J.records : J.records[x].seen >= J.records[x].seen
      <4>1. \A x \in DOMAIN J.records : J.records[x] \in Dated(clock)
        BY <2>5, JournalParts
      <4>2. \A x \in DOMAIN J.records : J.records[x].seen \in 1..clock
        BY <1>4, <4>1, DatedFacts
      <4>3. QED BY <1>4, <4>2
    <3>3. \A x \in Ids \ DOMAIN ds :
            /\ x \in DOMAIN touched.records <=> x \in DOMAIN J.records
            /\ x \in DOMAIN J.records => /\ SameSemantic(touched.records[x], J.records[x])
                                         /\ touched.records[x].seen >= J.records[x].seen
            /\ x \in DOMAIN J.touches => x \in DOMAIN touched.touches
      BY <2>14, <2>15, <3>1, <3>2 DEF SameSemantic
    <3>4. QED BY <2>15, <3>3 DEF Carries, staged
  <2>17. Changes(J, touched, revision, dd, clock)
    BY <1>4, <2>5, <2>12, <2>15, <2>16, StagingChanges
  <2>18. Core(touched, revision, armed, file, dd, clock) /\ Grows(J, touched)
    BY <1>4, <2>5, <2>17, ChangesKeepCore DEF Held
  <2>19. Grows(journal, touched)
    BY <1>4, <2>5, <2>15, <2>18, GrowsOn
  <2>20. Ready(touched, MarkDirty(flush), dead')
    BY <1>4, <2>18, <2>19, DirtyIsReady DEF dd, WindowTyping
  <2>21. bound' \in [Wins -> Ids \cup {NoId}] /\ timer' \in BOOLEAN
    BY <1>4, <2>1, ScheduledIsBoolean DEF WindowTyping
  <2>22. flush' \in Flushes => WindowTyping'
    BY <1>1, <1>4, <1>5, <2>21 DEF WindowTyping
  <2>23. QED BY <1>1, <2>1, <2>2, <2>20, <2>22, WritingKeeps
<1>8. QED BY <1>6, <1>7

-----------------------------------------------------------------------------
(* The end of the automatic runtime, and its start.                        *)

\* What is left of a layout that is gone keeps the invariant.
LEMMA UnloadingKeeps ==
  ASSUME IInv, Unloaded, UNCHANGED <<clock, dead, where>>,
         bound' \in [Wins -> Ids \cup {NoId}], phase' \in {"up", "off", "exited", "ended"},
         file' \in FilesAt(clock), dead \cap DOMAIN file'.recs = {}
  PROVE  IInv'
<1>1. /\ journal' = EmptyJournal(<<>>) /\ revision' = 0 /\ armed' = Unarmed
      /\ flush' = [dirty |-> FALSE, due |-> FALSE] /\ timer' = FALSE
      /\ life' = [present |-> FALSE, pending |-> FALSE, saved |-> [w \in Wins |-> Closed]]
      /\ started' = {}
  BY DEF Unloaded
<1>2. clock \in Nat \ {0} /\ clock \in 1..MaxClock
  BY AutoLayoutAssumption DEF IInv, Typing
<1>3. <<>> \in Partials(Dated(clock)) /\ DOMAIN <<>> = {}
  BY NothingIsPartial
<1>4. Unarmed \in ArmedAt(clock) /\ ~Unarmed.set
  BY <1>3 DEF Unarmed, ArmedAt
<1>5. 0 \in Revisions
  BY AutoLayoutAssumption, FS_CardinalityType DEF Revisions
<1>6. Typing'
  <2>1. started' \in {StartedBefore(stop) : stop \in Stages \cup {"none"}}
    BY <1>1 DEF StartedBefore, Stages
  <2>2. QED BY <1>1, <1>2, <1>4, <1>5, <2>1 DEF IInv, Typing
<1>7. file'.rev # 0
  BY DEF FilesAt
<1>8. EmptyJournal(<<>>).deltas = <<>> /\ EmptyJournal(<<>>).conflicts = <<>> /\ EmptyJournal(<<>>).touches = <<>>
  BY DEF EmptyJournal
<1>9. Starting'
  BY <1>1, <1>3, <1>4, <1>8 DEF Starting, OnlyExpired
<1>10. Core(EmptyJournal(<<>>), 0, Unarmed, file', dead, clock)
  <2> DEFINE f == file'
             dd == dead
             arm == Unarmed
  <2>1. f.rev # 0 /\ ~arm.set
    BY <1>4, <1>7
  <2> HIDE DEF f, dd, arm
  <2>2. Core(EmptyJournal(<<>>), 0, arm, f, dd, clock)
    BY <1>2, <1>3, <2>1, EmptyJournalFits
  <2>3. QED BY <2>2 DEF f, dd, arm
<1>11. QED BY <1>1, <1>3, <1>6, <1>8, <1>9, <1>10 DEF IInv

LEMMA NothingConflictsUnloaded ==
  ASSUME Unloaded
  PROVE  DOMAIN journal'.conflicts = {} /\ DOMAIN journal'.deltas = {}
BY NothingIsPartial DEF Unloaded, EmptyJournal

LEMMA CrashKeeps ==
  ASSUME IInv, Crash
  PROVE  IInv' /\ Kept
<1>1. /\ Unloaded /\ phase' = "ended"
      /\ UNCHANGED <<clock, file, where, bound, dead, events>>
  BY DEF Crash
<1>2. file' \in FilesAt(clock) /\ bound' \in [Wins -> Ids \cup {NoId}] /\ dead \cap DOMAIN file'.recs = {}
  BY <1>1 DEF IInv, Typing
<1>3. IInv'
  BY <1>1, <1>2, UnloadingKeeps
<1>4. Kept
  BY <1>1, NothingConflictsUnloaded DEF Kept
<1>5. QED BY <1>3, <1>4

LEMMA LeaveUnloadedKeeps ==
  ASSUME IInv, LeaveUnloaded
  PROVE  IInv' /\ Kept
<1>1. /\ Unloaded /\ phase' \in {"exited", "ended"}
      /\ phase = "off" \/ (phase = "up" /\ ~Loaded)
      /\ UNCHANGED <<clock, file, where, bound, dead, events>>
  BY DEF LeaveUnloaded
<1>2. file' \in FilesAt(clock) /\ bound' \in [Wins -> Ids \cup {NoId}] /\ dead \cap DOMAIN file'.recs = {}
  BY <1>1 DEF IInv, Typing
<1>3. IInv'
  BY <1>1, <1>2, UnloadingKeeps
<1>4. started # Stages
  BY <1>1 DEF Loaded, IInv, Typing, Stages
<1>5. OnlyExpired(journal, file.recs)
  BY <1>4 DEF IInv, Starting
<1>6. ASSUME NEW r \in DOMAIN journal.deltas
      PROVE  IF r \in DOMAIN file'.recs THEN file'.recs[r].seen >= journal.deltas[r].rec.seen
                                        ELSE Old(journal.deltas[r].rec, clock)
  <2>1. journal.deltas[r].kind = "expire" /\ DeltaFits(journal.deltas[r], clock)
    BY <1>5 DEF OnlyExpired, IInv, Core, Chained
  <2>2. QED BY <1>1, <1>5, <2>1 DEF OnlyExpired, DeltaFits
<1>7. Kept
  BY <1>1, <1>6, NothingConflictsUnloaded DEF Kept
<1>8. QED BY <1>3, <1>7

LEMMA TurnOnKeeps ==
  ASSUME IInv, TurnOn
  PROVE  IInv' /\ Kept
<1>1. /\ phase = "off" /\ phase' = "up"
      /\ UNCHANGED <<clock, file, where, bound, dead, journal, revision, armed, flush,
                     timer, life, started, events>>
  BY DEF TurnOn
<1>2. Typing' /\ Starting'
  BY <1>1 DEF IInv, Typing, Starting
<1>3. QED BY <1>1, <1>2 DEF IInv, Kept

LEMMA StartProgramKeeps ==
  ASSUME IInv, StartProgram
  PROVE  IInv' /\ Kept
<1>1. /\ phase \in {"exited", "ended"} /\ phase' = "up"
      /\ UNCHANGED <<clock, file, where, bound, dead, journal, revision, armed, flush,
                     timer, life, started>>
  BY DEF StartProgram
<1>2. Typing' /\ Starting'
  BY <1>1 DEF IInv, Typing, Starting
<1>3. QED BY <1>1, <1>2 DEF IInv, Kept

LEMMA WindowsChangeKeeps ==
  ASSUME IInv, WindowsChange
  PROVE  IInv' /\ Kept
<1>1. UNCHANGED <<clock, file, dead, journal, revision, armed, flush, timer, started, phase>>
  BY DEF WindowsChange
<1>2. PICK w \in Wins : CloseWindow(w) \/ \E p \in Places : MoveWindow(w, p) \/ OpenWindow(w, p)
  BY DEF WindowsChange
<1>3. /\ where \in [Wins -> Places \cup {Closed}] /\ bound \in [Wins -> Ids \cup {NoId}]
      /\ life \in Lives
  BY DEF IInv, Typing, Lives
<1>4. where' \in [Wins -> Places \cup {Closed}] /\ bound' \in [Wins -> Ids \cup {NoId}]
  BY <1>2, <1>3 DEF CloseWindow, MoveWindow, OpenWindow
<1>5. life' \in Lives
  <2>1. CASE life' = life
    BY <1>3, <2>1
  <2>2. CASE life' = [life EXCEPT !.saved[w] = Closed]
    BY <1>3, <2>2 DEF Lives
  <2>3. QED BY <1>2, <2>1, <2>2 DEF CloseWindow, MoveWindow, OpenWindow
<1>6. Typing' /\ Starting'
  BY <1>1, <1>4, <1>5 DEF IInv, Typing, Starting, Lives
<1>7. QED BY <1>1, <1>6 DEF IInv, Kept

\* The records of a checkpoint are ready to be written.
LEMMA FinalIsReady ==
  ASSUME IInv, Loaded, NEW final, FinalFits(final, dead), FinalAccepted(final)
  PROVE  Ready(FinalJournal(final), MarkDirty(flush), dead) /\ MarkDirty(flush).dirty
<1>1. /\ Held /\ WindowTyping /\ clock \in Nat \ {0} /\ journal \in Journals(clock)
  BY WhenLoaded
<1>2. /\ Core(FinalJournal(final), revision, armed, file, dead, clock)
      /\ Grows(journal, FinalJournal(final))
  BY <1>1, FinalJournalKeeps DEF Held
<1>3. flush \in Flushes
  BY <1>1 DEF WindowTyping
<1>4. QED BY <1>2, <1>3, DirtyIsReady DEF MarkDirty

\* What a checkpoint leaves behind, written or not.
LEMMA Checkpointing ==
  ASSUME IInv, Loaded, NEW final, FinalFits(final, dead), NEW fault
  PROVE  LET F == Checkpointed(final, fault)
             S == F.state
         IN  /\ S \in States /\ Sound(S, dead) /\ Delivers(journal, S) /\ Follows(S.file, file)
             /\ DOMAIN S.J.conflicts \ DOMAIN journal.conflicts # {} => file.by = "other"
             /\ F.flush \in Flushes
             /\ DOMAIN S.J.deltas # {} => F.flush.dirty
             /\ F.clean => S.saved
<1> DEFINE F == Checkpointed(final, fault)
           S == F.state
           W == WriteState(journal)
<1>1. /\ Held /\ WindowTyping /\ clock \in Nat \ {0} /\ journal \in Journals(clock)
      /\ dead \cap DOMAIN file.recs = {}
  BY WhenLoaded DEF Held
<1>2. CASE fault = "desktops" \/ ~FinalAccepted(final)
  <2>1. F = [state |-> W, flush |-> flush, clean |-> FALSE]
    BY <1>2 DEF Checkpointed
  <2>2. F.state = W /\ F.flush = flush /\ F.clean = FALSE
    BY <2>1
  <2> HIDE DEF F
  <2>3. /\ W.J = journal /\ W.rev = revision /\ W.armed = armed /\ W.file = file /\ W.saved = FALSE
        /\ W \in States
    BY <1>1 DEF WriteState, States, Held
  <2> HIDE DEF W
  <2>4. Sound(W, dead) /\ Delivers(journal, W) /\ Follows(W.file, file)
    BY <1>1, <2>3 DEF Sound, Delivers, Follows, Held
  <2>5. QED BY <1>1, <2>2, <2>3, <2>4 DEF Held, WindowTyping, F
<1>3. CASE ~(fault = "desktops" \/ ~FinalAccepted(final))
  <2> DEFINE J == FinalJournal(final)
             fl == MarkDirty(flush)
  <2>1. F = Flushed(J, fl, TRUE, fault)
    BY <1>3 DEF Checkpointed
  <2>2. Ready(J, fl, dead) /\ fl.dirty
    BY <1>3, FinalIsReady
  <2> HIDE DEF F, J, fl
  <2> DEFINE G == Flushed(J, fl, TRUE, fault)
  <2>3. /\ G.state \in States /\ Sound(G.state, dead) /\ Delivers(journal, G.state)
        /\ Follows(G.state.file, file)
        /\ DOMAIN G.state.J.conflicts \ DOMAIN journal.conflicts # {} => file.by = "other"
        /\ G.flush \in Flushes
        /\ DOMAIN G.state.J.deltas # {} => G.flush.dirty
        /\ G.clean /\ fl.dirty => G.state.saved
    BY <1>1, <2>2, WriteDelivers
  <2>4. F = G
    BY <2>1
  <2> HIDE DEF G
  <2>5. QED BY <2>2, <2>3, <2>4 DEF F
<1>4. QED BY <1>2, <1>3

LEMMA CheckpointKeeps ==
  ASSUME IInv, Checkpoint
  PROVE  IInv' /\ Kept
<1>1. Loaded /\ UNCHANGED <<clock, where, dead>>
  BY DEF Checkpoint
<1>2. PICK complete \in BOOLEAN, fault \in StorageFaults \cup {"timer"} :
       \E m \in IF complete THEN FinalMatches ELSE {<<>>} :
          \E final \in {IF complete THEN FinalRecords(m) ELSE journal.records} :
          \E F \in {Checkpointed(final, fault)} :
            LET committed == complete /\ fault # "desktops" /\ FinalAccepted(final)
                newly == {w \in DOMAIN m : m[w] \notin DOMAIN journal.records}
            IN  /\ \E adopted \in SUBSET (IF committed THEN newly ELSE {}) :
                     bound' = [w \in Wins |-> IF w \in adopted THEN m[w]
                                             ELSE IF committed THEN Pruned(bound)[w]
                                             ELSE bound[w]]
                /\ \/ CheckpointOnly(F, fault)
                   \/ EndSession(F)
                   \/ TrayExit(F)
                   \/ TurnOff(F)
  BY DEF Checkpoint
<1>3. PICK m \in IF complete THEN FinalMatches ELSE {<<>>} :
          \E final \in {IF complete THEN FinalRecords(m) ELSE journal.records} :
          \E F \in {Checkpointed(final, fault)} :
            LET committed == complete /\ fault # "desktops" /\ FinalAccepted(final)
                newly == {w \in DOMAIN m : m[w] \notin DOMAIN journal.records}
            IN  /\ \E adopted \in SUBSET (IF committed THEN newly ELSE {}) :
                     bound' = [w \in Wins |-> IF w \in adopted THEN m[w]
                                             ELSE IF committed THEN Pruned(bound)[w]
                                             ELSE bound[w]]
                /\ \/ CheckpointOnly(F, fault)
                   \/ EndSession(F)
                   \/ TrayExit(F)
                   \/ TurnOff(F)
  BY <1>2
<1> DEFINE final == IF complete THEN FinalRecords(m) ELSE journal.records
           F == Checkpointed(final, fault)
           S == F.state
<1>4. /\ \/ CheckpointOnly(F, fault)
         \/ EndSession(F)
         \/ TrayExit(F)
         \/ TurnOff(F)
      /\ \E committed \in BOOLEAN, adopted \in SUBSET DOMAIN m :
           bound' = [w \in Wins |-> IF w \in adopted THEN m[w]
                                    ELSE IF committed THEN Pruned(bound)[w]
                                    ELSE bound[w]]
  BY <1>3
<1>5. /\ Held /\ WindowTyping /\ clock \in Nat \ {0} /\ journal \in Journals(clock) /\ Typing
  BY <1>1, WhenLoaded DEF IInv
<1>6. \A w \in DOMAIN m : m[w] \in Ids
  <2>1. CASE complete
    BY <2>1 DEF FinalMatches
  <2>2. CASE ~complete
    BY <2>2, NothingIsPartial
  <2>3. QED BY <2>1, <2>2
<1>7. bound' \in [Wins -> Ids \cup {NoId}]
  <2>1. Pruned(bound) \in [Wins -> Ids \cup {NoId}] /\ bound \in [Wins -> Ids \cup {NoId}]
    BY <1>5, PruningKeeps DEF WindowTyping
  <2>2. QED BY <1>4, <1>6, <2>1
<1>8. FinalFits(final, dead)
  <2>1. CASE complete
    BY <1>5, <2>1, FinalRecordsFit
  <2>2. CASE ~complete
    BY <1>5, <2>2, UnseenFinalFits
  <2>3. QED BY <2>1, <2>2
<1> HIDE DEF final
<1>9. /\ S \in States /\ Sound(S, dead) /\ Delivers(journal, S) /\ Follows(S.file, file)
      /\ DOMAIN S.J.conflicts \ DOMAIN journal.conflicts # {} => file.by = "other"
      /\ F.flush \in Flushes
      /\ DOMAIN S.J.deltas # {} => F.flush.dirty
      /\ F.clean => S.saved
  BY <1>1, <1>8, Checkpointing
<1> HIDE DEF F
<1>10. S.file \in FilesAt(clock) /\ dead \cap DOMAIN S.file.recs = {}
  BY <1>9 DEF States, Sound
<1>11. CASE CheckpointOnly(F, fault)
  <2>1. /\ journal' = S.J /\ revision' = S.rev /\ armed' = S.armed /\ file' = S.file
        /\ flush' = F.flush /\ timer' = Scheduled(F.flush, fault)
        /\ UNCHANGED <<life, started, phase>>
    BY <1>11 DEF CheckpointOnly, Write
  <2>2. Held'
    BY <1>1, <1>5, <1>9, <2>1 DEF Held, States, Sound
  <2>3. WindowTyping'
    BY <1>1, <1>5, <1>7, <1>9, <2>1, ScheduledIsBoolean DEF WindowTyping
  <2>4. IInv'
    BY <1>1, <2>1, <2>2, <2>3, LoadedKeeps
  <2>5. Kept
    BY <1>1, <1>9, <2>1 DEF Kept, Delivers, Follows
  <2>6. QED BY <2>4, <2>5
<1>12. CASE EndSession(F)
  <2>1. file' = S.file /\ Unloaded /\ phase' = "ended"
    BY <1>12 DEF EndSession
  <2>2. IInv'
    BY <1>1, <1>7, <1>10, <2>1, UnloadingKeeps
  <2>3. Kept
    BY <1>1, <1>9, <2>1, NothingConflictsUnloaded DEF Kept, Follows
  <2>4. QED BY <2>2, <2>3
<1>13. CASE TrayExit(F) \/ TurnOff(F)
  <2>1. F.clean /\ file' = S.file /\ Unloaded /\ phase' \in {"exited", "off"}
    BY <1>13 DEF TrayExit, TurnOff
  <2>2. IInv'
    BY <1>1, <1>7, <1>10, <2>1, UnloadingKeeps
  <2>3. DOMAIN S.J.deltas = {}
    BY <1>9, <2>1 DEF Delivers
  <2>4. Kept
    BY <1>1, <1>9, <2>1, <2>3, NothingConflictsUnloaded DEF Kept, Delivers, Follows
  <2>5. QED BY <2>2, <2>4
<1>14. QED BY <1>4, <1>11, <1>12, <1>13

\* Loading the file leaves nothing pending but deletions of expired records.
LEMMA LoadingFits ==
  ASSUME clock \in Nat \ {0}, file \in FilesAt(clock), dead \cap DOMAIN file.recs = {},
         armed \in ArmedAt(clock), ~armed.set
  PROVE  LET L == LoadAutoLayout
         IN  /\ Core(L.J, file.rev, armed, file, dead, clock) /\ OnlyExpired(L.J, file.recs)
             /\ L.dirty \in BOOLEAN /\ (DOMAIN L.J.deltas # {} => L.dirty)
<1> DEFINE L == LoadAutoLayout
           expired == {r \in DOMAIN file.recs : IsExpired(file.recs[r], clock)}
           left == Without(file.recs, expired)
           J == EmptyJournal(left)
           delete(r) == Delta("expire", file.recs[r], file.recs[r], file.rev, clock)
           ds == [r \in expired |-> delete(r)]
           K == StageRecordDeltas(J, ds)
           J1 == EmptyJournal(file.recs)
<1>1. L = [J |-> K, dirty |-> expired # {}]
  BY DEF LoadAutoLayout
<1>2. L.J = K /\ L.dirty = (expired # {})
  BY <1>1
<1> HIDE DEF L
<1>3. /\ file.recs \in Partials(Dated(clock)) /\ file.rev \in Revisions
      /\ expired \in SUBSET Ids /\ \A r \in expired : file.recs[r] \in Dated(clock)
  <2>1. file.recs \in Partials(Dated(clock)) /\ file.rev \in Revisions
    BY DEF FilesAt
  <2>2. QED BY <2>1, IsPartialOf
<1>4. left \in Partials(Dated(clock)) /\ DOMAIN left = DOMAIN file.recs \ expired
      /\ \A r \in DOMAIN left : left[r] = file.recs[r]
  <2>1. left \in Partials(Dated(clock))
    BY <1>3, WithoutSome
  <2>2. DOMAIN left = DOMAIN file.recs \ expired /\ \A r \in DOMAIN left : left[r] = file.recs[r]
    BY DEF Without
  <2>3. QED BY <2>1, <2>2
<1>5. ASSUME NEW r \in expired
      PROVE  /\ delete(r) \in DeltasAt(clock) /\ delete(r).kind = "expire"
             /\ delete(r).rec = file.recs[r] /\ delete(r).base = file.recs[r]
             /\ delete(r).baseRev = file.rev /\ Old(file.recs[r], clock)
  <2>1. delete(r) = [kind |-> "expire", rec |-> file.recs[r], base |-> file.recs[r],
                     baseRev |-> file.rev, changed |-> clock, current |-> TRUE]
    BY DEF Delta
  <2>2. Old(file.recs[r], clock)
    BY <1>3, ExpiredIsOld
  <2>3. file.recs[r] \in Dated(clock) /\ file.rev \in Revisions /\ clock \in 1..clock
    BY <1>3
  <2> HIDE DEF delete
  <2>4. delete(r) \in DeltasAt(clock)
    BY <2>1, <2>3 DEF DeltasAt, Kinds
  <2>5. QED BY <2>1, <2>2, <2>4
<1>6. DOMAIN ds = expired /\ \A r \in expired : ds[r] = delete(r)
  OBVIOUS
<1>7. ds \in [expired -> DeltasAt(clock)]
  BY <1>5
<1> HIDE DEF delete, ds, left
<1>8. ds \in Partials(DeltasAt(clock))
  BY <1>3, <1>7, PartialFrom
<1>9. /\ J.records = left /\ J.deltas = <<>> /\ J.touches = <<>> /\ J.conflicts = <<>>
      /\ J1.records = file.recs /\ J1.deltas = <<>> /\ J1.touches = <<>> /\ J1.conflicts = <<>>
  BY DEF EmptyJournal
<1>10. Core(J1, file.rev, armed, file, dead, clock)
  <2> DEFINE f == file
             dd == dead
             arm == armed
             recs == file.recs
             rev == file.rev
  <2>1. recs \in Partials(Dated(clock)) /\ ~arm.set /\ f.recs = recs /\ dd \cap DOMAIN recs = {}
    BY <1>3
  <2> HIDE DEF f, dd, arm, recs, rev
  <2>2. Core(EmptyJournal(recs), rev, arm, f, dd, clock)
    BY <2>1, EmptyJournalFits
  <2>3. QED BY <2>2 DEF f, dd, arm, recs, rev
<1>11. J \in Journals(clock) /\ J1 \in Journals(clock)
  <2>1. /\ <<>> \in Partials(DeltasAt(clock)) /\ <<>> \in Partials(TouchesAt(clock))
        /\ <<>> \in Partials(ConflictsAt(clock))
    BY NothingIsPartial
  <2>2. QED BY <1>3, <1>4, <2>1, JournalFrom DEF EmptyJournal
<1> HIDE DEF J, J1
<1>12. /\ K \in Journals(clock) /\ K.touches = J.touches
       /\ DOMAIN K.deltas = DOMAIN ds \cup DOMAIN J.deltas
       /\ DOMAIN K.conflicts = DOMAIN J.conflicts \ DOMAIN ds
       /\ \A r \in DOMAIN ds : Takes(J, K, r, ds[r])
       /\ \A r \in Ids \ DOMAIN ds :
            /\ r \in DOMAIN K.records <=> r \in DOMAIN J.records
            /\ r \in DOMAIN J.records => K.records[r] = J.records[r]
  BY <1>8, <1>11, StagingParts
<1>13. DOMAIN <<>> = {}
  BY NothingIsPartial
<1>14. ASSUME NEW r \in DOMAIN ds
       PROVE  /\ K.deltas[r].kind = "expire" /\ K.deltas[r].rec = file.recs[r]
              /\ ChangeFits(J1, r, ds[r], file.rev, dead, clock)
              /\ r \notin DOMAIN K.records /\ r \notin DOMAIN StageRecordDeltas(J1, ds).records
  <2>1. Takes(J, K, r, ds[r]) /\ ds[r] = delete(r) /\ r \in expired
    BY <1>6, <1>12
  <2>2. Joined(J, r, ds[r]) = ds[r]
    BY <1>9, <1>13 DEF Joined
  <2>3. K.deltas[r].kind = "expire" /\ K.deltas[r].rec = file.recs[r] /\ r \notin DOMAIN K.records
    BY <1>5, <2>1, <2>2 DEF Takes, SameDelta
  <2>4. ChangeFits(J1, r, ds[r], file.rev, dead, clock)
    BY <1>5, <1>9, <1>13, <2>1 DEF ChangeFits, RecAt, Upserts
  <2>5. Takes(J1, StageRecordDeltas(J1, ds), r, ds[r])
    BY <1>8, <1>11, StagingParts
  <2>6. r \notin DOMAIN StageRecordDeltas(J1, ds).records
    BY <1>5, <2>1, <2>5 DEF Takes
  <2>7. QED BY <2>3, <2>4, <2>6
<1>15. Carries(J1, ds, K)
  <2>1. K.deltas = StageRecordDeltas(J1, ds).deltas /\ K.conflicts = StageRecordDeltas(J1, ds).conflicts
    BY <1>9 DEF StageRecordDeltas
  <2> HIDE DEF K
  <2>2. ASSUME NEW r \in Ids \ DOMAIN ds
        PROVE  /\ r \in DOMAIN K.records <=> r \in DOMAIN J1.records
               /\ r \in DOMAIN J1.records => /\ SameSemantic(K.records[r], J1.records[r])
                                             /\ K.records[r].seen >= J1.records[r].seen
               /\ r \in DOMAIN J1.touches => r \in DOMAIN K.touches
    <3>1. r \in DOMAIN K.records <=> r \in DOMAIN J1.records
      BY <1>4, <1>6, <1>9, <1>12
    <3>2. r \in DOMAIN J1.records => K.records[r] = J1.records[r]
      BY <1>4, <1>6, <1>9, <1>12
    <3>3. r \in DOMAIN J1.records => J1.records[r].seen \in 1..clock
      BY <1>11, JournalParts, DatedFacts
    <3>4. QED BY <1>9, <1>13, <3>1, <3>2, <3>3 DEF SameSemantic
  <2>3. QED BY <1>14, <2>1, <2>2 DEF Carries
<1>16. Changes(J1, K, file.rev, dead, clock)
  <2> DEFINE rev == file.rev
             dd == dead
  <2>1. \A r \in DOMAIN ds : ChangeFits(J1, r, ds[r], rev, dd, clock)
    BY <1>14
  <2> HIDE DEF rev, dd, K
  <2>2. Changes(J1, K, rev, dd, clock)
    BY <1>8, <1>11, <1>12, <1>15, <2>1, StagingChanges
  <2>3. QED BY <2>2 DEF rev, dd
<1> HIDE DEF K
<1>17. Core(K, file.rev, armed, file, dead, clock)
  BY <1>10, <1>16, ChangesKeepCore
<1>18. OnlyExpired(K, file.recs)
  <2>1. DOMAIN K.deltas = DOMAIN ds /\ DOMAIN K.conflicts = {} /\ DOMAIN K.touches = {}
    BY <1>9, <1>12, <1>13
  <2>2. \A r \in DOMAIN ds : file.recs[r].seen >= file.recs[r].seen
    BY <1>3, <1>6, DatedFacts
  <2>3. QED BY <1>14, <2>1, <2>2 DEF OnlyExpired
<1>19. DOMAIN K.deltas # {} => expired # {}
  BY <1>6, <1>9, <1>12, <1>13
<1>20. QED BY <1>2, <1>17, <1>18, <1>19 DEF L

LEMMA StagesOfStart ==
  ASSUME Typing, started # Stages, NEW stop \in {"none"} \cup (Stages \ started)
  PROVE  /\ started \subseteq StartedBefore(stop)
         /\ StartedBefore(stop) \in {StartedBefore(s) : s \in Stages \cup {"none"}}
         /\ StartedBefore(stop) = Stages <=> stop = "none"
<1>1. PICK s \in Stages \cup {"none"} : started = StartedBefore(s)
  BY DEF Typing
<1>2. /\ StartedBefore("monitor") = {} /\ StartedBefore("layout") = {"monitor"}
      /\ StartedBefore("heartbeat") = {"monitor", "layout"}
      /\ StartedBefore("initialized") = {"monitor", "layout", "heartbeat"}
      /\ StartedBefore("none") = Stages
  BY DEF StartedBefore, Stages
<1>3. QED BY <1>1, <1>2 DEF Stages

LEMMA AdvanceAutoRuntimeStartKeeps ==
  ASSUME IInv, AdvanceAutoRuntimeStart
  PROVE  IInv' /\ Kept
<1>1. phase = "up" /\ started # Stages /\ UNCHANGED <<clock, file, where, armed, dead, phase>>
  BY DEF AdvanceAutoRuntimeStart
<1>2. PICK stop \in {"none"} \cup (Stages \ started) :
       LET loads == "layout" \in StartedBefore(stop) \ started
           rev == IF loads THEN file.rev ELSE revision
           L == IF loads THEN LoadAutoLayout ELSE [J |-> journal, dirty |-> flush.dirty]
           missing == stop = "none" /\ Open = {}
           I == IF missing THEN MarkAppMissing(L.J, rev) ELSE [J |-> L.J, dirty |-> FALSE]
           dirty == L.dirty \/ I.dirty
       IN  /\ started' = StartedBefore(stop)
           /\ journal' = I.J
           /\ revision' = rev
           /\ flush' = [dirty |-> dirty, due |-> flush.dirty /\ flush.due /\ ~loads]
           /\ timer' = (stop = "none" /\ dirty)
           /\ IF stop = "none"
              THEN /\ bound' \in RebindPersistedIdentities(I.J.records)
                   /\ life' = [present |-> Open # {}, pending |-> Open # {}, saved |-> where]
              ELSE UNCHANGED <<bound, life>>
  BY DEF AdvanceAutoRuntimeStart
<1> DEFINE loads == "layout" \in StartedBefore(stop) \ started
           rev == IF loads THEN file.rev ELSE revision
           L == IF loads THEN LoadAutoLayout ELSE [J |-> journal, dirty |-> flush.dirty]
           missing == stop = "none" /\ Open = {}
           I == IF missing THEN MarkAppMissing(L.J, rev) ELSE [J |-> L.J, dirty |-> FALSE]
           dirty == L.dirty \/ I.dirty
<1>3. /\ started' = StartedBefore(stop) /\ journal' = I.J /\ revision' = rev
      /\ flush' = [dirty |-> dirty, due |-> flush.dirty /\ flush.due /\ ~loads]
      /\ timer' = (stop = "none" /\ dirty)
      /\ \/ /\ bound' \in RebindPersistedIdentities(I.J.records)
            /\ life' = [present |-> Open # {}, pending |-> Open # {}, saved |-> where]
         \/ UNCHANGED <<bound, life>>
  BY <1>2
<1>4. /\ clock \in Nat \ {0} /\ file \in FilesAt(clock) /\ armed \in ArmedAt(clock)
      /\ ~armed.set /\ revision \in Revisions /\ dead \cap DOMAIN file.recs = {}
      /\ Core(journal, revision, armed, file, dead, clock) /\ OnlyExpired(journal, file.recs)
      /\ journal \in Journals(clock) /\ flush \in Flushes
      /\ DOMAIN journal.deltas # {} => flush.dirty
      /\ "layout" \in started => KnowsItsFile(revision, armed, file)
  BY <1>1, AutoLayoutAssumption DEF IInv, Typing, Starting, Core, Flushes
<1>5. /\ started \subseteq started'
      /\ started' \in {StartedBefore(s) : s \in Stages \cup {"none"}}
      /\ started' = Stages <=> stop = "none"
  BY <1>1, <1>3, StagesOfStart DEF IInv
<1>6. /\ Core(L.J, rev, armed, file, dead, clock) /\ OnlyExpired(L.J, file.recs)
      /\ L.dirty \in BOOLEAN /\ (DOMAIN L.J.deltas # {} => L.dirty) /\ rev \in Revisions
      /\ Grows(journal, L.J)
      /\ "layout" \in started' => KnowsItsFile(rev, armed, file)
      /\ "layout" \notin started' => L.J = journal /\ rev = revision
  <2>1. CASE loads
    <3>1. L = LoadAutoLayout /\ rev = file.rev
      BY <2>1
    <3>2. /\ Core(LoadAutoLayout.J, file.rev, armed, file, dead, clock)
          /\ OnlyExpired(LoadAutoLayout.J, file.recs)
          /\ LoadAutoLayout.dirty \in BOOLEAN
          /\ DOMAIN LoadAutoLayout.J.deltas # {} => LoadAutoLayout.dirty
      BY <1>4, LoadingFits
    <3>3. DOMAIN journal.deltas = {} /\ DOMAIN LoadAutoLayout.J.conflicts = {}
      BY <2>1, <3>2, NothingIsPartial DEF IInv, Starting, EmptyJournal, OnlyExpired
    <3>4. file.rev \in Revisions
      BY <1>4 DEF FilesAt
    <3>5. Grows(journal, LoadAutoLayout.J) /\ KnowsItsFile(file.rev, armed, file)
      BY <3>3 DEF Grows, KnowsItsFile
    <3>6. "layout" \in started'
      BY <1>3, <2>1
    <3> HIDE DEF loads
    <3>7. QED BY <3>1, <3>2, <3>4, <3>5, <3>6
  <2>2. CASE ~loads
    <3>1. L = [J |-> journal, dirty |-> flush.dirty] /\ rev = revision
      BY <2>2
    <3>2. L.J = journal /\ L.dirty = flush.dirty
      BY <3>1
    <3>3. "layout" \in started' => "layout" \in started
      BY <1>3, <2>2
    <3>4. Grows(journal, journal) /\ flush.dirty \in BOOLEAN
      BY <1>4, GrowsFromItself DEF Flushes
    <3> HIDE DEF L, loads, rev
    <3>5. QED BY <1>4, <3>1, <3>2, <3>3, <3>4
  <2>3. QED BY <2>1, <2>2
<1>7. (flush.dirty /\ flush.due /\ ~loads) \in BOOLEAN
  BY <1>4 DEF Flushes
<1> HIDE DEF L, rev, loads
<1>8. /\ Core(I.J, rev, armed, file, dead, clock) /\ Grows(L.J, I.J)
      /\ I.dirty \in BOOLEAN /\ (DOMAIN I.J.deltas # {} => DOMAIN L.J.deltas # {} \/ I.dirty)
      /\ ~missing => I.J = L.J
  <2>1. L.J \in Journals(clock)
    BY <1>6 DEF Core
  <2>2. CASE missing
    <3>1. I = MarkAppMissing(L.J, rev)
      BY <2>2
    <3> DEFINE M == MarkAppMissing(L.J, rev)
    <3>2. /\ Changes(L.J, M.J, rev, dead, clock)
          /\ M.dirty \in BOOLEAN
          /\ DOMAIN M.J.deltas # {} => DOMAIN L.J.deltas # {} \/ M.dirty
      BY <1>4, <1>6, <2>1, MarkingChanges
    <3> HIDE DEF I, M, missing
    <3>3. Core(M.J, rev, armed, file, dead, clock) /\ Grows(L.J, M.J)
      BY <1>4, <1>6, <3>2, ChangesKeepCore
    <3>4. I = M
      BY <3>1 DEF M
    <3>5. QED BY <2>2, <3>2, <3>3, <3>4
  <2>3. CASE ~missing
    <3>1. I = [J |-> L.J, dirty |-> FALSE]
      BY <2>3
    <3>2. I.J = L.J /\ I.dirty = FALSE
      BY <3>1
    <3> HIDE DEF I, missing
    <3>3. QED BY <1>4, <1>6, <2>1, <3>2, GrowsFromItself
  <2>4. QED BY <2>2, <2>3
<1>9. I.J \in Journals(clock) /\ Grows(journal, I.J)
  <2>1. I.J \in Journals(clock) /\ L.J \in Journals(clock)
    BY <1>6, <1>8 DEF Core
  <2>2. QED BY <1>4, <1>6, <1>8, <2>1, GrowsOn
<1> HIDE DEF I
<1>10. flush' \in Flushes /\ timer' \in BOOLEAN /\ flush'.dirty = dirty /\ dirty \in BOOLEAN
  BY <1>3, <1>6, <1>7, <1>8 DEF Flushes
<1>11. bound' \in [Wins -> Ids \cup {NoId}] /\ life' \in Lives
  <2>1. /\ where \in [Wins -> Places \cup {Closed}] /\ bound \in [Wins -> Ids \cup {NoId}]
        /\ life \in Lives
    BY DEF IInv, Typing, Lives
  <2>2. \A b \in RebindPersistedIdentities(I.J.records) : b \in [Wins -> Ids \cup {NoId}]
    BY <2>1 DEF RebindPersistedIdentities
  <2>3. [present |-> Open # {}, pending |-> Open # {}, saved |-> where] \in Lives
    BY <2>1 DEF Lives
  <2>4. QED BY <1>3, <2>1, <2>2, <2>3
<1>12. Typing'
  BY <1>1, <1>3, <1>4, <1>5, <1>6, <1>10, <1>11 DEF IInv, Typing, Lives, Flushes
<1>13. Starting'
  <2>1. "layout" \notin started' => "layout" \notin started /\ ~missing
    BY <1>5 DEF Stages
  <2>2. "layout" \notin started' => journal' = EmptyJournal(<<>>) /\ revision' = 0
    BY <1>3, <1>6, <1>8, <2>1 DEF IInv, Starting
  <2>3. started' # Stages => OnlyExpired(journal', file.recs)
    BY <1>3, <1>5, <1>6, <1>8
  <2>4. QED BY <1>1, <1>4, <2>2, <2>3 DEF Starting
<1>14. Core(journal', revision', armed', file', dead', clock')
  BY <1>1, <1>3, <1>8
<1>15. DOMAIN journal'.deltas # {} => flush'.dirty
  BY <1>3, <1>6, <1>8, <1>10
<1>16. IInv'
  BY <1>1, <1>3, <1>4, <1>6, <1>12, <1>13, <1>14, <1>15 DEF IInv
<1>17. Kept
  BY <1>1, <1>3, <1>9 DEF Kept, Grows
<1>18. QED BY <1>16, <1>17

-----------------------------------------------------------------------------
(* Time and the other process.                                             *)

LEMMA LaterSets ==
  ASSUME NEW t \in Nat \ {0}
  PROVE  /\ Dated(t) \subseteq Dated(t + 1)
         /\ Partials(Dated(t)) \subseteq Partials(Dated(t + 1))
         /\ FilesAt(t) \subseteq FilesAt(t + 1) /\ ArmedAt(t) \subseteq ArmedAt(t + 1)
         /\ Journals(t) \subseteq Journals(t + 1)
<1>1. Dated(t) \subseteq Dated(t + 1)
  BY DEF Dated
<1>2. DeltasAt(t) \subseteq DeltasAt(t + 1)
  BY <1>1 DEF DeltasAt
<1>3. TouchesAt(t) \subseteq TouchesAt(t + 1)
  BY DEF TouchesAt
<1>4. ConflictsAt(t) \subseteq ConflictsAt(t + 1)
  BY <1>1 DEF ConflictsAt
<1>5. Partials(Dated(t)) \subseteq Partials(Dated(t + 1))
  BY <1>1, LargerPartial
<1>6. Partials(DeltasAt(t)) \subseteq Partials(DeltasAt(t + 1))
  BY <1>2, LargerPartial
<1>7. Partials(TouchesAt(t)) \subseteq Partials(TouchesAt(t + 1))
  BY <1>3, LargerPartial
<1>8. Partials(ConflictsAt(t)) \subseteq Partials(ConflictsAt(t + 1))
  BY <1>4, LargerPartial
<1>9. FilesAt(t) \subseteq FilesAt(t + 1)
  BY <1>5 DEF FilesAt
<1>10. ArmedAt(t) \subseteq ArmedAt(t + 1)
  BY <1>5 DEF ArmedAt
<1>11. Journals(t) \subseteq Journals(t + 1)
  BY <1>5, <1>6, <1>7, <1>8 DEF Journals
<1>12. QED BY <1>1, <1>5, <1>9, <1>10, <1>11

LEMMA OldStaysOld ==
  ASSUME NEW t \in Nat \ {0}, NEW x \in Dated(t), Old(x, t)
  PROVE  Old(x, t + 1)
BY DatedFacts, RetentionAssumption DEF Old

LEMMA SupersedesLater ==
  ASSUME NEW t \in Nat \ {0}, NEW J, NEW recs \in Partials(Dated(t)), Supersedes(J, recs, t)
  PROVE  Supersedes(J, recs, t + 1)
<1>1. \A r \in DOMAIN recs : recs[r] \in Dated(t)
  BY IsPartialOf
<1>2. \A r \in DOMAIN recs : Old(recs[r], t) => Old(recs[r], t + 1)
  BY <1>1, OldStaysOld
<1>3. QED BY <1>2 DEF Supersedes

LEMMA ChainedLater ==
  ASSUME NEW t \in Nat \ {0}, NEW J \in Journals(t), Chained(J, t)
  PROVE  Chained(J, t + 1)
<1> SUFFICES ASSUME NEW r \in DOMAIN J.deltas
             PROVE  DeltaFits(J.deltas[r], t + 1) /\ (r \notin DOMAIN J.conflicts => MemoryHas(J, r))
  BY DEF Chained
<1> DEFINE d == J.deltas[r]
<1>1. DeltaFits(d, t) /\ (r \notin DOMAIN J.conflicts => MemoryHas(J, r))
  BY DEF Chained
<1>2. d \in DeltasAt(t)
  BY JournalParts
<1> HIDE DEF d
<1>3. d.rec \in Dated(t) /\ d.base \in Dated(t) \cup {NoRec}
  BY <1>2, DeltaParts
<1>4. /\ Old(d.rec, t) => Old(d.rec, t + 1)
      /\ d.base # NoRec => (Old(d.base, t) => Old(d.base, t + 1))
  BY <1>3, OldStaysOld
<1>5. DeltaFits(d, t + 1)
  BY <1>1, <1>4 DEF DeltaFits
<1>6. QED BY <1>1, <1>5 DEF d

LEMMA CoreLater ==
  ASSUME NEW t \in Nat \ {0}, NEW J, NEW rev, NEW arm \in ArmedAt(t), NEW f \in FilesAt(t),
         NEW dd, Core(J, rev, arm, f, dd, t)
  PROVE  Core(J, rev, arm, f, dd, t + 1)
<1>1. J \in Journals(t) /\ J \in Journals(t + 1)
  BY LaterSets DEF Core
<1>2. Chained(J, t + 1)
  BY <1>1, ChainedLater DEF Core
<1>3. f.recs \in Partials(Dated(t)) /\ arm.recs \in Partials(Dated(t))
  BY DEF FilesAt, ArmedAt
<1>4. /\ Supersedes(J, f.recs, t) => Supersedes(J, f.recs, t + 1)
      /\ Supersedes(J, arm.recs, t) => Supersedes(J, arm.recs, t + 1)
  BY <1>3, SupersedesLater
<1>5. Current(J, rev, f, t + 1) /\ Candidate(J, arm, dd, t + 1)
  BY <1>4 DEF Core, Current, Candidate
<1>6. QED BY <1>1, <1>2, <1>5 DEF Core

LEMMA TickKeeps ==
  ASSUME IInv, Tick
  PROVE  IInv' /\ Kept
<1>1. /\ clock < MaxClock /\ clock' = clock + 1
      /\ UNCHANGED <<file, where, bound, dead, journal, revision, armed, flush, timer,
                     life, started, phase, events>>
  BY DEF Tick
<1>2. clock \in Nat \ {0} /\ clock' \in 1..MaxClock
  BY <1>1, AutoLayoutAssumption DEF IInv, Typing
<1>3. file \in FilesAt(clock') /\ armed \in ArmedAt(clock')
  <2>1. file \in FilesAt(clock) /\ armed \in ArmedAt(clock)
    BY DEF IInv, Typing
  <2>2. FilesAt(clock) \subseteq FilesAt(clock + 1) /\ ArmedAt(clock) \subseteq ArmedAt(clock + 1)
    BY <1>2, LaterSets
  <2>3. QED BY <1>1, <2>1, <2>2
<1>4. Core(journal, revision, armed, file, dead, clock')
  <2> DEFINE J == journal
             rev == revision
             arm == armed
             f == file
             dd == dead
  <2>1. Core(J, rev, arm, f, dd, clock) /\ arm \in ArmedAt(clock) /\ f \in FilesAt(clock)
    BY DEF IInv, Typing
  <2> HIDE DEF J, rev, arm, f, dd
  <2>2. Core(J, rev, arm, f, dd, clock + 1)
    BY <1>2, <2>1, CoreLater
  <2>3. QED BY <1>1, <2>2 DEF J, rev, arm, f, dd
<1>5. Typing'
  BY <1>1, <1>2, <1>3 DEF IInv, Typing
<1>6. Starting'
  BY <1>1 DEF IInv, Starting
<1>7. Core(journal', revision', armed', file', dead', clock')
  BY <1>1, <1>4
<1>8. IInv'
  BY <1>1, <1>5, <1>6, <1>7 DEF IInv
<1>9. Kept
  BY <1>1 DEF Kept
<1>10. QED BY <1>8, <1>9

\* What the other process may make of the records of the file.
LEMMA OtherRecords ==
  ASSUME clock \in Nat \ {0}, file \in FilesAt(clock), NEW r \in Ids,
         r \in DOMAIN file.recs \/ Fresh(r), NEW recs,
         recs \in IF r \in DOMAIN file.recs
                  THEN {[file.recs EXCEPT ![r] = SeenAt(p, clock)] : p \in Places}
                         \cup {[file.recs EXCEPT ![r] = MarkMissing(@, clock)]}
                         \cup {Without(file.recs, {r})}
                  ELSE {Over([x \in {r} |-> SeenAt(p, clock)], file.recs) : p \in Places}
  PROVE  /\ recs \in Partials(Dated(clock))
         /\ \A x \in DOMAIN recs :
              IF x \in DOMAIN file.recs THEN recs[x].seen >= file.recs[x].seen ELSE Fresh(x)
<1> DEFINE f == file.recs
<1>1. /\ f \in Partials(Dated(clock)) /\ DOMAIN f \subseteq Ids
      /\ \A x \in DOMAIN f : f[x] \in Dated(clock) /\ f[x].seen \in 1..clock
  <2>1. f \in Partials(Dated(clock))
    BY DEF FilesAt
  <2>2. DOMAIN f \subseteq Ids /\ \A x \in DOMAIN f : f[x] \in Dated(clock)
    BY <2>1, IsPartialOf
  <2>3. QED BY <2>1, <2>2, DatedFacts
<1>2. f = [x \in DOMAIN f |-> f[x]]
  BY <1>1, IsPartialOf
<1>3. ASSUME NEW d \in Dated(clock), r \in DOMAIN f, d.seen >= f[r].seen,
             recs = [f EXCEPT ![r] = d]
      PROVE  /\ recs \in Partials(Dated(clock)) /\ DOMAIN recs = DOMAIN f
             /\ \A x \in DOMAIN recs : recs[x].seen >= f[x].seen
  <2>1. recs \in [DOMAIN f -> Dated(clock)] /\ DOMAIN recs = DOMAIN f
    BY <1>1, <1>2, <1>3
  <2>2. recs \in Partials(Dated(clock))
    BY <1>1, <2>1, PartialFrom
  <2>3. \A x \in DOMAIN f : recs[x].seen >= f[x].seen
    BY <1>1, <1>2, <1>3
  <2>4. QED BY <2>1, <2>2, <2>3
<1>4. CASE r \in DOMAIN f
  <2>1. CASE \E p \in Places : recs = [f EXCEPT ![r] = SeenAt(p, clock)]
    <3>1. PICK p \in Places : recs = [f EXCEPT ![r] = SeenAt(p, clock)]
      BY <2>1
    <3>2. SeenAt(p, clock) \in Dated(clock) /\ SeenAt(p, clock).seen = clock
      BY SeenAtDated
    <3>3. SeenAt(p, clock).seen >= f[r].seen
      BY <1>1, <1>4, <3>2
    <3>4. QED BY <1>3, <1>4, <3>1, <3>2, <3>3
  <2>2. CASE recs = [f EXCEPT ![r] = MarkMissing(@, clock)]
    <3>1. MarkMissing(f[r], clock) \in Dated(clock) /\ MarkMissing(f[r], clock).seen = f[r].seen
      BY <1>1, <1>4, MarkMissingDated
    <3>2. MarkMissing(f[r], clock).seen >= f[r].seen
      BY <1>1, <1>4, <3>1
    <3>3. recs = [f EXCEPT ![r] = MarkMissing(f[r], clock)]
      BY <2>2
    <3>4. QED BY <1>3, <1>4, <3>1, <3>2, <3>3
  <2>3. CASE recs = Without(f, {r})
    <3>1. recs \in Partials(Dated(clock))
      BY <1>1, <2>3, WithoutSome
    <3>2. DOMAIN recs = DOMAIN f \ {r} /\ \A x \in DOMAIN recs : recs[x] = f[x]
      BY <2>3 DEF Without
    <3>3. QED BY <1>1, <3>1, <3>2
  <2>4. QED BY <1>4, <2>1, <2>2, <2>3
<1>5. CASE r \notin DOMAIN f
  <2>1. PICK p \in Places : recs = Over([x \in {r} |-> SeenAt(p, clock)], f)
    BY <1>5
  <2> DEFINE one == [x \in {r} |-> SeenAt(p, clock)]
  <2>2. one \in [{r} -> Dated(clock)] /\ DOMAIN one = {r}
    BY SeenAtDated
  <2> HIDE DEF one, f
  <2>3. one \in Partials(Dated(clock))
    BY <2>2, PartialFrom
  <2>4. Over(one, f) \in Partials(Dated(clock))
    BY <1>1, <2>3, Overlaid
  <2>5. /\ DOMAIN Over(one, f) = {r} \cup DOMAIN f
        /\ \A x \in DOMAIN f : Over(one, f)[x] = f[x]
    BY <1>5, <2>2 DEF Over
  <2>6. Fresh(r)
    BY <1>5 DEF f
  <2>7. recs = Over(one, f)
    BY <2>1 DEF one
  <2>8. \A x \in DOMAIN recs : IF x \in DOMAIN f THEN recs[x].seen >= f[x].seen ELSE Fresh(x)
    BY <1>1, <2>5, <2>6, <2>7
  <2>9. QED BY <2>4, <2>7, <2>8 DEF f
<1>6. QED BY <1>4, <1>5

LEMMA OtherWritesKeeps ==
  ASSUME IInv, OtherWrites
  PROVE  IInv' /\ Kept
<1>1. UNCHANGED <<clock, where, bound, journal, revision, armed, flush, timer, life,
                  started, phase>>
  BY DEF OtherWrites
<1>2. PICK r \in Ids :
       LET written == {[file.recs EXCEPT ![r] = SeenAt(p, clock)] : p \in Places}
                        \cup {[file.recs EXCEPT ![r] = MarkMissing(@, clock)]}
           added == {Over([x \in {r} |-> SeenAt(p, clock)], file.recs) : p \in Places}
       IN  /\ r \in DOMAIN file.recs \/ Fresh(r)
           /\ \E recs \in IF r \in DOMAIN file.recs
                          THEN written \cup {Without(file.recs, {r})} ELSE added :
                /\ file' = [rev |-> NewRevision(journal, revision, file.rev),
                            recs |-> recs, by |-> "other"]
                /\ dead' = IF \/ r \in DOMAIN recs
                              \/ NeverConfirmed(r) \/ TakenForOwnWrite(r)
                           THEN dead ELSE dead \cup {r}
  BY DEF OtherWrites
<1> DEFINE written == {[file.recs EXCEPT ![r] = SeenAt(p, clock)] : p \in Places}
                        \cup {[file.recs EXCEPT ![r] = MarkMissing(@, clock)]}
           added == {Over([x \in {r} |-> SeenAt(p, clock)], file.recs) : p \in Places}
           n == NewRevision(journal, revision, file.rev)
<1>3. PICK recs \in IF r \in DOMAIN file.recs
                    THEN written \cup {Without(file.recs, {r})} ELSE added :
                /\ file' = [rev |-> n, recs |-> recs, by |-> "other"]
                /\ dead' = IF \/ r \in DOMAIN recs
                              \/ NeverConfirmed(r) \/ TakenForOwnWrite(r)
                           THEN dead ELSE dead \cup {r}
  BY <1>2
<1>4. /\ clock \in Nat \ {0} /\ file \in FilesAt(clock) /\ armed \in ArmedAt(clock)
      /\ revision \in Revisions /\ dead \cap DOMAIN file.recs = {} /\ dead \subseteq Ids
      /\ Core(journal, revision, armed, file, dead, clock) /\ journal \in Journals(clock)
  BY AutoLayoutAssumption DEF IInv, Typing, Core
<1>5. /\ recs \in Partials(Dated(clock))
      /\ \A x \in DOMAIN recs :
           IF x \in DOMAIN file.recs THEN recs[x].seen >= file.recs[x].seen ELSE Fresh(x)
  <2>1. /\ r \in DOMAIN file.recs \/ Fresh(r)
        /\ recs \in IF r \in DOMAIN file.recs
                    THEN {[file.recs EXCEPT ![r] = SeenAt(p, clock)] : p \in Places}
                           \cup {[file.recs EXCEPT ![r] = MarkMissing(@, clock)]}
                           \cup {Without(file.recs, {r})}
                    ELSE {Over([x \in {r} |-> SeenAt(p, clock)], file.recs) : p \in Places}
    BY <1>2, <1>3
  <2>2. QED BY <1>4, <2>1, OtherRecords
<1>6. /\ n \in Revisions \ {0} /\ n # revision
      /\ \A x \in DOMAIN journal.deltas : journal.deltas[x].baseRev # n
  BY <1>4, RevisionIsNew
<1> HIDE DEF n, written, added
<1>7. file'.rev = n /\ file'.recs = recs /\ file'.by = "other" /\ file' \in FilesAt(clock)
  BY <1>3, <1>5, <1>6 DEF FilesAt
<1>8. \/ dead' = dead
      \/ dead' = dead \cup {r} /\ r \notin DOMAIN recs /\ ~NeverConfirmed(r) /\ ~TakenForOwnWrite(r)
  BY <1>3
<1>9. dead' \subseteq Ids /\ dead' \cap DOMAIN file'.recs = {}
  <2>1. dead \cap DOMAIN recs = {}
    BY <1>4, <1>5 DEF Fresh
  <2>2. QED BY <1>4, <1>7, <1>8, <2>1
<1>10. Buried(journal, revision, file', dead')
  <2>1. ASSUME NEW x \in dead' \cap DOMAIN journal.deltas, journal.deltas[x].kind # "expire"
        PROVE  journal.deltas[x].base # NoRec
    BY <1>4, <1>8, <2>1 DEF Core, Buried, NeverConfirmed
  <2>2. QED BY <1>6, <1>7, <2>1 DEF Buried
<1>11. Current(journal, revision, file', clock)
  BY <1>6, <1>7 DEF Current
<1>12. Candidate(journal, armed, dead', clock)
  <2>1. armed.set => dead' \cap DOMAIN journal.records \subseteq DOMAIN armed.recs
    BY <1>4, <1>8 DEF Core, Candidate, TakenForOwnWrite
  <2>2. QED BY <1>4, <2>1 DEF Core, Candidate
<1>13. Core(journal, revision, armed, file', dead', clock)
  BY <1>4, <1>10, <1>11, <1>12 DEF Core
<1>14. Typing'
  BY <1>1, <1>7, <1>9 DEF IInv, Typing
<1>15. ASSUME OnlyExpired(journal, file.recs) PROVE OnlyExpired(journal, file'.recs)
  <2>1. ASSUME NEW x \in DOMAIN journal.deltas, x \in DOMAIN recs
        PROVE  recs[x].seen >= journal.deltas[x].rec.seen
    <3>1. x \in DOMAIN file.recs
      BY <1>5, <2>1 DEF Fresh
    <3>2. recs[x].seen >= file.recs[x].seen /\ file.recs[x].seen >= journal.deltas[x].rec.seen
      BY <1>5, <1>15, <2>1, <3>1 DEF OnlyExpired
    <3>3. recs[x] \in Dated(clock) /\ file.recs[x] \in Dated(clock)
      <4>1. file.recs \in Partials(Dated(clock))
        BY <1>4 DEF FilesAt
      <4>2. QED BY <1>5, <2>1, <3>1, <4>1, IsPartialOf
    <3>4. journal.deltas[x].rec.seen \in 1..clock
      BY <1>4, <2>1, JournalParts, DeltaParts
    <3>5. recs[x].seen \in 1..clock /\ file.recs[x].seen \in 1..clock
      BY <1>4, <3>3, DatedFacts
    <3>6. QED BY <1>4, <3>2, <3>4, <3>5
  <2>2. QED BY <1>7, <1>15, <2>1 DEF OnlyExpired
<1>16. Starting'
  BY <1>1, <1>15 DEF IInv, Starting
<1>17. KnowsItsFile(revision', armed', file')
  BY <1>7 DEF KnowsItsFile
<1>18. Core(journal', revision', armed', file', dead', clock')
  BY <1>1, <1>13
<1>19. IInv'
  BY <1>1, <1>9, <1>14, <1>16, <1>17, <1>18 DEF IInv
<1>20. Kept
  BY <1>1, <1>7 DEF Kept
<1>21. QED BY <1>19, <1>20

-----------------------------------------------------------------------------
(* The theorems.                                                           *)

LEMMA InitIsSound ==
  ASSUME Init
  PROVE  IInv
<1>1. clock = 1 /\ clock \in 1..MaxClock
  BY AutoLayoutAssumption DEF Init
<1>2. InitRecords \in Partials(Dated(clock))
  <2>1. PICK D \in SUBSET Ids : InitRecords \in [D -> [place : Places, seen : {1}, missing : {0, 1}]]
    BY AutoLayoutAssumption
  <2>2. [place : Places, seen : {1}, missing : {0, 1}] \subseteq Dated(1)
    BY DEF Dated
  <2>3. InitRecords \in [D -> Dated(1)]
    BY <2>1, <2>2
  <2>4. QED BY <1>1, <2>3, PartialFrom
<1>3. 0 \in Revisions /\ 1 \in Revisions
  BY AutoLayoutAssumption, FS_CardinalityType DEF Revisions
<1>4. file \in FilesAt(clock)
  BY <1>2, <1>3 DEF Init, FilesAt
<1>5. armed \in ArmedAt(clock) /\ ~armed.set
  BY NothingIsPartial DEF Init, Unarmed, ArmedAt
<1>6. started = {} /\ started \in {StartedBefore(stop) : stop \in Stages \cup {"none"}}
  <2>1. StartedBefore("monitor") = {} /\ "monitor" \in Stages
    BY DEF StartedBefore, Stages
  <2>2. QED BY <2>1 DEF Init
<1>7. Typing
  BY <1>1, <1>3, <1>4, <1>5, <1>6, AutoLayoutAssumption DEF Init, Typing
<1>8. journal = EmptyJournal(<<>>) /\ DOMAIN journal.deltas = {} /\ DOMAIN journal.touches = {}
      /\ DOMAIN journal.conflicts = {}
  BY DEF Init, EmptyJournal
<1>9. Starting
  BY <1>5, <1>6, <1>8 DEF Init, Starting, OnlyExpired
<1>10. Core(journal, revision, armed, file, dead, clock)
  <2>1. <<>> \in Partials(Dated(clock)) /\ DOMAIN <<>> = {}
    BY NothingIsPartial
  <2>2. revision # file.rev /\ dead \cap DOMAIN <<>> = {} /\ clock \in Nat \ {0}
    BY <1>1, <2>1 DEF Init
  <2>3. Core(EmptyJournal(<<>>), revision, armed, file, dead, clock)
    BY <1>5, <2>1, <2>2, EmptyJournalFits
  <2>4. QED BY <1>8, <2>3
<1>11. QED BY <1>6, <1>7, <1>8, <1>9, <1>10 DEF Init, IInv

LEMMA StepIsSound ==
  ASSUME IInv, [Next]_vars
  PROVE  IInv' /\ (Kept \/ UNCHANGED vars)
<1>1. CASE FlushTimer
  BY <1>1, FlushTimerKeeps
<1>2. CASE FlushComesDue
  BY <1>2, FlushComesDueKeeps
<1>3. CASE MaintainAutoFlushTimer
  BY <1>3, MaintainAutoFlushTimerKeeps
<1>4. CASE Observe
  BY <1>4, ObserveKeeps
<1>5. CASE RestorePass
  BY <1>5, RestorePassKeeps
<1>6. CASE \E w \in Wins : RecordWindowInPlace(w)
  BY <1>6, RecordWindowInPlaceKeeps
<1>7. CASE \E w \in Wins : PopupSave(w)
  BY <1>7, PopupSaveKeeps
<1>8. CASE Checkpoint
  BY <1>8, CheckpointKeeps
<1>9. CASE LeaveUnloaded
  BY <1>9, LeaveUnloadedKeeps
<1>10. CASE AdvanceAutoRuntimeStart
  BY <1>10, AdvanceAutoRuntimeStartKeeps
<1>11. CASE TurnOn
  BY <1>11, TurnOnKeeps
<1>12. CASE Crash
  BY <1>12, CrashKeeps
<1>13. CASE StartProgram
  BY <1>13, StartProgramKeeps
<1>14. CASE Tick
  BY <1>14, TickKeeps
<1>15. CASE OtherWrites
  BY <1>15, OtherWritesKeeps
<1>16. CASE WindowsChange
  BY <1>16, WindowsChangeKeeps
<1>17. CASE UNCHANGED vars
  BY <1>17 DEF vars, IInv, Typing, Starting, OnlyExpired
<1>18. QED
  BY <1>1, <1>2, <1>3, <1>4, <1>5, <1>6, <1>7, <1>8, <1>9, <1>10, <1>11, <1>12, <1>13,
     <1>14, <1>15, <1>16, <1>17 DEF Next

\* The records, changes, touches and conflicts of a journal have their types.
LEMMA RecordsHaveTypes ==
  ASSUME NEW t \in 1..MaxClock, NEW recs \in Partials(Dated(t))
  PROVE  IsPartial(recs, Ids, Records)
<1>1. Dated(t) \subseteq Records
  BY AutoLayoutAssumption DEF Dated, Records, Times
<1>2. QED BY <1>1, IsPartialOf DEF IsPartial

LEMMA TypesHold ==
  ASSUME IInv
  PROVE  TypeOK
<1>1. /\ clock \in 1..MaxClock /\ clock \in Nat \ {0} /\ 1..clock \subseteq Times
      /\ clock \in Times
  BY AutoLayoutAssumption DEF IInv, Typing, Times
<1>2. journal \in Journals(clock) /\ ConflictsAreOpen(journal)
  BY DEF IInv, Core
<1>3. Dated(clock) \subseteq Records
  BY <1>1, AutoLayoutAssumption DEF Dated, Records, Times
<1>4. /\ IsPartial(file.recs, Ids, Records) /\ IsPartial(armed.recs, Ids, Records)
      /\ file.rev \in Revisions /\ file.by \in {"vde", "other"} /\ armed.set \in BOOLEAN
  BY <1>1, RecordsHaveTypes DEF IInv, Typing, FilesAt, ArmedAt
<1>5. IsPartial(journal.records, Ids, Records)
  BY <1>1, <1>2, RecordsHaveTypes, JournalParts
<1>6. IsPartial(journal.deltas, Ids,
        [kind : Kinds, rec : Records, base : Records \cup {NoRec},
         baseRev : Revisions, changed : Times, current : BOOLEAN])
  <2>1. DeltasAt(clock) \subseteq
          [kind : Kinds, rec : Records, base : Records \cup {NoRec},
           baseRev : Revisions, changed : Times, current : BOOLEAN]
    BY <1>1, <1>3 DEF DeltasAt
  <2>2. DOMAIN journal.deltas \subseteq Ids /\ \A r \in DOMAIN journal.deltas : journal.deltas[r] \in DeltasAt(clock)
    BY <1>2, JournalParts
  <2>3. QED BY <2>1, <2>2 DEF IsPartial
<1>7. IsPartial(journal.touches, Ids, [seen : Times, current : BOOLEAN])
  <2>1. TouchesAt(clock) \subseteq [seen : Times, current : BOOLEAN]
    BY <1>1 DEF TouchesAt
  <2>2. DOMAIN journal.touches \subseteq Ids /\ \A r \in DOMAIN journal.touches : journal.touches[r] \in TouchesAt(clock)
    BY <1>2, JournalParts
  <2>3. QED BY <2>1, <2>2 DEF IsPartial
<1>8. IsPartial(journal.conflicts, Ids, [rev : Revisions, rec : Records \cup {NoRec}])
  <2>1. ConflictsAt(clock) \subseteq [rev : Revisions, rec : Records \cup {NoRec}]
    BY <1>3 DEF ConflictsAt
  <2>2. DOMAIN journal.conflicts \subseteq Ids /\ \A r \in DOMAIN journal.conflicts : journal.conflicts[r] \in ConflictsAt(clock)
    BY <1>2, JournalParts
  <2>3. QED BY <2>1, <2>2 DEF IsPartial
<1>9. started \subseteq Stages
  <2>1. PICK stop \in Stages \cup {"none"} : started = StartedBefore(stop)
    BY DEF IInv, Typing
  <2>2. QED BY <2>1 DEF StartedBefore, Stages
<1>10. QED
  BY <1>1, <1>2, <1>4, <1>5, <1>6, <1>7, <1>8, <1>9
  DEF IInv, Typing, TypeOK, ConflictsAreOpen

LEMMA MemoryIsExplained ==
  ASSUME IInv
  PROVE  JournalExplainsMemory
<1> SUFFICES ASSUME revision = file.rev,
                    NEW r \in Ids \ (DOMAIN journal.deltas \cup DOMAIN journal.touches)
             PROVE  LET mine == RecAt(journal.records, r)
                        disk == RecAt(file.recs, r)
                    IN  mine = disk \/ (mine # NoRec /\ disk # NoRec /\ SameSemantic(mine, disk))
  BY DEF JournalExplainsMemory
<1>1. clock \in Nat \ {0} /\ journal \in Journals(clock) /\ file.recs \in Partials(Dated(clock))
  BY AutoLayoutAssumption DEF IInv, Typing, Core, FilesAt
<1>2. /\ r \in DOMAIN journal.records <=> r \in DOMAIN file.recs
      /\ r \in DOMAIN file.recs => SameSemantic(journal.records[r], file.recs[r])
  BY DEF IInv, Core, Current, Explains
<1>3. journal.records \in Partials(Dated(clock))
  BY <1>1, JournalParts
<1>4. CASE r \in DOMAIN file.recs
  <2>1. /\ RecAt(journal.records, r) = journal.records[r] /\ RecAt(file.recs, r) = file.recs[r]
        /\ RecAt(journal.records, r) # NoRec /\ RecAt(file.recs, r) # NoRec
    BY <1>1, <1>2, <1>3, <1>4, RecAtFacts
  <2>2. QED BY <1>2, <1>4, <2>1
<1>5. CASE r \notin DOMAIN file.recs
  BY <1>2, <1>5 DEF RecAt
<1>6. QED BY <1>4, <1>5

LEMMA SoundnessHolds ==
  ASSUME IInv
  PROVE  JournalIsSound
<1>1. PendingIsDirty
  <2>1. CASE DOMAIN journal.deltas # {}
    BY <2>1 DEF IInv, PendingIsDirty
  <2>2. CASE DOMAIN journal.deltas = {}
    <3>1. journal.deltas \in Partials(DeltasAt(clock))
      BY JournalParts DEF IInv, Core
    <3>2. journal.deltas = <<>>
      BY <2>2, <3>1, EmptyIsNothing
    <3>3. QED BY <3>2 DEF PendingIsDirty
  <2>3. QED BY <2>1, <2>2
<1>2. DeletedStaysDeleted
  BY DEF IInv, DeletedStaysDeleted
<1>3. QED BY <1>1, <1>2, TypesHold, MemoryIsExplained DEF JournalIsSound

\* The three action properties, of one step.
StaysLater ==
  OwnWrite =>
    \A r \in DOMAIN file.recs :
      IF r \in DOMAIN file'.recs
      THEN RecordSemanticTimestamp(file'.recs[r]) >= RecordSemanticTimestamp(file.recs[r])
      ELSE IsExpired(MarkMissing(file.recs[r], clock), clock)

Remembers ==
  phase' # "ended" =>
    \A r \in DOMAIN journal.deltas \ DOMAIN journal'.deltas :
      \/ /\ r \in DOMAIN file'.recs
         /\ RecordSemanticTimestamp(file'.recs[r]) >=
              RecordSemanticTimestamp(journal.deltas[r].rec)
      \/ /\ r \notin DOMAIN file'.recs
         /\ IsExpired(MarkMissing(journal.deltas[r].rec, clock), clock)

ConflictsWithOthers ==
  DOMAIN journal'.conflicts \ DOMAIN journal.conflicts # {} => file.by = "other"

LEMMA StepKeepsKnowledge ==
  ASSUME IInv, IInv', Kept
  PROVE  StaysLater /\ Remembers /\ ConflictsWithOthers
<1>1. clock \in Nat \ {0} /\ clock' \in Nat \ {0}
  BY AutoLayoutAssumption DEF IInv, Typing
<1>2. ASSUME NEW r \in DOMAIN file.recs
      PROVE  /\ RecordSemanticTimestamp(file.recs[r]) = file.recs[r].seen
             /\ IsExpired(MarkMissing(file.recs[r], clock), clock) <=> Old(file.recs[r], clock)
  <2>1. file.recs \in Partials(Dated(clock))
    BY DEF IInv, Typing, FilesAt
  <2>2. file.recs[r] \in Dated(clock)
    BY <1>2, <2>1, IsPartialOf
  <2>3. QED BY <1>1, <2>2, DatedFacts, MarkMissingDated
<1>3. ASSUME NEW r \in DOMAIN file'.recs
      PROVE  RecordSemanticTimestamp(file'.recs[r]) = file'.recs[r].seen
  <2> DEFINE t == clock'
             recs == file'.recs
  <2>1. t \in Nat \ {0} /\ recs \in Partials(Dated(t)) /\ r \in DOMAIN recs
    BY <1>1, <1>3 DEF IInv, Typing, FilesAt, Partials, Dated
  <2> HIDE DEF t
  <2>2. recs[r] \in Dated(t)
    BY <2>1, IsPartialOf
  <2>3. QED BY <2>1, <2>2, DatedFacts
<1>4. ASSUME NEW r \in DOMAIN journal.deltas
      PROVE  /\ RecordSemanticTimestamp(journal.deltas[r].rec) = journal.deltas[r].rec.seen
             /\ IsExpired(MarkMissing(journal.deltas[r].rec, clock), clock)
                  <=> Old(journal.deltas[r].rec, clock)
  <2>1. journal \in Journals(clock)
    BY DEF IInv, Core
  <2>2. journal.deltas[r].rec \in Dated(clock)
    BY <1>1, <1>4, <2>1, JournalParts, DeltaParts
  <2>3. QED BY <1>1, <2>2, DatedFacts, MarkMissingDated
<1>5. StaysLater
  <2> SUFFICES ASSUME OwnWrite, NEW r \in DOMAIN file.recs
               PROVE  IF r \in DOMAIN file'.recs
                      THEN RecordSemanticTimestamp(file'.recs[r]) >=
                             RecordSemanticTimestamp(file.recs[r])
                      ELSE IsExpired(MarkMissing(file.recs[r], clock), clock)
    BY DEF StaysLater
  <2>1. KnowsAll(file'.recs, file.recs)
    BY DEF Kept, OwnWrite
  <2>2. IF r \in DOMAIN file'.recs THEN file'.recs[r].seen >= file.recs[r].seen
                                   ELSE Old(file.recs[r], clock)
    BY <2>1 DEF KnowsAll
  <2>3. QED BY <1>2, <1>3, <2>2
<1>6. Remembers
  BY <1>3, <1>4 DEF Kept, Remembers
<1>7. ConflictsWithOthers
  BY DEF Kept, ConflictsWithOthers
<1>8. QED BY <1>5, <1>6, <1>7

\* Every state the program can be in has the inductive invariant, whatever
\* handlers, writes of another process and failures led to it.
THEOREM LayoutInvariant == Spec => []IInv
<1>1. Init => IInv
  BY InitIsSound
<1>2. IInv /\ [Next]_vars => IInv'
  BY StepIsSound
<1>3. QED BY <1>1, <1>2, PTL DEF Spec

\* The journal of the automatic layout (layout_store.hpp, vde.cpp
\* PersistAutoLayout): memory and file differ only in what the journal will
\* write, pending changes keep the layout dirty, and no change brings back a
\* record that another process deleted.
THEOREM JournalIsSoundAlways == Spec => []JournalIsSound
<1>1. IInv => JournalIsSound
  BY SoundnessHolds
<1>2. QED BY <1>1, LayoutInvariant, PTL

\* Two writers and the failures of one (PersistAutoLayout, RebasedJournal,
\* CheckpointAutoLayout): no write of the program takes back what is known of
\* a later time, no change leaves the journal before it is in the file, and
\* only what another process wrote conflicts with a change.
THEOREM KnowledgeIsKeptAlways == Spec => KnowledgeIsKept
<1>1. IInv /\ IInv' /\ [Next]_vars => (Kept \/ UNCHANGED vars)
  BY StepIsSound
<1>2. IInv /\ IInv' /\ [Next]_vars => [StaysLater]_vars
  BY <1>1, StepKeepsKnowledge
<1>3. IInv /\ IInv' /\ [Next]_vars => [Remembers]_vars
  BY <1>1, StepKeepsKnowledge
<1>4. IInv /\ IInv' /\ [Next]_vars => [ConflictsWithOthers]_vars
  BY <1>1, StepKeepsKnowledge
<1>5. /\ Spec => [][StaysLater]_vars
      /\ Spec => [][Remembers]_vars
      /\ Spec => [][ConflictsWithOthers]_vars
  BY <1>2, <1>3, <1>4, LayoutInvariant, PTL DEF Spec
<1>6. QED
  BY <1>5 DEF KnowledgeIsKept, LaterKnowledgeStays, NothingIsForgotten, OwnWriteNeverConflicts,
              StaysLater, Remembers, ConflictsWithOthers
=============================================================================
