-------------------------- MODULE MigrationsProofs --------------------------
(***************************************************************************)
(* Proofs about Migrations: the history that repeated, killed and resumed  *)
(* runs of the script leave behind is the one the services wrote, for any  *)
(* number of runs, applications and rows.                                  *)
(***************************************************************************)
EXTENDS Migrations, TLAPS

\* How far the script has ever come.
Reached ==
  /\ relation = "absent" => rows = {} /\ ~ hasHistory /\ file \in {0, 1}
  /\ ~ hasHistory => written = {} /\ copies = {} /\ file # LastFile
  /\ renamed <=> relation = "view"
  /\ relation = "view" => hasHistory /\ rows \subseteq copies

\* Times tell the stored rows of an application apart.
TimesDiffer == \A p, q \in Originals : Id(p) = Id(q) => p = q

IInv ==
  /\ TypeOK
  /\ Reached
  /\ TimesDiffer
  /\ copies \subseteq Originals
  /\ outcome # "raised"

-----------------------------------------------------------------------------
\* The view is the latest of the history, and the history is what was stored.
LEMMA ViewLemma == IInv => ViewUnspoiled
<1> SUFFICES ASSUME IInv, relation = "view" PROVE Shown = Latest(Originals)
  BY DEF ViewUnspoiled
<1>1. written \union copies = Originals
  BY DEF IInv, Reached, Originals
<1> QED BY <1>1 DEF Shown

LEMMA CopiesLemma == IInv => CopiedOnce
<1> SUFFICES ASSUME IInv PROVE CopiedOnce
  OBVIOUS
<1>1. copies \subseteq Originals
  BY DEF IInv
<1>2. \A c, d \in copies : Id(c) = Id(d) => c = d
  BY <1>1 DEF IInv, TimesDiffer
<1> QED BY <1>1, <1>2 DEF CopiedOnce

\* Neither the table nor the view shows anything that was not stored.
LEMMA ShownStored == IInv => Shown \subseteq Originals
<1> SUFFICES ASSUME IInv PROVE Shown \subseteq Originals
  OBVIOUS
<1>1. Latest(written \union copies) \subseteq written \union copies
  BY DEF Latest
<1>2. copies \subseteq written \union rows
  BY DEF IInv, Originals
<1> QED BY <1>1, <1>2 DEF Shown, Originals

\* A backfill leaves of each row it reads a copy, and adds only such rows.
LEMMA BackfillLemma ==
  ASSUME IInv, NEW S, S \subseteq Originals, Backfill(S)
  PROVE  /\ copies' \subseteq Originals
         /\ copies \subseteq copies'
         /\ S \subseteq copies'
<1>1. copies' = copies \union {r \in S : Id(r) \notin {Id(c) : c \in copies}}
  BY DEF Backfill
<1>2. copies \subseteq Originals
  BY DEF IInv
<1>3. copies' \subseteq Originals /\ copies \subseteq copies'
  BY <1>1, <1>2
<1>4. ASSUME NEW r \in S PROVE r \in copies'
  <2>1. CASE Id(r) \notin {Id(c) : c \in copies}
    BY <1>1, <2>1
  <2>2. CASE Id(r) \in {Id(c) : c \in copies}
    <3>1. PICK c \in copies : Id(r) = Id(c)
      BY <2>2
    <3>2. r \in Originals /\ c \in Originals
      BY <1>2
    <3>3. r = c
      BY <3>1, <3>2 DEF IInv, TimesDiffer
    <3> QED BY <1>1, <3>3
  <2> QED BY <2>1, <2>2
<1> QED BY <1>3, <1>4

-----------------------------------------------------------------------------
LEMMA MigrateKeeps ==
  ASSUME IInv, Migrate
  PROVE  IInv'
<1>1. /\ TypeOK /\ Reached /\ TimesDiffer /\ copies \subseteq Originals
      /\ LastFile = 4
  BY DEF IInv, LastFile
<1>2. Originals \subseteq Row
  BY <1>1 DEF Originals, TypeOK
<1>3. CASE InitTables
  <2>1. /\ file = 1 /\ file' = 2 /\ outcome' = "applied"
        /\ relation' = IF relation = "absent" THEN "table" ELSE relation
        /\ UNCHANGED <<rows, written, runs, renamed, hasHistory, copies>>
    BY <1>1, <1>3 DEF InitTables, Applied
  <2>2. TypeOK'
    BY <1>1, <2>1 DEF TypeOK
  <2>3. Reached'
    BY <1>1, <2>1 DEF Reached
  <2>4. TimesDiffer' /\ copies' \subseteq Originals'
    BY <1>1, <2>1 DEF TimesDiffer, Originals
  <2> QED BY <2>1, <2>2, <2>3, <2>4 DEF IInv
<1>4. CASE OutboxColumns
  <2>1. /\ file = 2 /\ file' = 3 /\ outcome' = "applied"
        /\ UNCHANGED <<relation, rows, written, runs, renamed, hasHistory, copies>>
    BY <1>1, <1>4 DEF OutboxColumns, Applied
  <2>2. TypeOK'
    BY <1>1, <2>1 DEF TypeOK
  <2>3. Reached'
    BY <1>1, <2>1 DEF Reached
  <2>4. TimesDiffer' /\ copies' \subseteq Originals'
    BY <1>1, <2>1 DEF TimesDiffer, Originals
  <2> QED BY <2>1, <2>2, <2>3, <2>4 DEF IInv
<1>5. CASE AppendOnlyHistory
  <2>1. file = 3 /\ relation # "absent"
    BY <1>1, <1>5 DEF AppendOnlyHistory, Reached
  <2>2. /\ file' = 4 /\ outcome' = "applied" /\ hasHistory' = TRUE
        /\ Backfill(Shown)
        /\ UNCHANGED <<relation, rows, written, runs, renamed>>
    BY <1>1, <1>5, <2>1 DEF AppendOnlyHistory, Applied
  <2>3. copies' \subseteq Originals /\ copies \subseteq copies'
    BY <2>2, ShownStored, BackfillLemma
  <2>4. TypeOK'
    BY <1>1, <1>2, <2>2, <2>3 DEF TypeOK
  <2>5. Reached'
    BY <1>1, <2>1, <2>2, <2>3 DEF Reached
  <2>6. TimesDiffer' /\ copies' \subseteq Originals'
    BY <1>1, <2>2, <2>3 DEF TimesDiffer, Originals
  <2> QED BY <2>2, <2>4, <2>5, <2>6 DEF IInv
<1>6. CASE CurrentProjectionView
  <2>1. file = 4 /\ relation # "absent" /\ hasHistory /\ ~ (relation = "table" /\ renamed)
    BY <1>1, <1>6 DEF CurrentProjectionView, Reached
  <2>2. relation \in {"table", "view"} /\ (renamed \/ relation = "table") = TRUE
    BY <1>1, <2>1 DEF TypeOK, Reached
  <2>3. /\ file' = 0 /\ outcome' = "applied" /\ relation' = "view"
        /\ renamed' = TRUE
        /\ Backfill(rows)
        /\ UNCHANGED <<rows, written, runs, hasHistory>>
    BY <1>1, <1>6, <2>1, <2>2 DEF CurrentProjectionView, Applied
  <2>4. copies' \subseteq Originals /\ rows \subseteq copies'
    BY <2>3, BackfillLemma DEF Originals
  <2>5. TypeOK'
    BY <1>1, <1>2, <2>3, <2>4 DEF TypeOK
  <2>6. Reached'
    BY <1>1, <2>1, <2>3, <2>4 DEF Reached
  <2>7. TimesDiffer' /\ copies' \subseteq Originals'
    BY <1>1, <2>3, <2>4 DEF TimesDiffer, Originals
  <2> QED BY <2>3, <2>5, <2>6, <2>7 DEF IInv
<1> QED BY <1>3, <1>4, <1>5, <1>6 DEF Migrate

\* A row that is new is told apart from those stored before.
LEMMA StoringKeeps ==
  ASSUME IInv, NEW r \in Row, Write(r) \/ OldRelease(r)
  PROVE  IInv'
<1>1. TypeOK /\ Reached /\ TimesDiffer /\ copies \subseteq Originals /\ outcome # "raised"
  BY DEF IInv
<1>2. New(r) /\ Originals' = Originals \union {r} /\ copies' = copies
  BY DEF Write, OldRelease, Originals
<1>3. TypeOK'
  BY <1>1 DEF Write, OldRelease, TypeOK
<1>4. Reached'
  BY <1>1 DEF Write, OldRelease, Reached
<1>5. TimesDiffer'
  <2>1. \A q \in Originals : Id(q) # Id(r)
    BY <1>2 DEF New, Originals
  <2>2. ASSUME NEW p \in Originals', NEW q \in Originals', Id(p) = Id(q) PROVE p = q
    BY <1>1, <1>2, <2>1, <2>2 DEF TimesDiffer
  <2>3. \A p, q \in Originals' : Id(p) = Id(q) => p = q
    BY <2>2
  <2> QED BY <2>3 DEF TimesDiffer, Id
<1>6. copies' \subseteq Originals' /\ outcome' # "raised"
  BY <1>1, <1>2 DEF Write, OldRelease
<1> QED BY <1>3, <1>4, <1>5, <1>6 DEF IInv

\* Between the files nothing but the script's place changes.
LEMMA ScriptKeeps ==
  ASSUME IInv, Start \/ Killed \/ UNCHANGED vars
  PROVE  IInv'
<1>1. TypeOK /\ Reached /\ TimesDiffer /\ copies \subseteq Originals /\ outcome # "raised"
  BY DEF IInv
<1>2. /\ UNCHANGED <<relation, rows, renamed, hasHistory, written, copies>>
      /\ outcome' # "raised"
      /\ file' \in {0, 1, file}
  BY <1>1 DEF Start, Killed, vars
<1>3. TypeOK'
  BY <1>1 DEF Start, Killed, vars, TypeOK, LastFile
<1>4. Reached'
  BY <1>1, <1>2 DEF Reached, LastFile
<1>5. TimesDiffer' /\ copies' \subseteq Originals'
  BY <1>1, <1>2 DEF TimesDiffer, Originals
<1> QED BY <1>2, <1>3, <1>4, <1>5 DEF IInv

\* The invariant is inductive: no ledger is needed for runs to be repeated.
THEOREM IInvHolds == Spec => []IInv
<1>1. Init => IInv
  <2> SUFFICES ASSUME Init PROVE IInv
    OBVIOUS
  <2>1. TypeOK
    <3>1. file \in 0 .. LastFile /\ runs \in Nat
      BY DEF Init, LastFile
    <3>2. rows \subseteq Row /\ written \subseteq Row /\ copies \subseteq Row
      BY DEF Init
    <3>3. /\ relation \in {"absent", "table", "view"}
          /\ renamed \in BOOLEAN /\ hasHistory \in BOOLEAN
          /\ outcome \in {"applied", "raised", "killed"}
      BY DEF Init
    <3> QED BY <3>1, <3>2, <3>3 DEF TypeOK
  <2>2. Reached
    BY DEF Init, Reached, LastFile
  <2>3. TimesDiffer /\ copies \subseteq Originals
    BY DEF Init, TimesDiffer, Originals
  <2>4. outcome # "raised"
    BY DEF Init
  <2> QED BY <2>1, <2>2, <2>3, <2>4 DEF IInv
<1>2. IInv /\ [Next]_vars => IInv'
  BY MigrateKeeps, StoringKeeps, ScriptKeeps DEF Next
<1> QED BY <1>1, <1>2, PTL DEF Spec

\* The view shows what was stored, whatever runs went before.
THEOREM ViewUnspoiledHolds == Spec => []ViewUnspoiled
  BY IInvHolds, ViewLemma, PTL

\* No row of the history has two copies.
THEOREM CopiedOnceHolds == Spec => []CopiedOnce
  BY IInvHolds, CopiesLemma, PTL

\* No run raises because of what another left.
THEOREM RerunNeverRaisesHolds == Spec => []RerunNeverRaises
<1>1. IInv => RerunNeverRaises
  BY DEF IInv, RerunNeverRaises
<1> QED BY <1>1, IInvHolds, PTL

-----------------------------------------------------------------------------
\* What an application's row is replaced by, when a file turns the table into the
\* view, when the history grows under it or when the script starts over, is no
\* older submission: readers of the projection never see one undone.
NeverOlder == \A r \in Shown, q \in Shown' : q.app = r.app => r.at <= q.at

ProjectionNeverGoesBack == [][NeverOlder]_vars

\* The mutable projection has one row of an application.
OneRowEach == \A p, q \in rows : p.app = q.app => p = q

\* The history only grows, and the table as long as it is one.
LEMMA StoredStays ==
  ASSUME IInv, [Next]_vars
  PROVE  /\ written \subseteq written' /\ copies \subseteq copies' /\ rows \subseteq rows'
         /\ relation = "view" => relation' = "view"
         /\ OneRowEach => OneRowEach'
<1>1. CASE AppendOnlyHistory
  <2>1. relation' = relation /\ written' = written /\ rows' = rows
    BY <1>1 DEF AppendOnlyHistory, Raise, Applied
  <2>2. copies \subseteq copies'
    BY <1>1 DEF AppendOnlyHistory, Raise, Backfill
  <2>3. QED
    BY <2>1, <2>2 DEF OneRowEach
<1>2. CASE CurrentProjectionView
  <2>1. (relation' = relation \/ relation' = "view") /\ written' = written /\ rows' = rows
    BY <1>2 DEF CurrentProjectionView, Raise, Applied
  <2>2. copies \subseteq copies'
    BY <1>2 DEF CurrentProjectionView, Raise, Backfill
  <2>3. QED
    BY <2>1, <2>2 DEF OneRowEach
<1>3. CASE InitTables \/ OutboxColumns \/ Start \/ Killed \/ UNCHANGED vars
  <2>1. /\ written' = written /\ rows' = rows /\ copies' = copies
        /\ relation = "view" => relation' = "view"
    BY <1>3 DEF InitTables, OutboxColumns, Applied, Start, Killed, vars
  <2>2. QED
    BY <2>1 DEF OneRowEach
<1>4. ASSUME NEW r \in Row, Write(r) \/ OldRelease(r)
      PROVE  /\ written \subseteq written' /\ copies' = copies /\ relation' = relation
             /\ rows' = rows \/ (rows' = rows \union {r} /\ \A q \in rows : q.app # r.app)
  BY <1>4 DEF Write, OldRelease
<1>5. CASE \E r \in Row : Write(r) \/ OldRelease(r)
  BY <1>4, <1>5 DEF OneRowEach
<1>6. QED
  BY <1>1, <1>2, <1>3, <1>5 DEF Next, Migrate

\* However often the files are applied and wherever a run is killed, the projection
\* never goes back to an older row.
THEOREM ProjectionNeverGoesBackHolds == Spec => ProjectionNeverGoesBack
<1>1. Init => OneRowEach
  BY DEF Init, OneRowEach
<1>2. IInv /\ OneRowEach /\ [Next]_vars => OneRowEach'
  BY StoredStays
<1>3. IInv /\ IInv' /\ ViewUnspoiled' /\ OneRowEach /\ OneRowEach' /\ [Next]_vars => NeverOlder
  <2> SUFFICES ASSUME IInv, IInv', ViewUnspoiled', OneRowEach, OneRowEach', [Next]_vars,
                      NEW r \in Shown, NEW q \in Shown', q.app = r.app
               PROVE  r.at <= q.at
    BY DEF NeverOlder
  <2>1. /\ written \subseteq written' /\ copies \subseteq copies' /\ rows \subseteq rows'
        /\ relation = "view" => relation' = "view"
    BY StoredStays
  <2>2. r \in Originals
    BY ShownStored
  <2>3. r \in Row /\ r.at \in Nat
    BY <2>2, MigrationsAssumption DEF IInv, TypeOK, Originals, Row
  <2>4. CASE relation' = "view"
    <3>1. q \in Latest(Originals)'
      BY <2>4 DEF ViewUnspoiled
    <3>2. r \in Originals'
      BY <2>1, <2>2 DEF Originals
    <3>3. QED
      BY <3>1, <3>2 DEF Latest
  <2>5. CASE relation' # "view"
    <3>1. relation # "view" /\ relation' \in {"absent", "table"}
      BY <2>1, <2>5 DEF IInv, TypeOK
    <3>2. CASE relation = "absent"
      <4>1. Shown = {}
        BY <3>2 DEF IInv, Reached, Shown, Latest
      <4>2. QED
        BY <4>1
    <3>3. CASE relation = "table"
      <4>1. r \in rows /\ r \in rows'
        BY <2>1, <3>3 DEF Shown
      <4>2. CASE relation' = "table"
        <5>1. q \in rows'
          BY <4>2 DEF Shown
        <5>2. q = r
          BY <4>1, <5>1 DEF OneRowEach
        <5>3. QED
          BY <2>3, <5>2
      <4>3. CASE relation' = "absent"
        <5>1. rows' = {}
          BY <4>3 DEF IInv, Reached
        <5>2. QED
          BY <4>1, <5>1
      <4>4. QED
        BY <3>1, <4>2, <4>3
    <3>4. QED
      BY <3>1, <3>2, <3>3 DEF IInv, TypeOK
  <2>6. QED
    BY <2>4, <2>5
<1>4. QED
  BY <1>1, <1>2, <1>3, IInvHolds, ViewUnspoiledHolds, PTL DEF Spec, ProjectionNeverGoesBack
=============================================================================
