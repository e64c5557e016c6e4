-------------------------- MODULE SqliteStoreProofs --------------------------
(***************************************************************************)
(* Proofs about SqliteStore for every number of users, ids, readings of    *)
(* the clock, caps and faults: its types, the bound on a box, and that it  *)
(* keeps the promise of Mailbox.                                           *)
(***************************************************************************)
EXTENDS SqliteStore, FiniteSetTheorems, TLAPS

(* Only finitely many puts have happened; every id is fresh when stamped.  *)
Provenance ==
    /\ IsFiniteSet(rows)
    /\ \A r \in rows : r.id \in known
    /\ \A e \in waiting : e.id \notin known
    /\ \A e, f \in waiting : e.id = f.id => e = f
    /\ guard.kind = "put" => guard.env.id \in known

(* Nothing carries a reading the clock has not shown.                      *)
ReadingsArePast ==
    /\ clock <= peak
    /\ \A e \in waiting : e.at <= peak
    /\ \A now \in sweep : now <= peak

IInv == TypeOK /\ Provenance /\ ReadingsArePast /\ CapUnlessTorn

GuardKinds == {Free} \cup PutOp \cup DeleteOp
------------------------------------------------------------------------------
(* The three shapes of guard are told apart by their kind (Connection held *)
(* by put, by delete, or by nobody: sqlite_store.rs:84, 188).              *)
LEMMA GuardShape ==
    ASSUME NEW g \in GuardKinds
    PROVE  /\ g.kind = "put" => g \in PutOp /\ g.env \in Envelope
           /\ g.kind = "delete" => g \in DeleteOp /\ g.by \in Users /\ g.left \in SUBSET Ids
           /\ g.kind \in {"free", "put", "delete"}
           /\ g.kind = "free" => g = Free
BY DEF GuardKinds, Free, PutOp, DeleteOp

(* The COUNT of put is a number (l.93-99).                                 *)
LEMMA BoxIsFinite ==
    ASSUME Provenance, NEW u
    PROVE  IsFiniteSet(RowsOf(u)) /\ Cardinality(RowsOf(u)) \in Nat
<1>1. RowsOf(u) \in SUBSET rows
  BY DEF RowsOf
<1>2. IsFiniteSet(RowsOf(u))
  BY <1>1, FS_Subset DEF Provenance
<1> QED
  BY <1>2, FS_CardinalityType

(* What the DELETE of put removes: exactly the excess (l.100-110).         *)
LEMMA TrimLeavesCap ==
    ASSUME NEW S, IsFiniteSet(S), NEW n \in Nat, NEW D \in OldestOf(S, n)
    PROVE  /\ D \subseteq S
           /\ IsFiniteSet(S \ D)
           /\ Cardinality(S) \in Nat
           /\ Cardinality(S \ D) = Cardinality(S) - n
<1>1. D \subseteq S /\ Cardinality(D) = n
  BY DEF OldestOf
<1>2. IsFiniteSet(D)
  BY <1>1, FS_Subset
<1>3. S \cap D = D
  BY <1>1
<1>4. /\ IsFiniteSet(S \ D)
      /\ Cardinality(S \ D) = Cardinality(S) - Cardinality(S \cap D)
  BY <1>2, FS_Difference
<1> QED
  BY <1>1, <1>3, <1>4, FS_CardinalityType
------------------------------------------------------------------------------
(* An empty table, as open() creates it, satisfies the inductive invariant  *)
(* (l.44-62).                                                               *)
THEOREM InitEstablishes == Init => IInv
<1> SUFFICES ASSUME Init PROVE IInv
  OBVIOUS
<1>1. TypeOK
  BY StampsAreNats, MaxFaultsIsNat DEF Init, TypeOK, Free
<1>2. Provenance /\ ReadingsArePast
  BY FS_EmptySet DEF Init, Provenance, ReadingsArePast, Free
<1>3. CapUnlessTorn
  <2> SUFFICES ASSUME NEW u \in Users
               PROVE  Cardinality(RowsOf(u)) <= Cap + torn[u] + (IF Putting(u) THEN 1 ELSE 0)
    BY DEF CapUnlessTorn
  <2>1. RowsOf(u) = {}
    BY DEF Init, RowsOf
  <2>2. Cardinality(RowsOf(u)) = 0 /\ torn[u] = 0 /\ ~Putting(u)
    BY <2>1, FS_EmptySet DEF Init, Putting, Free
  <2> QED
    BY <2>2, CapIsNat
<1> QED
  BY <1>1, <1>2, <1>3 DEF IInv

(* Every step of sqlite_store.rs keeps the types.                          *)
LEMMA TypePreserved == TypeOK /\ Provenance /\ [Next]_vars => TypeOK'
<1> SUFFICES ASSUME TypeOK, Provenance, [Next]_vars PROVE TypeOK'
  OBVIOUS
<1> USE StampsAreNats, MaxFaultsIsNat DEF TypeOK, volatile, history
<1>0. /\ guard.kind = "put" => guard.env \in Envelope
      /\ guard.kind = "delete" => guard.by \in Users /\ guard.left \in SUBSET Ids
      /\ guard.kind = "delete" => guard \in DeleteOp
  BY GuardShape DEF GuardKinds
<1>1. ASSUME NEW now \in Stamps, Tick(now) PROVE TypeOK'
  BY <1>1 DEF Tick
<1>2. ASSUME NEW id \in Ids, NEW u \in Users, Stamp(id, u) PROVE TypeOK'
  <2>1. [id |-> id, to |-> u, at |-> clock] \in Envelope
    BY DEF Envelope
  <2> QED
    BY <1>2, <2>1 DEF Stamp
<1>3. ASSUME NEW e \in waiting, Insert(e) PROVE TypeOK'
  <2>1. e \in Envelope /\ e.id \in Ids /\ [kind |-> "put", env |-> e] \in PutOp
    BY DEF Envelope, PutOp
  <2> QED
    BY <1>3, <2>1 DEF Insert
<1>4. ASSUME NEW e \in waiting, InsertFails(e) PROVE TypeOK'
  BY <1>4 DEF InsertFails
<1>5. ASSUME Trim PROVE TypeOK'
  <2>1. guard.env.id \in known /\ guard.env.to \in Users
    BY <1>0, <1>5 DEF Provenance, Trim, Envelope
  <2> QED
    BY <1>5, <2>1 DEF Trim
<1>6. ASSUME NEW u \in Users, NEW ids \in SUBSET Ids, BeginDelete(u, ids) PROVE TypeOK'
  <2>1. [kind |-> "delete", by |-> u, left |-> ids] \in DeleteOp
    BY DEF DeleteOp
  <2> QED
    BY <1>6, <2>1 DEF BeginDelete
<1>7. ASSUME NEW id \in Ids, DeleteOne(id) PROVE TypeOK'
  <2>1. [guard EXCEPT !.left = @ \ {id}] \in DeleteOp
    BY <1>0, <1>7 DEF DeleteOne, DeleteOp
  <2> QED
    BY <1>7, <2>1 DEF DeleteOne
<1>8. ASSUME EndDelete PROVE TypeOK'
  BY <1>8 DEF EndDelete
<1>9. ASSUME ReadForSweep PROVE TypeOK'
  BY <1>9 DEF ReadForSweep
<1>10. ASSUME NEW now \in sweep, Evict(now) PROVE TypeOK'
  BY <1>10 DEF Evict
<1>11. TornPut \in [Users -> Nat]
  BY <1>0 DEF TornPut, Envelope
<1>12. ASSUME StatementFails PROVE TypeOK'
  BY <1>11, <1>12 DEF StatementFails
<1>13. ASSUME Crash PROVE TypeOK'
  BY <1>11, <1>13 DEF Crash
<1>14. CASE UNCHANGED vars
  BY <1>14 DEF vars
<1> QED
  BY <1>1, <1>2, <1>3, <1>4, <1>5, <1>6, <1>7, <1>8, <1>9, <1>10, <1>12, <1>13, <1>14
     DEF Next

(* An id is drawn once, and only what has been put is in the table         *)
(* (sqlite_store.rs:70-90).                                                *)
LEMMA ProvenancePreserved == TypeOK /\ Provenance /\ [Next]_vars => Provenance'
<1> SUFFICES ASSUME TypeOK, Provenance, [Next]_vars PROVE Provenance'
  OBVIOUS
<1> USE DEF Provenance, volatile, history
<1>1. ASSUME NEW now \in Stamps, Tick(now) PROVE Provenance'
  BY <1>1 DEF Tick
<1>2. ASSUME NEW id \in Ids, NEW u \in Users, Stamp(id, u) PROVE Provenance'
  BY <1>2 DEF Stamp
<1>3. ASSUME NEW e \in waiting, Insert(e) PROVE Provenance'
  <2>1. IsFiniteSet(rows')
    BY <1>3, FS_AddElement DEF Insert
  <2>2. e.id \notin known /\ known' = known \cup {e.id}
    BY <1>3 DEF Insert
  <2>3. guard'.kind = "put" /\ guard'.env = e
    BY <1>3 DEF Insert
  <2> QED
    BY <1>3, <2>1, <2>2, <2>3 DEF Insert
<1>4. ASSUME NEW e \in waiting, InsertFails(e) PROVE Provenance'
  BY <1>4 DEF InsertFails
<1>5. ASSUME Trim PROVE Provenance'
  <2>1. rows' \subseteq rows /\ guard'.kind = "free"
    BY <1>5 DEF Trim, Free
  <2> QED
    BY <1>5, <2>1, FS_Subset DEF Trim
<1>6. ASSUME NEW u \in Users, NEW ids \in SUBSET Ids, BeginDelete(u, ids) PROVE Provenance'
  <2>1. guard'.kind = "delete"
    BY <1>6 DEF BeginDelete
  <2> QED
    BY <1>6, <2>1 DEF BeginDelete
<1>7. ASSUME NEW id \in Ids, DeleteOne(id) PROVE Provenance'
  <2>1. guard \in DeleteOp
    BY <1>7, GuardShape DEF DeleteOne, TypeOK, GuardKinds
  <2>2. rows' \subseteq rows /\ guard'.kind = "delete"
    BY <1>7, <2>1 DEF DeleteOne, DeleteOp
  <2> QED
    BY <1>7, <2>2, FS_Subset DEF DeleteOne
<1>8. ASSUME EndDelete PROVE Provenance'
  BY <1>8 DEF EndDelete, Free
<1>9. ASSUME ReadForSweep PROVE Provenance'
  BY <1>9 DEF ReadForSweep
<1>10. ASSUME NEW now \in sweep, Evict(now) PROVE Provenance'
  <2>1. rows' \subseteq rows
    BY <1>10 DEF Evict
  <2> QED
    BY <1>10, <2>1, FS_Subset DEF Evict
<1>11. ASSUME StatementFails PROVE Provenance'
  BY <1>11 DEF StatementFails, Free
<1>12. ASSUME Crash PROVE Provenance'
  BY <1>12 DEF Crash, Free
<1>13. CASE UNCHANGED vars
  BY <1>13 DEF vars
<1> QED
  BY <1>1, <1>2, <1>3, <1>4, <1>5, <1>6, <1>7, <1>8, <1>9, <1>10, <1>11, <1>12, <1>13
     DEF Next

(* now_ms is read before it is used, never after (service.rs:440,          *)
(* main.rs:108-110).                                                       *)
LEMMA ReadingsPreserved == TypeOK /\ ReadingsArePast /\ [Next]_vars => ReadingsArePast'
<1> SUFFICES ASSUME TypeOK, ReadingsArePast, [Next]_vars PROVE ReadingsArePast'
  OBVIOUS
<1> USE StampsAreNats DEF ReadingsArePast, volatile, history, TypeOK
<1>1. ASSUME NEW now \in Stamps, Tick(now) PROVE ReadingsArePast'
  <2>1. peak' \in Nat /\ peak \in Nat /\ now \in Nat /\ now <= peak' /\ peak <= peak'
    BY <1>1 DEF Tick
  <2>2. \A e \in waiting : e.at \in Nat
    BY DEF Envelope
  <2>3. \A t \in sweep : t \in Nat
    OBVIOUS
  <2> QED
    BY <1>1, <2>1, <2>2, <2>3 DEF Tick
<1>2. ASSUME NEW id \in Ids, NEW u \in Users, Stamp(id, u) PROVE ReadingsArePast'
  BY <1>2 DEF Stamp
<1>3. ASSUME NEW e \in waiting, Insert(e) PROVE ReadingsArePast'
  BY <1>3 DEF Insert
<1>4. ASSUME NEW e \in waiting, InsertFails(e) PROVE ReadingsArePast'
  BY <1>4 DEF InsertFails
<1>5. ASSUME ReadForSweep PROVE ReadingsArePast'
  BY <1>5 DEF ReadForSweep
<1>6. ASSUME NEW now \in sweep, Evict(now) PROVE ReadingsArePast'
  BY <1>6 DEF Evict
<1>7. ASSUME Crash PROVE ReadingsArePast'
  BY <1>7 DEF Crash
<1>8. ASSUME \/ Trim
             \/ \E u \in Users, ids \in SUBSET Ids : BeginDelete(u, ids)
             \/ \E id \in Ids : DeleteOne(id)
             \/ EndDelete
             \/ StatementFails
             \/ UNCHANGED vars
      PROVE  ReadingsArePast'
  <2>1. UNCHANGED <<clock, waiting, sweep, peak>>
    BY <1>8 DEF Trim, BeginDelete, DeleteOne, EndDelete, StatementFails, vars
  <2> QED
    BY <2>1
<1> QED
  BY <1>1, <1>2, <1>3, <1>4, <1>5, <1>6, <1>7, <1>8 DEF Next

(* A step that takes rows away, moves no put and lets torn alone keeps the *)
(* bound on every box.                                                     *)
LEMMA CapWhenRowsGo ==
    ASSUME TypeOK, Provenance, CapUnlessTorn,
           rows' \subseteq rows, torn' = torn,
           \A u \in Users : Putting(u) => Putting(u)'
    PROVE  CapUnlessTorn'
<1> SUFFICES ASSUME NEW u \in Users
             PROVE  Cardinality(RowsOf(u)') <= Cap + torn[u] + (IF Putting(u)' THEN 1 ELSE 0)
  BY DEF CapUnlessTorn
<1>1. /\ Cardinality(RowsOf(u)) \in Nat
      /\ Cardinality(RowsOf(u)') \in Nat
      /\ Cardinality(RowsOf(u)') <= Cardinality(RowsOf(u))
  <2>1. RowsOf(u)' \in SUBSET RowsOf(u)
    BY DEF RowsOf
  <2>2. IsFiniteSet(RowsOf(u)) /\ Cardinality(RowsOf(u)) \in Nat
    BY BoxIsFinite
  <2>3. IsFiniteSet(RowsOf(u)') /\ Cardinality(RowsOf(u)') <= Cardinality(RowsOf(u))
    BY <2>1, <2>2, FS_Subset
  <2> QED
    BY <2>2, <2>3, FS_CardinalityType
<1>2. Cardinality(RowsOf(u)) <= Cap + torn[u] + (IF Putting(u) THEN 1 ELSE 0)
  BY DEF CapUnlessTorn
<1>3. torn[u] \in Nat
  BY DEF TypeOK
<1> QED
  BY <1>1, <1>2, <1>3, CapIsNat

(* A put cut short leaves at most the one row it has inserted (l.85-111).  *)
LEMMA CapWhenPutIsCutShort ==
    ASSUME TypeOK, Provenance, CapUnlessTorn, rows' = rows, torn' = TornPut
    PROVE  CapUnlessTorn'
<1> SUFFICES ASSUME NEW u \in Users
             PROVE  Cardinality(RowsOf(u)') <= Cap + torn'[u] + (IF Putting(u)' THEN 1 ELSE 0)
  BY DEF CapUnlessTorn
<1>1. RowsOf(u)' = RowsOf(u) /\ Cardinality(RowsOf(u)) \in Nat
  BY BoxIsFinite DEF RowsOf
<1>2. Cardinality(RowsOf(u)) <= Cap + torn[u] + (IF Putting(u) THEN 1 ELSE 0)
  BY DEF CapUnlessTorn
<1>3. torn[u] \in Nat
  BY DEF TypeOK
<1>4. torn'[u] = torn[u] + (IF Putting(u) THEN 1 ELSE 0)
  BY <1>3 DEF TypeOK, TornPut, Putting
<1> QED
  BY <1>1, <1>2, <1>3, <1>4, CapIsNat

(* The cap of put is exceeded only as CapUnlessTorn allows.                *)
LEMMA CapPreserved ==
    TypeOK /\ Provenance /\ CapUnlessTorn /\ [Next]_vars => CapUnlessTorn'
<1> SUFFICES ASSUME TypeOK, Provenance, CapUnlessTorn, [Next]_vars PROVE CapUnlessTorn'
  OBVIOUS
<1> USE DEF volatile, history
<1>1. ASSUME NEW e \in waiting, Insert(e) PROVE CapUnlessTorn'
  <2> SUFFICES ASSUME NEW u \in Users
               PROVE  Cardinality(RowsOf(u)') <= Cap + torn'[u] + (IF Putting(u)' THEN 1 ELSE 0)
    BY DEF CapUnlessTorn
  <2>1. ~Putting(u) /\ (Putting(u)' <=> e.to = u) /\ torn'[u] = torn[u] /\ torn[u] \in Nat
    BY <1>1 DEF Insert, Putting, Free, TypeOK
  <2>2. Cardinality(RowsOf(u)) <= Cap + torn[u]
    BY <2>1, CapIsNat DEF CapUnlessTorn
  <2>3. IsFiniteSet(RowsOf(u)) /\ Cardinality(RowsOf(u)) \in Nat
    BY BoxIsFinite
  <2>4. CASE e.to = u
    <3>1. RowsOf(u)' = RowsOf(u) \cup {e}
      BY <1>1, <2>4 DEF RowsOf, Insert
    <3>2. Cardinality(RowsOf(u)') = IF e \in RowsOf(u) THEN Cardinality(RowsOf(u))
                                                       ELSE Cardinality(RowsOf(u)) + 1
      BY <2>3, <3>1, FS_AddElement
    <3> QED
      BY <2>1, <2>2, <2>3, <2>4, <3>2, CapIsNat
  <2>5. CASE e.to # u
    <3>1. RowsOf(u)' = RowsOf(u)
      BY <1>1, <2>5 DEF RowsOf, Insert
    <3> QED
      BY <2>1, <2>2, <2>3, <2>5, <3>1, CapIsNat
  <2> QED
    BY <2>4, <2>5
<1>2. ASSUME Trim PROVE CapUnlessTorn'
  <2> DEFINE w == guard.env.to
  <2>1. w \in Users
    BY <1>2, GuardShape DEF Trim, TypeOK, GuardKinds, Envelope
  <2>2. IsFiniteSet(RowsOf(w)) /\ Cardinality(RowsOf(w)) \in Nat
    BY BoxIsFinite
  <2>3. Excess(w) \in Nat /\ Cardinality(RowsOf(w)) - Excess(w) <= Cap
    BY <2>2, CapIsNat DEF Excess
  <2>4. PICK D \in OldestOf(RowsOf(w), Excess(w)) : rows' = rows \ D
    BY <1>2 DEF Trim
  <2>5. /\ D \subseteq RowsOf(w)
        /\ Cardinality(RowsOf(w) \ D) = Cardinality(RowsOf(w)) - Excess(w)
    BY <2>2, <2>3, TrimLeavesCap
  <2> SUFFICES ASSUME NEW u \in Users
               PROVE  Cardinality(RowsOf(u)') <= Cap + torn'[u] + (IF Putting(u)' THEN 1 ELSE 0)
    BY DEF CapUnlessTorn
  <2>6. ~Putting(u)'
    BY <1>2 DEF Trim, Free, Putting
  <2>7. CASE u = w
    <3>1. RowsOf(u)' = RowsOf(w) \ D
      BY <2>4, <2>7 DEF RowsOf
    <3>2. torn'[u] = 0
      BY <1>2, <2>7 DEF Trim, TypeOK
    <3> QED
      BY <2>3, <2>5, <2>6, <3>1, <3>2, CapIsNat
  <2>8. CASE u # w
    <3>1. RowsOf(u)' = RowsOf(u)
      BY <2>4, <2>5, <2>8 DEF RowsOf
    <3>2. torn'[u] = torn[u] /\ ~Putting(u)
      BY <1>2, <2>8 DEF Trim, TypeOK, Putting
    <3>3. Cardinality(RowsOf(u)) <= Cap + torn[u] + (IF Putting(u) THEN 1 ELSE 0)
      BY DEF CapUnlessTorn
    <3> QED
      BY <2>6, <3>1, <3>2, <3>3
  <2> QED
    BY <2>7, <2>8
<1>3. ASSUME NEW id \in Ids, DeleteOne(id) PROVE CapUnlessTorn'
  <2>1. rows' \subseteq rows /\ torn' = torn /\ \A u \in Users : ~Putting(u)
    BY <1>3 DEF DeleteOne, Putting
  <2> QED
    BY <2>1, CapWhenRowsGo
<1>4. ASSUME NEW now \in sweep, Evict(now) PROVE CapUnlessTorn'
  <2>1. rows' \subseteq rows /\ torn' = torn /\ guard' = guard
    BY <1>4 DEF Evict
  <2> QED
    BY <2>1, CapWhenRowsGo DEF Putting
<1>5. ASSUME StatementFails \/ Crash PROVE CapUnlessTorn'
  <2>1. rows' = rows /\ torn' = TornPut
    BY <1>5 DEF StatementFails, Crash
  <2> QED
    BY <2>1, CapWhenPutIsCutShort
<1>6. ASSUME \/ \E u \in Users, ids \in SUBSET Ids : BeginDelete(u, ids)
             \/ EndDelete
      PROVE  CapUnlessTorn'
  <2>1. rows' = rows /\ torn' = torn /\ \A u \in Users : ~Putting(u)
    BY <1>6 DEF BeginDelete, EndDelete, Putting, Free
  <2> QED
    BY <2>1, CapWhenRowsGo
<1>7. ASSUME \/ \E now \in Stamps : Tick(now)
             \/ \E id \in Ids, u \in Users : Stamp(id, u)
             \/ \E e \in waiting : InsertFails(e)
             \/ ReadForSweep
             \/ UNCHANGED vars
      PROVE  CapUnlessTorn'
  <2>1. rows' = rows /\ torn' = torn /\ guard' = guard
    BY <1>7 DEF Tick, Stamp, InsertFails, ReadForSweep, vars
  <2> QED
    BY <2>1, CapWhenRowsGo DEF Putting
<1> QED
  BY <1>1, <1>2, <1>3, <1>4, <1>5, <1>6, <1>7 DEF Next
------------------------------------------------------------------------------
(* No step of any task, no failure and no crash breaks the inductive        *)
(* invariant.                                                               *)
LEMMA StepPreserves == IInv /\ [Next]_vars => IInv'
BY TypePreserved, ProvenancePreserved, ReadingsPreserved, CapPreserved DEF IInv

(* The inductive invariant holds throughout.                               *)
THEOREM Inductive == Spec => []IInv
BY InitEstablishes, StepPreserves, PTL DEF Spec

(* The store keeps its types, whatever crashes or fails.                   *)
THEOREM StoreTypes == Spec => []TypeOK
<1>1. IInv => TypeOK
  BY DEF IInv
<1> QED
  BY <1>1, Inductive, PTL

(* No box outgrows the cap by more than the put under way and the puts cut *)
(* short since the last complete one.                                      *)
THEOREM BoxesAreBounded == Spec => []CapUnlessTorn
<1>1. IInv => CapUnlessTorn
  BY DEF IInv
<1> QED
  BY <1>1, Inductive, PTL
------------------------------------------------------------------------------
(* Refinement.  Every step is one step of Mailbox, or none of its          *)
(* business.                                                               *)
LEMMA MapsInit == Init => Abstract!Init
BY StampsAreNats DEF Init, Abstract!Init, Asked, Free

(* The DELETE of put only makes room: the box keeps its cap (l.100-111).    *)
LEMMA MapsTrim ==
    ASSUME IInv, Trim
    PROVE  \E u \in Users : \E dropped \in SUBSET Abstract!Box(u) : Abstract!MakeRoom(u, dropped)
<1> DEFINE w == guard.env.to
<1>1. w \in Users
  BY GuardShape DEF Trim, IInv, TypeOK, GuardKinds, Envelope
<1>2. IsFiniteSet(RowsOf(w)) /\ Cardinality(RowsOf(w)) \in Nat
  BY BoxIsFinite DEF IInv
<1>3. Excess(w) \in Nat /\ (Excess(w) > 0 => Cardinality(RowsOf(w)) - Excess(w) = Cap)
  BY <1>2, CapIsNat DEF Excess
<1>4. PICK D \in OldestOf(RowsOf(w), Excess(w)) : rows' = rows \ D
  BY DEF Trim
<1>5. /\ D \subseteq RowsOf(w)
      /\ Cardinality(RowsOf(w) \ D) = Cardinality(RowsOf(w)) - Excess(w)
      /\ Cardinality(D) = Excess(w)
  BY <1>2, <1>3, TrimLeavesCap DEF OldestOf
<1>6. D # {} => Excess(w) > 0
  <2>1. IsFiniteSet(D)
    BY <1>2, <1>5, FS_Subset
  <2> QED
    BY <2>1, <1>3, <1>5, FS_EmptySet
<1>7. {e \in rows' : e.to = w} = RowsOf(w) \ D
  BY <1>4 DEF RowsOf
<1>8. Abstract!OnlyExcess(w, D)
  <2>1. Abstract!Cardinality(RowsOf(w) \ D) = Cardinality(RowsOf(w) \ D)
    BY DEF Abstract!Cardinality, Cardinality
  <2>2. Abstract!Cardinality({e \in rows' : e.to = w}) = Cardinality(RowsOf(w) \ D)
    BY <2>1, <1>7, Zenon
  <2>3. D # {} => Cardinality(RowsOf(w) \ D) >= Cap
    BY <1>3, <1>5, <1>6, CapIsNat
  <2>4. \A e \in D : e.to = w
    BY <1>5 DEF RowsOf
  <2> QED
    BY <2>2, <2>3, <2>4 DEF Abstract!OnlyExcess
<1>9. UNCHANGED <<Asked, known, peak>>
  BY DEF Trim, Asked, Free
<1>10. Abstract!MakeRoom(w, D) /\ D \in SUBSET Abstract!Box(w)
  BY <1>4, <1>5, <1>8, <1>9 DEF Abstract!MakeRoom, Abstract!Box, RowsOf
<1> QED
  BY <1>1, <1>10

(* The INSERT of put accepts a new envelope and drops nothing yet           *)
(* (l.85-91).                                                               *)
LEMMA MapsInsert ==
    ASSUME IInv, NEW e \in waiting, Insert(e)
    PROVE  e \in Abstract!Envelope /\ Abstract!Accept(e, {})
<1>1. e \in Abstract!Envelope
  BY DEF IInv, TypeOK, Envelope, Abstract!Envelope
<1>2. e.id \notin known /\ e.at <= peak
  BY DEF IInv, Provenance, ReadingsArePast
<1>3. UNCHANGED <<Asked, peak>>
  BY DEF Insert, Asked, Free
<1>4. known' = known \cup {e.id} /\ rows' = (rows \cup {e}) \ {}
  BY DEF Insert
<1> QED
  BY <1>1, <1>2, <1>3, <1>4 DEF Abstract!Accept, Abstract!OnlyExcess

(* One DELETE of an ack removes what its recipient named, and nobody else's *)
(* (l.178-200).                                                             *)
LEMMA MapsDeleteOne ==
    ASSUME IInv, NEW id \in Ids, DeleteOne(id)
    PROVE  \E gone \in SUBSET rows : Abstract!Acknowledge(gone)
<1> DEFINE gone == {r \in rows : r.id = id /\ r.to = guard.by}
<1>1. guard \in DeleteOp /\ guard.by \in Users
  BY GuardShape DEF DeleteOne, IInv, TypeOK, GuardKinds
<1>2. guard'.kind = "delete" /\ guard'.by = guard.by /\ guard'.left = guard.left \ {id}
  BY <1>1 DEF DeleteOne, DeleteOp
<1>3. Asked = {guard.by} \X guard.left /\ Asked' = {guard.by} \X (guard.left \ {id})
  BY <1>2 DEF DeleteOne, Asked
<1>4. \A e \in gone : <<e.to, e.id>> \in Asked
  BY <1>3 DEF DeleteOne
<1>5. Asked' \subseteq Asked
  BY <1>3
<1>6. rows' = rows \ gone
  BY DEF DeleteOne
<1>7. UNCHANGED <<known, peak>>
  BY DEF DeleteOne, history
<1>8. Abstract!Acknowledge(gone)
  BY <1>4, <1>5, <1>6, <1>7 DEF Abstract!Acknowledge
<1> QED
  BY <1>8

(* The sweep expires what is older than the retention period at a time the  *)
(* clock has shown (main.rs:103-119).                                       *)
LEMMA MapsEvict ==
    ASSUME IInv, NEW now \in sweep, Evict(now)
    PROVE  now \in Stamps /\ Abstract!Expire(now)
<1>1. now \in Stamps /\ now <= peak
  BY DEF IInv, TypeOK, ReadingsArePast
<1>2. rows' = {e \in rows : e.at >= Abstract!CutoffAt(now)}
  BY DEF Evict, Cutoff, Abstract!CutoffAt
<1>3. UNCHANGED <<Asked, known, peak>>
  BY DEF Evict, Asked, history
<1> QED
  BY <1>1, <1>2, <1>3 DEF Abstract!Expire

(* Every step of the store is a step of Mailbox or invisible to it.         *)
LEMMA MapsStep ==
    ASSUME IInv, [Next]_vars
    PROVE  [Abstract!Next]_(Abstract!mailboxVars)
<1> USE DEF volatile, history
<1>1. ASSUME NEW now \in Stamps, Tick(now) PROVE Abstract!Next
  <2>1. Abstract!ClockShows(now)
    BY <1>1 DEF Tick, Abstract!ClockShows, Asked
  <2> QED
    BY <2>1 DEF Abstract!Next
<1>2. ASSUME NEW e \in waiting, Insert(e) PROVE Abstract!Next
  BY <1>2, MapsInsert DEF Abstract!Next
<1>3. ASSUME Trim PROVE Abstract!Next
  BY <1>3, MapsTrim DEF Abstract!Next
<1>4. ASSUME NEW u \in Users, NEW ids \in SUBSET Ids, BeginDelete(u, ids) PROVE Abstract!Next
  <2>1. Asked = {} /\ Asked' = {u} \X ids
    BY <1>4 DEF BeginDelete, Asked, Free
  <2>2. Abstract!Ask(u, ids)
    BY <1>4, <2>1 DEF BeginDelete, Abstract!Ask
  <2> QED
    BY <2>2 DEF Abstract!Next
<1>5. ASSUME NEW id \in Ids, DeleteOne(id) PROVE Abstract!Next
  BY <1>5, MapsDeleteOne DEF Abstract!Next
<1>6. ASSUME NEW now \in sweep, Evict(now) PROVE Abstract!Next
  BY <1>6, MapsEvict DEF Abstract!Next
<1>7. ASSUME EndDelete \/ StatementFails \/ Crash PROVE Abstract!Next
  <2>1. Asked' = {} /\ UNCHANGED <<rows, known, peak>>
    BY <1>7 DEF EndDelete, StatementFails, Crash, Asked, Free
  <2>2. Abstract!Acknowledge({})
    BY <2>1 DEF Abstract!Acknowledge
  <2> QED
    BY <2>2 DEF Abstract!Next
<1>8. ASSUME \/ \E id \in Ids, u \in Users : Stamp(id, u)
             \/ \E e \in waiting : InsertFails(e)
             \/ ReadForSweep
             \/ UNCHANGED vars
      PROVE  UNCHANGED Abstract!mailboxVars
  <2>1. UNCHANGED <<rows, guard, known, peak>>
    BY <1>8 DEF Stamp, InsertFails, ReadForSweep, vars
  <2> QED
    BY <2>1 DEF Abstract!mailboxVars, Asked
<1> QED
  BY <1>1, <1>2, <1>3, <1>4, <1>5, <1>6, <1>7, <1>8 DEF Next

(* The SQLite store, crashing and failing as it may, implements Mailbox:   *)
(* an envelope leaves its box only at its recipient's request, to make     *)
(* room, or by age (store.rs:23-32, 76-78).                                *)
THEOREM StoreKeepsMailbox == Spec => KeepsMailbox
<1>1. Init => Abstract!Init
  BY MapsInit
<1>2. IInv /\ [Next]_vars => [Abstract!Next]_(Abstract!mailboxVars)
  BY MapsStep
<1> QED
  BY <1>1, <1>2, Inductive, PTL DEF Spec, KeepsMailbox, Abstract!Spec
==============================================================================
