----------------------------- MODULE SqliteStore -----------------------------
(***************************************************************************)
(* The production envelope store (relay/src/sqlite_store.rs): one table    *)
(* behind one mutex.  Every SQL statement commits on its own, so a put is  *)
(* two commits (INSERT, then DELETE of the excess) and an ack is one per   *)
(* id; the process may die, or a statement fail, between any two of them.  *)
(* Callers stamp an envelope before they queue for the mutex, and the wall *)
(* clock they read may be set back.                                        *)
(***************************************************************************)
EXTENDS Naturals, FiniteSets

CONSTANTS Users, Ids, Stamps, Cap, Retention,
          MaxFaults           \* bound on crashes and failed statements

ASSUME StampsAreNats == Stamps \subseteq Nat /\ 0 \in Stamps
ASSUME CapIsNat == Cap \in Nat
ASSUME RetentionIsNat == Retention \in Nat
ASSUME MaxFaultsIsNat == MaxFaults \in Nat

VARIABLES rows,      \* the committed table; survives a crash
          clock,     \* SystemTime::now()
          waiting,   \* envelopes stamped and identified, queued for the mutex
          sweep,     \* readings of the eviction task not yet applied
          guard,     \* the operation that holds the mutex
          known,     \* history: ids of the envelopes inserted so far
          peak,      \* history: highest clock reading
          confirmed, \* history: ids whose put returned Ok
          torn,      \* history: puts to a user that inserted but never trimmed
          faults     \* counts crashes and failures, up to MaxFaults

volatile == <<waiting, sweep, guard>>
history  == <<known, peak, confirmed>>
vars == <<rows, clock, volatile, history, torn, faults>>

Envelope == [id: Ids, to: Users, at: Stamps]

Free == [kind |-> "free"]
PutOp == [kind: {"put"}, env: Envelope]
DeleteOp == [kind: {"delete"}, by: Users, left: SUBSET Ids]

RowsOf(u) == {r \in rows : r.to = u}
Putting(u) == guard.kind = "put" /\ guard.env.to = u

Cutoff(now) == IF now > Retention THEN now - Retention ELSE 0

(* DELETE ... ORDER BY created_at ASC LIMIT n.  SQL leaves the order of    *)
(* equal created_at open, so any choice among ties is allowed.             *)
OldestOf(S, n) ==
    {D \in SUBSET S : /\ Cardinality(D) = n
                      /\ \A d \in D, k \in S \ D : d.at <= k.at}

ExcessOffByOne(u) ==
    IF Cardinality(RowsOf(u)) > Cap + 1 THEN Cardinality(RowsOf(u)) - Cap - 1 ELSE 0
Excess(u) ==
    IF Cardinality(RowsOf(u)) > Cap THEN Cardinality(RowsOf(u)) - Cap ELSE 0
------------------------------------------------------------------------------
Init ==
    /\ rows = {}
    /\ clock = 0
    /\ waiting = {}
    /\ sweep = {}
    /\ guard = Free
    /\ known = {}
    /\ peak = 0
    /\ confirmed = {}
    /\ torn = [u \in Users |-> 0]
    /\ faults = 0

(* The wall clock, which may also be set back.                             *)
Tick(now) ==
    /\ clock' = now
    /\ peak' = IF now > peak THEN now ELSE peak
    /\ UNCHANGED <<rows, volatile, known, confirmed, torn, faults>>

(* Deliver reads the clock and put draws a random id before locking.       *)
Stamp(id, u) ==
    /\ id \notin known \cup {e.id : e \in waiting}
    /\ waiting' = waiting \cup {[id |-> id, to |-> u, at |-> clock]}
    /\ UNCHANGED <<rows, clock, sweep, guard, history, torn, faults>>

Insert(e) ==
    /\ guard = Free
    /\ e \in waiting
    /\ waiting' = waiting \ {e}
    /\ guard' = [kind |-> "put", env |-> e]
    /\ rows' = rows \cup {e}
    /\ known' = known \cup {e.id}
    /\ UNCHANGED <<clock, sweep, peak, confirmed, torn, faults>>

InsertFailureIgnored(e) ==
    /\ guard = Free
    /\ e \in waiting
    /\ waiting' = waiting \ {e}
    /\ guard' = [kind |-> "put", env |-> e]
    /\ UNCHANGED <<rows, clock, sweep, history, torn, faults>>
InsertFails(e) ==
    /\ guard = Free
    /\ e \in waiting
    /\ waiting' = waiting \ {e}
    /\ UNCHANGED <<rows, clock, sweep, guard, history, torn, faults>>

(* COUNT, then DELETE of what exceeds the cap; put returns Ok(id).         *)
Trim ==
    /\ guard.kind = "put"
    /\ \E D \in OldestOf(RowsOf(guard.env.to), Excess(guard.env.to)) :
          rows' = rows \ D
    /\ guard' = Free
    /\ confirmed' = confirmed \cup {guard.env.id}
    /\ torn' = [torn EXCEPT ![guard.env.to] = 0]
    /\ UNCHANGED <<clock, waiting, sweep, known, peak, faults>>

BeginDelete(u, ids) ==
    /\ guard = Free
    /\ guard' = [kind |-> "delete", by |-> u, left |-> ids]
    /\ UNCHANGED <<rows, clock, waiting, sweep, history, torn, faults>>

DeleteOneOfAnybody(id) ==
    /\ guard.kind = "delete"
    /\ id \in guard.left
    /\ rows' = {r \in rows : r.id # id}
    /\ guard' = [guard EXCEPT !.left = @ \ {id}]
    /\ UNCHANGED <<clock, waiting, sweep, history, torn, faults>>

(* DELETE ... WHERE id = ? AND to_pk = ?: an autocommitted statement.      *)
DeleteOne(id) ==
    /\ guard.kind = "delete"
    /\ id \in guard.left
    /\ rows' = {r \in rows : ~(r.id = id /\ r.to = guard.by)}
    /\ guard' = [guard EXCEPT !.left = @ \ {id}]
    /\ UNCHANGED <<clock, waiting, sweep, history, torn, faults>>

EndDelete ==
    /\ guard.kind = "delete"
    /\ guard.left = {}
    /\ guard' = Free
    /\ UNCHANGED <<rows, clock, waiting, sweep, history, torn, faults>>

(* The hourly task reads the clock, then waits for the mutex.              *)
ReadForSweep ==
    /\ sweep = {}
    /\ sweep' = {clock}
    /\ UNCHANGED <<rows, clock, waiting, guard, history, torn, faults>>

Evict(now) ==
    /\ guard = Free
    /\ now \in sweep
    /\ sweep' = {}
    /\ rows' = {r \in rows : r.at >= Cutoff(now)}
    /\ UNCHANGED <<clock, waiting, guard, history, torn, faults>>

TornPut == IF guard.kind = "put" THEN [torn EXCEPT ![guard.env.to] = @ + 1] ELSE torn

(* A statement fails: put or delete returns Err with the earlier           *)
(* statements committed, and the mutex is released.                        *)
StatementFails ==
    /\ faults < MaxFaults
    /\ guard # Free
    /\ faults' = faults + 1
    /\ guard' = Free
    /\ torn' = TornPut
    /\ UNCHANGED <<rows, clock, waiting, sweep, history>>

(* The process dies and open() finds the table as last committed.          *)
Crash ==
    /\ faults < MaxFaults
    /\ faults' = faults + 1
    /\ guard' = Free
    /\ waiting' = {}
    /\ sweep' = {}
    /\ torn' = TornPut
    /\ UNCHANGED <<rows, clock, history>>

Next ==
    \/ \E now \in Stamps : Tick(now)
    \/ \E id \in Ids, u \in Users : Stamp(id, u)
    \/ \E e \in waiting : Insert(e) \/ InsertFails(e)
    \/ Trim
    \/ \E u \in Users, ids \in SUBSET Ids : BeginDelete(u, ids)
    \/ \E id \in Ids : DeleteOne(id)
    \/ EndDelete
    \/ ReadForSweep
    \/ \E now \in sweep : Evict(now)
    \/ StatementFails
    \/ Crash

Spec == Init /\ [][Next]_vars
------------------------------------------------------------------------------
(* The table and everything around it keep their types (all of             *)
(* sqlite_store.rs).                                                       *)
TypeOK ==
    /\ rows \subseteq Envelope
    /\ clock \in Stamps
    /\ waiting \subseteq Envelope
    /\ sweep \subseteq Stamps
    /\ guard \in {Free} \cup PutOp \cup DeleteOp
    /\ known \subseteq Ids
    /\ peak \in Stamps
    /\ confirmed \subseteq known
    /\ torn \in [Users -> Nat]
    /\ faults \in 0..MaxFaults

(* The per-recipient cap of put (sqlite_store.rs:92-111) is exceeded by    *)
(* the row a put under way has just inserted and by one row for each put   *)
(* that was cut short since the last complete one, and by nothing else.    *)
CapUnlessTorn ==
    \A u \in Users :
        Cardinality(RowsOf(u)) <= Cap + torn[u] + (IF Putting(u) THEN 1 ELSE 0)

(* The store keeps the promise of Mailbox through crashes, failures, late  *)
(* stamps and clock changes.                                               *)
Asked == IF guard.kind = "delete" THEN {guard.by} \X guard.left ELSE {}
Abstract == INSTANCE Mailbox WITH held <- rows, asked <- Asked
KeepsMailbox == Abstract!Spec
==============================================================================
