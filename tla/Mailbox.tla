------------------------------- MODULE Mailbox -------------------------------
(***************************************************************************)
(* What the relay's envelope store promises, whatever backend holds the    *)
(* envelopes (trait EnvelopeStore, relay/src/store.rs).  An accepted       *)
(* envelope leaves its recipient's box in three ways only: the recipient   *)
(* names it in an ack, newer arrivals leave no room for it, or it is older *)
(* than the retention period.  Nobody else's request can remove it.        *)
(***************************************************************************)
EXTENDS Naturals, FiniteSets

CONSTANTS Users,      \* static public keys: the auth principals of the relay
          Ids,        \* envelope ids, 16 random bytes each in the code
          Stamps,     \* readings of the server's wall clock, natural numbers
          Cap,        \* max_per_recipient, a natural number
          Retention   \* max_age_ms, on the scale of Stamps

VARIABLES held,       \* the envelopes pending in the store
          asked,      \* <<u, id>>: u has an ack of id under way
          known,      \* ids the store has ever assigned
          peak        \* the highest reading the server's clock has shown

mailboxVars == <<held, asked, known, peak>>

Envelope == [id: Ids, to: Users, at: Stamps]

Box(u) == {e \in held : e.to = u}

(* now_ms.saturating_sub(max_age_ms): no envelope is older than time zero. *)
CutoffAt(now) == IF now > Retention THEN now - Retention ELSE 0

(* An envelope may be displaced only while at least Cap others remain.     *)
OnlyExcess(u, dropped) ==
    dropped # {} => /\ \A e \in dropped : e.to = u
                    /\ Cardinality({e \in held' : e.to = u}) >= Cap

Init ==
    /\ held = {}
    /\ asked = {}
    /\ known = {}
    /\ peak \in Stamps

ClockShows(now) ==
    /\ peak' = IF now > peak THEN now ELSE peak
    /\ UNCHANGED <<held, asked, known>>

(* The store assigns a fresh id; room is made at the same moment or later. *)
Accept(e, dropped) ==
    /\ e.id \notin known
    /\ e.at <= peak
    /\ known' = known \cup {e.id}
    /\ held' = (held \cup {e}) \ dropped
    /\ OnlyExcess(e.to, dropped)
    /\ UNCHANGED <<asked, peak>>

MakeRoom(u, dropped) ==
    /\ held' = held \ dropped
    /\ OnlyExcess(u, dropped)
    /\ UNCHANGED <<asked, known, peak>>

Ask(u, ids) ==
    /\ asked' = asked \cup ({u} \X ids)
    /\ UNCHANGED <<held, known, peak>>

(* What an ack removes was named by its recipient; an ack may stop half    *)
(* way, or find nothing to remove.                                         *)
Acknowledge(gone) ==
    /\ \A e \in gone : <<e.to, e.id>> \in asked
    /\ held' = held \ gone
    /\ asked' \subseteq asked
    /\ UNCHANGED <<known, peak>>

(* Everything stamped before the cutoff goes, and nothing else.            *)
Expire(now) ==
    /\ now <= peak
    /\ held' = {e \in held : e.at >= CutoffAt(now)}
    /\ UNCHANGED <<asked, known, peak>>

Restart ==
    /\ held' = {}
    /\ asked' = {}
    /\ UNCHANGED <<known, peak>>

Next ==
    \/ \E now \in Stamps : ClockShows(now)
    \/ \E e \in Envelope : \E dropped \in SUBSET (held \cup {e}) : Accept(e, dropped)
    \/ \E u \in Users : \E dropped \in SUBSET Box(u) : MakeRoom(u, dropped)
    \/ \E u \in Users, ids \in SUBSET Ids : Ask(u, ids)
    \/ \E gone \in SUBSET held : Acknowledge(gone)
    \/ \E now \in Stamps : Expire(now)

Spec == Init /\ [][Next]_mailboxVars

(* The in-memory backend promises the same until the server restarts       *)
(* ("its contents are lost on server restart", store.rs:11).               *)
VolatileSpec == Init /\ [][Next \/ Restart]_mailboxVars
==============================================================================
