-------------------------- MODULE RelayServiceProofs --------------------------
(***************************************************************************)
(* Proofs about RelayService for every number of users, ids, connections,  *)
(* limits, caps and restarts: its types, that the in-memory store keeps    *)
(* the promise of Mailbox, and that no fetch skips an older envelope.      *)
(***************************************************************************)
EXTENDS RelayService, QueuesProofs

(* What handle_connection holds at each of its awaits.                     *)
AckOp == [op: {"ack"}, ids: SUBSET Ids]
FetchOp == [op: {"fetch"}, limit: Limits]
DeliverOp == [op: {"deliver"}, to: Users \cup {NoUser}]
InvalidOp == [op: {"invalid"}]

Dispatched == [pc: {"dispatch"}, by: Users, req: Request]
Admitted == [pc: {"admitted"}, by: Users, req: [op: {"deliver"}, to: Users]]
Reading == [pc: {"read"}, by: Users, req: FetchOp]
Putting == [pc: {"put"}, by: Users, env: Envelope]
Replying == [pc: {"reply"}, by: Users, kind: {"error", "ok", "batch"}, batch: Seq(Envelope)]
Tasks == {Idle} \cup Dispatched \cup Admitted \cup Reading \cup Putting \cup Replying

Types ==
    /\ queue \in [Users -> Seq(Envelope)]
    /\ order \in Seq(Envelope)
    /\ deliveries \in [Users -> Deliveries!Bucket]
    /\ fetches \in [Users -> Fetches!Bucket]
    /\ clock \in Stamps /\ peak \in Stamps /\ sweep \subseteq Stamps
    /\ task \in [Conns -> Tasks]
    /\ got \in [Users -> SUBSET Ids]
    /\ known \subseteq Ids
    /\ handed \subseteq known
    /\ restarts \in 0..MaxRestarts

(* Ids are assigned once, and an envelope's id is new until it is put.     *)
IdsAreFresh ==
    /\ known = IdsOf(order)
    /\ \A i, j \in 1..Len(order) : order[i].id = order[j].id => i = j
    /\ \A c \in Conns : task[c].pc = "put" => task[c].env.id \notin known
    /\ \A c, d \in Conns :
          task[c].pc = "put" /\ task[d].pc = "put" /\ task[c].env.id = task[d].env.id => c = d

(* Nothing carries a reading the clock has not shown.                      *)
ReadingsArePast ==
    /\ clock <= peak
    /\ \A now \in sweep : now <= peak
    /\ \A c \in Conns : task[c].pc = "put" => task[c].env.at <= peak

(* A queue holds its owner's envelopes, in the order they were put.        *)
QueuesAreParts ==
    \A u \in Users : /\ Len(queue[u]) <= Cap
                     /\ PartOf(queue[u], order)
                     /\ \A p \in 1..Len(queue[u]) : queue[u][p].to = u

(* Whoever gets ids has, of what is held, everything older to the same     *)
(* user; o is the order in which envelopes were put.                       *)
NoneSkipped(o, held, ids) ==
    \A i, j \in 1..Len(o) :
        i < j /\ o[j].id \in ids /\ o[i].to = o[j].to /\ o[i] \in held => o[i].id \in ids

NothingOnItsWaySkips ==
    /\ NoneSkipped(order, Held, handed)
    /\ \A c \in Conns : task[c].pc = "reply" =>
          /\ IdsOf(task[c].batch) \subseteq known
          /\ NoneSkipped(order, Held, IdsOf(task[c].batch))

IInv == Types /\ IdsAreFresh /\ ReadingsArePast /\ QueuesAreParts /\ NothingOnItsWaySkips
-------------------------------------------------------------------------------
(* The states of a task are told apart by its pc (service.rs:389-492).     *)
LEMMA TaskShape ==
    ASSUME NEW t \in Tasks
    PROVE  /\ t.pc \in {"idle", "dispatch", "admitted", "read", "put", "reply"}
           /\ t.pc = "idle" => t = Idle
           /\ t.pc = "dispatch" => t \in Dispatched
           /\ t.pc = "admitted" => t \in Admitted
           /\ t.pc = "read" => t \in Reading
           /\ t.pc = "put" => t \in Putting
           /\ t.pc = "reply" => t \in Replying
BY DEF Tasks, Idle, Dispatched, Admitted, Reading, Putting, Replying

(* The requests a client may send are told apart by their variant          *)
(* (message.rs:25-60).                                                     *)
LEMMA RequestShape ==
    ASSUME NEW r \in Request
    PROVE  /\ r.op = "deliver" => r \in DeliverOp
           /\ r.op = "fetch" => r \in FetchOp
           /\ r.op = "ack" => r \in AckOp
           /\ r.op = "invalid" => r \in InvalidOp
BY DEF Request, DeliverOp, FetchOp, AckOp, InvalidOp

(* A limiter's bucket stays a bucket whatever is done to it                *)
(* (service.rs:62-87).                                                     *)
LEMMA DeliveryBuckets ==
    /\ Deliveries!FreshBucket \in Deliveries!Bucket
    /\ \A b \in Deliveries!Bucket : /\ Deliveries!Aged(b) \in Deliveries!Bucket
                                    /\ Deliveries!Checked(b) \in Deliveries!Bucket
<1>1. DeliverMax * Minute \in Nat /\ Minute \in Nat \ {0}
  BY LimitersAreNats
<1>2. Deliveries!FreshBucket \in Deliveries!Bucket
  BY <1>1 DEF Deliveries!FreshBucket, Deliveries!Bucket, Deliveries!Full
<1>3. ASSUME NEW b \in Deliveries!Bucket PROVE Deliveries!Aged(b) \in Deliveries!Bucket
  BY <1>1 DEF Deliveries!Aged, Deliveries!Bucket, Deliveries!Full
<1>4. ASSUME NEW b \in Deliveries!Bucket PROVE Deliveries!Checked(b) \in Deliveries!Bucket
  <2>1. DeliverMax * b.elapsed \in Nat /\ b.tokens \in 0..(DeliverMax * Minute)
    BY LimitersAreNats DEF Deliveries!Bucket, Deliveries!Full
  <2>2. Deliveries!Level(b) \in 0..(DeliverMax * Minute)
    BY <1>1, <2>1 DEF Deliveries!Level, Deliveries!Full
  <2> QED
    BY <1>1, <2>2 DEF Deliveries!Checked, Deliveries!MayTake, Deliveries!Bucket, Deliveries!Full
<1> QED
  BY <1>2, <1>3, <1>4

(* The same for the limiter of fetches.                                    *)
LEMMA FetchBuckets ==
    /\ Fetches!FreshBucket \in Fetches!Bucket
    /\ \A b \in Fetches!Bucket : /\ Fetches!Aged(b) \in Fetches!Bucket
                                 /\ Fetches!Checked(b) \in Fetches!Bucket
<1>1. FetchMax * Minute \in Nat /\ Minute \in Nat \ {0}
  BY LimitersAreNats
<1>2. Fetches!FreshBucket \in Fetches!Bucket
  BY <1>1 DEF Fetches!FreshBucket, Fetches!Bucket, Fetches!Full
<1>3. ASSUME NEW b \in Fetches!Bucket PROVE Fetches!Aged(b) \in Fetches!Bucket
  BY <1>1 DEF Fetches!Aged, Fetches!Bucket, Fetches!Full
<1>4. ASSUME NEW b \in Fetches!Bucket PROVE Fetches!Checked(b) \in Fetches!Bucket
  <2>1. FetchMax * b.elapsed \in Nat /\ b.tokens \in 0..(FetchMax * Minute)
    BY LimitersAreNats DEF Fetches!Bucket, Fetches!Full
  <2>2. Fetches!Level(b) \in 0..(FetchMax * Minute)
    BY <1>1, <2>1 DEF Fetches!Level, Fetches!Full
  <2> QED
    BY <1>1, <2>2 DEF Fetches!Checked, Fetches!MayTake, Fetches!Bucket, Fetches!Full
<1> QED
  BY <1>2, <1>3, <1>4

(* pop_front while over the cap (store.rs:142-147) leaves the newest, as   *)
(* many as the cap allows.                                                 *)
LEMMA KeptIsPart ==
    ASSUME NEW S, NEW s \in Seq(S)
    PROVE  /\ Kept(s) \in Seq(S)
           /\ Len(Kept(s)) <= Cap
           /\ PartOf(Kept(s), s)
           /\ Len(s) <= Cap => Kept(s) = s
           /\ Len(s) > Cap => Len(Kept(s)) = Cap
<1>1. Len(s) \in Nat /\ Cap \in Nat
  BY LenProperties, CapIsNat
<1>2. CASE Len(s) > Cap
  <2>1. Len(s) - Cap + 1 \in Nat \ {0} /\ Len(s) \in 0..Len(s) /\ Kept(s) = SubSeq(s, Len(s) - Cap + 1, Len(s))
    BY <1>1, <1>2 DEF Kept
  <2>2. /\ Kept(s) \in Seq(S) /\ PartOf(Kept(s), s)
        /\ Len(Kept(s)) = IF Len(s) - Cap + 1 <= Len(s) THEN Len(s) - (Len(s) - Cap + 1) + 1 ELSE 0
    BY <2>1, StretchIsPart
  <2> QED
    BY <1>1, <1>2, <2>2
<1>3. CASE ~(Len(s) > Cap)
  <2>1. Kept(s) = s /\ Len(s) <= Cap
    BY <1>1, <1>3 DEF Kept
  <2>2. PartOf(s, s)
    BY DEF PartOf
  <2> QED
    BY <1>1, <2>1, <2>2
<1> QED
  BY <1>2, <1>3

(* take(limit) (service.rs:443-455) gives the oldest, without a gap.       *)
LEMMA OldestIsPrefix ==
    ASSUME NEW S, NEW s \in Seq(S), NEW n \in Nat
    PROVE  /\ Oldest(s, n) \in Seq(S)
           /\ Len(Oldest(s, n)) <= Len(s)
           /\ \A p \in 1..Len(Oldest(s, n)) : Oldest(s, n)[p] = s[p]
<1>1. Len(s) \in Nat
  BY LenProperties
<1>2. CASE Len(s) > n
  <2>1. n \in 0..Len(s) /\ 1 \in Nat \ {0} /\ Oldest(s, n) = SubSeq(s, 1, n)
    BY <1>1, <1>2 DEF Oldest
  <2> DEFINE r == SubSeq(s, 1, n)
  <2>2. /\ r \in Seq(S)
        /\ Len(r) = IF 1 <= n THEN n - 1 + 1 ELSE 0
        /\ \A p \in 1..Len(r) : r[p] = s[1 + p - 1]
    BY <2>1, StretchIsPart
  <2> HIDE DEF r
  <2>3. \A p \in 1..Len(r) : 1 + p - 1 = p
    BY <2>2
  <2>4. Oldest(s, n) = r
    BY <2>1 DEF r
  <2> QED
    BY <1>1, <1>2, <2>2, <2>3, <2>4
<1>3. CASE ~(Len(s) > n)
  BY <1>1, <1>3 DEF Oldest
<1> QED
  BY <1>2, <1>3

(* A fetch asks for some envelopes, whatever its limit (service.rs:443).   *)
LEMMA BatchSizeIsNat == ASSUME NEW n \in Limits PROVE BatchSize(n) \in Nat
BY LimitsAreNats DEF BatchSize
-------------------------------------------------------------------------------
\* Held, for any queues.
HeldIn(q) == UNION {Contents(q[u]) : u \in Users}

(* What is held is what stands in some queue.                              *)
LEMMA HeldMembers ==
    ASSUME NEW q \in [Users -> Seq(Envelope)]
    PROVE  \A e : e \in HeldIn(q) <=> \E u \in Users : \E p \in 1..Len(q[u]) : q[u][p] = e
<1>1. \A u \in Users : Contents(q[u]) = {q[u][p] : p \in 1..Len(q[u])}
  <2> TAKE u \in Users
  <2>1. q[u] \in Seq(Envelope)
    OBVIOUS
  <2> QED
    BY <2>1, LenProperties DEF Contents
<1> QED
  BY <1>1 DEF HeldIn

(* What is held, before and after a step.                                  *)
LEMMA HeldAre ==
    ASSUME queue \in [Users -> Seq(Envelope)], queue' \in [Users -> Seq(Envelope)]
    PROVE  /\ \A x : x \in Held <=> \E u \in Users : \E p \in 1..Len(queue[u]) : queue[u][p] = x
           /\ \A x : x \in Held' <=> \E u \in Users : \E p \in 1..Len(queue'[u]) : queue'[u][p] = x
<1>1. Held = HeldIn(queue) /\ Held' = HeldIn(queue')
  BY DEF Held, HeldIn
<1> HIDE DEF Held
<1> QED
  BY <1>1, HeldMembers

(* The ids of a queue are the ids of its entries.                          *)
LEMMA IdsMembers ==
    ASSUME NEW s \in Seq(Envelope)
    PROVE  /\ \A id : id \in IdsOf(s) <=> \E p \in 1..Len(s) : s[p].id = id
           /\ IdsOf(s) \subseteq Ids
<1>1. DOMAIN s = 1..Len(s)
  BY LenProperties
<1>2. \A p \in 1..Len(s) : s[p] \in Envelope
  BY ElementOfSeq
<1> QED
  BY <1>1, <1>2 DEF IdsOf, Envelope

(* An append adds one id (store.rs:140).                                   *)
LEMMA IdsAfterAppend ==
    ASSUME NEW s \in Seq(Envelope), NEW e \in Envelope
    PROVE  IdsOf(Append(s, e)) = IdsOf(s) \cup {e.id}
<1> DEFINE t == Append(s, e)
<1>1. /\ t \in Seq(Envelope) /\ Len(s) \in Nat /\ Len(t) = Len(s) + 1 /\ t[Len(s) + 1] = e
      /\ \A i \in 1..Len(s) : t[i] = s[i]
  BY AppendProperties, LenProperties
<1> HIDE DEF t
<1>2. \A i \in 1..Len(t) : i \in 1..Len(s) \/ i = Len(s) + 1
  BY <1>1
<1>3. Len(s) + 1 \in 1..Len(t) /\ \A i \in 1..Len(s) : i \in 1..Len(t)
  BY <1>1
<1>4. \A id : id \in IdsOf(t) <=> id \in IdsOf(s) \/ id = e.id
  BY <1>1, <1>2, <1>3, IdsMembers
<1> QED
  BY <1>4 DEF t

(* Fewer envelopes held, nothing more to skip (store.rs:171-200).          *)
LEMMA SkipsNothingFromLess ==
    ASSUME NEW o, NEW held, NEW less, less \subseteq held, NEW ids, NoneSkipped(o, held, ids)
    PROVE  NoneSkipped(o, less, ids)
BY DEF NoneSkipped

(* What two answers bring together skips nothing if neither does.          *)
LEMMA SkipsNothingTogether ==
    ASSUME NEW o, NEW held, NEW ids, NEW more,
           NoneSkipped(o, held, ids), NoneSkipped(o, held, more)
    PROVE  NoneSkipped(o, held, ids \cup more)
BY DEF NoneSkipped

(* A new envelope is behind all others, so that nobody has skipped it      *)
(* (store.rs:140).                                                         *)
LEMMA SkipsNothingNew ==
    ASSUME NEW o \in Seq(Envelope), NEW e \in Envelope, e.id \notin IdsOf(o),
           NEW held, NEW held2, held2 \subseteq held \cup {e},
           NEW ids, ids \subseteq IdsOf(o), NoneSkipped(o, held, ids)
    PROVE  NoneSkipped(Append(o, e), held2, ids)
<1> DEFINE t == Append(o, e)
<1>1. /\ t \in Seq(Envelope) /\ Len(o) \in Nat /\ Len(t) = Len(o) + 1 /\ t[Len(o) + 1] = e
      /\ \A i \in 1..Len(o) : t[i] = o[i]
  BY AppendProperties, LenProperties
<1> HIDE DEF t
<1>2. SUFFICES ASSUME NEW i \in 1..Len(t), NEW j \in 1..Len(t), i < j, t[j].id \in ids,
                      t[i].to = t[j].to, t[i] \in held2
               PROVE  t[i].id \in ids
  BY DEF NoneSkipped, t
<1>3. j # Len(o) + 1
  BY <1>1, <1>2
<1>4. i \in 1..Len(o) /\ j \in 1..Len(o)
  BY <1>1, <1>2, <1>3
<1>5. o[i] # e
  BY <1>4, IdsMembers
<1>6. o[i] \in held
  BY <1>1, <1>2, <1>4, <1>5
<1> QED
  BY <1>1, <1>2, <1>4, <1>6 DEF NoneSkipped

(* The oldest of a queue, however many, skip nothing (service.rs:443-455). *)
LEMMA OldestSkipNothing ==
    ASSUME Types, IdsAreFresh, QueuesAreParts, NEW u \in Users, NEW n \in Nat
    PROVE  /\ Oldest(queue[u], n) \in Seq(Envelope)
           /\ IdsOf(Oldest(queue[u], n)) \subseteq known
           /\ NoneSkipped(order, Held, IdsOf(Oldest(queue[u], n)))
<1> DEFINE q == queue[u]
           r == Oldest(queue[u], n)
<1>1. q \in Seq(Envelope) /\ order \in Seq(Envelope) /\ PartOf(q, order)
  BY DEF Types, QueuesAreParts
<1>2. /\ r \in Seq(Envelope) /\ Len(r) \in Nat /\ Len(r) <= Len(q) /\ Len(q) \in Nat
      /\ \A p \in 1..Len(r) : r[p] = q[p]
  BY <1>1, OldestIsPrefix, LenProperties
<1> HIDE DEF r
<1>3. \A p \in 1..Len(r) : p \in 1..Len(q)
  BY <1>2
<1>4. NoneTwice(order)
  BY DEF IdsAreFresh, NoneTwice
<1>5. IdsOf(r) \subseteq known
  <2> SUFFICES ASSUME NEW id \in IdsOf(r) PROVE id \in known
    OBVIOUS
  <2>1. PICK p \in 1..Len(r) : r[p].id = id
    BY <1>2, IdsMembers
  <2>2. PICK i \in 1..Len(order) : order[i] = q[p]
    BY <1>1, <1>3 DEF PartOf
  <2> QED
    BY <1>1, <1>2, <2>1, <2>2, IdsMembers DEF IdsAreFresh
<1>6. NoneSkipped(order, Held, IdsOf(r))
  <2> SUFFICES ASSUME NEW i \in 1..Len(order), NEW j \in 1..Len(order), i < j,
                      order[j].id \in IdsOf(r), order[i].to = order[j].to, order[i] \in Held
               PROVE  order[i].id \in IdsOf(r)
    BY DEF NoneSkipped
  <2>1. PICK p \in 1..Len(r) : r[p].id = order[j].id
    BY <1>2, IdsMembers
  <2>2. PICK k \in 1..Len(order) : order[k] = q[p]
    BY <1>1, <1>3 DEF PartOf
  <2>3. k = j
    BY <1>2, <2>1, <2>2 DEF IdsAreFresh
  <2>4. order[j] = q[p] /\ order[j].to = u
    BY <1>3, <2>2, <2>3 DEF QueuesAreParts
  <2>5. PICK w \in Users : \E m \in 1..Len(queue[w]) : queue[w][m] = order[i]
    BY HeldMembers DEF Held, HeldIn, Types
  <2>6. PICK m \in 1..Len(queue[w]) : queue[w][m] = order[i]
    BY <2>5
  <2>7. w = u
    BY <2>4, <2>6 DEF QueuesAreParts
  <2>8. m < p
    BY <1>1, <1>3, <1>4, <2>4, <2>6, <2>7, PartKeepsOrder
  <2>9. m \in 1..Len(r)
    BY <1>2, <2>7, <2>8
  <2> QED
    BY <1>2, <2>6, <2>7, <2>9, IdsMembers
<1> QED
  BY <1>2, <1>5, <1>6 DEF r
-------------------------------------------------------------------------------
(* A server that has just started has nothing and owes nothing.            *)
LEMMA InitEstablishes == Init => IInv
<1> SUFFICES ASSUME Init PROVE IInv
  OBVIOUS
<1> USE DEF Init
<1>1. <<>> \in Seq(Envelope) /\ Len(<<>>) = 0
  BY EmptySeq
<1>2. Types
  BY <1>1, DeliveryBuckets, FetchBuckets, StampsAreNats, MaxRestartsIsNat DEF Types, Tasks
<1>3. \A c \in Conns : task[c].pc = "idle"
  BY DEF Idle
<1>4. IdsOf(order) = {}
  <2>1. order \in Seq(Envelope) /\ 1..Len(order) = {}
    BY <1>1
  <2> QED
    BY <2>1, IdsMembers
<1>5. IdsAreFresh
  BY <1>1, <1>3, <1>4 DEF IdsAreFresh
<1>6. ReadingsArePast
  BY <1>3 DEF ReadingsArePast
<1>7. QueuesAreParts
  BY <1>1, CapIsNat DEF QueuesAreParts, PartOf
<1>8. NothingOnItsWaySkips
  BY <1>1, <1>3 DEF NothingOnItsWaySkips, NoneSkipped
<1> QED
  BY <1>2, <1>5, <1>6, <1>7, <1>8 DEF IInv

(* What a task that is served comes to hold (service.rs:389-492).          *)
LEMMA TaskMoves ==
    ASSUME Types, NEW c \in Conns, NEW t \in Tasks, Moves(c, t)
    PROVE  /\ task' \in [Conns -> Tasks]
           /\ task'[c] = t
           /\ \A d \in Conns : d # c => task'[d] = task[d]
BY DEF Types, Moves

(* An answer without envelopes is an answer.                               *)
LEMMA EmptyAnswer ==
    ASSUME Types, NEW c \in Conns, task[c].by \in Users, NEW kind \in {"error", "ok"},
           Answer(c, kind, <<>>)
    PROVE  \E t \in Replying : t.batch = <<>> /\ Moves(c, t)
<1>1. <<>> \in Seq(Envelope)
  BY EmptySeq
<1> QED
  BY <1>1 DEF Answer, Replying

\* Everything but task[c], the limiters, got and what has been handed over.
Rest == <<queue, clock, sweep, known, peak, order, restarts>>

(* A task that moves on without touching the store and without coming to   *)
(* hold a new envelope.                                                    *)
LEMMA QuietMove ==
    ASSUME IInv, NEW c \in Conns, NEW t \in Tasks, Moves(c, t), UNCHANGED Rest,
           t.pc # "put",
           t.pc = "reply" => /\ IdsOf(t.batch) \subseteq known
                             /\ NoneSkipped(order, Held, IdsOf(t.batch)),
           deliveries' \in [Users -> Deliveries!Bucket], fetches' \in [Users -> Fetches!Bucket],
           got' \in [Users -> SUBSET Ids],
           handed' \subseteq known, NoneSkipped(order, Held, handed')
    PROVE  IInv'
<1> USE DEF IInv, Rest
<1>1. /\ task' \in [Conns -> Tasks] /\ task'[c] = t
      /\ \A d \in Conns : d # c => task'[d] = task[d]
  BY TaskMoves
<1>2. Types'
  BY <1>1 DEF Types
<1>3. IdsAreFresh'
  BY <1>1 DEF IdsAreFresh, IdsOf
<1>4. ReadingsArePast'
  BY <1>1 DEF ReadingsArePast
<1>5. QueuesAreParts'
  BY DEF QueuesAreParts
<1>6. Held' = Held
  BY DEF Held
<1>7. NothingOnItsWaySkips'
  BY <1>1, <1>6 DEF NothingOnItsWaySkips
<1> QED
  BY <1>2, <1>3, <1>4, <1>5, <1>7

(* The requests, the limiters and the answers: everything a task does      *)
(* outside the store (service.rs:389-492).                                 *)
LEMMA OutsideTheStore ==
    ASSUME IInv, NEW c \in Conns,
           \/ \E u \in Users : (\E r \in Request : Open(c, u, r)) \/ AckReceived(c, u)
           \/ Invalid(c) \/ LimitDeliver(c) \/ LimitFetch(c) \/ ReadPending(c)
           \/ Reply(c) \/ ReplyTooLarge(c) \/ ReplyLost(c)
    PROVE  IInv'
<1> USE DEF limiters, history, Rest
<1>0. /\ Types /\ task[c] \in Tasks
      /\ handed \subseteq known /\ NoneSkipped(order, Held, handed)
  BY DEF IInv, Types, NothingOnItsWaySkips
<1>1. <<>> \in Seq(Envelope) /\ IdsOf(<<>>) = {}
  <2>1. <<>> \in Seq(Envelope) /\ 1..Len(<<>>) = {}
    BY EmptySeq
  <2> QED
    BY <2>1, IdsMembers
<1>2. NoneSkipped(order, Held, {})
  BY DEF NoneSkipped
<1>3. Idle \in Tasks /\ Idle.pc = "idle"
  BY DEF Idle, Tasks
<1>4. ASSUME NEW kind \in {"error", "ok"}, Answer(c, kind, <<>>), task[c].by \in Users, UNCHANGED Rest,
             deliveries' \in [Users -> Deliveries!Bucket], fetches' \in [Users -> Fetches!Bucket],
             UNCHANGED <<got, handed>>
      PROVE  IInv'
  <2>1. PICK t \in Replying : t.batch = <<>> /\ Moves(c, t)
    BY <1>0, <1>4, EmptyAnswer
  <2>2. t \in Tasks /\ t.pc # "put"
    BY DEF Tasks, Replying
  <2>3. IdsOf(t.batch) \subseteq known /\ NoneSkipped(order, Held, IdsOf(t.batch))
    BY <1>1, <1>2, <2>1
  <2> QED
    BY <1>0, <1>4, <2>1, <2>2, <2>3, QuietMove DEF Types
<1>5. ASSUME NEW u \in Users, NEW r \in Request, Open(c, u, r) PROVE IInv'
  <2> DEFINE t == [pc |-> "dispatch", by |-> u, req |-> r]
  <2>1. t \in Tasks /\ t.pc = "dispatch"
    BY DEF Tasks, Dispatched
  <2>2. Moves(c, t) /\ UNCHANGED <<limiters, got, handed, Rest>>
    BY <1>5 DEF Open
  <2> HIDE DEF t
  <2> QED
    BY <1>0, <2>1, <2>2, QuietMove DEF Types
<1>6. ASSUME NEW u \in Users, AckReceived(c, u) PROVE IInv'
  <2> DEFINE t == [pc |-> "dispatch", by |-> u, req |-> [op |-> "ack", ids |-> got[u]]]
  <2>1. got[u] \in SUBSET Ids
    BY <1>0 DEF Types
  <2>2. t \in Tasks /\ t.pc = "dispatch"
    BY <2>1 DEF Tasks, Dispatched, Request
  <2>3. Moves(c, t) /\ UNCHANGED <<limiters, handed, Rest>> /\ got' = [got EXCEPT ![u] = {}]
    BY <1>6 DEF AckReceived
  <2> HIDE DEF t
  <2>4. got' \in [Users -> SUBSET Ids]
    BY <1>0, <2>3 DEF Types
  <2> QED
    BY <1>0, <2>2, <2>3, <2>4, QuietMove DEF Types
<1>7. ASSUME Invalid(c) PROVE IInv'
  <2>1. task[c].by \in Users /\ Answer(c, "error", <<>>) /\ UNCHANGED <<limiters, got, handed, Rest>>
    BY <1>0, <1>7, TaskShape DEF Invalid, Dispatching, Dispatched
  <2> QED
    BY <1>0, <1>4, <2>1 DEF Types
<1>8. ASSUME LimitDeliver(c) PROVE IInv'
  <2> DEFINE b == deliveries[task[c].by]
  <2>1. /\ task[c] \in Dispatched /\ task[c].req.op = "deliver"
        /\ task[c].by \in Users /\ task[c].req \in DeliverOp
    BY <1>0, <1>8, TaskShape, RequestShape DEF LimitDeliver, Dispatching, Dispatched
  <2>2. /\ deliveries' = [deliveries EXCEPT ![task[c].by] = Deliveries!Checked(b)]
        /\ UNCHANGED <<fetches, got, handed, Rest>>
    BY <1>8 DEF LimitDeliver
  <2>3. deliveries' \in [Users -> Deliveries!Bucket]
    BY <1>0, <2>1, <2>2, DeliveryBuckets DEF Types
  <2>4. CASE Answer(c, "error", <<>>)
    BY <1>0, <1>4, <2>1, <2>2, <2>3, <2>4 DEF Types
  <2>5. CASE task[c].req.to # NoUser /\ Moves(c, [task[c] EXCEPT !.pc = "admitted"])
    <3> DEFINE t == [task[c] EXCEPT !.pc = "admitted"]
    <3>1. t \in Admitted
      BY <2>1, <2>5 DEF Dispatched, DeliverOp, Admitted
    <3>2. t \in Tasks /\ t.pc = "admitted"
      BY <3>1 DEF Tasks, Admitted
    <3> HIDE DEF t
    <3>3. Moves(c, t)
      BY <2>5 DEF t
    <3> QED
      BY <1>0, <2>2, <2>3, <3>2, <3>3, QuietMove DEF Types
  <2> QED
    BY <1>8, <2>4, <2>5 DEF LimitDeliver
<1>9. ASSUME LimitFetch(c) PROVE IInv'
  <2> DEFINE b == fetches[task[c].by]
  <2>1. /\ task[c] \in Dispatched /\ task[c].req.op = "fetch"
        /\ task[c].by \in Users /\ task[c].req \in FetchOp
    BY <1>0, <1>9, TaskShape, RequestShape DEF LimitFetch, Dispatching, Dispatched
  <2>2. /\ fetches' = [fetches EXCEPT ![task[c].by] = Fetches!Checked(b)]
        /\ UNCHANGED <<deliveries, got, handed, Rest>>
    BY <1>9 DEF LimitFetch
  <2>3. fetches' \in [Users -> Fetches!Bucket]
    BY <1>0, <2>1, <2>2, FetchBuckets DEF Types
  <2>4. CASE Answer(c, "error", <<>>)
    BY <1>0, <1>4, <2>1, <2>2, <2>3, <2>4 DEF Types
  <2>5. CASE Moves(c, [task[c] EXCEPT !.pc = "read"])
    <3> DEFINE t == [task[c] EXCEPT !.pc = "read"]
    <3>1. t \in Reading
      BY <2>1 DEF Dispatched, Reading
    <3>2. t \in Tasks /\ t.pc = "read"
      BY <3>1 DEF Tasks, Reading
    <3> HIDE DEF t
    <3>3. Moves(c, t)
      BY <2>5 DEF t
    <3> QED
      BY <1>0, <2>2, <2>3, <3>2, <3>3, QuietMove DEF Types
  <2> QED
    BY <1>9, <2>4, <2>5 DEF LimitFetch
<1>10. ASSUME ReadPending(c) PROVE IInv'
  <2>1. task[c] \in Reading /\ task[c].by \in Users /\ task[c].req.limit \in Limits
    BY <1>0, <1>10, TaskShape DEF ReadPending, Reading, FetchOp
  <2> DEFINE r == Oldest(queue[task[c].by], BatchSize(task[c].req.limit))
             t == [pc |-> "reply", by |-> task[c].by, kind |-> "batch", batch |-> r]
  <2>2. /\ r \in Seq(Envelope) /\ IdsOf(r) \subseteq known /\ NoneSkipped(order, Held, IdsOf(r))
    BY <2>1, BatchSizeIsNat, OldestSkipNothing DEF IInv
  <2>3. t \in Tasks /\ t.pc = "reply" /\ t.batch = r
    BY <2>1, <2>2 DEF Tasks, Replying
  <2>4. Moves(c, t) /\ UNCHANGED <<limiters, got, handed, Rest>>
    BY <1>10 DEF ReadPending, Answer
  <2> HIDE DEF t, r
  <2> QED
    BY <1>0, <2>2, <2>3, <2>4, QuietMove DEF Types
<1>11. ASSUME Reply(c) PROVE IInv'
  <2>1. /\ task[c] \in Replying /\ task[c].by \in Users /\ task[c].batch \in Seq(Envelope)
        /\ task[c].pc = "reply"
    BY <1>0, <1>11, TaskShape DEF Reply, Replying
  <2>2. /\ Moves(c, Idle) /\ UNCHANGED <<limiters, Rest>>
        /\ got' = [got EXCEPT ![task[c].by] = @ \cup IdsOf(task[c].batch)]
        /\ handed' = handed \cup IdsOf(task[c].batch)
    BY <1>11 DEF Reply
  <2>3. /\ IdsOf(task[c].batch) \subseteq known
        /\ NoneSkipped(order, Held, IdsOf(task[c].batch))
    BY <2>1 DEF IInv, NothingOnItsWaySkips
  <2>4. got' \in [Users -> SUBSET Ids]
    BY <1>0, <2>1, <2>2, IdsMembers DEF Types
  <2>5. handed' \subseteq known /\ NoneSkipped(order, Held, handed')
    BY <1>0, <2>2, <2>3, SkipsNothingTogether
  <2> QED
    BY <1>0, <1>3, <2>2, <2>4, <2>5, QuietMove DEF Types
<1>12. ASSUME ReplyTooLarge(c) \/ ReplyLost(c) PROVE IInv'
  <2>1. Moves(c, Idle) /\ UNCHANGED <<limiters, got, handed, Rest>>
    BY <1>12 DEF ReplyTooLarge, ReplyLost
  <2> QED
    BY <1>0, <1>3, <2>1, QuietMove DEF Types
<1> QED
  BY <1>5, <1>6, <1>7, <1>8, <1>9, <1>10, <1>11, <1>12
-------------------------------------------------------------------------------
(* A stamped envelope is a new one (service.rs:421-432).                   *)
LEMMA StampStep == ASSUME IInv, NEW c \in Conns, NEW id \in Ids, Stamp(c, id) PROVE IInv'
<1> USE DEF limiters, history, Rest
<1>0. /\ Types /\ task[c] \in Admitted /\ task[c].by \in Users /\ task[c].req.to \in Users
  BY TaskShape DEF IInv, Types, Stamp, Admitted
<1> DEFINE e == [id |-> id, to |-> task[c].req.to, at |-> clock]
           t == [pc |-> "put", by |-> task[c].by, env |-> e]
<1>1. e \in Envelope /\ t \in Tasks /\ t.pc = "put" /\ t.env = e
  BY <1>0 DEF Types, Envelope, Tasks, Putting
<1>2. Moves(c, t) /\ UNCHANGED <<limiters, got, handed, Rest>>
  BY DEF Stamp
<1>3. /\ task' \in [Conns -> Tasks] /\ task'[c] = t
      /\ \A d \in Conns : d # c => task'[d] = task[d]
  BY <1>0, <1>1, <1>2, TaskMoves
<1>4. e.id = id /\ e.at = clock /\ id \notin known
      /\ \A d \in Conns : task[d].pc = "put" => task[d].env.id # id
  BY DEF Stamp
<1> HIDE DEF t, e
<1>5. Types'
  BY <1>0, <1>2, <1>3 DEF Types
<1>6. IdsAreFresh'
  BY <1>1, <1>2, <1>3, <1>4 DEF IInv, IdsAreFresh, IdsOf
<1>7. ReadingsArePast'
  BY <1>1, <1>2, <1>3, <1>4 DEF IInv, ReadingsArePast
<1>8. QueuesAreParts'
  BY <1>2 DEF IInv, QueuesAreParts
<1>9. Held' = Held
  BY <1>2 DEF Held
<1>10. NothingOnItsWaySkips'
  BY <1>1, <1>2, <1>3, <1>9 DEF IInv, NothingOnItsWaySkips
<1> QED
  BY <1>5, <1>6, <1>7, <1>8, <1>10 DEF IInv

(* What put does to the queues (store.rs:136-149).                         *)
LEMMA PutQueues ==
    ASSUME IInv, NEW c \in Conns, Put(c)
    PROVE  /\ task[c] \in Putting /\ task[c].env \in Envelope
           /\ queue' \in [Users -> Seq(Envelope)]
           /\ order' \in Seq(Envelope) /\ order' = Append(order, task[c].env)
           /\ \A u \in Users : u # task[c].env.to => queue'[u] = queue[u]
           /\ queue'[task[c].env.to] = Kept(Append(queue[task[c].env.to], task[c].env))
           /\ PartOf(queue'[task[c].env.to], Append(queue[task[c].env.to], task[c].env))
           /\ \A u \in Users : PartOf(queue'[u], order')
           /\ Held' \subseteq Held \cup {task[c].env}
<1> DEFINE e == task[c].env
           q == queue[e.to]
           s == Append(q, e)
<1>1. task[c] \in Putting /\ e \in Envelope /\ e.to \in Users
  BY TaskShape DEF IInv, Types, Put, Putting, Envelope
<1>2. queue \in [Users -> Seq(Envelope)] /\ order \in Seq(Envelope)
  BY DEF IInv, Types
<1>3. queue' = [queue EXCEPT ![e.to] = Kept(s)] /\ order' = Append(order, e)
  BY DEF Put
<1>4. /\ s \in Seq(Envelope) /\ Len(s) = Len(q) + 1 /\ s[Len(q) + 1] = e
      /\ \A p \in 1..Len(q) : s[p] = q[p]
      /\ Len(q) \in Nat
  <2>1. q \in Seq(Envelope)
    BY <1>1, <1>2
  <2> HIDE DEF q, e
  <2> QED
    BY <1>1, <2>1, AppendProperties, LenProperties
<1>5. Kept(s) \in Seq(Envelope) /\ PartOf(Kept(s), s)
  BY <1>4, KeptIsPart
<1>6. order' \in Seq(Envelope)
  BY <1>1, <1>2, <1>3, AppendProperties
<1>7. \A u \in Users : PartOf(queue[u], order') /\ PartOf(Append(queue[u], e), order')
  <2> TAKE u \in Users
  <2>1. queue[u] \in Seq(Envelope) /\ PartOf(queue[u], order)
    BY <1>2 DEF IInv, QueuesAreParts
  <2> QED
    BY <1>1, <1>2, <1>3, <2>1, AppendKeepsParts
<1>8. /\ queue' \in [Users -> Seq(Envelope)] /\ queue'[e.to] = Kept(s)
      /\ \A u \in Users : u # e.to => queue'[u] = queue[u]
  BY <1>1, <1>2, <1>3, <1>5
<1>9. \A u \in Users : PartOf(queue'[u], order')
  <2>1. PartOf(Kept(s), order')
    BY <1>1, <1>5, <1>7, PartOfPart
  <2> QED
    BY <1>7, <1>8, <2>1
<1>10. ASSUME NEW x \in Held', x # e PROVE x \in Held
  <2>1. PICK u \in Users : \E p \in 1..Len(queue'[u]) : queue'[u][p] = x
    BY <1>8, <1>10, HeldMembers DEF Held, HeldIn
  <2>2. PICK p \in 1..Len(queue'[u]) : queue'[u][p] = x
    BY <2>1
  <2>3. CASE u = e.to
    <3>1. PartOf(queue'[u], s)
      BY <1>5, <1>8, <2>3
    <3> HIDE DEF s, q, e
    <3>2. PICK k \in 1..Len(s) : s[k] = x
      BY <2>2, <3>1 DEF PartOf
    <3>3. k \in 1..Len(q) /\ q[k] = x
      BY <1>4, <1>10, <3>2
    <3> QED
      BY <1>1, <1>2, <3>3, HeldMembers DEF Held, HeldIn, q
  <2>4. CASE u # e.to
    BY <1>2, <1>8, <2>2, <2>4, HeldMembers DEF Held, HeldIn
  <2> QED
    BY <2>3, <2>4
<1> QED
  BY <1>1, <1>3, <1>5, <1>6, <1>8, <1>9, <1>10

(* put: the newest of a queue, each still in the order it was put.         *)
LEMMA PutStep == ASSUME IInv, NEW c \in Conns, Put(c) PROVE IInv'
<1> USE DEF limiters, history
<1> DEFINE e == task[c].env
<1>0. Types /\ IdsAreFresh /\ ReadingsArePast /\ QueuesAreParts /\ NothingOnItsWaySkips
  BY DEF IInv
<1>1. /\ task[c] \in Putting /\ e \in Envelope /\ e.to \in Users /\ e.id \in Ids
      /\ task[c].by \in Users /\ task[c].pc = "put"
  BY PutQueues DEF Put, Putting, Envelope
<1>2. /\ UNCHANGED <<limiters, clock, sweep, got, peak, handed, restarts>>
      /\ known' = known \cup {e.id} /\ Answer(c, "ok", <<>>)
  BY DEF Put
<1>3. PICK t \in Replying : t.batch = <<>> /\ Moves(c, t)
  BY <1>0, <1>1, <1>2, EmptyAnswer
<1>4. t \in Tasks /\ t.pc = "reply"
  BY DEF Tasks, Replying
<1>5. /\ task' \in [Conns -> Tasks] /\ task'[c] = t
      /\ \A d \in Conns : d # c => task'[d] = task[d]
  BY <1>0, <1>3, <1>4, TaskMoves
<1>6. e.id \notin known /\ known = IdsOf(order) /\ order \in Seq(Envelope)
  BY <1>0, <1>1 DEF IdsAreFresh, Types
<1>7. Types'
  BY <1>0, <1>1, <1>2, <1>5, PutQueues DEF Types
<1>8. IdsAreFresh'
  <2>1. known' = IdsOf(order')
    BY <1>1, <1>2, <1>6, IdsAfterAppend, PutQueues
  <2>2. ASSUME NEW i \in 1..Len(order'), NEW j \in 1..Len(order'), order'[i].id = order'[j].id
        PROVE  i = j
    <3>1. /\ Len(order) \in Nat /\ Len(order') = Len(order) + 1 /\ order'[Len(order) + 1] = e
          /\ \A k \in 1..Len(order) : order'[k] = order[k] /\ order[k].id \in known
      BY <1>1, <1>6, PutQueues, AppendProperties, LenProperties, IdsMembers
    <3>2. (i \in 1..Len(order) \/ i = Len(order) + 1) /\ (j \in 1..Len(order) \/ j = Len(order) + 1)
      BY <3>1
    <3>3. CASE i \in 1..Len(order) /\ j \in 1..Len(order)
      BY <1>0, <2>2, <3>1, <3>3 DEF IdsAreFresh
    <3>4. CASE i = Len(order) + 1 \/ j = Len(order) + 1
      BY <1>6, <2>2, <3>1, <3>2, <3>4
    <3> QED
      BY <3>2, <3>3, <3>4
  <2>3. \A d \in Conns : task'[d].pc = "put" => d # c /\ task'[d] = task[d] /\ task[d].env.id # e.id
    BY <1>0, <1>1, <1>4, <1>5 DEF IdsAreFresh
  <2>4. \A d \in Conns : task'[d].pc = "put" => task'[d].env.id \notin known'
    BY <1>0, <1>2, <2>3 DEF IdsAreFresh
  <2>5. \A a, b \in Conns :
          task'[a].pc = "put" /\ task'[b].pc = "put" /\ task'[a].env.id = task'[b].env.id => a = b
    BY <1>0, <2>3 DEF IdsAreFresh
  <2> QED
    BY <2>1, <2>2, <2>4, <2>5 DEF IdsAreFresh
<1>9. ReadingsArePast'
  BY <1>0, <1>2, <1>4, <1>5 DEF ReadingsArePast
<1>10. QueuesAreParts'
  <2> SUFFICES ASSUME NEW u \in Users
               PROVE  Len(queue'[u]) <= Cap /\ \A p \in 1..Len(queue'[u]) : queue'[u][p].to = u
    BY PutQueues DEF QueuesAreParts
  <2>1. CASE u # e.to
    BY <1>0, <2>1, PutQueues DEF QueuesAreParts
  <2>2. CASE u = e.to
    <3> DEFINE s == Append(queue[u], e)
    <3>1. queue[u] \in Seq(Envelope)
      BY <1>0 DEF Types
    <3>2. /\ s \in Seq(Envelope) /\ Len(s) = Len(queue[u]) + 1 /\ s[Len(queue[u]) + 1] = e
          /\ \A p \in 1..Len(queue[u]) : s[p] = queue[u][p]
          /\ Len(queue[u]) \in Nat
      BY <1>1, <3>1, AppendProperties, LenProperties
    <3>3. queue'[u] = Kept(s) /\ PartOf(queue'[u], s)
      BY <2>2, PutQueues
    <3>4. Len(queue'[u]) <= Cap
      BY <3>2, <3>3, KeptIsPart
    <3> HIDE DEF s
    <3>5. \A k \in 1..Len(s) : s[k].to = u
      <4> TAKE k \in 1..Len(s)
      <4>1. k \in 1..Len(queue[u]) \/ k = Len(queue[u]) + 1
        BY <3>2
      <4> QED
        BY <1>0, <2>2, <3>2, <4>1 DEF QueuesAreParts
    <3>6. \A p \in 1..Len(queue'[u]) : queue'[u][p].to = u
      BY <3>3, <3>5 DEF PartOf
    <3> QED
      BY <3>4, <3>6
  <2> QED
    BY <2>1, <2>2
<1>11. NothingOnItsWaySkips'
  <2>1. \A ids : ids \subseteq known /\ NoneSkipped(order, Held, ids) => NoneSkipped(order', Held', ids)
    <3> TAKE ids
    <3> HAVE ids \subseteq known /\ NoneSkipped(order, Held, ids)
    <3>1. Held' \subseteq Held \cup {e} /\ order' = Append(order, e)
      BY PutQueues
    <3> HIDE DEF e
    <3>2. NoneSkipped(Append(order, e), Held', ids)
      BY <1>1, <1>6, <3>1, SkipsNothingNew
    <3> QED
      BY <3>1, <3>2
  <2>2. NoneSkipped(order', Held', handed')
    BY <1>0, <1>2, <2>1 DEF NothingOnItsWaySkips, Types
  <2>3. ASSUME NEW d \in Conns, task'[d].pc = "reply"
        PROVE  /\ IdsOf(task'[d].batch) \subseteq known'
               /\ NoneSkipped(order', Held', IdsOf(task'[d].batch))
    <3>1. CASE d = c
      <4>1. <<>> \in Seq(Envelope) /\ 1..Len(<<>>) = {}
        BY EmptySeq
      <4>2. IdsOf(task'[d].batch) = {}
        BY <1>3, <1>5, <3>1, <4>1, IdsMembers
      <4> QED
        BY <4>2 DEF NoneSkipped
    <3>2. CASE d # c
      BY <1>0, <1>2, <1>5, <2>1, <2>3, <3>2 DEF NothingOnItsWaySkips
    <3> QED
      BY <3>1, <3>2
  <2> QED
    BY <2>2, <2>3 DEF NothingOnItsWaySkips
<1> QED
  BY <1>7, <1>8, <1>9, <1>10, <1>11 DEF IInv
-------------------------------------------------------------------------------
(* Queues that only lose entries stay parts of what was put, and hold      *)
(* nothing they did not hold (store.rs:171-200).                           *)
LEMMA ShorterQueues ==
    ASSUME IInv, order' = order, queue' \in [Users -> Seq(Envelope)],
           \A u \in Users : /\ Len(queue'[u]) <= Len(queue[u])
                            /\ PartOf(queue'[u], queue[u])
    PROVE  QueuesAreParts' /\ Held' \subseteq Held
<1>0. queue \in [Users -> Seq(Envelope)] /\ QueuesAreParts
  BY DEF IInv, Types
<1>1. ASSUME NEW u \in Users
      PROVE  /\ Len(queue'[u]) <= Cap
             /\ PartOf(queue'[u], order')
             /\ \A p \in 1..Len(queue'[u]) : queue'[u][p].to = u
  <2>1. queue[u] \in Seq(Envelope) /\ queue'[u] \in Seq(Envelope)
    BY <1>0
  <2>2. Len(queue[u]) \in Nat /\ Len(queue'[u]) \in Nat /\ Len(queue[u]) <= Cap
    BY <1>0, <2>1, LenProperties DEF QueuesAreParts
  <2>3. Len(queue'[u]) <= Cap
    BY <2>2, CapIsNat
  <2>4. PartOf(queue'[u], order')
    BY <1>0, PartOfPart DEF QueuesAreParts
  <2>5. \A p \in 1..Len(queue'[u]) : queue'[u][p].to = u
    <3> TAKE p \in 1..Len(queue'[u])
    <3>1. PartOf(queue'[u], queue[u])
      OBVIOUS
    <3>2. PICK k \in 1..Len(queue[u]) : queue[u][k] = queue'[u][p]
      BY <3>1 DEF PartOf
    <3> QED
      BY <1>0, <3>2 DEF QueuesAreParts
  <2> QED
    BY <2>3, <2>4, <2>5
<1>2. ASSUME NEW x \in Held' PROVE x \in Held
  <2>1. PICK u \in Users : \E p \in 1..Len(queue'[u]) : queue'[u][p] = x
    BY <1>2, HeldMembers DEF Held, HeldIn
  <2>2. PICK p \in 1..Len(queue'[u]) : queue'[u][p] = x
    BY <2>1
  <2>3. PICK k \in 1..Len(queue[u]) : queue[u][k] = x
    <3>1. PartOf(queue'[u], queue[u])
      OBVIOUS
    <3> QED
      BY <2>2, <3>1 DEF PartOf
  <2> QED
    BY <1>0, <2>3, HeldMembers DEF Held, HeldIn
<1> QED
  BY <1>1, <1>2 DEF QueuesAreParts

(* A queue is a part of itself.                                            *)
LEMMA PartOfItself == \A s : PartOf(s, s)
BY DEF PartOf

(* delete: what an ack leaves is a part of the sender's queue              *)
(* (store.rs:171-187).                                                     *)
LEMMA DeleteQueues ==
    ASSUME IInv, NEW c \in Conns, Delete(c)
    PROVE  /\ task[c] \in Dispatched /\ task[c].by \in Users /\ task[c].req \in AckOp
           /\ queue' \in [Users -> Seq(Envelope)]
           /\ \A u \in Users : /\ Len(queue'[u]) <= Len(queue[u])
                               /\ PartOf(queue'[u], queue[u])
                               /\ \A p \in 1..Len(queue[u]) :
                                     \/ \E k \in 1..Len(queue'[u]) : queue'[u][k] = queue[u][p]
                                     \/ u = task[c].by /\ queue[u][p].id \in task[c].req.ids
<1> DEFINE b == task[c].by
           r == Retain(queue[b], NotNamed(c))
<1>1. /\ task[c] \in Dispatched /\ task[c].by \in Users /\ task[c].req \in AckOp
  BY TaskShape, RequestShape DEF IInv, Types, Delete, Dispatching, Dispatched
<1>2. queue \in [Users -> Seq(Envelope)]
  BY DEF IInv, Types
<1>3. queue' = [queue EXCEPT ![b] = r]
  BY DEF Delete
<1>4. queue[b] \in Seq(Envelope)
  BY <1>1, <1>2
<1>5. /\ r \in Seq(Envelope) /\ Len(r) <= Len(queue[b]) /\ PartOf(r, queue[b])
      /\ \A p \in 1..Len(queue[b]) :
            queue[b][p] \in NotNamed(c) => \E k \in 1..Len(r) : r[k] = queue[b][p]
  BY <1>4, RetainIsPart
<1>6. \A p \in 1..Len(queue[b]) : queue[b][p] \in Envelope
  BY <1>4, ElementOfSeq
<1> HIDE DEF r
<1>7. queue' \in [Users -> Seq(Envelope)] /\ queue'[b] = r /\ \A u \in Users : u # b => queue'[u] = queue[u]
  BY <1>1, <1>2, <1>3, <1>5
<1>8. ASSUME NEW u \in Users
      PROVE  /\ Len(queue'[u]) <= Len(queue[u])
             /\ PartOf(queue'[u], queue[u])
             /\ \A p \in 1..Len(queue[u]) :
                   \/ \E k \in 1..Len(queue'[u]) : queue'[u][k] = queue[u][p]
                   \/ u = task[c].by /\ queue[u][p].id \in task[c].req.ids
  <2>1. CASE u = b
    BY <1>5, <1>6, <1>7, <2>1 DEF NotNamed
  <2>2. CASE u # b
    <3>1. queue'[u] = queue[u] /\ Len(queue[u]) \in Nat
      BY <1>2, <1>7, <2>2, LenProperties
    <3> QED
      BY <3>1, PartOfItself
  <2> QED
    BY <2>1, <2>2
<1> QED
  BY <1>1, <1>7, <1>8

(* An ack takes envelopes away and answers without any.                    *)
LEMMA DeleteStep == ASSUME IInv, NEW c \in Conns, Delete(c) PROVE IInv'
<1> USE DEF limiters, history
<1>0. Types /\ IdsAreFresh /\ ReadingsArePast /\ NothingOnItsWaySkips
  BY DEF IInv
<1>1. /\ UNCHANGED <<limiters, clock, sweep, got, history, restarts>>
      /\ Answer(c, "ok", <<>>)
  BY DEF Delete
<1>2. task[c].by \in Users /\ queue' \in [Users -> Seq(Envelope)]
  BY DeleteQueues
<1>3. PICK t \in Replying : t.batch = <<>> /\ Moves(c, t)
  BY <1>0, <1>1, <1>2, EmptyAnswer
<1>4. t \in Tasks /\ t.pc = "reply"
  BY DEF Tasks, Replying
<1>5. /\ task' \in [Conns -> Tasks] /\ task'[c] = t
      /\ \A d \in Conns : d # c => task'[d] = task[d]
  BY <1>0, <1>3, <1>4, TaskMoves
<1>6. QueuesAreParts' /\ Held' \subseteq Held
  BY <1>1, <1>2, DeleteQueues, ShorterQueues
<1>7. Types'
  BY <1>0, <1>1, <1>2, <1>5 DEF Types
<1>8. IdsAreFresh'
  BY <1>0, <1>1, <1>4, <1>5 DEF IdsAreFresh, IdsOf
<1>9. ReadingsArePast'
  BY <1>0, <1>1, <1>4, <1>5 DEF ReadingsArePast
<1>10. NothingOnItsWaySkips'
  <2>1. \A ids : NoneSkipped(order, Held, ids) => NoneSkipped(order', Held', ids)
    BY <1>1, <1>6 DEF NoneSkipped
  <2>2. <<>> \in Seq(Envelope) /\ 1..Len(<<>>) = {}
    BY EmptySeq
  <2>3. IdsOf(t.batch) = {}
    BY <1>3, <2>2, IdsMembers
  <2>4. NoneSkipped(order', Held', {})
    BY DEF NoneSkipped
  <2> QED
    BY <1>0, <1>1, <1>5, <2>1, <2>3, <2>4 DEF NothingOnItsWaySkips
<1> QED
  BY <1>6, <1>7, <1>8, <1>9, <1>10 DEF IInv

(* evict: what is left is what is recent enough (store.rs:189-200).        *)
LEMMA EvictQueues ==
    ASSUME IInv, NEW now \in sweep, Evict(now)
    PROVE  /\ queue' \in [Users -> Seq(Envelope)]
           /\ \A u \in Users : /\ Len(queue'[u]) <= Len(queue[u])
                               /\ PartOf(queue'[u], queue[u])
                               /\ \A k \in 1..Len(queue'[u]) : queue'[u][k].at >= Cutoff(now)
                               /\ \A p \in 1..Len(queue[u]) :
                                     queue[u][p].at >= Cutoff(now) =>
                                        \E k \in 1..Len(queue'[u]) : queue'[u][k] = queue[u][p]
<1> DEFINE K == {e \in Envelope : e.at >= Cutoff(now)}
<1>1. queue \in [Users -> Seq(Envelope)] /\ queue' = [u \in Users |-> Retain(queue[u], K)]
  BY DEF IInv, Types, Evict
<1>2. ASSUME NEW u \in Users
      PROVE  /\ queue'[u] \in Seq(Envelope)
             /\ Len(queue'[u]) <= Len(queue[u])
             /\ PartOf(queue'[u], queue[u])
             /\ \A k \in 1..Len(queue'[u]) : queue'[u][k] \in K
             /\ \A p \in 1..Len(queue[u]) :
                   /\ queue[u][p] \in Envelope
                   /\ queue[u][p] \in K => \E k \in 1..Len(queue'[u]) : queue'[u][k] = queue[u][p]
  <2> HIDE DEF K
  <2>1. queue[u] \in Seq(Envelope) /\ queue'[u] = Retain(queue[u], K)
    BY <1>1
  <2> QED
    BY <2>1, RetainIsPart, ElementOfSeq
<1>3. queue' \in [Users -> Seq(Envelope)]
  BY <1>1, <1>2
<1> QED
  BY <1>2, <1>3

(* Eviction, the clock, the passing of time and a restart of the server.   *)
LEMMA AroundTheTasks ==
    ASSUME IInv,
           \/ \E now \in Stamps : Tick(now)
           \/ Elapse \/ ReadForSweep
           \/ \E now \in sweep : Evict(now)
           \/ Restart
           \/ UNCHANGED vars
    PROVE  IInv'
<1> USE DEF limiters, history
<1>0. Types /\ IdsAreFresh /\ ReadingsArePast /\ QueuesAreParts /\ NothingOnItsWaySkips
  BY DEF IInv
<1>1. ASSUME NEW now \in Stamps, Tick(now) PROVE IInv'
  <2>1. /\ now \in Nat /\ peak \in Nat /\ \A x \in Stamps : x \in Nat
    BY <1>0, StampsAreNats DEF Types
  <2>2. /\ clock' <= peak' /\ peak' \in Stamps /\ peak <= peak'
        /\ UNCHANGED <<queue, limiters, sweep, task, got, known, order, handed, restarts>>
        /\ clock' \in Stamps
    BY <1>0, <1>1, <2>1 DEF Tick, Types
  <2>3. Types'
    BY <1>0, <2>2 DEF Types
  <2>4. IdsAreFresh'
    BY <1>0, <2>2 DEF IdsAreFresh, IdsOf
  <2>5. ReadingsArePast'
    <3>1. \A x \in sweep : x \in Nat
      BY <1>0, <2>1 DEF Types
    <3>2. \A c \in Conns : task[c].pc = "put" => task[c].env.at \in Nat
      BY <1>0, <2>1, TaskShape DEF Types, Putting, Envelope
    <3>3. \A x \in Nat : x <= peak => x <= peak'
      BY <2>1, <2>2
    <3>4. \A x \in sweep' : x <= peak'
      BY <1>0, <2>2, <3>1, <3>3 DEF ReadingsArePast
    <3>5. \A c \in Conns : task'[c].pc = "put" => task'[c].env.at <= peak'
      BY <1>0, <2>2, <3>2, <3>3 DEF ReadingsArePast
    <3> QED
      BY <2>2, <3>4, <3>5 DEF ReadingsArePast
  <2>6. QueuesAreParts' /\ Held' = Held
    BY <1>0, <2>2 DEF QueuesAreParts, Held
  <2>7. NothingOnItsWaySkips'
    BY <1>0, <2>2, <2>6 DEF NothingOnItsWaySkips
  <2> QED
    BY <2>3, <2>4, <2>5, <2>6, <2>7 DEF IInv
<1>2. ASSUME UNCHANGED <<queue, clock, task, got, history, restarts>>,
             sweep' = sweep \/ sweep' = {clock},
             deliveries' \in [Users -> Deliveries!Bucket], fetches' \in [Users -> Fetches!Bucket]
      PROVE  IInv'
  <2>1. Types'
    BY <1>0, <1>2 DEF Types
  <2>2. IdsAreFresh' /\ ReadingsArePast'
    BY <1>0, <1>2 DEF IdsAreFresh, IdsOf, ReadingsArePast
  <2>3. QueuesAreParts' /\ Held' = Held
    BY <1>0, <1>2 DEF QueuesAreParts, Held
  <2>4. NothingOnItsWaySkips'
    BY <1>0, <1>2, <2>3 DEF NothingOnItsWaySkips
  <2> QED
    BY <2>1, <2>2, <2>3, <2>4 DEF IInv
<1>3. ASSUME Elapse PROVE IInv'
  <2>1. deliveries' \in [Users -> Deliveries!Bucket] /\ fetches' \in [Users -> Fetches!Bucket]
    BY <1>0, <1>3, DeliveryBuckets, FetchBuckets DEF Elapse, Types
  <2> QED
    BY <1>2, <1>3, <2>1 DEF Elapse
<1>4. ASSUME ReadForSweep PROVE IInv'
  BY <1>0, <1>2, <1>4 DEF ReadForSweep, Types
<1>5. ASSUME NEW now \in sweep, Evict(now) PROVE IInv'
  <2>1. UNCHANGED <<limiters, clock, task, got, history, restarts>> /\ sweep' = {}
    BY <1>5 DEF Evict
  <2>2. queue' \in [Users -> Seq(Envelope)]
    BY <1>5, EvictQueues
  <2>3. QueuesAreParts' /\ Held' \subseteq Held
    BY <1>5, <2>1, <2>2, EvictQueues, ShorterQueues
  <2>4. Types' /\ IdsAreFresh' /\ ReadingsArePast'
    BY <1>0, <2>1, <2>2 DEF Types, IdsAreFresh, IdsOf, ReadingsArePast
  <2>5. \A ids : NoneSkipped(order, Held, ids) => NoneSkipped(order', Held', ids)
    BY <2>1, <2>3 DEF NoneSkipped
  <2>6. NothingOnItsWaySkips'
    BY <1>0, <2>1, <2>5 DEF NothingOnItsWaySkips
  <2> QED
    BY <2>3, <2>4, <2>6 DEF IInv
<1>6. ASSUME Restart PROVE IInv'
  <2>1. /\ UNCHANGED <<clock, got, history>> /\ sweep' = {} /\ queue' = [u \in Users |-> <<>>]
        /\ task' = [c \in Conns |-> Idle] /\ restarts' \in 0..MaxRestarts
        /\ deliveries' \in [Users -> Deliveries!Bucket] /\ fetches' \in [Users -> Fetches!Bucket]
    BY <1>0, <1>6, DeliveryBuckets, FetchBuckets, MaxRestartsIsNat DEF Restart, Types
  <2>2. <<>> \in Seq(Envelope) /\ Len(<<>>) = 0 /\ Idle \in Tasks /\ Idle.pc = "idle"
    BY EmptySeq DEF Tasks, Idle
  <2>3. queue' \in [Users -> Seq(Envelope)] /\ \A u \in Users : queue'[u] = <<>>
    BY <2>1, <2>2
  <2>4. \A c \in Conns : task'[c].pc = "idle"
    BY <2>1, <2>2
  <2>5. Types'
    BY <1>0, <2>1, <2>2, <2>3 DEF Types
  <2>6. IdsAreFresh' /\ ReadingsArePast'
    BY <1>0, <2>1, <2>4 DEF IdsAreFresh, IdsOf, ReadingsArePast
  <2>7. QueuesAreParts'
    BY <2>2, <2>3, CapIsNat DEF QueuesAreParts, PartOf
  <2>8. \A x : x \notin Held'
    BY <2>2, <2>3, HeldMembers DEF Held, HeldIn
  <2>9. NothingOnItsWaySkips'
    BY <2>4, <2>8 DEF NothingOnItsWaySkips, NoneSkipped
  <2> QED
    BY <2>5, <2>6, <2>7, <2>9 DEF IInv
<1>7. ASSUME UNCHANGED vars PROVE IInv'
  BY <1>0, <1>2, <1>7 DEF vars, Types
<1> QED
  BY <1>1, <1>3, <1>4, <1>5, <1>6, <1>7

(* Every step of the relay keeps the invariant.                            *)
LEMMA StepKeeps == IInv /\ [Next]_vars => IInv'
<1> SUFFICES ASSUME IInv, [Next]_vars PROVE IInv'
  OBVIOUS
<1>1. ASSUME NEW c \in Conns, Serve(c) \/ ReplyLost(c) PROVE IInv'
  BY <1>1, OutsideTheStore, StampStep, PutStep, DeleteStep DEF Serve
<1>2. ASSUME NEW c \in Conns, NEW u \in Users,
             (\E r \in Request : Open(c, u, r)) \/ AckReceived(c, u)
      PROVE  IInv'
  BY <1>2, OutsideTheStore
<1>3. CASE \/ \E now \in Stamps : Tick(now)
           \/ Elapse \/ ReadForSweep
           \/ \E now \in sweep : Evict(now)
           \/ Restart
           \/ UNCHANGED vars
  BY <1>3, AroundTheTasks
<1> QED
  BY <1>1, <1>2, <1>3 DEF Next

(* The invariant of the relay holds throughout.                            *)
THEOREM InvariantHolds == Spec => []IInv
BY InitEstablishes, StepKeeps, PTL DEF Spec

(* Queues, buckets and tasks keep their types, and no queue outgrows       *)
(* max_per_recipient (store.rs:142-147).                                   *)
THEOREM RelayTypes == Spec => []TypeOK
<1>1. IInv => TypeOK
  <2> SUFFICES ASSUME IInv PROVE TypeOK
    OBVIOUS
  <2>1. Types /\ IdsAreFresh /\ QueuesAreParts
    BY DEF IInv
  <2>2. ASSUME NEW u \in Users
        PROVE  /\ Len(queue[u]) <= Cap
               /\ \A e \in Contents(queue[u]) : e \in Envelope /\ e.to = u
    <3>1. queue[u] \in Seq(Envelope)
      BY <2>1 DEF Types
    <3>2. DOMAIN queue[u] = 1..Len(queue[u]) /\ \A p \in 1..Len(queue[u]) : queue[u][p] \in Envelope
      BY <3>1, LenProperties, ElementOfSeq
    <3> QED
      BY <2>1, <3>2 DEF QueuesAreParts, Contents
  <2>3. \A c \in Conns : task[c].pc \in {"idle", "dispatch", "admitted", "put", "read", "reply"}
    BY <2>1, TaskShape DEF Types
  <2> QED
    BY <2>1, <2>2, <2>3 DEF TypeOK, Types, IdsAreFresh
<1> QED
  BY <1>1, InvariantHolds, PTL

(* "Pending envelopes, oldest first" (message.rs:77): whatever limits      *)
(* clients ask for, whatever fails and whenever the server restarts, no    *)
(* envelope reaches its recipient while an older one waits unseen.         *)
THEOREM FetchesSkipNothing == Spec => []NothingSkipped
<1>1. IInv => NothingSkipped
  <2> SUFFICES ASSUME IInv, NEW j \in DOMAIN order, order[j].id \in handed,
                      NEW i \in 1..(j - 1), order[i].to = order[j].to, order[i] \in Held
               PROVE  order[i].id \in handed
    BY DEF NothingSkipped
  <2>1. DOMAIN order = 1..Len(order) /\ Len(order) \in Nat
    BY LenProperties DEF IInv, Types
  <2>2. i \in 1..Len(order) /\ j \in 1..Len(order) /\ i < j
    BY <2>1
  <2> QED
    BY <2>2 DEF IInv, NothingOnItsWaySkips, NoneSkipped
<1> QED
  BY <1>1, InvariantHolds, PTL
-------------------------------------------------------------------------------
(* What a task has asked to be deleted (service.rs:464-472).               *)
Acks(t, p) == t.pc = "dispatch" /\ t.req.op = "ack" /\ p \in {t.by} \X t.req.ids

LEMMA AskedMembers ==
    /\ \A p : p \in Asked <=> \E c \in Conns : Acks(task[c], p)
    /\ \A p : p \in Asked' <=> \E c \in Conns : Acks(task'[c], p)
BY DEF Asked, Dispatching, Acks

(* A task that moves from one state to another without an ack in either    *)
(* changes nothing that is asked.                                          *)
LEMMA AskedStays ==
    ASSUME Types, NEW c \in Conns, NEW t \in Tasks, Moves(c, t),
           \A p : ~Acks(task[c], p) /\ ~Acks(t, p)
    PROVE  Asked' = Asked
<1>1. task'[c] = t /\ \A d \in Conns : d # c => task'[d] = task[d]
  BY TaskMoves
<1>2. \A p : p \in Asked' <=> p \in Asked
  BY <1>1, AskedMembers
<1>3. Asked' \subseteq Asked /\ Asked \subseteq Asked'
  BY <1>2
<1> QED
  BY <1>3

(* A task that begins with an ack adds what it names to what is asked.     *)
LEMMA AskedGrows ==
    ASSUME Types, NEW c \in Conns, NEW u \in Users, NEW ids \in SUBSET Ids,
           task[c] = Idle,
           Moves(c, [pc |-> "dispatch", by |-> u, req |-> [op |-> "ack", ids |-> ids]])
    PROVE  Asked' = Asked \cup ({u} \X ids)
<1> DEFINE t == [pc |-> "dispatch", by |-> u, req |-> [op |-> "ack", ids |-> ids]]
<1>1. t \in Tasks
  BY DEF Tasks, Dispatched, Request
<1>2. \A p : (Acks(t, p) <=> p \in {u} \X ids) /\ ~Acks(Idle, p)
  BY DEF Acks, Idle
<1> HIDE DEF t
<1>3. task'[c] = t /\ \A d \in Conns : d # c => task'[d] = task[d]
  BY <1>1, TaskMoves DEF t
<1>4. \A p : p \in Asked' <=> p \in Asked \/ p \in {u} \X ids
  BY <1>2, <1>3, AskedMembers
<1>5. Asked' \subseteq Asked \cup ({u} \X ids) /\ Asked \cup ({u} \X ids) \subseteq Asked'
  BY <1>4
<1> QED
  BY <1>5

(* A server without mail promises nothing yet.                             *)
LEMMA MapsInit == Init => Abstract!Init
<1> SUFFICES ASSUME Init PROVE Abstract!Init
  OBVIOUS
<1>1. IInv
  BY InitEstablishes
<1>2. \A u \in Users : 1..Len(queue[u]) = {}
  BY EmptySeq DEF Init
<1>3. \A x : x \notin Held
  BY <1>1, <1>2, HeldMembers DEF Held, HeldIn, IInv, Types
<1>4. \A c \in Conns : task[c].pc = "idle"
  BY DEF Init, Idle
<1>5. \A p : p \notin Asked
  BY <1>4, AskedMembers DEF Acks
<1> QED
  BY <1>3, <1>5, StampsAreNats DEF Init, Abstract!Init

(* put accepts the stamped envelope and gives up the oldest above the cap  *)
(* (store.rs:136-149).                                                     *)
LEMMA MapsPut ==
    ASSUME IInv, IInv', NEW c \in Conns, Put(c)
    PROVE  \E e \in Abstract!Envelope : \E dropped \in SUBSET (Held \cup {e}) :
               Abstract!Accept(e, dropped)
<1> USE DEF history, limiters
<1> DEFINE e == task[c].env
           q == queue[e.to]
           s == Append(q, e)
           box == queue'[e.to]
           dropped == (Held \cup {e}) \ Held'
<1>1. /\ task[c] \in Putting /\ e \in Envelope /\ e.to \in Users /\ task[c].by \in Users
      /\ task[c].pc = "put"
  BY PutQueues DEF Put, Putting, Envelope
<1>2. /\ queue \in [Users -> Seq(Envelope)] /\ queue' \in [Users -> Seq(Envelope)]
      /\ order' \in Seq(Envelope)
  BY PutQueues DEF IInv, Types
<1>3. /\ \A u \in Users : u # e.to => queue'[u] = queue[u]
      /\ box = Kept(s) /\ PartOf(box, order') /\ Held' \subseteq Held \cup {e}
  BY <1>1, PutQueues
<1>4. q \in Seq(Envelope) /\ box \in Seq(Envelope)
  BY <1>1, <1>2
<1>5. Asked' = Asked
  <2>1. PICK t \in Replying : t.batch = <<>> /\ Moves(c, t)
    BY <1>1, EmptyAnswer DEF Put, IInv
  <2>2. t \in Tasks /\ \A p : ~Acks(task[c], p) /\ ~Acks(t, p)
    BY <1>1 DEF Acks, Tasks, Replying
  <2> QED
    BY <2>1, <2>2, AskedStays DEF IInv
<1>6. e.id \notin known /\ e.at <= peak /\ known' = known \cup {e.id} /\ peak' = peak
  BY <1>1 DEF Put, IInv, IdsAreFresh, ReadingsArePast
<1> HIDE DEF e
<1>7. /\ s \in Seq(Envelope) /\ Len(s) = Len(q) + 1 /\ Len(q) \in Nat /\ s[Len(q) + 1] = e
      /\ \A p \in 1..Len(q) : s[p] = q[p]
  BY <1>1, <1>4, AppendProperties, LenProperties
<1> HIDE DEF q, s, box
<1>8. \A d \in Held : d \notin Held' => d.to = e.to
  <2> SUFFICES ASSUME NEW d \in Held, d.to # e.to PROVE d \in Held'
    OBVIOUS
  <2>1. PICK u \in Users : \E p \in 1..Len(queue[u]) : queue[u][p] = d
    BY <1>2, HeldAre
  <2>2. d.to = u
    BY <2>1 DEF IInv, QueuesAreParts
  <2> QED
    BY <1>2, <1>3, <2>1, <2>2, HeldAre
<1>9. CASE Len(s) <= Cap
  <2>1. box = s
    BY <1>3, <1>7, <1>9, KeptIsPart
  <2>2. \A p \in 1..Len(q) : p \in 1..Len(s)
    BY <1>7
  <2>3. Len(q) + 1 \in 1..Len(s)
    BY <1>7
  <2>4. \A p \in 1..Len(s) : s[p] \in Held'
    BY <1>1, <1>2, <2>1, HeldAre DEF box
  <2>5. e \in Held'
    BY <1>7, <2>3, <2>4
  <2>6. ASSUME NEW d \in Held PROVE d \in Held'
    <3>1. PICK u \in Users : \E p \in 1..Len(queue[u]) : queue[u][p] = d
      BY <1>2, HeldAre
    <3>2. CASE u # e.to
      BY <1>2, <1>3, <3>1, <3>2, HeldAre
    <3>3. CASE u = e.to
      <4>1. PICK p \in 1..Len(q) : q[p] = d
        BY <3>1, <3>3 DEF q
      <4> QED
        BY <1>7, <2>2, <2>4, <4>1
    <3> QED
      BY <3>2, <3>3
  <2>7. dropped = {}
    BY <2>5, <2>6
  <2> QED
    BY <1>1, <1>3, <1>5, <1>6, <2>7
    DEF Abstract!Accept, Abstract!OnlyExcess, Abstract!Envelope, Envelope
<1>10. CASE ~(Len(s) <= Cap)
  <2>1. Len(box) = Cap
    BY <1>3, <1>7, <1>10, KeptIsPart, CapIsNat
  <2>2. NoneTwice(order')
    BY DEF IInv, IdsAreFresh, NoneTwice
  <2>3. NoneTwice(box)
    BY <1>2, <1>3, <1>4, <2>2, PartKeepsOrder
  <2>4. Cardinality({box[p] : p \in 1..Len(box)}) = Cap
    BY <1>4, <2>1, <2>3, LengthCounts
  <2>5. {x \in Held' : x.to = e.to} = {box[p] : p \in 1..Len(box)}
    <3>1. ASSUME NEW x \in Held', x.to = e.to PROVE x \in {box[p] : p \in 1..Len(box)}
      <4>1. PICK u \in Users : \E p \in 1..Len(queue'[u]) : queue'[u][p] = x
        BY <1>2, HeldAre
      <4>2. x.to = u
        BY <4>1 DEF IInv, QueuesAreParts
      <4> QED
        BY <3>1, <4>1, <4>2 DEF box
    <3>2. ASSUME NEW p \in 1..Len(box) PROVE box[p] \in Held' /\ box[p].to = e.to
      BY <1>1, <1>2, HeldAre DEF box, IInv, QueuesAreParts
    <3> QED
      BY <3>1, <3>2
  <2>6. Abstract!Cardinality({x \in Held' : x.to = e.to}) = Cap
    BY <2>4, <2>5 DEF Abstract!Cardinality, Cardinality
  <2>7. Abstract!OnlyExcess(e.to, dropped)
    <3>1. \A d \in dropped : d.to = e.to
      BY <1>8
    <3>2. Abstract!Cardinality({x \in Held' : x.to = e.to}) >= Cap
      BY <2>6, CapIsNat
    <3> QED
      BY <3>1, <3>2 DEF Abstract!OnlyExcess
  <2>8. Held' = (Held \cup {e}) \ dropped /\ dropped \in SUBSET (Held \cup {e})
    BY <1>3
  <2> HIDE DEF dropped
  <2>9. Abstract!Accept(e, dropped) /\ e \in Abstract!Envelope
    BY <1>1, <1>5, <1>6, <2>7, <2>8 DEF Abstract!Accept, Abstract!Envelope, Envelope
  <2> QED
    BY <2>8, <2>9
<1> QED
  BY <1>9, <1>10

(* delete acknowledges what its own user has named (store.rs:171-187).     *)
LEMMA MapsDelete ==
    ASSUME IInv, IInv', NEW c \in Conns, Delete(c)
    PROVE  \E gone \in SUBSET Held : Abstract!Acknowledge(gone)
<1> USE DEF history, limiters
<1> DEFINE gone == Held \ Held'
<1>0. /\ task[c] \in Dispatched /\ task[c].by \in Users /\ task[c].req.op = "ack"
      /\ task[c].pc = "dispatch"
      /\ queue \in [Users -> Seq(Envelope)] /\ queue' \in [Users -> Seq(Envelope)]
  BY DeleteQueues DEF IInv, Types, AckOp, Dispatched
<1>1. Held' \subseteq Held
  BY <1>0, DeleteQueues, ShorterQueues DEF Delete
<1>2. Asked' \subseteq Asked
  <2>1. PICK t \in Replying : t.batch = <<>> /\ Moves(c, t)
    BY <1>0, EmptyAnswer DEF Delete, IInv
  <2>2. t \in Tasks /\ \A p : ~Acks(t, p)
    BY DEF Acks, Tasks, Replying
  <2>3. task'[c] = t /\ \A d \in Conns : d # c => task'[d] = task[d]
    BY <2>1, <2>2, TaskMoves DEF IInv
  <2>4. \A p : p \in Asked' => p \in Asked
    BY <2>2, <2>3, AskedMembers
  <2> QED
    BY <2>4
<1>3. ASSUME NEW e \in gone PROVE <<e.to, e.id>> \in Asked
  <2>1. PICK u \in Users : \E p \in 1..Len(queue[u]) : queue[u][p] = e
    BY <1>0, HeldMembers DEF Held, HeldIn
  <2>2. PICK p \in 1..Len(queue[u]) : queue[u][p] = e
    BY <2>1
  <2>3. e.to = u
    BY <2>2 DEF IInv, QueuesAreParts
  <2>4. ~ \E k \in 1..Len(queue'[u]) : queue'[u][k] = e
    BY <1>0, HeldMembers DEF Held, HeldIn
  <2>5. u = task[c].by /\ e.id \in task[c].req.ids
    BY <2>2, <2>4, DeleteQueues
  <2>6. Acks(task[c], <<e.to, e.id>>)
    BY <1>0, <2>3, <2>5 DEF Acks
  <2> QED
    BY <2>6, AskedMembers
<1>4. Held' = Held \ gone /\ gone \in SUBSET Held
  BY <1>1
<1> HIDE DEF gone
<1>5. Abstract!Acknowledge(gone)
  BY <1>2, <1>3, <1>4 DEF Abstract!Acknowledge, Delete
<1> QED
  BY <1>4, <1>5

(* evict drops what is older than the retention period, and nothing else   *)
(* (store.rs:189-200).                                                     *)
LEMMA MapsEvict ==
    ASSUME IInv, IInv', NEW now \in sweep, Evict(now)
    PROVE  now \in Stamps /\ Abstract!Expire(now)
<1> USE DEF history, limiters
<1>1. /\ queue \in [Users -> Seq(Envelope)] /\ queue' \in [Users -> Seq(Envelope)]
      /\ now \in Stamps /\ now <= peak
  BY EvictQueues DEF IInv, Types, ReadingsArePast
<1>2. Held' \subseteq Held
  BY <1>1, EvictQueues, ShorterQueues DEF Evict
<1>3. ASSUME NEW e \in Held' PROVE e.at >= Cutoff(now)
  <2>1. PICK u \in Users : \E p \in 1..Len(queue'[u]) : queue'[u][p] = e
    BY <1>1, HeldMembers DEF Held, HeldIn
  <2> QED
    BY <2>1, EvictQueues
<1>4. ASSUME NEW e \in Held, e.at >= Cutoff(now) PROVE e \in Held'
  <2>1. PICK u \in Users : \E p \in 1..Len(queue[u]) : queue[u][p] = e
    BY <1>1, HeldMembers DEF Held, HeldIn
  <2>2. \E k \in 1..Len(queue'[u]) : queue'[u][k] = e
    BY <1>4, <2>1, EvictQueues
  <2> QED
    BY <1>1, <2>2, HeldMembers DEF Held, HeldIn
<1>5. Held' = {e \in Held : e.at >= Abstract!CutoffAt(now)}
  BY <1>2, <1>3, <1>4 DEF Cutoff, Abstract!CutoffAt
<1>6. Asked' = Asked
  BY DEF Evict, Asked, Dispatching
<1> QED
  BY <1>1, <1>5, <1>6 DEF Abstract!Expire, Evict

(* A restart forgets all mail and every request (store.rs:11).             *)
LEMMA MapsRestart == ASSUME IInv, IInv', Restart PROVE Abstract!Restart
<1>1. /\ queue \in [Users -> Seq(Envelope)] /\ queue' \in [Users -> Seq(Envelope)]
      /\ \A u \in Users : 1..Len(queue'[u]) = {}
      /\ \A c \in Conns : task'[c].pc = "idle"
  BY EmptySeq DEF Restart, IInv, Types, Idle
<1>2. \A x : x \notin Held'
  BY <1>1, HeldAre
<1>3. \A p : p \notin Asked'
  BY <1>1, AskedMembers DEF Acks
<1> QED
  BY <1>2, <1>3 DEF Abstract!Restart, Restart, history

(* Everything else a task does asks for a deletion at most.                *)
LEMMA MapsOutside ==
    ASSUME IInv, NEW c \in Conns,
           \/ \E u \in Users : (\E r \in Request : Open(c, u, r)) \/ AckReceived(c, u)
           \/ Invalid(c) \/ LimitDeliver(c) \/ LimitFetch(c) \/ ReadPending(c)
           \/ Reply(c) \/ ReplyTooLarge(c) \/ ReplyLost(c)
           \/ \E id \in Ids : Stamp(c, id)
    PROVE  [Abstract!Next]_(Abstract!mailboxVars)
<1> USE DEF limiters, history
<1>0. Types /\ task[c] \in Tasks
  BY DEF IInv, Types
<1>1. Held' = Held /\ UNCHANGED <<known, peak>>
  BY DEF Open, AckReceived, Invalid, LimitDeliver, LimitFetch, ReadPending, Reply,
         ReplyTooLarge, ReplyLost, Stamp, Held
<1>2. ASSUME NEW u \in Users, NEW ids \in SUBSET Ids, task[c] = Idle,
             Moves(c, [pc |-> "dispatch", by |-> u, req |-> [op |-> "ack", ids |-> ids]])
      PROVE  Abstract!Next
  <2>1. Asked' = Asked \cup ({u} \X ids)
    BY <1>0, <1>2, AskedGrows
  <2>2. Abstract!Ask(u, ids)
    BY <1>1, <2>1 DEF Abstract!Ask
  <2> QED
    BY <2>2 DEF Abstract!Next
<1>3. ASSUME Asked' = Asked PROVE [Abstract!Next]_(Abstract!mailboxVars)
  BY <1>1, <1>3 DEF Abstract!mailboxVars
<1>4. ASSUME NEW t, Moves(c, t), t.pc # "dispatch", ~Dispatching(c, "ack") PROVE Asked' = Asked
  <2>1. task'[c] = t /\ \A d \in Conns : d # c => task'[d] = task[d]
    BY <1>0, <1>4 DEF Moves, Types
  <2>2. \A p : ~Acks(task[c], p) /\ ~Acks(t, p)
    BY <1>4 DEF Acks, Dispatching
  <2>3. \A p : p \in Asked' <=> p \in Asked
    BY <2>1, <2>2, AskedMembers
  <2>4. Asked' \subseteq Asked /\ Asked \subseteq Asked'
    BY <2>3
  <2> QED
    BY <2>4
<1>5. ASSUME NEW u \in Users, NEW r \in Request, Open(c, u, r)
      PROVE  [Abstract!Next]_(Abstract!mailboxVars)
  <2>1. CASE r.op = "ack"
    <3>1. r \in AckOp /\ r.ids \in SUBSET Ids
      BY <2>1, RequestShape DEF AckOp
    <3>2. r = [op |-> "ack", ids |-> r.ids]
      BY <3>1 DEF AckOp
    <3> QED
      BY <1>2, <1>5, <3>1, <3>2 DEF Open
  <2>2. CASE r.op # "ack"
    <3> DEFINE t == [pc |-> "dispatch", by |-> u, req |-> r]
    <3>1. t \in Tasks /\ \A p : ~Acks(t, p) /\ ~Acks(Idle, p)
      BY <2>2 DEF Acks, Idle, Tasks, Dispatched
    <3> HIDE DEF t
    <3>2. Moves(c, t) /\ task[c] = Idle
      BY <1>5 DEF Open, t
    <3> QED
      BY <1>0, <1>3, <3>1, <3>2, AskedStays
  <2> QED
    BY <2>1, <2>2
<1>6. ASSUME NEW u \in Users, AckReceived(c, u) PROVE [Abstract!Next]_(Abstract!mailboxVars)
  <2>1. got[u] \in SUBSET Ids
    BY <1>0 DEF Types
  <2> QED
    BY <1>2, <1>6, <2>1 DEF AckReceived
<1>7. ASSUME Invalid(c) \/ LimitDeliver(c) \/ LimitFetch(c) \/ ReadPending(c)
      PROVE  [Abstract!Next]_(Abstract!mailboxVars)
  <2>1. ~Dispatching(c, "ack")
    BY <1>7 DEF Invalid, LimitDeliver, LimitFetch, ReadPending, Dispatching
  <2>2. \A kind, batch : Answer(c, kind, batch) => Asked' = Asked
    BY <1>4, <2>1 DEF Answer
  <2>3. ASSUME NEW pc \in {"admitted", "read"}, Moves(c, [task[c] EXCEPT !.pc = pc]),
               task[c] \in Dispatched
        PROVE  Asked' = Asked
    <3> DEFINE t == [task[c] EXCEPT !.pc = pc]
    <3>1. t.pc # "dispatch"
      BY <2>3 DEF Dispatched
    <3> HIDE DEF t
    <3>2. Moves(c, t)
      BY <2>3 DEF t
    <3> QED
      BY <1>4, <2>1, <3>1, <3>2
  <2>4. task[c].pc = "dispatch" => task[c] \in Dispatched
    BY <1>0, TaskShape
  <2>5. Asked' = Asked
    BY <1>7, <2>2, <2>3, <2>4 DEF Invalid, LimitDeliver, LimitFetch, ReadPending, Dispatching
  <2> QED
    BY <1>3, <2>5
<1>8. ASSUME Reply(c) \/ ReplyTooLarge(c) \/ ReplyLost(c) PROVE [Abstract!Next]_(Abstract!mailboxVars)
  <2>1. ~Dispatching(c, "ack") /\ Moves(c, Idle) /\ Idle.pc # "dispatch"
    BY <1>8 DEF Reply, ReplyTooLarge, ReplyLost, Dispatching, Idle
  <2> QED
    BY <1>3, <1>4, <2>1
<1>9. ASSUME NEW id \in Ids, Stamp(c, id) PROVE [Abstract!Next]_(Abstract!mailboxVars)
  <2> DEFINE t == [pc |-> "put", by |-> task[c].by, env |-> [id |-> id, to |-> task[c].req.to, at |-> clock]]
  <2>1. ~Dispatching(c, "ack") /\ Moves(c, t) /\ t.pc # "dispatch"
    BY <1>9 DEF Stamp, Dispatching
  <2> HIDE DEF t
  <2> QED
    BY <1>3, <1>4, <2>1
<1> QED
  BY <1>5, <1>6, <1>7, <1>8, <1>9

(* Every step of the relay is a step of the promise, or none.              *)
LEMMA MapsStep ==
    IInv /\ IInv' /\ [Next]_vars => [Abstract!Next \/ Abstract!Restart]_(Abstract!mailboxVars)
<1> SUFFICES ASSUME IInv, IInv', [Next]_vars
             PROVE  [Abstract!Next \/ Abstract!Restart]_(Abstract!mailboxVars)
  OBVIOUS
<1>1. ASSUME NEW now \in Stamps, Tick(now) PROVE Abstract!Next
  <2>1. Held' = Held /\ Asked' = Asked
    BY <1>1 DEF Tick, Held, Asked, Dispatching
  <2>2. Abstract!ClockShows(now)
    BY <1>1, <2>1 DEF Tick, Abstract!ClockShows
  <2> QED
    BY <2>2 DEF Abstract!Next
<1>2. ASSUME Elapse \/ ReadForSweep \/ UNCHANGED vars PROVE UNCHANGED Abstract!mailboxVars
  <2>1. UNCHANGED <<queue, task, known, peak>>
    BY <1>2 DEF Elapse, ReadForSweep, vars, history
  <2> QED
    BY <2>1 DEF Abstract!mailboxVars, Held, Asked, Dispatching
<1>3. ASSUME NEW now \in sweep, Evict(now) PROVE Abstract!Next
  BY <1>3, MapsEvict DEF Abstract!Next
<1>4. ASSUME NEW c \in Conns, NEW u \in Users,
             (\E r \in Request : Open(c, u, r)) \/ AckReceived(c, u)
      PROVE  [Abstract!Next]_(Abstract!mailboxVars)
  BY <1>4, MapsOutside
<1>5. ASSUME NEW c \in Conns, Put(c) PROVE Abstract!Next
  BY <1>5, MapsPut DEF Abstract!Next
<1>6. ASSUME NEW c \in Conns, Delete(c) PROVE Abstract!Next
  BY <1>6, MapsDelete DEF Abstract!Next
<1>7. ASSUME NEW c \in Conns,
             \/ Invalid(c) \/ LimitDeliver(c) \/ LimitFetch(c) \/ ReadPending(c)
             \/ Reply(c) \/ ReplyTooLarge(c) \/ ReplyLost(c)
             \/ \E id \in Ids : Stamp(c, id)
      PROVE  [Abstract!Next]_(Abstract!mailboxVars)
  BY <1>7, MapsOutside
<1>8. CASE Restart
  BY <1>8, MapsRestart
<1> QED
  BY <1>1, <1>2, <1>3, <1>4, <1>5, <1>6, <1>7, <1>8 DEF Next, Serve

(* Whoever connects and in whatever order, an accepted envelope leaves its *)
(* recipient's box only by the recipient's ack, by newer mail over the cap,*)
(* by age, or in a restart: the in-memory relay keeps the promise of the   *)
(* trait EnvelopeStore (store.rs:113-122).                                 *)
THEOREM RelayKeepsMailbox == Spec => KeepsMailbox
<1>1. Init => Abstract!Init
  BY MapsInit
<1>2. IInv /\ IInv' /\ [Next]_vars => [Abstract!Next \/ Abstract!Restart]_(Abstract!mailboxVars)
  BY MapsStep
<1> QED
  BY <1>1, <1>2, InvariantHolds, PTL DEF Spec, KeepsMailbox, Abstract!VolatileSpec
===============================================================================
