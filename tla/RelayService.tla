---------------------------- MODULE RelayService -----------------------------
(***************************************************************************)
(* The relay in one-shot mode (relay/src/service.rs) over the in-memory    *)
(* store (relay/src/store.rs).  Every connection is a task of its own:     *)
(* after the handshake it reads one request, asks the rate limiter, takes  *)
(* the store's lock, and sends one answer; other tasks run at every await. *)
(* Clients poll their mail and ack what they have received.                *)
(***************************************************************************)
EXTENDS Naturals, Sequences, FiniteSets, Queues

CONSTANTS Users,        \* static public keys, as the handshake proves them
          Ids, Stamps, Cap, Retention,    \* as in Mailbox
          Size,         \* [Ids -> Nat]: encoded size of the envelope
          MaxMessage,   \* MAX_TRANSPORT_MSG: the largest answer a channel sends
          BatchLimit,   \* DEFAULT_FETCH_LIMIT
          Limits,       \* the limits clients put into Fetch
          DeliverMax, FetchMax, Minute,   \* the two rate limiters
          Conns,        \* connection tasks alive at once
          Ops,          \* kinds of requests in use
          AnswersMayBeLost,   \* whether connections break before the answer
          MaxRestarts   \* bound on restarts of the server

OpKinds == {"deliver", "fetch", "ack", "invalid"}

ASSUME StampsAreNats == Stamps \subseteq Nat /\ 0 \in Stamps
ASSUME CapIsNat == Cap \in Nat
ASSUME RetentionIsNat == Retention \in Nat
ASSUME SizesAreNats == Size \in [Ids -> Nat] /\ MaxMessage \in Nat
ASSUME LimitsAreNats == BatchLimit \in Nat \ {0} /\ Limits \subseteq Nat
ASSUME OpsKnown == Ops \subseteq OpKinds /\ AnswersMayBeLost \in BOOLEAN
ASSUME LimitersAreNats == DeliverMax \in Nat /\ FetchMax \in Nat /\ Minute \in Nat \ {0}
ASSUME MaxRestartsIsNat == MaxRestarts \in Nat

Deliveries == INSTANCE TokenBucket WITH Max <- DeliverMax
Fetches == INSTANCE TokenBucket WITH Max <- FetchMax

VARIABLES queue,      \* queue[u]: the VecDeque of u's envelopes
          deliveries, \* deliveries[u]: u's bucket in deliver_limiter
          fetches,    \* fetches[u]: u's bucket in fetch_limiter
          clock,      \* SystemTime::now()
          sweep,      \* readings of the eviction task not yet applied
          task,       \* task[c]: where connection c is
          got,        \* got[u]: ids u has received and not yet acked
          known,      \* history: ids assigned so far
          peak,       \* history: highest clock reading
          order,      \* history: envelopes in the order they were put
          handed,     \* history: ids whose envelope reached its recipient
          restarts

limiters == <<deliveries, fetches>>
history == <<known, peak, order, handed>>
vars == <<queue, limiters, clock, sweep, task, got, history, restarts>>

Envelope == [id: Ids, to: Users, at: Stamps]
NoUser == "not a key"    \* a Deliver whose `to` is not 32 bytes
Request ==
    [op: {"deliver"}, to: Users \cup {NoUser}]
    \cup [op: {"fetch"}, limit: Limits]
    \cup [op: {"ack"}, ids: SUBSET Ids]
    \cup [op: {"invalid"}]    \* a server-only variant, or an id of the wrong length
Idle == [pc |-> "idle"]

Contents(s) == {s[i] : i \in DOMAIN s}
IdsOf(s) == {s[i].id : i \in DOMAIN s}
Held == UNION {Contents(queue[u]) : u \in Users}
------------------------------------------------------------------------------
Init ==
    /\ queue = [u \in Users |-> <<>>]
    /\ deliveries = [u \in Users |-> Deliveries!FreshBucket]
    /\ fetches = [u \in Users |-> Fetches!FreshBucket]
    /\ clock = 0
    /\ sweep = {}
    /\ task = [c \in Conns |-> Idle]
    /\ got = [u \in Users |-> {}]
    /\ known = {}
    /\ peak = 0
    /\ order = <<>>
    /\ handed = {}
    /\ restarts = 0

(* The wall clock, which may also be set back; the monotonic one, which    *)
(* fills the buckets.                                                      *)
Tick(now) ==
    /\ clock' = now
    /\ peak' = IF now > peak THEN now ELSE peak
    /\ UNCHANGED <<queue, limiters, sweep, task, got, known, order, handed, restarts>>

ElapseUnnoticed ==
    /\ deliveries' = [u \in Users |-> [deliveries[u] EXCEPT !.elapsed = 0]]
    /\ fetches' = [u \in Users |-> [fetches[u] EXCEPT !.elapsed = 0]]
    /\ UNCHANGED <<queue, clock, sweep, task, got, history, restarts>>
Elapse ==
    /\ deliveries' = [u \in Users |-> Deliveries!Aged(deliveries[u])]
    /\ fetches' = [u \in Users |-> Fetches!Aged(fetches[u])]
    /\ UNCHANGED <<queue, clock, sweep, task, got, history, restarts>>

Moves(c, to) == task' = [task EXCEPT ![c] = to]
Answer(c, kind, batch) ==
    Moves(c, [pc |-> "reply", by |-> task[c].by, kind |-> kind, batch |-> batch])

(* Bound: no more deliveries than there are ids for.                       *)
Delivering(c) == \/ task[c].pc = "dispatch" /\ task[c].req.op = "deliver"
                 \/ task[c].pc \in {"admitted", "put"}
IdsLeft == Cardinality(known) + Cardinality({c \in Conns : Delivering(c)}) < Cardinality(Ids)

(* Handshake done: the channel tells who asks, the first message what.     *)
Open(c, u, r) ==
    /\ task[c] = Idle
    /\ r.op \in Ops
    /\ r.op = "deliver" => IdsLeft
    /\ Moves(c, [pc |-> "dispatch", by |-> u, req |-> r])
    /\ UNCHANGED <<queue, limiters, clock, sweep, got, history, restarts>>

Dispatching(c, op) == task[c].pc = "dispatch" /\ task[c].req.op = op

Invalid(c) ==
    /\ Dispatching(c, "invalid")
    /\ Answer(c, "error", <<>>)
    /\ UNCHANGED <<queue, limiters, clock, sweep, got, history, restarts>>

(* The limiter is asked first: a bad key costs a token too.                *)
LimitDeliver(c) ==
    /\ Dispatching(c, "deliver")
    /\ LET b == deliveries[task[c].by] IN
          /\ deliveries' = [deliveries EXCEPT ![task[c].by] = Deliveries!Checked(b)]
          /\ IF Deliveries!MayTake(b) /\ task[c].req.to # NoUser
                THEN Moves(c, [task[c] EXCEPT !.pc = "admitted"])
                ELSE Answer(c, "error", <<>>)
    /\ UNCHANGED <<queue, fetches, clock, sweep, got, history, restarts>>

(* Stamped and given a random id before the store's lock is taken.         *)
Stamp(c, id) ==
    /\ task[c].pc = "admitted"
    /\ id \notin known \cup {task[d].env.id : d \in {x \in Conns : task[x].pc = "put"}}
    /\ Moves(c, [pc |-> "put", by |-> task[c].by,
                 env |-> [id |-> id, to |-> task[c].req.to, at |-> clock]])
    /\ UNCHANGED <<queue, limiters, clock, sweep, got, history, restarts>>

KeptOffByOne(s) == IF Len(s) > Cap + 1 THEN SubSeq(s, Len(s) - Cap, Len(s)) ELSE s
Kept(s) == IF Len(s) > Cap THEN SubSeq(s, Len(s) - Cap + 1, Len(s)) ELSE s

(* push_back, then pop_front while over the cap, under one lock.           *)
Put(c) ==
    /\ task[c].pc = "put"
    /\ LET e == task[c].env IN
          /\ queue' = [queue EXCEPT ![e.to] = Kept(Append(@, e))]
          /\ known' = known \cup {e.id}
          /\ order' = Append(order, e)
    /\ Answer(c, "ok", <<>>)
    /\ UNCHANGED <<limiters, clock, sweep, got, peak, handed, restarts>>

LimitFetch(c) ==
    /\ Dispatching(c, "fetch")
    /\ LET b == fetches[task[c].by] IN
          /\ fetches' = [fetches EXCEPT ![task[c].by] = Fetches!Checked(b)]
          /\ IF Fetches!MayTake(b) THEN Moves(c, [task[c] EXCEPT !.pc = "read"])
                                   ELSE Answer(c, "error", <<>>)
    /\ UNCHANGED <<queue, deliveries, clock, sweep, got, history, restarts>>

BatchSize(limit) == IF limit = 0 \/ limit > BatchLimit THEN BatchLimit ELSE limit
Newest(s, n) == IF Len(s) > n THEN SubSeq(s, Len(s) - n + 1, Len(s)) ELSE s
Oldest(s, n) == IF Len(s) > n THEN SubSeq(s, 1, n) ELSE s

ReadPending(c) ==
    /\ task[c].pc = "read"
    /\ Answer(c, "batch", Oldest(queue[task[c].by], BatchSize(task[c].req.limit)))
    /\ UNCHANGED <<queue, limiters, clock, sweep, got, history, restarts>>

NotNamed(c) == {e \in Envelope : e.id \notin task[c].req.ids}

DeleteAnywhere(c) ==
    /\ Dispatching(c, "ack")
    /\ queue' = [u \in Users |-> Retain(queue[u], NotNamed(c))]
    /\ Answer(c, "ok", <<>>)
    /\ UNCHANGED <<limiters, clock, sweep, got, history, restarts>>

(* retain, on the requester's own queue.                                   *)
Delete(c) ==
    /\ Dispatching(c, "ack")
    /\ queue' = [queue EXCEPT ![task[c].by] = Retain(@, NotNamed(c))]
    /\ Answer(c, "ok", <<>>)
    /\ UNCHANGED <<limiters, clock, sweep, got, history, restarts>>

Weight(s) ==
    LET sum[i \in 0..Len(s)] == IF i = 0 THEN 0 ELSE sum[i - 1] + Size[s[i].id]
    IN  sum[Len(s)]
Fits(c) == Weight(task[c].batch) <= MaxMessage

(* channel.send; the client has its answer, the connection closes.         *)
Reply(c) ==
    /\ task[c].pc = "reply"
    /\ Fits(c)
    /\ Moves(c, Idle)
    /\ got' = [got EXCEPT ![task[c].by] = @ \cup IdsOf(task[c].batch)]
    /\ handed' = handed \cup IdsOf(task[c].batch)
    /\ UNCHANGED <<queue, limiters, clock, sweep, known, peak, order, restarts>>

(* TransportTooLarge: the task ends with an error and says nothing.        *)
ReplyTooLarge(c) ==
    /\ task[c].pc = "reply"
    /\ ~Fits(c)
    /\ Moves(c, Idle)
    /\ UNCHANGED <<queue, limiters, clock, sweep, got, history, restarts>>

(* The connection breaks: what was asked is done, the answer is lost.      *)
ReplyLost(c) ==
    /\ AnswersMayBeLost
    /\ task[c].pc = "reply"
    /\ Moves(c, Idle)
    /\ UNCHANGED <<queue, limiters, clock, sweep, got, history, restarts>>

(* The client acks what its fetches have brought.                          *)
AckReceived(c, u) ==
    /\ task[c] = Idle
    /\ got[u] # {}
    /\ Moves(c, [pc |-> "dispatch", by |-> u, req |-> [op |-> "ack", ids |-> got[u]]])
    /\ got' = [got EXCEPT ![u] = {}]
    /\ UNCHANGED <<queue, limiters, clock, sweep, history, restarts>>

ReadForSweep ==
    /\ sweep = {}
    /\ sweep' = {clock}
    /\ UNCHANGED <<queue, limiters, clock, task, got, history, restarts>>

Cutoff(now) == IF now > Retention THEN now - Retention ELSE 0

Evict(now) ==
    /\ now \in sweep
    /\ sweep' = {}
    /\ queue' = [u \in Users |-> Retain(queue[u], {e \in Envelope : e.at >= Cutoff(now)})]
    /\ UNCHANGED <<limiters, clock, task, got, history, restarts>>

(* Everything the server knows is in memory.                               *)
Restart ==
    /\ restarts < MaxRestarts
    /\ restarts' = restarts + 1
    /\ queue' = [u \in Users |-> <<>>]
    /\ deliveries' = [u \in Users |-> Deliveries!FreshBucket]
    /\ fetches' = [u \in Users |-> Fetches!FreshBucket]
    /\ sweep' = {}
    /\ task' = [c \in Conns |-> Idle]
    /\ UNCHANGED <<clock, got, history>>

Serve(c) ==
    \/ Invalid(c) \/ LimitDeliver(c) \/ (\E id \in Ids : Stamp(c, id)) \/ Put(c)
    \/ LimitFetch(c) \/ ReadPending(c) \/ Delete(c) \/ Reply(c) \/ ReplyTooLarge(c)

Next ==
    \/ \E now \in Stamps : Tick(now)
    \/ Elapse
    \/ \E c \in Conns, u \in Users : (\E r \in Request : Open(c, u, r)) \/ AckReceived(c, u)
    \/ \E c \in Conns : Serve(c) \/ ReplyLost(c)
    \/ ReadForSweep
    \/ \E now \in sweep : Evict(now)
    \/ Restart

Spec == Init /\ [][Next]_vars

(* Tokio runs every task, time goes on, and every client polls and acks    *)
(* for ever, getting a connection again and again.                         *)
Poll(c, u) == \E r \in Request : r.op = "fetch" /\ Open(c, u, r)
FairSpec ==
    /\ Spec
    /\ WF_vars(Elapse)
    /\ \A c \in Conns : WF_vars(Serve(c))
    /\ \A u \in Users : /\ SF_vars(\E c \in Conns : Poll(c, u))
                        /\ SF_vars(\E c \in Conns : AckReceived(c, u))
------------------------------------------------------------------------------
(* Queues, buckets and tasks keep their types; every queue keeps its cap.  *)
TypeOK ==
    /\ \A u \in Users : /\ Len(queue[u]) <= Cap
                        /\ \A e \in Contents(queue[u]) : e \in Envelope /\ e.to = u
    /\ deliveries \in [Users -> Deliveries!Bucket]
    /\ fetches \in [Users -> Fetches!Bucket]
    /\ clock \in Stamps /\ peak \in Stamps /\ sweep \subseteq Stamps
    /\ \A c \in Conns : task[c].pc \in {"idle", "dispatch", "admitted", "put", "read", "reply"}
    /\ got \in [Users -> SUBSET Ids]
    /\ IdsOf(order) = known
    /\ handed \subseteq known
    /\ restarts \in 0..MaxRestarts

(* The service over the in-memory store keeps the promise of Mailbox until *)
(* the server restarts: who asks is whom the handshake proved, and only    *)
(* its own mail can go (service.rs:421-488, store.rs:171-187).             *)
Asked == UNION {{task[c].by} \X task[c].req.ids : c \in {x \in Conns : Dispatching(x, "ack")}}
Abstract == INSTANCE Mailbox WITH held <- Held, asked <- Asked
KeepsMailbox == Abstract!VolatileSpec

(* "Pending envelopes, oldest first" (message.rs:77): no envelope reaches  *)
(* its recipient while an older one to it is still pending unseen.         *)
NothingSkipped ==
    \A j \in DOMAIN order : order[j].id \in handed =>
        \A i \in 1..(j - 1) :
            order[i].to = order[j].to /\ order[i] \in Held => order[i].id \in handed

(* "Client should issue another Fetch to drain them" (message.rs:79-80):   *)
(* polling and acking empties the mailbox of whatever is in it, in spite   *)
(* of the rate limit.                                                      *)
MailDrains == \A id \in Ids : (\E e \in Held : e.id = id) ~> (\A e \in Held : e.id # id)
==============================================================================
