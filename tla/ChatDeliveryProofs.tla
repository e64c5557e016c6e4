-------------------------- MODULE ChatDeliveryProofs --------------------------
(***************************************************************************)
(* Proofs about ChatDelivery for every number of devices, messages, polls  *)
(* and faults and every choice of the limits: its types, what "sent" may   *)
(* be said of, how conversations grow, and that the loop of                *)
(* chat_fetch_relay_messages neither loses a message nor leaves a gap.     *)
(***************************************************************************)
EXTENDS ChatDelivery, QueuesProofs

Conversations == [Peers -> [Peers -> Seq(Message)]]

Types ==
    /\ mem \in Conversations /\ disk \in Conversations
    /\ sender \in [Chats -> SenderStates]
    /\ wire \in [Chats -> {"none", "request", "answer", "broken"}]
    /\ inbox \in [Peers -> Seq(Items)]
    /\ poller \in [Pollers -> Poll]
    /\ reader \in [Peers -> BOOLEAN]
    /\ panel \in [Peers -> SUBSET Items]
    /\ log \in Seq(Items)
    /\ displaced \subseteq Items
    /\ saved \subseteq Chats
    /\ scenario \in Scenario
    /\ \E sc \in Scenarios : /\ scenario.faults \in 0..sc.faults
                            /\ scenario = [sc EXCEPT !.faults = scenario.faults]

(* Conversations and inboxes within their caps.                            *)
Capped ==
    /\ \A d, o \in Peers : /\ Len(mem[d][o]) <= scenario.maxHistory
                           /\ Len(disk[d][o]) <= scenario.maxHistory
    /\ \A d \in Peers : Len(inbox[d]) <= scenario.relayCap

(* The relay takes a message at most once, and answers for what it took.   *)
TakenOnce ==
    /\ NoneTwice(log)
    /\ \A m \in Chats :
          /\ sender[m] \in {"idle", "composed", "lookup"} => wire[m] = "none" /\ m \notin Accepted
          /\ wire[m] = "request" => m \notin Accepted
          /\ wire[m] = "answer" => m \in Accepted

(* An inbox holds its owner's mail, in the order the relay took it.        *)
InboxesAreParts ==
    /\ \A d \in Peers : /\ PartOf(inbox[d], log)
                        /\ \A p \in 1..Len(inbox[d]) : To[inbox[d][p]] = d
    /\ displaced \subseteq Accepted

(* What an app has received, or is about to, the relay had for it.         *)
MailFor(d) == {x \in Accepted : To[x] = d}
ReceivedWasTaken ==
    /\ \A d \in Peers : /\ ReceivedIn(mem[d]) \subseteq MailFor(d)
                        /\ ReceivedIn(disk[d]) \subseteq MailFor(d) \cap saved
    /\ saved \subseteq Accepted
    /\ \A p \in Pollers :
          /\ \A k \in 1..Len(poller[p].batch) : poller[p].batch[k] \in MailFor(Host[p])
          /\ poller[p].pc = "saving" => poller[p].batch # <<>> /\ poller[p].batch[1] \in Chats

(* What comes in is recorded as delivered, later as read                   *)
(* (chat_store.rs:119-160).                                                *)
Directed(h) == \A i \in 1..Len(h) : h[i].dir = "incoming" => h[i].status \in {"delivered", "read"}
RecordsAreDirected == \A d, o \in Peers : Directed(mem[d][o]) /\ Directed(disk[d][o])

(* Until it is settled, a message is recorded as on its way or not at all. *)
NotIn(h, m) == \A i \in 1..Len(h) : h[i].id # m
OnItsWay(h, m) == \A i \in 1..Len(h) : h[i].id = m => h[i] = Outgoing(m, "sending")
StillSending ==
    \A m \in Chats :
        /\ sender[m] = "idle" => NotIn(mem[From[m]][To[m]], m) /\ NotIn(disk[From[m]][To[m]], m)
        /\ sender[m] \in {"composed", "lookup", "await"} => OnItsWay(mem[From[m]][To[m]], m)

(* What is on disk, memory has grown from.                                 *)
DiskIsPast == \A d, o \in Peers : Grows(disk[d][o], mem[d][o])

(* Everything to its recipient that the relay took before x is in S.       *)
Follows(o, x, S) ==
    \A i, j \in 1..Len(o) :
        i < j /\ o[j] = x /\ o[i] \in Chats /\ To[o[i]] = To[x] => o[i] \in S

Gone == saved \cup displaced

(* An app acks what it has saved, and is about to save what it has added.  *)
AcksAreSaved ==
    \A p \in Pollers :
        /\ poller[p].acks \subseteq saved
        /\ poller[p].pc = "saving" => poller[p].batch[1] \in ReceivedIn(mem[Host[p]]) \cup saved

(* Nothing overtakes: on disk, in memory, or on its way through a poll.    *)
SavedFollow == \A x \in saved : Follows(log, x, Gone)
ReceivedFollow ==
    \A d \in Peers : \A x \in ReceivedIn(mem[d]) : Follows(log, x, Gone \cup ReceivedIn(mem[d]))
Before(b, k) == {b[l] : l \in 1..(k - 1)}
BatchesFollow ==
    \A p \in Pollers : \A k \in 1..Len(poller[p].batch) :
        Follows(log, poller[p].batch[k], Gone \cup Before(poller[p].batch, k))

PanelShut == \A d \in Peers : panel[d] = {}
NothingIsLost ==
    /\ AcksAreSaved
    /\ \/ Happens("panel")
       \/ PanelShut /\ AckedIsSaved /\ SavedFollow /\ ReceivedFollow /\ BatchesFollow

(* A full conversation drops its oldest message: that is no loss if the    *)
(* message has been on disk.                                               *)
NothingSlidesOutUnsaved ==
    \/ scenario' # scenario
    \/ \A d \in Peers : ReceivedIn(mem[d]) \subseteq ReceivedIn(mem'[d]) \cup saved

IInv == Types /\ Capped /\ TakenOnce /\ InboxesAreParts /\ ReceivedWasTaken
HInv == IInv /\ RecordsAreDirected /\ StillSending /\ DiskIsPast
-------------------------------------------------------------------------------
(* What a queue holds, one by one.                                         *)
LEMMA RangeIs ==
    ASSUME NEW S, NEW s \in Seq(S)
    PROVE  /\ \A x : x \in Range(s) <=> \E i \in 1..Len(s) : s[i] = x
           /\ Range(s) \subseteq S
           /\ Range(s) = {s[i] : i \in 1..Len(s)}
<1>1. DOMAIN s = 1..Len(s) /\ \A i \in 1..Len(s) : s[i] \in S
  BY LenProperties, ElementOfSeq
<1> QED
  BY <1>1 DEF Range

(* push_back adds one to what it holds (store.rs:140).                     *)
LEMMA RangeOfAppend ==
    ASSUME NEW S, NEW s \in Seq(S), NEW x \in S
    PROVE  Range(Append(s, x)) = Range(s) \cup {x}
<1> DEFINE t == Append(s, x)
<1>1. /\ t \in Seq(S) /\ Len(s) \in Nat /\ Len(t) = Len(s) + 1 /\ t[Len(s) + 1] = x
      /\ \A i \in 1..Len(s) : t[i] = s[i]
  BY AppendProperties, LenProperties
<1> HIDE DEF t
<1>2. /\ \A i \in 1..Len(t) : i \in 1..Len(s) \/ i = Len(s) + 1
      /\ Len(s) + 1 \in 1..Len(t) /\ \A i \in 1..Len(s) : i \in 1..Len(t)
  BY <1>1
<1>3. \A y : y \in Range(t) <=> y \in Range(s) \/ y = x
  BY <1>1, <1>2, RangeIs
<1> QED
  BY <1>3 DEF t

\* How many entries a push drops at the front of a queue within its cap.
Slid(s, cap) == IF Len(s) < cap THEN 0 ELSE 1

\* r is s with x behind it and, when s was full, without its first entry.
Pushed(r, s, x, cap, S) ==
    LET k == Slid(s, cap)
    IN  /\ r \in Seq(S)
        /\ Len(r) <= cap
        /\ PartOf(r, Append(s, x))
        /\ k \in {0, 1} /\ k <= Len(s)
        /\ Len(r) = Len(s) + 1 - k
        /\ k = 1 => Len(r) = cap
        /\ \A i \in 1..(Len(s) - k) : r[i] = s[i + k]
        /\ r[Len(r)] = x /\ Len(r) \in 1..Len(r)

(* push_back, and pop_front while over the cap (store.rs:140-147,          *)
(* chat_store.rs:123-129): a queue within its cap loses its first entry or *)
(* none.                                                                   *)
LEMMA PushedIs ==
    ASSUME NEW S, NEW s \in Seq(S), NEW x \in S, NEW cap \in Nat \ {0}, Len(s) <= cap
    PROVE  Pushed(PushBounded(s, x, cap), s, x, cap, S)
<1> DEFINE t == Append(s, x)
           r == PushBounded(s, x, cap)
<1>1. /\ t \in Seq(S) /\ Len(s) \in Nat /\ Len(t) = Len(s) + 1 /\ t[Len(s) + 1] = x
      /\ \A i \in 1..Len(s) : t[i] = s[i]
  BY AppendProperties, LenProperties
<1>2. r = IF Len(t) > cap THEN SubSeq(t, Len(t) - cap + 1, Len(t)) ELSE t
  BY DEF PushBounded
<1> HIDE DEF t, r
<1>3. CASE Len(t) > cap
  <2>0. Slid(s, cap) = 1
    BY <1>1, <1>3 DEF Slid
  <2>1. cap = Len(s) /\ Len(t) - cap + 1 = 2 /\ Len(t) \in 0..Len(t) /\ 2 \in Nat \ {0} /\ 2 <= Len(t)
    BY <1>1, <1>3
  <2>2. r = SubSeq(t, 2, Len(t))
    BY <1>2, <1>3, <2>1
  <2>3. /\ r \in Seq(S)
        /\ Len(r) = IF 2 <= Len(t) THEN Len(t) - 2 + 1 ELSE 0
        /\ \A p \in 1..Len(r) : r[p] = t[2 + p - 1]
        /\ PartOf(r, t)
    <3> DEFINE u == SubSeq(t, 2, Len(t))
    <3>1. /\ u \in Seq(S) /\ PartOf(u, t)
          /\ Len(u) = IF 2 <= Len(t) THEN Len(t) - 2 + 1 ELSE 0
          /\ \A p \in 1..Len(u) : u[p] = t[2 + p - 1]
      <4>1. t \in Seq(S) /\ 2 \in Nat \ {0} /\ Len(t) \in 0..Len(t)
        BY <1>1, <2>1
      <4> QED
        BY ONLY <4>1, StretchIsPart
    <3>2. r = u
      BY <2>2
    <3> HIDE DEF u
    <3> QED
      BY ONLY <3>1, <3>2
  <2>4. Len(r) = Len(s) /\ Len(r) = cap /\ \A i \in 1..(Len(s) - 1) : r[i] = s[i + 1]
    <3>1. Len(r) = Len(s) /\ Len(r) = cap
      BY <1>1, <2>1, <2>3
    <3>2. \A i \in 1..(Len(s) - 1) : i \in 1..Len(r) /\ 2 + i - 1 = i + 1 /\ i + 1 \in 1..Len(s)
      BY <1>1, <3>1
    <3> QED
      BY <1>1, <2>3, <3>1, <3>2
  <2>5. r[Len(r)] = x /\ Len(r) \in 1..Len(r)
    <3>1. Len(r) \in 1..Len(r) /\ 2 + Len(r) - 1 = Len(s) + 1
      BY <1>1, <2>1, <2>4
    <3> QED
      BY <1>1, <2>3, <3>1
  <2> QED
    BY <1>1, <2>0, <2>1, <2>3, <2>4, <2>5 DEF t, r, Pushed
<1>4. CASE ~(Len(t) > cap)
  <2>1. r = t /\ Len(t) <= cap /\ Slid(s, cap) = 0
    BY <1>1, <1>2, <1>4 DEF Slid
  <2>2. PartOf(t, t)
    BY DEF PartOf
  <2>3. /\ 0 <= Len(s) /\ Len(t) = Len(s) + 1 - 0 /\ t[Len(t)] = x /\ Len(t) \in 1..Len(t)
        /\ \A i \in 1..(Len(s) - 0) : t[i] = s[i + 0]
    BY <1>1
  <2> QED
    BY <1>1, <2>1, <2>2, <2>3 DEF t, r, Pushed
<1> QED
  BY <1>3, <1>4

\* A record with another status.
WithStatus(r, s) == [r EXCEPT !.status = s]

(* update_status (chat_store.rs:141-150) touches the status of one record. *)
LEMMA SetStatusIs ==
    ASSUME NEW S, NEW h \in Seq(S), NEW m, NEW s,
           \A r \in S : r.id = m => WithStatus(r, s) \in S
    PROVE  LET g == SetStatus(h, m, s) IN
           /\ g \in Seq(S)
           /\ Len(g) = Len(h)
           /\ \A i \in 1..Len(h) :
                 g[i] = h[i] \/ (h[i].id = m /\ g[i] = WithStatus(h[i], s))
<1> DEFINE g == SetStatus(h, m, s)
           hits == {i \in DOMAIN h : h[i].id = m}
<1>1. Len(h) \in Nat /\ DOMAIN h = 1..Len(h) /\ h \in [1..Len(h) -> S]
  BY LenProperties
<1>2. CASE hits = {}
  BY <1>1, <1>2 DEF SetStatus
<1>3. CASE hits # {}
  <2> DEFINE first == CHOOSE i \in hits : \A j \in hits : i <= j
  <2>1. hits \subseteq Nat
    BY <1>1
  <2>2. \E i \in hits : \A j \in hits : i <= j
    BY <1>3, <2>1, LeastNumber
  <2>3. first \in hits
    BY <2>2
  <2>4. g = [h EXCEPT ![first].status = s]
    BY <1>3 DEF SetStatus
  <2> HIDE DEF g, hits, first
  <2>5. first \in 1..Len(h) /\ h[first].id = m /\ h[first] \in S
    BY <1>1, <2>3 DEF hits
  <2>6. WithStatus(h[first], s) \in S
    BY <2>5
  <2>7. g = [i \in 1..Len(h) |-> IF i = first THEN WithStatus(h[first], s) ELSE h[i]]
    BY <1>1, <2>4, <2>5 DEF WithStatus
  <2>8. g \in [1..Len(h) -> S]
    BY <1>1, <2>6, <2>7
  <2>9. g \in Seq(S) /\ Len(g) = Len(h)
    BY <1>1, <2>8, IsASeq, LenProperties
  <2> QED
    BY <2>5, <2>7, <2>9 DEF g
<1> QED
  BY <1>2, <1>3

(* mark_read (chat_store.rs:152-160) touches the status of what came in.   *)
LEMMA MarkedIs ==
    ASSUME NEW S, NEW h \in Seq(S),
           \A r \in S : r.dir = "incoming" => WithStatus(r, "read") \in S
    PROVE  LET g == MarkIncomingRead(h) IN
           /\ g \in Seq(S)
           /\ Len(g) = Len(h)
           /\ \A i \in 1..Len(h) :
                 \/ g[i] = h[i]
                 \/ h[i].dir = "incoming" /\ g[i] = WithStatus(h[i], "read")
<1> DEFINE g == MarkIncomingRead(h)
<1>1. Len(h) \in Nat /\ DOMAIN h = 1..Len(h) /\ \A i \in 1..Len(h) : h[i] \in S
  BY LenProperties, ElementOfSeq
<1>2. g = [i \in 1..Len(h) |-> IF h[i].dir = "incoming" THEN WithStatus(h[i], "read") ELSE h[i]]
  BY <1>1 DEF MarkIncomingRead, WithStatus
<1> HIDE DEF g
<1>3. g \in [1..Len(h) -> S]
  BY <1>1, <1>2
<1>4. g \in Seq(S) /\ Len(g) = Len(h)
  BY <1>1, <1>3, LenProperties
<1> QED
  BY <1>2, <1>4 DEF g

(* What came in by a conversation.                                         *)
LEMMA IncomingsAre ==
    ASSUME NEW S, NEW h \in Seq(S)
    PROVE  \A x : x \in Incomings(h) <=>
                     \E i \in 1..Len(h) : h[i].dir = "incoming" /\ h[i].id = x
<1>1. DOMAIN h = 1..Len(h)
  BY LenProperties
<1> QED
  BY <1>1 DEF Incomings

(* A record pushed to a conversation adds at most itself to what came in   *)
(* (chat_store.rs:119-130).                                                *)
LEMMA PushedIncomings ==
    ASSUME NEW h \in Seq(Message), NEW r \in Message, NEW cap \in Nat \ {0}, Len(h) <= cap
    PROVE  LET g == PushBounded(h, r, cap) IN
           /\ \A x \in Incomings(g) : x \in Incomings(h) \/ (r.dir = "incoming" /\ x = r.id)
           /\ r.dir = "incoming" => r.id \in Incomings(g)
<1> DEFINE g == PushBounded(h, r, cap)
           k == Slid(h, cap)
<1>1. /\ g \in Seq(Message) /\ k \in {0, 1} /\ k <= Len(h) /\ Len(g) = Len(h) + 1 - k
      /\ \A i \in 1..(Len(h) - k) : g[i] = h[i + k]
      /\ g[Len(g)] = r /\ Len(g) \in 1..Len(g)
  BY PushedIs DEF Pushed
<1>2. g \in Seq(Message) /\ Len(h) \in Nat
  BY <1>1, LenProperties
<1> HIDE DEF g, k
<1>3. \A i \in 1..Len(g) : i = Len(g) \/ (i \in 1..(Len(h) - k) /\ i + k \in 1..Len(h))
  BY <1>1, <1>2
<1>5. \A x \in Incomings(g) : x \in Incomings(h) \/ (r.dir = "incoming" /\ x = r.id)
  <2> TAKE x \in Incomings(g)
  <2>1. PICK i \in 1..Len(g) : g[i].dir = "incoming" /\ g[i].id = x
    BY <1>2, IncomingsAre
  <2>2. CASE i = Len(g)
    BY <1>1, <2>1, <2>2
  <2>3. CASE i \in 1..(Len(h) - k) /\ i + k \in 1..Len(h)
    BY <1>1, <2>1, <2>3, IncomingsAre
  <2> QED
    BY <1>3, <2>2, <2>3
<1>6. r.dir = "incoming" => r.id \in Incomings(g)
  BY <1>1, IncomingsAre
<1> QED
  BY <1>5, <1>6 DEF g

(* Changing statuses changes nothing of what came in.                      *)
LEMMA SameIncomings ==
    ASSUME NEW h \in Seq(Message), NEW g \in Seq(Message), Len(g) = Len(h),
           \A i \in 1..Len(h) : g[i].id = h[i].id /\ g[i].dir = h[i].dir
    PROVE  Incomings(g) = Incomings(h)
<1>1. \A x : x \in Incomings(g) <=> x \in Incomings(h)
  BY IncomingsAre
<1> QED
  BY <1>1

(* One conversation rewritten: what came in by all of them.                *)
LEMMA ReceivedAfter ==
    ASSUME NEW convs \in [Peers -> Seq(Message)], NEW o \in Peers, NEW h
    PROVE  LET new == [convs EXCEPT ![o] = h] IN
           /\ ReceivedIn(new) \subseteq ReceivedIn(convs) \cup Incomings(h)
           /\ Incomings(h) \subseteq ReceivedIn(new)
           /\ Incomings(convs[o]) \subseteq Incomings(h) => ReceivedIn(convs) \subseteq ReceivedIn(new)
           /\ Incomings(convs[o]) = Incomings(h) => ReceivedIn(new) = ReceivedIn(convs)
<1> DEFINE new == [convs EXCEPT ![o] = h]
<1>1. new[o] = h /\ \A q \in Peers \ {o} : new[q] = convs[q]
  OBVIOUS
<1> HIDE DEF new
<1>2. /\ \A x : x \in ReceivedIn(new) <=> \E q \in Peers : x \in Incomings(new[q])
      /\ \A x : x \in ReceivedIn(convs) <=> \E q \in Peers : x \in Incomings(convs[q])
  BY DEF ReceivedIn
<1> HIDE DEF ReceivedIn, Incomings
<1>3. /\ ReceivedIn(new) \subseteq ReceivedIn(convs) \cup Incomings(h)
      /\ Incomings(h) \subseteq ReceivedIn(new)
  BY <1>1, <1>2
<1>4. Incomings(convs[o]) \subseteq Incomings(h) => ReceivedIn(convs) \subseteq ReceivedIn(new)
  BY <1>1, <1>2
<1>5. Incomings(convs[o]) = Incomings(h) => ReceivedIn(new) = ReceivedIn(convs)
  BY <1>1, <1>2
<1> QED
  BY <1>3, <1>4, <1>5 DEF new
-------------------------------------------------------------------------------
(* Who writes the conversations in memory (lib.rs:1358-1506,               *)
(* chat_mark_read, start-up).                                              *)
LEMMA MemoryWriters ==
    ASSUME Next
    PROVE  \/ mem' = mem
           \/ \E m \in Chats : Compose(m)
           \/ \E m \in Chats : Settle(m, "sent") /\ wire[m] = "answer" /\ UNCHANGED <<log, scenario>>
           \/ \E m \in Chats : Settle(m, "failed") /\ UNCHANGED <<log, scenario>>
           \/ \E p \in Pollers : AddMessage(p)
           \/ \E d, o \in Peers : MarkRead(d, o)
           \/ \E d \in Peers : Crash(d)
<1>1. ASSUME NEW m \in Chats, SaveComposed(m) \/ GiveUpEarly(m) \/ SendRequest(m) \/ SaveSettled(m)
                              \/ SaveSettledFails(m) \/ Relaying(m)
      PROVE  mem' = mem
  BY <1>1 DEF SaveComposed, GiveUpEarly, SendRequest, SaveSettled, SaveSettledFails, Relaying,
              RelayAccepts, ConnectionBreaks, GoesSilent, Vanishes
<1>2. ASSUME NEW m \in Chats, Answered(m)
      PROVE  Settle(m, "sent") /\ wire[m] = "answer" /\ UNCHANGED <<log, scenario>>
  BY <1>2 DEF Answered
<1>3. ASSUME NEW m \in Chats, NotAnswered(m)
      PROVE  Settle(m, "failed") /\ UNCHANGED <<log, scenario>>
  BY <1>3 DEF NotAnswered
<1>4. ASSUME NEW v \in Vaults, VaultArrives(v) PROVE mem' = mem
  BY <1>4 DEF VaultArrives
<1>5. ASSUME NEW p \in Pollers, Polling(p) PROVE mem' = mem \/ AddMessage(p)
  BY <1>5 DEF Polling, Fetch, SkipForeign, SaveAdded, SaveAddedFails, Ack, AckLost
<1>6. ASSUME NEW d \in Peers, PanelFetch(d) \/ PanelAutoAck(d) \/ SaveRead(d) PROVE mem' = mem
  BY <1>6 DEF PanelFetch, PanelAutoAck, SaveRead
<1> QED
  BY <1>1, <1>2, <1>3, <1>4, <1>5, <1>6 DEF Next, Sending

(* The disk is only ever written with all of memory (lib.rs:125-142).      *)
LEMMA DiskWriters ==
    ASSUME Next
    PROVE  \/ UNCHANGED <<disk, saved>>
           \/ \E d \in Peers : Persist(d) /\ UNCHANGED <<mem, log, inbox, displaced, panel, scenario>>
<1>1. ASSUME NEW m \in Chats, Sending(m) \/ Relaying(m)
      PROVE  \/ UNCHANGED <<disk, saved>>
             \/ Persist(From[m]) /\ UNCHANGED <<mem, log, inbox, displaced, panel, scenario>>
  BY <1>1 DEF Sending, Compose, SaveComposed, GiveUpEarly, SendRequest, Answered, NotAnswered,
              SaveSettled, SaveSettledFails, SaveFails, Relaying, RelayAccepts,
              ConnectionBreaks, GoesSilent, Vanishes, relayVars
<1>2. ASSUME NEW v \in Vaults, VaultArrives(v) PROVE UNCHANGED <<disk, saved>>
  BY <1>2 DEF VaultArrives
<1>3. ASSUME NEW p \in Pollers, Polling(p)
      PROVE  \/ UNCHANGED <<disk, saved>>
             \/ Persist(Host[p]) /\ UNCHANGED <<mem, log, inbox, displaced, panel, scenario>>
  BY <1>3 DEF Polling, Fetch, SkipForeign, AddMessage, SaveAdded, SaveAddedFails, SaveFails,
              Ack, AckLost, relayVars
<1>4. ASSUME NEW d \in Peers, PanelFetch(d) \/ PanelAutoAck(d) \/ SaveRead(d) \/ Crash(d)
      PROVE  \/ UNCHANGED <<disk, saved>>
             \/ Persist(d) /\ UNCHANGED <<mem, log, inbox, displaced, panel, scenario>>
  BY <1>4 DEF PanelFetch, PanelAutoAck, SaveRead, SaveFails, Crash, relayVars
<1>5. ASSUME NEW d \in Peers, NEW o \in Peers, MarkRead(d, o) PROVE UNCHANGED <<disk, saved>>
  BY <1>5 DEF MarkRead
<1> QED
  BY <1>1, <1>2, <1>3, <1>4, <1>5, PeersKnown DEF Next, Items

(* The relay's mailbox takes in, or gives up what is acked                 *)
(* (store.rs:130-200).                                                     *)
LEMMA RelayWriters ==
    ASSUME Next
    PROVE  \/ UNCHANGED <<inbox, log, displaced>>
           \/ \E m \in Chats : RelayAccepts(m)
           \/ \E v \in Vaults : VaultArrives(v)
           \/ \E p \in Pollers : Ack(p)
           \/ \E d \in Peers : PanelAutoAck(d)
<1>1. ASSUME NEW m \in Chats, Sending(m) \/ ConnectionBreaks(m) \/ GoesSilent(m)
      PROVE  UNCHANGED <<inbox, log, displaced>>
  BY <1>1 DEF Sending, Compose, SaveComposed, GiveUpEarly, SendRequest, Answered, NotAnswered,
              SaveSettled, SaveSettledFails, ConnectionBreaks, GoesSilent, Vanishes, relayVars
<1>2. ASSUME NEW p \in Pollers, Polling(p)
      PROVE  UNCHANGED <<inbox, log, displaced>> \/ Ack(p)
  BY <1>2 DEF Polling, Fetch, SkipForeign, AddMessage, SaveAdded, SaveAddedFails, AckLost, relayVars
<1>3. ASSUME NEW d \in Peers, PanelFetch(d) \/ SaveRead(d) \/ Crash(d)
      PROVE  UNCHANGED <<inbox, log, displaced>>
  BY <1>3 DEF PanelFetch, SaveRead, Crash, relayVars
<1>4. ASSUME NEW d \in Peers, NEW o \in Peers, MarkRead(d, o)
      PROVE  UNCHANGED <<inbox, log, displaced>>
  BY <1>4 DEF MarkRead, relayVars
<1> QED
  BY <1>1, <1>2, <1>3, <1>4 DEF Next, Relaying

(* Who moves a send and its request (lib.rs:1343-1410).                    *)
LEMMA SendWriters ==
    ASSUME Next
    PROVE  \/ UNCHANGED <<sender, wire>>
           \/ \E m \in Chats : Sending(m) \/ Relaying(m)
           \/ \E d \in Peers : Crash(d)
<1>1. ASSUME NEW v \in Vaults, VaultArrives(v) PROVE UNCHANGED <<sender, wire>>
  BY <1>1 DEF VaultArrives
<1>2. ASSUME NEW p \in Pollers, Polling(p) PROVE UNCHANGED <<sender, wire>>
  BY <1>2 DEF Polling, Fetch, SkipForeign, AddMessage, SaveAdded, SaveAddedFails, Ack, AckLost, relayVars
<1>3. ASSUME NEW d \in Peers, PanelFetch(d) \/ PanelAutoAck(d) \/ SaveRead(d)
      PROVE  UNCHANGED <<sender, wire>>
  BY <1>3 DEF PanelFetch, PanelAutoAck, SaveRead, relayVars
<1>4. ASSUME NEW d \in Peers, NEW o \in Peers, MarkRead(d, o) PROVE UNCHANGED <<sender, wire>>
  BY <1>4 DEF MarkRead, relayVars
<1> QED
  BY <1>1, <1>2, <1>3, <1>4 DEF Next

(* Who moves a fetch (lib.rs:1435-1510).                                   *)
LEMMA PollWriters ==
    ASSUME Next
    PROVE  \/ UNCHANGED poller
           \/ \E p \in Pollers : Polling(p)
           \/ \E d \in Peers : Crash(d)
<1>1. ASSUME NEW m \in Chats, Sending(m) \/ Relaying(m) PROVE UNCHANGED poller
  BY <1>1 DEF Sending, Compose, SaveComposed, GiveUpEarly, SendRequest, Answered, NotAnswered,
              SaveSettled, SaveSettledFails, Relaying, RelayAccepts,
              ConnectionBreaks, GoesSilent, Vanishes
<1>2. ASSUME NEW v \in Vaults, VaultArrives(v) PROVE UNCHANGED poller
  BY <1>2 DEF VaultArrives
<1>3. ASSUME NEW d \in Peers, PanelFetch(d) \/ PanelAutoAck(d) \/ SaveRead(d) PROVE UNCHANGED poller
  BY <1>3 DEF PanelFetch, PanelAutoAck, SaveRead
<1>4. ASSUME NEW d \in Peers, NEW o \in Peers, MarkRead(d, o) PROVE UNCHANGED poller
  BY <1>4 DEF MarkRead
<1> QED
  BY <1>1, <1>2, <1>3, <1>4 DEF Next

(* A fault uses up one of those still to come; nothing else of the         *)
(* scenario changes.                                                       *)
LEMMA ScenarioWriters ==
    ASSUME Next
    PROVE  \/ scenario' = scenario
           \/ scenario.faults > 0 /\ scenario' = [scenario EXCEPT !.faults = @ - 1]
<1>1. ASSUME NEW m \in Chats, Sending(m) \/ Relaying(m)
      PROVE  \/ scenario' = scenario
             \/ scenario.faults > 0 /\ scenario' = [scenario EXCEPT !.faults = @ - 1]
  BY <1>1 DEF Sending, Compose, SaveComposed, GiveUpEarly, SendRequest, Answered, NotAnswered,
              SaveSettled, SaveSettledFails, SaveFails, Relaying, RelayAccepts,
              ConnectionBreaks, GoesSilent, Vanishes
<1>2. ASSUME NEW v \in Vaults, VaultArrives(v) PROVE scenario' = scenario
  BY <1>2 DEF VaultArrives
<1>3. ASSUME NEW p \in Pollers, Polling(p)
      PROVE  \/ scenario' = scenario
             \/ scenario.faults > 0 /\ scenario' = [scenario EXCEPT !.faults = @ - 1]
  BY <1>3 DEF Polling, Fetch, SkipForeign, AddMessage, SaveAdded, SaveAddedFails, SaveFails, Ack, AckLost
<1>4. ASSUME NEW d \in Peers, PanelFetch(d) \/ PanelAutoAck(d) \/ SaveRead(d) \/ Crash(d)
      PROVE  \/ scenario' = scenario
             \/ scenario.faults > 0 /\ scenario' = [scenario EXCEPT !.faults = @ - 1]
  BY <1>4 DEF PanelFetch, PanelAutoAck, SaveRead, SaveFails, Crash
<1>5. ASSUME NEW d \in Peers, NEW o \in Peers, MarkRead(d, o) PROVE scenario' = scenario
  BY <1>5 DEF MarkRead
<1> QED
  BY <1>1, <1>2, <1>3, <1>4, <1>5 DEF Next
-------------------------------------------------------------------------------
(* The limits do not change while the apps run.                            *)
LEMMA LimitsStay ==
    ASSUME scenario \in Scenario, Next
    PROVE  /\ scenario' \in Scenario
           /\ scenario'.maxHistory = scenario.maxHistory /\ scenario.maxHistory \in Nat \ {0}
           /\ scenario'.relayCap = scenario.relayCap /\ scenario.relayCap \in Nat \ {0}
           /\ scenario'.fetchLimit = scenario.fetchLimit /\ scenario.fetchLimit \in Nat \ {0}
           /\ scenario'.events = scenario.events
<1>1. \/ scenario' = scenario
      \/ scenario.faults > 0 /\ scenario' = [scenario EXCEPT !.faults = @ - 1]
  BY ScenarioWriters
<1>2. scenario.faults \in Nat /\ (scenario.faults > 0 => scenario.faults - 1 \in Nat)
  BY DEF Scenario
<1> QED
  BY <1>1, <1>2 DEF Scenario

(* One conversation rewritten leaves conversations.                        *)
LEMMA RewrittenType ==
    ASSUME NEW convs \in Conversations, NEW d \in Peers, NEW o \in Peers, NEW h \in Seq(Message)
    PROVE  [convs EXCEPT ![d][o] = h] \in Conversations
BY DEF Conversations

(* What each writer leaves in memory, and that it is within the cap.       *)
LEMMA MemoryTypes ==
    ASSUME Types, Capped, Next
    PROVE  /\ mem' \in Conversations
           /\ \A d, o \in Peers : Len(mem'[d][o]) <= scenario.maxHistory
<1>1. /\ \A d, o \in Peers : /\ mem[d][o] \in Seq(Message) /\ Len(mem[d][o]) <= scenario.maxHistory
                             /\ disk[d][o] \in Seq(Message) /\ Len(disk[d][o]) <= scenario.maxHistory
      /\ mem \in Conversations /\ disk \in Conversations
  BY DEF Types, Capped, Conversations
<1>2. scenario.maxHistory \in Nat \ {0}
  BY LimitsStay DEF Types
<1>3. \A m \in Chats : From[m] \in Peers /\ To[m] \in Peers
  BY PeersKnown DEF Items
<1>4. \A p \in Pollers : Host[p] \in Peers
  BY PeersKnown
<1>5. ASSUME NEW d \in Peers, NEW o \in Peers, NEW h \in Seq(Message),
             Len(h) <= scenario.maxHistory, mem' = [mem EXCEPT ![d][o] = h]
      PROVE  /\ mem' \in Conversations
             /\ \A q, r \in Peers : Len(mem'[q][r]) <= scenario.maxHistory
  <2>1. mem' \in Conversations
    BY <1>1, <1>5, RewrittenType
  <2>2. \A q, r \in Peers : mem'[q][r] = h \/ mem'[q][r] = mem[q][r]
    BY <1>1, <1>5 DEF Conversations
  <2> QED
    BY <1>1, <1>5, <2>1, <2>2
<1>6. ASSUME NEW m \in Chats, Compose(m)
      PROVE  /\ mem' \in Conversations
             /\ \A d, o \in Peers : Len(mem'[d][o]) <= scenario.maxHistory
  <2> DEFINE h == mem[From[m]][To[m]]
             r == Outgoing(m, "sending")
  <2>1. r \in Message
    BY DEF Outgoing, Message
  <2>2. mem' = [mem EXCEPT ![From[m]][To[m]] = PushBounded(h, r, scenario.maxHistory)]
    BY <1>6 DEF Compose, Mutate
  <2>3. h \in Seq(Message) /\ Len(h) <= scenario.maxHistory
    BY <1>1, <1>3
  <2> HIDE DEF h, r
  <2>4. /\ PushBounded(h, r, scenario.maxHistory) \in Seq(Message)
        /\ Len(PushBounded(h, r, scenario.maxHistory)) <= scenario.maxHistory
    BY <1>2, <2>1, <2>3, PushedIs DEF Pushed
  <2> QED
    BY <1>3, <1>5, <2>2, <2>4
<1>7. ASSUME NEW m \in Chats, NEW s \in {"sent", "failed"}, Settle(m, s)
      PROVE  /\ mem' \in Conversations
             /\ \A d, o \in Peers : Len(mem'[d][o]) <= scenario.maxHistory
  <2> DEFINE h == mem[From[m]][To[m]]
  <2>1. \A r \in Message : r.id = m => WithStatus(r, s) \in Message
    BY DEF Message, WithStatus
  <2>2. mem' = [mem EXCEPT ![From[m]][To[m]] = SetStatus(h, m, s)]
    BY <1>7 DEF Settle, Mutate
  <2>3. h \in Seq(Message) /\ Len(h) <= scenario.maxHistory
    BY <1>1, <1>3
  <2> HIDE DEF h
  <2>4. SetStatus(h, m, s) \in Seq(Message) /\ Len(SetStatus(h, m, s)) = Len(h)
    BY <2>1, <2>3, SetStatusIs
  <2> QED
    BY <1>3, <1>5, <2>2, <2>3, <2>4
<1>8. ASSUME NEW p \in Pollers, AddMessage(p)
      PROVE  /\ mem' \in Conversations
             /\ \A d, o \in Peers : Len(mem'[d][o]) <= scenario.maxHistory
  <2> DEFINE x == Head(poller[p].batch)
             h == mem[Host[p]][From[x]]
             r == Incoming(x)
  <2>1. x \in Chats
    BY <1>8 DEF AddMessage
  <2>2. mem' = [mem EXCEPT ![Host[p]][From[x]] = PushBounded(h, r, scenario.maxHistory)]
    BY <1>8 DEF AddMessage, Mutate
  <2> HIDE DEF x
  <2>3. r \in Message
    BY <2>1 DEF Incoming, Message
  <2>4. h \in Seq(Message) /\ Len(h) <= scenario.maxHistory
    BY <1>1, <1>3, <1>4, <2>1
  <2> HIDE DEF h, r
  <2>5. /\ PushBounded(h, r, scenario.maxHistory) \in Seq(Message)
        /\ Len(PushBounded(h, r, scenario.maxHistory)) <= scenario.maxHistory
    BY <1>2, <2>3, <2>4, PushedIs DEF Pushed
  <2> QED
    BY <1>3, <1>4, <1>5, <2>1, <2>2, <2>5
<1>9. ASSUME NEW d \in Peers, NEW o \in Peers, MarkRead(d, o)
      PROVE  /\ mem' \in Conversations
             /\ \A q, r \in Peers : Len(mem'[q][r]) <= scenario.maxHistory
  <2> DEFINE h == mem[d][o]
  <2>1. \A r \in Message : r.dir = "incoming" => WithStatus(r, "read") \in Message
    BY DEF Message, WithStatus
  <2>2. mem' = [mem EXCEPT ![d][o] = MarkIncomingRead(h)] /\ h \in Seq(Message)
        /\ Len(h) <= scenario.maxHistory
    BY <1>1, <1>9 DEF MarkRead, Mutate
  <2> HIDE DEF h
  <2>3. MarkIncomingRead(h) \in Seq(Message) /\ Len(MarkIncomingRead(h)) <= scenario.maxHistory
    BY <2>1, <2>2, MarkedIs
  <2> QED
    BY <1>5, <2>2, <2>3
<1>10. ASSUME NEW d \in Peers, Crash(d)
       PROVE  /\ mem' \in Conversations
              /\ \A q, r \in Peers : Len(mem'[q][r]) <= scenario.maxHistory
  <2>1. mem' = [mem EXCEPT ![d] = disk[d]]
    BY <1>10 DEF Crash
  <2>2. mem' \in Conversations /\ \A q \in Peers : mem'[q] = disk[q] \/ mem'[q] = mem[q]
    BY <1>1, <2>1 DEF Conversations
  <2> QED
    BY <1>1, <2>2
<1>11. CASE mem' = mem
  BY <1>1, <1>11
<1> QED
  BY <1>6, <1>7, <1>8, <1>9, <1>10, <1>11, MemoryWriters

(* The same on disk, and that only chats are recorded as received.         *)
LEMMA DiskTypes ==
    ASSUME Types, Capped, Next
    PROVE  /\ disk' \in Conversations
           /\ \A d, o \in Peers : Len(disk'[d][o]) <= scenario.maxHistory
           /\ saved' \subseteq Chats
<1>1. \A d, o \in Peers : /\ mem[d][o] \in Seq(Message) /\ Len(mem[d][o]) <= scenario.maxHistory
                          /\ disk[d][o] \in Seq(Message) /\ Len(disk[d][o]) <= scenario.maxHistory
  BY DEF Types, Capped, Conversations
<1>2. CASE UNCHANGED <<disk, saved>>
  BY <1>2, <1>1 DEF Types
<1>3. ASSUME NEW d \in Peers, Persist(d)
      PROVE  /\ disk' \in Conversations
             /\ \A q, o \in Peers : Len(disk'[q][o]) <= scenario.maxHistory
             /\ saved' \subseteq Chats
  <2>1. disk' = [disk EXCEPT ![d] = mem[d]] /\ saved' = saved \cup ReceivedIn(mem[d])
    BY <1>3 DEF Persist
  <2>2. disk' \in Conversations /\ \A q \in Peers : disk'[q] = mem[q] \/ disk'[q] = disk[q]
    BY <2>1 DEF Types, Conversations
  <2>3. ReceivedIn(mem[d]) \subseteq Chats
    <3>1. \A o \in Peers : \A x \in Incomings(mem[d][o]) : x \in Chats
      <4> TAKE o \in Peers
      <4>1. mem[d][o] \in Seq(Message)
        BY <1>1
      <4>2. \A i \in 1..Len(mem[d][o]) : mem[d][o][i] \in Message
        BY <4>1, ElementOfSeq
      <4>3. \A x \in Incomings(mem[d][o]) : \E i \in 1..Len(mem[d][o]) : mem[d][o][i].id = x
        BY <4>1, IncomingsAre
      <4> QED
        BY <4>2, <4>3 DEF Message
    <3> QED
      BY <3>1 DEF ReceivedIn
  <2> QED
    BY <1>1, <2>1, <2>2, <2>3 DEF Types
<1> QED
  BY <1>2, <1>3, DiskWriters

(* put (store.rs:130-150): what the relay takes goes to the end of its     *)
(* recipient's mailbox; what falls out at the front is displaced.          *)
LEMMA TakenIn ==
    ASSUME Types, Capped, NEW x \in Items, TakeIn(x)
    PROVE  /\ inbox' \in [Peers -> Seq(Items)]
           /\ log' = Append(log, x) /\ log' \in Seq(Items)
           /\ displaced \subseteq displaced' /\ displaced' \subseteq displaced \cup Range(inbox[To[x]])
           /\ \A d \in Peers : Len(inbox'[d]) <= scenario.relayCap
           /\ Accepted' = Accepted \cup {x}
           /\ \A d \in Peers \ {To[x]} : inbox'[d] = inbox[d]
           /\ PartOf(inbox'[To[x]], Append(inbox[To[x]], x))
           /\ \A y \in Range(inbox[To[x]]) \cup {x} : y \in Range(inbox'[To[x]]) \cup displaced'
<1> DEFINE s == inbox[To[x]]
           r == PushBounded(s, x, scenario.relayCap)
<1>1. /\ To[x] \in Peers /\ s \in Seq(Items) /\ Len(s) <= scenario.relayCap
      /\ scenario.relayCap \in Nat \ {0} /\ log \in Seq(Items) /\ inbox \in [Peers -> Seq(Items)]
      /\ \A d \in Peers : Len(inbox[d]) <= scenario.relayCap
  BY PeersKnown DEF Types, Capped, Scenario
<1>2. /\ inbox' = [inbox EXCEPT ![To[x]] = r]
      /\ displaced' = displaced \cup (Range(s) \ Range(r))
      /\ log' = Append(log, x)
  BY DEF TakeIn
<1> HIDE DEF s
<1>4. r \in Seq(Items) /\ Len(r) <= scenario.relayCap /\ PartOf(r, Append(s, x)) /\ Len(s) \in Nat
  BY <1>1, PushedIs, LenProperties DEF Pushed
<1> HIDE DEF r
<1>5. x \in Range(r)
  <2>1. s \in Seq(Items) /\ Len(s) <= scenario.relayCap /\ scenario.relayCap \in Nat \ {0}
    BY <1>1
  <2>2. r[Len(r)] = x /\ Len(r) \in 1..Len(r)
    BY <2>1, PushedIs DEF r, Pushed
  <2> QED
    BY <1>4, <2>2, RangeIs
<1>6. inbox' \in [Peers -> Seq(Items)] /\ inbox'[To[x]] = r /\ \A d \in Peers \ {To[x]} : inbox'[d] = inbox[d]
  BY <1>1, <1>2, <1>4
<1>7. log' \in Seq(Items) /\ Range(log') = Range(log) \cup {x}
  BY <1>1, <1>2, AppendProperties, RangeOfAppend
<1>8. Accepted' = Accepted \cup {x}
  BY <1>7 DEF Accepted
<1>9. \A d \in Peers : Len(inbox'[d]) <= scenario.relayCap
  BY <1>1, <1>4, <1>6
<1>10. s = inbox[To[x]]
  BY DEF s
<1> QED
  BY <1>2, <1>4, <1>5, <1>6, <1>7, <1>8, <1>9, <1>10

(* delete (store.rs:171-187): what is acked leaves the mailbox, in which   *)
(* the others stay as they stood.                                          *)
LEMMA Removed ==
    ASSUME Types, Capped, NEW d \in Peers, NEW xs, RemoveFromInbox(d, xs)
    PROVE  /\ inbox' \in [Peers -> Seq(Items)]
           /\ \A e \in Peers : /\ Len(inbox'[e]) <= scenario.relayCap
                               /\ PartOf(inbox'[e], inbox[e])
                               /\ e # d => inbox'[e] = inbox[e]
           /\ \A y \in Range(inbox[d]) \ xs : y \in Range(inbox'[d])
<1> DEFINE s == inbox[d]
           K == Items \ xs
           r == Retain(s, K)
<1>1. /\ s \in Seq(Items) /\ Len(s) <= scenario.relayCap /\ scenario.relayCap \in Nat
      /\ inbox \in [Peers -> Seq(Items)] /\ \A e \in Peers : Len(inbox[e]) <= scenario.relayCap
  BY DEF Types, Capped, Scenario
<1>2. inbox' = [inbox EXCEPT ![d] = r]
  BY DEF RemoveFromInbox
<1> HIDE DEF s, K
<1>3. /\ r \in Seq(Items) /\ Len(r) <= Len(s) /\ PartOf(r, s)
      /\ \A j \in 1..Len(s) : s[j] \in K => \E p \in 1..Len(r) : r[p] = s[j]
  <2>1. s \in Seq(Items)
    BY <1>1
  <2> QED
    BY <2>1, RetainIsPart
<1> HIDE DEF r
<1>4. Len(r) <= scenario.relayCap
  <2>1. Len(r) \in Nat /\ Len(s) \in Nat
    BY <1>1, <1>3, LenProperties
  <2> QED
    BY <1>1, <1>3, <2>1
<1>5. /\ inbox' \in [Peers -> Seq(Items)] /\ inbox'[d] = r
      /\ \A e \in Peers : e # d => inbox'[e] = inbox[e]
  BY <1>1, <1>2, <1>3
<1>6. \A e \in Peers : PartOf(inbox[e], inbox[e])
  BY DEF PartOf
<1>7. \A y \in Range(s) \ xs : y \in Range(r)
  <2> TAKE y \in Range(s) \ xs
  <2>1. PICK j \in 1..Len(s) : s[j] = y
    BY <1>1, RangeIs
  <2>2. s[j] \in Items
    BY <1>1, ElementOfSeq
  <2> QED
    BY <1>3, <2>1, <2>2, RangeIs DEF K
<1>8. s = inbox[d]
  BY DEF s
<1> QED
  BY <1>1, <1>3, <1>4, <1>5, <1>6, <1>7, <1>8

(* An ack is of somebody's mailbox (service.rs:458-470).                   *)
LEMMA AcksAre ==
    ASSUME NEW p \in Pollers, Ack(p)
    PROVE  /\ Host[p] \in Peers /\ RemoveFromInbox(Host[p], poller[p].acks)
           /\ UNCHANGED <<mem, disk, log, displaced, panel, saved, scenario>>
BY PeersKnown DEF Ack

(* What the relay holds keeps its type and its caps.                       *)
LEMMA InboxTypes ==
    ASSUME Types, Capped, Next
    PROVE  /\ inbox' \in [Peers -> Seq(Items)]
           /\ log' \in Seq(Items)
           /\ displaced' \subseteq Items
           /\ \A d \in Peers : Len(inbox'[d]) <= scenario.relayCap
<1>1. ASSUME NEW x \in Items, TakeIn(x)
      PROVE  /\ inbox' \in [Peers -> Seq(Items)] /\ log' \in Seq(Items) /\ displaced' \subseteq Items
             /\ \A d \in Peers : Len(inbox'[d]) <= scenario.relayCap
  <2>1. To[x] \in Peers /\ inbox[To[x]] \in Seq(Items)
    BY PeersKnown DEF Types
  <2>2. Range(inbox[To[x]]) \subseteq Items
    BY <2>1, RangeIs
  <2> QED
    BY <1>1, <2>2, TakenIn DEF Types
<1>2. ASSUME NEW d \in Peers, NEW xs, RemoveFromInbox(d, xs), UNCHANGED <<log, displaced>>
      PROVE  /\ inbox' \in [Peers -> Seq(Items)] /\ log' \in Seq(Items) /\ displaced' \subseteq Items
             /\ \A e \in Peers : Len(inbox'[e]) <= scenario.relayCap
  BY <1>2, Removed DEF Types
<1>3. ASSUME NEW m \in Chats, RelayAccepts(m) PROVE m \in Items /\ TakeIn(m)
  BY <1>3 DEF RelayAccepts, Items
<1>4. ASSUME NEW v \in Vaults, VaultArrives(v) PROVE v \in Items /\ TakeIn(v)
  BY <1>4 DEF VaultArrives, Items
<1>5. ASSUME NEW d \in Peers, PanelAutoAck(d)
      PROVE  RemoveFromInbox(d, panel[d]) /\ UNCHANGED <<log, displaced>>
  BY <1>5 DEF PanelAutoAck
<1>6. CASE UNCHANGED <<inbox, log, displaced>>
  BY <1>6 DEF Types, Capped
<1> QED
  BY <1>1, <1>2, <1>3, <1>4, <1>5, <1>6, AcksAre, RelayWriters

(* take(limit) gives the oldest, without a gap (service.rs:443-455).       *)
LEMMA BatchIs ==
    ASSUME inbox \in [Peers -> Seq(Items)], scenario \in Scenario, NEW d \in Peers
    PROVE  /\ Batch(d) \in Seq(Items)
           /\ Len(Batch(d)) <= Len(inbox[d])
           /\ \A k \in 1..Len(Batch(d)) : k \in 1..Len(inbox[d]) /\ Batch(d)[k] = inbox[d][k]
<1> DEFINE s == inbox[d]
           n == IF Len(s) < scenario.fetchLimit THEN Len(s) ELSE scenario.fetchLimit
           r == SubSeq(s, 1, n)
<1>1. s \in Seq(Items) /\ scenario.fetchLimit \in Nat
  BY DEF Scenario
<1>2. Len(s) \in Nat
  BY <1>1, LenProperties
<1>3. Batch(d) = r
  BY DEF Batch
<1>4. n \in 0..Len(s) /\ 1 \in Nat \ {0}
  BY <1>1, <1>2
<1> HIDE DEF n
<1>5. /\ r \in Seq(Items)
      /\ Len(r) = IF 1 <= n THEN n - 1 + 1 ELSE 0
      /\ \A p \in 1..Len(r) : r[p] = s[1 + p - 1] /\ 1 + p - 1 \in 1..Len(s)
  BY <1>1, <1>4, StretchIsPart
<1> HIDE DEF r
<1>6. Len(r) <= Len(s) /\ \A p \in 1..Len(r) : 1 + p - 1 = p
  BY <1>2, <1>4, <1>5
<1> QED
  BY <1>3, <1>5, <1>6

(* What is left of a batch, once its first envelope is dealt with.         *)
LEMMA RestOfBatch ==
    ASSUME NEW S, NEW s \in Seq(S), s # <<>>
    PROVE  /\ Head(s) = s[1] /\ Head(s) \in S /\ 1 \in 1..Len(s)
           /\ Tail(s) \in Seq(S) /\ Len(Tail(s)) = Len(s) - 1
           /\ \A k \in 1..Len(Tail(s)) : Tail(s)[k] = s[k + 1] /\ k + 1 \in 1..Len(s)
<1>1. Len(s) \in Nat \ {0}
  BY EmptySeq
<1>2. /\ Head(s) = s[1] /\ Head(s) \in S
      /\ Tail(s) \in Seq(S) /\ Len(Tail(s)) = Len(s) - 1
      /\ \A k \in 1..Len(Tail(s)) : Tail(s)[k] = s[k + 1]
  BY <1>1, HeadTailProperties
<1> QED
  BY <1>1, <1>2

(* A fetch keeps its type from one of its steps to the next.               *)
LEMMA PollTypes ==
    ASSUME Types, Next,
           \A p \in Pollers : poller[p].pc = "saving" => poller[p].batch # <<>>
    PROVE  poller' \in [Pollers -> Poll]
<1>1. poller \in [Pollers -> Poll] /\ inbox \in [Peers -> Seq(Items)] /\ scenario \in Scenario
  BY DEF Types
<1>2. Idle \in Poll
  <2>1. <<>> \in Seq(Items)
    BY EmptySeq
  <2> QED
    BY <2>1 DEF Idle, Poll
<1>3. \A p \in Pollers : /\ poller[p] \in Poll /\ poller[p].batch \in Seq(Items)
                         /\ poller[p].acks \subseteq Items
  BY <1>1 DEF Poll
<1>4. ASSUME NEW p \in Pollers, poller[p].batch # <<>>, NextInBatch(p)
      PROVE  poller' \in [Pollers -> Poll]
  <2>1. Head(poller[p].batch) \in Items /\ Tail(poller[p].batch) \in Seq(Items)
    BY <1>3, <1>4, RestOfBatch
  <2>2. poller' = [poller EXCEPT ![p] = [pc |-> "adding", batch |-> Tail(poller[p].batch),
                                         acks |-> poller[p].acks \cup {Head(poller[p].batch)}]]
    BY <1>1, <1>4 DEF NextInBatch
  <2>3. [pc |-> "adding", batch |-> Tail(poller[p].batch),
         acks |-> poller[p].acks \cup {Head(poller[p].batch)}] \in Poll
    BY <1>3, <2>1 DEF Poll
  <2> QED
    BY <1>1, <2>2, <2>3
<1>5. ASSUME NEW p \in Pollers, Fetch(p) PROVE poller' \in [Pollers -> Poll]
  <2>1. Batch(Host[p]) \in Seq(Items)
    BY <1>1, PeersKnown, BatchIs
  <2>2. [pc |-> "adding", batch |-> Batch(Host[p]), acks |-> {}] \in Poll
    BY <2>1 DEF Poll
  <2> QED
    BY <1>1, <1>5, <2>2 DEF Fetch
<1>6. ASSUME NEW p \in Pollers, SkipForeign(p) PROVE poller' \in [Pollers -> Poll]
  <2>1. Tail(poller[p].batch) \in Seq(Items)
    BY <1>3, <1>6, RestOfBatch DEF SkipForeign
  <2>2. [poller[p] EXCEPT !.batch = Tail(poller[p].batch)] \in Poll
    BY <1>3, <2>1 DEF Poll
  <2>3. poller' = [poller EXCEPT ![p] = [poller[p] EXCEPT !.batch = Tail(poller[p].batch)]]
    BY <1>1, <1>6 DEF SkipForeign
  <2> QED
    BY <1>1, <2>2, <2>3
<1>7. ASSUME NEW p \in Pollers, AddMessage(p) PROVE poller' \in [Pollers -> Poll]
  BY <1>1, <1>7 DEF AddMessage, Poll
<1>8. ASSUME NEW p \in Pollers, SaveAdded(p) PROVE poller' \in [Pollers -> Poll]
  BY <1>4, <1>8 DEF SaveAdded
<1>9. ASSUME NEW p \in Pollers, SaveAddedFails(p) \/ Ack(p) \/ AckLost(p)
      PROVE  poller' \in [Pollers -> Poll]
  BY <1>1, <1>2, <1>9 DEF SaveAddedFails, Ack, AckLost
<1>10. ASSUME NEW d \in Peers, Crash(d) PROVE poller' \in [Pollers -> Poll]
  BY <1>1, <1>2, <1>10 DEF Crash
<1> QED
  BY <1>1, <1>5, <1>6, <1>7, <1>8, <1>9, <1>10, PollWriters DEF Polling

(* The sends, the wire, the panel and the flag of chat_mark_read.          *)
LEMMA OtherTypes ==
    ASSUME Types, Next
    PROVE  /\ sender' \in [Chats -> SenderStates]
           /\ wire' \in [Chats -> {"none", "request", "answer", "broken"}]
           /\ reader' \in [Peers -> BOOLEAN]
           /\ panel' \in [Peers -> SUBSET Items]
<1>1. /\ sender \in [Chats -> SenderStates] /\ wire \in [Chats -> {"none", "request", "answer", "broken"}]
      /\ reader \in [Peers -> BOOLEAN] /\ panel \in [Peers -> SUBSET Items]
      /\ inbox \in [Peers -> Seq(Items)] /\ scenario \in Scenario
  BY DEF Types
<1>2. ASSUME NEW m \in Chats, Sending(m) \/ Relaying(m)
      PROVE  /\ sender' \in [Chats -> SenderStates]
             /\ wire' \in [Chats -> {"none", "request", "answer", "broken"}]
             /\ UNCHANGED <<reader, panel>>
  BY <1>1, <1>2 DEF Sending, Compose, SaveComposed, GiveUpEarly, SendRequest, Answered, NotAnswered,
              SaveSettled, SaveSettledFails, Relaying, RelayAccepts,
              ConnectionBreaks, GoesSilent, Vanishes, relayVars, Moves, Settle, SenderStates
<1>3. ASSUME NEW v \in Vaults, VaultArrives(v) PROVE UNCHANGED <<sender, wire, reader, panel>>
  BY <1>3 DEF VaultArrives
<1>4. ASSUME NEW p \in Pollers, Polling(p) PROVE UNCHANGED <<sender, wire, reader, panel>>
  BY <1>4 DEF Polling, Fetch, SkipForeign, AddMessage, SaveAdded, SaveAddedFails, Ack, AckLost, relayVars
<1>5. ASSUME NEW d \in Peers, PanelFetch(d)
      PROVE  panel' \in [Peers -> SUBSET Items] /\ UNCHANGED <<sender, wire, reader>>
  <2>1. Range(Batch(d)) \subseteq Items
    BY <1>1, BatchIs, RangeIs
  <2> QED
    BY <1>1, <1>5, <2>1 DEF PanelFetch, relayVars
<1>6. ASSUME NEW d \in Peers, PanelAutoAck(d) \/ SaveRead(d)
      PROVE  /\ panel' \in [Peers -> SUBSET Items] /\ reader' \in [Peers -> BOOLEAN]
             /\ UNCHANGED <<sender, wire>>
  BY <1>1, <1>6 DEF PanelAutoAck, SaveRead, relayVars
<1>7. ASSUME NEW d \in Peers, Crash(d)
      PROVE  /\ sender' \in [Chats -> SenderStates]
             /\ wire' \in [Chats -> {"none", "request", "answer", "broken"}]
             /\ panel' \in [Peers -> SUBSET Items] /\ reader' \in [Peers -> BOOLEAN]
  BY <1>1, <1>7 DEF Crash, SenderStates
<1>8. ASSUME NEW d \in Peers, NEW o \in Peers, MarkRead(d, o)
      PROVE  reader' \in [Peers -> BOOLEAN] /\ UNCHANGED <<sender, wire, panel>>
  BY <1>1, <1>8 DEF MarkRead, relayVars
<1> QED
  BY <1>1, <1>2, <1>3, <1>4, <1>5, <1>6, <1>7, <1>8 DEF Next

(* The scenario stays the one chosen, with fewer faults to come.           *)
LEMMA ScenarioTypes ==
    ASSUME Types, Next
    PROVE  \E sc \in Scenarios : /\ scenario'.faults \in 0..sc.faults
                                 /\ scenario' = [sc EXCEPT !.faults = scenario'.faults]
<1>1. PICK sc \in Scenarios : /\ scenario.faults \in 0..sc.faults
                              /\ scenario = [sc EXCEPT !.faults = scenario.faults]
  BY DEF Types
<1>2. sc \in Scenario /\ sc.faults \in Nat
  BY ScenariosKnown DEF Scenario
<1>3. CASE scenario' = scenario
  BY <1>1, <1>3
<1>4. CASE scenario.faults > 0 /\ scenario' = [scenario EXCEPT !.faults = @ - 1]
  <2>1. scenario'.faults = scenario.faults - 1 /\ scenario' = [sc EXCEPT !.faults = scenario.faults - 1]
    BY <1>1, <1>2, <1>4 DEF Scenario
  <2>2. scenario.faults - 1 \in 0..sc.faults
    BY <1>1, <1>2, <1>4
  <2> QED
    BY <2>1, <2>2
<1> QED
  BY <1>3, <1>4, ScenarioWriters
(* All of it together.                                                     *)
LEMMA TypesStep ==
    ASSUME IInv, Next
    PROVE  Types' /\ Capped'
<1>1. Types /\ Capped /\ \A p \in Pollers : poller[p].pc = "saving" => poller[p].batch # <<>>
  BY DEF IInv, ReceivedWasTaken
<1>2. /\ scenario' \in Scenario /\ scenario'.maxHistory = scenario.maxHistory
      /\ scenario'.relayCap = scenario.relayCap
  BY <1>1, LimitsStay DEF Types
<1>3. Types'
  BY <1>1, <1>2, MemoryTypes, DiskTypes, InboxTypes, PollTypes, OtherTypes, ScenarioTypes DEF Types
<1>4. Capped'
  BY <1>1, <1>2, MemoryTypes, DiskTypes, InboxTypes DEF Capped
<1> QED
  BY <1>3, <1>4
-------------------------------------------------------------------------------
(* The log only grows, by an envelope that was not in it                   *)
(* (service.rs:408-436).                                                   *)
LEMMA LogStep ==
    ASSUME Types, Capped, TakenOnce, Next
    PROVE  \/ UNCHANGED log
           \/ \E x \in Items : /\ TakeIn(x) /\ x \notin Accepted
                               /\ \/ x \in Chats /\ RelayAccepts(x)
                                  \/ x \in Vaults /\ UNCHANGED <<sender, wire>>
                               /\ UNCHANGED <<mem, disk, poller, panel, saved, scenario>>
<1>1. ASSUME NEW m \in Chats, RelayAccepts(m)
      PROVE  /\ m \in Items /\ TakeIn(m) /\ m \notin Accepted
             /\ UNCHANGED <<mem, disk, poller, panel, saved, scenario>>
  BY <1>1 DEF RelayAccepts, TakenOnce, Items
<1>2. ASSUME NEW v \in Vaults, VaultArrives(v)
      PROVE  /\ v \in Items /\ TakeIn(v) /\ v \notin Accepted
             /\ UNCHANGED <<sender, wire>> /\ UNCHANGED <<mem, disk, poller, panel, saved, scenario>>
  BY <1>2 DEF VaultArrives, Items
<1>3. ASSUME NEW d \in Peers, PanelAutoAck(d) PROVE UNCHANGED log
  BY <1>3 DEF PanelAutoAck
<1> QED
  BY <1>1, <1>2, <1>3, AcksAre, RelayWriters

(* What the relay has taken, it has taken for good.                        *)
LEMMA AcceptedGrows ==
    ASSUME Types, Capped, TakenOnce, Next
    PROVE  /\ Accepted \subseteq Accepted'
           /\ \A d \in Peers : MailFor(d) \subseteq MailFor(d)'
<1>1. Accepted \subseteq Accepted'
  BY LogStep, TakenIn DEF Accepted
<1> QED
  BY <1>1 DEF MailFor

(* The relay takes a message at most once, and answers for what it took.   *)
LEMMA TakenOnceStep ==
    ASSUME Types, Capped, TakenOnce, Next
    PROVE  TakenOnce'
<1>1. log \in Seq(Items) /\ Len(log) \in Nat
  BY LenProperties DEF Types
<1>2. /\ sender \in [Chats -> SenderStates] /\ wire \in [Chats -> {"none", "request", "answer", "broken"}]
      /\ \A m \in Chats :
            /\ sender[m] \in {"idle", "composed", "lookup"} => wire[m] = "none" /\ m \notin Accepted
            /\ wire[m] = "request" => m \notin Accepted
            /\ wire[m] = "answer" => m \in Accepted
  BY DEF Types, TakenOnce
<1>3. CASE UNCHANGED log
  <2>1. Accepted' = Accepted /\ NoneTwice(log)'
    BY <1>3 DEF Accepted, TakenOnce, NoneTwice
  <2>2. CASE UNCHANGED <<sender, wire>>
    BY <2>1, <2>2 DEF TakenOnce
  <2> HIDE DEF Accepted
  <2>3. ASSUME NEW m \in Chats, Sending(m) \/ ConnectionBreaks(m) \/ GoesSilent(m) PROVE TakenOnce'
    BY <1>2, <2>1, <2>3 DEF Sending, Compose, SaveComposed, GiveUpEarly, SendRequest, Answered,
         NotAnswered, SaveSettled, SaveSettledFails, ConnectionBreaks, GoesSilent, Vanishes,
         relayVars, Moves, Settle, TakenOnce, SenderStates
  <2>4. ASSUME NEW d \in Peers, Crash(d) PROVE TakenOnce'
    BY <1>2, <2>1, <2>4 DEF Crash, TakenOnce
  <2>5. ASSUME NEW m \in Chats, RelayAccepts(m) PROVE FALSE
    <3>1. TakeIn(m) /\ m \in Items /\ m \notin Accepted
      BY <2>5 DEF RelayAccepts, Items, TakenOnce
    <3>2. m \in Accepted'
      BY <3>1, TakenIn
    <3> QED
      BY <2>1, <3>1, <3>2
  <2> QED
    BY <2>2, <2>3, <2>4, <2>5, SendWriters DEF Relaying
<1>4. ASSUME NEW x \in Items, TakeIn(x), x \notin Accepted,
             \/ x \in Chats /\ RelayAccepts(x)
             \/ x \in Vaults /\ UNCHANGED <<sender, wire>>
      PROVE  TakenOnce'
  <2>1. log' = Append(log, x) /\ Accepted' = Accepted \cup {x}
    BY <1>4, TakenIn
  <2>2. NoneTwice(log')
    <3> DEFINE t == Append(log, x)
    <3>1. /\ Len(t) = Len(log) + 1 /\ t[Len(log) + 1] = x
          /\ \A i \in 1..Len(log) : t[i] = log[i]
      BY <1>1, AppendProperties
    <3>2. \A i \in 1..Len(log) : log[i] # x
      BY <1>1, <1>4, RangeIs DEF Accepted
    <3> HIDE DEF t
    <3>3. \A i \in 1..Len(t) : i \in 1..Len(log) \/ i = Len(log) + 1
      BY <1>1, <3>1
    <3>4. NoneTwice(t)
      BY <3>1, <3>2, <3>3 DEF NoneTwice, TakenOnce
    <3> QED
      BY <2>1, <3>4 DEF t
  <2>3. NoneTwice(log)'
    BY <2>2 DEF NoneTwice
  <2> HIDE DEF Accepted
  <2>4. CASE x \in Chats /\ RelayAccepts(x)
    BY <1>2, <2>1, <2>3, <2>4 DEF RelayAccepts, TakenOnce
  <2>5. CASE x \in Vaults /\ UNCHANGED <<sender, wire>>
    <3>1. x \notin Chats
      BY <2>5, KindsDisjoint
    <3> QED
      BY <1>2, <2>1, <2>3, <2>5, <3>1 DEF TakenOnce
  <2> QED
    BY <1>4, <2>4, <2>5
<1> QED
  BY <1>3, <1>4, LogStep

(* What stands in a mailbox, the relay took for its owner.                 *)
LEMMA InboxIsMail ==
    ASSUME Types, InboxesAreParts, NEW d \in Peers
    PROVE  Range(inbox[d]) \subseteq MailFor(d)
<1>1. inbox[d] \in Seq(Items) /\ log \in Seq(Items)
  BY DEF Types
<1>2. \A y \in Range(inbox[d]) : y \in Accepted /\ To[y] = d
  <2> TAKE y \in Range(inbox[d])
  <2>1. PICK p \in 1..Len(inbox[d]) : inbox[d][p] = y
    BY <1>1, RangeIs
  <2>2. PICK i \in 1..Len(log) : log[i] = inbox[d][p]
    BY DEF InboxesAreParts, PartOf
  <2> QED
    BY <1>1, <2>1, <2>2, RangeIs DEF InboxesAreParts, Accepted
<1> QED
  BY <1>2 DEF MailFor

(* Mailboxes stay parts of the log: put appends to both, delete and        *)
(* pop_front only take away (store.rs:130-200).                            *)
LEMMA InboxesStep ==
    ASSUME Types, Capped, TakenOnce, InboxesAreParts, Next
    PROVE  InboxesAreParts'
<1>1. /\ log \in Seq(Items) /\ \A d \in Peers : inbox[d] \in Seq(Items)
      /\ \A d \in Peers : PartOf(inbox[d], log) /\ \A p \in 1..Len(inbox[d]) : To[inbox[d][p]] = d
      /\ displaced \subseteq Accepted
  BY DEF Types, InboxesAreParts
<1>2. ASSUME NEW x \in Items, TakeIn(x) PROVE InboxesAreParts'
  <2>1. /\ log' = Append(log, x) /\ Accepted' = Accepted \cup {x} /\ inbox' \in [Peers -> Seq(Items)]
        /\ displaced' \subseteq displaced \cup Range(inbox[To[x]])
        /\ \A d \in Peers \ {To[x]} : inbox'[d] = inbox[d]
        /\ PartOf(inbox'[To[x]], Append(inbox[To[x]], x))
    BY <1>2, TakenIn
  <2>2. To[x] \in Peers
    BY PeersKnown
  <2>3. displaced' \subseteq Accepted'
    BY <1>1, <2>1, <2>2, InboxIsMail DEF MailFor
  <2>4. ASSUME NEW d \in Peers PROVE /\ PartOf(inbox'[d], log')
                                     /\ \A p \in 1..Len(inbox'[d]) : To[inbox'[d][p]] = d
    <3>1. CASE d # To[x]
      <4>1. inbox'[d] = inbox[d] /\ PartOf(inbox[d], Append(log, x))
        BY <1>1, <2>1, <3>1, AppendKeepsParts
      <4> QED
        BY <1>1, <2>1, <4>1
    <3>2. CASE d = To[x]
      <4> DEFINE s == inbox[d]
                 t == Append(s, x)
      <4>1. s \in Seq(Items) /\ PartOf(s, log)
        BY <1>1
      <4>2. PartOf(inbox'[d], t)
        BY <2>1, <3>2
      <4>3. /\ Len(s) \in Nat /\ Len(t) = Len(s) + 1 /\ t[Len(s) + 1] = x
            /\ \A i \in 1..Len(s) : t[i] = s[i] /\ To[s[i]] = d
        BY <1>1, <4>1, AppendProperties, LenProperties
      <4> HIDE DEF s
      <4>4. PartOf(t, Append(log, x))
        BY <1>1, <4>1, AppendKeepsParts
      <4> HIDE DEF t
      <4>5. PartOf(inbox'[d], log')
        BY <2>1, <4>2, <4>4, PartOfPart
      <4>6. \A i \in 1..Len(t) : To[t[i]] = d
        <5>1. \A i \in 1..Len(t) : i \in 1..Len(s) \/ i = Len(s) + 1
          BY <4>3
        <5> QED
          BY <3>2, <4>3, <5>1
      <4>7. \A p \in 1..Len(inbox'[d]) : To[inbox'[d][p]] = d
        <5> TAKE p \in 1..Len(inbox'[d])
        <5>1. PICK i \in 1..Len(t) : t[i] = inbox'[d][p]
          BY <4>2 DEF PartOf
        <5> QED
          BY <4>6, <5>1
      <4> QED
        BY <4>5, <4>7
    <3> QED
      BY <3>1, <3>2
  <2> QED
    BY <2>3, <2>4 DEF InboxesAreParts
<1>3. ASSUME NEW d \in Peers, NEW xs, RemoveFromInbox(d, xs), UNCHANGED <<log, displaced>>
      PROVE  InboxesAreParts'
  <2>1. Accepted' = Accepted
    BY <1>3 DEF Accepted
  <2>2. ASSUME NEW e \in Peers PROVE /\ PartOf(inbox'[e], log')
                                     /\ \A p \in 1..Len(inbox'[e]) : To[inbox'[e][p]] = e
    <3>1. PartOf(inbox'[e], inbox[e])
      BY <1>3, Removed
    <3>2. PartOf(inbox'[e], log)
      BY <1>1, <3>1, PartOfPart
    <3>3. \A p \in 1..Len(inbox'[e]) : To[inbox'[e][p]] = e
      <4> TAKE p \in 1..Len(inbox'[e])
      <4>1. PICK i \in 1..Len(inbox[e]) : inbox[e][i] = inbox'[e][p]
        BY <3>1 DEF PartOf
      <4> QED
        BY <1>1, <4>1
    <3> QED
      BY <1>3, <3>2, <3>3
  <2> QED
    BY <1>1, <1>3, <2>1, <2>2 DEF InboxesAreParts
<1>4. ASSUME NEW d \in Peers, PanelAutoAck(d)
      PROVE  RemoveFromInbox(d, panel[d]) /\ UNCHANGED <<log, displaced>>
  BY <1>4 DEF PanelAutoAck
<1>5. CASE UNCHANGED <<inbox, log, displaced>>
  BY <1>5 DEF InboxesAreParts, Accepted
<1>6. ASSUME NEW m \in Chats, RelayAccepts(m) PROVE m \in Items /\ TakeIn(m)
  BY <1>6 DEF RelayAccepts, Items
<1>7. ASSUME NEW v \in Vaults, VaultArrives(v) PROVE v \in Items /\ TakeIn(v)
  BY <1>7 DEF VaultArrives, Items
<1> QED
  BY <1>2, <1>3, <1>4, <1>5, <1>6, <1>7, AcksAre, RelayWriters

(* What came in by an app's conversations grows by what a fetch adds, and  *)
(* by nothing else (chat_store.rs:119-160).                                *)
LEMMA ReceivedStep ==
    ASSUME Types, Capped, Next, NEW d \in Peers
    PROVE  \/ ReceivedIn(mem'[d]) \subseteq ReceivedIn(mem[d])
           \/ Crash(d) /\ mem'[d] = disk[d]
           \/ \E p \in Pollers : /\ AddMessage(p) /\ Host[p] = d
                                 /\ ReceivedIn(mem'[d])
                                       \subseteq ReceivedIn(mem[d]) \cup {Head(poller[p].batch)}
<1>1. /\ \A e, o \in Peers : mem[e][o] \in Seq(Message) /\ Len(mem[e][o]) <= scenario.maxHistory
      /\ \A e \in Peers : mem[e] \in [Peers -> Seq(Message)]
      /\ mem \in Conversations /\ scenario.maxHistory \in Nat \ {0}
  BY LimitsStay DEF Types, Capped, Conversations
<1>2. \A m \in Chats : From[m] \in Peers /\ To[m] \in Peers
  BY PeersKnown DEF Items
<1>3. ASSUME NEW e \in Peers, NEW o \in Peers, NEW h, mem' = [mem EXCEPT ![e][o] = h]
      PROVE  /\ mem'[e] = [mem[e] EXCEPT ![o] = h]
             /\ e # d => mem'[d] = mem[d]
             /\ ReceivedIn(mem'[e]) \subseteq ReceivedIn(mem[e]) \cup Incomings(h)
  <2>1. mem'[e] = [mem[e] EXCEPT ![o] = h] /\ (e # d => mem'[d] = mem[d])
    BY <1>1, <1>3 DEF Conversations
  <2>2. ReceivedIn([mem[e] EXCEPT ![o] = h]) \subseteq ReceivedIn(mem[e]) \cup Incomings(h)
    BY <1>1, ReceivedAfter
  <2> QED
    BY <2>1, <2>2
<1>4. \A e, o \in Peers : Incomings(mem[e][o]) \subseteq ReceivedIn(mem[e])
  BY DEF ReceivedIn
<1>5. ASSUME NEW m \in Chats, Compose(m) PROVE ReceivedIn(mem'[d]) \subseteq ReceivedIn(mem[d])
  <2> DEFINE h == mem[From[m]][To[m]]
             r == Outgoing(m, "sending")
             g == PushBounded(h, r, scenario.maxHistory)
  <2>1. r \in Message /\ r.dir = "outgoing"
    BY DEF Outgoing, Message
  <2>2. mem' = [mem EXCEPT ![From[m]][To[m]] = g]
    BY <1>5 DEF Compose, Mutate
  <2>3. h \in Seq(Message) /\ Len(h) <= scenario.maxHistory
    BY <1>1, <1>2
  <2>4. Incomings(h) \subseteq ReceivedIn(mem[From[m]])
    BY <1>2, <1>4
  <2> HIDE DEF h, r
  <2>5. \A x \in Incomings(g) : x \in Incomings(h)
    BY <1>1, <2>1, <2>3, PushedIncomings
  <2> HIDE DEF g
  <2> QED
    BY <1>2, <1>3, <2>2, <2>4, <2>5
<1>6. ASSUME NEW m \in Chats, NEW s \in {"sent", "failed"}, Settle(m, s)
      PROVE  ReceivedIn(mem'[d]) \subseteq ReceivedIn(mem[d])
  <2> DEFINE h == mem[From[m]][To[m]]
             g == SetStatus(h, m, s)
  <2>1. \A r \in Message : r.id = m => WithStatus(r, s) \in Message
    BY DEF Message, WithStatus
  <2>2. \A r \in Message : WithStatus(r, s).id = r.id /\ WithStatus(r, s).dir = r.dir
    BY DEF Message, WithStatus
  <2>3. mem' = [mem EXCEPT ![From[m]][To[m]] = g]
    BY <1>6 DEF Settle, Mutate
  <2>4. h \in Seq(Message) /\ Incomings(h) \subseteq ReceivedIn(mem[From[m]])
    BY <1>1, <1>2, <1>4
  <2> HIDE DEF h
  <2>5. /\ g \in Seq(Message) /\ Len(g) = Len(h)
        /\ \A i \in 1..Len(h) : g[i] = h[i] \/ (h[i].id = m /\ g[i] = WithStatus(h[i], s))
    BY <2>1, <2>4, SetStatusIs
  <2> HIDE DEF g
  <2>6. \A i \in 1..Len(h) : h[i] \in Message
    BY <2>4, ElementOfSeq
  <2>7. Incomings(g) = Incomings(h)
    BY <2>2, <2>4, <2>5, <2>6, SameIncomings
  <2> QED
    BY <1>2, <1>3, <2>3, <2>4, <2>7
<1>7. ASSUME NEW p \in Pollers, AddMessage(p)
      PROVE  \/ ReceivedIn(mem'[d]) \subseteq ReceivedIn(mem[d])
             \/ /\ Host[p] = d
                /\ ReceivedIn(mem'[d]) \subseteq ReceivedIn(mem[d]) \cup {Head(poller[p].batch)}
  <2> DEFINE x == Head(poller[p].batch)
             h == mem[Host[p]][From[x]]
             r == Incoming(x)
             g == PushBounded(h, r, scenario.maxHistory)
  <2>1. x \in Chats /\ Host[p] \in Peers
    BY <1>7, PeersKnown DEF AddMessage
  <2>2. mem' = [mem EXCEPT ![Host[p]][From[x]] = g]
    BY <1>7 DEF AddMessage, Mutate
  <2> HIDE DEF x
  <2>3. r \in Message /\ r.id = x
    BY <2>1 DEF Incoming, Message
  <2>4. h \in Seq(Message) /\ Len(h) <= scenario.maxHistory /\ Incomings(h) \subseteq ReceivedIn(mem[Host[p]])
    BY <1>1, <1>2, <1>4, <2>1
  <2> HIDE DEF h, r
  <2>5. \A y \in Incomings(g) : y \in Incomings(h) \/ y = x
    BY <1>1, <2>3, <2>4, PushedIncomings
  <2> HIDE DEF g
  <2>6. ReceivedIn(mem'[Host[p]]) \subseteq ReceivedIn(mem[Host[p]]) \cup {x}
    BY <1>2, <1>3, <2>1, <2>2, <2>4, <2>5
  <2>7. Host[p] # d => mem'[d] = mem[d]
    BY <1>2, <1>3, <2>1, <2>2
  <2> QED
    BY <2>6, <2>7 DEF x
<1>8. ASSUME NEW e \in Peers, NEW o \in Peers, MarkRead(e, o)
      PROVE  ReceivedIn(mem'[d]) \subseteq ReceivedIn(mem[d])
  <2> DEFINE h == mem[e][o]
             g == MarkIncomingRead(h)
  <2>1. \A r \in Message : /\ r.dir = "incoming" => WithStatus(r, "read") \in Message
                           /\ WithStatus(r, "read").id = r.id /\ WithStatus(r, "read").dir = r.dir
    BY DEF Message, WithStatus
  <2>2. mem' = [mem EXCEPT ![e][o] = g]
    BY <1>8 DEF MarkRead, Mutate
  <2>3. h \in Seq(Message) /\ Incomings(h) \subseteq ReceivedIn(mem[e])
    BY <1>1, <1>4
  <2> HIDE DEF h
  <2>4. /\ g \in Seq(Message) /\ Len(g) = Len(h)
        /\ \A i \in 1..Len(h) : g[i] = h[i] \/ (h[i].dir = "incoming" /\ g[i] = WithStatus(h[i], "read"))
    BY <2>1, <2>3, MarkedIs
  <2> HIDE DEF g
  <2>5. \A i \in 1..Len(h) : h[i] \in Message
    BY <2>3, ElementOfSeq
  <2>6. Incomings(g) = Incomings(h)
    BY <2>1, <2>3, <2>4, <2>5, SameIncomings
  <2> QED
    BY <1>3, <2>2, <2>3, <2>6
<1>9. ASSUME NEW e \in Peers, Crash(e)
      PROVE  ReceivedIn(mem'[d]) \subseteq ReceivedIn(mem[d]) \/ (Crash(d) /\ mem'[d] = disk[d])
  <2>1. mem' = [mem EXCEPT ![e] = disk[e]]
    BY <1>9 DEF Crash
  <2>2. mem'[e] = disk[e] /\ (e # d => mem'[d] = mem[d])
    BY <1>1, <2>1 DEF Conversations
  <2> QED
    BY <1>9, <2>2
<1> QED
  BY <1>5, <1>6, <1>7, <1>8, <1>9, MemoryWriters

(* The batch of every fetch, before and after a step: what is left of it,  *)
(* or the oldest of the mailbox (lib.rs:1444-1500).                        *)
LEMMA BatchStep ==
    ASSUME IInv, Next, NEW p \in Pollers
    PROVE  \/ poller'[p] = poller[p]
           \/ poller'[p] = Idle
           \/ poller'[p] = [pc |-> "adding", batch |-> Batch(Host[p]), acks |-> {}]
           \/ /\ SkipForeign(p) /\ poller[p].batch # <<>> /\ poller[p].batch[1] \notin Chats
              /\ poller'[p] = [poller[p] EXCEPT !.batch = Tail(poller[p].batch)]
           \/ /\ AddMessage(p) /\ poller[p].batch # <<>> /\ poller[p].batch[1] \in Chats
              /\ poller'[p] = [poller[p] EXCEPT !.pc = "saving"]
           \/ /\ SaveAdded(p) /\ poller[p].pc = "saving"
              /\ poller'[p] = [pc |-> "adding", batch |-> Tail(poller[p].batch),
                               acks |-> poller[p].acks \cup {poller[p].batch[1]}]
<1>1. /\ poller \in [Pollers -> Poll] /\ \A q \in Pollers : poller[q].batch \in Seq(Items)
      /\ \A q \in Pollers : poller[q].pc = "saving" => poller[q].batch # <<>>
  BY DEF IInv, Types, Poll, ReceivedWasTaken
<1>2. \A q \in Pollers : poller[q].batch # <<>> => Head(poller[q].batch) = poller[q].batch[1]
  BY <1>1, RestOfBatch
<1>3. ASSUME NEW q \in Pollers, Polling(q), q # p PROVE poller'[p] = poller[p]
  BY <1>1, <1>3 DEF Polling, Fetch, SkipForeign, AddMessage, SaveAdded, NextInBatch, SaveAddedFails,
                    Ack, AckLost
<1>4. CASE Fetch(p) BY <1>1, <1>4 DEF Fetch
<1>5. CASE SkipForeign(p) BY <1>1, <1>2, <1>5 DEF SkipForeign
<1>6. CASE AddMessage(p) BY <1>1, <1>2, <1>6 DEF AddMessage
<1>7. CASE SaveAdded(p) BY <1>1, <1>2, <1>7 DEF SaveAdded, NextInBatch
<1>8. CASE SaveAddedFails(p) \/ Ack(p) \/ AckLost(p)
  BY <1>1, <1>8 DEF SaveAddedFails, Ack, AckLost
<1>9. ASSUME NEW d \in Peers, Crash(d) PROVE poller'[p] = poller[p] \/ poller'[p] = Idle
  BY <1>1, <1>9 DEF Crash
<1> QED
  BY <1>3, <1>4, <1>5, <1>6, <1>7, <1>8, <1>9, PollWriters DEF Polling

(* What an app has received, or is about to, the relay had for it.         *)
LEMMA ReceivedWasTakenStep ==
    ASSUME IInv, Next
    PROVE  ReceivedWasTaken'
<1>1. Types /\ Capped /\ TakenOnce /\ InboxesAreParts
  BY DEF IInv
<1>2. /\ \A d \in Peers : /\ ReceivedIn(mem[d]) \subseteq MailFor(d)
                          /\ ReceivedIn(disk[d]) \subseteq MailFor(d) \cap saved
      /\ saved \subseteq Accepted
      /\ \A p \in Pollers :
            /\ \A k \in 1..Len(poller[p].batch) : poller[p].batch[k] \in MailFor(Host[p])
            /\ poller[p].pc = "saving" => poller[p].batch # <<>> /\ poller[p].batch[1] \in Chats
  BY DEF IInv, ReceivedWasTaken
<1>3. Accepted \subseteq Accepted' /\ \A d \in Peers : MailFor(d) \subseteq MailFor(d)'
  BY <1>1, AcceptedGrows
<1>4. \A p \in Pollers : Host[p] \in Peers /\ poller[p].batch \in Seq(Items)
  BY <1>1, PeersKnown DEF Types, Poll
<1>5. ASSUME NEW d \in Peers PROVE ReceivedIn(mem'[d]) \subseteq MailFor(d)'
  <2>1. CASE ReceivedIn(mem'[d]) \subseteq ReceivedIn(mem[d])
    BY <1>2, <1>3, <2>1
  <2>2. CASE mem'[d] = disk[d]
    BY <1>2, <1>3, <2>2
  <2>3. ASSUME NEW p \in Pollers, AddMessage(p), Host[p] = d,
               ReceivedIn(mem'[d]) \subseteq ReceivedIn(mem[d]) \cup {Head(poller[p].batch)}
        PROVE  ReceivedIn(mem'[d]) \subseteq MailFor(d)'
    <3>1. poller[p].batch # <<>>
      BY <2>3 DEF AddMessage
    <3>2. Head(poller[p].batch) = poller[p].batch[1] /\ 1 \in 1..Len(poller[p].batch)
      BY <1>4, <3>1, RestOfBatch
    <3>3. Head(poller[p].batch) \in MailFor(d)
      BY <1>2, <2>3, <3>2
    <3> QED
      BY <1>2, <1>3, <2>3, <3>3
  <2> QED
    BY <1>1, <2>1, <2>2, <2>3, ReceivedStep
<1>6. /\ \A d \in Peers : ReceivedIn(disk'[d]) \subseteq MailFor(d)' \cap saved'
      /\ saved' \subseteq Accepted'
  <2>1. CASE UNCHANGED <<disk, saved>>
    <3>1. \A d \in Peers : ReceivedIn(disk'[d]) \subseteq MailFor(d) \cap saved
      BY <1>2, <2>1
    <3> QED
      BY <1>2, <1>3, <2>1, <3>1
  <2>2. ASSUME NEW d \in Peers, Persist(d)
        PROVE  /\ \A e \in Peers : ReceivedIn(disk'[e]) \subseteq MailFor(e)' \cap saved'
               /\ saved' \subseteq Accepted'
    <3>1. saved' = saved \cup ReceivedIn(mem[d]) /\ disk' = [disk EXCEPT ![d] = mem[d]]
      BY <2>2 DEF Persist
    <3>2. disk'[d] = mem[d] /\ \A e \in Peers : e # d => disk'[e] = disk[e]
      BY <1>1, <3>1 DEF Types, Conversations
    <3>3. ReceivedIn(mem[d]) \subseteq Accepted
      BY <1>2 DEF MailFor
    <3>4. saved' \subseteq Accepted'
      BY <1>2, <1>3, <3>1, <3>3
    <3>5. ASSUME NEW e \in Peers PROVE ReceivedIn(disk'[e]) \subseteq MailFor(e)' \cap saved'
      <4>1. CASE e = d
        BY <1>2, <1>3, <3>1, <3>2, <4>1
      <4>2. CASE e # d
        <5>1. ReceivedIn(disk'[e]) \subseteq MailFor(e) \cap saved
          BY <1>2, <3>2, <4>2
        <5> QED
          BY <1>3, <3>1, <5>1
      <4> QED
        BY <4>1, <4>2
    <3> QED
      BY <3>4, <3>5
  <2> QED
    BY <2>1, <2>2, DiskWriters
<1>7. ASSUME NEW p \in Pollers
      PROVE  /\ \A k \in 1..Len(poller'[p].batch) : poller'[p].batch[k] \in MailFor(Host[p])'
             /\ poller'[p].pc = "saving" => poller'[p].batch # <<>> /\ poller'[p].batch[1] \in Chats
  <2> DEFINE b == poller[p].batch
  <2>1. \A k \in 1..Len(b) : b[k] \in MailFor(Host[p])'
    BY <1>2, <1>3, <1>4
  <2>2. CASE poller'[p] = poller[p]
    BY <1>2, <2>1, <2>2
  <2>3. CASE poller'[p] = Idle
    <3>1. 1..Len(<<>>) = {}
      BY EmptySeq
    <3> QED
      BY <2>3, <3>1 DEF Idle
  <2>4. CASE poller'[p] = [pc |-> "adding", batch |-> Batch(Host[p]), acks |-> {}]
    <3>1. /\ inbox[Host[p]] \in Seq(Items)
          /\ \A k \in 1..Len(Batch(Host[p])) : /\ k \in 1..Len(inbox[Host[p]])
                                               /\ Batch(Host[p])[k] = inbox[Host[p]][k]
      BY <1>1, <1>4, BatchIs DEF Types
    <3>2. \A k \in 1..Len(Batch(Host[p])) : Batch(Host[p])[k] \in Range(inbox[Host[p]])
      BY <3>1, RangeIs
    <3>3. Range(inbox[Host[p]]) \subseteq MailFor(Host[p])'
      BY <1>1, <1>3, <1>4, InboxIsMail
    <3> QED
      BY <2>4, <3>2, <3>3
  <2>5. CASE poller[p].batch # <<>> /\ poller'[p].pc # "saving" /\ poller'[p].batch = Tail(b)
    <3>1. \A k \in 1..Len(Tail(b)) : Tail(b)[k] = b[k + 1] /\ k + 1 \in 1..Len(b)
      BY <1>4, <2>5, RestOfBatch
    <3> QED
      BY <2>1, <2>5, <3>1
  <2>6. CASE poller[p].batch # <<>> /\ poller[p].batch[1] \in Chats /\ poller'[p].batch = b
    BY <2>1, <2>6
  <2>7. poller[p] \in Poll
    BY <1>1 DEF Types
  <2>8. CASE /\ SkipForeign(p) /\ poller[p].batch # <<>>
             /\ poller'[p] = [poller[p] EXCEPT !.batch = Tail(b)]
    <3>1. poller'[p].batch = Tail(b) /\ poller'[p].pc = "adding"
      BY <2>7, <2>8 DEF Poll, SkipForeign
    <3> QED
      BY <2>5, <2>8, <3>1
  <2>9. CASE /\ AddMessage(p) /\ poller[p].batch # <<>> /\ poller[p].batch[1] \in Chats
             /\ poller'[p] = [poller[p] EXCEPT !.pc = "saving"]
    <3>1. poller'[p].batch = b
      BY <2>7, <2>9 DEF Poll
    <3> QED
      BY <2>6, <2>9, <3>1
  <2>10. CASE /\ SaveAdded(p) /\ poller[p].pc = "saving"
              /\ poller'[p] = [pc |-> "adding", batch |-> Tail(b),
                               acks |-> poller[p].acks \cup {poller[p].batch[1]}]
    <3>1. poller'[p].batch = Tail(b) /\ poller'[p].pc = "adding" /\ b # <<>>
      BY <1>2, <2>10
    <3> QED
      BY <2>5, <3>1
  <2> QED
    BY <2>2, <2>3, <2>4, <2>8, <2>9, <2>10, BatchStep
<1> QED
  BY <1>5, <1>6, <1>7 DEF ReceivedWasTaken

(* The apps start with nothing written, sent or received.                  *)
LEMMA InvariantInit ==
    ASSUME Init
    PROVE  IInv
<1>1. /\ <<>> \in Seq(Message) /\ <<>> \in Seq(Items) /\ Len(<<>>) = 0 /\ 1..Len(<<>>) = {}
  BY EmptySeq
<1>2. Idle \in Poll
  BY <1>1 DEF Idle, Poll
<1>3. scenario \in Scenario /\ scenario \in Scenarios
  BY ScenariosKnown DEF Init
<1>4. scenario.faults \in Nat /\ scenario.maxHistory \in Nat /\ scenario.relayCap \in Nat
  BY <1>3 DEF Scenario
<1>5. \E sc \in Scenarios : /\ scenario.faults \in 0..sc.faults
                            /\ scenario = [sc EXCEPT !.faults = scenario.faults]
  <2>1. scenario.faults \in 0..scenario.faults
    BY <1>4
  <2>2. scenario = [scenario EXCEPT !.faults = scenario.faults]
    BY <1>3 DEF Scenario
  <2> QED
    BY <1>3, <2>1, <2>2
<1>6. Types
  BY <1>1, <1>2, <1>3, <1>5 DEF Init, Types, Conversations, SenderStates
<1>7. Capped
  BY <1>1, <1>4 DEF Init, Capped
<1>8. Accepted = {}
  BY <1>1, RangeIs DEF Init, Accepted
<1>9. TakenOnce
  BY <1>1, <1>8 DEF Init, TakenOnce, NoneTwice
<1>10. InboxesAreParts
  BY <1>1, <1>8 DEF Init, InboxesAreParts, PartOf
<1>11. \A d \in Peers : ReceivedIn(mem[d]) = {} /\ ReceivedIn(disk[d]) = {}
  <2>1. Incomings(<<>>) = {}
    BY <1>1, IncomingsAre
  <2> QED
    BY <2>1 DEF Init, ReceivedIn
<1>12. ReceivedWasTaken
  BY <1>1, <1>8, <1>11 DEF Init, ReceivedWasTaken, Idle
<1> QED
  BY <1>6, <1>7, <1>9, <1>10, <1>12 DEF IInv

(* One step of the apps, the relay or the user.                            *)
LEMMA InvariantStep ==
    ASSUME IInv, [Next]_vars
    PROVE  IInv'
<1>1. CASE Next
  BY <1>1, TypesStep, TakenOnceStep, InboxesStep, ReceivedWasTakenStep DEF IInv
<1>2. CASE UNCHANGED vars
  BY <1>2 DEF vars, relayVars, IInv, Types, Capped, TakenOnce, InboxesAreParts, ReceivedWasTaken,
              Accepted, MailFor
<1> QED
  BY <1>1, <1>2

(* The inductive invariant: types, caps, that the relay takes each message *)
(* once, and that whatever an app holds the relay had for it.              *)
THEOREM InvariantHolds == Spec => []IInv
<1>1. Init => IInv
  BY InvariantInit
<1>2. IInv /\ [Next]_vars => IInv'
  BY InvariantStep
<1> QED
  BY <1>1, <1>2, PTL DEF Spec

(* Every variable of the two apps, the relay and the wire keeps its type,  *)
(* and conversations and inboxes their caps (chat_store.rs:49-71,          *)
(* store.rs:104-109).                                                      *)
THEOREM ChatTypes == Spec => []TypeOK
<1>1. ASSUME IInv PROVE TypeOK
  <2>1. Types /\ Capped /\ InboxesAreParts /\ ReceivedWasTaken
    BY <1>1 DEF IInv
  <2>2. /\ \A d, o \in Peers : mem[d][o] \in Seq(Message) /\ disk[d][o] \in Seq(Message)
        /\ \A d \in Peers : inbox[d] \in Seq(Items)
        /\ \A p \in Pollers : /\ poller[p].batch \in Seq(Items) /\ poller[p].acks \subseteq Items
                              /\ poller[p].pc \in {"idle", "adding", "saving"}
        /\ log \in Seq(Items)
    BY <2>1 DEF Types, Conversations, Poll
  <2>3. \A h \in {mem, disk} : \A d, o \in Peers :
           Len(h[d][o]) <= scenario.maxHistory /\ Range(h[d][o]) \subseteq Message
    BY <2>1, <2>2, RangeIs DEF Capped
  <2>4. \A d \in Peers : Len(inbox[d]) <= scenario.relayCap /\ Range(inbox[d]) \subseteq Items
    BY <2>1, <2>2, RangeIs DEF Capped
  <2>5. \A p \in Pollers : /\ poller[p].pc \in {"idle", "adding", "saving"}
                           /\ Range(poller[p].batch) \cup poller[p].acks \subseteq Items
    BY <2>2, RangeIs
  <2>6. Accepted \subseteq Items
    BY <2>2, RangeIs DEF Accepted
  <2>7. displaced \subseteq Accepted
    BY <2>1 DEF InboxesAreParts
  <2> QED
    BY <2>1, <2>3, <2>4, <2>5, <2>6, <2>7 DEF Types, TypeOK
<1> QED
  BY <1>1, InvariantHolds, PTL
-------------------------------------------------------------------------------
\* A conversation in which what is shown as sent is in A.
SentIn(h, A) == \A i \in 1..Len(h) : h[i].status = "sent" => h[i].id \in A

(* SentMeansAccepted, conversation by conversation.                        *)
LEMMA SentMeans ==
    ASSUME NEW a \in Conversations, NEW b \in Conversations, NEW A
    PROVE  (\A d, o \in Peers : \A r \in Range(a[d][o]) \cup Range(b[d][o]) :
                r.status = "sent" => r.id \in A)
           <=> \A d, o \in Peers : SentIn(a[d][o], A) /\ SentIn(b[d][o], A)
<1>1. \A d, o \in Peers : a[d][o] \in Seq(Message) /\ b[d][o] \in Seq(Message)
  BY DEF Conversations
<1>2. ASSUME NEW d \in Peers, NEW o \in Peers
      PROVE  (\A r \in Range(a[d][o]) \cup Range(b[d][o]) : r.status = "sent" => r.id \in A)
                <=> SentIn(a[d][o], A) /\ SentIn(b[d][o], A)
  <2>1. /\ \A r : r \in Range(a[d][o]) <=> \E i \in 1..Len(a[d][o]) : a[d][o][i] = r
        /\ \A r : r \in Range(b[d][o]) <=> \E i \in 1..Len(b[d][o]) : b[d][o][i] = r
    BY <1>1, RangeIs
  <2> QED
    BY <2>1 DEF SentIn
<1> QED
  BY <1>2

(* A status is set to "sent" when the relay's answer is in (lib.rs:1396).  *)
LEMMA SentInMemory ==
    ASSUME IInv, Next, SentMeansAccepted
    PROVE  \A d, o \in Peers : SentIn(mem'[d][o], Accepted')
<1>1. Types /\ Capped /\ TakenOnce
  BY DEF IInv
<1>2. /\ \A d, o \in Peers : /\ mem[d][o] \in Seq(Message) /\ Len(mem[d][o]) <= scenario.maxHistory
                             /\ SentIn(mem[d][o], Accepted) /\ SentIn(disk[d][o], Accepted)
      /\ mem \in Conversations /\ scenario.maxHistory \in Nat \ {0}
  <2>1. \A d, o \in Peers : SentIn(mem[d][o], Accepted) /\ SentIn(disk[d][o], Accepted)
    BY <1>1, SentMeans DEF Types, SentMeansAccepted
  <2> QED
    BY <1>1, <2>1, LimitsStay DEF Types, Capped, Conversations
<1>3. Accepted \subseteq Accepted'
  BY <1>1, AcceptedGrows
<1>4. \A h, A, B : A \subseteq B /\ SentIn(h, A) => SentIn(h, B)
  BY DEF SentIn
<1>5. \A d, o \in Peers : SentIn(mem[d][o], Accepted') /\ SentIn(disk[d][o], Accepted')
  BY <1>2, <1>3, <1>4
<1>6. \A m \in Chats : From[m] \in Peers /\ To[m] \in Peers
  BY PeersKnown DEF Items
<1>7. ASSUME NEW d \in Peers, NEW o \in Peers, NEW h, SentIn(h, Accepted'), mem' = [mem EXCEPT ![d][o] = h]
      PROVE  \A e, q \in Peers : SentIn(mem'[e][q], Accepted')
  <2>1. \A e, q \in Peers : mem'[e][q] = h \/ mem'[e][q] = mem[e][q]
    BY <1>2, <1>7 DEF Conversations
  <2> QED
    BY <1>5, <1>7, <2>1
<1>8. ASSUME NEW h \in Seq(Message), Len(h) <= scenario.maxHistory, SentIn(h, Accepted'),
             NEW r \in Message, r.status # "sent"
      PROVE  SentIn(PushBounded(h, r, scenario.maxHistory), Accepted')
  <2> DEFINE g == PushBounded(h, r, scenario.maxHistory)
             k == Slid(h, scenario.maxHistory)
  <2>1. /\ g \in Seq(Message) /\ k \in {0, 1} /\ k <= Len(h) /\ Len(g) = Len(h) + 1 - k
        /\ \A i \in 1..(Len(h) - k) : g[i] = h[i + k]
        /\ g[Len(g)] = r
    <3>1. scenario.maxHistory \in Nat \ {0}
      BY <1>2
    <3>2. Pushed(g, h, r, scenario.maxHistory, Message)
      BY <1>8, <3>1, PushedIs
    <3> QED
      BY <3>2 DEF Pushed
  <2>2. Len(h) \in Nat
    BY LenProperties
  <2> HIDE DEF g, k
  <2>3. \A i \in 1..Len(g) : i = Len(g) \/ (i \in 1..(Len(h) - k) /\ i + k \in 1..Len(h))
    BY <2>1, <2>2
  <2>4. SentIn(g, Accepted')
    BY <1>8, <2>1, <2>3 DEF SentIn
  <2> QED
    BY <2>4 DEF g
<1>9. ASSUME NEW m \in Chats, Compose(m) PROVE \A d, o \in Peers : SentIn(mem'[d][o], Accepted')
  <2>1. Outgoing(m, "sending") \in Message /\ Outgoing(m, "sending").status # "sent"
    BY DEF Outgoing, Message
  <2>2. SentIn(PushBounded(mem[From[m]][To[m]], Outgoing(m, "sending"), scenario.maxHistory), Accepted')
    BY <1>2, <1>5, <1>6, <1>8, <2>1
  <2> QED
    BY <1>6, <1>7, <1>9, <2>2 DEF Compose, Mutate
<1>10. ASSUME NEW p \in Pollers, AddMessage(p) PROVE \A d, o \in Peers : SentIn(mem'[d][o], Accepted')
  <2> DEFINE x == Head(poller[p].batch)
  <2>1. x \in Chats /\ Host[p] \in Peers
    BY <1>10, PeersKnown DEF AddMessage
  <2>2. Incoming(x) \in Message /\ Incoming(x).status # "sent"
    BY <2>1 DEF Incoming, Message
  <2>3. mem' = [mem EXCEPT ![Host[p]][From[x]] = PushBounded(mem[Host[p]][From[x]], Incoming(x),
                                                             scenario.maxHistory)]
    BY <1>10 DEF AddMessage, Mutate
  <2> HIDE DEF x
  <2>4. SentIn(PushBounded(mem[Host[p]][From[x]], Incoming(x), scenario.maxHistory), Accepted')
    BY <1>2, <1>5, <1>6, <1>8, <2>1, <2>2
  <2> QED
    BY <1>6, <1>7, <2>1, <2>3, <2>4
<1>11. ASSUME NEW m \in Chats, NEW s \in {"sent", "failed"}, Settle(m, s), s = "sent" => m \in Accepted'
       PROVE  \A d, o \in Peers : SentIn(mem'[d][o], Accepted')
  <2> DEFINE h == mem[From[m]][To[m]]
             g == SetStatus(h, m, s)
  <2>1. \A r \in Message : r.id = m => WithStatus(r, s) \in Message
    BY DEF Message, WithStatus
  <2>2. \A r \in Message : WithStatus(r, s).id = r.id /\ WithStatus(r, s).status = s
    BY DEF Message, WithStatus
  <2>3. h \in Seq(Message) /\ SentIn(h, Accepted')
    BY <1>2, <1>5, <1>6
  <2>4. mem' = [mem EXCEPT ![From[m]][To[m]] = g]
    BY <1>11 DEF Settle, Mutate
  <2> HIDE DEF h
  <2>5. /\ Len(g) = Len(h)
        /\ \A i \in 1..Len(h) : g[i] = h[i] \/ (h[i].id = m /\ g[i] = WithStatus(h[i], s))
    BY <2>1, <2>3, SetStatusIs
  <2> HIDE DEF g
  <2>6. \A i \in 1..Len(h) : h[i] \in Message
    BY <2>3, ElementOfSeq
  <2>7. SentIn(g, Accepted')
    BY <1>11, <2>2, <2>3, <2>5, <2>6 DEF SentIn
  <2> QED
    BY <1>6, <1>7, <2>4, <2>7
<1>12. ASSUME NEW m \in Chats, wire[m] = "answer" PROVE m \in Accepted'
  BY <1>1, <1>3, <1>12 DEF TakenOnce
<1>13. ASSUME NEW d \in Peers, NEW o \in Peers, MarkRead(d, o)
       PROVE  \A e, q \in Peers : SentIn(mem'[e][q], Accepted')
  <2> DEFINE h == mem[d][o]
             g == MarkIncomingRead(h)
  <2>1. \A r \in Message : /\ r.dir = "incoming" => WithStatus(r, "read") \in Message
                           /\ WithStatus(r, "read").status = "read"
    BY DEF Message, WithStatus
  <2>2. h \in Seq(Message) /\ SentIn(h, Accepted') /\ mem' = [mem EXCEPT ![d][o] = g]
    BY <1>2, <1>5, <1>13 DEF MarkRead, Mutate
  <2> HIDE DEF h
  <2>3. /\ Len(g) = Len(h)
        /\ \A i \in 1..Len(h) : g[i] = h[i] \/ (h[i].dir = "incoming" /\ g[i] = WithStatus(h[i], "read"))
    BY <2>1, <2>2, MarkedIs
  <2> HIDE DEF g
  <2>4. \A i \in 1..Len(h) : h[i] \in Message
    BY <2>2, ElementOfSeq
  <2>5. SentIn(g, Accepted')
    BY <2>1, <2>2, <2>3, <2>4 DEF SentIn
  <2> QED
    BY <1>7, <2>2, <2>5
<1>14. ASSUME NEW d \in Peers, Crash(d) PROVE \A e, q \in Peers : SentIn(mem'[e][q], Accepted')
  <2>1. mem' = [mem EXCEPT ![d] = disk[d]]
    BY <1>14 DEF Crash
  <2>2. \A e, q \in Peers : mem'[e][q] = disk[e][q] \/ mem'[e][q] = mem[e][q]
    BY <1>2, <2>1 DEF Conversations
  <2> QED
    BY <1>5, <2>2
<1>15. CASE mem' = mem
  BY <1>5, <1>15
<1> QED
  BY <1>9, <1>10, <1>11, <1>12, <1>13, <1>14, <1>15, MemoryWriters

(* A message shown as sent, in memory or on disk, is one the relay took:   *)
(* the status is set after the answer (lib.rs:1396-1406), by id, and no    *)
(* overlapping save or restart brings back another.                        *)
THEOREM SentWasAccepted == Spec => []SentMeansAccepted
<1>1. ASSUME Init PROVE SentMeansAccepted
  <2>1. Types /\ 1..Len(<<>>) = {}
    BY <1>1, InvariantInit, EmptySeq DEF IInv
  <2>2. \A A : SentIn(<<>>, A)
    BY <2>1 DEF SentIn
  <2>3. \A d, o \in Peers : SentIn(mem[d][o], Accepted) /\ SentIn(disk[d][o], Accepted)
    BY <1>1, <2>2 DEF Init
  <2> QED
    BY <2>1, <2>3, SentMeans DEF Types, SentMeansAccepted
<1>2. ASSUME IInv, SentMeansAccepted, [Next]_vars PROVE SentMeansAccepted'
  <2>1. CASE Next
    <3>1. Types /\ Types'
      BY <1>2, <2>1, InvariantStep DEF IInv
    <3>2. \A d, o \in Peers : SentIn(mem'[d][o], Accepted')
      BY <1>2, <2>1, SentInMemory
    <3>3. \A d, o \in Peers : SentIn(disk'[d][o], Accepted')
      <4>1. /\ \A d, o \in Peers : SentIn(mem[d][o], Accepted) /\ SentIn(disk[d][o], Accepted)
            /\ disk \in Conversations
        BY <1>2, <3>1, SentMeans DEF Types, SentMeansAccepted
      <4>2. Accepted \subseteq Accepted'
        BY <1>2, <2>1, AcceptedGrows DEF IInv
      <4>3. \A d, o \in Peers : disk'[d][o] = disk[d][o] \/ disk'[d][o] = mem[d][o]
        BY <2>1, <4>1, DiskWriters DEF Persist, Conversations
      <4> QED
        BY <4>1, <4>2, <4>3 DEF SentIn
    <3> QED
      BY <3>1, <3>2, <3>3, SentMeans DEF Types, SentMeansAccepted
  <2>2. CASE UNCHANGED vars
    BY <1>2, <2>2 DEF vars, relayVars, SentMeansAccepted, Accepted
  <2> QED
    BY <1>2, <2>1, <2>2
<1> QED
  BY <1>1, <1>2, InvariantHolds, PTL DEF Spec
-------------------------------------------------------------------------------
\* Grows, with the number of messages dropped at the front.
SameOrMoved(a, b) ==
    /\ a.id = b.id /\ a.dir = b.dir
    /\ a.status = b.status \/ <<a.status, b.status>> \in StatusMoves
GrowsBy(old, new, cap, k) ==
    /\ k \in 0..Len(old)
    /\ Len(new) >= Len(old) - k
    /\ k > 0 => Len(new) = cap
    /\ \A i \in 1..(Len(old) - k) : SameOrMoved(old[i + k], new[i])

(* Grows, in these words.                                                  *)
LEMMA GrowsIs ==
    ASSUME NEW old, NEW new
    PROVE  Grows(old, new) <=> \E k \in 0..Len(old) : GrowsBy(old, new, scenario.maxHistory, k)
BY DEF Grows, GrowsBy, SameOrMoved

(* No status moves twice (chat_store.rs:141-160): what has moved stays.    *)
LEMMA MovesCompose ==
    ASSUME NEW a \in Message, NEW b \in Message, NEW c \in Message,
           SameOrMoved(a, b), SameOrMoved(b, c)
    PROVE  SameOrMoved(a, c)
BY DEF SameOrMoved, StatusMoves, Message

(* What does not change grows by nothing.                                  *)
LEMMA GrowsByNothing ==
    ASSUME NEW h \in Seq(Message), NEW g \in Seq(Message), NEW cap, Len(g) = Len(h),
           \A i \in 1..Len(h) : SameOrMoved(h[i], g[i])
    PROVE  GrowsBy(h, g, cap, 0)
<1>1. Len(h) \in Nat
  BY LenProperties
<1>2. 0 \in 0..Len(h) /\ Len(h) - 0 = Len(h) /\ \A i \in 1..Len(h) : i + 0 = i
  BY <1>1
<1> QED
  BY <1>1, <1>2 DEF GrowsBy

(* Growing and growing again.                                              *)
LEMMA GrowsOn ==
    ASSUME NEW a \in Seq(Message), NEW b \in Seq(Message), NEW c \in Seq(Message), NEW cap \in Nat,
           Len(b) <= cap, Len(c) <= cap,
           NEW k, NEW l, GrowsBy(a, b, cap, k), GrowsBy(b, c, cap, l)
    PROVE  \E n \in 0..Len(a) : GrowsBy(a, c, cap, n)
<1>1. Len(a) \in Nat /\ Len(b) \in Nat /\ Len(c) \in Nat
  BY LenProperties
<1>2. /\ k \in 0..Len(a) /\ Len(b) >= Len(a) - k /\ (k > 0 => Len(b) = cap)
      /\ l \in 0..Len(b) /\ Len(c) >= Len(b) - l /\ (l > 0 => Len(c) = cap)
      /\ \A i \in 1..(Len(a) - k) : SameOrMoved(a[i + k], b[i])
      /\ \A i \in 1..(Len(b) - l) : SameOrMoved(b[i + l], c[i])
  BY DEF GrowsBy
<1>3. CASE k + l <= Len(a)
  <2> DEFINE n == k + l
  <2>1. n \in 0..Len(a) /\ Len(c) >= Len(a) - n /\ (n > 0 => Len(c) = cap)
    BY <1>1, <1>2, <1>3
  <2>2. \A i \in 1..(Len(a) - n) : SameOrMoved(a[i + n], c[i])
    <3> TAKE i \in 1..(Len(a) - n)
    <3>1. /\ i + l \in 1..(Len(a) - k) /\ i \in 1..(Len(b) - l) /\ (i + l) + k = i + n
          /\ i + n \in 1..Len(a) /\ i + l \in 1..Len(b) /\ i \in 1..Len(c)
      BY <1>1, <1>2, <1>3
    <3>2. SameOrMoved(a[(i + l) + k], b[i + l]) /\ SameOrMoved(b[i + l], c[i])
      BY <1>2, <3>1
    <3>3. a[i + n] \in Message /\ b[i + l] \in Message /\ c[i] \in Message
      BY <3>1, ElementOfSeq
    <3>4. SameOrMoved(a[i + n], b[i + l])
      BY <3>1, <3>2
    <3> HIDE DEF n
    <3> QED
      BY <3>2, <3>3, <3>4, MovesCompose
  <2>3. GrowsBy(a, c, cap, n)
    BY <2>1, <2>2 DEF GrowsBy
  <2> QED
    BY <2>1, <2>3
<1>4. CASE ~(k + l <= Len(a))
  <2>1. Len(a) \in 0..Len(a) /\ Len(c) >= Len(a) - Len(a) /\ (Len(a) > 0 => Len(c) = cap)
        /\ 1..(Len(a) - Len(a)) = {}
    BY <1>1, <1>2, <1>4
  <2>2. GrowsBy(a, c, cap, Len(a))
    BY <2>1 DEF GrowsBy
  <2> QED
    BY <2>1, <2>2
<1> QED
  BY <1>3, <1>4

(* push_back and pop_front (chat_store.rs:119-130).                        *)
LEMMA GrowsByPush ==
    ASSUME NEW h \in Seq(Message), NEW r \in Message, NEW cap \in Nat \ {0}, Len(h) <= cap
    PROVE  \E k \in 0..Len(h) : GrowsBy(h, PushBounded(h, r, cap), cap, k)
<1> DEFINE g == PushBounded(h, r, cap)
           k == Slid(h, cap)
<1>1. Pushed(g, h, r, cap, Message)
  BY PushedIs
<1>2. /\ k \in {0, 1} /\ k <= Len(h) /\ Len(g) = Len(h) + 1 - k /\ (k = 1 => Len(g) = cap)
      /\ \A i \in 1..(Len(h) - k) : g[i] = h[i + k]
  BY <1>1 DEF Pushed
<1>3. Len(h) \in Nat
  BY LenProperties
<1> HIDE DEF g, k
<1>4. k \in 0..Len(h) /\ Len(g) >= Len(h) - k /\ (k > 0 => Len(g) = cap)
  BY <1>2, <1>3
<1>5. \A i \in 1..(Len(h) - k) : SameOrMoved(h[i + k], g[i])
  BY <1>2 DEF SameOrMoved
<1>6. GrowsBy(h, g, cap, k)
  BY <1>4, <1>5 DEF GrowsBy
<1> QED
  BY <1>4, <1>6 DEF g

(* update_status of a message that is on its way (lib.rs:1396-1406).       *)
LEMMA GrowsBySettling ==
    ASSUME NEW h \in Seq(Message), NEW m, NEW s \in {"sent", "failed"}, NEW cap, OnItsWay(h, m)
    PROVE  GrowsBy(h, SetStatus(h, m, s), cap, 0)
<1> DEFINE g == SetStatus(h, m, s)
<1>1. \A r \in Message : r.id = m => WithStatus(r, s) \in Message
  BY DEF Message, WithStatus
<1>2. /\ g \in Seq(Message) /\ Len(g) = Len(h)
      /\ \A i \in 1..Len(h) : g[i] = h[i] \/ (h[i].id = m /\ g[i] = WithStatus(h[i], s))
  BY <1>1, SetStatusIs
<1>3. \A i \in 1..Len(h) : h[i] \in Message
  BY ElementOfSeq
<1> HIDE DEF g
<1>4. \A i \in 1..Len(h) : SameOrMoved(h[i], g[i])
  <2> TAKE i \in 1..Len(h)
  <2>1. CASE g[i] = h[i]
    BY <2>1 DEF SameOrMoved
  <2>2. CASE h[i].id = m /\ g[i] = WithStatus(h[i], s)
    <3>1. h[i].status = "sending"
      BY <2>2 DEF OnItsWay, Outgoing
    <3>2. g[i].id = h[i].id /\ g[i].dir = h[i].dir /\ g[i].status = s
      BY <1>3, <2>2 DEF WithStatus, Message
    <3> QED
      BY <3>1, <3>2 DEF SameOrMoved, StatusMoves
  <2> QED
    BY <1>2, <2>1, <2>2
<1> QED
  BY <1>2, <1>4, GrowsByNothing DEF g

(* mark_read of what was delivered (chat_store.rs:152-160).                *)
LEMMA GrowsByReading ==
    ASSUME NEW h \in Seq(Message), NEW cap, Directed(h)
    PROVE  GrowsBy(h, MarkIncomingRead(h), cap, 0)
<1> DEFINE g == MarkIncomingRead(h)
<1>1. \A r \in Message : r.dir = "incoming" => WithStatus(r, "read") \in Message
  BY DEF Message, WithStatus
<1>2. /\ g \in Seq(Message) /\ Len(g) = Len(h)
      /\ \A i \in 1..Len(h) : g[i] = h[i] \/ (h[i].dir = "incoming" /\ g[i] = WithStatus(h[i], "read"))
  BY <1>1, MarkedIs
<1>3. \A i \in 1..Len(h) : h[i] \in Message
  BY ElementOfSeq
<1> HIDE DEF g
<1>4. \A i \in 1..Len(h) : SameOrMoved(h[i], g[i])
  <2> TAKE i \in 1..Len(h)
  <2>1. CASE g[i] = h[i]
    BY <2>1 DEF SameOrMoved
  <2>2. CASE h[i].dir = "incoming" /\ g[i] = WithStatus(h[i], "read")
    <3>1. h[i].status \in {"delivered", "read"}
      BY <2>2 DEF Directed
    <3>2. g[i].id = h[i].id /\ g[i].dir = h[i].dir /\ g[i].status = "read"
      BY <1>3, <2>2 DEF WithStatus, Message
    <3> QED
      BY <3>1, <3>2 DEF SameOrMoved, StatusMoves
  <2> QED
    BY <1>2, <2>1, <2>2
<1> QED
  BY <1>2, <1>4, GrowsByNothing DEF g

\* What may happen to one conversation, and to the send concerned.
Composes(m, d, o) ==
    /\ From[m] = d /\ To[m] = o /\ sender[m] = "idle" /\ sender' = [sender EXCEPT ![m] = "composed"]
    /\ mem'[d][o] = PushBounded(mem[d][o], Outgoing(m, "sending"), scenario.maxHistory)
Settles(m, s, d, o) ==
    /\ From[m] = d /\ To[m] = o /\ sender[m] = "await" /\ sender' = [sender EXCEPT ![m] = "settled"]
    /\ mem'[d][o] = SetStatus(mem[d][o], m, s)
Receives(x, d, o) ==
    /\ To[x] = d /\ From[x] = o /\ sender' = sender
    /\ mem'[d][o] = PushBounded(mem[d][o], Incoming(x), scenario.maxHistory)

(* What may happen to one conversation in memory (lib.rs:1358-1506).       *)
LEMMA MemoryStep ==
    ASSUME IInv, Next, NEW d \in Peers, NEW o \in Peers
    PROVE  \/ mem'[d][o] = mem[d][o]
           \/ \E m \in Chats : Composes(m, d, o)
           \/ \E m \in Chats : \E s \in {"sent", "failed"} : Settles(m, s, d, o)
           \/ \E x \in Chats : Receives(x, d, o)
           \/ sender' = sender /\ mem'[d][o] = MarkIncomingRead(mem[d][o])
           \/ Crash(d) /\ mem'[d][o] = disk[d][o]
<1>1. /\ mem \in Conversations /\ sender \in [Chats -> SenderStates]
      /\ \A p \in Pollers : /\ poller[p].batch \in Seq(Items)
                            /\ \A k \in 1..Len(poller[p].batch) : poller[p].batch[k] \in MailFor(Host[p])
  BY DEF IInv, Types, Poll, ReceivedWasTaken
<1>2. \A m \in Chats : From[m] \in Peers /\ To[m] \in Peers
  BY PeersKnown DEF Items
<1>3. ASSUME NEW e \in Peers, NEW q \in Peers, NEW h, mem' = [mem EXCEPT ![e][q] = h]
      PROVE  IF e = d /\ q = o THEN mem'[d][o] = h ELSE mem'[d][o] = mem[d][o]
  BY <1>1, <1>3 DEF Conversations
<1>4. ASSUME NEW m \in Chats, Compose(m) PROVE mem'[d][o] = mem[d][o] \/ Composes(m, d, o)
  <2>1. mem' = [mem EXCEPT ![From[m]][To[m]] = PushBounded(mem[From[m]][To[m]], Outgoing(m, "sending"),
                                                           scenario.maxHistory)]
    BY <1>4 DEF Compose, Mutate
  <2>2. sender[m] = "idle" /\ sender' = [sender EXCEPT ![m] = "composed"]
    BY <1>4 DEF Compose, Moves
  <2> QED
    BY <1>2, <1>3, <2>1, <2>2 DEF Composes
<1>5. ASSUME NEW m \in Chats, NEW s \in {"sent", "failed"}, Settle(m, s)
      PROVE  mem'[d][o] = mem[d][o] \/ Settles(m, s, d, o)
  <2>1. mem' = [mem EXCEPT ![From[m]][To[m]] = SetStatus(mem[From[m]][To[m]], m, s)]
    BY <1>5 DEF Settle, Mutate
  <2>2. sender[m] = "await" /\ sender' = [sender EXCEPT ![m] = "settled"]
    BY <1>5 DEF Settle, Moves
  <2> QED
    BY <1>2, <1>3, <2>1, <2>2 DEF Settles
<1>6. ASSUME NEW p \in Pollers, AddMessage(p)
      PROVE  mem'[d][o] = mem[d][o] \/ \E x \in Chats : Receives(x, d, o)
  <2> DEFINE x == Head(poller[p].batch)
  <2>1. x \in Chats /\ Host[p] \in Peers /\ sender' = sender /\ poller[p].batch # <<>>
    BY <1>6, PeersKnown DEF AddMessage
  <2>2. mem' = [mem EXCEPT ![Host[p]][From[x]] = PushBounded(mem[Host[p]][From[x]], Incoming(x),
                                                             scenario.maxHistory)]
    BY <1>6 DEF AddMessage, Mutate
  <2>3. x = poller[p].batch[1] /\ 1 \in 1..Len(poller[p].batch)
    BY <1>1, <2>1, RestOfBatch
  <2>4. To[x] = Host[p]
    BY <1>1, <2>3 DEF MailFor
  <2> HIDE DEF x
  <2> QED
    BY <1>2, <1>3, <2>1, <2>2, <2>4 DEF Receives
<1>7. ASSUME NEW e \in Peers, NEW q \in Peers, MarkRead(e, q)
      PROVE  \/ mem'[d][o] = mem[d][o]
             \/ sender' = sender /\ mem'[d][o] = MarkIncomingRead(mem[d][o])
  <2>1. mem' = [mem EXCEPT ![e][q] = MarkIncomingRead(mem[e][q])] /\ sender' = sender
    BY <1>7 DEF MarkRead, Mutate
  <2> QED
    BY <1>3, <2>1
<1>8. ASSUME NEW e \in Peers, Crash(e)
      PROVE  mem'[d][o] = mem[d][o] \/ (Crash(d) /\ mem'[d][o] = disk[d][o])
  <2>1. mem' = [mem EXCEPT ![e] = disk[e]]
    BY <1>8 DEF Crash
  <2>2. mem'[e] = disk[e] /\ (e # d => mem'[d] = mem[d])
    BY <1>1, <2>1 DEF Conversations
  <2> QED
    BY <1>8, <2>2
<1> QED
  BY <1>4, <1>5, <1>6, <1>7, <1>8, MemoryWriters

(* A conversation in memory grows, or is what a restart found on disk.     *)
LEMMA MemoryGrows ==
    ASSUME HInv, Next, NEW d \in Peers, NEW o \in Peers
    PROVE  \/ \E k \in 0..Len(mem[d][o]) : GrowsBy(mem[d][o], mem'[d][o], scenario.maxHistory, k)
           \/ Crash(d) /\ mem'[d][o] = disk[d][o]
<1> DEFINE h == mem[d][o]
           g == mem'[d][o]
           cap == scenario.maxHistory
<1>1. h \in Seq(Message) /\ Len(h) <= cap /\ cap \in Nat \ {0} /\ Directed(h)
  BY LimitsStay DEF HInv, IInv, Types, Capped, Conversations, RecordsAreDirected
<1>2. 0 \in 0..Len(h) /\ \A i \in 1..Len(h) : SameOrMoved(h[i], h[i])
  <2>1. Len(h) \in Nat
    BY <1>1, LenProperties
  <2> QED
    BY <2>1 DEF SameOrMoved
<1>3. CASE g = h
  <2>1. GrowsBy(h, h, cap, 0)
    BY <1>1, <1>2, GrowsByNothing
  <2> QED
    BY <1>2, <1>3, <2>1
<1>4. ASSUME NEW m \in Chats, Composes(m, d, o) PROVE \E k \in 0..Len(h) : GrowsBy(h, g, cap, k)
  <2>1. Outgoing(m, "sending") \in Message
    BY DEF Outgoing, Message
  <2>2. g = PushBounded(h, Outgoing(m, "sending"), cap)
    BY <1>4 DEF Composes
  <2> HIDE DEF h, g, cap
  <2> QED
    BY <1>1, <2>1, <2>2, GrowsByPush
<1>5. ASSUME NEW m \in Chats, NEW s \in {"sent", "failed"}, Settles(m, s, d, o)
      PROVE  \E k \in 0..Len(h) : GrowsBy(h, g, cap, k)
  <2>1. g = SetStatus(h, m, s) /\ OnItsWay(h, m)
    BY <1>5 DEF Settles, HInv, StillSending
  <2> HIDE DEF h, g, cap
  <2>2. GrowsBy(h, g, cap, 0)
    BY <1>1, <2>1, GrowsBySettling
  <2> QED
    BY <1>2, <2>2
<1>6. ASSUME NEW x \in Chats, Receives(x, d, o) PROVE \E k \in 0..Len(h) : GrowsBy(h, g, cap, k)
  <2>1. Incoming(x) \in Message
    BY DEF Incoming, Message
  <2>2. g = PushBounded(h, Incoming(x), cap)
    BY <1>6 DEF Receives
  <2> HIDE DEF h, g, cap
  <2> QED
    BY <1>1, <2>1, <2>2, GrowsByPush
<1>7. CASE g = MarkIncomingRead(h)
  <2>1. GrowsBy(h, MarkIncomingRead(h), cap, 0)
    BY <1>1, GrowsByReading
  <2> QED
    BY <1>2, <1>7, <2>1
<1> QED
  BY <1>3, <1>4, <1>5, <1>6, <1>7, MemoryStep DEF HInv

(* What comes in is never recorded as sending, sent or failed.             *)
LEMMA DirectedStep ==
    ASSUME HInv, Next
    PROVE  RecordsAreDirected'
<1>1. \A d, o \in Peers : /\ mem[d][o] \in Seq(Message) /\ Len(mem[d][o]) <= scenario.maxHistory
                          /\ Directed(mem[d][o]) /\ Directed(disk[d][o])
  BY DEF HInv, IInv, Types, Capped, Conversations, RecordsAreDirected
<1>2. scenario.maxHistory \in Nat \ {0}
  BY LimitsStay DEF HInv, IInv, Types
<1>3. ASSUME NEW h \in Seq(Message), Len(h) <= scenario.maxHistory, Directed(h), NEW r \in Message,
             r.dir = "incoming" => r.status = "delivered"
      PROVE  Directed(PushBounded(h, r, scenario.maxHistory))
  <2> DEFINE g == PushBounded(h, r, scenario.maxHistory)
             k == Slid(h, scenario.maxHistory)
  <2>1. Pushed(g, h, r, scenario.maxHistory, Message)
    BY <1>2, <1>3, PushedIs
  <2>2. /\ k \in {0, 1} /\ k <= Len(h) /\ Len(g) = Len(h) + 1 - k /\ g[Len(g)] = r
        /\ \A i \in 1..(Len(h) - k) : g[i] = h[i + k]
    BY <2>1 DEF Pushed
  <2>3. Len(h) \in Nat
    BY LenProperties
  <2> HIDE DEF g, k
  <2>4. \A i \in 1..Len(g) : i = Len(g) \/ (i \in 1..(Len(h) - k) /\ i + k \in 1..Len(h))
    BY <2>2, <2>3
  <2>5. Directed(g)
    BY <1>3, <2>2, <2>4 DEF Directed
  <2> QED
    BY <2>5 DEF g
<1>4. ASSUME NEW d \in Peers, NEW o \in Peers PROVE Directed(mem'[d][o])
  <2> DEFINE h == mem[d][o]
             g == mem'[d][o]
  <2>0. h \in Seq(Message) /\ Directed(h) /\ Len(h) <= scenario.maxHistory
    BY <1>1
  <2>1. ASSUME NEW m \in Chats, Composes(m, d, o) PROVE Directed(g)
    <3>1. Outgoing(m, "sending") \in Message /\ Outgoing(m, "sending").dir = "outgoing"
      BY DEF Outgoing, Message
    <3>2. g = PushBounded(h, Outgoing(m, "sending"), scenario.maxHistory)
      BY <2>1 DEF Composes
    <3> HIDE DEF h, g
    <3> QED
      BY <1>3, <2>0, <3>1, <3>2
  <2>2. ASSUME NEW x \in Chats, Receives(x, d, o) PROVE Directed(g)
    <3>1. Incoming(x) \in Message /\ Incoming(x).status = "delivered"
      BY DEF Incoming, Message
    <3>2. g = PushBounded(h, Incoming(x), scenario.maxHistory)
      BY <2>2 DEF Receives
    <3> HIDE DEF h, g
    <3> QED
      BY <1>3, <2>0, <3>1, <3>2
  <2>3. ASSUME NEW m \in Chats, NEW s \in {"sent", "failed"}, Settles(m, s, d, o) PROVE Directed(g)
    <3>1. g = SetStatus(h, m, s) /\ OnItsWay(h, m)
      BY <2>3 DEF Settles, HInv, StillSending
    <3>2. \A r \in Message : r.id = m => WithStatus(r, s) \in Message
      BY DEF Message, WithStatus
    <3>3. \A r \in Message : WithStatus(r, s).dir = r.dir
      BY DEF Message, WithStatus
    <3> HIDE DEF h, g
    <3>4. /\ Len(g) = Len(h)
          /\ \A i \in 1..Len(h) : g[i] = h[i] \/ (h[i].id = m /\ g[i] = WithStatus(h[i], s))
      BY <2>0, <3>1, <3>2, SetStatusIs
    <3>5. \A i \in 1..Len(h) : h[i] \in Message /\ (h[i].id = m => h[i].dir = "outgoing")
      BY <2>0, <3>1, ElementOfSeq DEF OnItsWay, Outgoing
    <3> QED
      BY <2>0, <3>3, <3>4, <3>5 DEF Directed
  <2>4. CASE g = MarkIncomingRead(h)
    <3>1. \A r \in Message : /\ r.dir = "incoming" => WithStatus(r, "read") \in Message
                             /\ WithStatus(r, "read").status = "read"
      BY DEF Message, WithStatus
    <3> HIDE DEF h, g
    <3>2. /\ Len(g) = Len(h)
          /\ \A i \in 1..Len(h) : g[i] = h[i] \/ (h[i].dir = "incoming" /\ g[i] = WithStatus(h[i], "read"))
      BY <2>0, <2>4, <3>1, MarkedIs
    <3>3. \A i \in 1..Len(h) : h[i] \in Message
      BY <2>0, ElementOfSeq
    <3>4. Directed(g)
      BY <2>0, <3>1, <3>2, <3>3 DEF Directed
    <3> QED
      BY <3>4 DEF g
  <2> QED
    BY <1>1, <2>1, <2>2, <2>3, <2>4, MemoryStep DEF HInv
<1>5. \A d, o \in Peers : disk'[d][o] = disk[d][o] \/ disk'[d][o] = mem[d][o]
  BY DiskWriters DEF HInv, IInv, Types, Conversations, Persist
<1> QED
  BY <1>1, <1>4, <1>5 DEF RecordsAreDirected

(* A send does not go back: it is composed once (lib.rs:1343-1410).        *)
LEMMA SenderStep ==
    ASSUME Types, Next, NEW m \in Chats
    PROVE  /\ sender'[m] = "idle" => sender[m] = "idle"
           /\ sender'[m] \in {"composed", "lookup", "await"} =>
                 \/ sender[m] \in {"composed", "lookup", "await"}
                 \/ sender[m] = "idle" /\ Compose(m)
           /\ Crash(From[m]) => sender'[m] \notin {"composed", "lookup", "await"}
<1>1. sender \in [Chats -> SenderStates]
  BY DEF Types
<1>2. CASE UNCHANGED <<sender, wire>>
  <2>1. Crash(From[m]) => sender'[m] \in {"idle", "done", "cut"}
    BY <1>1 DEF Crash
  <2> QED
    BY <1>2, <2>1
<1>3. ASSUME NEW n \in Chats, Sending(n) \/ Relaying(n)
      PROVE  /\ sender'[m] = "idle" => sender[m] = "idle"
             /\ sender'[m] \in {"composed", "lookup", "await"} =>
                   \/ sender[m] \in {"composed", "lookup", "await"}
                   \/ sender[m] = "idle" /\ Compose(m)
  BY <1>1, <1>3 DEF Sending, Compose, SaveComposed, GiveUpEarly, SendRequest, Answered, NotAnswered,
     SaveSettled, SaveSettledFails, Relaying, RelayAccepts,
     ConnectionBreaks, GoesSilent, Vanishes, relayVars, Moves, Settle
<1>4. ASSUME NEW d \in Peers, Crash(d)
      PROVE  /\ sender'[m] = "idle" => sender[m] = "idle"
             /\ sender'[m] \in {"composed", "lookup", "await"} => sender[m] \in {"composed", "lookup", "await"}
  BY <1>1, <1>4 DEF Crash
<1>5. Crash(From[m]) => sender'[m] \notin {"composed", "lookup", "await"}
  BY <1>1 DEF Crash
<1> QED
  BY <1>2, <1>3, <1>4, <1>5, SendWriters

(* Another message pushed: m is recorded as before.                        *)
LEMMA PushedOther ==
    ASSUME NEW h \in Seq(Message), NEW r \in Message, NEW cap \in Nat \ {0}, Len(h) <= cap, NEW m
    PROVE  /\ r.id # m /\ NotIn(h, m) => NotIn(PushBounded(h, r, cap), m)
           /\ (r.id = m => r = Outgoing(m, "sending")) /\ OnItsWay(h, m)
                 => OnItsWay(PushBounded(h, r, cap), m)
<1> DEFINE g == PushBounded(h, r, cap)
           k == Slid(h, cap)
<1>1. Pushed(g, h, r, cap, Message)
  BY PushedIs
<1>2. /\ k \in {0, 1} /\ k <= Len(h) /\ Len(g) = Len(h) + 1 - k /\ g[Len(g)] = r
      /\ \A i \in 1..(Len(h) - k) : g[i] = h[i + k]
  BY <1>1 DEF Pushed
<1>3. Len(h) \in Nat
  BY LenProperties
<1> HIDE DEF g, k
<1>4. \A i \in 1..Len(g) : i = Len(g) \/ (i \in 1..(Len(h) - k) /\ i + k \in 1..Len(h))
  BY <1>2, <1>3
<1>5. r.id # m /\ NotIn(h, m) => NotIn(g, m)
  BY <1>2, <1>4 DEF NotIn
<1>6. (r.id = m => r = Outgoing(m, "sending")) /\ OnItsWay(h, m) => OnItsWay(g, m)
  BY <1>2, <1>4 DEF OnItsWay
<1> QED
  BY <1>5, <1>6 DEF g

(* Until it is settled, a message is recorded as on its way or not at all, *)
(* if nobody writes to themselves.                                         *)
LEMMA StillSendingStep ==
    ASSUME HInv, Next, \A m \in Chats : From[m] # To[m]
    PROVE  StillSending'
<1> SUFFICES ASSUME NEW m \in Chats
             PROVE  /\ sender'[m] = "idle" => /\ NotIn(mem'[From[m]][To[m]], m)
                                              /\ NotIn(disk'[From[m]][To[m]], m)
                    /\ sender'[m] \in {"composed", "lookup", "await"} => OnItsWay(mem'[From[m]][To[m]], m)
  BY DEF StillSending
<1> DEFINE d == From[m]
           o == To[m]
           h == mem[d][o]
           g == mem'[d][o]
<1>1. /\ d \in Peers /\ o \in Peers /\ d # o
      /\ h \in Seq(Message) /\ Len(h) <= scenario.maxHistory /\ scenario.maxHistory \in Nat \ {0}
      /\ sender \in [Chats -> SenderStates]
  BY PeersKnown, LimitsStay DEF HInv, IInv, Types, Capped, Conversations, Items
<1>2. /\ sender[m] = "idle" => NotIn(h, m) /\ NotIn(disk[d][o], m)
      /\ sender[m] \in {"composed", "lookup", "await"} => OnItsWay(h, m)
  BY DEF HInv, StillSending
<1>3. /\ sender'[m] = "idle" => sender[m] = "idle"
      /\ sender'[m] \in {"composed", "lookup", "await"} =>
            \/ sender[m] \in {"composed", "lookup", "await"}
            \/ sender[m] = "idle" /\ Compose(m)
      /\ Crash(d) => sender'[m] \notin {"composed", "lookup", "await"}
  BY SenderStep DEF HInv, IInv
<1>4. disk'[d][o] = disk[d][o] \/ disk'[d][o] = h
  BY <1>1, DiskWriters DEF HInv, IInv, Types, Conversations, Persist
<1>5. Compose(m) => g = PushBounded(h, Outgoing(m, "sending"), scenario.maxHistory)
  BY <1>1 DEF HInv, IInv, Types, Conversations, Compose, Mutate
<1>6. NotIn(h, m) => OnItsWay(h, m)
  BY DEF NotIn, OnItsWay
<1>7. \A n \in Chats, s \in {"sending"} : Outgoing(n, s) \in Message /\ Outgoing(n, s).id = n
  BY DEF Outgoing, Message
<1>8. \A x \in Chats : Incoming(x) \in Message /\ Incoming(x).id = x
  BY DEF Incoming, Message
<1> HIDE DEF d, o, h, g
<1>9. CASE Compose(m)
  <2>1. OnItsWay(g, m)
    BY <1>1, <1>2, <1>5, <1>6, <1>7, <1>9, PushedOther DEF Compose, Moves
  <2>2. sender'[m] # "idle"
    BY <1>1, <1>9 DEF Compose, Moves
  <2> QED
    BY <2>1, <2>2 DEF d, o, h, g
<1>10. ASSUME /\ sender[m] = "idle" => NotIn(g, m)
              /\ sender'[m] \in {"composed", "lookup", "await"} => OnItsWay(g, m)
       PROVE  /\ sender'[m] = "idle" => NotIn(g, m) /\ NotIn(disk'[d][o], m)
              /\ sender'[m] \in {"composed", "lookup", "await"} => OnItsWay(g, m)
  BY <1>2, <1>3, <1>4, <1>10
<1>11. CASE ~Compose(m)
  <2>1. \/ g = h
        \/ \E n \in Chats : Composes(n, d, o)
        \/ \E n \in Chats : \E s \in {"sent", "failed"} : Settles(n, s, d, o)
        \/ \E x \in Chats : Receives(x, d, o)
        \/ sender' = sender /\ g = MarkIncomingRead(h)
        \/ Crash(d) /\ g = disk[d][o]
    BY <1>1, MemoryStep DEF g, h, HInv
  <2>2. sender'[m] \in {"composed", "lookup", "await"} => OnItsWay(h, m)
    BY <1>2, <1>3, <1>11
  <2>3. ASSUME g = h
        PROVE  /\ sender[m] = "idle" => NotIn(g, m)
               /\ sender'[m] \in {"composed", "lookup", "await"} => OnItsWay(g, m)
    BY <1>2, <2>2, <2>3
  <2>4. ASSUME NEW n \in Chats, Composes(n, d, o)
        PROVE  /\ sender[m] = "idle" => NotIn(g, m)
               /\ sender'[m] \in {"composed", "lookup", "await"} => OnItsWay(g, m)
    <3>1. g = PushBounded(h, Outgoing(n, "sending"), scenario.maxHistory)
      BY <2>4 DEF Composes, g, h
    <3>2. CASE n # m
      BY <1>1, <1>2, <1>7, <2>2, <3>1, <3>2, PushedOther
    <3>3. CASE n = m
      BY <1>1, <1>3, <1>11, <2>4, <3>3 DEF Composes
    <3> QED
      BY <3>2, <3>3
  <2>5. ASSUME NEW n \in Chats, NEW s \in {"sent", "failed"}, Settles(n, s, d, o)
        PROVE  /\ sender[m] = "idle" => NotIn(g, m)
               /\ sender'[m] \in {"composed", "lookup", "await"} => OnItsWay(g, m)
    <3>1. g = SetStatus(h, n, s) /\ sender[n] = "await" /\ sender' = [sender EXCEPT ![n] = "settled"]
      BY <2>5 DEF Settles, g, h
    <3>2. CASE n = m
      BY <1>1, <3>1, <3>2
    <3>3. CASE n # m
      <4>1. \A r \in Message : r.id = n => WithStatus(r, s) \in Message
        BY DEF Message, WithStatus
      <4>2. \A r \in Message : WithStatus(r, s).id = r.id
        BY DEF Message, WithStatus
      <4>3. /\ Len(g) = Len(h)
            /\ \A i \in 1..Len(h) : g[i] = h[i] \/ (h[i].id = n /\ g[i] = WithStatus(h[i], s))
        BY <1>1, <3>1, <4>1, SetStatusIs
      <4>4. \A i \in 1..Len(h) : h[i] \in Message
        BY <1>1, ElementOfSeq
      <4>5. (NotIn(h, m) => NotIn(g, m)) /\ (OnItsWay(h, m) => OnItsWay(g, m))
        BY <3>3, <4>2, <4>3, <4>4 DEF NotIn, OnItsWay
      <4> QED
        BY <1>2, <2>2, <4>5
    <3> QED
      BY <3>2, <3>3
  <2>6. ASSUME NEW x \in Chats, Receives(x, d, o)
        PROVE  /\ sender[m] = "idle" => NotIn(g, m)
               /\ sender'[m] \in {"composed", "lookup", "await"} => OnItsWay(g, m)
    <3>1. g = PushBounded(h, Incoming(x), scenario.maxHistory) /\ To[x] = d /\ sender' = sender
      BY <2>6 DEF Receives, g, h
    <3>2. x # m
      BY <1>1, <3>1 DEF o
    <3> QED
      BY <1>1, <1>2, <1>8, <2>2, <3>1, <3>2, PushedOther
  <2>7. ASSUME sender' = sender, g = MarkIncomingRead(h)
        PROVE  /\ sender[m] = "idle" => NotIn(g, m)
               /\ sender'[m] \in {"composed", "lookup", "await"} => OnItsWay(g, m)
    <3>1. \A r \in Message : /\ r.dir = "incoming" => WithStatus(r, "read") \in Message
                             /\ WithStatus(r, "read").id = r.id
      BY DEF Message, WithStatus
    <3>2. /\ Len(g) = Len(h)
          /\ \A i \in 1..Len(h) : g[i] = h[i] \/ (h[i].dir = "incoming" /\ g[i] = WithStatus(h[i], "read"))
      BY <1>1, <2>7, <3>1, MarkedIs
    <3>3. \A i \in 1..Len(h) : h[i] \in Message
      BY <1>1, ElementOfSeq
    <3>4. Outgoing(m, "sending").dir = "outgoing"
      BY DEF Outgoing
    <3>5. (NotIn(h, m) => NotIn(g, m)) /\ (OnItsWay(h, m) => OnItsWay(g, m))
      BY <3>1, <3>2, <3>3, <3>4 DEF NotIn, OnItsWay
    <3> QED
      BY <1>2, <2>2, <3>5
  <2>8. ASSUME Crash(d), g = disk[d][o]
        PROVE  /\ sender[m] = "idle" => NotIn(g, m)
               /\ sender'[m] \in {"composed", "lookup", "await"} => OnItsWay(g, m)
    BY <1>2, <1>3, <2>8
  <2> QED
    BY <1>10, <2>1, <2>3, <2>4, <2>5, <2>6, <2>7, <2>8 DEF d, o, g, h
<1> QED
  BY <1>9, <1>11

(* DiskIsPast and HistoryStep are about Grows, with or without a prime.    *)
LEMMA GrowsPrimed ==
    ASSUME scenario'.maxHistory = scenario.maxHistory, NEW d, NEW o
    PROVE  Grows(disk[d][o], mem[d][o])' <=>
              \E k \in 0..Len(disk'[d][o]) : GrowsBy(disk'[d][o], mem'[d][o], scenario.maxHistory, k)
BY DEF Grows, GrowsBy, SameOrMoved

(* Memory grows on what is on disk: a save writes all of it, a restart     *)
(* reads all of it back (lib.rs:125-142).                                  *)
LEMMA DiskIsPastStep ==
    ASSUME HInv, Next
    PROVE  DiskIsPast'
<1> SUFFICES ASSUME NEW d \in Peers, NEW o \in Peers
             PROVE  Grows(disk[d][o], mem[d][o])'
  BY DEF DiskIsPast
<1> DEFINE a == disk[d][o]
           b == mem[d][o]
           c == mem'[d][o]
           e == disk'[d][o]
           cap == scenario.maxHistory
<1>1. /\ a \in Seq(Message) /\ b \in Seq(Message) /\ Len(a) <= cap /\ Len(b) <= cap /\ cap \in Nat
      /\ scenario'.maxHistory = cap
  BY LimitsStay DEF HInv, IInv, Types, Capped, Conversations
<1>2. c \in Seq(Message) /\ Len(c) <= cap
  BY MemoryTypes DEF HInv, IInv, Conversations
<1>3. \E k \in 0..Len(a) : GrowsBy(a, b, cap, k)
  BY GrowsIs DEF HInv, DiskIsPast
<1>4. \A h \in Seq(Message) : \E k \in 0..Len(h) : GrowsBy(h, h, cap, k)
  <2> TAKE h \in Seq(Message)
  <2>1. Len(h) \in Nat /\ \A i \in 1..Len(h) : SameOrMoved(h[i], h[i])
    BY LenProperties DEF SameOrMoved
  <2>2. GrowsBy(h, h, cap, 0) /\ 0 \in 0..Len(h)
    BY <2>1, GrowsByNothing
  <2> QED
    BY <2>2
<1>5. (e = a) \/ (e = b /\ c = b)
  BY DiskWriters DEF HInv, IInv, Types, Conversations, Persist
<1>6. (\E k \in 0..Len(b) : GrowsBy(b, c, cap, k)) \/ c = a
  BY MemoryGrows
<1>7. (\E k \in 0..Len(e) : GrowsBy(e, c, cap, k)) <=> Grows(disk[d][o], mem[d][o])'
  BY <1>1, GrowsPrimed
<1> HIDE DEF a, b, c, e, cap
<1>8. CASE e = b /\ c = b
  BY <1>1, <1>4, <1>7, <1>8
<1>9. CASE e = a /\ c = a
  BY <1>1, <1>4, <1>7, <1>9
<1>10. CASE e = a /\ \E k \in 0..Len(b) : GrowsBy(b, c, cap, k)
  <2>1. PICK k \in 0..Len(a) : GrowsBy(a, b, cap, k)
    BY <1>3
  <2>2. PICK l \in 0..Len(b) : GrowsBy(b, c, cap, l)
    BY <1>10
  <2>3. \E n \in 0..Len(a) : GrowsBy(a, c, cap, n)
    BY <1>1, <1>2, <2>1, <2>2, GrowsOn
  <2> QED
    BY <1>7, <1>10, <2>3
<1> QED
  BY <1>5, <1>6, <1>8, <1>9, <1>10

(* The strengthening under which conversations are seen to grow.           *)
LEMMA HistoryInvariant ==
    ASSUME \A m \in Chats : From[m] # To[m]
    PROVE  Spec => []HInv
<1>1. ASSUME Init PROVE HInv
  <2>1. IInv /\ 1..Len(<<>>) = {} /\ Len(<<>>) = 0
    BY <1>1, InvariantInit, EmptySeq
  <2>2. \A d, o \in Peers : mem[d][o] = <<>> /\ disk[d][o] = <<>>
    BY <1>1 DEF Init
  <2>3. Directed(<<>>) /\ \A m : NotIn(<<>>, m) /\ OnItsWay(<<>>, m)
    BY <2>1 DEF Directed, NotIn, OnItsWay
  <2>4. GrowsBy(<<>>, <<>>, scenario.maxHistory, 0) /\ 0 \in 0..Len(<<>>)
    BY <2>1 DEF GrowsBy
  <2>5. RecordsAreDirected
    BY <2>2, <2>3 DEF RecordsAreDirected
  <2>6. \A m \in Chats : From[m] \in Peers /\ To[m] \in Peers
    BY PeersKnown DEF Items
  <2>7. StillSending
    BY <2>2, <2>3, <2>6 DEF StillSending
  <2>8. DiskIsPast
    BY <2>2, <2>4, GrowsIs DEF DiskIsPast
  <2> QED
    BY <2>1, <2>5, <2>7, <2>8 DEF HInv
<1>2. ASSUME HInv, [Next]_vars PROVE HInv'
  <2>1. IInv'
    BY <1>2, InvariantStep DEF HInv
  <2>2. CASE Next
    BY <1>2, <2>1, <2>2, DirectedStep, StillSendingStep, DiskIsPastStep DEF HInv
  <2>3. CASE UNCHANGED vars
    BY <1>2, <2>1, <2>3 DEF vars, relayVars, HInv, RecordsAreDirected, StillSending, DiskIsPast, Grows
  <2> QED
    BY <1>2, <2>2, <2>3
<1> QED
  BY <1>1, <1>2, PTL DEF Spec

(* A conversation only grows at its end, drops at its front when full, and *)
(* moves statuses forward: always on disk, and in memory except across a   *)
(* restart (lib.rs:125-142).  Nobody writes to themselves: a device is     *)
(* paired with others.                                                     *)
THEOREM ConversationsGrow ==
    ASSUME \A m \in Chats : From[m] # To[m]
    PROVE  Spec => HistoriesOnlyGrow
<1>1. ASSUME HInv, Next PROVE HistoryStep
  <2> SUFFICES ASSUME NEW d \in Peers, NEW o \in Peers
               PROVE  /\ Grows(disk[d][o], disk'[d][o])
                      /\ \/ Grows(mem[d][o], mem'[d][o])
                         \/ scenario' # scenario /\ mem'[d][o] = disk[d][o]
    BY DEF HistoryStep
  <2>1. \/ Grows(mem[d][o], mem'[d][o])
        \/ Crash(d) /\ mem'[d][o] = disk[d][o]
    BY <1>1, MemoryGrows, GrowsIs
  <2>2. Crash(d) => scenario' # scenario
    <3>1. scenario \in Scenario /\ scenario.faults \in Nat
      BY <1>1 DEF HInv, IInv, Types, Scenario
    <3>2. Crash(d) => scenario'.faults = scenario.faults - 1
      BY <3>1 DEF Crash, Scenario
    <3> QED
      BY <3>1, <3>2
  <2>3. disk'[d][o] = disk[d][o] \/ disk'[d][o] = mem[d][o]
    BY <1>1, DiskWriters DEF HInv, IInv, Types, Conversations, Persist
  <2>4. Grows(disk[d][o], disk[d][o])
    <3> DEFINE h == disk[d][o]
    <3>1. h \in Seq(Message)
      BY <1>1 DEF HInv, IInv, Types, Conversations
    <3> HIDE DEF h
    <3>2. Len(h) \in Nat /\ \A i \in 1..Len(h) : SameOrMoved(h[i], h[i])
      BY <3>1, LenProperties DEF SameOrMoved
    <3>3. GrowsBy(h, h, scenario.maxHistory, 0) /\ 0 \in 0..Len(h)
      BY <3>1, <3>2, GrowsByNothing
    <3>4. Grows(h, h)
      BY <3>3, GrowsIs
    <3> QED
      BY <3>4 DEF h
  <2>5. Grows(disk[d][o], mem[d][o])
    BY <1>1 DEF HInv, DiskIsPast
  <2> QED
    BY <2>1, <2>2, <2>3, <2>4, <2>5
<1>2. Spec => []HInv
  BY HistoryInvariant
<1>3. HInv /\ [Next]_vars => [HistoryStep]_vars
  BY <1>1
<1> QED
  BY <1>2, <1>3, PTL DEF Spec, HistoriesOnlyGrow
-------------------------------------------------------------------------------
(* More to find it in, of the chats.                                       *)
LEMMA FollowsInMore ==
    ASSUME NEW q, NEW x, NEW S, NEW T, \A y \in S : y \in Chats => y \in T, Follows(q, x, S)
    PROVE  Follows(q, x, T)
BY DEF Follows

(* What the relay takes later was not before x.                            *)
LEMMA FollowsAfterAppend ==
    ASSUME NEW q \in Seq(Items), NEW y \in Items, NEW x, x # y, NEW S, Follows(q, x, S)
    PROVE  Follows(Append(q, y), x, S)
<1> DEFINE t == Append(q, y)
<1>1. /\ Len(q) \in Nat /\ Len(t) = Len(q) + 1 /\ t[Len(q) + 1] = y
      /\ \A i \in 1..Len(q) : t[i] = q[i]
  BY AppendProperties, LenProperties
<1> HIDE DEF t
<1>2. \A i, j \in 1..Len(t) : i < j /\ t[j] = x => i \in 1..Len(q) /\ j \in 1..Len(q)
  <2> SUFFICES ASSUME NEW i \in 1..Len(t), NEW j \in 1..Len(t), i < j, t[j] = x
               PROVE  i \in 1..Len(q) /\ j \in 1..Len(q)
    OBVIOUS
  <2>1. j # Len(q) + 1
    BY <1>1
  <2> QED
    BY <1>1, <2>1
<1>3. Follows(t, x, S)
  BY <1>1, <1>2 DEF Follows
<1> QED
  BY <1>3 DEF t

(* A step leaves what came before x where it was, or nearer the disk.      *)
LEMMA FollowsStep ==
    ASSUME IInv, Next, NEW x \in Accepted, NEW S, NEW T,
           \A y \in S : y \in Chats => y \in T, Follows(log, x, S)
    PROVE  Follows(log', x, T)
<1>1. Types /\ Capped /\ TakenOnce /\ log \in Seq(Items)
  BY DEF IInv, Types
<1>2. Follows(log, x, T)
  BY FollowsInMore
<1>3. CASE UNCHANGED log
  BY <1>2, <1>3
<1>4. ASSUME NEW y \in Items, TakeIn(y), y \notin Accepted PROVE Follows(log', x, T)
  <2>1. log' = Append(log, y) /\ x # y
    BY <1>4 DEF TakeIn
  <2> QED
    BY <1>1, <1>2, <2>1, FollowsAfterAppend
<1> QED
  BY <1>1, <1>3, <1>4, LogStep

(* What is on disk or displaced stays so.                                  *)
LEMMA GoneGrows ==
    ASSUME IInv, Next
    PROVE  saved \subseteq saved' /\ displaced \subseteq displaced' /\ Gone \subseteq Gone'
<1>1. Types /\ Capped
  BY DEF IInv
<1>2. saved \subseteq saved'
  BY DiskWriters DEF Persist
<1>3. displaced \subseteq displaced'
  <2>1. ASSUME NEW m \in Chats, RelayAccepts(m) PROVE m \in Items /\ TakeIn(m)
    BY <2>1 DEF RelayAccepts, Items
  <2>2. ASSUME NEW v \in Vaults, VaultArrives(v) PROVE v \in Items /\ TakeIn(v)
    BY <2>2 DEF VaultArrives, Items
  <2>3. ASSUME NEW e \in Peers, PanelAutoAck(e) PROVE UNCHANGED displaced
    BY <2>3 DEF PanelAutoAck
  <2>4. ASSUME NEW x \in Items, TakeIn(x) PROVE displaced \subseteq displaced'
    BY <1>1, <2>4, TakenIn
  <2> QED
    BY <2>1, <2>2, <2>3, <2>4, AcksAre, RelayWriters
<1> QED
  BY <1>2, <1>3 DEF Gone

(* A received message is not forgotten but by a restart, if none slides    *)
(* out of a full conversation before it is saved.                          *)
LEMMA NothingForgotten ==
    ASSUME IInv, Next, NothingSlidesOutUnsaved, NEW d \in Peers
    PROVE  \/ ReceivedIn(mem[d]) \subseteq ReceivedIn(mem'[d]) \cup saved'
           \/ Crash(d) /\ mem'[d] = disk[d]
<1>1. Types
  BY DEF IInv
<1>2. saved \subseteq saved'
  BY GoneGrows
<1>4. CASE scenario' = scenario
  BY <1>2, <1>4 DEF NothingSlidesOutUnsaved
<1>5. CASE scenario' # scenario
  <2>1. mem' = mem \/ \E e \in Peers : Crash(e)
    <3>1. ASSUME NEW m \in Chats, Compose(m) PROVE UNCHANGED scenario
      BY <3>1 DEF Compose
    <3>2. ASSUME NEW p \in Pollers, AddMessage(p) PROVE UNCHANGED scenario
      BY <3>2 DEF AddMessage
    <3>3. ASSUME NEW e \in Peers, NEW o \in Peers, MarkRead(e, o) PROVE UNCHANGED scenario
      BY <3>3 DEF MarkRead
    <3> QED
      BY <1>5, <3>1, <3>2, <3>3, MemoryWriters
  <2>2. ASSUME NEW e \in Peers, Crash(e) PROVE mem'[d] = mem[d] \/ (Crash(d) /\ mem'[d] = disk[d])
    <3>1. mem' = [mem EXCEPT ![e] = disk[e]]
      BY <2>2 DEF Crash
    <3>2. mem'[e] = disk[e] /\ (e # d => mem'[d] = mem[d])
      BY <1>1, <3>1 DEF Types, Conversations
    <3> QED
      BY <2>2, <3>2
  <2> QED
    BY <1>2, <2>1, <2>2
<1> QED
  BY <1>4, <1>5

(* An added message is in memory until it is saved, and an ack names only  *)
(* saved ones (lib.rs:1462-1506).                                          *)
LEMMA AcksAreSavedStep ==
    ASSUME IInv, AcksAreSaved, Next, NothingSlidesOutUnsaved
    PROVE  AcksAreSaved'
<1> SUFFICES ASSUME NEW p \in Pollers
             PROVE  /\ poller'[p].acks \subseteq saved'
                    /\ poller'[p].pc = "saving" =>
                          poller'[p].batch[1] \in ReceivedIn(mem'[Host[p]]) \cup saved'
  BY DEF AcksAreSaved
<1> DEFINE d == Host[p]
           b == poller[p].batch
<1>1. /\ d \in Peers /\ poller[p] \in Poll /\ b \in Seq(Items)
      /\ poller[p].acks \subseteq saved
      /\ poller[p].pc = "saving" => b[1] \in ReceivedIn(mem[d]) \cup saved
  BY PeersKnown DEF IInv, Types, Poll, AcksAreSaved
<1>2. /\ saved \subseteq saved'
      /\ \/ ReceivedIn(mem[d]) \subseteq ReceivedIn(mem'[d]) \cup saved'
         \/ Crash(d) /\ mem'[d] = disk[d]
  BY <1>1, NothingForgotten, GoneGrows
<1>3. CASE poller'[p] = poller[p]
  <2>1. CASE Crash(d)
    <3>1. poller'[p] = Idle
      BY <2>1 DEF Crash
    <3> QED
      BY <1>1, <3>1 DEF Idle
  <2>2. CASE ReceivedIn(mem[d]) \subseteq ReceivedIn(mem'[d]) \cup saved'
    BY <1>1, <1>2, <1>3, <2>2
  <2> QED
    BY <1>2, <2>1, <2>2
<1>4. CASE poller'[p] = Idle
  BY <1>4 DEF Idle
<1>5. CASE poller'[p] = [pc |-> "adding", batch |-> Batch(Host[p]), acks |-> {}]
  BY <1>5
<1>6. CASE SkipForeign(p) /\ poller'[p] = [poller[p] EXCEPT !.batch = Tail(b)]
  <2>1. poller'[p].pc = "adding" /\ poller'[p].acks = poller[p].acks
    BY <1>1, <1>6 DEF SkipForeign, Poll
  <2> QED
    BY <1>1, <1>2, <2>1
<1>7. CASE /\ AddMessage(p) /\ poller[p].batch # <<>> /\ poller[p].batch[1] \in Chats
           /\ poller'[p] = [poller[p] EXCEPT !.pc = "saving"]
  <2>1. poller'[p].batch = b /\ poller'[p].acks = poller[p].acks
    BY <1>1, <1>7 DEF Poll
  <2>2. b[1] \in ReceivedIn(mem'[d])
    <3> DEFINE x == b[1]
               h == mem[d][From[x]]
               g == PushBounded(h, Incoming(x), scenario.maxHistory)
    <3>1. x = Head(b) /\ x \in Chats /\ From[x] \in Peers
      BY <1>1, <1>7, PeersKnown, RestOfBatch DEF Items
    <3>2. mem' = [mem EXCEPT ![d][From[x]] = g]
      BY <1>7, <3>1 DEF AddMessage, Mutate
    <3>3. /\ mem \in Conversations /\ h \in Seq(Message) /\ Len(h) <= scenario.maxHistory
          /\ scenario.maxHistory \in Nat \ {0}
      BY <1>1, <3>1, LimitsStay DEF IInv, Types, Capped, Conversations
    <3> HIDE DEF x, h
    <3>4. Incoming(x) \in Message /\ Incoming(x).dir = "incoming" /\ Incoming(x).id = x
      BY <3>1 DEF Incoming, Message
    <3>5. x \in Incomings(g)
      BY <3>3, <3>4, PushedIncomings
    <3>6. mem'[d][From[x]] = g
      BY <1>1, <3>1, <3>2, <3>3 DEF Conversations
    <3> HIDE DEF g
    <3>7. x \in ReceivedIn(mem'[d])
      BY <3>1, <3>5, <3>6 DEF ReceivedIn
    <3> QED
      BY <3>7 DEF x
  <2> QED
    BY <1>1, <1>2, <2>1, <2>2
<1>8. CASE /\ SaveAdded(p) /\ poller[p].pc = "saving"
           /\ poller'[p] = [pc |-> "adding", batch |-> Tail(poller[p].batch),
                            acks |-> poller[p].acks \cup {poller[p].batch[1]}]
  <2>1. saved' = saved \cup ReceivedIn(mem[d])
    BY <1>8 DEF SaveAdded, Persist
  <2> QED
    BY <1>1, <1>8, <2>1
<1> QED
  BY <1>3, <1>4, <1>5, <1>6, <1>7, <1>8, BatchStep

(* Unless the panel acks, what leaves the relay has been on disk or is     *)
(* displaced (lib.rs:1502-1506, store.rs:142-147).                         *)
LEMMA AckedIsSavedStep ==
    ASSUME IInv, AcksAreSaved, PanelShut, AckedIsSaved, Next, NothingSlidesOutUnsaved
    PROVE  AckedIsSaved'
<1> SUFFICES ASSUME NEW m \in Chats \cap Accepted'
             PROVE  m \in Range(inbox'[To[m]]) \cup displaced' \cup saved'
  BY DEF AckedIsSaved
<1>1. /\ Types /\ Capped /\ TakenOnce /\ m \in Items /\ To[m] \in Peers
      /\ saved \subseteq saved' /\ displaced \subseteq displaced'
  BY PeersKnown, GoneGrows DEF IInv, Items
<1>2. m \in Accepted => m \in Range(inbox[To[m]]) \cup displaced \cup saved
  BY DEF AckedIsSaved
<1>3. ASSUME NEW x \in Items, TakeIn(x)
      PROVE  m \in Range(inbox'[To[m]]) \cup displaced' \cup saved'
  <2>1. /\ Accepted' = Accepted \cup {x}
        /\ \A d \in Peers \ {To[x]} : inbox'[d] = inbox[d]
        /\ \A y \in Range(inbox[To[x]]) \cup {x} : y \in Range(inbox'[To[x]]) \cup displaced'
    BY <1>1, <1>3, TakenIn
  <2>2. CASE m = x
    BY <2>1, <2>2
  <2>3. CASE m # x
    BY <1>1, <1>2, <2>1, <2>3
  <2> QED
    BY <2>2, <2>3
<1>4. ASSUME NEW p \in Pollers, Ack(p)
      PROVE  m \in Range(inbox'[To[m]]) \cup displaced' \cup saved'
  <2>1. Host[p] \in Peers /\ RemoveFromInbox(Host[p], poller[p].acks) /\ UNCHANGED log
    BY <1>4, AcksAre
  <2>2. /\ \A e \in Peers : e # Host[p] => inbox'[e] = inbox[e]
        /\ \A y \in Range(inbox[Host[p]]) \ poller[p].acks : y \in Range(inbox'[Host[p]])
    BY <1>1, <2>1, Removed
  <2>3. poller[p].acks \subseteq saved /\ m \in Accepted
    BY <2>1 DEF AcksAreSaved, Accepted
  <2> QED
    BY <1>1, <1>2, <2>2, <2>3
<1>5. ASSUME NEW d \in Peers, PanelAutoAck(d) PROVE FALSE
  BY <1>5 DEF PanelAutoAck, PanelShut
<1>6. CASE UNCHANGED <<inbox, log, displaced>>
  <2>1. m \in Accepted
    BY <1>6 DEF Accepted
  <2> QED
    BY <1>1, <1>2, <1>6, <2>1
<1>7. ASSUME NEW n \in Chats, RelayAccepts(n) PROVE n \in Items /\ TakeIn(n)
  BY <1>7 DEF RelayAccepts, Items
<1>8. ASSUME NEW v \in Vaults, VaultArrives(v) PROVE v \in Items /\ TakeIn(v)
  BY <1>8 DEF VaultArrives, Items
<1> QED
  BY <1>3, <1>4, <1>5, <1>6, <1>7, <1>8, RelayWriters

(* What reaches the disk has nothing missing before it: what is saved is   *)
(* all of memory (lib.rs:125-142).                                         *)
LEMMA SavedFollowStep ==
    ASSUME IInv, SavedFollow, ReceivedFollow, Next
    PROVE  SavedFollow'
<1>1. /\ ReceivedWasTaken /\ Gone \subseteq Gone'
  BY GoneGrows DEF IInv
<1>2. /\ saved \subseteq Accepted
      /\ \A d \in Peers : ReceivedIn(mem[d]) \subseteq Accepted
  BY <1>1 DEF ReceivedWasTaken, MailFor
<1>3. ASSUME NEW x \in saved PROVE Follows(log', x, Gone')
  BY <1>1, <1>2, FollowsStep DEF SavedFollow
<1>4. ASSUME NEW d \in Peers, Persist(d), NEW x \in ReceivedIn(mem[d]) PROVE Follows(log', x, Gone')
  <2>1. Gone \cup ReceivedIn(mem[d]) \subseteq Gone'
    BY <1>1, <1>4 DEF Persist, Gone
  <2>2. Follows(log, x, Gone \cup ReceivedIn(mem[d])) /\ x \in Accepted
    BY <1>2 DEF ReceivedFollow
  <2> QED
    BY <2>1, <2>2, FollowsStep
<1>5. \A x \in saved' : x \in saved \/ \E d \in Peers : Persist(d) /\ x \in ReceivedIn(mem[d])
  BY DiskWriters DEF Persist
<1> QED
  BY <1>3, <1>4, <1>5 DEF SavedFollow

(* What a fetch adds to memory has nothing missing before it.              *)
LEMMA ReceivedFollowStep ==
    ASSUME IInv, SavedFollow, ReceivedFollow, BatchesFollow, Next, NothingSlidesOutUnsaved
    PROVE  ReceivedFollow'
<1> SUFFICES ASSUME NEW d \in Peers, NEW x \in ReceivedIn(mem'[d])
             PROVE  Follows(log', x, Gone' \cup ReceivedIn(mem'[d]))
  BY DEF ReceivedFollow
<1> DEFINE T == Gone' \cup ReceivedIn(mem'[d])
<1>1. /\ Types /\ Capped /\ ReceivedWasTaken /\ Gone \subseteq Gone' /\ saved' \subseteq Gone'
  BY GoneGrows DEF IInv, Gone
<1>2. /\ saved \subseteq Accepted
      /\ ReceivedIn(mem[d]) \subseteq Accepted /\ ReceivedIn(disk[d]) \subseteq saved
      /\ \A p \in Pollers : \A k \in 1..Len(poller[p].batch) : poller[p].batch[k] \in Accepted
  BY <1>1 DEF ReceivedWasTaken, MailFor
<1>3. CASE Crash(d) /\ mem'[d] = disk[d]
  <2>1. x \in saved
    BY <1>2, <1>3
  <2>2. Follows(log, x, Gone) /\ x \in Accepted
    BY <1>2, <2>1 DEF SavedFollow
  <2> QED
    BY <1>1, <2>2, FollowsStep
<1>4. CASE ReceivedIn(mem[d]) \subseteq ReceivedIn(mem'[d]) \cup saved'
  <2>1. Gone \cup ReceivedIn(mem[d]) \subseteq T
    BY <1>1, <1>4
  <2>2. CASE x \in ReceivedIn(mem[d])
    <3>1. Follows(log, x, Gone \cup ReceivedIn(mem[d])) /\ x \in Accepted
      BY <1>2, <2>2 DEF ReceivedFollow
    <3> QED
      BY <2>1, <3>1, FollowsStep
  <2>3. ASSUME NEW p \in Pollers, AddMessage(p), Host[p] = d, x = Head(poller[p].batch)
        PROVE  Follows(log', x, T)
    <3> DEFINE b == poller[p].batch
    <3>1. b \in Seq(Items) /\ b # <<>>
      BY <1>1, <2>3 DEF Types, Poll, AddMessage
    <3>2. x = b[1] /\ 1 \in 1..Len(b)
      BY <2>3, <3>1, RestOfBatch
    <3>3. Before(b, 1) = {}
      BY DEF Before
    <3>4. Follows(log, x, Gone \cup Before(b, 1)) /\ x \in Accepted
      BY <1>2, <3>2 DEF BatchesFollow
    <3> QED
      BY <1>1, <3>3, <3>4, FollowsStep
  <2>4. CASE mem'[d] = disk[d]
    <3>1. x \in saved
      BY <1>2, <2>4
    <3>2. Follows(log, x, Gone) /\ x \in Accepted
      BY <1>2, <3>1 DEF SavedFollow
    <3> QED
      BY <1>1, <3>2, FollowsStep
  <2> QED
    BY <1>1, <2>2, <2>3, <2>4, ReceivedStep
<1> QED
  BY <1>3, <1>4, NothingForgotten

(* Before a message in its mailbox come, of what the relay took for the    *)
(* same app, only what is gone and what stands before it there: the oldest *)
(* of a mailbox leave nothing out (service.rs:443-455).                    *)
LEMMA OldestFollow ==
    ASSUME IInv, AckedIsSaved, NEW d \in Peers, NEW k \in 1..Len(inbox[d])
    PROVE  Follows(log, inbox[d][k], Gone \cup Before(inbox[d], k))
<1> DEFINE s == inbox[d]
<1>1. /\ s \in Seq(Items) /\ log \in Seq(Items) /\ NoneTwice(log) /\ PartOf(s, log)
      /\ To[s[k]] = d /\ k \in 1..Len(s)
  BY DEF IInv, Types, TakenOnce, InboxesAreParts
<1> SUFFICES ASSUME NEW i \in 1..Len(log), NEW j \in 1..Len(log), i < j, log[j] = s[k],
                    log[i] \in Chats, To[log[i]] = To[s[k]]
             PROVE  log[i] \in Gone \cup Before(s, k)
  BY DEF Follows
<1>2. log[i] \in Accepted
  BY <1>1, RangeIs DEF Accepted
<1>3. log[i] \in Range(s) \/ log[i] \in Gone
  BY <1>1, <1>2 DEF AckedIsSaved, Gone
<1> HIDE DEF s
<1>4. CASE log[i] \in Range(s)
  <2>1. PICK q \in 1..Len(s) : s[q] = log[i]
    BY <1>1, <1>4, RangeIs
  <2>2. i < j <=> q < k
    BY <1>1, <2>1, PartKeepsOrder
  <2>3. q \in 1..(k - 1)
    <3>1. Len(s) \in Nat
      BY <1>1, LenProperties
    <3> QED
      BY <1>1, <2>1, <2>2, <3>1
  <2> QED
    BY <2>1, <2>3 DEF Before
<1> QED
  BY <1>3, <1>4

(* A batch leaves nothing out: its front is taken off when it is saved or  *)
(* is not a chat message (lib.rs:1462-1500).                               *)
LEMMA BatchesFollowStep ==
    ASSUME IInv, AcksAreSaved, AckedIsSaved, BatchesFollow, Next
    PROVE  BatchesFollow'
<1> SUFFICES ASSUME NEW p \in Pollers, NEW k \in 1..Len(poller'[p].batch)
             PROVE  Follows(log', poller'[p].batch[k], Gone' \cup Before(poller'[p].batch, k))
  BY DEF BatchesFollow, Before
<1> DEFINE d == Host[p]
           b == poller[p].batch
           c == poller'[p].batch
<1>1. /\ Types /\ d \in Peers /\ poller[p] \in Poll /\ b \in Seq(Items) /\ Gone \subseteq Gone'
      /\ \A l \in 1..Len(b) : b[l] \in Accepted
      /\ k \in 1..Len(c)
  BY PeersKnown, GoneGrows DEF IInv, Types, Poll, ReceivedWasTaken, MailFor
<1>2. ASSUME c = b PROVE Follows(log', c[k], Gone' \cup Before(c, k))
  <2>1. Follows(log, b[k], Gone \cup Before(b, k)) /\ b[k] \in Accepted
    BY <1>1, <1>2 DEF BatchesFollow
  <2>2. Gone \cup Before(b, k) \subseteq Gone' \cup Before(b, k)
    BY <1>1
  <2> HIDE DEF b, c
  <2> QED
    BY <1>2, <2>1, <2>2, FollowsStep
<1>3. ASSUME c = <<>> PROVE FALSE
  BY <1>1, <1>3, EmptySeq
<1>4. ASSUME c = Batch(d) PROVE Follows(log', c[k], Gone' \cup Before(c, k))
  <2> DEFINE s == inbox[d]
  <2>1. /\ s \in Seq(Items) /\ c \in Seq(Items) /\ Len(c) <= Len(s)
        /\ \A l \in 1..Len(c) : l \in 1..Len(s) /\ c[l] = s[l]
    BY <1>1, <1>4, BatchIs DEF Types
  <2>2. Follows(log, s[k], Gone \cup Before(s, k)) /\ c[k] = s[k] /\ k \in 1..Len(s)
    BY <1>1, <2>1, OldestFollow
  <2>3. s[k] \in Accepted
    BY <1>1, <2>1, <2>2, RangeIs, InboxIsMail DEF MailFor, IInv
  <2> HIDE DEF s, c
  <2>4. \A l \in 1..(k - 1) : l \in 1..Len(c)
    <3>1. Len(c) \in Nat
      BY <2>1, LenProperties
    <3> QED
      BY <1>1, <3>1
  <2>5. Before(s, k) = Before(c, k)
    BY <2>1, <2>4 DEF Before
  <2>6. Gone \cup Before(s, k) \subseteq Gone' \cup Before(c, k)
    BY <1>1, <2>5
  <2> QED
    BY <2>2, <2>3, <2>6, FollowsStep
<1>5. ASSUME c = Tail(b), b # <<>>, b[1] \in Chats => b[1] \in Gone'
      PROVE  Follows(log', c[k], Gone' \cup Before(c, k))
  <2>1. Len(c) = Len(b) - 1 /\ \A l \in 1..Len(c) : c[l] = b[l + 1] /\ l + 1 \in 1..Len(b)
    BY <1>1, <1>5, RestOfBatch
  <2>2. Len(b) \in Nat
    BY <1>1, LenProperties
  <2>3. Follows(log, b[k + 1], Gone \cup Before(b, k + 1)) /\ b[k + 1] \in Accepted
    BY <1>1, <2>1 DEF BatchesFollow
  <2> HIDE DEF b, c
  <2>5. ASSUME NEW l \in 1..((k + 1) - 1), l # 1 PROVE b[l] \in Before(c, k)
    <3> DEFINE i == l - 1
    <3>1. i \in 1..(k - 1) /\ i \in 1..Len(c) /\ i + 1 = l
      BY <1>1, <2>1, <2>2, <2>5
    <3>2. c[i] = b[i + 1]
      BY <2>1, <3>1
    <3>3. c[i] = b[l]
      BY <3>1, <3>2
    <3> HIDE DEF i
    <3> QED
      BY <3>1, <3>3 DEF Before
  <2>6. \A y \in Gone \cup Before(b, k + 1) : y \in Chats => y \in Gone' \cup Before(c, k)
    BY <1>1, <1>5, <2>5 DEF Before
  <2>7. c[k] = b[k + 1]
    BY <1>1, <2>1
  <2> QED
    BY <2>3, <2>6, <2>7, FollowsStep
<1>6. CASE poller'[p] = poller[p]
  BY <1>2, <1>6
<1>7. CASE poller'[p] = Idle
  BY <1>3, <1>7 DEF Idle
<1>8. CASE poller'[p] = [pc |-> "adding", batch |-> Batch(Host[p]), acks |-> {}]
  BY <1>4, <1>8
<1>9. CASE /\ SkipForeign(p) /\ poller[p].batch # <<>> /\ poller[p].batch[1] \notin Chats
           /\ poller'[p] = [poller[p] EXCEPT !.batch = Tail(poller[p].batch)]
  <2>1. c = Tail(b)
    BY <1>1, <1>9 DEF Poll
  <2> QED
    BY <1>5, <1>9, <2>1
<1>10. CASE /\ AddMessage(p) /\ poller'[p] = [poller[p] EXCEPT !.pc = "saving"]
  <2>1. c = b
    BY <1>1, <1>10 DEF Poll
  <2> QED
    BY <1>2, <2>1
<1>11. CASE /\ SaveAdded(p) /\ poller[p].pc = "saving"
            /\ poller'[p] = [pc |-> "adding", batch |-> Tail(poller[p].batch),
                             acks |-> poller[p].acks \cup {poller[p].batch[1]}]
  <2>1. b # <<>> /\ b[1] \in ReceivedIn(mem[d]) \cup saved
    BY <1>11 DEF IInv, ReceivedWasTaken, AcksAreSaved
  <2>2. saved' = saved \cup ReceivedIn(mem[d])
    BY <1>11 DEF SaveAdded, Persist
  <2>3. c = Tail(b) /\ b[1] \in Gone'
    BY <1>11, <2>1, <2>2 DEF Gone
  <2> QED
    BY <1>5, <2>1, <2>3
<1> QED
  BY <1>6, <1>7, <1>8, <1>9, <1>10, <1>11, BatchStep

(* The panel stays shut if the user does not open it.                      *)
LEMMA PanelStaysShut ==
    ASSUME Types, Next, PanelShut, ~Happens("panel")
    PROVE  PanelShut'
<1>1. ASSUME NEW m \in Chats, Sending(m) \/ Relaying(m) PROVE UNCHANGED panel
  BY <1>1 DEF Sending, Compose, SaveComposed, GiveUpEarly, SendRequest, Answered, NotAnswered,
              SaveSettled, SaveSettledFails, Relaying, RelayAccepts,
              ConnectionBreaks, GoesSilent, Vanishes
<1>2. ASSUME NEW v \in Vaults, VaultArrives(v) PROVE UNCHANGED panel
  BY <1>2 DEF VaultArrives
<1>3. ASSUME NEW p \in Pollers, Polling(p) PROVE UNCHANGED panel
  BY <1>3 DEF Polling, Fetch, SkipForeign, AddMessage, SaveAdded, SaveAddedFails, Ack, AckLost
<1>4. ASSUME NEW d \in Peers, PanelFetch(d) \/ PanelAutoAck(d) \/ SaveRead(d) PROVE UNCHANGED panel
  BY <1>4 DEF PanelFetch, PanelAutoAck, SaveRead, PanelShut
<1>5. ASSUME NEW d \in Peers, Crash(d) PROVE PanelShut'
  BY <1>5 DEF Crash, PanelShut, Types
<1>6. ASSUME NEW d \in Peers, NEW o \in Peers, MarkRead(d, o) PROVE UNCHANGED panel
  BY <1>6 DEF MarkRead
<1>7. CASE UNCHANGED panel
  BY <1>7 DEF PanelShut
<1> QED
  BY <1>1, <1>2, <1>3, <1>4, <1>5, <1>6, <1>7 DEF Next

(* The invariant behind both promises of the poll, as long as no received  *)
(* message slides out of a full conversation before it is saved.           *)
LEMMA NothingLost == Spec /\ [][NothingSlidesOutUnsaved]_vars => [](IInv /\ NothingIsLost)
<1>1. ASSUME Init PROVE IInv /\ NothingIsLost
  <2>1. IInv
    BY <1>1, InvariantInit
  <2>2. 1..Len(<<>>) = {}
    BY EmptySeq
  <2>3. AcksAreSaved
    BY <1>1 DEF Init, AcksAreSaved, Idle
  <2>4. PanelShut /\ saved = {} /\ Accepted = {}
    BY <1>1, <2>2, RangeIs, EmptySeq DEF Init, PanelShut, Accepted
  <2>5. AckedIsSaved /\ SavedFollow
    BY <2>4 DEF AckedIsSaved, SavedFollow
  <2>6. \A d \in Peers : ReceivedIn(mem[d]) = {}
    BY <2>1, <2>4 DEF IInv, ReceivedWasTaken, MailFor
  <2>7. ReceivedFollow
    BY <2>6 DEF ReceivedFollow
  <2>8. BatchesFollow
    BY <1>1, <2>2 DEF Init, BatchesFollow, Idle
  <2> QED
    BY <2>1, <2>3, <2>4, <2>5, <2>7, <2>8 DEF NothingIsLost
<1>2. ASSUME IInv, NothingIsLost, [Next]_vars, [NothingSlidesOutUnsaved]_vars
      PROVE  (IInv /\ NothingIsLost)'
  <2>1. IInv'
    BY <1>2, InvariantStep
  <2>2. ASSUME UNCHANGED vars PROVE NothingIsLost'
    <3>1. /\ UNCHANGED <<scenario, panel, log, inbox, displaced, mem, disk, saved, poller>>
      BY <2>2 DEF vars, relayVars
    <3>2. Happens("panel")' = Happens("panel") /\ Gone' = Gone /\ Accepted' = Accepted
      BY <3>1 DEF Happens, Gone, Accepted
    <3>3. AcksAreSaved' = AcksAreSaved
      BY <3>1 DEF AcksAreSaved
    <3>4. PanelShut' = PanelShut
      BY <3>1 DEF PanelShut
    <3>5. AckedIsSaved' = AckedIsSaved
      BY <3>1, <3>2 DEF AckedIsSaved
    <3>6. SavedFollow' = SavedFollow
      BY <3>1, <3>2 DEF SavedFollow
    <3>7. ReceivedFollow' = ReceivedFollow
      BY <3>1, <3>2 DEF ReceivedFollow
    <3>8. BatchesFollow' = BatchesFollow
      BY <3>1, <3>2 DEF BatchesFollow
    <3> QED
      BY <1>2, <3>2, <3>3, <3>4, <3>5, <3>6, <3>7, <3>8 DEF NothingIsLost
  <2>3. ASSUME Next, NothingSlidesOutUnsaved PROVE NothingIsLost'
    <3>1. AcksAreSaved'
      BY <1>2, <2>3, AcksAreSavedStep DEF NothingIsLost
    <3>2. Happens("panel")' = Happens("panel")
      BY <1>2, <2>3, LimitsStay DEF IInv, Types, Happens
    <3>3. ASSUME ~Happens("panel")
          PROVE  PanelShut' /\ AckedIsSaved' /\ SavedFollow' /\ ReceivedFollow' /\ BatchesFollow'
      <4>1. /\ AcksAreSaved /\ PanelShut /\ AckedIsSaved /\ SavedFollow /\ ReceivedFollow /\ BatchesFollow
            /\ Types
        BY <1>2, <3>3 DEF NothingIsLost, IInv
      <4> QED
        BY <1>2, <2>3, <3>3, <4>1, PanelStaysShut, AckedIsSavedStep, SavedFollowStep,
           ReceivedFollowStep, BatchesFollowStep
    <3> QED
      BY <3>1, <3>2, <3>3 DEF NothingIsLost
  <2> QED
    BY <1>2, <2>1, <2>2, <2>3
<1> QED
  BY <1>1, <1>2, PTL DEF Spec

(* A chat message the relay took stays there until it has been on its      *)
(* recipient's disk, unless the cap pushed it out or the panel acked it:   *)
(* "Call this after successfully saving / decrypting the envelope"         *)
(* (client.rs:140-142), whatever polls overlap, fail or die.               *)
THEOREM AckedWasSaved == Spec /\ [][NothingSlidesOutUnsaved]_vars => []AckedUnlessByPanel
<1>1. IInv /\ NothingIsLost => AckedUnlessByPanel
  BY DEF NothingIsLost, AckedUnlessByPanel
<1> QED
  BY <1>1, NothingLost, PTL

(* The recipient never has a message on disk while an earlier one to it is *)
(* neither there nor displaced (lib.rs:1462-1500).                         *)
THEOREM NoGapIsLeft == Spec /\ [][NothingSlidesOutUnsaved]_vars => []NoThreadHasGaps
<1>1. ASSUME IInv, NothingIsLost PROVE NoThreadHasGaps
  <2>1. CASE Happens("panel")
    BY <2>1 DEF NoThreadHasGaps
  <2>2. CASE ~Happens("panel")
    <3>1. SavedFollow /\ log \in Seq(Items)
      BY <1>1, <2>2 DEF NothingIsLost, IInv, Types
    <3>2. Len(log) \in Nat /\ DOMAIN log = 1..Len(log)
      BY <3>1, LenProperties
    <3>3. ASSUME NEW j \in 1..Len(log), log[j] \in saved, NEW i \in 1..(j - 1),
                 log[i] \in Chats, To[log[i]] = To[log[j]]
          PROVE  log[i] \in saved \cup displaced
      <4>1. i \in 1..Len(log) /\ i < j
        BY <3>2
      <4> QED
        BY <3>1, <3>3, <4>1 DEF SavedFollow, Follows, Gone
    <3>4. NoGaps
      BY <3>2, <3>3 DEF NoGaps
    <3> QED
      BY <3>4 DEF NoThreadHasGaps
  <2> QED
    BY <2>1, <2>2
<1> QED
  BY <1>1, NothingLost, PTL
===============================================================================
