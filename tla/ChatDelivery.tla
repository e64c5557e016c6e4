---------------------------- MODULE ChatDelivery -----------------------------
(***************************************************************************)
(* A chat message on its way from one desktop app to another: chat_send,   *)
(* the relay's mailbox, and chat_fetch_relay_messages, polled every eight  *)
(* seconds without waiting for the previous poll.  Each app keeps its      *)
(* history in memory behind a mutex and writes all of it to disk after     *)
(* every change, in a second critical section; either app may die between  *)
(* any two steps, a save may fail, and a request or its answer be lost,    *)
(* with an error or without a word: client.rs waits without a timeout.     *)
(*                                                                         *)
(* The mailbox keeps envelopes in the order of their arrival, as the       *)
(* relay's InMemoryStore does.  SqliteStore, the default of main.rs, orders*)
(* and displaces by the time stamped before a put waits for the store;     *)
(* that is another order only where two Delivers are in flight at once or  *)
(* the clock goes back, which the modules RelayService and SqliteStore     *)
(* are about.                                                              *)
(***************************************************************************)
EXTENDS Naturals, Sequences, FiniteSets, Functions, Queues

CONSTANTS Peers,       \* devices
          Chats,       \* chat-v1 envelopes, named by their msg_id
          Vaults,      \* vault-transfer envelopes, which share the inbox
          From, To,    \* [Chats \cup Vaults -> Peers]
          Pollers,     \* calls of chat_fetch_relay_messages that may overlap
          Host,        \* [Pollers -> Peers]
          Scenarios    \* limits and events, of which a behaviour has one set

Items == Chats \cup Vaults
EventKinds == {"lookup",  \* unknown peer, no identity, or DNS failure
                 "save",    \* chat-messages.json cannot be written
                 "wire",    \* a connection breaks, with the request or the answer
                 "silence", \* the other end goes silent without closing
                 "crash",   \* an app dies and is started again
                 "panel",   \* the user opens the relay inbox panel
                 "read"}    \* the user opens a thread

ASSUME PeersKnown == /\ From \in [Items -> Peers] /\ To \in [Items -> Peers]
                     /\ Host \in [Pollers -> Peers]
ASSUME KindsDisjoint == Chats \cap Vaults = {}

(* The limits are constants of the code; a behaviour is one program under  *)
(* one choice of them.                                                     *)
Scenario ==
    [pollers: SUBSET Pollers,   \* which of the calls are made
     vaults: SUBSET Vaults,     \* which of the vaults are sent
     fetchLimit: Nat \ {0},     \* the 50 of client.fetch(50)
     relayCap: Nat \ {0},       \* max_per_recipient of the relay's store
     maxHistory: Nat \ {0},     \* MAX_MESSAGES_PER_PEER
     events: SUBSET EventKinds,
     faults: Nat]               \* bound on crashes and failed saves together

ASSUME ScenariosKnown == Scenarios \subseteq Scenario

VARIABLES mem,       \* mem[d][o]: d's conversation with o, as ChatStoreState holds it
          disk,      \* disk[d][o]: the same in chat-messages.json
          sender,    \* sender[m]: where the chat_send of m is
          wire,      \* wire[m]: the Deliver request of m, its answer, or an error
          inbox,     \* inbox[d]: envelopes the relay holds for d, oldest first
          poller,    \* poller[p]: where the fetch p is
          reader,    \* reader[d]: whether a chat_mark_read has yet to save
          panel,     \* panel[d]: envelopes the inbox panel shows, not yet acked
          log,       \* history: every envelope the relay took, in order
          displaced, \* history: envelopes the relay's cap pushed out
          saved,     \* history: chats that were ever on the recipient's disk
          scenario   \* chosen at the start; its faults are those still to come

relayVars == <<wire, inbox, log, displaced>>
vars == <<mem, disk, sender, relayVars, poller, reader, panel, saved, scenario>>

Message == [id: Chats, dir: {"outgoing", "incoming"},
            status: {"sending", "sent", "failed", "delivered", "read"}]
Idle == [pc |-> "idle", batch |-> <<>>, acks |-> {}]
Poll == [pc: {"idle", "adding", "saving"}, batch: Seq(Items), acks: SUBSET Items]
(* cut: the chat_send ended before its outcome was on disk.                *)
SenderStates == {"idle", "composed", "lookup", "await", "settled", "done", "cut"}

Outgoing(m, s) == [id |-> m, dir |-> "outgoing", status |-> s]
Incoming(m) == [id |-> m, dir |-> "incoming", status |-> "delivered"]

PushUnbounded(s, x, cap) == Append(s, x)
(* push_back, then drop from the front while over the cap.                 *)
PushBounded(s, x, cap) ==
    LET t == Append(s, x)
    IN  IF Len(t) > cap THEN SubSeq(t, Len(t) - cap + 1, Len(t)) ELSE t

(* update_status: the first record with that id.                           *)
SetStatus(h, m, s) ==
    LET hits == {i \in DOMAIN h : h[i].id = m}
    IN  IF hits = {} THEN h
        ELSE [h EXCEPT ![CHOOSE i \in hits : \A j \in hits : i <= j].status = s]

MarkIncomingRead(h) ==
    [i \in DOMAIN h |-> IF h[i].dir = "incoming" THEN [h[i] EXCEPT !.status = "read"]
                                                  ELSE h[i]]

Incomings(h) == {h[i].id : i \in {j \in DOMAIN h : h[j].dir = "incoming"}}
ReceivedIn(convs) == UNION {Incomings(convs[o]) : o \in Peers}
Accepted == Range(log)
Happens(kind) == kind \in scenario.events
------------------------------------------------------------------------------
Init ==
    /\ mem = [d \in Peers |-> [o \in Peers |-> <<>>]]
    /\ disk = [d \in Peers |-> [o \in Peers |-> <<>>]]
    /\ sender = [m \in Chats |-> "idle"]
    /\ wire = [m \in Chats |-> "none"]
    /\ inbox = [d \in Peers |-> <<>>]
    /\ poller = [p \in Pollers |-> Idle]
    /\ reader = [d \in Peers |-> FALSE]
    /\ panel = [d \in Peers |-> {}]
    /\ log = <<>>
    /\ displaced = {}
    /\ saved = {}
    /\ scenario \in Scenarios

(* with_write, first half: the closure runs under the mutex.               *)
Mutate(d, o, h) == mem' = [mem EXCEPT ![d][o] = h]

(* with_write, second half: a fresh read of the store goes to disk.        *)
Persist(d) ==
    /\ disk' = [disk EXCEPT ![d] = mem[d]]
    /\ saved' = saved \cup ReceivedIn(mem[d])

Moves(m, from, to) == sender[m] = from /\ sender' = [sender EXCEPT ![m] = to]
------------------------------------------------------------------------------
(* chat_send                                                               *)

Compose(m) ==
    /\ Moves(m, "idle", "composed")
    /\ Mutate(From[m], To[m], PushBounded(mem[From[m]][To[m]], Outgoing(m, "sending"),
                                          scenario.maxHistory))
    /\ UNCHANGED <<disk, relayVars, poller, reader, panel, saved, scenario>>

(* A save that fails: with_write returns Err, memory keeps the change.      *)
SaveFails ==
    /\ Happens("save")
    /\ scenario.faults > 0
    /\ scenario' = [scenario EXCEPT !.faults = @ - 1]
    /\ UNCHANGED <<disk, saved>>

SaveComposed(m) ==
    /\ Moves(m, "composed", "lookup")
    /\ Persist(From[m])
    /\ UNCHANGED <<mem, relayVars, poller, reader, panel, scenario>>

(* Every ? before the deliver returns without touching the status.         *)
GiveUpEarly(m) ==
    /\ \/ Moves(m, "composed", "cut") /\ SaveFails
       \/ /\ Happens("lookup")
          /\ Moves(m, "lookup", "cut")
          /\ UNCHANGED <<disk, saved, scenario>>
    /\ UNCHANGED <<mem, relayVars, poller, reader, panel>>

SendRequest(m) ==
    /\ Moves(m, "lookup", "await")
    /\ wire' = [wire EXCEPT ![m] = "request"]
    /\ UNCHANGED <<mem, disk, inbox, log, displaced, poller, reader, panel, saved, scenario>>

SettleInSnapshot(m, s) ==
    /\ Moves(m, "await", "settled")
    /\ Mutate(From[m], To[m], SetStatus(disk[From[m]][To[m]], m, s))
SettleAsSent(m, s) ==
    /\ Moves(m, "await", "settled")
    /\ Mutate(From[m], To[m], SetStatus(mem[From[m]][To[m]], m, "sent"))
Settle(m, s) ==
    /\ Moves(m, "await", "settled")
    /\ Mutate(From[m], To[m], SetStatus(mem[From[m]][To[m]], m, s))

Answered(m) ==
    /\ wire[m] = "answer"
    /\ wire' = [wire EXCEPT ![m] = "none"]
    /\ Settle(m, "sent")
    /\ UNCHANGED <<disk, inbox, log, displaced, poller, reader, panel, saved, scenario>>

ReturnOnError(m) ==
    /\ Happens("wire")
    /\ Moves(m, "await", "done")
    /\ wire' = [wire EXCEPT ![m] = IF @ = "request" THEN @ ELSE "none"]
    /\ UNCHANGED <<mem, disk, inbox, log, displaced, poller, reader, panel, saved, scenario>>

(* deliver returned an error; a request still under way stays under way.   *)
NotAnswered(m) ==
    /\ Happens("wire")
    /\ Settle(m, "failed")
    /\ wire' = [wire EXCEPT ![m] = IF @ = "request" THEN @ ELSE "none"]
    /\ UNCHANGED <<disk, inbox, log, displaced, poller, reader, panel, saved, scenario>>

SaveSettled(m) ==
    /\ Moves(m, "settled", "done")
    /\ Persist(From[m])
    /\ UNCHANGED <<mem, relayVars, poller, reader, panel, scenario>>

SaveSettledFails(m) ==
    /\ SaveFails
    /\ Moves(m, "settled", "cut")
    /\ UNCHANGED <<mem, relayVars, poller, reader, panel>>
------------------------------------------------------------------------------
(* The relay                                                               *)

TakeIn(x) ==
    LET before == inbox[To[x]]
        after  == PushBounded(before, x, scenario.relayCap)
    IN  /\ inbox' = [inbox EXCEPT ![To[x]] = after]
        /\ displaced' = displaced \cup (Range(before) \ Range(after))
        /\ log' = Append(log, x)

(* The answer is lost at once if nobody waits for it any more.             *)
RelayAccepts(m) ==
    /\ wire[m] = "request"
    /\ wire' = [wire EXCEPT ![m] = IF sender[m] = "await" THEN "answer" ELSE "none"]
    /\ TakeIn(m)
    /\ UNCHANGED <<mem, disk, sender, poller, reader, panel, saved, scenario>>

Vanishes(m, left) ==
    /\ wire[m] \in {"request", "answer"}
    /\ wire' = [wire EXCEPT ![m] = left]
    /\ UNCHANGED <<mem, disk, sender, inbox, log, displaced, poller, reader, panel,
                   saved, scenario>>

(* The connection is reset or closed: who waits for it will hear of it.    *)
ConnectionBreaks(m) ==
    Happens("wire") /\ Vanishes(m, IF sender[m] = "await" THEN "broken" ELSE "none")

(* The other end is gone and nothing says so.                              *)
GoesSilent(m) == Happens("silence") /\ Vanishes(m, "none")

(* relay_send_to_peer: another user's vault, same mailbox.                 *)
VaultArrives(v) ==
    /\ v \in scenario.vaults \ Accepted
    /\ TakeIn(v)
    /\ UNCHANGED <<mem, disk, sender, wire, poller, reader, panel, saved, scenario>>

RemoveFromInbox(d, xs) ==
    inbox' = [inbox EXCEPT ![d] = Retain(@, Items \ xs)]
------------------------------------------------------------------------------
(* chat_fetch_relay_messages                                               *)

NewestBatch(d) ==
    LET waiting == Len(inbox[d])
    IN  SubSeq(inbox[d], IF waiting > scenario.fetchLimit
                         THEN waiting - scenario.fetchLimit + 1 ELSE 1, waiting)
Batch(d) ==
    LET waiting == Len(inbox[d])
    IN  SubSeq(inbox[d], 1, IF waiting < scenario.fetchLimit THEN waiting ELSE scenario.fetchLimit)

Fetch(p) ==
    /\ p \in scenario.pollers
    /\ poller[p].pc = "idle"
    /\ inbox[Host[p]] # <<>>
    /\ poller' = [poller EXCEPT ![p] = [pc |-> "adding", batch |-> Batch(Host[p]), acks |-> {}]]
    /\ UNCHANGED <<mem, disk, sender, relayVars, reader, panel, saved, scenario>>

StopAtForeign(p) ==
    /\ poller[p].pc = "adding"
    /\ poller[p].batch # <<>>
    /\ Head(poller[p].batch) \notin Chats
    /\ poller' = [poller EXCEPT ![p] = Idle]
    /\ UNCHANGED <<mem, disk, sender, relayVars, reader, panel, saved, scenario>>

(* An envelope that is not chat-v1 is passed over and left in the inbox.   *)
SkipForeign(p) ==
    /\ poller[p].pc = "adding"
    /\ poller[p].batch # <<>>
    /\ Head(poller[p].batch) \notin Chats
    /\ poller' = [poller EXCEPT ![p].batch = Tail(@)]
    /\ UNCHANGED <<mem, disk, sender, relayVars, reader, panel, saved, scenario>>

AddMessage(p) ==
    /\ poller[p].pc = "adding"
    /\ poller[p].batch # <<>>
    /\ Head(poller[p].batch) \in Chats
    /\ LET x == Head(poller[p].batch)
       IN  Mutate(Host[p], From[x], PushBounded(mem[Host[p]][From[x]], Incoming(x),
                                                scenario.maxHistory))
    /\ poller' = [poller EXCEPT ![p].pc = "saving"]
    /\ UNCHANGED <<disk, sender, relayVars, reader, panel, saved, scenario>>

NextInBatch(p) ==
    poller' = [poller EXCEPT ![p] = [pc |-> "adding", batch |-> Tail(@.batch),
                                     acks |-> @.acks \cup {Head(@.batch)}]]

SaveAdded(p) ==
    /\ poller[p].pc = "saving"
    /\ Persist(Host[p])
    /\ NextInBatch(p)
    /\ UNCHANGED <<mem, sender, relayVars, reader, panel, scenario>>

AckDespiteFailedSave(p) ==
    /\ SaveFails
    /\ poller[p].pc = "saving"
    /\ NextInBatch(p)
    /\ UNCHANGED <<mem, sender, relayVars, reader, panel>>

(* with_write's ? leaves the loop: nothing of this batch is acked.         *)
SaveAddedFails(p) ==
    /\ SaveFails
    /\ poller[p].pc = "saving"
    /\ poller' = [poller EXCEPT ![p] = Idle]
    /\ UNCHANGED <<mem, sender, relayVars, reader, panel>>

BatchDone(p) == poller[p].pc = "adding" /\ poller[p].batch = <<>>

Ack(p) ==
    /\ BatchDone(p)
    /\ RemoveFromInbox(Host[p], poller[p].acks)
    /\ poller' = [poller EXCEPT ![p] = Idle]
    /\ UNCHANGED <<mem, disk, sender, wire, log, displaced, reader, panel, saved, scenario>>

(* let _ = client.ack(...): a lost ack is nobody's concern.                *)
AckLost(p) ==
    /\ Happens("wire")
    /\ BatchDone(p)
    /\ poller' = [poller EXCEPT ![p] = Idle]
    /\ UNCHANGED <<mem, disk, sender, relayVars, reader, panel, saved, scenario>>
------------------------------------------------------------------------------
(* The relay inbox panel of ui/pairing.js, and reading a thread            *)

PanelFetch(d) ==
    /\ Happens("panel")
    /\ panel[d] = {}
    /\ inbox[d] # <<>>
    /\ panel' = [panel EXCEPT ![d] = Range(Batch(d))]
    /\ UNCHANGED <<mem, disk, sender, relayVars, poller, reader, saved, scenario>>

PanelAutoAck(d) ==
    /\ panel[d] # {}
    /\ RemoveFromInbox(d, panel[d])
    /\ panel' = [panel EXCEPT ![d] = {}]
    /\ UNCHANGED <<mem, disk, sender, wire, log, displaced, poller, reader, saved, scenario>>

(* chat_mark_read                                                          *)
MarkRead(d, o) ==
    /\ Happens("read")
    /\ ~reader[d]
    /\ reader' = [reader EXCEPT ![d] = TRUE]
    /\ Mutate(d, o, MarkIncomingRead(mem[d][o]))
    /\ UNCHANGED <<disk, sender, relayVars, poller, panel, saved, scenario>>

SaveRead(d) ==
    /\ reader[d]
    /\ reader' = [reader EXCEPT ![d] = FALSE]
    /\ \/ Persist(d) /\ UNCHANGED scenario
       \/ SaveFails
    /\ UNCHANGED <<mem, sender, relayVars, poller, panel>>

(* The app dies and starts again from chat-messages.json.                  *)
Crash(d) ==
    /\ Happens("crash")
    /\ scenario.faults > 0
    /\ scenario' = [scenario EXCEPT !.faults = @ - 1]
    /\ mem' = [mem EXCEPT ![d] = disk[d]]
    /\ sender' = [m \in Chats |-> IF From[m] = d /\ sender[m] \notin {"idle", "done"} THEN "cut"
                                 ELSE sender[m]]
    /\ wire' = [m \in Chats |-> IF From[m] = d /\ wire[m] # "request" THEN "none" ELSE wire[m]]
    /\ poller' = [p \in Pollers |-> IF Host[p] = d THEN Idle ELSE poller[p]]
    /\ reader' = [reader EXCEPT ![d] = FALSE]
    /\ panel' = [panel EXCEPT ![d] = {}]
    /\ UNCHANGED <<disk, inbox, log, displaced, saved>>
------------------------------------------------------------------------------
Sending(m) ==
    \/ Compose(m) \/ SaveComposed(m) \/ GiveUpEarly(m) \/ SendRequest(m)
    \/ Answered(m) \/ NotAnswered(m) \/ SaveSettled(m) \/ SaveSettledFails(m)
Relaying(m) == RelayAccepts(m) \/ ConnectionBreaks(m) \/ GoesSilent(m)
Polling(p) ==
    \/ Fetch(p) \/ SkipForeign(p) \/ AddMessage(p)
    \/ SaveAdded(p) \/ SaveAddedFails(p) \/ Ack(p) \/ AckLost(p)

Next ==
    \/ \E m \in Chats : Sending(m) \/ Relaying(m)
    \/ \E v \in Vaults : VaultArrives(v)
    \/ \E p \in Pollers : Polling(p)
    \/ \E d \in Peers : PanelFetch(d) \/ PanelAutoAck(d) \/ SaveRead(d) \/ Crash(d)
    \/ \E d, o \in Peers : MarkRead(d, o)

Spec == Init /\ [][Next]_vars

(* Tauri runs each started command to its end, the relay answers what it   *)
(* receives, a connection that is reset or closed ends the wait for it in  *)
(* an error, and the page polls for ever; TCP does not lose every ack.     *)
(* Nothing ends a wait for a peer that went silent: client.rs:162-190 has  *)
(* no timeout.  Nothing obliges a user to send, read or open the panel, or *)
(* the environment to fail.                                                *)
FairSend(m) ==
    /\ WF_vars(wire[m] = "broken" /\ NotAnswered(m))
    /\ WF_vars(SaveComposed(m) \/ SendRequest(m) \/ SaveSettled(m) \/ Answered(m))
    /\ WF_vars(RelayAccepts(m))
FairPoll(p) ==
    /\ WF_vars(Fetch(p) \/ SkipForeign(p) \/ AddMessage(p) \/ SaveAdded(p))
    /\ SF_vars(Ack(p))
FairSpec ==
    /\ Spec
    /\ \A m \in Chats : FairSend(m)
    /\ \A p \in Pollers : FairPoll(p)
------------------------------------------------------------------------------
(* Every variable of the two apps, the relay and the wire keeps its type   *)
(* (chat_store.rs:49-71, store.rs:104-109); histories and inboxes respect  *)
(* their caps.                                                             *)
TypeOK ==
    /\ \A h \in {mem, disk} : \A d, o \in Peers :
          Len(h[d][o]) <= scenario.maxHistory /\ Range(h[d][o]) \subseteq Message
    /\ sender \in [Chats -> SenderStates]
    /\ wire \in [Chats -> {"none", "request", "answer", "broken"}]
    /\ \A d \in Peers : Len(inbox[d]) <= scenario.relayCap /\ Range(inbox[d]) \subseteq Items
    /\ \A p \in Pollers : /\ poller[p].pc \in {"idle", "adding", "saving"}
                          /\ Range(poller[p].batch) \cup poller[p].acks \subseteq Items
    /\ reader \in [Peers -> BOOLEAN]
    /\ panel \in [Peers -> SUBSET Items]
    /\ Accepted \subseteq Items
    /\ displaced \subseteq Accepted
    /\ saved \subseteq Chats
    /\ \E sc \in Scenarios : /\ scenario.faults \in 0..sc.faults
                            /\ scenario = [sc EXCEPT !.faults = scenario.faults]

(* "Call this after successfully saving / decrypting the envelope"         *)
(* (client.rs:140-142): a chat message the relay took is still there until *)
(* it has been on its recipient's disk, unless the cap pushed it out.      *)
AckedIsSaved ==
    \A m \in Chats \cap Accepted : m \in Range(inbox[To[m]]) \cup displaced \cup saved
AckedUnlessByPanel == Happens("panel") \/ AckedIsSaved

(* The recipient never has a message on disk while an earlier one to it is *)
(* neither there nor displaced: the loop of chat_fetch_relay_messages      *)
(* (lib.rs:1462-1500) leaves no gaps, whatever fails in it but the panel,  *)
(* which acks what it has only shown.                                      *)
NoGaps ==
    \A j \in DOMAIN log : log[j] \in saved =>
        \A i \in 1..(j - 1) :
            log[i] \in Chats /\ To[log[i]] = To[log[j]] => log[i] \in saved \cup displaced
NoThreadHasGaps == Happens("panel") \/ NoGaps

(* "sent" is shown only for a message the relay has taken                  *)
(* (lib.rs:1396-1406).                                                     *)
SentMeansAccepted ==
    \A d, o \in Peers : \A r \in Range(mem[d][o]) \cup Range(disk[d][o]) :
        r.status = "sent" => r.id \in Accepted

StatusMoves == {<<"sending", "sent">>, <<"sending", "failed">>, <<"delivered", "read">>}
Grows(old, new) ==
    \E k \in 0..Len(old) :
        /\ Len(new) >= Len(old) - k
        /\ k > 0 => Len(new) = scenario.maxHistory
        /\ \A i \in 1..(Len(old) - k) :
              LET a == old[i + k]
                  b == new[i]
              IN  /\ a.id = b.id /\ a.dir = b.dir
                  /\ a.status = b.status \/ <<a.status, b.status>> \in StatusMoves

(* A conversation only grows at its end, drops at its front when full, and *)
(* moves statuses forward: always on disk, and in memory except across a   *)
(* restart.  Two critical sections per change (lib.rs:125-142) lose no     *)
(* update of a concurrent command.                                         *)
HistoryStep ==
    \A d, o \in Peers : /\ Grows(disk[d][o], disk'[d][o])
                        /\ \/ Grows(mem[d][o], mem'[d][o])
                           \/ scenario' # scenario /\ mem'[d][o] = disk[d][o]
HistoriesOnlyGrow == [][HistoryStep]_vars

(* A send that has begun is eventually shown as sent or failed: "Update    *)
(* status based on delivery outcome" (lib.rs:1398).  Two ends are excepted *)
(* where the code leaves it at "sending": a chat_send that was cut before  *)
(* the outcome was on disk, by an early return (lib.rs:1361-1394), a save  *)
(* that failed or a crash, and one that waits for a relay gone silent.     *)
(* What was settled and saved is never "sending" again, through saves of   *)
(* other commands and restarts.                                            *)
Unsettled(m) ==
    LET h == mem[From[m]][To[m]] IN \E i \in DOMAIN h : h[i] = Outgoing(m, "sending")
LeftWaiting(m) == sender[m] = "await" /\ wire[m] = "none"
SendSettles == \A m \in Chats : Unsettled(m) ~> ~Unsettled(m) \/ sender[m] = "cut" \/ LeftWaiting(m)

(* A chat message the relay took reaches its recipient's disk, unless the  *)
(* relay's cap displaces it first: what polling with a limit, skipping     *)
(* foreign envelopes and acking best-effort (lib.rs:1444-1507) is for.     *)
ChatArrives == \A m \in Chats : m \in Accepted ~> m \in saved \cup displaced
==============================================================================
