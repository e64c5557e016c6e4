-------------------------------- MODULE ChatUi --------------------------------
(***************************************************************************)
(* The chat page of the desktop app, tauri-app/ui/chat-ui.js: keys derived *)
(* from phrases and held in memory, the one phrase dialog that this page   *)
(* and the pairing page share, the thread on display, and the commands to  *)
(* the Rust side whose answers come late and in any order.                 *)
(* A peer stands for its id and for its name.                              *)
(***************************************************************************)
EXTENDS VaultPrograms, PageValues

CONSTANTS
  Me, Peers,       \* public keys: this device's, and of the devices paired
  Phrases,         \* what may be typed into the dialog, or by the peer
  ClassesShow,     \* index.html: whether a class shows what has display:none inline
  MaxCalls,        \* bound: chat_get_history commands under way
  MaxStored,       \* bound: messages of a history
  MaxAsks          \* bound: times the dialog is opened

\* An empty phrase makes no key, on this device or the other; the dialog may
\* bring one all the same.
ASSUME PhrasesAreNotEmpty == "" \notin Phrases

VARIABLES
  own,       \* whether ownPkHex is known
  keys,      \* phraseKeys
  active,    \* activePeerId
  bar,       \* whether the input bar was left visible
  dialog,    \* whom it names and what its promise is for
  calls,     \* chat_get_history under way for the thread
  sends,     \* chat_send under way
  view,      \* messagesDiv
  store,     \* the histories on the Rust side
  news,      \* chat_fetch_relay_messages has stored messages, its answer is due
  asks,
  alerted,   \* history: "This conversation is locked" was shown
  entered    \* history: <<peer named by the dialog, phrase>>

chatVars == <<own, keys, active, bar, dialog, calls, sends, view, store, news, asks,
          alerted, entered>>

NoKey == <<>>
NoDialog == [title |-> None, by |-> None]
NoEnvelope == [none |-> TRUE]
Heard(phrase) == [typed |-> phrase, latin |-> FALSE]

\* The pair of identities is sorted, so that both devices derive one key.
DeriveKeyOfPeer(mine, peer, phrase) == ChatKey(Heard(phrase), {peer})
DeriveKey(mine, peer, phrase) == ChatKey(Heard(phrase), {mine, peer})

\* What chat_send gets; a nonce is as good as any other here.
EncryptMessage(text, key) == Seal(key, 0, <<>>, text)

ChatInit ==
  /\ own = FALSE
  /\ keys = [p \in Peers |-> NoKey]
  /\ active = None /\ bar = FALSE /\ dialog = NoDialog
  /\ calls = <<>> /\ sends = <<>>
  /\ view = [peer |-> None, word |-> None, bubbles |-> <<>>]
  /\ store = [p \in Peers |-> <<>>]
  /\ news = FALSE /\ asks = 0
  /\ alerted = FALSE /\ entered = {}

\* Asked for once; a failure and a call that never returns leave it unknown.
OwnHexAnswers ==
  /\ ~own
  /\ own' = TRUE
  /\ UNCHANGED <<keys, active, bar, dialog, calls, sends, view, store, news, asks,
                 alerted, entered>>

\* The overlay of the dialog covers the page: nothing behind it can be
\* clicked, but buttons and the input are still reached by the keyboard.
CoveredNever == FALSE
DialogShown == ClassesShow /\ dialog # NoDialog
Covered == DialogShown

\* loadMessages: the history is read some time between call and answer.
Load(p) ==
  /\ Len(calls) < MaxCalls
  /\ calls' = Append(calls, [peer |-> p, from |-> IF p = None THEN 0 ELSE Len(store[p])])

---------------------------------------------------------------------------
\* Opening, leaving, locking and unlocking a conversation

\* selectPeer and openChat; applyLockState shows or hides the input bar.
OpenChat(p) ==
  /\ ~Covered
  /\ active' = p
  /\ bar' = (keys[p] # NoKey)
  /\ Load(p)
  /\ UNCHANGED <<own, keys, dialog, sends, view, store, news, asks, alerted, entered>>

ThreadBack ==
  /\ active # None
  /\ active' = None
  /\ UNCHANGED <<own, keys, bar, dialog, calls, sends, view, store, news, asks,
                 alerted, entered>>

DoLockNoReload ==
  /\ active # None /\ keys[active] # NoKey
  /\ keys' = [keys EXCEPT ![active] = NoKey]
  /\ bar' = FALSE
  /\ UNCHANGED <<own, active, dialog, calls, sends, view, store, news, asks,
                 alerted, entered>>
DoLockKeepsBar ==
  /\ active # None /\ keys[active] # NoKey
  /\ keys' = [keys EXCEPT ![active] = NoKey]
  /\ Load(active)
  /\ UNCHANGED <<own, active, bar, dialog, sends, view, store, news, asks,
                 alerted, entered>>
DoLock ==
  /\ active # None /\ keys[active] # NoKey
  /\ keys' = [keys EXCEPT ![active] = NoKey]
  /\ bar' = FALSE
  /\ Load(active)
  /\ UNCHANGED <<own, active, dialog, sends, view, store, news, asks,
                 alerted, entered>>

\* A second call replaces the title and the promise of the first.
ShowPhraseDialog(p, by) ==
  /\ asks < MaxAsks
  /\ asks' = asks + 1
  /\ dialog' = [title |-> p, by |-> by]

\* The button of the header, or the one of the notice, which stays on
\* display until the lock state is applied again.
PromptUnlock ==
  /\ active # None /\ (keys[active] = NoKey \/ ~bar)
  /\ ShowPhraseDialog(active, "unlock")
  /\ UNCHANGED <<own, keys, active, bar, calls, sends, view, store, news,
                 alerted, entered>>

\* The pairing page asks by a timer, whatever this page is doing.
PairingAsks(p) ==
  /\ ShowPhraseDialog(p, "pairing")
  /\ UNCHANGED <<own, keys, active, bar, calls, sends, view, store, news,
                 alerted, entered>>

\* An unlock is for whoever is active by now.  A phrase is refused silently
\* while the own key is not known, or when no conversation is open.
PhraseOk(phrase) ==
  LET p == IF dialog.by = "pairing" THEN dialog.title ELSE active
      ok == phrase # "" /\ p # None /\ own
  IN /\ DialogShown
     /\ dialog' = NoDialog
     /\ keys' = IF ok THEN [keys EXCEPT ![p] = DeriveKey(Me, p, phrase)] ELSE keys
     /\ entered' = entered \cup {<<dialog.title, phrase>>}
     /\ IF ok /\ dialog.by = "unlock" THEN bar' = TRUE /\ Load(p)
        ELSE UNCHANGED <<bar, calls>>
     /\ UNCHANGED <<own, active, sends, view, store, news, asks, alerted>>

PhraseCancel ==
  /\ DialogShown
  /\ dialog' = NoDialog
  /\ UNCHANGED <<own, keys, active, bar, calls, sends, view, store, news, asks,
                 alerted, entered>>

---------------------------------------------------------------------------
\* Messages

\* Decrypted at every rendering with the key of the moment; without one, the
\* ciphertext is shown and can be copied with the pair of identities, once
\* the own identity is known.
Bubble(p, c) ==
  IF keys[p] = NoKey
  THEN [shown |-> "ciphertext", ct |-> c,
        copy |-> IF ~own THEN NoEnvelope
                 ELSE [ids |-> {Me, p}, nonce |-> c.nonce, ct |-> c, missing |-> {}]]
  ELSE [shown |-> IF Opens(c, keys[p], 0, <<>>) THEN c.body ELSE "can't decrypt",
        ct |-> c, copy |-> NoEnvelope]

RenderMessages(p, n) ==
  view' = [peer |-> p, word |-> IF p = None \/ keys[p] = NoKey THEN None
                                ELSE keys[p][1].typed,
           bubbles |-> [j \in 1..n |-> Bubble(p, store[p][j])]]

HistoryAnswers(i) ==
  /\ calls[i].peer # None
  /\ \E n \in calls[i].from .. Len(store[calls[i].peer]) : RenderMessages(calls[i].peer, n)
  /\ calls' = Without(calls, i)
  /\ UNCHANGED <<own, keys, active, bar, dialog, sends, store, news, asks,
                 alerted, entered>>

\* The command fails, as it does without a conversation: an empty thread.
HistoryFails(i) ==
  /\ RenderMessages(calls[i].peer, 0)
  /\ calls' = Without(calls, i)
  /\ UNCHANGED <<own, keys, active, bar, dialog, sends, store, news, asks,
                 alerted, entered>>

\* What was typed is sent from the bar on display; Enter in its input does not
\* look at whether the button is disabled.
Held(p) == Len(store[p]) + Cardinality({i \in DOMAIN sends : sends[i].to = p /\ ~sends[i].stored})
DoSend ==
  /\ bar /\ ClassesShow
  /\ active # None
  /\ Held(active) < MaxStored
  /\ IF keys[active] = NoKey
     THEN alerted' = TRUE /\ UNCHANGED sends
     ELSE /\ sends' = Append(sends, [to |-> active, stored |-> FALSE,
                                     ct |-> EncryptMessage("hi", keys[active])])
          /\ UNCHANGED alerted
  /\ UNCHANGED <<own, keys, active, bar, dialog, calls, view, store, news, asks, entered>>

\* chat_send appends the message before it talks to the relay.
SendStores(i) ==
  /\ ~sends[i].stored
  /\ sends' = [sends EXCEPT ![i].stored = TRUE]
  /\ store' = [store EXCEPT ![sends[i].to] = Append(@, sends[i].ct)]
  /\ UNCHANGED <<own, keys, active, bar, dialog, calls, view, news, asks,
                 alerted, entered>>

\* Whatever the outcome, the thread active by then is loaded again.
SendSettles(i) ==
  /\ sends[i].stored
  /\ sends' = Without(sends, i)
  /\ Load(active)
  /\ UNCHANGED <<own, keys, active, bar, dialog, view, store, news, asks,
                 alerted, entered>>

\* The other device seals with the key it derives; the poll stores it.
PeerWrites(p, phrase) ==
  /\ Held(p) < MaxStored
  /\ store' = [store EXCEPT ![p] =
                 Append(@, EncryptMessage("yo", DeriveKey(p, Me, phrase)))]
  /\ news' = TRUE
  /\ UNCHANGED <<own, keys, active, bar, dialog, calls, sends, view, asks,
                 alerted, entered>>

FetchNewMessages ==
  /\ news
  /\ news' = FALSE
  /\ IF active # None THEN Load(active) ELSE UNCHANGED calls
  /\ UNCHANGED <<own, keys, active, bar, dialog, sends, view, store, asks,
                 alerted, entered>>

ChatNext ==
  \/ OwnHexAnswers \/ ThreadBack \/ DoLock \/ PromptUnlock \/ PhraseCancel
  \/ DoSend \/ FetchNewMessages
  \/ \E p \in Peers : OpenChat(p) \/ PairingAsks(p)
  \/ \E phrase \in Phrases \cup {""} : PhraseOk(phrase)
  \/ \E p \in Peers, phrase \in Phrases : PeerWrites(p, phrase)
  \/ \E i \in DOMAIN calls : HistoryAnswers(i) \/ HistoryFails(i)
  \/ \E i \in DOMAIN sends : SendStores(i) \/ SendSettles(i)

ChatSpec == ChatInit /\ [][ChatNext]_chatVars

---------------------------------------------------------------------------
\* Properties

\* The types of the state.
ChatTypeOK ==
  /\ own \in BOOLEAN
  /\ active \in Peers \cup {None} /\ view.peer \in Peers \cup {None}
  /\ dialog.title \in Peers \cup {None}
  /\ Len(calls) <= MaxCalls /\ asks <= MaxAsks
  /\ \A p \in Peers : Held(p) <= MaxStored

\* What chat_send gets for a peer is sealed under a phrase that was entered
\* while the dialog named that very peer (chat-ui.js:357-368 sets the key of
\* whoever is active when the dialog closes).
SentUnderItsPhrase ==
  \A i \in DOMAIN sends :
    <<sends[i].to, sends[i].ct.key[1].typed>> \in entered

\* "Plaintext DOM nodes are discarded" (chat-ui.js:370-373): plaintext of a
\* locked conversation is on display only until an answer under way comes.
PlaintextIsOnItsWayOut ==
  view.peer # None /\ view.word # None /\ keys[view.peer] = NoKey => calls # <<>>

\* "Both sides produce the same key" (chat-ui.js:129-132): a message reads
\* exactly under the phrase its writer typed, and an envelope copied from a
\* locked thread opens on the vault page under that phrase.
SamePhraseReads ==
  \A i \in DOMAIN view.bubbles :
    LET b == view.bubbles[i]
        phrase == b.ct.key[1] IN
    /\ view.word # None => (b.shown = b.ct.body <=> view.word = phrase.typed)
    /\ b.copy # NoEnvelope => DecryptChatEnvelope(b.copy, phrase) = Plain(b.ct.body)

\* "The input bar is hidden when locked, so this path normally can't run"
\* (chat-ui.js:525-527): no sequence of clicks and late answers reaches it.
NeverAskedToUnlockFirst == ~alerted

\* "opens the dialog" (chat-ui.js:12): whoever is asked for a phrase sees the
\* dialog, and can answer it.
AskedIsAnswerable == dialog # NoDialog => DialogShown

=============================================================================
